------------------------------ MODULE Grammar ------------------------------
(***************************************************************************)
(* The language of GRAMMAR.ebnf, as what the parser is compared with.  A   *)
(* rule is a sequence of items; Ends(items, i, strict) is the set of       *)
(* positions behind a text that begins at i and that the items derive.     *)
(* The grammar is ambiguous where the parser decides by the next token;    *)
(* strict derivations are those without the readings that it never takes.  *)
(***************************************************************************)
EXTENDS Integers, Sequences, FiniteSets

VARIABLE tokens     \* the text, with "eof" at its end

\* Items: a token, a rule, a choice, an option, a repetition; Not is a
\* condition on the next token of strict derivations, Lax what others may add.
Tok(kind) == [tok |-> kind]
Rule(name) == [rule |-> name]
OneOf(alternatives) == [oneof |-> alternatives]
Opt(items) == [oneof |-> {<<>>, items}]
Rep(items) == [rep |-> items]
Not(kinds) == [not |-> kinds]
Lax(items) == [lax |-> items]
List(name) == <<Rule(name), Rep(<<Tok(","), Rule(name)>>)>>

\* The operators of each level of expressions, from the loosest.
LevelOperators == <<{"||"}, {"&&"}, {"|"}, {"^"}, {"&"}, {"=="}, {"<", "in"}, {"<<"}, {"+"}, {"*"}>>
LevelName == <<"expression", "and", "or", "xor", "bitand", "equality", "relational", "shift",
               "additive", "multiplicative", "unary">>
\* The grammar ends an operand of the levels below `is` with the type; the
\* parser goes on, taking the test as the left operand of what follows.
AfterTest == Lax(<<Rep(<<OneOf(
    UNION {{<<Tok(operator), Rule(LevelName[level + 1])>> : operator \in LevelOperators[level]}
           : level \in 8..10})>>)>>)
Binary(level) == <<Rule(LevelName[level + 1]), Rep(<<OneOf(
        {<<Tok(operator), Rule(LevelName[level + 1])>> : operator \in LevelOperators[level]}
        \cup IF level = 7 THEN {<<Tok("is"), Rule("type"), Not({"|"}), AfterTest>>} ELSE {})>>)>>

Branch(body) == <<Tok("if"), Rule("expression"), Rule(body)>>

Productions == 
  [ program |-> <<Rep(<<Rule("declaration")>>), Tok("eof")>>,
    declaration |-> <<OneOf({<<Rule("type_declaration")>>, <<Rule("function")>>})>>,
    type_declaration |->
        <<Tok("type"), Tok("id"), Tok("(")>> \o List("member") \o <<Tok(")"), Tok(";")>>,
    member |-> <<OneOf({<<Tok("id"), OneOf({<<Tok("&")>>, <<Not({"("})>>}), Rule("type")>>,
                        <<Rule("type")>>})>>,
    function |->
        <<Tok("fn"), Tok("id"), Tok("("), Opt(List("parameter")), Tok(")"),
          Opt(<<Rule("type")>>), Rule("block")>>,
    parameter |-> <<Opt(<<Tok("var")>>), Tok("id"), Rule("type")>>,
    type |-> <<Rule("type_atom"), Rep(<<Tok("|"), Rule("type_atom")>>)>>,
    type_atom |-> <<OneOf({
        <<Tok("int")>>, <<Tok("str")>>, <<Tok("("), Tok(")")>>, <<Tok("id")>>,
        <<Rule("list_type")>>, <<Rule("map_type")>>,
        <<Tok("id"), Tok("("), Rule("type"), Tok(")")>>, <<Tok("("), Rule("type"), Tok(")")>>})>>,
    list_type |-> <<Tok("["), Rule("type"), Tok("]")>>,
    map_type |-> <<Tok("{"), Rule("type"), Tok(":"), Rule("type"), Tok("}")>>,
    block |->
        <<Tok("{"), Rep(<<Rule("statement")>>),
          Opt(<<Not({"{", "if"})>> \o <<Rule("expression")>>), Tok("}")>>,
    statement |-> <<OneOf({
        <<Opt(<<Tok("var")>>), Tok("id"), Tok(":="), Rule("expression"), Tok(";")>>,
        <<Tok("id"), Rep(<<OneOf({<<Rule("index")>>, <<Rule("access")>>})>>),
          OneOf({<<Tok("=")>>, <<Tok("op=")>>}), Rule("expression"), Tok(";")>>,
        <<Not({"{", "if"})>> \o <<Rule("expression"), Tok(";")>>,
        <<Tok("return"), Opt(<<Rule("expression")>>), Tok(";")>>,
        <<Tok("break"), Tok(";")>>,
        Branch("body") \o <<Rep(<<Tok("else")>> \o Branch("body")), Opt(<<Tok("else"), Rule("body")>>)>>,
        <<Tok("while"), Rule("expression"), Rule("body")>>,
        <<Tok("for"), Tok("id"), Tok("in"), Rule("expression"), Rule("body")>>,
        <<Tok("switch"), Rule("expression"), Tok("{"), Rep(<<Rule("type"), Rule("body")>>),
          Opt(<<Tok("else"), Rule("body")>>), Tok("}")>>,
        <<Rule("block")>>})>>,
    body |-> <<OneOf({<<Rule("block")>>, <<Tok(":"), Rule("statement")>>})>>,
    expression_body |-> <<OneOf({<<Rule("block")>>, <<Tok(":"), Rule("expression")>>})>>,
    unary |-> <<OneOf({<<OneOf({<<Tok("!")>>, <<Tok("+")>>}), Rule("unary")>>, <<Rule("postfix")>>})>>,
    postfix |-> <<Rule("primary"), Rep(<<OneOf({
        <<Tok("("), Opt(List("argument")), Tok(")")>>, <<Rule("index")>>, <<Rule("access")>>,
        <<Tok("?")>>})>>)>>,
    argument |-> <<Opt(<<Tok("id"), Tok("=")>>), Rule("expression")>>,
    index |-> <<Tok("["), Rule("expression"), Tok("]")>>,
    access |-> <<Tok("."), OneOf({<<Tok("id")>>, <<Tok("num")>>})>>,
    primary |-> <<OneOf({
        <<Tok("id")>>, <<Tok("num")>>, <<Tok("lit")>>,
        <<Tok("int"), Tok("("), Rule("expression"), Tok(")")>>,
        <<Tok("("), Tok(")")>>, <<Tok("("), Rule("expression"), Tok(")")>>,
        <<Tok("["), Tok("]")>> \o <<Not({":"})>>, <<Tok("["), Tok("]"), Tok(":"), Rule("list_type")>>,
        <<Tok("[")>> \o List("expression") \o <<Tok("]")>>,
        <<Tok("{"), Tok("}")>> \o <<Not({":"})>>, <<Tok("{"), Tok("}"), Tok(":"), Rule("map_type")>>,
        <<Tok("{")>> \o List("entry") \o <<Tok("}")>>,
        <<Rule("block")>>,
        Branch("expression_body") \o <<Rep(<<Tok("else")>> \o Branch("expression_body")),
            Tok("else"), Rule("expression_body")>>})>>,
    entry |-> <<Rule("expression"), Tok(":"), Rule("expression")>>,
    expression |-> Binary(1), and |-> Binary(2), or |-> Binary(3), xor |-> Binary(4),
    bitand |-> Binary(5), equality |-> Binary(6), relational |-> Binary(7), shift |-> Binary(8),
    additive |-> Binary(9), multiplicative |-> Binary(10) ]

RECURSIVE Ends(_, _, _)
Ends(items, i, strict) ==
    IF items = <<>> THEN {i}
    ELSE LET item == Head(items)
             rest == Tail(items)
         IN  IF "tok" \in DOMAIN item
             THEN IF tokens[i] = item.tok
                  THEN IF rest = <<>> THEN {i + 1} ELSE Ends(rest, i + 1, strict)
                  ELSE {}
             ELSE IF "not" \in DOMAIN item
             THEN IF strict /\ tokens[i] \in item.not THEN {} ELSE Ends(rest, i, strict)
             ELSE IF "lax" \in DOMAIN item
             THEN IF strict THEN Ends(rest, i, strict) ELSE Ends(item.lax \o rest, i, strict)
             ELSE IF "rule" \in DOMAIN item
             THEN UNION {Ends(rest, j, strict) : j \in Ends(Productions[item.rule], i, strict)}
             ELSE IF "oneof" \in DOMAIN item
             THEN UNION {Ends(rest, j, strict) : j \in UNION {Ends(a, i, strict) : a \in item.oneof}}
             ELSE Ends(rest, i, strict) \cup
                  UNION {Ends(items, j, strict) : j \in Ends(item.rep, i, strict) \ {i}}

\* The text from i up to j is derived by the rule.
Derives(rule, i, j) == j \in Ends(<<Rule(rule)>>, i, FALSE)
DerivesStrictly(rule, i, j) == j \in Ends(<<Rule(rule)>>, i, TRUE)
=============================================================================
