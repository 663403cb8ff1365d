------------------------------- MODULE Parser -------------------------------
(***************************************************************************)
(* The parser (parser.rs) as a recogniser with error recovery: which token *)
(* sequences it accepts, which errors it reports, where it resumes, and    *)
(* how binary operators bind.  A token is its kind; names, literals and    *)
(* spans are left out, and operators of one precedence are one token.      *)
(*                                                                         *)
(* A procedure of the code is a sequence of items, which Run interprets.   *)
(* Procedures that recover, or that try one reading and then another, are  *)
(* operators of their own.                                                 *)
(***************************************************************************)
EXTENDS Integers, Sequences, FiniteSets, SequencesExt, Grammar

CONSTANTS
    MaxErrors,   \* MAX_SOURCE_ERRORS
    Contexts,    \* what is tried: tokens of `alphabet`, up to `limit` of them,
                 \* between the tokens `before` and `after`
    Later        \* the declarations that follow

VARIABLES
    context,     \* one of Contexts
    phase,       \* "writing" or "parsed"
    result       \* what the parser made of the tokens

vars == <<context, tokens, phase, result>>

-----------------------------------------------------------------------------
\* The parser's state: the position of the current token, the errors reported,
\* the operators applied so far; ok is false while an error, at the position
\* `error`, is on its way to a place that recovers.  `target` says that the
\* expression just parsed may be assigned to.
Start == [at |-> 1, errors |-> <<>>, ok |-> TRUE, error |-> 0,
          operators |-> {}, target |-> FALSE]

Peek(s, offset) == IF s.at + offset <= Len(tokens) THEN tokens[s.at + offset] ELSE "eof"
At(s, kinds) == tokens[s.at] \in kinds
Advance(s) == [s EXCEPT !.at = @ + 1]
Fail(s, position) == [s EXCEPT !.ok = FALSE, !.error = position]
Expect(s, kind) == IF At(s, {kind}) THEN Advance(s) ELSE Fail(s, s.at)

\* Diagnostics::push, which drops what is over the limit, and the recovery
\* that lets the parser go on.
Full(s) == Len(s.errors) = MaxErrors
Push(s) ==
    [s EXCEPT !.errors = IF Len(@) < MaxErrors THEN Append(@, s.error) ELSE @,
              !.ok = TRUE]

-----------------------------------------------------------------------------
\* Items of a procedure: a token, another procedure, a branch on the current
\* token or on the two next ones, a choice by the current token, a loop.
T(kind) == [item |-> "token", kind |-> kind]
P(procedure) == [item |-> "procedure", procedure |-> procedure]
If(kinds, then, else) == [item |-> "if", kinds |-> kinds, then |-> then, else |-> else]
IfNext(kind, next, then, else) ==
    [item |-> "ifnext", kind |-> kind, next |-> next, then |-> then, else |-> else]
Switch(cases) == [item |-> "switch", cases |-> cases]
While(kinds, body) == [item |-> "while", kinds |-> kinds, body |-> body]
Plain == [item |-> "plain"]       \* what was parsed is no assignment target
Take(kind) == If({kind}, <<T(kind)>>, <<>>)
CommaList(procedure) == <<P(procedure), While({","}, <<T(","), P(procedure)>>)>>

TypeStart == {"int", "str", "id", "[", "{", "("}
UnambiguousTypeStart == TypeStart \ {"("}
StatementStart == {"var", "return", "break", "while", "for", "switch", "{"}
AssignmentOperators == {"=", "op="}

\* current_binary_operator: the precedence of each operator.
Precedence ==
    ("||" :> 1) @@ ("&&" :> 2) @@ ("|" :> 3) @@ ("^" :> 4) @@ ("&" :> 5) @@ ("==" :> 6)
    @@ ("<" :> 7) @@ ("in" :> 7) @@ ("is" :> 7) @@ ("<<" :> 8) @@ ("+" :> 9) @@ ("*" :> 10)

\* Mutation: operators of one precedence group to the right.
RightMinimumSame(operator) == Precedence[operator]

\* What the right operand of an operator has to bind like at least.
RightMinimum(operator) == Precedence[operator] + 1

Declarations ==
  [ type_declaration |->
        <<T("type"), T("id"), T("(")>> \o CommaList("type_member") \o <<T(")"), T(";")>>,
    type_member |->
        <<IfNext("id", {"&"} \cup UnambiguousTypeStart,
                 <<T("id"), Take("&"), P("type")>>, <<P("type")>>)>>,
    function |->
        <<T("fn"), T("id"), T("("), If({")"}, <<>>, CommaList("parameter")), T(")"),
          P("return_type"), P("block")>>,
    parameter |-> <<Take("var"), T("id"), P("type")>> ]

Types ==
  [ type |-> <<P("type_atom"), While({"|"}, <<T("|"), P("type_atom")>>)>>,
    type_atom |-> <<Switch(
        ("int" :> <<T("int")>>) @@ ("str" :> <<T("str")>>)
        @@ ("id" :> <<T("id"), If({"("}, <<T("("), P("type"), T(")")>>, <<>>)>>)
        @@ ("[" :> <<P("list_type")>>) @@ ("{" :> <<P("map_type")>>)
        @@ ("(" :> <<T("("), If({")"}, <<>>, <<P("type")>>), T(")")>>))>>,
    list_type |-> <<T("["), P("type"), T("]")>>,
    map_type |-> <<T("{"), P("type"), T(":"), P("type"), T("}")>> ]

\* parse_statement with a declaration; what an expression begins is left to
\* ExpressionItem.
SimpleStatements ==
  [ statement |->
        <<IfNext("id", {":="}, <<P("local_declaration")>>,
          <<If(StatementStart \cup {"if"}, <<Switch(
               ("var" :> <<P("local_declaration")>>)
            @@ ("return" :> <<T("return"), If({";"}, <<>>, <<P("expression")>>), T(";")>>)
            @@ ("break" :> <<T("break"), T(";")>>)
            @@ ("if" :> <<P("if_statement")>>)
            @@ ("while" :> <<T("while"), P("expression"), P("statement_body")>>)
            @@ ("for" :> <<T("for"), T("id"), T("in"), P("expression"), P("statement_body")>>)
            @@ ("switch" :> <<T("switch"), P("expression"), T("{"), P("switch_arms"), T("}")>>)
            @@ ("{" :> <<P("block")>>))>>,
            <<P("expression_item"), P("statement_end")>>)>>)>>,
    local_declaration |-> <<Take("var"), T("id"), T(":="), P("expression"), T(";")>> ]

Bodies ==
  [ if_statement |-> <<T("if"), P("expression"), P("statement_body"), P("else_statement")>>,
    else_statement |->
        <<If({"else"}, <<T("else"), If({"if"},
              <<T("if"), P("expression"), P("statement_body"), P("else_statement")>>,
              <<P("statement_body")>>)>>, <<>>)>>,
    switch_arms |->
        <<If({"}"}, <<>>, <<If({"else"}, <<T("else"), P("statement_body")>>,
                                <<P("type"), P("statement_body"), P("switch_arms")>>)>>)>>,
    statement_body |-> <<If({"{"}, <<P("block")>>, <<T(":"), P("statement")>>)>> ]

Primaries ==
  [ primary |-> <<Switch(
        ("id" :> <<P("identifier")>>)
        @@ ("num" :> <<T("num"), Plain>>) @@ ("lit" :> <<T("lit"), Plain>>)
        @@ ("int" :> <<T("int"), T("("), P("expression"), T(")"), Plain>>)
        @@ ("(" :> <<T("("), If({")"}, <<>>, <<P("expression")>>), T(")"), Plain>>)
        @@ ("[" :> <<T("["), If({"]"}, <<T("]"), If({":"}, <<T(":"), P("list_type")>>, <<>>)>>,
                                CommaList("expression") \o <<T("]")>>), Plain>>)
        @@ ("{" :> <<P("braced_expression"), Plain>>)
        @@ ("if" :> <<T("if"), P("expression"), P("expression_body"), P("else_expression"), Plain>>))>> ]

Calls ==
  [ call |-> <<T("("), If({")"}, <<>>, CommaList("argument")), T(")"), Plain>>,
    argument |-> <<IfNext("id", {"="}, <<T("id"), T("=")>>, <<>>), P("expression")>> ]

Compounds ==
  [ map_entries |->
        <<T(":"), P("expression"),
          While({","}, <<T(","), P("expression"), T(":"), P("expression")>>), T("}")>>,
    else_expression |->
        <<T("else"), If({"if"}, <<T("if"), P("expression"), P("expression_body"), P("else_expression")>>,
                                <<P("expression_body")>>)>>,
    expression_body |-> <<If({"{"}, <<P("block")>>, <<T(":"), P("expression")>>)>> ]

Procedures ==
    Declarations @@ Types @@ SimpleStatements @@ Bodies @@ Primaries @@ Calls @@ Compounds

-----------------------------------------------------------------------------
\* synchronize_statement and synchronize_top_level: where the parser resumes.
NextOf(s, kinds) ==
    CHOOSE i \in s.at..Len(tokens) :
        /\ tokens[i] \in kinds
        /\ \A j \in s.at..(i - 1) : tokens[j] \notin kinds

\* Mutation: a declaration does not end the search.
SynchronizeInBlock(s) ==
    LET i == NextOf(s, {";", "}", "eof"})
    IN  [s EXCEPT !.at = IF tokens[i] = ";" THEN i + 1 ELSE i]

SynchronizeStatement(s) ==
    LET i == NextOf(s, {";", "}", "fn", "type", "eof"})
    IN  [s EXCEPT !.at = IF tokens[i] = ";" THEN i + 1 ELSE i]

SynchronizeTopLevel(s) == [s EXCEPT !.at = NextOf(s, {"fn", "type", "eof"})]

RECURSIVE Run(_, _), BlockItems(_), BinaryRest(_, _, _), Postfix(_)

PrefixEnd(s) ==
    CHOOSE i \in s.at..Len(tokens) :
        tokens[i] \notin {"!", "+"} /\ \A j \in s.at..(i - 1) : tokens[j] \in {"!", "+"}
Unary(s) ==
    [Postfix(Run([s EXCEPT !.at = PrefixEnd(s)], <<P("primary")>>)) EXCEPT
        !.target = @ /\ PrefixEnd(s) = s.at]

BinaryExpression(s, minimum) == BinaryRest(Unary(s), s.at, minimum)

\* The loop of parse_binary_expression.  An operator applied to what has been
\* parsed since `start` is recorded with the extent of its right operand.
RightOperand(left) ==
    IF At(left, {"is"}) THEN Run(Advance(left), <<P("type")>>)
    ELSE BinaryExpression(Advance(left), RightMinimum(tokens[left.at]))
Applied(left, start, right) ==
    IF ~ right.ok THEN right
    ELSE [right EXCEPT !.operators = @ \cup {[start |-> start, at |-> left.at, end |-> right.at]},
                       !.target = FALSE]
BinaryRest(left, start, minimum) ==
    IF ~ left.ok \/ ~ At(left, DOMAIN Precedence) \/ Precedence[tokens[left.at]] < minimum
    THEN left ELSE BinaryRest(Applied(left, start, RightOperand(left)), start, minimum)

\* The loop of parse_postfix_expression: an index or a member of a target is one.
PostfixItems ==
    ("(" :> <<P("call")>>) @@ ("[" :> <<T("["), P("expression"), T("]")>>)
    @@ ("." :> <<T("."), If({"id"}, <<T("id")>>, <<T("num")>>)>>) @@ ("?" :> <<T("?"), Plain>>)
Postfix(s) ==
    IF ~ s.ok \/ ~ At(s, {"(", "[", ".", "?"}) THEN s
    ELSE Postfix([Run(s, PostfixItems[tokens[s.at]]) EXCEPT
                    !.target = IF At(s, {"["}) THEN s.target ELSE @])

\* An expression at the start of a statement, with the assignment it may begin.
\* A target that cannot be assigned to is an error at its own start.
Assignment(s, left) ==
    IF ~ left.ok \/ ~ At(left, AssignmentOperators) THEN left
    ELSE IF ~ left.target THEN Fail(Advance(left), s.at)
    ELSE Run(Advance(left), <<P("expression"), T(";")>>)
ExpressionItem(s) == Assignment(s, BinaryExpression(s, 1))

\* What follows it: nothing behind an assignment, which has its semicolon.
Ended(s) == tokens[s.at - 1] = ";"
ItemEnd(item) ==
    IF ~ item.ok \/ Ended(item) \/ At(item, {"}"}) THEN item ELSE Expect(item, ";")

\* parse_block_item: an `if` is a statement if it can be read as one, and
\* otherwise an expression, for which the errors of the first reading go.
OrExpression(s, statement) == IF statement.ok THEN statement ELSE ItemEnd(ExpressionItem(s))
BlockItem(s) ==
    IF At(s, {"if"}) THEN OrExpression(s, Run(s, <<P("if_statement")>>))
    ELSE IF At(s, StatementStart) \/ (At(s, {"id"}) /\ Peek(s, 1) = ":=")
    THEN Run(s, <<P("statement")>>)
    ELSE ItemEnd(ExpressionItem(s))

\* The loop of parse_block.
Recovered(item) == IF item.ok THEN item ELSE SynchronizeStatement(Push(item))
BlockItems(s) ==
    IF At(s, {"}"}) THEN Advance(s)
    ELSE IF At(s, {"eof", "fn", "type"}) THEN Fail(s, s.at)
    ELSE BlockItems(Recovered(BlockItem(s)))

Block(s) == IF At(s, {"{"}) THEN BlockItems(Advance(s)) ELSE Fail(s, s.at)

\* A braced expression is a map if a colon follows its first expression, and
\* otherwise read again, from the brace, as a block: the cursor, the errors and
\* the tree are again those of the brace.
MapOrBlock(s, first) ==
    IF first.ok /\ At(first, {":"}) THEN Run(first, <<P("map_entries")>>) ELSE Block(s)
BracedExpression(s) ==
    IF Peek(s, 1) = "}" THEN Run(s, <<T("{"), T("}"), If({":"}, <<T(":"), P("map_type")>>, <<>>)>>)
    ELSE MapOrBlock(s, BinaryExpression(Advance(s), 1))

\* try_parse_map_return_type: before a brace only a map type that a body follows.
ReturnOrBody(s, type) ==
    IF ~ At(s, TypeStart) \/ (At(s, {"{"}) /\ ~ (type.ok /\ At(type, {"{"}))) THEN s ELSE type
ReturnType(s) == ReturnOrBody(s, Run(s, <<P("type")>>))

Call(s, procedure) ==
    CASE procedure = "block" -> Block(s)
      [] procedure = "expression" -> BinaryExpression(s, 1)
      [] procedure = "expression_item" -> ExpressionItem(s)
      [] procedure = "statement_end" -> IF Ended(s) THEN s ELSE Expect(s, ";")
      [] procedure = "braced_expression" -> BracedExpression(s)
      [] procedure = "return_type" -> ReturnType(s)
      [] procedure = "identifier" -> [Expect(s, "id") EXCEPT !.target = TRUE]
      [] OTHER -> Run(s, Procedures[procedure])

\* The items that a branch, a choice or a loop stands for here.
Chosen(s, i) ==
    CASE i.item = "if" -> IF At(s, i.kinds) THEN i.then ELSE i.else
      [] i.item = "ifnext" -> IF At(s, {i.kind}) /\ Peek(s, 1) \in i.next THEN i.then ELSE i.else
      [] i.item = "switch" -> i.cases[tokens[s.at]]
      [] i.item = "while" -> IF At(s, i.kinds) THEN i.body \o <<i>> ELSE <<>>
Step(s, i) ==
    CASE i.item = "token" -> Expect(s, i.kind)
      [] i.item = "procedure" -> Call(s, i.procedure)
      [] i.item = "plain" -> [s EXCEPT !.target = FALSE]
      [] i.item = "switch" /\ ~ At(s, DOMAIN i.cases) -> Fail(s, s.at)
      [] OTHER -> Run(s, Chosen(s, i))

\* An error leaves every procedure up to the one that recovers.
Run(s, items) ==
    IF ~ s.ok \/ items = <<>> THEN s ELSE Run(Step(s, Head(items)), Tail(items))

\* parse_program; `declared` holds where the accepted declarations begin.
Declaration(s) ==
    IF At(s, {"type", "fn"})
    THEN Run(s, <<P(IF At(s, {"type"}) THEN "type_declaration" ELSE "function")>>) ELSE Fail(s, s.at)
RECURSIVE Program(_, _), Declared(_, _, _)
Declared(s, declared, declaration) ==
    IF declaration.ok THEN Program(declaration, declared \cup {s.at})
    ELSE Program(SynchronizeTopLevel(Push(declaration)), declared)
Program(s, declared) ==
    IF At(s, {"eof"}) \/ Full(s) THEN [declared |-> declared, errors |-> s.errors, operators |-> s.operators]
    ELSE Declared(s, declared, Declaration(s))

-----------------------------------------------------------------------------
Init ==
    /\ context \in Contexts
    /\ tokens = context.before \o context.after \o Later
    /\ phase = "writing"
    /\ result = <<>>

Written == Len(tokens) - Len(context.before \o context.after \o Later)

\* The text grows by a token in front of `after`.
Write ==
    /\ phase = "writing"
    /\ Written < context.limit
    /\ \E kind \in context.alphabet :
        tokens' = InsertAt(tokens, Len(context.before) + Written + 1, kind)
    /\ UNCHANGED <<context, phase, result>>

Parse ==
    /\ phase = "writing"
    /\ phase' = "parsed"
    /\ result' = Program(Start, {})
    /\ UNCHANGED <<context, tokens>>

Next == Write \/ Parse

Spec == Init /\ [][Next]_vars

-----------------------------------------------------------------------------
Parsed == phase = "parsed"
Accepted == result.errors = <<>>

\* The variables have the types of their comments.
ParserTypeOK ==
    /\ context \in Contexts
    /\ phase \in {"writing", "parsed"}
    /\ Parsed =>
        /\ result.declared \subseteq DOMAIN tokens
        /\ Len(result.errors) <= MaxErrors
        /\ \A i \in DOMAIN result.errors : result.errors[i] \in DOMAIN tokens

\* The language of the parser against GRAMMAR.ebnf.
GrammarAgreed ==
    Parsed =>
        /\ DerivesStrictly("program", 1, Len(tokens) + 1) => Accepted
        /\ Accepted => Derives("program", 1, Len(tokens) + 1)

\* Each operator takes operands of the levels the grammar gives it, unless its
\* left operand ends with a type test.
OperandsBind ==
    Parsed /\ Accepted => \A o \in result.operators :
        LET level == Precedence[tokens[o.at]]
            afterTest == \E t \in result.operators : tokens[t.at] = "is" /\ t.end = o.at
        IN  /\ Derives(LevelName[level], o.start, o.at) \/ (afterTest /\ level > 7)
            /\ tokens[o.at] /= "is" => Derives(LevelName[level + 1], o.at + 1, o.end)

\* Recovery.
LaterDeclarationsFound ==
    Parsed /\ Len(result.errors) < MaxErrors =>
        \A d \in DOMAIN tokens :
            d > Len(tokens) - Len(Later) /\ tokens[d] \in {"fn", "type"} => d \in result.declared
=============================================================================
