------------------------------ MODULE MCTyping ------------------------------
EXTENDS Typing

Node(op, name, ty, args) ==
  [op |-> op, name |-> name, ty |-> ty, args |-> args,
   st |-> NoType, open |-> "", inj |-> <<>>, wide |-> NoType, bad |-> FALSE]
Op(op, args) == Node(op, "", NoType, args)

Str == Kind("str")
Either == [k |-> "union", of |-> <<Part("plain", IntType), Part("plain", Str)>>]
Fallible == [k |-> "union", of |-> <<Part("plain", IntType), Part("Error", Str)>>]
Choice == [k |-> "choice", of |-> <<Part("plain", IntType), Part("plain", ListOf(IntType))>>]
Tags == [k |-> "choice", of |-> <<Part("A", IntType), Part("B", Either)>>]
Pair == [k |-> "struct", of |-> <<Part("a", IntType), Part("b", Either)>>]
Function(parameter, result) ==
  [k |-> "function", of |-> <<Part("result", result), Part("parameter", parameter)>>]

One == Node("lit", "", IntType, <<>>)
Text == Node("lit", "", Str, <<>>)
True == Node("lit", "", BoolType, <<>>)
X == Node("id", "x", NoType, <<>>)
Y == Node("id", "y", NoType, <<>>)
Use == Node("call", "", Function(IntType, IntType), <<X>>)
Leaf == {One, Text, X, Op("list", <<>>)}
Around(e) ==
  {Op(op, <<e>>) : op \in {"list", "fail", "try"}}
  \union {Op("list", <<One, e>>), Op("if", <<True, e, One>>), Op("if", <<True, e, Op("panic", <<>>)>>),
          Op("add", <<e, One>>), Op("index", <<e, One>>), Op("append", <<e, One>>),
          Op("append", <<Op("list", <<One>>), e>>),
          Node("struct", "", Pair, <<One, e>>), Node("struct", "", Pair, <<e, e>>),
          Node("wrap", "", Choice, <<e>>)}
  \union {Node("tag", tag, Tags, <<e>>) : tag \in {"A", "B"}}
  \union {Node("call", "", f, <<e>>) : f \in {Function(IntType, IntType), Function(Either, Fallible),
                                             Function(ListOf(Either), ListOf(IntType))}}
Test(label) == Node("is", "", [k |-> "label", of |-> <<label>>], <<X>>)
Labels == {Part("plain", IntType), Part("Error", NoType)}
Small == Leaf \union UNION {Around(e) : e \in Leaf}
Expr == Small \union UNION {Around(e) : e \in Small}
Guarded == {Op("if", <<Test(l), e, One>>) : l \in Labels, e \in Leaf \union Around(X)}

Return(e) == Op("return", <<e>>)
Local(e) == Node("local", "y", NoType, <<e>>)
Assign(e) == Node("assign", "x", NoType, <<e>>)
Bodies == {<<Return(e)>> : e \in Expr \union Guarded}
          \union {<<Local(e), Return(Y)>> : e \in Small}
          \union {<<Assign(e), Return(X)>> : e \in Small \union Guarded}
          \union {<<Op("when", <<Test(l), s>>), Return(X)>> :
                    l \in Labels, s \in {Return(e) : e \in Around(X)} \union {Assign(One), Op("eval", <<X>>)}}
          \union {<<Op("when", <<Test(l), Assign(e), Return(X)>>), Return(One)>> :
                    l \in Labels, e \in {One, X}}

Given == {IntType, Either, Fallible, ListOf(IntType)}
Wanted == Given \union {UnitType, ListOf(Either), Choice, Pair, Tags}
MCPrograms == [names : {[x |-> t, y |-> NoType] : t \in Given}, result : Wanted,
               main : {FALSE}, body : Bodies]

Program(x, result, stmts) ==
  [names |-> [x |-> x, y |-> NoType], result |-> result, main |-> FALSE, body |-> stmts]

\* if x is int: return use(x); return 1;
Narrowed == {Program(Either, IntType, <<Op("when", <<Test(Part("plain", IntType)), Return(Use)>>), Return(One)>>)}
\* return x?;  where the success and the error of x are both strings
Failing == [k |-> "union", of |-> <<Part("plain", Str), Part("Error", Str)>>]
Silent == {Program(Failing, Fallible, <<Return(Op("try", <<X>>))>>)}
=============================================================================
