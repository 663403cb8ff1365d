------------------------------- MODULE MCFlow -------------------------------
EXTENDS Flow

Node(op, args) == [op |-> op, args |-> args]
Val == Node("val", <<>>)
Panic == Node("panic", <<Val>>)
Cut == Node("block", <<Node("return", <<Val>>), Val>>)     \* { return v; v }
Leaf == {Val, Panic, Cut}
Expr == Leaf
        \union {Node(op, <<a, b>>) : op \in {"strict", "short"}, a \in Leaf, b \in Leaf}
        \union {Node("if", <<a, b, c>>) : a \in Leaf, b \in Leaf, c \in Leaf}
        \union {Node(op, <<a>>) : op \in {"try", "is", "convert"}, a \in Leaf}
        \union {Node("if", <<Val, b, c, d, Val>>) : b \in Leaf, c \in Leaf, d \in Leaf}
Body == {Node("break", <<>>), Node("continue", <<>>), Node("return", <<Val>>), Val,
         Node("block", <<Node("break", <<>>), Val, None>>)}
Simple == Expr \union {Node(op, <<e>>) : op \in {"local", "return"}, e \in Expr}
               \union {Node("return", <<>>)}
Compound == {Node("ifs", <<c, a, b>>) : c \in Leaf, a \in Body, b \in Body \union {None}}
            \union {Node(op, <<c, a>>) : op \in {"while", "for"}, c \in Leaf, a \in Body}
            \union {Node("switch", <<c, a, b>>) : c \in Leaf, a \in Body, b \in Body}
Looped == {Node(op, <<Val, Node("block", <<s, Val, None>>)>>) :
             op \in {"while", "for"}, s \in Compound \union {Node("local", <<Cut>>)}}
Bodies == {Node("block", <<s, v>>) : s \in Simple \union Compound \union Looped, v \in {None, Val, Panic}}
\* x := { return v; v }; v
Cutting == {[returns |-> "value", body |-> Node("block", <<Node("local", <<Cut>>), Val>>)]}
MCPrograms == [returns : {"unit", "value"}, body : Bodies]
=============================================================================
