--------------------------- MODULE MCCompilation ---------------------------
(***************************************************************************)
(* Command lines in which options and words stand in every order; bodies   *)
(* with one name that declarations may share; every program of seven       *)
(* tokens over a union of A, in which the variable may stay when it is     *)
(* assigned to, and of B; and every function of three blocks that are      *)
(* among those listed here, with two temporaries and two containers.       *)
(***************************************************************************)
EXTENDS Compilation, TLC

CONSTANTS MaxWords, t1, t2, b1, b2, b3, A, B, a1, a2, b

Options == INSTANCE CommandLine
Words == {"s", Options!ShowC, Options!Delimiter}
MCLines == {<<>>, <<"--help">>, <<"-h", "s">>, <<"check", "s">>, <<"build", "t">>, <<"run", "t">>}
    \cup UNION {{<<k>> \o w : k \in {"build", "run"}, w \in [1..n -> Words]} : n \in 0..MaxWords}

D(kind, name) == [kind |-> kind, name |-> name]
HeadOf(declarations_, parameters_) == [declarations |-> declarations_, parameters |-> parameters_]
MCHeads == {
    HeadOf(<<>>, <<>>), HeadOf(<<>>, <<"x">>), HeadOf(<<D("type", "x"), D("fn", "x")>>, <<>>),
    HeadOf(<<D("fn", "Error"), D("type", "x")>>, <<"x">>), HeadOf(<<D("fn", "print"), D("fn", "x")>>, <<>>),
    HeadOf(<<D("type", "x"), D("type", "x")>>, <<"x", "x">>)}

Begin(t) == [kind |-> "begin", iterable |-> t, to |-> other]
Value(t, to) == [kind |-> "value", iterable |-> t, to |-> to]
End(t) == [kind |-> "end", iterable |-> t, to |-> other]
Write(t) == [kind |-> "other", iterable |-> other, to |-> t]

MCOperations ==
  {<<>>, <<Begin(t1)>>, <<End(t1)>>, <<Begin(t2), Begin(t1)>>, <<End(t2)>>,
   <<Value(t1, t2)>>, <<Write(other), Value(t1, other), End(t1)>>, <<Write(t1)>>,
   <<Begin(other), End(other)>>}

MCExits ==
  {[exit |-> "return", targets |-> <<>>], [exit |-> "stop", targets |-> <<>>]}
  \cup {[exit |-> "goto", targets |-> t] : t \in
          {<<b1>>, <<b2>>, <<b3>>, <<b2, b3>>, <<b3, b2>>, <<b3, b3>>}}

MCBlocks ==
  {[operations |-> o, exit |-> e.exit, targets |-> e.targets] :
     o \in MCOperations, e \in MCExits}

\* The last block does not matter where nothing goes to it.
MCFunctions ==
  {f \in [Blocks -> MCBlocks] :
     /\ \E n \in DOMAIN f[b1].targets : f[b1].targets[n] # b1
     /\ f[b1].targets \in {<<b2>>, <<b2, b3>>}
     /\ f[b3].targets \notin {<<b3, b2>>}
     /\ f[b2].targets = <<>> => f[b1].targets = <<b2, b3>> \/ f[b3] = f[b2]}

MCPositions == {-1, 0, 1}

MCValuesOf == (A :> {a1, a2}) @@ (B :> {b})

Symmetry == Permutations({a1, a2}) \cup Permutations(Containers)
=============================================================================
