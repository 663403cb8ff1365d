----------------------------- MODULE MCRuntime -----------------------------
(***************************************************************************)
(* Runtime on small instances: a map with five keys that collide and wrap  *)
(* around, two lists and two frames, an arena of three pages, six keys of  *)
(* the trace table, four-bit integers and up to three arguments.           *)
(***************************************************************************)
EXTENDS Runtime, TLC

CONSTANT a

MCKeys == 1 .. 5
MCHash == [k \in MCKeys |-> <<7, 15, 7, 0, 14>>[k]]
MCListings ==
    {<<>>, <<Pair(1, "x"), Pair(2, "x"), Pair(1, "y")>>,
     <<Pair(3, "x"), Pair(2, "x"), Pair(3, "y"), Pair(5, "y"), Pair(2, "y")>>}

MCListLiterals == {<<>>, <<a>>, <<a, a, a, a>>}
MCListIndices == {-2, -1, 0, 1}

MCTraceHash == <<3, 7, 3, 0, 11, 4>>

MCTextHash == [t \in Texts |-> IF t \in {"a", "b"} THEN 1 ELSE IF t = "" THEN 0 ELSE 2]
MCLiteralLists == {<<>>, <<"a", "">>, <<"b", "a", "b">>}

Symmetry == Permutations(Lists)
=============================================================================
