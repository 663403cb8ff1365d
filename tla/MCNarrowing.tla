---------------------------- MODULE MCNarrowing ----------------------------
(* Narrowing with two values in the tested alternative, so that an           *)
(* assignment may leave the alternative as it is, and one in the other.      *)
EXTENDS Narrowing, TLC

CONSTANTS A, B, a1, a2, b1

MCValuesOf == (A :> {a1, a2}) @@ (B :> {b1})
MCSymmetry == Permutations({a1, a2})
=============================================================================
