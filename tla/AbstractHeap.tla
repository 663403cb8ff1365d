---------------------------- MODULE AbstractHeap ----------------------------
(***************************************************************************)
(* What a garbage-collected heap promises: storage handed out is an        *)
(* interval of the arena that overlaps no other one, and stays where it is *)
(* until it is taken back.                                                 *)
(***************************************************************************)
EXTENDS Integers

CONSTANTS Lowest, Capacity   \* the arena is [Lowest, Capacity)

VARIABLE extents   \* the intervals <<from, to>> in use

Disjoint(e, f) == e[2] <= f[1] \/ f[2] <= e[1]

Init == extents = {}

Allocate(e) ==
  /\ Lowest <= e[1] /\ e[1] < e[2] /\ e[2] <= Capacity
  /\ \A f \in extents : Disjoint(e, f)
  /\ extents' = extents \cup {e}

Reclaim == extents' \subseteq extents

Next == Reclaim \/ \E e \in extents' : Allocate(e)

Spec == Init /\ [][Next]_extents
=============================================================================
