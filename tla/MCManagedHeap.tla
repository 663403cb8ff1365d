--------------------------- MODULE MCManagedHeap ---------------------------
(* ManagedHeap on an arena of a few blocks. *)
EXTENDS ManagedHeap
=============================================================================
