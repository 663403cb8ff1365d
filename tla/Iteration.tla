----------------------------- MODULE Iteration -----------------------------
(***************************************************************************)
(* Loops over managed lists: the control flow that for_loop, while_loop,   *)
(* loop_control, return_statement and try_expression of lowering.rs give a *)
(* function, run against the list operations of the C backend.  A loop     *)
(* locks its list against structural change; every way out of the loop,    *)
(* and out of the function around it, must take exactly its own lock away. *)
(*                                                                         *)
(* Loops over maps are lowered alike and lock the same way (OrderedMap).   *)
(* The branches of a program are nondeterministic choices here.  A panic   *)
(* ends the program, without cleanup.                                      *)
(***************************************************************************)
EXTENDS Integers, Sequences, FiniteSets

CONSTANTS
  Lists, Values,
  Literals,      \* the element lists of list expressions
  CapacityMax,   \* INT64_MAX, beyond which no capacity may grow
  Indices,       \* the indices the program uses
  MaxFrames,     \* bound on the nesting of calls
  MaxLoops,      \* bound on the loops active at a time
  NoList         \* what a while loop iterates over

ListAssumption ==
  /\ NoList \notin Lists /\ Indices \subseteq Int
  /\ Literals \subseteq Seq(Values)
  /\ CapacityMax \in Nat \ (0 .. 7) /\ MaxFrames \in Nat \ {0} /\ MaxLoops \in Nat

VARIABLES
  list,      \* the controls of the lists
  frames,    \* the active loops of each active function, innermost last
  outcome    \* "running", or what the program panicked with

vars == <<list, frames, outcome>>

Outcomes == {"running", "locked", "range", "exhausted"}
Control == [elements : Seq(Values), capacity : Nat, locks : Int]

\* An active loop is evaluating its header or its body.
Loop == [over : Lists \cup {NoList}, length : Nat, index : Nat,
         at : {"header", "body"}]

Top == Len(frames)
Loops == frames[Top]
Inner == Loops[Len(Loops)]
ActiveLoops == UNION {{<<f, n>> : n \in DOMAIN frames[f]} : f \in DOMAIN frames}
LoopAt(p) == frames[p[1]][p[2]]

-----------------------------------------------------------------------------
(* List operations. *)

CapacityShort(required, current) ==   \* mutation: off by one
  IF current = 0 THEN 4 ELSE IF required > current + 1 THEN 2 * current ELSE current

\* sao2_list_capacity: 0 when the limit is met.
Capacity(required, current) ==
  LET first == IF current = 0 THEN 4 ELSE current
      capacities == {c \in first .. CapacityMax :
                       c >= required /\ \E n \in 0 .. CapacityMax : c = first * (2 ^ n)}
  IN  IF capacities = {} THEN 0
      ELSE CHOOSE c \in capacities : \A d \in capacities : c <= d

\* sao2_list_index: a negative index counts from the end.
InRange(elements, index) == - Len(elements) <= index /\ index < Len(elements)
PositionOf(elements, index) == IF index < 0 THEN Len(elements) + index ELSE index

\* The program is where statements execute: in a function, or in a loop's body.
Executing == outcome = "running" /\ (Loops # <<>> => Inner.at = "body")
Panic(reason) == outcome' = reason /\ UNCHANGED <<list, frames>>
Update(l, control) == list' = [list EXCEPT ![l] = control] /\ UNCHANGED <<frames, outcome>>

\* sao2_list_append
ListAppend(l, v) ==
  LET elements == list[l].elements
      grown == Capacity(Len(elements) + 1, list[l].capacity) IN
  /\ Executing
  /\ \/ list[l].locks # 0 /\ Panic("locked")
     \/ /\ list[l].locks = 0 /\ Len(elements) + 1 <= list[l].capacity
        /\ Update(l, [list[l] EXCEPT !.elements = Append(elements, v)])
     \/ /\ list[l].locks = 0 /\ Len(elements) + 1 > list[l].capacity
        /\ \/ /\ grown # 0
              /\ Update(l, [list[l] EXCEPT !.elements = Append(elements, v),
                                           !.capacity = grown])
           \/ Panic("exhausted")

\* sao2_list_remove: the later elements move down by one.
Without(elements, position) ==
  [i \in 1 .. Len(elements) - 1 |->
     IF i <= position THEN elements[i] ELSE elements[i + 1]]

RemoveUnlocked(l, index) ==   \* mutation: the lock is not checked
  LET elements == list[l].elements IN
  /\ Executing
  /\ \/ ~InRange(elements, index) /\ Panic("range")
     \/ /\ InRange(elements, index)
        /\ Update(l, [list[l] EXCEPT
             !.elements = Without(elements, PositionOf(elements, index))])

ListRemoveIndex(l, index) ==
  LET elements == list[l].elements IN
  /\ Executing
  /\ \/ list[l].locks # 0 /\ Panic("locked")
     \/ list[l].locks = 0 /\ ~InRange(elements, index) /\ Panic("range")
     \/ /\ list[l].locks = 0 /\ InRange(elements, index)
        /\ Update(l, [list[l] EXCEPT
             !.elements = Without(elements, PositionOf(elements, index))])

\* sao2_list_store: replacing an element is not structural.
ListStore(l, index, v) ==
  LET elements == list[l].elements IN
  /\ Executing
  /\ \/ ~InRange(elements, index) /\ Panic("range")
     \/ /\ InRange(elements, index)
        /\ Update(l, [list[l] EXCEPT
             !.elements = [@ EXCEPT ![PositionOf(elements, index) + 1] = v]])

-----------------------------------------------------------------------------
(* Control flow. *)

SetLoops(loops) == frames' = [frames EXCEPT ![Top] = loops]
Outer == SubSeq(Loops, 1, Len(Loops) - 1)

BeginIteration(l) == list' = [list EXCEPT ![l].locks = @ + 1]

\* EndIteration for the lists of some loops, one for each loop.
EndIterations(loops) ==
  list' = [l \in Lists |-> [list[l] EXCEPT
             !.locks = @ - Cardinality({n \in DOMAIN loops : loops[n].over = l})]]

\* The iterable is locked before its length is read.
EnterFor(l) ==
  /\ Executing
  /\ Cardinality(ActiveLoops) < MaxLoops
  /\ BeginIteration(l)
  /\ SetLoops(Append(Loops, [over |-> l, length |-> Len(list[l].elements),
                             index |-> 0, at |-> "header"]))
  /\ UNCHANGED outcome

EnterWhile ==
  /\ Executing
  /\ Cardinality(ActiveLoops) < MaxLoops
  /\ SetLoops(Append(Loops, [over |-> NoList, length |-> 0, index |-> 0, at |-> "body"]))
  /\ UNCHANGED <<list, outcome>>

\* The header finds another element: the binding takes its value.
NextElement ==
  /\ outcome = "running"
  /\ Loops # <<>> /\ Inner.at = "header" /\ Inner.index < Inner.length
  /\ SetLoops([Loops EXCEPT ![Len(Loops)].at = "body"])
  /\ UNCHANGED <<list, outcome>>

\* The end of a for loop's body and `continue' lead to the same block.
Continue ==
  /\ Executing
  /\ Loops # <<>> /\ Inner.over # NoList
  /\ SetLoops([Loops EXCEPT ![Len(Loops)].at = "header", ![Len(Loops)].index = @ + 1])
  /\ UNCHANGED <<list, outcome>>

\* Exhaustion, and `break' of the innermost loop: its cleanup block unlocks.
Leave ==
  /\ Loops # <<>>
  /\ \/ Executing
     \/ outcome = "running" /\ Inner.at = "header" /\ Inner.index >= Inner.length
  /\ EndIterations(<<Inner>>)
  /\ SetLoops(Outer)
  /\ UNCHANGED outcome

Call ==
  /\ Executing
  /\ Top < MaxFrames
  /\ frames' = Append(frames, <<>>)
  /\ UNCHANGED <<list, outcome>>

ReturnInnermost ==   \* mutation: only the innermost loop is cleaned up
  /\ Executing
  /\ Top > 1
  /\ EndIterations(IF Loops = <<>> THEN <<>> ELSE <<Inner>>)
  /\ frames' = SubSeq(frames, 1, Top - 1)
  /\ UNCHANGED outcome

\* `return', and an error that postfix try propagates, leave the function after
\* emit_active_cleanups for every loop they are in.
Return ==
  /\ Executing
  /\ Top > 1
  /\ EndIterations(Loops)
  /\ frames' = SubSeq(frames, 1, Top - 1)
  /\ UNCHANGED outcome

-----------------------------------------------------------------------------
\* A list expression whose elements are too many panics, and there is no list.
Constructible == {e \in Literals : e # <<>> => Capacity(Len(e), 0) # 0}

Init ==
  /\ list \in [Lists -> {[elements |-> e, locks |-> 0,
                          capacity |-> IF e = <<>> THEN 0 ELSE Capacity(Len(e), 0)]
                         : e \in Constructible}]
  /\ frames = <<<<>>>> /\ outcome = "running"

Next ==
  \/ \E l \in Lists : \/ EnterFor(l)
                      \/ \E v \in Values : ListAppend(l, v)
                      \/ \E i \in Indices : ListRemoveIndex(l, i)
                      \/ \E i \in Indices, v \in Values : ListStore(l, i, v)
  \/ EnterWhile \/ NextElement \/ Continue \/ Leave \/ Call \/ Return

Spec == Init /\ [][Next]_vars

-----------------------------------------------------------------------------
(* Properties. *)

\* Every variable stays within its type.
IterationTypeOK ==
  /\ list \in [Lists -> Control]
  /\ \A l \in Lists : Len(list[l].elements) <= list[l].capacity
  /\ frames \in Seq(Seq(Loop)) /\ Top \in 1 .. MaxFrames
  /\ outcome \in Outcomes

\* A list is locked once for each loop over it that some function is still in,
\* whatever way earlier loops and functions were left.
LocksExact ==
  \A l \in Lists :
    list[l].locks = Cardinality({p \in ActiveLoops : LoopAt(p).over = l})

\* The length a loop read on entry stays that of its list, through every alias
\* and callee: the element a body starts with exists, so that the invariant of
\* sao2_list_iteration_value cannot fail.
SnapshotCurrent ==
  \A p \in ActiveLoops :
    LoopAt(p).over # NoList =>
      /\ LoopAt(p).length = Len(list[LoopAt(p).over].elements)
      /\ LoopAt(p).at = "body" => LoopAt(p).index < LoopAt(p).length
=============================================================================
