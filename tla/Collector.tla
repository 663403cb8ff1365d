----------------------------- MODULE Collector -----------------------------
(***************************************************************************)
(* The precise collector around the managed heap: a program that keeps     *)
(* references in the locals of its shadow frames and in the fields of its  *)
(* objects, the trace that a collection runs from those frames             *)
(* (TRACE_RUNTIME), and the struct allocation that triggers it.            *)
(*                                                                         *)
(* A body has a field of its own and an inline structure with a field: a   *)
(* reference is <<owner, member>>, and one to the inline member keeps the  *)
(* whole block alive while the trace follows only the member's field.      *)
(***************************************************************************)
EXTENDS ManagedHeap, Sequences, FiniteSets

CONSTANTS
  Slots,         \* the rooted locals of a function
  Members,       \* {"whole"} or {"whole", "inner"}
  MaxDepth,      \* bound on the nesting of calls
  InitialItems,  \* first capacity of the trace's work list (8 in the code)
  Null           \* the all-zero reference

ASSUME CollectorAssumption ==
  /\ "whole" \in Members /\ Members \subseteq {"whole", "inner"}
  /\ Slots # {}
  /\ MaxDepth \in Nat \ {0} /\ InitialItems \in Nat \ {0}
  /\ Null \notin Nat \X Members

VARIABLES
  frames,       \* the shadow stack, innermost frame last
  content,      \* the reference fields of the allocated bodies
  operands,     \* field values of the struct being allocated (C locals)
  destination,  \* the local that will receive it
  rooted,       \* the trace has enqueued the frames' references
  visited,      \* every item the trace has enqueued
  pending       \* the items it has not drained yet

program == <<frames, content, operands, destination>>
trace == <<rooted, visited, pending>>
collectorVars == <<vars, program, trace>>

Refs == Nat \X Members
Owner(r) == r[1]

-----------------------------------------------------------------------------
(* The object graph. *)

Top == Len(frames)
Roots == {frames[d][s] : d \in 1 .. Top, s \in Slots} \ {Null}

\* What sao2_trace_body_def_* enqueues for an item: the fields of the member it
\* names, those of its inline members included.
Children(r) ==
  {content[Owner(r)][m] : m \in IF r[2] = "whole" THEN Members ELSE {r[2]}} \ {Null}

Closed(S) == \A r \in S : Owner(r) \in DOMAIN content => Children(r) \subseteq S

\* Every reference the program holds somewhere.
Known == Roots \cup UNION {Children(<<b, "whole">>) : b \in DOMAIN content}

\* The references the program can get at: the least set that holds the roots
\* and the fields of what it holds.
Reachable ==
  {r \in Known : \A S \in SUBSET Known : Roots \subseteq S /\ Closed(S) => r \in S}

-----------------------------------------------------------------------------
(* The program between two requests.  A failed request is a panic: it ends   *)
(* the program.                                                              *)

Running == pc = "idle" /\ result \in {"none", "ok"}

\* What an operand can denote: a local, a field of what a local refers to, or
\* an inline member of it.
Visible ==
  LET locals == {frames[Top][s] : s \in Slots} \ {Null}
  IN  {Null} \cup locals
        \cup (UNION {Children(r) : r \in locals})
        \cup {<<Owner(r), m>> : r \in {l \in locals : l[2] = "whole"}, m \in Members}

Assign(s, r) ==
  /\ Running
  /\ r \in Visible
  /\ frames' = [frames EXCEPT ![Top] = [@ EXCEPT ![s] = r]]
  /\ UNCHANGED <<vars, content, operands, destination, trace>>

Store(s, m, r) ==
  /\ Running
  /\ frames[Top][s] # Null
  /\ r \in Visible
  /\ m = frames[Top][s][2] \/ frames[Top][s][2] = "whole"
  /\ content' = [content EXCEPT ![Owner(frames[Top][s])] = [@ EXCEPT ![m] = r]]
  /\ UNCHANGED <<vars, frames, operands, destination, trace>>

\* A callee starts with a zeroed frame; its parameters are copied into it.
Call(s, r) ==
  /\ Running
  /\ Top < MaxDepth
  /\ r \in Visible
  /\ frames' = Append(frames, [t \in Slots |-> IF t = s THEN r ELSE Null])
  /\ UNCHANGED <<vars, content, operands, destination, trace>>

\* The result is read before the frame is unlinked, and lands in the caller's.
Return(s, r) ==
  /\ Running
  /\ Top > 1
  /\ r \in Visible
  /\ frames' = [SubSeq(frames, 1, Top - 1) EXCEPT ![Top - 1] = [@ EXCEPT ![s] = r]]
  /\ UNCHANGED <<vars, content, operands, destination, trace>>

\* A struct expression: the operands are evaluated into C locals, then storage
\* is requested, which may collect.
New(s, size, values) ==
  /\ Running
  /\ \A m \in Members : values[m] \in Visible
  /\ RejectRequest(size) \/ PolicyRequest(size) \/ PlainRequest(size)
  /\ operands' = values /\ destination' = s
  /\ UNCHANGED <<frames, content, trace>>

PublishOutermost(b) ==   \* mutation: the destination is sought in the first frame
  /\ content' = [c \in DOMAIN content \cup {b} |->
       IF c = b THEN operands ELSE content[c]]
  /\ frames' = [frames EXCEPT ![1] = [@ EXCEPT ![destination] = <<b, "whole">>]]
  /\ operands' = [m \in Members |-> Null]
  /\ UNCHANGED <<destination, trace>>

\* The allocation succeeds at offset b: fields and destination are written.
Publish(b) ==
  /\ content' = [c \in DOMAIN content \cup {b} |->
       IF c = b THEN operands ELSE content[c]]
  /\ frames' = [frames EXCEPT ![Top] = [@ EXCEPT ![destination] = <<b, "whole">>]]
  /\ operands' = [m \in Members |-> Null]
  /\ UNCHANGED <<destination, trace>>

Allocate ==
  \/ (TakeSplit \/ TakeWhole) /\ Publish(selected)
  \/ Bump /\ Publish(frontier)
  \/ WalkNext /\ UNCHANGED <<program, trace>>
  \/ PressureRequest /\ UNCHANGED <<program, trace>>
  \/ (CommitFailure \/ Exhausted) /\ UNCHANGED <<program, trace>>

-----------------------------------------------------------------------------
(* Tracing. *)

PrepareTrace ==
  /\ PrepareCollectionEpoch
  /\ rooted' = FALSE /\ visited' = {} /\ pending' = {}
  /\ UNCHANGED program

\* The work list doubles when it is full, and so does the table of visited
\* items, whose load never exceeds one half.
NeedsScratch(before, after) ==
  \E k \in 0 .. after : LET room == IF k = 0 THEN 0 ELSE InitialItems * (2 ^ (k - 1))
                        IN  before <= room /\ room < after

\* sao2_trace_enqueue of some references: those already visited are ignored.
Enqueue(refs) == visited' = visited \cup refs

TraceTopFrame ==   \* mutation: the callers' frames are not walked
  LET locals == {frames[Top][s] : s \in Slots} \ {Null} IN
  /\ pc = "mark" /\ ~rooted
  /\ rooted' = TRUE
  /\ Enqueue(locals)
  /\ pending' = locals
  /\ UNCHANGED <<vars, program>>

TraceRoots ==
  /\ pc = "mark" /\ ~rooted
  /\ rooted' = TRUE
  /\ Enqueue(Roots)
  /\ pending' = Roots
  /\ UNCHANGED <<vars, program>>

DrainWholeOwner(r) ==   \* mutation: an interior reference traces the whole body
  LET fields == Children(<<Owner(r), "whole">>) IN
  /\ pc = "mark" /\ rooted /\ r \in pending
  /\ Owner(r) \in Allocated
  /\ \/ TraceMark(Owner(r))
     \/ header[Owner(r)].mark = epoch /\ UNCHANGED vars
  /\ Enqueue(fields)
  /\ pending' = (pending \ {r}) \cup (fields \ visited)
  /\ UNCHANGED <<program, rooted>>

DrainAgain(r) ==   \* mutation: items already visited are enqueued again
  /\ pc = "mark" /\ rooted /\ r \in pending
  /\ Owner(r) \in Allocated
  /\ \/ TraceMark(Owner(r))
     \/ header[Owner(r)].mark = epoch /\ UNCHANGED vars
  /\ Enqueue(Children(r))
  /\ pending' = (pending \ {r}) \cup Children(r)
  /\ UNCHANGED <<program, rooted>>

\* One iteration of sao2_trace_drain: mark the owner, trace the member.
DrainItem(r) ==
  /\ pc = "mark" /\ rooted /\ r \in pending
  /\ Owner(r) \in Allocated
  /\ \/ TraceMark(Owner(r))
     \/ header[Owner(r)].mark = epoch /\ UNCHANGED vars
  /\ Enqueue(Children(r))
  /\ pending' = (pending \ {r}) \cup (Children(r) \ visited)
  /\ UNCHANGED <<program, rooted>>

\* Growing the work list or the table fails: the collection is abandoned.
ScratchExhausted ==
  /\ TraceFailed
  /\ \/ ~rooted /\ NeedsScratch(0, Cardinality(Roots))
     \/ rooted /\ \E r \in pending :
          NeedsScratch(Cardinality(visited), Cardinality(visited \cup Children(r)))
  /\ rooted' = FALSE /\ visited' = {} /\ pending' = {}
  /\ UNCHANGED program

Drained ==
  /\ TraceDone
  /\ rooted /\ pending = {}
  /\ rooted' = FALSE /\ visited' = {} /\ pending' = {}
  /\ UNCHANGED program

\* The bodies of reclaimed blocks are no more.
SweepStep ==
  /\ SweepLive \/ SweepDead \/ SweepDone
  /\ content' = IF pc' = "sweep" THEN content ELSE [b \in Allocated' |-> content[b]]
  /\ UNCHANGED <<frames, operands, destination, trace>>

-----------------------------------------------------------------------------
CollectorInit ==
  /\ Init
  /\ frames = <<[s \in Slots |-> Null]>>
  /\ content = [b \in {} |-> [m \in Members |-> Null]]
  /\ operands = [m \in Members |-> Null]
  /\ destination = CHOOSE s \in Slots : TRUE
  /\ rooted = FALSE /\ visited = {} /\ pending = {}

Program ==
  \E s \in Slots :
    \/ \E r \in Visible : Assign(s, r) \/ Call(s, r) \/ Return(s, r)
    \/ \E m \in Members, r \in Visible : Store(s, m, r)
    \/ \E size \in BodySizes, values \in [Members -> Visible] : New(s, size, values)

Collection ==
  \/ PrepareTrace \/ TraceRoots
  \/ \E r \in pending : DrainItem(r)
  \/ ScratchExhausted \/ Drained \/ SweepStep

CollectorNext == Program \/ Allocate \/ Collection

\* The runtime works to its return once called; the program need not call it.
CollectorSpec ==
  CollectorInit /\ [][CollectorNext]_collectorVars /\ WF_collectorVars(Allocate \/ Collection)

-----------------------------------------------------------------------------
(* Properties. *)

CollectorTypeOK ==
  /\ TypeOK
  /\ frames \in Seq([Slots -> Refs \cup {Null}]) /\ Len(frames) \in 1 .. MaxDepth
  /\ content \in [DOMAIN content -> [Members -> Refs \cup {Null}]]
  /\ operands \in [Members -> Refs \cup {Null}]
  /\ destination \in Slots
  /\ rooted \in BOOLEAN /\ visited \subseteq Refs /\ pending \subseteq visited

\* What the program can reach is allocated, at every moment: also while a sweep
\* is half done, and for the field values that wait in C locals, outside every
\* frame, for the collection to finish.
ReachableAllocated ==
  \A r \in Reachable \cup ({operands[m] : m \in Members} \ {Null}) :
    Owner(r) \in Allocated /\ Owner(r) \in DOMAIN content

\* A collection is exact: when the request that caused it resumes, the blocks
\* left are those of which the program can reach some part.
CollectionExact ==
  pc = "walk" /\ trigger # "none" => Allocated = {Owner(r) : r \in Reachable}

\* The runtime never touches a field of an object the program can reach, nor a
\* local other than the destination of the allocation.
LeavesReachable ==
  pc # "idle" =>
    /\ \A r \in Reachable : content'[Owner(r)] = content[Owner(r)]
    /\ \A d \in 1 .. Top, s \in Slots :
         frames'[d][s] # frames[d][s] => d = Top /\ s = destination
ReachableIntact == [][LeavesReachable]_collectorVars

\* Tracing a finite graph ends, cycles included: a request always comes back.
AllocationReturns == (pc # "idle") ~> (pc = "idle")
-----------------------------------------------------------------------------
(* The inductive invariant behind the safety properties. *)

\* The values that wait in C locals are ones the program can still read, and
\* nothing waits between two requests.
OperandInv ==
  /\ \A m \in Members : operands[m] \in Visible
  /\ Running => \A m \in Members : operands[m] = Null

\* Every block in use has a body; a sweep keeps the others to its end.
BodyInv ==
  /\ Allocated \subseteq DOMAIN content
  /\ pc # "sweep" => DOMAIN content = Allocated

ReachableInv == \A r \in Reachable : Owner(r) \in Allocated

\* Three colours: what is not visited, what is pending, and what has been drained,
\* whose block is marked and whose fields have been visited.
TraceInv ==
  pc = "mark" =>
    /\ ~rooted => visited = {} /\ \A b \in Allocated : header[b].mark # epoch
    /\ rooted => Roots \subseteq visited /\ visited \subseteq Reachable
    /\ \A r \in visited \ pending :
         header[Owner(r)].mark = epoch /\ Children(r) \subseteq visited
    /\ \A b \in Allocated :
         header[b].mark = epoch => \E r \in visited : Owner(r) = b

\* From the end of the trace to the end of the request, the marked blocks are
\* those the program can reach.
KeptInv ==
  pc = "sweep" \/ (pc = "walk" /\ trigger # "none") =>
    {b \in Allocated : Live(b)} = {Owner(r) : r \in Reachable}

CollectorInv ==
  HeapInv /\ CollectorTypeOK /\ OperandInv /\ BodyInv /\ ReachableInv /\ TraceInv /\ KeptInv
=============================================================================
