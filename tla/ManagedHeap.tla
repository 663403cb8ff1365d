---------------------------- MODULE ManagedHeap ----------------------------
(***************************************************************************)
(* The managed heap of a compiled SAO2 program: the first-fit allocator,   *)
(* the allocation-debt policy, the collection epoch and the sweep that the *)
(* C backend emits (ARENA_RUNTIME and COLLECTION_RUNTIME).                 *)
(*                                                                         *)
(* Loops over the heap are one action per iteration, so that their loop    *)
(* invariants can be stated.  Which blocks the tracer marks is left open   *)
(* here (TraceMark is enabled for every allocated block); module Collector *)
(* closes that choice with roots, references and a work list.              *)
(*                                                                         *)
(* `header' is defined on the offsets at which a block starts.  Bodies are *)
(* not represented; `stale' remembers the one thing a body can hide, an    *)
(* old allocated header that a later free run swallowed without erasing.   *)
(***************************************************************************)
EXTENDS Integers

CONSTANTS
  Capacity,     \* SAO2_ARENA_CAPACITY
  PageSize,     \* the platform page size
  Threshold,    \* SAO2_GC_ALLOCATION_THRESHOLD
  EpochLimit,   \* SAO2_GC_EPOCH_LIMIT
  DebtMax,      \* UINT64_MAX, at which the debt saturates
  BodySizes     \* the body sizes the program asks for

Align == 8             \* SAO2_REF_ALIGNMENT
HeaderSize == 48       \* sizeof(sao2_heap_header)
InitialCursor == 8     \* SAO2_ARENA_INITIAL_CURSOR

ASSUME CapacityAssumption ==
  Capacity \in Nat /\ Capacity >= InitialCursor
ASSUME PageAssumption ==
  PageSize \in Nat \ {0} /\ Capacity % PageSize = 0
ASSUME PolicyAssumption ==
  /\ DebtMax \in Nat
  /\ Threshold \in 1 .. DebtMax
  /\ EpochLimit \in Nat \ {0}
ASSUME BodyAssumption == BodySizes \subseteq Nat

VARIABLES
  header,       \* the blocks of [InitialCursor, frontier), by start offset
  frontier,     \* first offset never handed out (or given back by a sweep)
  committed,    \* bytes of the arena backed by storage
  freeHead,     \* first block of the free list, 0 when it is empty
  stale,        \* starts of dead allocated headers left inside free blocks
  epoch,        \* sao2_gc_epoch
  debt,         \* sao2_gc_allocation_debt
  pc,           \* where the allocator is: see Phases
  trigger,      \* what made the current request collect
  body,         \* body size of the current request
  result,       \* outcome of the last request
  selected, previous,          \* first-fit walk of the free list
  cursor, runStart, runSpan,   \* sweep: position and current free run
  rebuiltHead, rebuiltTail     \* sweep: the free list being rebuilt

memory == <<header, frontier, committed, freeHead, stale>>
walk == <<selected, previous>>
sweep == <<cursor, runStart, runSpan, rebuiltHead, rebuiltTail>>
vars == <<memory, epoch, debt, pc, trigger, body, result, walk, sweep>>

Phases == {"idle", "walk", "prepare", "mark", "sweep"}
Triggers == {"none", "policy", "pressure"}
Results == {"none", "ok", "exhausted", "commit_failed", "collection_failed"}

-----------------------------------------------------------------------------
(* Headers and spans. *)

RoundUp(n, unit) == IF n % unit = 0 THEN n ELSE n + (unit - (n % unit))

HeapSpanTruncated(size) ==   \* mutation: rounded down
  HeaderSize + (IF size < Align THEN Align ELSE Align * (size \div Align))

HeapSpan(size) ==
  HeaderSize + RoundUp(IF size < Align THEN Align ELSE size, Align)

MinimumSpan == HeapSpan(0)

Header == [span : Nat, body : Nat, next : Nat,
           state : {"allocated", "free"}, mark : Nat]

AllocatedHeader(span, size) ==
  [span |-> span, body |-> size, next |-> 0, state |-> "allocated", mark |-> 0]

FreeHeaderUnlinked(span, next) ==   \* mutation: the link is lost
  [span |-> span, body |-> 0, next |-> 0, state |-> "free", mark |-> 0]

FreeHeaderSpilled(span, next) ==    \* mutation: eight bytes too long
  [span |-> span + Align, body |-> 0, next |-> next, state |-> "free", mark |-> 0]

FreeHeader(span, next) ==
  [span |-> span, body |-> 0, next |-> next, state |-> "free", mark |-> 0]

Blocks == DOMAIN header
Allocated == {b \in Blocks : header[b].state = "allocated"}
Free == {b \in Blocks : header[b].state = "free"}
End(b) == b + header[b].span

Required == HeapSpan(body)

\* The header that sao2_heap_header_for finds acceptable at an offset: the
\* local check of the production build cannot tell a block from an old header
\* image inside a free block.
HeaderFor(b) == b \in Allocated \/ b \in stale

-----------------------------------------------------------------------------
(* Requests: sao2_heap_allocate up to its first collection or allocation.  *)

Init ==
  /\ header = [b \in {} |-> AllocatedHeader(0, 0)]
  /\ frontier = InitialCursor
  /\ committed = 0 /\ freeHead = 0 /\ stale = {}
  /\ epoch = 0 /\ debt = 0
  /\ pc = "idle" /\ trigger = "none" /\ body = 0 /\ result = "none"
  /\ selected = 0 /\ previous = 0
  /\ cursor = 0 /\ runStart = 0 /\ runSpan = 0
  /\ rebuiltHead = 0 /\ rebuiltTail = 0

\* An impossible request fails before any policy: it never collects.
RejectRequest(size) ==
  /\ pc = "idle"
  /\ HeapSpan(size) > Capacity - InitialCursor
  /\ result' = "exhausted"
  /\ UNCHANGED <<memory, epoch, debt, pc, trigger, body, walk, sweep>>

StartRequest(size) ==
  /\ pc = "idle"
  /\ HeapSpan(size) <= Capacity - InitialCursor
  /\ body' = size /\ result' = "none"
  /\ UNCHANGED <<memory, epoch, debt, sweep>>

\* Enough has been allocated since the last collection: collect first.
PolicyRequest(size) ==
  /\ StartRequest(size)
  /\ debt >= Threshold
  /\ trigger' = "policy" /\ pc' = "prepare"
  /\ UNCHANGED walk

PlainRequest(size) ==
  /\ StartRequest(size)
  /\ debt < Threshold
  /\ trigger' = "none" /\ pc' = "walk"
  /\ selected' = freeHead /\ previous' = 0

-----------------------------------------------------------------------------
(* sao2_heap_allocate_raw. *)

\* The request is over; the walk's registers are C locals and vanish.
Finish(outcome) ==
  /\ pc' = "idle" /\ trigger' = "none" /\ body' = 0 /\ result' = outcome
  /\ selected' = 0 /\ previous' = 0

\* sao2_gc_charge
Charge(span) == debt' = IF span > DebtMax - debt THEN DebtMax ELSE debt + span

WalkNext ==
  /\ pc = "walk" /\ selected # 0
  /\ header[selected].span < Required
  /\ previous' = selected
  /\ selected' = header[selected].next
  /\ UNCHANGED <<memory, epoch, debt, pc, trigger, body, result, sweep>>

Fits == pc = "walk" /\ selected # 0 /\ header[selected].span >= Required

\* Storage of [from, to) is rewritten: header images there are gone.
Overwrite(from, to) == stale' = {s \in stale : s < from \/ s >= to}

\* The tail of the selected block is worth keeping: it takes the block's
\* place in the free list.
TakeSplit ==
  /\ Fits
  /\ header[selected].span - Required >= MinimumSpan
  /\ LET rest == selected + Required IN
     /\ header' = [b \in Blocks \cup {rest} |->
          IF b = selected THEN AllocatedHeader(Required, body)
          ELSE IF b = rest
            THEN FreeHeader(header[selected].span - Required, header[selected].next)
          ELSE IF b = previous THEN [header[b] EXCEPT !.next = rest]
          ELSE header[b]]
     /\ freeHead' = IF previous = 0 THEN rest ELSE freeHead
     /\ Overwrite(selected, rest + HeaderSize)
  /\ Charge(Required)
  /\ Finish("ok")
  /\ UNCHANGED <<frontier, committed, epoch, sweep>>

\* The rest could not hold a block: the request gets the whole of it.
TakeWhole ==
  /\ Fits
  /\ header[selected].span - Required < MinimumSpan
  /\ header' = [b \in Blocks |->
       IF b = selected THEN AllocatedHeader(header[b].span, body)
       ELSE IF b = previous THEN [header[b] EXCEPT !.next = header[selected].next]
       ELSE header[b]]
  /\ freeHead' = IF previous = 0 THEN header[selected].next ELSE freeHead
  /\ Overwrite(selected, End(selected))
  /\ Charge(header[selected].span)
  /\ Finish("ok")
  /\ UNCHANGED <<frontier, committed, epoch, sweep>>

ListExhausted == pc = "walk" /\ selected = 0
RoomAtFrontierStrict ==   \* mutation: the last page is never used
  /\ Required < Capacity - frontier
  /\ RoundUp(frontier + Required, PageSize) < Capacity

RoomAtFrontier ==
  /\ Required <= Capacity - frontier
  /\ RoundUp(frontier + Required, PageSize) <= Capacity

\* No free block is large enough: extend the heap, committing whole pages.
Bump ==
  /\ ListExhausted /\ RoomAtFrontier
  /\ LET end == frontier + Required
         page == RoundUp(end, PageSize) IN
     /\ committed' = IF page > committed THEN page ELSE committed
     /\ header' = [b \in Blocks \cup {frontier} |->
          IF b = frontier THEN AllocatedHeader(Required, body) ELSE header[b]]
     /\ frontier' = end
  /\ Charge(Required)
  /\ Finish("ok")
  /\ UNCHANGED <<freeHead, stale, epoch, sweep>>

\* The platform refuses the pages the block would need.
CommitFailure ==
  /\ ListExhausted /\ RoomAtFrontier
  /\ RoundUp(frontier + Required, PageSize) > committed
  /\ Finish("commit_failed")
  /\ UNCHANGED <<memory, epoch, debt, sweep>>

PressureAgain ==   \* mutation: no limit on the retries
  /\ ListExhausted /\ ~RoomAtFrontier
  /\ trigger' = "pressure" /\ pc' = "prepare"
  /\ UNCHANGED <<memory, epoch, debt, body, result, walk, sweep>>

\* Exhausted the first time, without a collection: collect and try once more.
PressureRequest ==
  /\ ListExhausted /\ ~RoomAtFrontier
  /\ trigger = "none"
  /\ trigger' = "pressure" /\ pc' = "prepare"
  /\ UNCHANGED <<memory, epoch, debt, body, result, walk, sweep>>

\* Exhausted right after a collection: the request fails.
Exhausted ==
  /\ ListExhausted /\ ~RoomAtFrontier
  /\ trigger # "none"
  /\ Finish("exhausted")
  /\ UNCHANGED <<memory, epoch, debt, sweep>>

-----------------------------------------------------------------------------
(* sao2_collect_for_trigger. *)

KeptMarks == header   \* mutation: marks survive the wrap of the epochs

ErasedMarks == [b \in Blocks |-> [header[b] EXCEPT !.mark = 0]]

\* At the epoch limit every mark is erased before the epochs start over.
PrepareCollectionEpoch ==
  /\ pc = "prepare"
  /\ pc' = "mark"
  /\ IF epoch = EpochLimit
       THEN header' = ErasedMarks /\ epoch' = 1
       ELSE UNCHANGED header /\ epoch' = epoch + 1
  /\ selected' = 0 /\ previous' = 0
  /\ UNCHANGED <<frontier, committed, freeHead, stale, debt, trigger, body, result, sweep>>

TraceMark(b) ==
  /\ pc = "mark"
  /\ b \in Allocated /\ header[b].mark # epoch
  /\ header' = [header EXCEPT ![b] = [@ EXCEPT !.mark = epoch]]
  /\ UNCHANGED <<frontier, committed, freeHead, stale, epoch, debt, pc, trigger,
                 body, result, walk, sweep>>

\* Trace scratch storage ran out: nothing is swept and the debt stays due.
TraceFailed ==
  /\ pc = "mark"
  /\ Finish("collection_failed")
  /\ UNCHANGED <<memory, epoch, debt, sweep>>

TraceDone ==
  /\ pc = "mark"
  /\ pc' = "sweep" /\ cursor' = InitialCursor
  /\ UNCHANGED <<memory, epoch, debt, trigger, body, result, walk,
                 runStart, runSpan, rebuiltHead, rebuiltTail>>

SweepAt(b) == pc = "sweep" /\ b = cursor /\ cursor < frontier
LiveOnce(b) ==   \* mutation: a mark of any collection keeps a block
  header[b].state = "allocated" /\ header[b].mark # 0

Live(b) == header[b].state = "allocated" /\ header[b].mark = epoch

RunInteriorInclusive ==   \* mutation: the block after the run goes with it
  {b \in Blocks : runStart < b /\ b <= cursor}

\* The headers strictly inside the run cease to be block headers.
RunInterior == {b \in Blocks : runStart < b /\ b < cursor}

\* One free block out of the run [runStart, cursor), last in the rebuilt list.
\* Only the header at its start is written; those inside it are not erased.
AppendFreeRun ==
  /\ header' = [b \in Blocks \ RunInterior |->
       IF b = runStart THEN FreeHeader(runSpan, 0)
       ELSE IF b = rebuiltTail THEN [header[b] EXCEPT !.next = runStart]
       ELSE header[b]]
  /\ stale' = stale \cup (RunInterior \cap Allocated)
  /\ rebuiltHead' = IF rebuiltTail = 0 THEN runStart ELSE rebuiltHead
  /\ rebuiltTail' = runStart
  /\ runStart' = 0 /\ runSpan' = 0

SweepLive ==
  /\ SweepAt(cursor) /\ Live(cursor)
  /\ IF runStart # 0 THEN AppendFreeRun
     ELSE UNCHANGED <<header, stale, rebuiltHead, rebuiltTail, runStart, runSpan>>
  /\ cursor' = End(cursor)
  /\ UNCHANGED <<frontier, committed, freeHead, epoch, debt, pc, trigger, body, result, walk>>

\* A dead block and a block that was free already both extend the run.
SweepDead ==
  /\ SweepAt(cursor) /\ ~Live(cursor)
  /\ runStart' = IF runStart = 0 THEN cursor ELSE runStart
  /\ runSpan' = runSpan + header[cursor].span
  /\ cursor' = End(cursor)
  /\ UNCHANGED <<memory, epoch, debt, pc, trigger, body, result, walk,
                 rebuiltHead, rebuiltTail>>

\* A trailing run goes back to the frontier, zeroed; then the request goes on
\* with its (second) walk of the free list.
SweepDone ==
  /\ pc = "sweep" /\ cursor = frontier
  /\ IF runStart # 0
       THEN /\ header' = [b \in {c \in Blocks : c < runStart} |-> header[b]]
            /\ frontier' = runStart
            /\ Overwrite(runStart, cursor)
       ELSE UNCHANGED <<header, frontier, stale>>
  /\ freeHead' = rebuiltHead
  /\ debt' = 0
  /\ pc' = "walk" /\ selected' = rebuiltHead /\ previous' = 0
  /\ cursor' = 0 /\ runStart' = 0 /\ runSpan' = 0
  /\ rebuiltHead' = 0 /\ rebuiltTail' = 0
  /\ UNCHANGED <<committed, epoch, trigger, body, result>>

-----------------------------------------------------------------------------
Request == \E size \in BodySizes :
             RejectRequest(size) \/ PolicyRequest(size) \/ PlainRequest(size)
RawAllocate == \/ WalkNext \/ TakeSplit \/ TakeWhole \/ Bump
               \/ CommitFailure \/ PressureRequest \/ Exhausted
Collect == \/ PrepareCollectionEpoch
           \/ \E b \in Blocks : TraceMark(b)
           \/ TraceFailed \/ TraceDone
           \/ SweepLive \/ SweepDead \/ SweepDone

Next == Request \/ RawAllocate \/ Collect

\* The allocator is called, and runs to its return: nothing else is scheduled
\* while it works.  Nothing obliges the program to ask for storage.
Spec == Init /\ [][Next]_vars /\ WF_vars(RawAllocate \/ Collect)

-----------------------------------------------------------------------------
(* Properties. *)

MemoryType ==
  /\ header \in [Blocks -> Header] /\ Blocks \subseteq Nat
  /\ frontier \in InitialCursor .. Capacity
  /\ committed \in 0 .. Capacity
  /\ freeHead \in Nat /\ stale \subseteq Nat

ControlType ==
  /\ epoch \in 0 .. EpochLimit /\ debt \in 0 .. DebtMax
  /\ pc \in Phases /\ trigger \in Triggers /\ result \in Results
  /\ body \in BodySizes \cup {0}

RegisterType ==
  /\ selected \in Nat /\ previous \in Nat
  /\ cursor \in Nat /\ runStart \in Nat /\ runSpan \in Nat
  /\ rebuiltHead \in Nat /\ rebuiltTail \in Nat

\* Every variable stays within its type.
TypeOK == MemoryType /\ ControlType /\ RegisterType

\* The blocks tile the heap: they follow one another from the initial cursor
\* to the frontier, aligned, without gap or overlap, each large enough for a
\* header and eight bytes, an allocated one large enough for its body.
Tiled ==
  /\ frontier % Align = 0
  /\ frontier # InitialCursor => InitialCursor \in Blocks
  /\ \A b \in Blocks :
       /\ b >= InitialCursor /\ b % Align = 0
       /\ header[b].span >= MinimumSpan /\ header[b].span % Align = 0
       /\ header[b].state = "allocated" =>
            header[b].next = 0 /\ header[b].body <= header[b].span - HeaderSize
       /\ End(b) \in Blocks \cup {frontier}
       /\ End(b) <= frontier
  /\ \A b, c \in Blocks : b < c => End(b) <= c

\* g is what should follow f in an ascending list of all the free blocks
\* (f = 0 for the head): the least free block above f, or 0.
Follows(f, g) ==
  \/ g = 0 /\ \A h \in Free : h <= f
  \/ g \in Free /\ g > f /\ \A h \in Free : h > f => h >= g

\* The free list holds exactly the free blocks, in ascending order, and no two
\* free blocks touch.
FreeListExact ==
  /\ Follows(0, freeHead)
  /\ \A f \in Free : Follows(f, header[f].next)
  /\ \A f \in Free : End(f) \notin Free

\* No header or body lies on storage that was never committed.
StorageBacked == frontier > InitialCursor => frontier <= committed

\* What sao2_heap_validate requires, whenever no sweep is under way.  Only
\* collections check it in the production build: the raw allocator must keep
\* it true on its own.
HeapValid == pc # "sweep" => Tiled /\ FreeListExact /\ StorageBacked

\* Storage in use is never moved, resized, handed out again or reclaimed; a
\* sweep excepts only the blocks that its trace left unmarked.
LiveUndisturbed ==
  [][\A b \in Allocated : (pc = "sweep" => header[b].mark = epoch) =>
       /\ b \in Allocated'
       /\ header'[b].span = header[b].span
       /\ header'[b].body = header[b].body]_vars

\* A mark left by an earlier collection, one that failed or one from before the
\* epochs wrapped around, is never taken for a mark of the current one.
NoStaleMark ==
  [][pc = "prepare" => \A b \in Blocks' : header'[b].mark # epoch']_vars

\* When the allocation that made the heap collect resumes, every block left is
\* one that the trace marked: all the garbage is gone.
SweptClean ==
  pc = "walk" /\ trigger # "none" => \A b \in Allocated : header[b].mark = epoch

\* "heap arena exhausted" is true when it is said: the request exceeds the
\* arena, or a collection has just run and neither a free block nor the space
\* above the frontier can hold it.
ExhaustionIsReal ==
  [][pc = "walk" /\ result' = "exhausted" =>
       /\ \A b \in Allocated : header[b].mark = epoch
       /\ \A f \in Free : header[f].span < Required
       /\ Capacity - frontier < Required]_vars

\* A request always comes back: the walk of the free list, the sweep and the
\* single retry end.
RequestReturns == (pc # "idle") ~> (pc = "idle")

\* The comment at sao2_heap_header_for: the local header check still rejects a
\* reference to storage that was reclaimed.
StaleReferenceRejected ==
  pc = "idle" => \A b \in Blocks \cup stale : HeaderFor(b) => b \in Allocated

\* The storage in use: once a trace is done, what it left unmarked is not.
Extents ==
  {<<b, End(b)>> : b \in {c \in Allocated : pc = "sweep" => Live(c)}}

Abstract == INSTANCE AbstractHeap WITH Lowest <- InitialCursor, extents <- Extents

\* First fit, splitting, coalescing and the moving frontier amount to handing
\* out disjoint intervals of the arena and taking some of them back.
ImplementsAbstractHeap == Abstract!Spec

-----------------------------------------------------------------------------
(* The inductive invariant behind the safety properties. *)

Link(f) == IF f = 0 THEN freeHead ELSE header[f].next

\* The walk stands at a link of the free list; what it has passed was too small.
WalkInv ==
  pc = "walk" =>
    /\ previous \in Free \cup {0} /\ selected = Link(previous)
    /\ \A f \in Free : f <= previous => header[f].span < Required

\* No mark is from the future.
MarkInv ==
  /\ \A b \in Blocks : header[b].mark <= epoch
  /\ pc \in {"mark", "sweep"} => epoch # 0

\* What the sweep has dealt with for good lies below this offset.
Swept == IF runStart = 0 THEN cursor ELSE runStart

\* Below Swept only marked blocks are allocated, and the free blocks form the
\* rebuilt list and are each followed by a marked block; from there up to the
\* cursor lies the current run, in which no block is marked.
SweepInv ==
  /\ pc = "sweep" =>
       /\ cursor \in Blocks \cup {frontier} /\ cursor >= InitialCursor
       /\ runStart # 0 => runStart \in Blocks
       /\ runStart # 0 => runStart + runSpan = cursor /\ runSpan > 0
       /\ runStart = 0 => runSpan = 0
       /\ \A b \in Blocks : b < Swept => b \in Free \/ Live(b)
       /\ \A b \in Blocks : Swept <= b /\ b < cursor => ~Live(b)
       /\ \A f \in Free : f < Swept => End(f) < Swept /\ End(f) \in Allocated
       /\ \A f \in Free : f < Swept => rebuiltHead # 0 /\ rebuiltHead <= f /\ f <= rebuiltTail
       /\ \A f \in Free : f < Swept =>
            IF f = rebuiltTail THEN header[f].next = 0
            ELSE /\ header[f].next \in Free /\ f < header[f].next /\ header[f].next < Swept
                 /\ \A h \in Free : f < h /\ h < Swept => header[f].next <= h
       /\ rebuiltTail # 0 => rebuiltTail \in Free /\ rebuiltTail < Swept
       /\ rebuiltHead # 0 => rebuiltHead \in Free /\ rebuiltHead < Swept
       /\ rebuiltTail = 0 <=> rebuiltHead = 0
  /\ pc # "sweep" =>
       runStart = 0 /\ runSpan = 0 /\ rebuiltHead = 0 /\ rebuiltTail = 0

\* A request has no outcome until it returns.
OutcomeInv == pc # "idle" => result = "none"

HeapInv ==
  /\ TypeOK /\ Tiled /\ StorageBacked
  /\ pc # "sweep" => FreeListExact
  /\ WalkInv /\ MarkInv /\ SweepInv /\ SweptClean
=============================================================================
