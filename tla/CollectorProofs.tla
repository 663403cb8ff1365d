-------------------------- MODULE CollectorProofs --------------------------
(***************************************************************************)
(* Proofs about ManagedHeap and about the Collector that stands on it.     *)
(*                                                                         *)
(* ManagedHeap: HeapInv is inductive, and the safety properties follow     *)
(* from it for every arena, page size, threshold, epoch limit and set of   *)
(* body sizes.                                                             *)
(*                                                                         *)
(* Collector: what the program can reach is allocated and untouched, and   *)
(* collections are exact, for any arena, any number of locals, any nesting *)
(* of calls and any graph of objects; HeapInv is taken from the first part.*)
(***************************************************************************)
EXTENDS Collector, TLAPS

-----------------------------------------------------------------------------
(* Spans. *)

\* Rounding up a length gives a length that is no smaller.
LEMMA RoundUpType ==
  ASSUME NEW n \in Nat, NEW unit \in Nat \ {0}
  PROVE  RoundUp(n, unit) \in Nat /\ RoundUp(n, unit) >= n
<1>1. n % unit \in 0 .. unit - 1 BY SMT
<1>2. QED BY <1>1, SMT DEF RoundUp

\* A span is a multiple of eight that holds a header, eight bytes and the body.
LEMMA SpanFacts ==
  ASSUME NEW size \in Nat
  PROVE  /\ HeapSpan(size) \in Nat /\ HeapSpan(size) >= 56
         /\ HeapSpan(size) % 8 = 0
         /\ size <= HeapSpan(size) - 48
BY SMT DEF HeapSpan, RoundUp, Align, HeaderSize

\* The smallest block: a header and eight bytes.
LEMMA MinimumSpanValue == MinimumSpan = 56
BY SMT DEF MinimumSpan, HeapSpan, RoundUp, Align, HeaderSize

-----------------------------------------------------------------------------
(* The inductive invariant. *)

\* The empty heap satisfies the invariant.
LEMMA InitInv == Init => HeapInv
<1> SUFFICES ASSUME Init PROVE HeapInv OBVIOUS
<1> USE DEF Init
<1>1. Blocks = {} /\ Free = {} /\ Allocated = {}
  BY DEF Blocks, Free, Allocated
<1>2. TypeOK
  BY <1>1, CapacityAssumption, PolicyAssumption
  DEF TypeOK, MemoryType, ControlType, RegisterType, Blocks, InitialCursor, Phases, Triggers, Results
<1>3. Tiled /\ StorageBacked
  BY <1>1 DEF Tiled, StorageBacked, InitialCursor, Align
<1>4. FreeListExact
  BY <1>1 DEF FreeListExact, Follows
<1>5. WalkInv /\ MarkInv /\ SweepInv /\ SweptClean
  BY <1>1 DEF WalkInv, MarkInv, SweepInv, SweptClean
<1>6. QED BY <1>2, <1>3, <1>4, <1>5 DEF HeapInv

\* The parts of the invariant that speak of memory alone.
LEMMA MemoryUnchanged ==
  ASSUME UNCHANGED <<header, frontier, committed, freeHead>>
  PROVE  /\ Tiled' = Tiled /\ StorageBacked' = StorageBacked
         /\ FreeListExact' = FreeListExact
         /\ Blocks' = Blocks /\ Free' = Free /\ Allocated' = Allocated
         /\ stale' = stale => MemoryType' = MemoryType
BY DEF MemoryType, Tiled, StorageBacked, FreeListExact, Follows, Blocks, Free, Allocated, End

\* What the types say of the blocks and of the registers.
LEMMA TypeFacts ==
  ASSUME HeapInv
  PROVE  /\ Blocks \subseteq Nat /\ Free \subseteq Blocks /\ Allocated \subseteq Blocks
         /\ \A b \in Blocks :
              /\ header[b] \in Header
              /\ header[b].span \in Nat /\ header[b].body \in Nat
              /\ header[b].next \in Nat /\ header[b].mark \in Nat
              /\ b \in Free <=> b \notin Allocated
         /\ selected \in Nat /\ previous \in Nat /\ cursor \in Nat
         /\ runStart \in Nat /\ runSpan \in Nat
         /\ rebuiltHead \in Nat /\ rebuiltTail \in Nat
         /\ frontier \in Nat /\ committed \in Nat /\ freeHead \in Nat
         /\ epoch \in Nat /\ debt \in Nat /\ body \in Nat
<1> USE DEF HeapInv, TypeOK, MemoryType, ControlType, RegisterType
<1>1. /\ Blocks \subseteq Nat /\ Free \subseteq Blocks /\ Allocated \subseteq Blocks
      /\ \A b \in Blocks : header[b] \in Header
  BY DEF Blocks, Free, Allocated
<1>2. ASSUME NEW b \in Blocks
      PROVE  /\ header[b].span \in Nat /\ header[b].body \in Nat
             /\ header[b].next \in Nat /\ header[b].mark \in Nat
             /\ b \in Free <=> b \notin Allocated
  BY <1>1 DEF Header, Free, Allocated
<1>3. /\ selected \in Nat /\ previous \in Nat /\ cursor \in Nat
      /\ runStart \in Nat /\ runSpan \in Nat
      /\ rebuiltHead \in Nat /\ rebuiltTail \in Nat
  OBVIOUS
<1>4. /\ frontier \in Nat /\ committed \in Nat /\ freeHead \in Nat
      /\ epoch \in Nat /\ debt \in Nat /\ body \in Nat
  BY CapacityAssumption, PolicyAssumption, BodyAssumption DEF InitialCursor
<1>5. QED BY <1>1, <1>2, <1>3, <1>4

\* What is asked of the arena for a body.
LEMMA RequiredFacts ==
  ASSUME HeapInv
  PROVE  /\ Required \in Nat /\ Required >= 56 /\ Required % 8 = 0
         /\ body <= Required - 48
BY TypeFacts, SpanFacts DEF Required

\* Where the next walk starts: at the head of an exact free list.
LEMMA FirstLink ==
  ASSUME HeapInv, pc # "sweep"
  PROVE  freeHead \in Free \cup {0} /\ \A f \in Free : f > 0
BY TypeFacts DEF HeapInv, FreeListExact, Follows, Tiled, Free, InitialCursor

\* Starting or refusing a request touches nothing of the heap; its walk starts at
\* the head of the free list.
LEMMA RequestStep ==
  ASSUME HeapInv, Request
  PROVE  HeapInv'
<1> USE DEF HeapInv
<1>1. PICK size \in BodySizes :
        RejectRequest(size) \/ PolicyRequest(size) \/ PlainRequest(size)
  BY DEF Request
<1>2. UNCHANGED <<memory, epoch, debt, sweep>> /\ pc = "idle"
  BY <1>1 DEF RejectRequest, PolicyRequest, PlainRequest, StartRequest
<1>3. pc' \in {"idle", "prepare", "walk"} /\ (pc' = "walk" => trigger' = "none")
  BY <1>1, <1>2 DEF RejectRequest, PolicyRequest, PlainRequest, StartRequest
<1>4. /\ Tiled' /\ StorageBacked' /\ FreeListExact'
      /\ Blocks' = Blocks /\ Free' = Free /\ Allocated' = Allocated
  BY <1>2, MemoryUnchanged DEF memory
<1>5. freeHead \in Nat
  BY TypeFacts
<1>6. TypeOK'
  <2>1. MemoryType' BY <1>2, MemoryUnchanged DEF TypeOK, memory
  <2>2. RegisterType'
    BY <1>1, <1>2, <1>5, TypeFacts DEF sweep, walk, memory, RegisterType,
       RejectRequest, PolicyRequest, PlainRequest
  <2>3. ControlType'
    BY <1>1, <1>2 DEF TypeOK, ControlType, RejectRequest, PolicyRequest, PlainRequest,
       StartRequest, Phases, Triggers, Results
  <2>4. QED BY <2>1, <2>2, <2>3 DEF TypeOK
<1>7. WalkInv'
  <2> SUFFICES ASSUME pc' = "walk" PROVE WalkInv' BY DEF WalkInv
  <2>1. previous' = 0 /\ selected' = freeHead
    BY <1>1, <1>2 DEF RejectRequest, PolicyRequest, PlainRequest
  <2>2. \A f \in Free : ~(f <= 0)
    BY <1>2, FirstLink, TypeFacts
  <2>3. freeHead' = freeHead
    BY <1>2 DEF memory
  <2>4. QED BY <2>1, <2>2, <2>3, <1>4 DEF WalkInv, Link
<1>8. MarkInv' /\ SweptClean'
  BY <1>2, <1>3, <1>4 DEF MarkInv, SweptClean, memory
<1>9. SweepInv'
  BY <1>2, <1>3 DEF SweepInv, sweep
<1>10. QED BY <1>4, <1>6, <1>7, <1>8, <1>9

\* Ending a request leaves nothing for the walk and the sweep to satisfy.
LEMMA FinishStep ==
  ASSUME HeapInv, pc # "sweep", NEW outcome \in Results, Finish(outcome),
         UNCHANGED <<memory, epoch, debt, sweep>>
  PROVE  HeapInv'
<1> USE DEF HeapInv
<1>1. /\ Tiled' /\ StorageBacked' /\ FreeListExact'
      /\ Blocks' = Blocks /\ Free' = Free /\ Allocated' = Allocated
  BY MemoryUnchanged DEF memory
<1>2. TypeOK'
  BY MemoryUnchanged
  DEF TypeOK, ControlType, RegisterType, memory, sweep, Finish, Phases, Triggers
<1>3. WalkInv' /\ MarkInv' /\ SweptClean' /\ SweepInv'
  BY <1>1 DEF WalkInv, MarkInv, SweptClean, SweepInv, memory, sweep, Finish
<1>4. QED BY <1>1, <1>2, <1>3

\* The walk passes a free block that is too small and stands at the next link.
LEMMA WalkNextStep ==
  ASSUME HeapInv, WalkNext
  PROVE  HeapInv'
<1> USE DEF HeapInv
<1>1. UNCHANGED <<memory, epoch, debt, pc, trigger, body, result, sweep>> /\ pc = "walk"
  BY DEF WalkNext
<1>2. /\ Tiled' /\ StorageBacked' /\ FreeListExact'
      /\ Blocks' = Blocks /\ Free' = Free /\ Allocated' = Allocated
  BY <1>1, MemoryUnchanged DEF memory
<1>3. selected \in Free /\ Follows(previous, selected) /\ Follows(selected, header[selected].next)
  <2>1. previous \in Free \cup {0} /\ selected = Link(previous) /\ selected # 0
    BY <1>1 DEF WalkNext, WalkInv
  <2>2. FreeListExact
    BY <1>1
  <2>3. Follows(previous, selected)
    BY <2>1, <2>2, FirstLink, <1>1 DEF FreeListExact, Link
  <2>4. selected \in Free
    BY <2>1, <2>3 DEF Follows
  <2>5. QED BY <2>2, <2>3, <2>4 DEF FreeListExact
<1>4. header[selected].next \in Free \cup {0} /\ Free \subseteq Nat
  BY <1>3, TypeFacts, SMT DEF Follows
<1>5. TypeOK'
  <2>1. MemoryType' BY <1>1, MemoryUnchanged DEF TypeOK, memory
  <2>2. RegisterType'
    <3>1. selected' \in Nat /\ previous' \in Nat BY <1>3, TypeFacts DEF WalkNext
    <3>2. UNCHANGED sweep BY <1>1
    <3>3. QED BY <3>1, <3>2, TypeFacts DEF RegisterType, sweep
  <2>3. ControlType' BY <1>1 DEF TypeOK, ControlType
  <2>4. QED BY <2>1, <2>2, <2>3 DEF TypeOK
<1>6. WalkInv'
  <2>1. previous' = selected /\ selected' = header[selected].next /\ selected # 0
    BY DEF WalkNext
  <2>2. ASSUME NEW f \in Free, f <= selected PROVE header[f].span < Required
    <3>1. CASE f <= previous BY <3>1, <1>1 DEF WalkInv
    <3>2. CASE f > previous
      BY <3>2, <2>2, <1>3, <1>4, TypeFacts DEF Follows, WalkNext
    <3>3. QED BY <3>1, <3>2, <1>4, TypeFacts
  <2>3. Required' = Required /\ header' = header
    BY <1>1 DEF Required, memory
  <2>4. QED BY <2>1, <2>2, <2>3, <1>2, <1>3 DEF WalkInv, Link
<1>7. MarkInv' /\ SweptClean' /\ SweepInv'
  BY <1>1, <1>2 DEF MarkInv, SweptClean, SweepInv, memory, sweep, Live
<1>8. QED BY <1>2, <1>5, <1>6, <1>7

\* Geometry: what lies between two blocks.
LEMMA BlockFacts ==
  ASSUME HeapInv, NEW b \in Blocks
  PROVE  /\ b >= 8 /\ b % 8 = 0 /\ header[b].span >= 56 /\ header[b].span % 8 = 0
         /\ End(b) = b + header[b].span /\ End(b) > b /\ End(b) <= frontier
         /\ End(b) \in Blocks \cup {frontier} /\ End(b) \in Nat
         /\ \A c \in Blocks : b < c => End(b) <= c
         /\ b < frontier
<1>1. b \in Nat /\ header[b].span \in Nat /\ frontier \in Nat
  BY TypeFacts
<1>2. QED BY <1>1, MinimumSpanValue DEF HeapInv, Tiled, End, InitialCursor, Align

\* The walk has stopped at a free block that comes right after `previous'.
LEMMA WalkFacts ==
  ASSUME HeapInv, pc = "walk", selected # 0
  PROVE  /\ selected \in Free /\ selected \in Blocks /\ previous \in Free \cup {0}
         /\ previous < selected
         /\ Follows(previous, selected) /\ Follows(selected, header[selected].next)
         /\ \A f \in Free : f < selected => f <= previous
         /\ \A f \in Free : f # previous => header[f].next # selected
         /\ previous # 0 => freeHead # selected
         /\ previous = 0 => freeHead = selected
<1>1. FreeListExact BY DEF HeapInv
<1>2. previous \in Free \cup {0} /\ selected = Link(previous)
  BY DEF HeapInv, WalkInv
<1>3. Follows(previous, selected)
  BY <1>1, <1>2, FirstLink DEF FreeListExact, Link
<1>4. selected \in Free /\ selected \in Blocks /\ previous < selected
  BY <1>3, TypeFacts DEF Follows
<1>5. Follows(selected, header[selected].next)
  BY <1>1, <1>4 DEF FreeListExact
<1>6. ASSUME NEW f \in Free, f < selected PROVE f <= previous
  BY <1>3, <1>6, TypeFacts, <1>4 DEF Follows
<1>7. ASSUME NEW f \in Free, f # previous, header[f].next = selected PROVE FALSE
  <2>1. Follows(f, selected) BY <1>1, <1>7 DEF FreeListExact
  <2>2. f < selected /\ \A h \in Free : h > f => h >= selected
    BY <2>1, <1>4, FirstLink, TypeFacts DEF Follows
  <2>3. f <= previous /\ f \in Nat /\ previous \in Nat BY <2>2, <1>6, TypeFacts
  <2>4. previous \in Free /\ previous > f BY <2>3, <1>7, <1>2, FirstLink, TypeFacts
  <2>5. QED BY <2>2, <2>4, <1>4, TypeFacts
<1>8. previous # 0 => freeHead # selected
  <2> SUFFICES ASSUME previous # 0, freeHead = selected PROVE FALSE OBVIOUS
  <2>1. Follows(0, selected) BY <1>1 DEF FreeListExact
  <2>2. previous \in Free /\ previous > 0 BY <1>2, FirstLink
  <2>3. QED BY <2>1, <2>2, <1>4, FirstLink, TypeFacts DEF Follows
<1>9. previous = 0 => freeHead = selected BY <1>2 DEF Link
<1>10. QED BY <1>2, <1>3, <1>4, <1>5, <1>6, <1>7, <1>8, <1>9

\* Allocating a span keeps the debt within its range.
LEMMA ChargeType ==
  ASSUME HeapInv, NEW span \in Nat, Charge(span)
  PROVE  debt' \in 0 .. DebtMax
BY PolicyAssumption DEF HeapInv, TypeOK, ControlType, Charge

\* What every successful allocation leaves of the invariant to prove.
LEMMA AllocatedStep ==
  ASSUME HeapInv, pc = "walk", Finish("ok"), UNCHANGED <<epoch, sweep>>,
         debt' \in 0 .. DebtMax, MemoryType', Tiled', StorageBacked', FreeListExact',
         \A b \in Blocks' : header'[b].mark = 0 \/ (b \in Blocks /\ header'[b].mark = header[b].mark)
  PROVE  HeapInv'
<1> USE DEF HeapInv
<1>1. RegisterType' BY TypeFacts DEF RegisterType, Finish, sweep
<1>2. ControlType' BY DEF TypeOK, ControlType, Finish, Phases, Triggers, Results
<1>3. WalkInv' /\ SweptClean' BY DEF WalkInv, SweptClean, Finish
<1>4. MarkInv' BY TypeFacts DEF MarkInv, Finish
<1>5. SweepInv' BY DEF SweepInv, Finish, sweep
<1>6. QED BY <1>1, <1>2, <1>3, <1>4, <1>5 DEF TypeOK

\* Block b is taken into use, and the blocks in use stay what they are.
HandedOut(b) ==
  /\ b \in Nat \ Allocated /\ Allocated' = Allocated \cup {b}
  /\ \A c \in Allocated : header'[c].span = header[c].span /\ header'[c].body = header[c].body

\* Taking a whole free block removes it from the free list.
LEMMA TakeWholeStep ==
  ASSUME HeapInv, TakeWhole
  PROVE  HeapInv' /\ HandedOut(selected)
<1>1. pc = "walk" /\ selected # 0 /\ header[selected].span >= Required
  BY DEF TakeWhole, Fits
<1>0. PICK n \in Nat : n = header[selected].next
  BY <1>1, WalkFacts, TypeFacts
<1>2. /\ selected \in Free /\ selected \in Blocks /\ previous \in Free \cup {0}
      /\ previous < selected /\ Follows(selected, n)
      /\ \A f \in Free : f < selected => f <= previous
      /\ \A f \in Free : f # previous => header[f].next # selected
      /\ previous # 0 => freeHead # selected
  BY <1>0, <1>1, WalkFacts
<1>3. /\ Blocks' = Blocks
      /\ \A b \in Blocks : header'[b] =
           IF b = selected THEN AllocatedHeader(header[b].span, body)
           ELSE IF b = previous THEN [header[b] EXCEPT !.next = n]
           ELSE header[b]
      /\ header' = [b \in Blocks |-> header'[b]]
      /\ freeHead' = IF previous = 0 THEN n ELSE freeHead
  BY <1>0 DEF TakeWhole, Blocks
<1>3a. UNCHANGED <<frontier, committed, epoch, sweep>> /\ stale' \subseteq stale
  BY DEF TakeWhole, Overwrite
<1>4. n \in Nat /\ body \in Nat /\ header[selected].span \in Nat
  BY <1>2, TypeFacts
<1>5. \A b \in Blocks :
        /\ header'[b] \in Header /\ header'[b].span = header[b].span
        /\ b # selected => header'[b].state = header[b].state /\ header'[b].body = header[b].body
        /\ b # selected => header'[b].next = IF b = previous THEN n ELSE header[b].next
        /\ header'[b].mark = 0 \/ header'[b].mark = header[b].mark
  BY <1>3, <1>4, TypeFacts DEF AllocatedHeader, Header
<1>6. header'[selected].state = "allocated" /\ header'[selected].next = 0 /\ header'[selected].body = body
  BY <1>2, <1>3 DEF AllocatedHeader
<1>7. /\ Free' = Free \ {selected} /\ \A b \in Blocks : End(b)' = End(b)
  BY <1>3, <1>5, <1>6 DEF Free, End
<1>8. MemoryType'
  BY <1>3, <1>3a, <1>4, <1>5, TypeFacts DEF HeapInv, TypeOK, MemoryType
<1>9. Tiled'
  <2>1. \A b \in Blocks : header'[b].state = "allocated" =>
          header'[b].next = 0 /\ header'[b].body <= header'[b].span - HeaderSize
    <3>1. ASSUME NEW b \in Blocks, b # selected, header'[b].state = "allocated"
          PROVE  header'[b].next = 0 /\ header'[b].body <= header'[b].span - HeaderSize
      <4>1. header[b].state = "allocated" BY <3>1, <1>5
      <4>2. b # previous BY <4>1, <1>2, BlockFacts DEF Free
      <4>3. QED BY <3>1, <4>1, <4>2, <1>5 DEF HeapInv, Tiled
    <3>2. header'[selected].body <= header'[selected].span - HeaderSize
      BY <1>1, <1>2, <1>5, <1>6, RequiredFacts, TypeFacts DEF HeaderSize
    <3>3. QED BY <3>1, <3>2, <1>6
  <2>2. QED BY <2>1, <1>3, <1>3a, <1>5, <1>7 DEF HeapInv, Tiled
<1>10. StorageBacked' BY <1>3a DEF HeapInv, StorageBacked
<1>11. FreeListExact'
  <2>1. FreeListExact /\ Free \subseteq Nat /\ Free \subseteq Blocks BY <1>1, TypeFacts DEF HeapInv
  <2>2. ASSUME NEW f \in Nat, NEW g \in Nat, Follows(f, g), g # selected, f # selected
        PROVE  Follows(f, g)'
    BY <2>2, <1>7, <2>1 DEF Follows
  <2>3. ASSUME NEW f \in Nat, f = previous PROVE Follows(f, n)'
    BY <2>3, <1>0, <1>2, <1>7, <2>1, TypeFacts DEF Follows
  <2>4. Follows(0, freeHead)'
    <3>1. CASE previous = 0 BY <3>1, <2>3, <1>3
    <3>2. CASE previous # 0
      BY <3>2, <2>1, <2>2, <1>2, <1>1, <1>3, TypeFacts DEF FreeListExact
    <3>3. QED BY <3>1, <3>2
  <2>5. ASSUME NEW f \in Free' PROVE Follows(f, header[f].next)' /\ (End(f) \notin Free)'
    <3>1. f \in Free /\ f # selected /\ f \in Blocks /\ f \in Nat
      BY <1>7, <2>1
    <3>2. End(f)' \notin Free' BY <3>1, <1>7, <2>1 DEF FreeListExact
    <3>3. CASE f = previous
      BY <3>3, <3>1, <2>3, <1>5, <3>2
    <3>4. CASE f # previous
      <4>1. header'[f].next = header[f].next /\ header[f].next # selected /\ header[f].next \in Nat
        BY <3>4, <3>1, <1>2, <1>5, TypeFacts
      <4>2. Follows(f, header[f].next) BY <3>1, <2>1 DEF FreeListExact
      <4>3. QED BY <4>1, <4>2, <2>2, <3>1, <3>2
    <3>5. QED BY <3>3, <3>4
  <2>6. QED BY <2>4, <2>5 DEF FreeListExact
<1>12. debt' \in 0 .. DebtMax /\ Finish("ok")
  BY ChargeType, <1>4 DEF TakeWhole
<1>13. HandedOut(selected)
  <2>1. \A b \in Allocated : b \in Blocks /\ b # selected BY <1>2, TypeFacts
  <2>2. Allocated' = Allocated \cup {selected}
    BY <1>2, <1>3, <1>5, <1>6 DEF Allocated
  <2>3. QED BY <2>1, <2>2, <1>2, <1>5, TypeFacts DEF HandedOut
<1>14. QED
  BY <1>13, <1>1, <1>3, <1>3a, <1>5, <1>8, <1>9, <1>10, <1>11, <1>12, AllocatedStep

\* The tail of a split block takes its place in the free list.
LEMMA TakeSplitStep ==
  ASSUME HeapInv, TakeSplit
  PROVE  HeapInv' /\ HandedOut(selected)
<1>1. /\ pc = "walk" /\ selected # 0 /\ header[selected].span >= Required
      /\ header[selected].span - Required >= 56
  BY MinimumSpanValue DEF TakeSplit, Fits
<1>0. PICK n \in Nat, span \in Nat, rest \in Nat :
        n = header[selected].next /\ span = header[selected].span - Required /\ rest = selected + Required
  <2>1. header[selected].next \in Nat /\ header[selected].span \in Nat /\ selected \in Nat
    BY <1>1, WalkFacts, TypeFacts
  <2>2. header[selected].span - Required \in Nat /\ selected + Required \in Nat
    BY <2>1, <1>1, RequiredFacts
  <2>3. QED BY <2>1, <2>2
<1>2. /\ selected \in Free /\ selected \in Blocks /\ previous \in Free \cup {0}
      /\ previous < selected /\ Follows(selected, n)
      /\ \A f \in Free : f < selected => f <= previous
      /\ \A f \in Free : f # previous => header[f].next # selected
      /\ previous # 0 => freeHead # selected
  BY <1>0, <1>1, WalkFacts
<1>3. /\ Blocks' = Blocks \cup {rest}
      /\ \A b \in Blocks' : header'[b] =
           IF b = selected THEN AllocatedHeader(Required, body)
           ELSE IF b = rest THEN FreeHeader(span, n)
           ELSE IF b = previous THEN [header[b] EXCEPT !.next = rest]
           ELSE header[b]
      /\ header' = [b \in Blocks' |-> header'[b]]
      /\ freeHead' = IF previous = 0 THEN rest ELSE freeHead
  BY <1>0 DEF TakeSplit, Blocks
<1>4. UNCHANGED <<frontier, committed, epoch, sweep>> /\ stale' \subseteq stale
  BY DEF TakeSplit, Overwrite
<1>5. body \in Nat /\ Required \in Nat /\ Required >= 56 /\ Required % 8 = 0 /\ body <= Required - 48
  BY TypeFacts, RequiredFacts
<1>6. /\ selected >= 8 /\ selected % 8 = 0 /\ selected < rest /\ rest + span = End(selected)
      /\ span >= 56 /\ span % 8 = 0 /\ rest % 8 = 0 /\ rest < End(selected)
      /\ End(selected) \in Nat /\ End(selected) \in Blocks \cup {frontier} /\ End(selected) <= frontier
      /\ \A c \in Blocks : selected < c => End(selected) <= c
      /\ \A c \in Blocks : c < selected => End(c) <= selected
  <2>1. selected \in Nat /\ header[selected].span \in Nat BY <1>2, TypeFacts
  <2>2. /\ selected >= 8 /\ selected % 8 = 0 /\ header[selected].span % 8 = 0
        /\ End(selected) = selected + header[selected].span
        /\ End(selected) \in Nat /\ End(selected) \in Blocks \cup {frontier} /\ End(selected) <= frontier
        /\ \A c \in Blocks : selected < c => End(selected) <= c
        /\ \A c \in Blocks : c < selected => End(c) <= selected
    BY <1>2, BlockFacts
  <2>3. selected < rest /\ rest + span = End(selected) /\ rest < End(selected) /\ span >= 56
    BY <2>1, <2>2, <1>0, <1>1, <1>5
  <2>4. span % 8 = 0 /\ rest % 8 = 0
    BY <2>1, <2>2, <1>0, <1>5
  <2>5. QED BY <2>2, <2>3, <2>4
<1>7. rest \notin Blocks
  BY <1>6
<1>8. \A b \in Blocks \ {selected} :
        /\ header'[b] \in Header /\ header'[b].span = header[b].span
        /\ header'[b].state = header[b].state /\ header'[b].body = header[b].body
        /\ header'[b].next = IF b = previous THEN rest ELSE header[b].next
        /\ header'[b].mark = header[b].mark
  <2> SUFFICES ASSUME NEW b \in Blocks, b # selected
               PROVE  /\ header'[b] \in Header /\ header'[b].span = header[b].span
                      /\ header'[b].state = header[b].state /\ header'[b].body = header[b].body
                      /\ header'[b].next = IF b = previous THEN rest ELSE header[b].next
                      /\ header'[b].mark = header[b].mark
    OBVIOUS
  <2>1. header'[b] = IF b = previous THEN [header[b] EXCEPT !.next = rest] ELSE header[b]
    BY <1>3, <1>7
  <2>2. header[b] \in Header BY TypeFacts
  <2>3. QED BY <2>1, <2>2, <1>0 DEF Header
<1>9. /\ header'[selected] \in Header /\ header'[selected].span = Required
      /\ header'[selected].state = "allocated" /\ header'[selected].next = 0
      /\ header'[selected].body = body /\ header'[selected].mark = 0
  <2>1. header'[selected] = AllocatedHeader(Required, body) BY <1>2, <1>3
  <2>2. QED BY <2>1, <1>5 DEF AllocatedHeader, Header
<1>10. /\ header'[rest] \in Header /\ header'[rest].span = span
       /\ header'[rest].state = "free" /\ header'[rest].next = n /\ header'[rest].mark = 0
  <2>1. header'[rest] = FreeHeader(span, n) BY <1>2, <1>3, <1>7
  <2>2. QED BY <2>1, <1>0 DEF FreeHeader, Header
<1>11. Free' = (Free \ {selected}) \cup {rest}
  BY <1>3, <1>7, <1>8, <1>9, <1>10 DEF Free
<1>12. /\ selected + header'[selected].span = rest
       /\ rest + header'[rest].span = End(selected)
       /\ \A b \in Blocks \ {selected} : b + header'[b].span = End(b)
  BY <1>0, <1>6, <1>8, <1>9, <1>10 DEF End
<1>13. MemoryType'
  <2>1. \A b \in Blocks' : header'[b] \in Header BY <1>3, <1>8, <1>9, <1>10
  <2>2. Blocks' \subseteq Nat BY <1>3, <1>0, TypeFacts
  <2>3. freeHead' \in Nat BY <1>3, <1>0, TypeFacts
  <2>4. QED BY <2>1, <2>2, <2>3, <1>3, <1>4 DEF HeapInv, TypeOK, MemoryType
<1>14. Tiled'
  <2>1. ASSUME NEW b \in Blocks'
        PROVE  /\ b >= 8 /\ b % 8 = 0
               /\ header'[b].span >= 56 /\ header'[b].span % 8 = 0
               /\ header'[b].state = "allocated" =>
                    header'[b].next = 0 /\ header'[b].body <= header'[b].span - 48
               /\ b + header'[b].span \in Blocks' \cup {frontier}
               /\ b + header'[b].span <= frontier
    <3>1. CASE b = selected
      <4>1. header'[b].span = Required /\ b + header'[b].span = rest /\ rest <= frontier
        BY <3>1, <1>0, <1>6, <1>9, <1>12, TypeFacts
      <4>2. QED BY <3>1, <4>1, <1>3, <1>5, <1>6, <1>9
    <3>2. CASE b = rest
      <4>1. header'[b].span = span /\ b + header'[b].span = End(selected) /\ b >= 8
        BY <3>2, <1>0, <1>2, <1>6, <1>10, <1>12, TypeFacts
      <4>2. header'[b].state # "allocated" BY <3>2, <1>10
      <4>3. QED BY <3>2, <4>1, <4>2, <1>3, <1>6
    <3>3. CASE b \in Blocks \ {selected}
      <4>1. /\ b >= 8 /\ b % 8 = 0 /\ header[b].span >= 56 /\ header[b].span % 8 = 0
            /\ End(b) \in Blocks \cup {frontier} /\ End(b) <= frontier
        BY <3>3, BlockFacts
      <4>2. ASSUME header'[b].state = "allocated"
            PROVE  header'[b].next = 0 /\ header'[b].body <= header'[b].span - 48
        <5>1. header[b].state = "allocated" BY <3>3, <4>2, <1>8
        <5>2. b # previous BY <5>1, <4>1, <1>2 DEF Free
        <5>3. QED BY <3>3, <5>1, <5>2, <1>8 DEF HeapInv, Tiled, HeaderSize
      <4>3. QED BY <3>3, <4>1, <4>2, <1>3, <1>8, <1>12
    <3>4. QED BY <3>1, <3>2, <3>3, <1>3
  <2>2. ASSUME NEW b \in Blocks', NEW c \in Blocks', b < c
        PROVE  b + header'[b].span <= c
    <3>1. CASE b = selected
      <4>1. c = rest \/ End(selected) <= c BY <3>1, <2>2, <1>3, <1>6
      <4>2. c \in Nat /\ End(selected) \in Nat BY <1>0, <1>3, <1>6, TypeFacts
      <4>3. QED BY <4>1, <4>2, <3>1, <1>0, <1>6, <1>12
    <3>2. CASE b = rest
      BY <3>2, <2>2, <1>3, <1>6, <1>12, <1>0, <1>2, TypeFacts
    <3>3. CASE b \in Blocks \ {selected} /\ c = rest
      <4>1. b < selected
        <5>1. b \in Nat /\ selected \in Nat BY <3>3, <1>2, TypeFacts
        <5>2. selected < b => End(selected) <= b BY <3>3, <1>6
        <5>3. QED BY <5>1, <5>2, <3>3, <2>2, <1>0, <1>6
      <4>2. End(b) <= selected /\ End(b) \in Nat /\ selected \in Nat
        BY <4>1, <3>3, <1>6, <1>2, TypeFacts, BlockFacts
      <4>3. b + header'[b].span = End(b) BY <3>3, <1>12
      <4>4. selected <= rest BY <1>0, <1>6, <4>2
      <4>5. QED BY <4>2, <4>3, <4>4, <3>3
    <3>4. CASE b \in Blocks \ {selected} /\ c \in Blocks
      BY <3>4, <2>2, BlockFacts, <1>12
    <3>5. QED BY <3>1, <3>2, <3>3, <3>4, <1>3
  <2>3. frontier' = frontier /\ (frontier # InitialCursor => InitialCursor \in Blocks')
    BY <1>3, <1>4 DEF HeapInv, Tiled
  <2>4. \A b \in Blocks' : End(b)' = b + header'[b].span
    BY DEF End
  <2>5. frontier % Align = 0 BY DEF HeapInv, Tiled
  <2>6. QED BY <2>1, <2>2, <2>3, <2>4, <2>5, MinimumSpanValue DEF Tiled, InitialCursor, Align, HeaderSize
<1>15. StorageBacked' BY <1>4 DEF HeapInv, StorageBacked
<1>16. FreeListExact'
  <2>1. FreeListExact /\ Free \subseteq Nat /\ Free \subseteq Blocks BY <1>1, TypeFacts DEF HeapInv
  <2>2. \A h \in Free \ {selected} : (h < selected <=> h < rest) /\ (h > selected <=> h > rest)
    BY <1>0, <1>2, <1>6, <2>1, BlockFacts, TypeFacts
  <2>3. ASSUME NEW f \in Nat, NEW g \in Nat, Follows(f, g), f = 0 \/ f \in Free,
               g # selected, f # selected
        PROVE  Follows(f, g)'
    BY <2>2, <2>3, <1>0, <1>2, <1>11, <2>1, TypeFacts DEF Follows
  <2>4. ASSUME NEW f \in Nat, f = previous PROVE Follows(f, rest)'
    BY <2>2, <2>4, <1>0, <1>2, <1>6, <1>11, <2>1, TypeFacts DEF Follows
  <2>5. Follows(rest, n)'
    BY <2>2, <1>0, <1>2, <1>6, <1>11, <2>1, TypeFacts DEF Follows
  <2>6. Follows(0, freeHead)'
    <3>1. CASE previous = 0 BY <3>1, <2>4, <1>3
    <3>2. CASE previous # 0
      BY <3>2, <2>1, <2>3, <1>2, <1>1, <1>3, TypeFacts DEF FreeListExact
    <3>3. QED BY <3>1, <3>2
  <2>7. ASSUME NEW f \in Free' PROVE Follows(f, header[f].next)'
    <3>1. CASE f = rest BY <3>1, <2>5, <1>10
    <3>2. CASE f \in Free /\ f # selected /\ f = previous
      BY <3>2, <2>1, <2>4, <1>8
    <3>3. CASE f \in Free /\ f # selected /\ f # previous
      <4>1. header'[f].next = header[f].next /\ header[f].next # selected /\ header[f].next \in Nat
        BY <3>3, <2>1, <1>2, <1>8, TypeFacts
      <4>2. Follows(f, header[f].next) BY <3>3, <2>1 DEF FreeListExact
      <4>3. QED BY <4>1, <4>2, <2>1, <2>3, <3>3
    <3>4. QED BY <3>1, <3>2, <3>3, <1>11
  <2>8. ASSUME NEW f \in Free' PROVE (End(f) \notin Free)'
    <3>1. CASE f = rest
      <4>1. End(selected) \notin Free BY <1>2, <2>1 DEF FreeListExact
      <4>2. QED BY <3>1, <4>1, <1>6, <1>11, <1>12 DEF End
    <3>2. CASE f \in Free /\ f # selected
      <4>1. End(f) \notin Free BY <3>2, <2>1 DEF FreeListExact
      <4>2. End(f) # rest
        <5>1. CASE f < selected BY <5>1, <3>2, <2>1, <1>6, <1>0, BlockFacts, <1>2, TypeFacts, SMTT(40)
        <5>2. CASE f > selected BY <5>2, <3>2, <2>1, <1>6, <1>0, BlockFacts, <1>2, TypeFacts
        <5>3. QED BY <5>1, <5>2, <3>2, <2>1, <1>2, TypeFacts
      <4>3. QED BY <3>2, <4>1, <4>2, <2>1, <1>11, <1>12 DEF End
    <3>3. QED BY <3>1, <3>2, <1>11
  <2>9. QED BY <2>6, <2>7, <2>8 DEF FreeListExact
<1>17. debt' \in 0 .. DebtMax /\ Finish("ok")
  BY ChargeType, <1>5 DEF TakeSplit
<1>18. \A b \in Blocks' : header'[b].mark = 0 \/ (b \in Blocks /\ header'[b].mark = header[b].mark)
  BY <1>3, <1>8, <1>9, <1>10
<1>19. HandedOut(selected)
  <2>1. \A b \in Allocated : b \in Blocks /\ b # selected BY <1>2, TypeFacts
  <2>2. Allocated' = Allocated \cup {selected}
    BY <1>2, <1>3, <1>7, <1>8, <1>9, <1>10 DEF Allocated
  <2>3. QED BY <2>1, <2>2, <1>2, <1>8, TypeFacts DEF HandedOut
<1>20. QED
  BY <1>19, <1>1, <1>4, <1>13, <1>14, <1>15, <1>16, <1>17, <1>18, AllocatedStep

\* A block above the old frontier touches no other one and lies on committed pages.
LEMMA BumpStep ==
  ASSUME HeapInv, Bump
  PROVE  HeapInv' /\ HandedOut(frontier)
<1>1. pc = "walk" /\ Required <= Capacity - frontier /\ RoundUp(frontier + Required, PageSize) <= Capacity
  BY DEF Bump, ListExhausted, RoomAtFrontier
<1>2. /\ Required \in Nat /\ Required >= 56 /\ Required % 8 = 0 /\ body <= Required - 48
      /\ body \in Nat /\ frontier \in Nat /\ frontier >= 8 /\ frontier % 8 = 0 /\ committed \in Nat
      /\ committed <= Capacity /\ Capacity \in Nat
  BY TypeFacts, RequiredFacts, CapacityAssumption
  DEF HeapInv, Tiled, TypeOK, MemoryType, InitialCursor, Align
<1>3. PICK page \in Nat :
        /\ page = RoundUp(frontier + Required, PageSize)
        /\ page >= frontier + Required /\ page <= Capacity
  BY <1>1, <1>2, RoundUpType, PageAssumption
<1>4. /\ Blocks' = Blocks \cup {frontier}
      /\ \A b \in Blocks' : header'[b] =
           IF b = frontier THEN AllocatedHeader(Required, body) ELSE header[b]
      /\ header' = [b \in Blocks' |-> header'[b]]
  BY DEF Bump, Blocks
<1>5. /\ committed' = IF page > committed THEN page ELSE committed
      /\ frontier' = frontier + Required
      /\ UNCHANGED <<freeHead, stale, epoch, sweep>>
  BY <1>3 DEF Bump
<1>6. frontier \notin Blocks
  BY BlockFacts, <1>2
<1>7. /\ header'[frontier] \in Header /\ header'[frontier].span = Required
      /\ header'[frontier].state = "allocated" /\ header'[frontier].next = 0
      /\ header'[frontier].body = body /\ header'[frontier].mark = 0
  <2>1. header'[frontier] = AllocatedHeader(Required, body) BY <1>4
  <2>2. QED BY <2>1, <1>2 DEF AllocatedHeader, Header
<1>8. \A b \in Blocks : header'[b] = header[b]
  BY <1>4, <1>6
<1>9. Free' = Free
  BY <1>4, <1>6, <1>7, <1>8 DEF Free
<1>10. MemoryType'
  <2>1. \A b \in Blocks' : header'[b] \in Header BY <1>4, <1>7, <1>8, TypeFacts
  <2>2. Blocks' \subseteq Nat BY <1>4, <1>2, TypeFacts
  <2>3. frontier' \in InitialCursor .. Capacity /\ committed' \in 0 .. Capacity
    BY <1>1, <1>2, <1>3, <1>5 DEF InitialCursor
  <2>4. freeHead' \in Nat /\ stale' \subseteq Nat BY <1>5 DEF HeapInv, TypeOK, MemoryType
  <2>5. QED BY <2>1, <2>2, <2>3, <2>4, <1>4 DEF MemoryType
<1>11. Tiled'
  <2>1. ASSUME NEW b \in Blocks'
        PROVE  /\ b >= 8 /\ b % 8 = 0
               /\ header'[b].span >= 56 /\ header'[b].span % 8 = 0
               /\ header'[b].state = "allocated" =>
                    header'[b].next = 0 /\ header'[b].body <= header'[b].span - 48
               /\ b + header'[b].span \in Blocks' \cup {frontier'}
               /\ b + header'[b].span <= frontier'
    <3>1. CASE b = frontier BY <3>1, <1>2, <1>5, <1>7
    <3>2. CASE b \in Blocks
      <4>1. /\ b >= 8 /\ b % 8 = 0 /\ header[b].span >= 56 /\ header[b].span % 8 = 0
            /\ b + header[b].span \in Blocks \cup {frontier} /\ b + header[b].span <= frontier
            /\ b + header[b].span \in Nat
        BY <3>2, BlockFacts
      <4>2. header[b].state = "allocated" => header[b].next = 0 /\ header[b].body <= header[b].span - 48
        BY <3>2 DEF HeapInv, Tiled, HeaderSize
      <4>3. QED BY <4>1, <4>2, <3>2, <1>2, <1>4, <1>5, <1>8
    <3>3. QED BY <3>1, <3>2, <1>4
  <2>2. ASSUME NEW b \in Blocks', NEW c \in Blocks', b < c
        PROVE  b + header'[b].span <= c
    <3>1. CASE b = frontier BY <3>1, <2>2, <1>2, <1>4, BlockFacts, TypeFacts
    <3>2. CASE b \in Blocks /\ c = frontier BY <3>2, <1>8, BlockFacts
    <3>3. CASE b \in Blocks /\ c \in Blocks BY <3>3, <2>2, <1>8, BlockFacts
    <3>4. QED BY <3>1, <3>2, <3>3, <1>4
  <2>3. InitialCursor \in Blocks'
    BY <1>4 DEF HeapInv, Tiled
  <2>4. \A b \in Blocks' : End(b)' = b + header'[b].span BY DEF End
  <2>5. frontier' % 8 = 0 BY <1>2, <1>5
  <2>6. QED BY <2>1, <2>2, <2>3, <2>4, <2>5, MinimumSpanValue DEF Tiled, InitialCursor, Align, HeaderSize
<1>12. StorageBacked' BY <1>2, <1>3, <1>5 DEF StorageBacked
<1>13. FreeListExact'
  <2>1. FreeListExact /\ Free \subseteq Blocks BY <1>1, TypeFacts DEF HeapInv
  <2>2. \A f, g : Follows(f, g)' <=> Follows(f, g)
    BY <1>9 DEF Follows
  <2>3. \A f \in Free : End(f)' = End(f) /\ header'[f].next = header[f].next
    BY <1>8, <2>1 DEF End
  <2>4. QED BY <2>1, <2>2, <2>3, <1>5, <1>9 DEF FreeListExact
<1>14. debt' \in 0 .. DebtMax /\ Finish("ok")
  BY ChargeType, <1>2 DEF Bump
<1>15. \A b \in Blocks' : header'[b].mark = 0 \/ (b \in Blocks /\ header'[b].mark = header[b].mark)
  BY <1>4, <1>7, <1>8
<1>16. HandedOut(frontier)
  <2>1. \A b \in Allocated : b \in Blocks BY TypeFacts
  <2>2. Allocated' = Allocated \cup {frontier}
    BY <1>4, <1>6, <1>7, <1>8 DEF Allocated
  <2>3. QED BY <2>1, <2>2, <1>2, <1>6, <1>8 DEF HandedOut
<1>17. QED
  BY <1>16, <1>1, <1>5, <1>10, <1>11, <1>12, <1>13, <1>14, <1>15, AllocatedStep

\* Only marks change: the geometry and the free list stay.
LEMMA MarksOnly ==
  ASSUME HeapInv, Blocks' = Blocks, header' = [b \in Blocks |-> header'[b]],
         UNCHANGED <<frontier, committed, freeHead, stale>>,
         \A b \in Blocks : /\ header'[b] \in Header
                           /\ header'[b].span = header[b].span
                           /\ header'[b].body = header[b].body
                           /\ header'[b].next = header[b].next
                           /\ header'[b].state = header[b].state
  PROVE  /\ MemoryType' /\ Tiled' /\ StorageBacked'
         /\ Free' = Free /\ Allocated' = Allocated
         /\ FreeListExact => FreeListExact'
         /\ \A b \in Blocks : End(b)' = End(b)
<1>1. MemoryType' BY DEF HeapInv, TypeOK, MemoryType
<1>2. \A b \in Blocks : End(b)' = End(b) BY DEF End
<1>3. Free' = Free /\ Allocated' = Allocated BY DEF Free, Allocated
<1>4. Tiled' BY <1>2 DEF HeapInv, Tiled
<1>5. StorageBacked' BY DEF HeapInv, StorageBacked
<1>6. ASSUME FreeListExact PROVE FreeListExact'
  <2>1. \A f, g : Follows(f, g)' <=> Follows(f, g) BY <1>3 DEF Follows
  <2>2. Free \subseteq Blocks BY TypeFacts
  <2>3. QED BY <1>6, <2>1, <2>2, <1>2, <1>3 DEF FreeListExact
<1>7. QED BY <1>1, <1>2, <1>3, <1>4, <1>5, <1>6

\* After the epoch moves on, no mark equals it or lies beyond it.
LEMMA PrepareStep ==
  ASSUME HeapInv, PrepareCollectionEpoch
  PROVE  /\ HeapInv'
         /\ \A b \in Blocks' : header'[b].mark # epoch'
<1>1. /\ pc = "prepare" /\ pc' = "mark" /\ selected' = 0 /\ previous' = 0
      /\ UNCHANGED <<frontier, committed, freeHead, stale>>
      /\ UNCHANGED <<debt, trigger, body, result, sweep>>
  BY DEF PrepareCollectionEpoch
<1>2. epoch \in 0 .. EpochLimit /\ EpochLimit \in Nat /\ EpochLimit # 0
  BY PolicyAssumption DEF HeapInv, TypeOK, ControlType
<1>3. /\ epoch' \in 1 .. EpochLimit
      /\ \/ epoch = EpochLimit /\ header' = ErasedMarks /\ epoch' = 1
         \/ epoch # EpochLimit /\ header' = header /\ epoch' = epoch + 1
  BY <1>2 DEF PrepareCollectionEpoch
<1>4. /\ Blocks' = Blocks /\ header' = [b \in Blocks |-> header'[b]]
      /\ \A b \in Blocks : /\ header'[b] \in Header
                           /\ header'[b].span = header[b].span
                           /\ header'[b].body = header[b].body
                           /\ header'[b].next = header[b].next
                           /\ header'[b].state = header[b].state
                           /\ header'[b].mark < epoch'
  <2>1. CASE header' = header /\ epoch' = epoch + 1
    BY <2>1, TypeFacts DEF HeapInv, TypeOK, MemoryType, MarkInv, Blocks
  <2>2. CASE header' = ErasedMarks /\ epoch' = 1
    <3>1. Blocks' = Blocks /\ header' = [b \in Blocks |-> header'[b]]
      BY <2>2 DEF ErasedMarks, Blocks
    <3>2. ASSUME NEW b \in Blocks
          PROVE  header'[b] = [header[b] EXCEPT !.mark = 0] /\ header[b] \in Header
      BY <2>2, TypeFacts DEF ErasedMarks
    <3>3. QED BY <2>2, <3>1, <3>2 DEF Header
  <2>3. QED BY <1>3, <2>1, <2>2
<1>5. MemoryType' /\ Tiled' /\ StorageBacked' /\ FreeListExact'
  BY <1>1, <1>4, MarksOnly DEF HeapInv
<1>6. ControlType' /\ RegisterType'
  BY <1>1, <1>2, <1>3, TypeFacts DEF HeapInv, TypeOK, ControlType, RegisterType, Phases, sweep
<1>7. MarkInv'
  BY <1>3, <1>4, TypeFacts, <1>2 DEF MarkInv, Header
<1>8. WalkInv' /\ SweptClean' /\ SweepInv'
  BY <1>1 DEF HeapInv, WalkInv, SweptClean, SweepInv, sweep
<1>9. QED BY <1>1, <1>2, <1>3, <1>4, <1>5, <1>6, <1>7, <1>8 DEF HeapInv, TypeOK, Header

\* Marking an allocated block changes nothing but its mark.
LEMMA TraceMarkStep ==
  ASSUME HeapInv, NEW b \in Blocks, TraceMark(b)
  PROVE  HeapInv'
<1>1. /\ pc = "mark" /\ b \in Allocated
      /\ UNCHANGED <<frontier, committed, freeHead, stale>>
      /\ UNCHANGED <<epoch, debt, pc, trigger, body, result, walk, sweep>>
  BY DEF TraceMark
<1>2. /\ Blocks' = Blocks /\ header' = [c \in Blocks |-> header'[c]]
      /\ \A c \in Blocks : /\ header'[c] \in Header
                           /\ header'[c].span = header[c].span
                           /\ header'[c].body = header[c].body
                           /\ header'[c].next = header[c].next
                           /\ header'[c].state = header[c].state
                           /\ header'[c].mark <= epoch
  <2>1. header = [c \in Blocks |-> header[c]] BY DEF HeapInv, TypeOK, MemoryType
  <2>2. Blocks' = Blocks /\ header' = [c \in Blocks |-> header'[c]]
    BY <2>1 DEF TraceMark, Blocks
  <2>3. ASSUME NEW c \in Blocks
        PROVE  /\ header'[c] = IF c = b THEN [header[c] EXCEPT !.mark = epoch] ELSE header[c]
               /\ header[c] \in Header /\ header[c].mark <= epoch /\ epoch \in Nat
    BY <2>1, TypeFacts DEF TraceMark, HeapInv, MarkInv
  <2>4. QED BY <2>2, <2>3 DEF Header
<1>3. MemoryType' /\ Tiled' /\ StorageBacked' /\ FreeListExact'
  BY <1>1, <1>2, MarksOnly DEF HeapInv
<1>4. ControlType' /\ RegisterType'
  BY <1>1 DEF HeapInv, TypeOK, ControlType, RegisterType, walk, sweep
<1>5. MarkInv'
  BY <1>1, <1>2 DEF HeapInv, MarkInv
<1>6. WalkInv' /\ SweptClean' /\ SweepInv'
  BY <1>1 DEF HeapInv, WalkInv, SweptClean, SweepInv, sweep
<1>7. QED BY <1>1, <1>3, <1>4, <1>5, <1>6 DEF HeapInv, TypeOK

\* Going to collect for pressure changes nothing but where the allocator is.
LEMMA PressureStep ==
  ASSUME HeapInv, PressureRequest
  PROVE  HeapInv'
<1>1. /\ pc = "walk" /\ pc' = "prepare" /\ trigger' = "pressure"
      /\ UNCHANGED <<memory, epoch, debt, body, result, walk, sweep>>
  BY DEF PressureRequest, ListExhausted
<1>2. /\ Tiled' /\ StorageBacked' /\ FreeListExact' /\ MemoryType'
      /\ Blocks' = Blocks
  BY <1>1, MemoryUnchanged DEF HeapInv, TypeOK, memory
<1>3. ControlType' /\ RegisterType'
  BY <1>1 DEF HeapInv, TypeOK, ControlType, RegisterType, Phases, Triggers, walk, sweep
<1>4. WalkInv' /\ MarkInv' /\ SweptClean' /\ SweepInv'
  BY <1>1, <1>2 DEF HeapInv, WalkInv, MarkInv, SweptClean, SweepInv, memory, sweep
<1>5. QED BY <1>2, <1>3, <1>4 DEF HeapInv, TypeOK

\* The sweep starts with nothing behind it and an empty rebuilt list.
LEMMA TraceDoneStep ==
  ASSUME HeapInv, TraceDone
  PROVE  HeapInv'
<1>1. /\ pc = "mark" /\ pc' = "sweep" /\ cursor' = 8
      /\ UNCHANGED <<memory, epoch, debt, trigger, body, result, walk>>
      /\ UNCHANGED <<runStart, runSpan, rebuiltHead, rebuiltTail>>
  BY DEF TraceDone, InitialCursor
<1>2. /\ Tiled' /\ StorageBacked' /\ MemoryType'
      /\ Blocks' = Blocks /\ Free' = Free
  BY <1>1, MemoryUnchanged DEF HeapInv, TypeOK, memory
<1>3. ControlType'
  BY <1>1 DEF HeapInv, TypeOK, ControlType, Phases
<1>4. RegisterType'
  BY <1>1 DEF HeapInv, TypeOK, RegisterType, walk
<1>5. WalkInv' /\ MarkInv' /\ SweptClean'
  BY <1>1, <1>2 DEF HeapInv, WalkInv, MarkInv, SweptClean, memory
<1>6. SweepInv'
  <2>1. runStart' = 0 /\ runSpan' = 0 /\ rebuiltHead' = 0 /\ rebuiltTail' = 0 /\ Swept' = 8
    BY <1>1 DEF HeapInv, SweepInv, Swept
  <2>2. 8 \in Blocks' \cup {frontier'}
    BY <1>1, <1>2 DEF HeapInv, Tiled, InitialCursor, memory
  <2>3. \A b \in Blocks' : ~(b < 8)
    BY <1>2, BlockFacts, TypeFacts
  <2>4. Free' \subseteq Blocks' /\ \A b \in Blocks' : ~(8 <= b /\ b < cursor')
    BY <1>1, <1>2, TypeFacts
  <2>5. QED BY <1>1, <2>1, <2>2, <2>3, <2>4 DEF SweepInv, InitialCursor
<1>7. QED BY <1>1, <1>2, <1>3, <1>4, <1>5, <1>6 DEF HeapInv, TypeOK

\* Where a sweep under way stands.
LEMMA SweepFacts ==
  ASSUME HeapInv, pc = "sweep"
  PROVE  /\ cursor \in Blocks \cup {frontier} /\ cursor >= 8 /\ cursor <= frontier
         /\ runStart # 0 => /\ runStart \in Blocks /\ runStart + runSpan = cursor
                            /\ runStart >= 8 /\ runStart < cursor
                            /\ End(runStart) <= cursor
         /\ runStart = 0 => runSpan = 0
         /\ Swept \in Nat /\ Swept >= 8 /\ Swept <= cursor
         /\ Swept \in Blocks \cup {frontier}
         /\ \A b \in Blocks : b < Swept => End(b) <= Swept
<1>1. /\ cursor \in Blocks \cup {frontier} /\ cursor >= 8
      /\ runStart # 0 => /\ runStart \in Blocks /\ runStart + runSpan = cursor /\ runSpan > 0
      /\ runStart = 0 => runSpan = 0
  BY DEF HeapInv, SweepInv, InitialCursor
<1>2. /\ cursor \in Nat /\ runStart \in Nat /\ runSpan \in Nat /\ frontier \in Nat
      /\ Blocks \subseteq Nat
  BY TypeFacts
<1>3. cursor <= frontier
  BY <1>1, <1>2, BlockFacts
<1>4. runStart # 0 => /\ runStart >= 8 /\ runStart < cursor /\ End(runStart) <= cursor
  BY <1>1, <1>2, BlockFacts
<1>5. /\ Swept \in Nat /\ Swept >= 8 /\ Swept <= cursor
      /\ Swept \in Blocks \cup {frontier}
  BY <1>1, <1>2, <1>4 DEF Swept
<1>6. \A b \in Blocks : b < Swept => End(b) <= Swept
  BY <1>5, BlockFacts
<1>7. QED BY <1>1, <1>3, <1>4, <1>5, <1>6

\* Adding a block to the run leaves what was dealt with as it was.
LEMMA SweepDeadStep ==
  ASSUME HeapInv, SweepDead
  PROVE  HeapInv'
<1>1. /\ pc = "sweep" /\ cursor < frontier /\ ~Live(cursor)
      /\ UNCHANGED <<memory, epoch, debt, pc, trigger, body, result, walk>>
      /\ UNCHANGED <<rebuiltHead, rebuiltTail>>
      /\ runStart' = IF runStart = 0 THEN cursor ELSE runStart
      /\ runSpan' = runSpan + header[cursor].span
      /\ cursor' = End(cursor)
  BY DEF SweepDead, SweepAt
<1>2. /\ Tiled' /\ StorageBacked' /\ MemoryType'
      /\ Blocks' = Blocks /\ Free' = Free /\ Allocated' = Allocated
  BY <1>1, MemoryUnchanged DEF HeapInv, TypeOK, memory
<1>3. /\ cursor \in Blocks /\ cursor \in Nat /\ cursor >= 8
      /\ End(cursor) = cursor + header[cursor].span /\ header[cursor].span \in Nat
      /\ header[cursor].span >= 56 /\ End(cursor) \in Blocks \cup {frontier} /\ End(cursor) \in Nat
  BY <1>1, SweepFacts, BlockFacts, TypeFacts
<1>4. runStart' \in Nat /\ runSpan' \in Nat /\ cursor' \in Nat
  BY <1>1, <1>3, TypeFacts
<1>5. ControlType' /\ RegisterType'
  BY <1>1, <1>4 DEF HeapInv, TypeOK, ControlType, RegisterType, walk
<1>6. WalkInv' /\ MarkInv' /\ SweptClean'
  BY <1>1, <1>2 DEF HeapInv, WalkInv, MarkInv, SweptClean, memory
<1>7. SweepInv'
  <2>1. Swept' = Swept
    BY <1>1, <1>3 DEF Swept
  <2>2. /\ runStart' # 0 /\ runStart' \in Blocks /\ runStart' + runSpan' = cursor' /\ runSpan' > 0
    BY <1>1, <1>3, SweepFacts, TypeFacts
  <2>3. cursor' \in Blocks' \cup {frontier'} /\ cursor' >= 8
    BY <1>1, <1>2, <1>3 DEF memory
  <2>4. /\ header' = header /\ pc' = "sweep" /\ \A b : End(b)' = End(b) /\ Live(b)' = Live(b)
    BY <1>1 DEF memory, End, Live
  <2>5. \A b \in Blocks : Swept <= b /\ b < cursor' => ~Live(b)
    <3>1. \A b \in Blocks : b < cursor' => b < cursor \/ b = cursor
      BY <1>1, <1>3, TypeFacts, BlockFacts
    <3>2. QED BY <3>1, <1>1 DEF HeapInv, SweepInv
  <2>6. QED BY <1>1, <1>2, <2>1, <2>2, <2>3, <2>4, <2>5 DEF HeapInv, SweepInv, InitialCursor
<1>8. QED BY <1>1, <1>2, <1>5, <1>6, <1>7 DEF HeapInv, TypeOK

\* A block that stays, with nothing behind it to turn into free storage.
LEMMA SweepLiveAlone ==
  ASSUME HeapInv, SweepLive, runStart = 0
  PROVE  HeapInv'
<1>1. /\ pc = "sweep" /\ cursor < frontier /\ Live(cursor)
      /\ UNCHANGED <<memory, epoch, debt, pc, trigger, body, result, walk>>
      /\ UNCHANGED <<runStart, runSpan, rebuiltHead, rebuiltTail>>
      /\ cursor' = End(cursor)
  BY DEF SweepLive, SweepAt, memory
<1>2. /\ Tiled' /\ StorageBacked' /\ MemoryType'
      /\ Blocks' = Blocks /\ Free' = Free /\ Allocated' = Allocated
  BY <1>1, MemoryUnchanged DEF HeapInv, TypeOK, memory
<1>3. /\ cursor \in Blocks /\ cursor \in Nat /\ cursor >= 8 /\ cursor \notin Free
      /\ End(cursor) > cursor /\ End(cursor) \in Blocks \cup {frontier} /\ End(cursor) \in Nat
      /\ \A c \in Blocks : cursor < c => End(cursor) <= c
  BY <1>1, SweepFacts, BlockFacts, TypeFacts DEF Live, Allocated
<1>4. ControlType' /\ RegisterType'
  BY <1>1, <1>3 DEF HeapInv, TypeOK, ControlType, RegisterType, walk
<1>5. WalkInv' /\ MarkInv' /\ SweptClean'
  BY <1>1, <1>2 DEF HeapInv, WalkInv, MarkInv, SweptClean, memory
<1>6. SweepInv'
  <2>1. Swept = cursor /\ Swept' = cursor' /\ cursor' > cursor
    BY <1>1, <1>3 DEF Swept
  <2>2. \A b \in Blocks : b < Swept' <=> b < Swept \/ b = cursor
    <3>1. TAKE b \in Blocks
    <3>2. b \in Nat
      BY TypeFacts
    <3>3. cursor < b => End(cursor) <= b
      BY <1>3
    <3>4. Swept = cursor /\ Swept' = End(cursor)
      BY <2>1, <1>1
    <3>5. cursor \in Nat /\ End(cursor) \in Nat /\ cursor < End(cursor)
      BY <1>3
    <3>6. QED BY ONLY <3>2, <3>3, <3>4, <3>5
  <2>3. /\ \A f \in Free : f < Swept' <=> f < Swept
        /\ \A f \in Free : End(f) < Swept => End(f) < Swept'
        /\ rebuiltTail \in Free /\ rebuiltTail < Swept => rebuiltTail < Swept'
        /\ rebuiltHead \in Free /\ rebuiltHead < Swept => rebuiltHead < Swept'
    <3>1. Swept \in Nat /\ Swept' \in Nat /\ Swept < Swept'
      BY <2>1, <1>1, <1>3
    <3>2. \A f \in Free : f \in Blocks /\ f # cursor /\ f \in Nat /\ End(f) \in Nat
      BY <1>3, TypeFacts, BlockFacts
    <3>3. \A f \in Free : f < Swept' <=> f < Swept
      BY <3>2, <2>2
    <3>4. QED BY <3>1, <3>2, <3>3, TypeFacts
  <2>4. /\ header' = header /\ pc' = "sweep" /\ frontier' = frontier
        /\ \A b : End(b)' = End(b) /\ Live(b)' = Live(b)
    BY <1>1 DEF memory, End, Live
  <2>5. \A f \in Free : f < Swept /\ header[f].next \in Free /\ header[f].next < Swept
          => header[f].next < Swept'
    BY <2>3, TypeFacts
  <2>6. runStart' = 0 /\ runSpan' = 0
    BY <1>1 DEF HeapInv, SweepInv
  <2>7. /\ \A b \in Blocks : b < Swept => b \in Free \/ Live(b)
        /\ \A f \in Free : f < Swept => End(f) < Swept /\ End(f) \in Allocated
        /\ \A f \in Free : f < Swept => rebuiltHead # 0 /\ rebuiltHead <= f /\ f <= rebuiltTail
        /\ \A f \in Free : f < Swept =>
             IF f = rebuiltTail THEN header[f].next = 0
             ELSE /\ header[f].next \in Free /\ f < header[f].next /\ header[f].next < Swept
                  /\ \A h \in Free : f < h /\ h < Swept => header[f].next <= h
        /\ rebuiltTail # 0 => rebuiltTail \in Free /\ rebuiltTail < Swept
        /\ rebuiltHead # 0 => rebuiltHead \in Free /\ rebuiltHead < Swept
        /\ rebuiltTail = 0 <=> rebuiltHead = 0
    BY <1>1 DEF HeapInv, SweepInv
  <2>8. \A b \in Blocks' : b < Swept' => b \in Free' \/ Live(b)'
    BY <2>7, <2>2, <2>4, <1>1, <1>2
  <2>9. \A f \in Free' : f < Swept' => End(f)' < Swept' /\ End(f)' \in Allocated'
    BY <2>7, <2>3, <2>4, <1>2
  <2>10. \A f \in Free' : f < Swept' => rebuiltHead' # 0 /\ rebuiltHead' <= f /\ f <= rebuiltTail'
    BY <2>7, <2>3, <1>1, <1>2
  <2>11. \A f \in Free' : f < Swept' =>
             IF f = rebuiltTail' THEN header'[f].next = 0
             ELSE /\ header'[f].next \in Free' /\ f < header'[f].next /\ header'[f].next < Swept'
                  /\ \A h \in Free' : f < h /\ h < Swept' => header'[f].next <= h
    BY <2>7, <2>3, <2>4, <2>5, <1>1, <1>2
  <2>12. /\ rebuiltTail' # 0 => rebuiltTail' \in Free' /\ rebuiltTail' < Swept'
         /\ rebuiltHead' # 0 => rebuiltHead' \in Free' /\ rebuiltHead' < Swept'
         /\ rebuiltTail' = 0 <=> rebuiltHead' = 0
    BY <2>7, <2>3, <1>1, <1>2
  <2>13. cursor' \in Blocks' \cup {frontier'} /\ cursor' >= InitialCursor
    BY <1>1, <1>2, <1>3, <2>4 DEF InitialCursor
  <2>14. ASSUME NEW b \in Blocks' PROVE ~(Swept' <= b /\ b < cursor')
    <3>1. b \in Nat /\ cursor' \in Nat /\ Swept' = cursor' BY <2>1, <1>1, <1>2, <1>3, TypeFacts
    <3>2. QED BY <3>1
  <2>15. QED BY <2>14, <2>6, <2>8, <2>9, <2>10, <2>11, <2>12, <2>13, <2>4 DEF SweepInv
<1>7. QED BY <1>1, <1>2, <1>4, <1>5, <1>6 DEF HeapInv, TypeOK

\* What becomes of the blocks when a run of dead storage becomes one free block.
LEMMA AppendFacts ==
  ASSUME HeapInv, pc = "sweep", runStart # 0, cursor < frontier, AppendFreeRun
  PROVE  /\ Blocks' = {b \in Blocks : b <= runStart \/ b >= cursor}
         /\ header' = [b \in Blocks' |-> header'[b]]
         /\ \A b \in Blocks' : header'[b] \in Header
         /\ header'[runStart] = FreeHeader(cursor - runStart, 0)
         /\ \A b \in Blocks' : b # runStart =>
              /\ header'[b].span = header[b].span /\ header'[b].body = header[b].body
              /\ header'[b].state = header[b].state /\ header'[b].mark = header[b].mark
              /\ header'[b].next = IF b = rebuiltTail THEN runStart ELSE header[b].next
<1>1. /\ runStart \in Blocks /\ runStart < cursor /\ runStart + runSpan = cursor
      /\ runStart \in Nat /\ cursor \in Nat /\ runSpan \in Nat /\ Blocks \subseteq Nat
  BY SweepFacts, TypeFacts
<1>2. Blocks' = {b \in Blocks : b <= runStart \/ b >= cursor}
  BY <1>1 DEF AppendFreeRun, RunInterior, Blocks
<1>3. /\ header' = [b \in Blocks' |-> header'[b]]
      /\ \A b \in Blocks' : header'[b] =
           IF b = runStart THEN FreeHeader(runSpan, 0)
           ELSE IF b = rebuiltTail THEN [header[b] EXCEPT !.next = runStart]
           ELSE header[b]
  BY DEF AppendFreeRun, Blocks
<1>4. runSpan = cursor - runStart
  BY <1>1
<1>5. FreeHeader(runSpan, 0) \in Header
  BY <1>1 DEF FreeHeader, Header
<1>6. \A b \in Blocks' : b \in Blocks /\ header[b] \in Header
  BY <1>2, TypeFacts
<1>7. \A b \in Blocks' : header'[b] \in Header
  BY <1>1, <1>3, <1>5, <1>6 DEF Header
<1>8. header'[runStart] = FreeHeader(cursor - runStart, 0)
  <2>1. runStart \in Blocks' BY <1>1, <1>2
  <2>2. header'[runStart] = FreeHeader(runSpan, 0) BY <2>1, <1>3
  <2>3. QED BY <2>2, <1>4
<1>9. ASSUME NEW b \in Blocks', b # runStart
      PROVE  /\ header'[b].span = header[b].span /\ header'[b].body = header[b].body
             /\ header'[b].state = header[b].state /\ header'[b].mark = header[b].mark
             /\ header'[b].next = IF b = rebuiltTail THEN runStart ELSE header[b].next
  BY <1>3, <1>6, <1>9 DEF Header
<1>10. QED BY <1>2, <1>3, <1>7, <1>8, <1>9

\* A block that stays turns the run of dead storage before it into one free
\* block, the last of the rebuilt list.
LEMMA SweepLiveAppend ==
  ASSUME HeapInv, SweepLive, runStart # 0
  PROVE  HeapInv'
<1>1. /\ pc = "sweep" /\ cursor < frontier /\ Live(cursor) /\ AppendFreeRun
      /\ UNCHANGED <<frontier, committed, freeHead, epoch, debt, pc, trigger, body, result, walk>>
      /\ cursor' = End(cursor)
  BY DEF SweepLive, SweepAt
<1>2. /\ rebuiltHead' = IF rebuiltTail = 0 THEN runStart ELSE rebuiltHead
      /\ rebuiltTail' = runStart /\ runStart' = 0 /\ runSpan' = 0
  BY <1>1 DEF AppendFreeRun
<1>3. /\ runStart \in Blocks /\ runStart \in Nat /\ runStart >= 8 /\ runStart < cursor
      /\ runStart % 8 = 0 /\ End(runStart) <= cursor /\ End(runStart) \in Nat
      /\ End(runStart) >= runStart + 56 /\ header[runStart].span \in Nat
  BY <1>1, SweepFacts, BlockFacts, TypeFacts
<1>4. /\ cursor \in Blocks /\ cursor \in Nat /\ cursor % 8 = 0 /\ cursor \in Allocated
      /\ End(cursor) = cursor + header[cursor].span /\ End(cursor) > cursor
      /\ End(cursor) \in Blocks \cup {frontier} /\ End(cursor) \in Nat /\ End(cursor) <= frontier
      /\ \A c \in Blocks : cursor < c => End(cursor) <= c
  BY <1>1, SweepFacts, BlockFacts, TypeFacts DEF Live, Allocated
<1>5. /\ Blocks' = {b \in Blocks : b <= runStart \/ b >= cursor}
      /\ header' = [b \in Blocks' |-> header'[b]]
      /\ \A b \in Blocks' : header'[b] \in Header
      /\ \A b \in Blocks' : b # runStart =>
           /\ header'[b].span = header[b].span /\ header'[b].body = header[b].body
           /\ header'[b].state = header[b].state /\ header'[b].mark = header[b].mark
           /\ header'[b].next = IF b = rebuiltTail THEN runStart ELSE header[b].next
  BY <1>1, AppendFacts
<1>6. /\ header'[runStart].span = cursor - runStart /\ header'[runStart].state = "free"
      /\ header'[runStart].next = 0 /\ header'[runStart].mark = 0
  <2>1. header'[runStart] = FreeHeader(cursor - runStart, 0) BY <1>1, AppendFacts
  <2>2. QED BY <2>1 DEF FreeHeader
<1>7. /\ runStart \in Blocks' /\ cursor \in Blocks' /\ Blocks' \subseteq Blocks /\ Blocks \subseteq Nat
      /\ frontier \in Nat
  BY <1>3, <1>4, <1>5, TypeFacts
<1>8. /\ Free' \subseteq Blocks'
      /\ \A b \in Blocks' : b # runStart => (b \in Free' <=> b \in Free) /\ (b \in Allocated' <=> b \in Allocated)
      /\ runStart \in Free'
  BY <1>5, <1>6, <1>7 DEF Free, Allocated
<1>9. MemoryType'
  <2>1. stale' \subseteq Nat /\ freeHead' \in Nat /\ frontier' \in InitialCursor .. Capacity /\ committed' \in 0 .. Capacity
    BY <1>1, <1>7 DEF HeapInv, TypeOK, MemoryType, AppendFreeRun, RunInterior
  <2>2. QED BY <2>1, <1>5, <1>7 DEF MemoryType
<1>10. RegisterType'
  <2>1. rebuiltHead' \in Nat /\ rebuiltTail' \in Nat /\ runStart' \in Nat /\ runSpan' \in Nat
    BY <1>2, <1>3, TypeFacts
  <2>2. QED BY <2>1, <1>1, <1>4, TypeFacts DEF RegisterType, walk
<1>11. ControlType'
  BY <1>1 DEF HeapInv, TypeOK, ControlType
<1>12. \A b \in Blocks' : End(b)' = IF b = runStart THEN cursor ELSE End(b)
  BY <1>3, <1>4, <1>5, <1>6 DEF End
<1>13. Tiled'
  <2>1. ASSUME NEW b \in Blocks'
        PROVE  /\ b >= 8 /\ b % 8 = 0
               /\ header'[b].span >= 56 /\ header'[b].span % 8 = 0
               /\ header'[b].state = "allocated" =>
                    header'[b].next = 0 /\ header'[b].body <= header'[b].span - 48
               /\ End(b)' \in Blocks' \cup {frontier} /\ End(b)' <= frontier
    <3>1. CASE b = runStart
      BY <3>1, <1>1, <1>3, <1>4, <1>6, <1>7, <1>12
    <3>2. CASE b # runStart
      <4>1. /\ b >= 8 /\ b % 8 = 0 /\ header[b].span >= 56 /\ header[b].span % 8 = 0
            /\ End(b) \in Blocks \cup {frontier} /\ End(b) <= frontier /\ End(b) > b
            /\ \A c \in Blocks : b < c => End(b) <= c
        BY <1>7, BlockFacts
      <4>2. End(b) <= runStart \/ End(b) >= cursor
        BY <3>2, <4>1, <1>3, <1>4, <1>5, <1>7
      <4>3. header[b].state = "allocated" => header[b].next = 0 /\ header[b].body <= header[b].span - 48
        BY <1>7 DEF HeapInv, Tiled, HeaderSize
      <4>4. rebuiltTail # 0 => rebuiltTail \in Free
        BY <1>1 DEF HeapInv, SweepInv
      <4>5. b = rebuiltTail => header[b].state # "allocated"
        BY <4>1, <4>4 DEF Free
      <4>6. QED BY <3>2, <4>1, <4>2, <4>3, <4>5, <1>5, <1>12
    <3>3. QED BY <3>1, <3>2
  <2>2. ASSUME NEW b \in Blocks', NEW c \in Blocks', b < c
        PROVE  End(b)' <= c
    <3>1. CASE b = runStart BY <3>1, <2>2, <1>3, <1>4, <1>5, <1>7, <1>12
    <3>2. CASE b # runStart BY <3>2, <2>2, <1>7, <1>12, BlockFacts
    <3>3. QED BY <3>1, <3>2
  <2>3. frontier # 8 => 8 \in Blocks'
    BY <1>3, <1>5 DEF HeapInv, Tiled, InitialCursor
  <2>4. frontier' = frontier /\ frontier % Align = 0
    BY <1>1 DEF HeapInv, Tiled
  <2>5. QED BY <2>1, <2>2, <2>3, <2>4, MinimumSpanValue DEF Tiled, InitialCursor, Align, HeaderSize
<1>14. StorageBacked' /\ WalkInv' /\ SweptClean'
  BY <1>1 DEF HeapInv, StorageBacked, WalkInv, SweptClean
<1>15. MarkInv'
  <2>1. epoch' = epoch /\ epoch \in Nat BY <1>1, TypeFacts
  <2>2. \A b \in Blocks' : header'[b].mark <= epoch
    BY <2>1, <1>5, <1>6, <1>7 DEF HeapInv, MarkInv
  <2>3. QED BY <2>1, <2>2, <1>1 DEF HeapInv, MarkInv
<1>16. SweepInv'
  <2>1. Swept = runStart /\ Swept' = End(cursor)
    BY <1>1, <1>2, <1>3 DEF Swept
  <2>2. \A b \in Blocks' : b < End(cursor) <=> b < runStart \/ b = runStart \/ b = cursor
    BY <1>3, <1>4, <1>5, <1>7
  <2>3. /\ \A b \in Blocks : b < runStart => b \in Free \/ Live(b)
        /\ \A f \in Free : f < runStart => End(f) < runStart /\ End(f) \in Allocated
        /\ \A f \in Free : f < runStart => rebuiltHead # 0 /\ rebuiltHead <= f /\ f <= rebuiltTail
        /\ \A f \in Free : f < runStart =>
             IF f = rebuiltTail THEN header[f].next = 0
             ELSE /\ header[f].next \in Free /\ f < header[f].next /\ header[f].next < runStart
                  /\ \A h \in Free : f < h /\ h < runStart => header[f].next <= h
        /\ rebuiltTail # 0 => rebuiltTail \in Free /\ rebuiltTail < runStart
        /\ rebuiltHead # 0 => rebuiltHead \in Free /\ rebuiltHead < runStart
        /\ rebuiltTail = 0 <=> rebuiltHead = 0
    BY <1>1, <2>1 DEF HeapInv, SweepInv
  <2>4. /\ \A f \in Free' : f < End(cursor) <=> (f \in Free /\ f < runStart) \/ f = runStart
        /\ \A f \in Free : f < runStart => f \in Free' /\ f \in Blocks'
    BY <2>2, <1>3, <1>4, <1>5, <1>7, <1>8, TypeFacts
  <2>5. ASSUME NEW b \in Blocks', b < End(cursor) PROVE b \in Free' \/ Live(b)'
    <3>1. CASE b = runStart BY <3>1, <1>8
    <3>2. CASE b # runStart
      <4>1. b \in Free \/ Live(b) BY <3>2, <2>5, <2>2, <2>3, <1>1, <1>7
      <4>2. Live(b) <=> Live(b)' BY <3>2, <1>1, <1>5 DEF Live
      <4>3. QED BY <4>1, <4>2, <3>2, <1>8
    <3>3. QED BY <3>1, <3>2
  <2>6. ASSUME NEW f \in Free', f < End(cursor) PROVE End(f)' < End(cursor) /\ End(f)' \in Allocated'
    <3>1. CASE f = runStart BY <3>1, <1>3, <1>4, <1>7, <1>8, <1>12
    <3>2. CASE f # runStart
      <4>1. f \in Free /\ f < runStart /\ f \in Blocks' /\ f \in Blocks BY <3>2, <2>6, <2>4, <1>7, <1>8
      <4>2. End(f) < runStart /\ End(f) \in Allocated /\ End(f) \in Nat BY <4>1, <2>3, BlockFacts
      <4>3. End(f) \in Blocks' /\ End(f) # runStart BY <4>2, <1>3, <1>5, TypeFacts
      <4>4. QED BY <4>1, <4>2, <4>3, <3>2, <1>3, <1>4, <1>8, <1>12
    <3>3. QED BY <3>1, <3>2
  <2>7. ASSUME NEW f \in Free', f < End(cursor)
        PROVE  rebuiltHead' # 0 /\ rebuiltHead' <= f /\ f <= rebuiltTail'
    <3>1. f \in Nat /\ rebuiltHead \in Nat BY <1>7, <1>8, TypeFacts
    <3>2. CASE f = runStart BY <3>1, <3>2, <2>3, <1>2, <1>3
    <3>3. CASE f \in Free /\ f < runStart BY <3>1, <3>3, <2>3, <1>2, <1>3
    <3>4. QED BY <3>2, <3>3, <2>4, <2>7
  <2>8. ASSUME NEW f \in Free', f < End(cursor)
        PROVE  IF f = rebuiltTail' THEN header'[f].next = 0
               ELSE /\ header'[f].next \in Free' /\ f < header'[f].next /\ header'[f].next < End(cursor)
                    /\ \A h \in Free' : f < h /\ h < End(cursor) => header'[f].next <= h
    <3>1. CASE f = runStart BY <3>1, <1>2, <1>6
    <3>2. CASE f # runStart /\ f = rebuiltTail
      <4>1. f \in Free /\ f < runStart /\ f \in Blocks' BY <3>2, <2>8, <2>4, <1>8
      <4>2. header'[f].next = runStart /\ runStart < End(cursor) BY <3>2, <4>1, <1>3, <1>4, <1>5
      <4>3. ASSUME NEW h \in Free', f < h, h < End(cursor) PROVE runStart <= h
        <5>1. h = runStart \/ (h \in Free /\ h < runStart) BY <4>3, <2>4
        <5>2. h \in Nat /\ f \in Nat BY <1>7, <1>8
        <5>3. QED BY <5>1, <5>2, <4>3, <3>2, <2>3, <1>3
      <4>4. QED BY <4>1, <4>2, <4>3, <3>2, <1>2, <1>8
    <3>3. CASE f # runStart /\ f # rebuiltTail
      <4>1. f \in Free /\ f < runStart /\ f \in Blocks' BY <3>3, <2>8, <2>4, <1>8
      <4>2. /\ header[f].next \in Free /\ f < header[f].next /\ header[f].next < runStart
            /\ \A h \in Free : f < h /\ h < runStart => header[f].next <= h
        BY <4>1, <3>3, <2>3
      <4>3. header'[f].next = header[f].next /\ header[f].next \in Free' /\ header[f].next \in Nat
        BY <4>1, <4>2, <3>3, <2>4, <1>5, <1>7, <1>8
      <4>4. header[f].next < End(cursor) BY <4>2, <4>3, <1>3, <1>4
      <4>5. ASSUME NEW h \in Free', f < h, h < End(cursor) PROVE header[f].next <= h
        BY <4>5, <4>2, <4>3, <2>4, <1>3
      <4>6. QED BY <4>2, <4>3, <4>4, <4>5, <3>3, <1>2
    <3>4. QED BY <3>1, <3>2, <3>3
  <2>9. /\ rebuiltTail' # 0 => rebuiltTail' \in Free' /\ rebuiltTail' < End(cursor)
        /\ rebuiltHead' # 0 => rebuiltHead' \in Free' /\ rebuiltHead' < End(cursor)
        /\ rebuiltTail' = 0 <=> rebuiltHead' = 0
    <3>1. runStart < End(cursor) BY <1>3, <1>4
    <3>2. rebuiltHead \in Free /\ rebuiltHead < runStart => rebuiltHead \in Free' /\ rebuiltHead < End(cursor)
      BY <2>4, <3>1, <1>3, <1>4, TypeFacts
    <3>3. QED BY <3>1, <3>2, <2>3, <1>2, <1>3, <1>8
  <2>10. End(cursor) \in Blocks' \cup {frontier} /\ End(cursor) >= 8
    BY <1>3, <1>4, <1>5
  <2>11. \A b \in Blocks' : ~(Swept' <= b /\ b < cursor')
    BY <1>1, <1>4, <1>7, <2>1
  <2>12. QED
    BY <1>1, <1>2, <2>1, <2>11, <2>5, <2>6, <2>7, <2>8, <2>9, <2>10 DEF SweepInv, InitialCursor
<1>17. QED BY <1>1, <1>9, <1>10, <1>11, <1>13, <1>14, <1>15, <1>16 DEF HeapInv, TypeOK

\* What was dealt with is all that is left when the sweep returns.
LEMMA SweptAway ==
  ASSUME HeapInv, SweepDone
  PROVE  /\ pc = "sweep" /\ cursor = frontier
         /\ frontier' = Swept
         /\ Blocks' = {b \in Blocks : b < Swept}
         /\ header' = [b \in Blocks' |-> header[b]]
         /\ stale' \subseteq stale
<1>1. pc = "sweep" /\ cursor = frontier /\ frontier \in Nat /\ runStart \in Nat /\ Blocks \subseteq Nat
  BY TypeFacts DEF SweepDone
<1>2. header = [b \in Blocks |-> header[b]] BY DEF HeapInv, TypeOK, MemoryType
<1>3. CASE runStart = 0
  <2>1. UNCHANGED <<header, frontier, stale>> /\ Swept = frontier
    BY <1>1, <1>3 DEF SweepDone, Swept
  <2>2. Blocks' = Blocks /\ \A b \in Blocks : b < frontier
    BY <2>1, BlockFacts DEF Blocks
  <2>3. QED BY <2>1, <2>2, <1>1, <1>2
<1>4. CASE runStart # 0
  <2>1. /\ header' = [b \in {c \in Blocks : c < runStart} |-> header[b]]
        /\ frontier' = runStart /\ Swept = runStart /\ stale' \subseteq stale
    BY <1>1, <1>4 DEF SweepDone, Swept, Overwrite
  <2>2. Blocks' = {c \in Blocks : c < runStart} BY <2>1 DEF Blocks
  <2>3. QED BY <2>1, <2>2, <1>1
<1>5. QED BY <1>3, <1>4

\* The rebuilt list becomes the free list of what is left.
LEMMA SweepDoneStep ==
  ASSUME HeapInv, SweepDone
  PROVE  HeapInv'
<1>1. /\ freeHead' = rebuiltHead /\ debt' = 0 /\ pc' = "walk"
      /\ selected' = rebuiltHead /\ previous' = 0
      /\ cursor' = 0 /\ runStart' = 0 /\ runSpan' = 0
      /\ rebuiltHead' = 0 /\ rebuiltTail' = 0
      /\ UNCHANGED <<committed, epoch, trigger, body, result>>
  BY DEF SweepDone
<1>2. PICK s \in Nat : s = Swept BY SweepFacts, SweptAway
<1>3. /\ pc = "sweep" /\ cursor = frontier /\ frontier' = s
      /\ Blocks' = {b \in Blocks : b < s}
      /\ header' = [b \in Blocks' |-> header[b]] /\ stale' \subseteq stale
  BY <1>2, SweptAway
<1>4. /\ s >= 8 /\ s <= frontier /\ s \in Blocks \cup {frontier} /\ Blocks \subseteq Nat
      /\ \A b \in Blocks : b < s => End(b) <= s
  BY <1>2, <1>3, SweepFacts, TypeFacts
<1>5. /\ \A b \in Blocks' : header'[b] = header[b] /\ End(b)' = End(b)
      /\ Free' = {f \in Free : f < s} /\ Allocated' = {b \in Allocated : b < s}
  BY <1>3 DEF End, Free, Allocated
<1>6. MemoryType'
  <2>1. \A b \in Blocks' : header'[b] \in Header BY <1>3, <1>5, TypeFacts
  <2>2. Blocks' \subseteq Nat /\ stale' \subseteq Nat
    BY <1>3, <1>4 DEF HeapInv, TypeOK, MemoryType
  <2>3. frontier' \in InitialCursor .. Capacity
    BY <1>3, <1>4, CapacityAssumption DEF HeapInv, TypeOK, MemoryType, InitialCursor
  <2>4. freeHead' \in Nat /\ committed' \in 0 .. Capacity
    BY <1>1, TypeFacts DEF HeapInv, TypeOK, MemoryType
  <2>5. header' = [b \in Blocks' |-> header'[b]] BY <1>3
  <2>6. QED BY <2>1, <2>2, <2>3, <2>4, <2>5 DEF MemoryType
<1>7. ControlType' /\ RegisterType'
  <2>1. ControlType' BY <1>1, PolicyAssumption DEF HeapInv, TypeOK, ControlType, Phases
  <2>2. RegisterType' BY <1>1, TypeFacts DEF RegisterType
  <2>3. QED BY <2>1, <2>2
<1>8. Tiled'
  <2>1. ASSUME NEW b \in Blocks'
        PROVE  /\ b >= 8 /\ b % 8 = 0
               /\ header'[b].span >= 56 /\ header'[b].span % 8 = 0
               /\ header'[b].state = "allocated" =>
                    header'[b].next = 0 /\ header'[b].body <= header'[b].span - 48
               /\ End(b)' \in Blocks' \cup {s} /\ End(b)' <= s
    <3>1. b \in Blocks /\ b < s /\ b \in Nat BY <1>3, <1>4
    <3>2. /\ b >= 8 /\ b % 8 = 0 /\ header[b].span >= 56 /\ header[b].span % 8 = 0
          /\ End(b) \in Blocks \cup {frontier} /\ End(b) \in Nat
      BY <3>1, BlockFacts
    <3>3. header[b].state = "allocated" => header[b].next = 0 /\ header[b].body <= header[b].span - 48
      BY <3>1 DEF HeapInv, Tiled, HeaderSize
    <3>4. End(b) <= s BY <3>1, <1>4
    <3>5. End(b) \in Blocks' \cup {s}
      <4>1. CASE End(b) \in Blocks BY <4>1, <3>2, <3>4, <1>3
      <4>2. CASE End(b) = frontier BY <4>2, <3>2, <3>4, <1>4, TypeFacts
      <4>3. QED BY <4>1, <4>2, <3>2
    <3>6. QED BY <3>2, <3>3, <3>4, <3>5, <1>5
  <2>2. ASSUME NEW b \in Blocks', NEW c \in Blocks', b < c PROVE End(b)' <= c
    BY <2>2, <1>3, <1>5, BlockFacts
  <2>3. s # 8 => 8 \in Blocks'
    <3>1. s # 8 => frontier # 8
      BY <1>4, TypeFacts
    <3>2. QED BY <3>1, <1>3, <1>4 DEF HeapInv, Tiled, InitialCursor
  <2>4. s % 8 = 0
    BY <1>4, BlockFacts DEF HeapInv, Tiled, Align
  <2>5. QED BY <2>1, <2>2, <2>3, <2>4, <1>3, MinimumSpanValue DEF Tiled, InitialCursor, Align, HeaderSize
<1>9. StorageBacked'
  <2>1. frontier \in Nat /\ committed \in Nat /\ committed' = committed BY <1>1, TypeFacts
  <2>2. QED BY <2>1, <1>3, <1>4 DEF HeapInv, StorageBacked, InitialCursor
<1>10. /\ \A b \in Blocks : b < s => b \in Free \/ Live(b)
       /\ \A f \in Free : f < s => End(f) < s /\ End(f) \in Allocated
       /\ \A f \in Free : f < s => rebuiltHead # 0 /\ rebuiltHead <= f /\ f <= rebuiltTail
       /\ \A f \in Free : f < s =>
            IF f = rebuiltTail THEN header[f].next = 0
            ELSE /\ header[f].next \in Free /\ f < header[f].next /\ header[f].next < s
                 /\ \A h \in Free : f < h /\ h < s => header[f].next <= h
       /\ rebuiltTail # 0 => rebuiltTail \in Free /\ rebuiltTail < s
       /\ rebuiltHead # 0 => rebuiltHead \in Free /\ rebuiltHead < s
       /\ rebuiltTail = 0 <=> rebuiltHead = 0
  BY <1>2, <1>3 DEF HeapInv, SweepInv
<1>11. FreeListExact'
  <2>1. /\ Free' \subseteq Free /\ Free' \subseteq Blocks' /\ Free' \subseteq Nat
        /\ \A f \in Free' : f < s /\ f >= 8 /\ f \in Blocks /\ header'[f] = header[f] /\ header[f].next \in Nat
        /\ rebuiltHead \in Nat /\ rebuiltTail \in Nat
    <3>1. Free \subseteq Blocks BY TypeFacts
    <3>2. QED BY <3>1, <1>3, <1>4, <1>5, BlockFacts, TypeFacts
  <2>2. Follows(0, freeHead)'
    <3>1. CASE rebuiltHead = 0
      <4>1. Free' = {} BY <3>1, <1>5, <1>10
      <4>2. QED BY <4>1, <3>1, <1>1 DEF Follows
    <3>2. CASE rebuiltHead # 0
      <4>1. rebuiltHead \in Free' BY <3>2, <1>5, <1>10
      <4>2. \A h \in Free' : h >= rebuiltHead BY <1>5, <1>10, <2>1
      <4>3. rebuiltHead > 0 BY <4>1, <2>1
      <4>4. QED BY <4>1, <4>2, <4>3, <1>1 DEF Follows
    <3>3. QED BY <3>1, <3>2
  <2>3. ASSUME NEW f \in Free' PROVE Follows(f, header[f].next)'
    <3>1. f \in Free /\ f < s /\ header'[f].next = header[f].next BY <2>1
    <3>2. CASE f = rebuiltTail
      <4>1. header[f].next = 0 /\ \A h \in Free' : h <= f BY <3>1, <3>2, <1>5, <1>10
      <4>2. QED BY <4>1, <3>1 DEF Follows
    <3>3. CASE f # rebuiltTail
      <4>1. /\ header[f].next \in Free /\ f < header[f].next /\ header[f].next < s
            /\ \A h \in Free : f < h /\ h < s => header[f].next <= h
        BY <3>1, <3>3, <1>10
      <4>2. header[f].next \in Free' /\ header[f].next > f BY <4>1, <1>5, <2>1
      <4>3. \A h \in Free' : h > f => h >= header[f].next BY <4>1, <4>2, <1>5, <2>1
      <4>4. QED BY <4>2, <4>3, <3>1 DEF Follows
    <3>4. QED BY <3>2, <3>3
  <2>4. ASSUME NEW f \in Free' PROVE (End(f) \notin Free)'
    <3>1. f \in Free /\ f < s /\ End(f)' = End(f) BY <2>1, <1>5
    <3>2. End(f) \in Allocated /\ End(f) \in Blocks BY <3>1, <1>10, TypeFacts
    <3>3. End(f) \notin Free BY <3>2, TypeFacts
    <3>4. End(f) \notin Free' BY <3>3, <2>1
    <3>5. QED BY <3>1, <3>4
  <2>5. QED BY <2>2, <2>3, <2>4 DEF FreeListExact
<1>12. WalkInv'
  <2>1. ASSUME NEW f \in Free' PROVE ~(f <= 0)
    <3>1. f \in Blocks BY <1>5, TypeFacts
    <3>2. f \in Nat /\ f >= 8 BY <3>1, BlockFacts, TypeFacts
    <3>3. QED BY <3>2
  <2>2. QED BY <2>1, <1>1 DEF WalkInv, Link
<1>13. MarkInv'
  BY <1>1, <1>3, <1>5 DEF HeapInv, MarkInv
<1>14. SweptClean'
  <2>1. ASSUME NEW b \in Allocated' PROVE header'[b].mark = epoch
    <3>1. b \in Allocated /\ b < s /\ b \in Blocks /\ b \in Blocks'
      BY <1>3, <1>5, TypeFacts
    <3>2. b \notin Free BY <3>1, TypeFacts
    <3>3. QED BY <3>1, <3>2, <1>5, <1>10 DEF Live
  <2>2. QED BY <2>1, <1>1 DEF SweptClean
<1>15. SweepInv' BY <1>1 DEF SweepInv
<1>16. QED BY <1>1, <1>6, <1>7, <1>8, <1>9, <1>11, <1>12, <1>13, <1>14, <1>15 DEF HeapInv, TypeOK

\* Nothing changes: nothing is lost.
LEMMA StutterStep ==
  ASSUME HeapInv, UNCHANGED vars
  PROVE  HeapInv'
<1>1. UNCHANGED <<memory, walk, sweep, epoch, debt, pc, trigger, body, result>> BY DEF vars
<1>2. /\ Tiled' /\ StorageBacked' /\ MemoryType' /\ FreeListExact' = FreeListExact
      /\ Blocks' = Blocks /\ Free' = Free /\ Allocated' = Allocated
  BY <1>1, MemoryUnchanged DEF HeapInv, TypeOK, memory
<1>3. ControlType' /\ RegisterType'
  BY <1>1 DEF HeapInv, TypeOK, ControlType, RegisterType, walk, sweep
<1>4. WalkInv' /\ MarkInv' /\ SweptClean'
  BY <1>1, <1>2 DEF HeapInv, WalkInv, MarkInv, SweptClean, Link, Required, memory, walk
<1>5. SweepInv'
  <2>1. Swept' = Swept /\ \A b : End(b)' = End(b) /\ Live(b)' = Live(b)
    BY <1>1 DEF Swept, End, Live, memory, sweep
  <2>2. QED BY <2>1, <1>1, <1>2 DEF HeapInv, SweepInv, memory, sweep
<1>6. QED BY <1>1, <1>2, <1>3, <1>4, <1>5 DEF HeapInv, TypeOK

\* Every step of the allocator keeps the invariant.
LEMMA StepInv ==
  ASSUME HeapInv, [Next]_vars
  PROVE  HeapInv'
<1>1. CASE Request BY <1>1, RequestStep
<1>2. CASE RawAllocate
  <2>1. CASE CommitFailure
    <3>1. pc = "walk" /\ Finish("commit_failed") /\ UNCHANGED <<memory, epoch, debt, sweep>>
      BY <2>1 DEF CommitFailure, ListExhausted
    <3>2. QED BY <3>1, FinishStep DEF Results
  <2>2. CASE Exhausted
    <3>1. pc = "walk" /\ Finish("exhausted") /\ UNCHANGED <<memory, epoch, debt, sweep>>
      BY <2>2 DEF Exhausted, ListExhausted
    <3>2. QED BY <3>1, FinishStep DEF Results
  <2>3. QED
    BY <1>2, <2>1, <2>2, WalkNextStep, TakeSplitStep, TakeWholeStep, BumpStep, PressureStep
    DEF RawAllocate
<1>3. CASE Collect
  <2>1. CASE TraceFailed
    <3>1. pc = "mark" /\ Finish("collection_failed") /\ UNCHANGED <<memory, epoch, debt, sweep>>
      BY <2>1 DEF TraceFailed
    <3>2. QED BY <3>1, FinishStep DEF Results
  <2>2. CASE SweepLive BY <2>2, SweepLiveAlone, SweepLiveAppend
  <2>3. QED
    BY <1>3, <2>1, <2>2, PrepareStep, TraceMarkStep, TraceDoneStep, SweepDeadStep, SweepDoneStep
    DEF Collect
<1>4. CASE UNCHANGED vars BY <1>4, StutterStep
<1>5. QED BY <1>1, <1>2, <1>3, <1>4 DEF Next

-----------------------------------------------------------------------------
(* The theorems. *)

\* The invariant holds in every reachable state of the allocator.
THEOREM HeapInvariance == Spec => []HeapInv
<1>1. HeapInv /\ [Next]_vars => HeapInv' BY StepInv
<1>2. QED BY <1>1, InitInv, PTL DEF Spec

\* Every variable of the allocator stays within its type.
THEOREM TypeCorrectness == Spec => []TypeOK
<1>1. HeapInv => TypeOK BY DEF HeapInv
<1>2. QED BY <1>1, HeapInvariance, PTL

\* Outside a sweep the heap passes sao2_heap_validate, although the production
\* allocator never runs that check.
THEOREM HeapValidity == Spec => []HeapValid
<1>1. HeapInv => HeapValid BY DEF HeapInv, HeapValid
<1>2. QED BY <1>1, HeapInvariance, PTL

\* When the allocation that made the heap collect resumes, the garbage is gone.
THEOREM SweepIsComplete == Spec => []SweptClean
<1>1. HeapInv => SweptClean BY DEF HeapInv
<1>2. QED BY <1>1, HeapInvariance, PTL

\* No mark of an earlier collection counts in a later one, even after one that
\* failed or after the epochs wrapped around.
THEOREM MarksNeverStale == Spec => NoStaleMark
<1>1. HeapInv /\ [Next]_vars => [pc = "prepare" => \A b \in Blocks' : header'[b].mark # epoch']_vars
  <2> SUFFICES ASSUME HeapInv, Next, pc = "prepare" PROVE \A b \in Blocks' : header'[b].mark # epoch'
    OBVIOUS
  <2>1. ~Request
    BY DEF Request, RejectRequest, PolicyRequest, PlainRequest, StartRequest
  <2>2. ~RawAllocate
    BY DEF RawAllocate, WalkNext, TakeSplit, TakeWhole, Bump, CommitFailure, PressureRequest,
       Exhausted, Fits, ListExhausted
  <2>3. ~(\E b \in Blocks : TraceMark(b)) /\ ~TraceFailed /\ ~TraceDone
    BY DEF TraceMark, TraceFailed, TraceDone
  <2>4. ~SweepLive /\ ~SweepDead /\ ~SweepDone
    BY DEF SweepLive, SweepDead, SweepDone, SweepAt
  <2>5. PrepareCollectionEpoch BY <2>1, <2>2, <2>3, <2>4 DEF Next, Collect
  <2>6. QED BY <2>5, PrepareStep
<1>2. QED BY <1>1, HeapInvariance, PTL DEF Spec, NoStaleMark

\* Only an allocation takes a block into use; the other steps keep the blocks
\* that the trace has marked and the spans and bodies of those they keep.
LEMMA KeepStep ==
  ASSUME HeapInv, [Next]_vars, ~TakeSplit, ~TakeWhole, ~Bump
  PROVE  /\ Allocated' \subseteq Allocated
         /\ \A b \in Allocated' : header'[b].span = header[b].span /\ header'[b].body = header[b].body
         /\ \A b \in Allocated : (pc = "sweep" => Live(b)) => b \in Allocated'
         /\ \A b \in Allocated' : (pc' = "sweep" => Live(b)') => (pc = "sweep" => Live(b))
<1>1. CASE Request \/ WalkNext \/ CommitFailure \/ PressureRequest \/ Exhausted \/ TraceFailed
           \/ UNCHANGED vars
  <2>1. header' = header /\ (pc = "sweep" => pc' = "sweep" /\ epoch' = epoch)
    BY <1>1 DEF Request, RejectRequest, PolicyRequest, PlainRequest, StartRequest, WalkNext,
       CommitFailure, PressureRequest, Exhausted, TraceFailed, ListExhausted, vars, memory
  <2>2. Allocated' = Allocated /\ (pc = "sweep" => \A b : Live(b)' = Live(b))
    BY <2>1 DEF Allocated, Blocks, Live
  <2>3. QED BY <2>1, <2>2
<1>2. CASE TraceDone \/ SweepDead
  <2>1. header' = header /\ epoch' = epoch
    BY <1>2 DEF TraceDone, SweepDead, memory
  <2>2. Allocated' = Allocated /\ \A b : Live(b)' = Live(b)
    BY <2>1 DEF Allocated, Blocks, Live
  <2>3. pc' = "sweep"
    BY <1>2 DEF TraceDone, SweepDead, SweepAt
  <2>4. QED BY <2>1, <2>2, <2>3
<1>3. CASE PrepareCollectionEpoch \/ \E b \in Blocks : TraceMark(b)
  <2>1. /\ pc # "sweep" /\ Blocks' = Blocks
        /\ \A b \in Blocks : /\ header'[b].span = header[b].span
                             /\ header'[b].body = header[b].body
                             /\ header'[b].state = header[b].state
    <3>1. CASE PrepareCollectionEpoch
      <4>1. pc = "prepare" /\ (header' = header \/ header' = ErasedMarks)
        BY <3>1 DEF PrepareCollectionEpoch
      <4>2. CASE header' = header BY <4>1, <4>2 DEF Blocks
      <4>3. CASE header' = ErasedMarks
        <5>1. Blocks' = Blocks BY <4>3 DEF ErasedMarks, Blocks
        <5>2. \A b \in Blocks : header'[b] = [header[b] EXCEPT !.mark = 0] /\ header[b] \in Header
          BY <4>3, TypeFacts DEF ErasedMarks
        <5>3. QED BY <4>1, <5>1, <5>2 DEF Header
      <4>4. QED BY <4>1, <4>2, <4>3
    <3>2. CASE \E b \in Blocks : TraceMark(b)
      <4>1. PICK b \in Blocks : TraceMark(b) BY <3>2
      <4>2. header = [c \in Blocks |-> header[c]] BY DEF HeapInv, TypeOK, MemoryType
      <4>3. pc = "mark" /\ Blocks' = Blocks BY <4>1, <4>2 DEF TraceMark, Blocks
      <4>4. \A c \in Blocks : /\ header[c] \in Header
                              /\ header'[c] = IF c = b THEN [header[c] EXCEPT !.mark = epoch] ELSE header[c]
        BY <4>1, <4>2, TypeFacts DEF TraceMark
      <4>5. QED BY <4>3, <4>4 DEF Header
    <3>3. QED BY <1>3, <3>1, <3>2
  <2>2. Allocated' = Allocated /\ Allocated \subseteq Blocks
    BY <2>1 DEF Allocated
  <2>3. QED BY <2>1, <2>2
<1>4. CASE SweepLive
  <2>1. pc = "sweep" /\ pc' = pc /\ epoch' = epoch /\ cursor < frontier
    BY <1>4 DEF SweepLive, SweepAt
  <2>2. CASE runStart = 0
    <3>1. header' = header BY <1>4, <2>2 DEF SweepLive
    <3>2. Allocated' = Allocated /\ \A b : Live(b)' = Live(b)
      BY <3>1, <2>1 DEF Allocated, Blocks, Live
    <3>3. QED BY <3>1, <3>2, <2>1
  <2>3. CASE runStart # 0
    <3>1. /\ Blocks' = {b \in Blocks : b <= runStart \/ b >= cursor}
          /\ header'[runStart] = FreeHeader(cursor - runStart, 0)
          /\ \A b \in Blocks' : b # runStart =>
               /\ header'[b].span = header[b].span /\ header'[b].body = header[b].body
               /\ header'[b].state = header[b].state /\ header'[b].mark = header[b].mark
      BY <1>4, <2>1, <2>3, AppendFacts DEF SweepLive
    <3>2. runStart \notin Allocated'
      BY <3>1 DEF FreeHeader, Allocated
    <3>3. \A b \in Allocated' : b \in Blocks' /\ b \in Allocated /\ b # runStart
      BY <3>1, <3>2 DEF Allocated
    <3>4. \A b \in Blocks : runStart <= b /\ b < cursor => ~Live(b)
      BY <2>1, <2>3 DEF HeapInv, SweepInv, Swept
    <3>5. ASSUME NEW b \in Allocated, Live(b) PROVE b \in Allocated'
      <4>1. b \in Blocks /\ b \in Nat /\ runStart \in Nat /\ cursor \in Nat
        BY TypeFacts
      <4>2. b < runStart \/ b >= cursor BY <3>4, <3>5, <4>1
      <4>3. b \in Blocks' /\ b # runStart BY <2>1, <2>3, <3>1, <4>1, <4>2, SweepFacts
      <4>4. QED BY <3>1, <3>5, <4>3 DEF Allocated
    <3>6. \A b \in Allocated' : Live(b)' => Live(b)
      BY <2>1, <3>1, <3>3 DEF Live
    <3>7. QED BY <2>1, <3>1, <3>3, <3>5, <3>6
  <2>4. QED BY <2>2, <2>3
<1>5. CASE SweepDone
  <2>1. /\ pc = "sweep" /\ pc' = "walk" /\ cursor = frontier
        /\ Blocks' = {b \in Blocks : b < Swept} /\ header' = [b \in Blocks' |-> header[b]]
    BY <1>5, SweptAway DEF SweepDone
  <2>2. Allocated' = {b \in Allocated : b < Swept}
    BY <2>1 DEF Allocated
  <2>3. ASSUME NEW b \in Allocated, Live(b) PROVE b < Swept
    <3>1. b \in Blocks /\ b < frontier /\ b \in Nat /\ Swept \in Nat
      BY <2>1, TypeFacts, BlockFacts, SweepFacts
    <3>2. Swept <= b /\ b < cursor => ~Live(b)
      BY <2>1, <3>1 DEF HeapInv, SweepInv
    <3>3. QED BY <2>1, <2>3, <3>1, <3>2
  <2>4. ASSUME NEW b \in Allocated' PROVE Live(b)
    <3>1. b \in Blocks /\ b < Swept /\ b \notin Free BY <2>2, TypeFacts
    <3>2. QED BY <2>1, <3>1 DEF HeapInv, SweepInv
  <2>5. \A b \in Allocated' : b \in Blocks' /\ header'[b] = header[b]
    BY <2>1 DEF Allocated
  <2>6. QED BY <2>1, <2>2, <2>3, <2>4, <2>5
<1>6. QED
  BY <1>1, <1>2, <1>3, <1>4, <1>5 DEF Next, RawAllocate, Collect

\* Storage in use is never moved, resized, handed out again or reclaimed, up to
\* what a trace leaves unmarked.
THEOREM StorageUndisturbed == Spec => LiveUndisturbed
<1>1. ASSUME HeapInv, [Next]_vars, NEW b \in Allocated, pc = "sweep" => header[b].mark = epoch
      PROVE  b \in Allocated' /\ header'[b].span = header[b].span /\ header'[b].body = header[b].body
  <2>1. CASE TakeSplit \/ TakeWhole \/ Bump
    BY <1>1, <2>1, TakeSplitStep, TakeWholeStep, BumpStep DEF HandedOut
  <2>2. CASE ~(TakeSplit \/ TakeWhole \/ Bump)
    <3>1. pc = "sweep" => Live(b) BY <1>1 DEF Live, Allocated
    <3>2. QED BY <1>1, <2>2, <3>1, KeepStep
  <2>3. QED BY <2>1, <2>2
<1>2. HeapInv /\ [Next]_vars =>
        [\A b \in Allocated : (pc = "sweep" => header[b].mark = epoch) =>
           /\ b \in Allocated'
           /\ header'[b].span = header[b].span
           /\ header'[b].body = header[b].body]_vars
  BY <1>1
<1>3. QED BY <1>2, HeapInvariance, PTL DEF Spec, LiveUndisturbed

\* A whole number of pages that covers a length covers it rounded up.
LEMMA RoundUpCovered ==
  ASSUME NEW n \in Nat, NEW unit \in Nat \ {0}, NEW limit \in Nat, n <= limit, limit % unit = 0
  PROVE  RoundUp(n, unit) <= limit
<1>1. CASE n % unit = 0 BY <1>1 DEF RoundUp
<1>2. CASE n % unit # 0
  <2>1. PICK q \in Nat, r \in 0 .. unit - 1 : n = unit * q + r /\ r = n % unit
    BY SMT
  <2>2. PICK k \in Nat : limit = unit * k BY SMT
  <2>3. unit * q < unit * k BY <1>2, <2>1, <2>2, SMT
  <2>4. q < k BY <2>3, SMT
  <2>5. unit * (q + 1) <= unit * k BY <2>4, SMT
  <2>6. unit * (q + 1) = unit * q + unit BY SMT
  <2>7. QED BY <1>2, <2>1, <2>2, <2>5, <2>6, SMT DEF RoundUp
<1>3. QED BY <1>1, <1>2

\* A request has no outcome until it returns.
LEMMA OutcomeInvariance == Spec => []OutcomeInv
<1>1. Init => OutcomeInv BY DEF Init, OutcomeInv
<1>2. OutcomeInv /\ [Next]_vars => OutcomeInv'
  <2> SUFFICES ASSUME OutcomeInv, [Next]_vars PROVE OutcomeInv' OBVIOUS
  <2>1. CASE Request
    BY <2>1 DEF OutcomeInv, Request, RejectRequest, PolicyRequest, PlainRequest, StartRequest
  <2>2. CASE RawAllocate
    BY <2>2 DEF OutcomeInv, RawAllocate, WalkNext, TakeSplit, TakeWhole, Bump, CommitFailure,
       PressureRequest, Exhausted, Finish, ListExhausted
  <2>3. CASE Collect
    BY <2>3 DEF OutcomeInv, Collect, PrepareCollectionEpoch, TraceMark, TraceFailed, TraceDone,
       SweepLive, SweepDead, SweepDone, Finish, SweepAt
  <2>4. CASE UNCHANGED vars BY <2>4 DEF OutcomeInv, vars
  <2>5. QED BY <2>1, <2>2, <2>3, <2>4 DEF Next
<1>3. QED BY <1>1, <1>2, PTL DEF Spec

\* When the program is told that the arena is exhausted, a collection has just
\* left only marked blocks, no free block holds the request, and the arena ends
\* before it would.
THEOREM ExhaustionTruthful == Spec => ExhaustionIsReal
<1>1. ASSUME HeapInv, OutcomeInv, Next, pc = "walk", result' = "exhausted"
      PROVE  /\ \A b \in Allocated : header[b].mark = epoch
             /\ \A f \in Free : header[f].span < Required
             /\ Capacity - frontier < Required
  <2>1. Exhausted
    <3>1. ~Request
      BY <1>1 DEF Request, RejectRequest, PolicyRequest, PlainRequest, StartRequest
    <3>2. ~Collect
      BY <1>1 DEF Collect, PrepareCollectionEpoch, TraceMark, TraceFailed, TraceDone,
         SweepLive, SweepDead, SweepDone, SweepAt
    <3>3. ~WalkNext /\ ~TakeSplit /\ ~TakeWhole /\ ~Bump /\ ~CommitFailure /\ ~PressureRequest
      BY <1>1 DEF OutcomeInv, WalkNext, TakeSplit, TakeWhole, Bump, CommitFailure,
         PressureRequest, Finish
    <3>4. QED BY <1>1, <3>1, <3>2, <3>3 DEF Next, RawAllocate
  <2>2. pc = "walk" /\ selected = 0 /\ trigger # "none" /\ ~RoomAtFrontier
    BY <2>1 DEF Exhausted, ListExhausted
  <2>3. \A b \in Allocated : header[b].mark = epoch
    BY <1>1, <2>2 DEF HeapInv, SweptClean
  <2>4. previous \in Free \cup {0} /\ Link(previous) = 0 /\ FreeListExact
        /\ \A f \in Free : f <= previous => header[f].span < Required
    BY <1>1, <2>2 DEF HeapInv, WalkInv
  <2>5. Follows(previous, 0)
    BY <2>4 DEF FreeListExact, Link
  <2>6. \A f \in Free : f <= previous
    BY <1>1, <2>5, FirstLink DEF Follows
  <2>7. Capacity - frontier < Required
    <3>1. Required \in Nat /\ frontier \in Nat /\ Capacity \in Nat /\ frontier <= Capacity
      BY <1>1, RequiredFacts, TypeFacts, CapacityAssumption DEF HeapInv, TypeOK, MemoryType
    <3>2. Required <= Capacity - frontier => RoundUp(frontier + Required, PageSize) <= Capacity
      BY <3>1, RoundUpCovered, PageAssumption
    <3>3. QED BY <2>2, <3>1, <3>2 DEF RoomAtFrontier
  <2>8. QED BY <2>3, <2>4, <2>6, <2>7
<1>2. HeapInv /\ OutcomeInv /\ [Next]_vars =>
        [pc = "walk" /\ result' = "exhausted" =>
           /\ \A b \in Allocated : header[b].mark = epoch
           /\ \A f \in Free : header[f].span < Required
           /\ Capacity - frontier < Required]_vars
  BY <1>1
<1>3. QED BY <1>2, HeapInvariance, OutcomeInvariance, PTL DEF Spec, ExhaustionIsReal

\* The blocks in use before and after a step, as the intervals they occupy.
LEMMA ExtentStep ==
  ASSUME HeapInv, [Next]_vars
  PROVE  [Abstract!Next]_Extents
<1>1. CASE TakeSplit \/ TakeWhole \/ Bump
  <2>1. pc = "walk" /\ pc' = "idle"
    BY <1>1 DEF TakeSplit, TakeWhole, Bump, Fits, ListExhausted, Finish
  <2>2. HeapInv' BY StepInv
  <2>3. PICK b : HandedOut(b)
    BY <1>1, TakeSplitStep, TakeWholeStep, BumpStep
  <2>4. /\ b \in Nat /\ b \notin Allocated /\ Allocated' = Allocated \cup {b}
        /\ \A c \in Allocated : End(c)' = End(c)
    BY <2>3 DEF HandedOut, End
  <2>5. PICK top : top = End(b)' OBVIOUS
  <2>6. Extents = {<<c, End(c)>> : c \in Allocated} /\ Extents' = {<<c, End(c)'>> : c \in Allocated'}
    BY <2>1 DEF Extents
  <2>7. Extents' = Extents \cup {<<b, top>>}
    BY <2>4, <2>5, <2>6
  <2>8. /\ b \in Blocks' /\ Allocated' \subseteq Blocks' /\ Blocks' \subseteq Nat
        /\ \A c, d \in Blocks' : c < d => End(c)' <= d
        /\ b >= 8 /\ b < top /\ top <= Capacity
    <3>1. b \in Blocks' /\ Allocated' \subseteq Blocks' BY <2>4 DEF Allocated
    <3>2. Tiled' /\ MemoryType' BY <2>2 DEF HeapInv, TypeOK
    <3>3. /\ top = b + header'[b].span /\ header'[b].span >= 56 /\ b >= 8 /\ top <= frontier'
          /\ \A c, d \in Blocks' : c < d => End(c)' <= d
      BY <2>5, <3>1, <3>2, MinimumSpanValue DEF Tiled, End, InitialCursor
    <3>4. /\ Blocks' \subseteq Nat /\ header'[b].span \in Nat /\ frontier' \in Nat /\ frontier' <= Capacity
          /\ Capacity \in Nat
      BY <3>1, <3>2, CapacityAssumption DEF MemoryType, Header, InitialCursor
    <3>5. top \in Nat BY <3>3, <3>4, <2>4
    <3>6. b < top /\ top <= Capacity BY <3>3, <3>4, <3>5, <2>4
    <3>7. QED BY <3>1, <3>3, <3>4, <3>6
  <2>9. ASSUME NEW f \in Extents PROVE Abstract!Disjoint(<<b, top>>, f)
    <3>1. PICK c \in Allocated : f = <<c, End(c)>> BY <2>6
    <3>2. c \in Blocks' /\ c # b /\ c \in Nat BY <2>4, <2>8
    <3>3. c < b => End(c) <= b
      <4>1. End(c)' = End(c) BY <2>4
      <4>2. c < b => End(c)' <= b BY <2>8, <3>2
      <4>3. QED BY <4>1, <4>2
    <3>4. b < c => top <= c BY <2>5, <2>8, <3>2
    <3>5. top <= c \/ End(c) <= b BY <2>4, <3>2, <3>3, <3>4
    <3>6. QED BY <3>1, <3>5 DEF Abstract!Disjoint
  <2>10. Abstract!Allocate(<<b, top>>)
    BY <2>7, <2>8, <2>9 DEF Abstract!Allocate, InitialCursor
  <2>11. <<b, top>> \in Extents' BY <2>7
  <2>12. QED BY <2>10, <2>11 DEF Abstract!Next
<1>2. CASE ~(TakeSplit \/ TakeWhole \/ Bump)
  <2>1. /\ Allocated' \subseteq Allocated
        /\ \A c \in Allocated' : End(c)' = End(c)
        /\ \A c \in Allocated' : (pc' = "sweep" => Live(c)') => (pc = "sweep" => Live(c))
    BY <1>2, KeepStep DEF End
  <2>2. Extents' \subseteq Extents
    BY <2>1 DEF Extents
  <2>3. QED BY <2>2 DEF Abstract!Next, Abstract!Reclaim
<1>3. QED BY <1>1, <1>2

\* First fit, splitting, coalescing, marks and the moving frontier implement a
\* heap that hands out disjoint intervals of the arena and takes some back.
THEOREM HeapRefinement == Spec => ImplementsAbstractHeap
<1>1. Init => Abstract!Init
  <2> SUFFICES ASSUME Init PROVE Extents = {} BY DEF Abstract!Init
  <2>1. Allocated = {} BY DEF Init, Allocated, Blocks
  <2>2. QED BY <2>1 DEF Extents
<1>2. HeapInv /\ [Next]_vars => [Abstract!Next]_Extents BY ExtentStep
<1>3. QED BY <1>1, <1>2, HeapInvariance, PTL DEF Spec, ImplementsAbstractHeap, Abstract!Spec

-----------------------------------------------------------------------------
(* Collector. *)

Frame == [Slots -> Refs \cup {Null}]
Body == [Members -> Refs \cup {Null}]

-----------------------------------------------------------------------------
(* Collector: the object graph. *)

\* References and where they are kept.
LEMMA GraphTypes ==
  CollectorTypeOK =>
    /\ frames \in Seq(Frame) /\ Top \in Nat /\ Top >= 1
    /\ \A d \in 1 .. Top : frames[d] \in Frame
    /\ \A b \in DOMAIN content : content[b] \in Body
    /\ Roots \subseteq Refs
    /\ \A r \in Refs : Owner(r) \in Nat /\ r[2] \in Members
    /\ \A r \in Refs : Owner(r) \in DOMAIN content =>
         Children(r) \subseteq Refs /\ Children(r) \subseteq Children(<<Owner(r), "whole">>)
    /\ Known \subseteq Refs
<1> SUFFICES ASSUME CollectorTypeOK
             PROVE  /\ frames \in Seq(Frame) /\ Top \in Nat /\ Top >= 1
                    /\ \A d \in 1 .. Top : frames[d] \in Frame
                    /\ \A b \in DOMAIN content : content[b] \in Body
                    /\ Roots \subseteq Refs
                    /\ \A r \in Refs : Owner(r) \in Nat /\ r[2] \in Members
                    /\ \A r \in Refs : Owner(r) \in DOMAIN content =>
                         /\ Children(r) \subseteq Refs
                         /\ Children(r) \subseteq Children(<<Owner(r), "whole">>)
                    /\ Known \subseteq Refs
  OBVIOUS
<1>1. frames \in Seq(Frame) /\ Top \in Nat /\ Top >= 1
  BY DEF CollectorTypeOK, Frame, Top
<1>2. \A d \in 1 .. Top : frames[d] \in Frame
  BY <1>1 DEF Top
<1>3. \A b \in DOMAIN content : content[b] \in Body
  BY DEF CollectorTypeOK, Body
<1>4. Roots \subseteq Refs
  BY <1>2 DEF Roots, Frame
<1>5. \A r \in Refs : Owner(r) \in Nat /\ r[2] \in Members
  BY DEF Refs, Owner
<1>6. "whole" \in Members
  BY CollectorAssumption
<1>7. ASSUME NEW b \in DOMAIN content, NEW m \in Members
      PROVE  Children(<<b, m>>) \subseteq Refs /\ Children(<<b, m>>) \subseteq Children(<<b, "whole">>)
  BY <1>3, <1>6 DEF Children, Owner, Body
<1>8. \A r \in Refs : r = <<Owner(r), r[2]>>
  BY DEF Refs, Owner
<1>9. Known \subseteq Refs
  BY <1>4, <1>6, <1>7 DEF Known
<1>10. QED
  BY <1>1, <1>2, <1>3, <1>4, <1>5, <1>7, <1>8, <1>9

\* Reachable is the least closed set around the roots, whatever set it is
\* compared with.
Least ==
  /\ Roots \subseteq Reachable /\ Closed(Reachable) /\ Reachable \subseteq Refs
  /\ \A X : Roots \subseteq X /\ Closed(X) => Reachable \subseteq X

LEMMA ReachableIsLeast == CollectorTypeOK => Least
<1> SUFFICES ASSUME CollectorTypeOK PROVE Least
  OBVIOUS
<1>1. Roots \subseteq Known
  BY DEF Known
<1>2. Roots \subseteq Reachable
  BY <1>1 DEF Reachable
<1>3. ASSUME NEW r \in Known, Owner(r) \in DOMAIN content
      PROVE  Children(r) \subseteq Known
  <2>1. r \in Refs
    BY <1>3, GraphTypes
  <2>2. Children(r) \subseteq Children(<<Owner(r), "whole">>)
    BY <1>3, <2>1, GraphTypes
  <2>3. QED BY <1>3, <2>2 DEF Known
<1>4. Closed(Reachable)
  <2> SUFFICES ASSUME NEW r \in Reachable, Owner(r) \in DOMAIN content, NEW c \in Children(r)
               PROVE  c \in Reachable
    BY DEF Closed
  <2>1. r \in Known /\ c \in Known
    BY <1>3 DEF Reachable
  <2>2. ASSUME NEW S \in SUBSET Known, Roots \subseteq S, Closed(S)
        PROVE  c \in S
    <3>1. r \in S
      BY <2>2 DEF Reachable
    <3>2. QED BY <2>2, <3>1 DEF Closed
  <2>3. QED BY <2>1, <2>2 DEF Reachable
<1>5. ASSUME NEW X, Roots \subseteq X, Closed(X)
      PROVE  Reachable \subseteq X
  <2>1. X \cap Known \in SUBSET Known /\ Roots \subseteq X \cap Known
    BY <1>1, <1>5
  <2>2. Closed(X \cap Known)
    BY <1>3, <1>5 DEF Closed
  <2>3. QED BY <2>1, <2>2 DEF Reachable
<1>6. Reachable \subseteq Refs
  BY GraphTypes DEF Reachable
<1>7. QED BY <1>2, <1>4, <1>5, <1>6 DEF Least

LEMMA ReachableIsLeastNext == CollectorTypeOK' => Least'
BY ReachableIsLeast, PTL

\* The parts of the program's state that the graph is read from.
LEMMA GraphUnchanged ==
  ASSUME UNCHANGED <<frames, content>>
  PROVE  /\ Top' = Top /\ Roots' = Roots /\ Reachable' = Reachable /\ Visible' = Visible
         /\ \A r : Children(r)' = Children(r)
<1>1. Top' = Top /\ Roots' = Roots
  BY DEF Top, Roots
<1>2. \A r : Children(r)' = Children(r)
  BY DEF Children
<1>3. Known' = Known
  BY <1>1, <1>2 DEF Known
<1>4. \A S : Closed(S)' = Closed(S)
  BY <1>2 DEF Closed
<1>5. Reachable' = Reachable
  BY <1>1, <1>3, <1>4 DEF Reachable
<1>6. Visible' = Visible
  BY <1>1, <1>2 DEF Visible
<1>7. QED BY <1>1, <1>2, <1>5, <1>6

-----------------------------------------------------------------------------
(* What the program holds. *)

\* With a reference to a whole body the program has its inline members too.
Held ==
  Reachable \cup {<<Owner(r), m>> : r \in {q \in Reachable : q[2] = "whole"}, m \in Members}

LEMMA HeldFacts ==
  ASSUME CollectorTypeOK, BodyInv, ReachableInv
  PROVE  /\ Roots \subseteq Held /\ Closed(Held) /\ Held \subseteq Refs
         /\ Visible \subseteq Held \cup {Null}
         /\ \A r \in Held : Owner(r) \in Allocated /\ Owner(r) \in DOMAIN content
         /\ \A r \in Held : r[2] = "whole" => \A m \in Members : <<Owner(r), m>> \in Held
<1>1. Least
  BY ReachableIsLeast
<1>2. /\ Roots \subseteq Reachable /\ Closed(Reachable) /\ Reachable \subseteq Refs
  BY <1>1 DEF Least
<1>3. "whole" \in Members /\ Null \notin Refs
  BY CollectorAssumption DEF Refs
<1>4. ASSUME NEW r \in Held
      PROVE  /\ r \in Refs /\ Owner(r) \in Allocated
             /\ r \in Reachable \/ (<<Owner(r), "whole">> \in Reachable)
  <2>1. CASE r \in Reachable
    BY <2>1, <1>2 DEF ReachableInv
  <2>2. ASSUME NEW q \in Reachable, q[2] = "whole", NEW m \in Members, r = <<Owner(q), m>>
        PROVE  /\ r \in Refs /\ Owner(r) \in Allocated /\ <<Owner(r), "whole">> \in Reachable
    <3>1. q \in Nat \X Members
      BY <1>2 DEF Refs
    <3>2. q = <<Owner(q), "whole">> /\ Owner(r) = Owner(q) /\ Owner(q) \in Nat
      BY <2>2, <3>1 DEF Owner
    <3>3. QED BY <2>2, <3>2 DEF Refs, ReachableInv
  <2>3. QED BY <2>1, <2>2 DEF Held
<1>5. \A r \in Held : Owner(r) \in DOMAIN content
  BY <1>4 DEF BodyInv
<1>6. \A r \in Held : Children(r) \subseteq Reachable
  <2> SUFFICES ASSUME NEW r \in Held PROVE Children(r) \subseteq Reachable
    OBVIOUS
  <2>1. CASE r \in Reachable
    BY <2>1, <1>2, <1>5 DEF Closed
  <2>2. CASE <<Owner(r), "whole">> \in Reachable
    <3>1. Owner(<<Owner(r), "whole">>) = Owner(r)
      BY DEF Owner
    <3>2. Children(<<Owner(r), "whole">>) \subseteq Reachable
      BY <2>2, <3>1, <1>2, <1>5 DEF Closed
    <3>3. QED BY <3>2, <1>4, <1>5, GraphTypes
  <2>3. QED BY <2>1, <2>2, <1>4
<1>7. Closed(Held)
  BY <1>6 DEF Closed, Held
<1>8. ASSUME NEW r \in Held, r[2] = "whole", NEW m \in Members
      PROVE  <<Owner(r), m>> \in Held
  <2>0. r \in Nat \X Members
    BY <1>4 DEF Refs
  <2>1. r = <<Owner(r), "whole">>
    BY <2>0, <1>8 DEF Owner
  <2>2. r \in Reachable
    BY <1>4, <2>1
  <2>3. QED BY <1>8, <2>2 DEF Held
<1>9. Visible \subseteq Held \cup {Null}
  <2> DEFINE locals == {frames[Top][s] : s \in Slots} \ {Null}
  <2>1. Top \in 1 .. Top
    BY GraphTypes
  <2>2. locals \subseteq Roots
    BY <2>1 DEF Roots
  <2>3. locals \subseteq Reachable /\ locals \subseteq Held
    BY <2>2, <1>2 DEF Held
  <2>4. UNION {Children(r) : r \in locals} \subseteq Held
    BY <2>3, <1>6 DEF Held
  <2> HIDE DEF locals
  <2>5. {<<Owner(r), m>> : r \in {l \in locals : l[2] = "whole"}, m \in Members} \subseteq Held
    <3>1. \A r \in {l \in locals : l[2] = "whole"}, m \in Members : <<Owner(r), m>> \in Held
      BY <2>3, <1>8
    <3>2. QED BY <3>1
  <2>6. QED BY <2>3, <2>4, <2>5 DEF Visible, locals
<1>10. Roots \subseteq Held
  BY <1>2 DEF Held
<1>11. QED BY <1>4, <1>5, <1>7, <1>8, <1>9, <1>10

\* Closed in the graph of the next state.
ClosedNext(S) == \A r \in S : Owner(r) \in DOMAIN content' => Children(r)' \subseteq S

\* Nothing comes within reach that is not in a set around the new roots that is
\* closed in the new graph.
LEMMA ReachBound ==
  ASSUME CollectorTypeOK', NEW X, Roots' \subseteq X, ClosedNext(X)
  PROVE  Reachable' \subseteq X
<1>1. Closed(X)'
  BY DEF ClosedNext, Closed, Owner
<1>2. QED BY <1>1, ReachableIsLeastNext DEF Least
-----------------------------------------------------------------------------
(* The program between two requests. *)

\* Every step of the collector is one of the heap below it, or leaves it alone.
LEMMA HeapStep ==
  ASSUME CollectorNext
  PROVE  [Next]_vars
<1>1. ASSUME NEW size \in BodySizes, RejectRequest(size) \/ PolicyRequest(size) \/ PlainRequest(size)
      PROVE  Next
  BY <1>1 DEF Next, Request
<1>2. CASE Program
  BY <1>1, <1>2 DEF Program, Assign, Store, Call, Return, New
<1>3. CASE Allocate
  BY <1>3 DEF Allocate, Next, RawAllocate
<1>4. ASSUME NEW r \in pending, DrainItem(r)
      PROVE  [Next]_vars
  <2>1. Owner(r) \in Blocks
    BY <1>4 DEF DrainItem, Allocated
  <2>2. QED BY <1>4, <2>1 DEF DrainItem, Next, Collect
<1>5. CASE Collection
  BY <1>4, <1>5
  DEF Collection, PrepareTrace, TraceRoots, ScratchExhausted, Drained, SweepStep, Next, Collect
<1>6. QED BY <1>2, <1>3, <1>5 DEF CollectorNext

\* The parts of the invariant that hold by themselves while no collection is near.
LEMMA IdleInv ==
  ASSUME HeapInv', CollectorTypeOK', OperandInv', BodyInv', ReachableInv',
         pc' \notin {"mark", "sweep"}, pc' = "walk" => trigger' = "none"
  PROVE  CollectorInv'
BY DEF CollectorInv, TraceInv, KeptInv

\* The program moves references it holds; whatever it then reaches it held before.
LEMMA ProgramKeeps ==
  ASSUME CollectorInv, Running, UNCHANGED <<vars, operands, destination, trace>>,
         frames' \in Seq(Frame), Len(frames') \in 1 .. MaxDepth,
         content' \in [DOMAIN content -> Body],
         Roots' \subseteq Held, ClosedNext(Held)
  PROVE  CollectorInv'
<1>1. HeapInv' /\ TypeOK'
  BY StutterStep DEF CollectorInv, HeapInv
<1>2. CollectorTypeOK'
  BY <1>1 DEF CollectorInv, CollectorTypeOK, Frame, Body, trace
<1>3. Allocated' = Allocated /\ pc' = pc /\ result' = result /\ Running' = Running
  BY DEF vars, memory, Allocated, Blocks, Running
<1>4. BodyInv'
  BY <1>3 DEF CollectorInv, BodyInv
<1>5. OperandInv'
  <2>1. Null \in Visible'
    BY DEF Visible
  <2>2. \A m \in Members : operands'[m] = Null
    BY DEF CollectorInv, OperandInv
  <2>3. QED BY <2>1, <2>2 DEF OperandInv
<1>6. ReachableInv'
  <2>1. Reachable' \subseteq Held
    BY <1>2, ReachBound
  <2>2. \A r \in Held : Owner(r) \in Allocated'
    BY <1>3, HeldFacts DEF CollectorInv
  <2>3. \A r : Owner(r)' = Owner(r)
    BY DEF Owner
  <2>4. QED BY <2>1, <2>2, <2>3 DEF ReachableInv
<1>7. QED BY <1>1, <1>2, <1>3, <1>4, <1>5, <1>6, IdleInv DEF Running

\* What is visible can be kept anywhere.
LEMMA VisibleIsHeld ==
  ASSUME CollectorInv, NEW r \in Visible
  PROVE  r \in Held \cup {Null} /\ r \in Refs \cup {Null}
BY HeldFacts DEF CollectorInv

\* With the bodies unchanged only the roots can bring anything new.
LEMMA FramesKeep ==
  ASSUME CollectorInv, Running, UNCHANGED <<vars, content, operands, destination, trace>>,
         frames' \in Seq(Frame), Len(frames') \in 1 .. MaxDepth,
         \A d \in 1 .. Len(frames'), s \in Slots : frames'[d][s] \in Held \cup {Null}
  PROVE  CollectorInv'
<1>1. Roots' \subseteq Held
  BY DEF Roots, Top
<1>2. \A r : Children(r)' = Children(r)
  BY DEF Children
<1>3. ClosedNext(Held)
  BY <1>2, HeldFacts DEF Closed, ClosedNext, CollectorInv
<1>4. content' \in [DOMAIN content -> Body]
  BY DEF CollectorInv, CollectorTypeOK, Body
<1>5. QED BY <1>1, <1>3, <1>4, ProgramKeeps

\* What the frames hold now.
LEMMA FrameFacts ==
  ASSUME CollectorInv
  PROVE  /\ frames \in Seq(Frame) /\ Top = Len(frames) /\ Top \in 1 .. MaxDepth
         /\ \A d \in 1 .. Top, s \in Slots : frames[d][s] \in Held \cup {Null}
<1>1. Roots \subseteq Held
  BY HeldFacts DEF CollectorInv
<1>2. QED BY <1>1 DEF CollectorInv, CollectorTypeOK, Frame, Top, Roots

LEMMA AssignStep ==
  ASSUME CollectorInv, NEW s \in Slots, NEW r \in Visible, Assign(s, r)
  PROVE  CollectorInv'
<1>1. r \in Held \cup {Null} /\ r \in Refs \cup {Null}
  BY VisibleIsHeld
<1>2. /\ frames \in Seq(Frame) /\ Top = Len(frames) /\ Top \in 1 .. MaxDepth
      /\ \A d \in 1 .. Top, t \in Slots : frames[d][t] \in Held \cup {Null}
  BY FrameFacts
<1>3. [frames[Top] EXCEPT ![s] = r] \in Frame
  BY <1>1, <1>2 DEF Frame
<1>4. frames' = [frames EXCEPT ![Top] = [frames[Top] EXCEPT ![s] = r]]
  BY DEF Assign
<1>5. frames' \in Seq(Frame) /\ Len(frames') = Len(frames)
  BY <1>2, <1>3, <1>4
<1>6. \A d \in 1 .. Len(frames'), t \in Slots : frames'[d][t] \in Held \cup {Null}
  <2> TAKE d \in 1 .. Len(frames'), t \in Slots
  <2>1. frames'[d] = IF d = Top THEN [frames[Top] EXCEPT ![s] = r] ELSE frames[d]
    BY <1>2, <1>4, <1>5
  <2>2. frames[Top] \in Frame
    BY <1>2
  <2>3. QED BY <1>1, <1>2, <1>5, <2>1, <2>2 DEF Frame
<1>7. QED BY <1>2, <1>5, <1>6, FramesKeep DEF Assign

LEMMA CallStep ==
  ASSUME CollectorInv, NEW s \in Slots, NEW r \in Visible, Call(s, r)
  PROVE  CollectorInv'
<1>1. r \in Held \cup {Null} /\ r \in Refs \cup {Null}
  BY VisibleIsHeld
<1>2. /\ frames \in Seq(Frame) /\ Top = Len(frames) /\ Top \in 1 .. MaxDepth
      /\ \A d \in 1 .. Top, t \in Slots : frames[d][t] \in Held \cup {Null}
  BY FrameFacts
<1> DEFINE callee == [t \in Slots |-> IF t = s THEN r ELSE Null]
<1>3. callee \in Frame /\ \A t \in Slots : callee[t] \in Held \cup {Null}
  BY <1>1 DEF Frame
<1>4. frames' = Append(frames, callee) /\ Top < MaxDepth
  BY DEF Call
<1> HIDE DEF callee
<1>5. frames' \in Seq(Frame) /\ Len(frames') = Top + 1 /\ frames'[Top + 1] = callee
  BY <1>2, <1>3, <1>4
<1>5a. \A d \in 1 .. Top : frames'[d] = frames[d]
  BY <1>2, <1>3, <1>4
<1>6. \A d \in 1 .. Len(frames'), t \in Slots : frames'[d][t] \in Held \cup {Null}
  <2> TAKE d \in 1 .. Len(frames'), t \in Slots
  <2>1. d \in 1 .. Top \/ d = Top + 1
    BY <1>2, <1>5
  <2>2. QED BY <1>2, <1>3, <1>5, <1>5a, <2>1
<1>7. Len(frames') \in 1 .. MaxDepth
  BY <1>2, <1>4, <1>5, CollectorAssumption
<1>8. QED BY <1>5, <1>6, <1>7, FramesKeep DEF Call

LEMMA ReturnStep ==
  ASSUME CollectorInv, NEW s \in Slots, NEW r \in Visible, Return(s, r)
  PROVE  CollectorInv'
<1>1. r \in Held \cup {Null} /\ r \in Refs \cup {Null}
  BY VisibleIsHeld
<1>2. /\ frames \in Seq(Frame) /\ Top = Len(frames) /\ Top \in 1 .. MaxDepth
      /\ \A d \in 1 .. Top, t \in Slots : frames[d][t] \in Held \cup {Null}
  BY FrameFacts
<1> DEFINE callers == SubSeq(frames, 1, Top - 1)
<1>3. Top > 1
  BY DEF Return
<1>4. /\ callers \in Seq(Frame) /\ Len(callers) = Top - 1
      /\ \A d \in 1 .. Top - 1 : callers[d] = frames[d]
  BY <1>2, <1>3
<1>5. frames' = [callers EXCEPT ![Top - 1] = [callers[Top - 1] EXCEPT ![s] = r]]
  BY DEF Return
<1> HIDE DEF callers
<1>6. callers[Top - 1] \in Frame
  BY <1>2, <1>3, <1>4
<1>7. [callers[Top - 1] EXCEPT ![s] = r] \in Frame
  BY <1>1, <1>6 DEF Frame
<1>8. frames' \in Seq(Frame) /\ Len(frames') = Top - 1
  BY <1>2, <1>3, <1>4, <1>5, <1>7
<1>9. \A d \in 1 .. Len(frames'), t \in Slots : frames'[d][t] \in Held \cup {Null}
  <2> TAKE d \in 1 .. Len(frames'), t \in Slots
  <2>1. frames'[d] = IF d = Top - 1 THEN [callers[Top - 1] EXCEPT ![s] = r] ELSE frames[d]
    BY <1>2, <1>3, <1>4, <1>5, <1>8
  <2>2. d \in 1 .. Top /\ Top - 1 \in 1 .. Top /\ callers[Top - 1] = frames[Top - 1]
    BY <1>2, <1>3, <1>4, <1>8
  <2>3. QED BY <1>1, <1>2, <1>6, <2>1, <2>2 DEF Frame
<1>10. Len(frames') \in 1 .. MaxDepth
  BY <1>2, <1>3, <1>8, CollectorAssumption
<1>11. QED BY <1>8, <1>9, <1>10, FramesKeep DEF Return

\* A field of a body the program holds takes a reference the program holds.
LEMMA StoreStep ==
  ASSUME CollectorInv, NEW s \in Slots, NEW m \in Members, NEW r \in Visible, Store(s, m, r)
  PROVE  CollectorInv'
<1>1. r \in Held \cup {Null} /\ r \in Refs \cup {Null}
  BY VisibleIsHeld
<1>2. /\ frames \in Seq(Frame) /\ Top = Len(frames) /\ Top \in 1 .. MaxDepth
      /\ \A d \in 1 .. Top, t \in Slots : frames[d][t] \in Held \cup {Null}
  BY FrameFacts
<1> DEFINE owner == Owner(frames[Top][s])
<1>3. owner \in DOMAIN content
  BY <1>2, HeldFacts DEF Store, CollectorInv
<1>4. content' = [content EXCEPT ![owner] = [content[owner] EXCEPT ![m] = r]]
  BY DEF Store
<1> HIDE DEF owner
<1>5. \A b \in DOMAIN content : content[b] \in Body
  BY GraphTypes DEF CollectorInv
<1>5a. content \in [DOMAIN content -> Body]
  BY DEF CollectorInv, CollectorTypeOK, Body
<1>6. [content[owner] EXCEPT ![m] = r] \in Body
  BY <1>1, <1>3, <1>5 DEF Body
<1>7. content' \in [DOMAIN content -> Body]
  BY <1>3, <1>4, <1>5a, <1>6
<1>8. Roots' \subseteq Held
  BY HeldFacts DEF Store, Roots, Top, CollectorInv
<1>9. ClosedNext(Held)
  <2> SUFFICES ASSUME NEW q \in Held, Owner(q) \in DOMAIN content'
               PROVE  Children(q)' \subseteq Held
    BY DEF ClosedNext
  <2>1. Owner(q) \in DOMAIN content /\ Children(q) \subseteq Held /\ q[2] \in Members
    BY HeldFacts, GraphTypes DEF Closed, CollectorInv
  <2>2. \A n \in Members :
          content'[Owner(q)][n] = content[Owner(q)][n] \/ content'[Owner(q)][n] = r
    BY <1>3, <1>4, <1>5, <2>1 DEF Body
  <2>3. QED BY <1>1, <2>1, <2>2 DEF Children, Owner
<1>10. QED
  BY <1>2, <1>7, <1>8, <1>9, ProgramKeeps DEF Store
-----------------------------------------------------------------------------
(* Requests. *)

\* As long as only the registers of the allocator move, types stay.
LEMMA TypesKept ==
  ASSUME CollectorTypeOK, TypeOK', UNCHANGED <<frames, content, destination>>,
         operands' \in Body, rooted' \in BOOLEAN, visited' \subseteq Refs, pending' \subseteq visited'
  PROVE  CollectorTypeOK'
BY DEF CollectorTypeOK, Body

\* The operands of a struct are read, and storage is asked for.
LEMMA NewStep ==
  ASSUME CollectorInv, NEW s \in Slots, NEW size \in BodySizes,
         NEW values \in [Members -> Visible], New(s, size, values)
  PROVE  CollectorInv'
<1>1. CollectorNext
  BY DEF CollectorNext, Program
<1>2. HeapInv'
  BY <1>1, HeapStep, StepInv DEF CollectorInv
<1>3. /\ UNCHANGED <<header, frames, content, trace>> /\ pc = "idle" /\ result \in {"none", "ok"}
      /\ \/ pc' = "idle" /\ result' = "exhausted"
         \/ pc' = "prepare"
         \/ pc' = "walk" /\ trigger' = "none"
      /\ operands' = values /\ destination' = s
  BY DEF New, Running, RejectRequest, PolicyRequest, PlainRequest, StartRequest, memory
<1>4. /\ Reachable' = Reachable /\ Visible' = Visible
      /\ Allocated' = Allocated
  BY <1>3, GraphUnchanged DEF Allocated, Blocks
<1>5. values \in Body
  BY VisibleIsHeld DEF Body
<1>6. CollectorTypeOK'
  BY <1>2, <1>3, <1>5 DEF CollectorInv, CollectorTypeOK, HeapInv, trace, Body
<1>7. ~Running' /\ OperandInv'
  BY <1>3, <1>4 DEF OperandInv, Running
<1>8. BodyInv' /\ ReachableInv'
  BY <1>3, <1>4 DEF CollectorInv, BodyInv, ReachableInv, Owner
<1>9. QED BY <1>2, <1>3, <1>6, <1>7, <1>8, IdleInv

\* A new block is published: its body holds the operands, a local the block.
LEMMA PublishStep ==
  ASSUME CollectorInv, HeapInv', NEW b \in Nat, HandedOut(b),
         pc = "walk", pc' = "idle", Publish(b)
  PROVE  CollectorInv'
<1>1. b \notin Allocated /\ Allocated' = Allocated \cup {b} /\ DOMAIN content = Allocated
  BY DEF HandedOut, CollectorInv, BodyInv
<1>2. /\ frames \in Seq(Frame) /\ Top = Len(frames) /\ Top \in 1 .. MaxDepth
      /\ \A d \in 1 .. Top, t \in Slots : frames[d][t] \in Held \cup {Null}
  BY FrameFacts
<1>3. /\ destination \in Slots /\ operands \in Body /\ "whole" \in Members
      /\ content \in [DOMAIN content -> Body]
  BY CollectorAssumption DEF CollectorInv, CollectorTypeOK, Body
<1> DEFINE new == <<b, "whole">>
           frame == [frames[Top] EXCEPT ![destination] = new]
           fresh == {<<b, m>> : m \in Members}
<1>4. new \in Refs /\ new \in fresh /\ fresh \subseteq Refs
  BY <1>3 DEF Refs
<1>5. frame \in Frame /\ \A t \in Slots : frame[t] \in Held \cup {Null} \cup fresh
  BY <1>2, <1>3, <1>4 DEF Frame
<1>6. frames' = [frames EXCEPT ![Top] = frame]
  BY DEF Publish
<1> HIDE DEF frame
<1>7. frames' \in Seq(Frame) /\ Len(frames') = Top
  BY <1>2, <1>5, <1>6
<1>8. \A d \in 1 .. Len(frames'), t \in Slots : frames'[d][t] \in Held \cup {Null} \cup fresh
  <2> TAKE d \in 1 .. Len(frames'), t \in Slots
  <2>1. frames'[d] = IF d = Top THEN frame ELSE frames[d]
    BY <1>2, <1>6, <1>7
  <2>2. QED BY <1>2, <1>5, <1>7, <2>1
<1>9. /\ DOMAIN content' = Allocated' /\ content' \in [DOMAIN content' -> Body]
      /\ content'[b] = operands /\ \A c \in Allocated : content'[c] = content[c]
  BY <1>1, <1>3 DEF Publish
<1>10. /\ operands' = [m \in Members |-> Null] /\ destination' = destination /\ trace' = trace
  BY DEF Publish
<1>11. CollectorTypeOK'
  <2>1. TypeOK'
    BY DEF HeapInv
  <2>2. operands' \in Body
    BY <1>10 DEF Body
  <2>3. rooted' \in BOOLEAN /\ visited' \subseteq Refs /\ pending' \subseteq visited'
    BY <1>10 DEF trace, CollectorInv, CollectorTypeOK
  <2>4. Len(frames') \in 1 .. MaxDepth
    BY <1>2, <1>7
  <2>5. QED
    BY <1>3, <1>7, <1>9, <1>10, <2>1, <2>2, <2>3, <2>4 DEF CollectorTypeOK, Frame, Body
<1>12. OperandInv'
  <2>1. Null \in Visible'
    BY DEF Visible
  <2>2. QED BY <1>10, <2>1 DEF OperandInv
<1>13. BodyInv'
  BY <1>9 DEF BodyInv
<1>14. ReachableInv'
  <2>1. Roots' \subseteq Held \cup fresh
    BY <1>8 DEF Roots, Top
  <2>2. ClosedNext(Held \cup fresh)
    <3> SUFFICES ASSUME NEW r \in Held \cup fresh
                 PROVE  Children(r)' \subseteq Held
      BY DEF ClosedNext
    <3>1. CASE r \in Held
      <4>1. Owner(r) \in Allocated /\ Children(r) \subseteq Held /\ r[2] \in Members
        BY <1>1, <3>1, HeldFacts, GraphTypes DEF Closed, CollectorInv
      <4>2. content'[Owner(r)] = content[Owner(r)]
        BY <1>9, <4>1
      <4>3. QED BY <4>1, <4>2 DEF Children, Owner
    <3>2. ASSUME NEW m \in Members, r = <<b, m>>
          PROVE  Children(r)' \subseteq Held
      <4>1. \A n \in Members : content'[b][n] \in Held \cup {Null}
        BY <1>9, VisibleIsHeld DEF CollectorInv, OperandInv
      <4>2. Owner(r) = b /\ r[2] = m
        BY <3>2 DEF Owner
      <4>3. QED BY <4>1, <4>2 DEF Children, Owner
    <3>3. QED BY <3>1, <3>2
  <2>3. Reachable' \subseteq Held \cup fresh
    BY <1>11, <2>1, <2>2, ReachBound
  <2>4. \A r \in Held : Owner(r) \in Allocated
    BY HeldFacts DEF CollectorInv
  <2>5. \A r \in fresh : Owner(r) = b
    BY DEF Owner
  <2>6. QED BY <1>1, <2>3, <2>4, <2>5 DEF ReachableInv, Owner
<1>15. QED BY <1>11, <1>12, <1>13, <1>14, IdleInv

\* Steps of the runtime that end the program, or leave the graph and the blocks
\* as they are.
LEMMA GraphKept ==
  ASSUME CollectorInv, CollectorNext, UNCHANGED program, ~Running, ~Running',
         Allocated' = Allocated, pc # "sweep", pc' # "sweep",
         rooted' \in BOOLEAN, visited' \subseteq Refs, pending' \subseteq visited',
         TraceInv', KeptInv'
  PROVE  CollectorInv'
<1>1. HeapInv' /\ TypeOK'
  BY HeapStep, StepInv DEF CollectorInv, HeapInv
<1>2. UNCHANGED <<frames, content, operands, destination>>
  BY DEF program
<1>3. Reachable' = Reachable /\ Visible' = Visible
  BY <1>2, GraphUnchanged
<1>4. CollectorTypeOK'
  BY <1>1, <1>2, TypesKept DEF CollectorInv, CollectorTypeOK, Body
<1>5. OperandInv'
  BY <1>2, <1>3 DEF CollectorInv, OperandInv
<1>6. BodyInv' /\ ReachableInv'
  BY <1>2, <1>3 DEF CollectorInv, BodyInv, ReachableInv, Owner
<1>7. QED BY <1>1, <1>4, <1>5, <1>6 DEF CollectorInv

LEMMA AllocateStep ==
  ASSUME CollectorInv, Allocate
  PROVE  CollectorInv'
<1>1. CollectorNext
  BY DEF CollectorNext
<1>2. pc = "walk" /\ ~Running
  BY DEF Allocate, TakeSplit, TakeWhole, Fits, Bump, ListExhausted, WalkNext, PressureRequest,
         CommitFailure, Exhausted, Running
<1>3. rooted \in BOOLEAN /\ visited \subseteq Refs /\ pending \subseteq visited
  BY DEF CollectorInv, CollectorTypeOK
<1>4. HeapInv /\ HeapInv'
  BY <1>1, HeapStep, StepInv DEF CollectorInv
<1>5. CASE (TakeSplit \/ TakeWhole) /\ Publish(selected)
  <2>1. HandedOut(selected)
    BY <1>4, <1>5, TakeSplitStep, TakeWholeStep
  <2>2. selected \in Nat /\ pc' = "idle"
    BY <1>4, <1>5, TypeFacts DEF TakeSplit, TakeWhole, Finish
  <2>3. QED BY <1>2, <1>4, <1>5, <2>1, <2>2, PublishStep
<1>6. CASE Bump /\ Publish(frontier)
  <2>1. HandedOut(frontier)
    BY <1>4, <1>6, BumpStep
  <2>2. frontier \in Nat /\ pc' = "idle"
    BY <1>4, <1>6, TypeFacts DEF Bump, Finish
  <2>3. QED BY <1>2, <1>4, <1>6, <2>1, <2>2, PublishStep
<1>7. CASE /\ WalkNext \/ PressureRequest \/ CommitFailure \/ Exhausted
           /\ UNCHANGED <<program, trace>>
  <2>1. /\ UNCHANGED <<header, epoch, program, trace>> /\ pc' # "sweep" /\ pc' # "mark" /\ ~Running'
        /\ pc' = "walk" => trigger' = trigger
    BY <1>2, <1>7
    DEF WalkNext, PressureRequest, CommitFailure, Exhausted, Finish, Running, memory
  <2>2. Allocated' = Allocated /\ \A b : Live(b)' = Live(b)
    BY <2>1 DEF Allocated, Blocks, Live
  <2>3. Reachable' = Reachable
    BY <2>1, GraphUnchanged DEF program
  <2>4. KeptInv'
    BY <1>2, <2>1, <2>2, <2>3 DEF CollectorInv, KeptInv, Owner
  <2>5. TraceInv'
    BY <2>1 DEF TraceInv
  <2>6. QED BY <1>1, <1>2, <1>3, <2>1, <2>2, <2>4, <2>5, GraphKept DEF trace
<1>8. QED BY <1>5, <1>6, <1>7 DEF Allocate
-----------------------------------------------------------------------------
(* Collections. *)

\* A new collection starts with nothing visited, and no block marked for it.
LEMMA PrepareTraceStep ==
  ASSUME CollectorInv, PrepareTrace
  PROVE  CollectorInv'
<1>1. CollectorNext
  BY DEF CollectorNext, Collection
<1>2. HeapInv /\ PrepareCollectionEpoch /\ UNCHANGED program
  BY DEF CollectorInv, PrepareTrace
<1>3. \A b \in Blocks' : header'[b].mark # epoch'
  BY <1>2, PrepareStep
<1>4. Allocated' = Allocated
  <2>1. Blocks' = Blocks /\ \A b \in Blocks : header'[b].state = header[b].state
    BY <1>2, TypeFacts DEF PrepareCollectionEpoch, ErasedMarks, Blocks, Header
  <2>2. QED BY <2>1 DEF Allocated
<1>5. pc = "prepare" /\ pc' = "mark" /\ rooted' = FALSE /\ visited' = {} /\ pending' = {}
  BY <1>2 DEF PrepareTrace, PrepareCollectionEpoch
<1>6. TraceInv'
  BY <1>3, <1>5 DEF TraceInv, Allocated
<1>7. KeptInv'
  BY <1>5 DEF KeptInv
<1>8. QED BY <1>1, <1>2, <1>4, <1>5, <1>6, <1>7, GraphKept DEF Running

\* The roots are visited first.
LEMMA TraceRootsStep ==
  ASSUME CollectorInv, TraceRoots
  PROVE  CollectorInv'
<1>1. CollectorNext
  BY DEF CollectorNext, Collection
<1>2. /\ UNCHANGED <<vars, program>> /\ pc = "mark" /\ ~rooted
      /\ rooted' = TRUE /\ visited' = visited \cup Roots /\ pending' = Roots
  BY DEF TraceRoots, Enqueue
<1>3. visited = {} /\ \A b \in Allocated : header[b].mark # epoch
  BY <1>2 DEF CollectorInv, TraceInv
<1>4. /\ UNCHANGED <<pc, header, epoch, frames, content>> /\ Allocated' = Allocated
      /\ Reachable' = Reachable /\ Roots' = Roots
  BY <1>2, GraphUnchanged DEF vars, memory, program, Allocated, Blocks
<1>5. Roots \subseteq Reachable /\ Roots \subseteq Refs
  BY ReachableIsLeast, GraphTypes DEF CollectorInv, Least
<1>6. TraceInv'
  BY <1>2, <1>3, <1>4, <1>5 DEF TraceInv
<1>7. KeptInv'
  BY <1>2, <1>4 DEF KeptInv
<1>8. QED BY <1>1, <1>2, <1>3, <1>4, <1>5, <1>6, <1>7, GraphKept DEF Running

\* An item drained turns black: its block is marked, and what its member refers to
\* is visited; nothing else changes colour.
LEMMA DrainStep ==
  ASSUME CollectorInv, NEW r \in pending, DrainItem(r)
  PROVE  CollectorInv'
<1>1. CollectorNext
  BY DEF CollectorNext, Collection
<1>2. /\ pc = "mark" /\ rooted /\ rooted' = rooted /\ UNCHANGED program /\ Owner(r) \in Allocated
      /\ visited' = visited \cup Children(r)
      /\ pending' = (pending \ {r}) \cup (Children(r) \ visited)
      /\ TraceMark(Owner(r)) \/ (header[Owner(r)].mark = epoch /\ UNCHANGED vars)
  BY DEF DrainItem, Enqueue
<1>3. /\ HeapInv /\ CollectorTypeOK /\ Roots \subseteq visited /\ visited \subseteq Reachable
      /\ \A q \in visited \ pending :
           header[Owner(q)].mark = epoch /\ Children(q) \subseteq visited
      /\ \A b \in Allocated : header[b].mark = epoch => \E q \in visited : Owner(q) = b
      /\ pending \subseteq visited /\ visited \subseteq Refs
      /\ \A q \in Reachable : Owner(q) \in Allocated
  BY <1>2 DEF CollectorInv, TraceInv, CollectorTypeOK, ReachableInv
<1>4. /\ pc' = pc /\ epoch' = epoch /\ Blocks' = Blocks /\ Allocated' = Allocated
      /\ header'[Owner(r)].mark = epoch
      /\ \A b \in Blocks : b # Owner(r) => header'[b].mark = header[b].mark
  <2>1. CASE TraceMark(Owner(r))
    <3>1. /\ header' = [header EXCEPT ![Owner(r)] = [header[Owner(r)] EXCEPT !.mark = epoch]]
          /\ pc' = pc /\ epoch' = epoch
      BY <2>1 DEF TraceMark
    <3>2. Owner(r) \in Blocks /\ \A b \in Blocks : header[b] \in Header
      BY <1>2, <1>3, TypeFacts
    <3>3. Blocks' = Blocks
      BY <3>1 DEF Blocks
    <3>4. \A b \in Blocks : b # Owner(r) => header'[b] = header[b]
      BY <3>1 DEF Blocks
    <3>5. header'[Owner(r)] = [header[Owner(r)] EXCEPT !.mark = epoch]
      BY <3>1, <3>2 DEF Blocks
    <3>6. header'[Owner(r)].mark = epoch /\ header'[Owner(r)].state = header[Owner(r)].state
      BY <3>2, <3>5 DEF Header
    <3>7. Allocated' = Allocated
      BY <3>3, <3>4, <3>6 DEF Allocated
    <3>8. QED BY <3>1, <3>3, <3>4, <3>6, <3>7
  <2>2. CASE header[Owner(r)].mark = epoch /\ UNCHANGED vars
    BY <2>2 DEF vars, memory, Allocated, Blocks
  <2>3. QED BY <1>2, <2>1, <2>2
<1>5. Reachable' = Reachable /\ Roots' = Roots /\ \A q : Children(q)' = Children(q)
  BY <1>2, GraphUnchanged DEF program
<1>6. Owner(r) \in DOMAIN content /\ r \in Refs /\ r \in visited /\ r \in Reachable
  BY <1>2, <1>3 DEF CollectorInv, BodyInv
<1>7. Children(r) \subseteq Reachable /\ Children(r) \subseteq Refs
  BY <1>3, <1>6, ReachableIsLeast DEF Least, Closed
<1>8. visited' \subseteq Refs /\ pending' \subseteq visited' /\ visited' \subseteq Reachable
  BY <1>2, <1>3, <1>7
<1>9. ASSUME NEW q \in visited' \ pending'
      PROVE  header'[Owner(q)].mark = epoch /\ Children(q) \subseteq visited'
  <2>1. q = r \/ q \in visited \ pending
    BY <1>2, <1>9
  <2>2. CASE q = r
    BY <1>2, <1>4, <2>2
  <2>3. CASE q \in visited \ pending
    <3>1. Owner(q) \in Blocks
      BY <1>3, <2>3 DEF Allocated
    <3>2. QED BY <1>2, <1>3, <1>4, <2>3, <3>1
  <2>4. QED BY <2>1, <2>2, <2>3
<1>10. ASSUME NEW b \in Allocated, header'[b].mark = epoch
       PROVE  \E q \in visited' : Owner(q) = b
  <2>1. b \in Blocks
    BY DEF Allocated
  <2>2. QED BY <1>2, <1>3, <1>4, <1>6, <1>10, <2>1
<1>11. TraceInv'
  BY <1>2, <1>3, <1>4, <1>5, <1>8, <1>9, <1>10 DEF TraceInv, Owner
<1>12. KeptInv'
  BY <1>2, <1>4 DEF KeptInv
<1>13. QED BY <1>1, <1>2, <1>4, <1>8, <1>11, <1>12, GraphKept DEF Running

\* A trace that runs out of scratch space ends the request, and the program.
LEMMA ScratchExhaustedStep ==
  ASSUME CollectorInv, ScratchExhausted
  PROVE  CollectorInv'
<1>1. CollectorNext
  BY DEF CollectorNext, Collection
<1>2. /\ UNCHANGED <<memory, program>> /\ pc = "mark" /\ pc' = "idle" /\ result' = "collection_failed"
      /\ rooted' = FALSE /\ visited' = {} /\ pending' = {}
  BY DEF ScratchExhausted, TraceFailed, Finish
<1>3. Allocated' = Allocated
  BY <1>2 DEF memory, Allocated, Blocks
<1>4. TraceInv' /\ KeptInv'
  BY <1>2 DEF TraceInv, KeptInv
<1>5. QED BY <1>1, <1>2, <1>3, <1>4, GraphKept DEF Running

\* When nothing is pending the visited items are what the program can reach.
LEMMA DrainedStep ==
  ASSUME CollectorInv, Drained
  PROVE  CollectorInv'
<1>1. CollectorNext
  BY DEF CollectorNext, Collection
<1>2. /\ UNCHANGED <<header, epoch, program>> /\ pc = "mark" /\ pc' = "sweep"
      /\ rooted /\ pending = {} /\ rooted' = FALSE /\ visited' = {} /\ pending' = {}
  BY DEF Drained, TraceDone, memory
<1>3. /\ Roots \subseteq visited /\ visited \subseteq Reachable
      /\ \A q \in visited : header[Owner(q)].mark = epoch /\ Children(q) \subseteq visited
      /\ \A b \in Allocated : header[b].mark = epoch => \E q \in visited : Owner(q) = b
  BY <1>2 DEF CollectorInv, TraceInv
<1>4. Reachable = visited
  BY <1>3, ReachableIsLeast DEF CollectorInv, Least, Closed
<1>5. {b \in Allocated : Live(b)} = {Owner(r) : r \in Reachable}
  <2>1. \A r \in Reachable : Owner(r) \in Allocated
    BY DEF CollectorInv, ReachableInv
  <2>2. QED BY <1>3, <1>4, <2>1 DEF Live, Allocated
<1>6. /\ Allocated' = Allocated /\ \A b : Live(b)' = Live(b)
      /\ Reachable' = Reachable /\ Visible' = Visible
  BY <1>2, GraphUnchanged DEF Allocated, Blocks, Live, program
<1>7. HeapInv' /\ TypeOK'
  BY <1>1, HeapStep, StepInv DEF CollectorInv, HeapInv
<1>8. CollectorTypeOK'
  BY <1>2, <1>7 DEF CollectorInv, CollectorTypeOK, program
<1>9. OperandInv' /\ BodyInv' /\ ReachableInv'
  BY <1>2, <1>6
  DEF CollectorInv, OperandInv, BodyInv, ReachableInv, Running, program, Owner
<1>10. TraceInv' /\ KeptInv'
  BY <1>2, <1>5, <1>6 DEF TraceInv, KeptInv, Owner
<1>11. QED BY <1>7, <1>8, <1>9, <1>10 DEF CollectorInv
\* A sweep keeps the blocks that are marked, as they are marked.
LEMMA SweepKeeps ==
  ASSUME HeapInv, SweepLive \/ SweepDead \/ SweepDone
  PROVE  /\ pc = "sweep" /\ epoch' = epoch /\ Allocated' \subseteq Allocated
         /\ pc' = IF SweepDone THEN "walk" ELSE "sweep"
         /\ \A b \in Allocated : Live(b) => b \in Allocated'
         /\ \A b \in Allocated' : header'[b].mark = header[b].mark
<1>1. pc = "sweep" /\ epoch' = epoch
  BY DEF SweepLive, SweepDead, SweepDone, SweepAt
<1>2. [Next]_vars
  BY DEF Next, Collect
<1>3. ~TakeSplit /\ ~TakeWhole /\ ~Bump
  BY <1>1 DEF TakeSplit, TakeWhole, Bump, Fits, ListExhausted
<1>4. Allocated' \subseteq Allocated /\ \A b \in Allocated : Live(b) => b \in Allocated'
  BY <1>1, <1>2, <1>3, KeepStep
<1>5. CASE SweepDead
  <2>1. UNCHANGED header /\ pc' = "sweep" /\ ~SweepDone
    BY <1>5 DEF SweepDead, SweepDone, SweepAt, memory
  <2>2. QED BY <1>1, <1>4, <2>1
<1>6. CASE SweepLive /\ runStart = 0
  <2>1. UNCHANGED header /\ pc' = "sweep" /\ ~SweepDone
    BY <1>6 DEF SweepLive, SweepDone, SweepAt
  <2>2. QED BY <1>1, <1>4, <2>1
<1>7. CASE SweepLive /\ runStart # 0
  <2>1. AppendFreeRun /\ cursor < frontier /\ pc' = "sweep" /\ ~SweepDone
    <3>1. cursor \in Nat /\ frontier \in Nat
      BY TypeFacts
    <3>2. QED BY <1>7, <3>1 DEF SweepLive, SweepDone, SweepAt
  <2>2. /\ header'[runStart] = FreeHeader(cursor - runStart, 0)
        /\ \A b \in Blocks' : b # runStart => header'[b].mark = header[b].mark
    BY <1>1, <1>7, <2>1, AppendFacts
  <2>3. runStart \notin Allocated'
    BY <2>2 DEF Allocated, FreeHeader
  <2>4. QED BY <1>1, <1>4, <2>1, <2>2, <2>3 DEF Allocated
<1>8. CASE SweepDone
  <2>1. header' = [b \in Blocks' |-> header[b]]
    BY <1>8, SweptAway
  <2>2. pc' = "walk"
    BY <1>8 DEF SweepDone
  <2>3. \A b \in Blocks' : header'[b] = header[b]
    BY <2>1
  <2>4. QED BY <1>1, <1>4, <1>8, <2>2, <2>3 DEF Allocated
<1>9. QED BY <1>5, <1>6, <1>7, <1>8

\* Giving up the bodies of unmarked blocks changes nothing within reach.
LEMMA SweepGraph ==
  ASSUME CollectorInv, CollectorTypeOK', frames' = frames,
         \A r \in Reachable : Owner(r) \in DOMAIN content',
         DOMAIN content' \subseteq DOMAIN content,
         \A b \in DOMAIN content' : content'[b] = content[b]
  PROVE  Reachable' = Reachable /\ Visible' = Visible
<1>1. Least /\ Least'
  BY ReachableIsLeast, ReachableIsLeastNext DEF CollectorInv
<1>2. Roots' = Roots /\ Top' = Top
  BY DEF Roots, Top
<1>3. \A r : Owner(r) \in DOMAIN content' => Children(r)' = Children(r)
  BY DEF Children
<1>4. ClosedNext(Reachable)
  BY <1>1, <1>3 DEF Least, Closed, ClosedNext
<1>5. Reachable' \subseteq Reachable
  BY <1>1, <1>2, <1>4, ReachBound DEF Least
<1>6. Closed(Reachable')
  <2> SUFFICES ASSUME NEW r \in Reachable'
               PROVE  Children(r) \subseteq Reachable'
    BY DEF Closed
  <2>1. Owner(r) \in DOMAIN content'
    BY <1>5
  <2>2. Children(r)' \subseteq Reachable'
    BY <1>1, <2>1 DEF Least, Closed, Owner
  <2>3. QED BY <1>3, <2>1, <2>2
<1>7. Reachable \subseteq Reachable'
  BY <1>1, <1>2, <1>6 DEF Least
<1>8. Visible' = Visible
  <2> DEFINE locals == {frames[Top][s] : s \in Slots} \ {Null}
  <2>1. locals \subseteq Reachable
    <3>1. Top \in 1 .. Top
      BY GraphTypes DEF CollectorInv
    <3>2. QED BY <1>1, <3>1 DEF Least, Roots
  <2>2. \A r \in locals : Children(r)' = Children(r)
    BY <1>3, <2>1
  <2>3. {Children(r)' : r \in locals} = {Children(r) : r \in locals}
    BY <2>2
  <2>4. {frames'[Top'][s] : s \in Slots} \ {Null} = locals
    BY <1>2
  <2> HIDE DEF locals
  <2>5. \A r : Owner(r)' = Owner(r)
    BY DEF Owner
  <2> DEFINE inner == {<<Owner(r), m>> : r \in {l \in locals : l[2] = "whole"}, m \in Members}
             before == {Children(r) : r \in locals}
             after == {Children(r)' : r \in locals}
  <2>6. Visible = {Null} \cup locals \cup (UNION before) \cup inner
    BY DEF Visible, locals
  <2>7. Visible' = {Null} \cup locals \cup (UNION after) \cup inner
    BY <2>4, <2>5 DEF Visible
  <2>8. before = after
    BY <2>3
  <2> HIDE DEF inner, before, after
  <2>9. QED BY <2>6, <2>7, <2>8
<1>9. QED BY <1>5, <1>7, <1>8

LEMMA SweepInvStep ==
  ASSUME CollectorInv, SweepStep
  PROVE  CollectorInv'
<1>1. CollectorNext
  BY DEF CollectorNext, Collection
<1>2. HeapInv /\ HeapInv' /\ TypeOK'
  BY <1>1, HeapStep, StepInv DEF CollectorInv, HeapInv
<1>3. /\ SweepLive \/ SweepDead \/ SweepDone
      /\ content' = IF pc' = "sweep" THEN content ELSE [b \in Allocated' |-> content[b]]
      /\ UNCHANGED <<frames, operands, destination, trace>>
  BY DEF SweepStep
<1>4. /\ pc = "sweep" /\ epoch' = epoch /\ Allocated' \subseteq Allocated
      /\ pc' \in {"sweep", "walk"}
      /\ \A b \in Allocated : Live(b) => b \in Allocated'
      /\ \A b \in Allocated' : header'[b].mark = header[b].mark
  BY <1>2, <1>3, SweepKeeps
<1>5. {b \in Allocated : Live(b)} = {Owner(r) : r \in Reachable}
  BY <1>4 DEF CollectorInv, KeptInv
<1>6. \A r \in Reachable : Owner(r) \in Allocated'
  BY <1>4, <1>5
<1>7. Allocated \subseteq DOMAIN content
  BY DEF CollectorInv, BodyInv
<1>8. /\ Allocated' \subseteq DOMAIN content' /\ DOMAIN content' \subseteq DOMAIN content
      /\ pc' # "sweep" => DOMAIN content' = Allocated'
      /\ \A b \in DOMAIN content' : content'[b] = content[b]
  BY <1>3, <1>4, <1>7
<1>9. CollectorTypeOK'
  <2>1. content' \in [DOMAIN content' -> Body]
    <3>1. content' = [b \in DOMAIN content' |-> content'[b]]
      BY <1>3 DEF CollectorInv, CollectorTypeOK
    <3>2. \A b \in DOMAIN content' : content'[b] \in Body
      BY <1>8 DEF CollectorInv, CollectorTypeOK, Body
    <3>3. QED BY <3>1, <3>2
  <2>2. QED BY <1>2, <1>3, <2>1 DEF CollectorInv, CollectorTypeOK, Body, trace
<1>10. Reachable' = Reachable /\ Visible' = Visible
  BY <1>3, <1>6, <1>8, <1>9, SweepGraph
<1>11. OperandInv' /\ BodyInv' /\ ReachableInv'
  BY <1>3, <1>4, <1>6, <1>8, <1>10
  DEF CollectorInv, OperandInv, BodyInv, ReachableInv, Running, Owner
<1>12. KeptInv'
  <2>1. \A b \in Allocated' : Live(b)' <=> Live(b)
    BY <1>4 DEF Live, Allocated
  <2>2. {b \in Allocated' : Live(b)'} = {b \in Allocated : Live(b)}
    BY <1>4, <2>1
  <2>3. {Owner(r)' : r \in Reachable'} = {Owner(r) : r \in Reachable}
    BY <1>10 DEF Owner
  <2>4. QED BY <1>5, <2>2, <2>3 DEF KeptInv
<1>13. TraceInv'
  BY <1>4 DEF TraceInv
<1>14. QED BY <1>2, <1>9, <1>11, <1>12, <1>13 DEF CollectorInv

-----------------------------------------------------------------------------
(* The theorems. *)

LEMMA CollectorInitInv == CollectorInit => CollectorInv
<1> SUFFICES ASSUME CollectorInit PROVE CollectorInv
  OBVIOUS
<1>1. HeapInv /\ TypeOK
  BY InitInv DEF CollectorInit, HeapInv
<1>2. /\ frames = <<[s \in Slots |-> Null]>> /\ content = [b \in {} |-> [m \in Members |-> Null]]
      /\ operands = [m \in Members |-> Null] /\ destination \in Slots
      /\ rooted = FALSE /\ visited = {} /\ pending = {}
      /\ pc = "idle" /\ header = [b \in {} |-> AllocatedHeader(0, 0)]
  BY CollectorAssumption DEF CollectorInit, Init
<1>3. [s \in Slots |-> Null] \in Frame
  BY DEF Frame
<1>4. frames \in Seq(Frame) /\ Len(frames) = 1 /\ frames[1] = [s \in Slots |-> Null]
  BY <1>2, <1>3
<1>5. CollectorTypeOK
  <2>1. content \in [DOMAIN content -> Body]
    BY <1>2
  <2>2. operands \in Body
    BY <1>2 DEF Body
  <2>3. Len(frames) \in 1 .. MaxDepth
    BY <1>4, CollectorAssumption
  <2>4. QED BY <1>1, <1>2, <1>4, <2>1, <2>2, <2>3 DEF CollectorTypeOK, Frame, Body
<1>6. Allocated = {} /\ DOMAIN content = {}
  BY <1>2 DEF Allocated, Blocks
<1>7. OperandInv
  BY <1>2 DEF OperandInv, Visible
<1>8. Reachable = {}
  <2>1. Roots = {}
    BY <1>2, <1>4 DEF Roots, Top
  <2>2. Closed({})
    BY DEF Closed
  <2>3. QED BY <1>5, <2>1, <2>2, ReachableIsLeast DEF Least
<1>9. QED
  BY <1>1, <1>2, <1>5, <1>6, <1>7, <1>8
  DEF CollectorInv, BodyInv, ReachableInv, TraceInv, KeptInv

LEMMA CollectorStepInv ==
  ASSUME CollectorInv, [CollectorNext]_collectorVars
  PROVE  CollectorInv'
<1>1. CASE Program
  <2>1. PICK s \in Slots :
          \/ \E r \in Visible : Assign(s, r) \/ Call(s, r) \/ Return(s, r)
          \/ \E m \in Members, r \in Visible : Store(s, m, r)
          \/ \E size \in BodySizes, values \in [Members -> Visible] : New(s, size, values)
    BY <1>1 DEF Program
  <2>2. QED BY <2>1, AssignStep, CallStep, ReturnStep, StoreStep, NewStep
<1>2. CASE Allocate
  BY <1>2, AllocateStep
<1>3. CASE Collection
  BY <1>3, PrepareTraceStep, TraceRootsStep, DrainStep, ScratchExhaustedStep, DrainedStep,
     SweepInvStep DEF Collection
<1>4. CASE UNCHANGED collectorVars
  <2>1. HeapInv' /\ TypeOK'
    BY <1>4, StutterStep DEF collectorVars, CollectorInv, HeapInv
  <2>2. /\ UNCHANGED <<header, epoch, pc, result, trigger, frames, content, operands, destination,
                       rooted, visited, pending>>
    BY <1>4 DEF collectorVars, vars, memory, program, trace
  <2>3. /\ Reachable' = Reachable /\ Visible' = Visible /\ Roots' = Roots
        /\ \A r : Children(r)' = Children(r)
    BY <2>2, GraphUnchanged
  <2>4. Allocated' = Allocated /\ \A b : Live(b)' = Live(b)
    BY <2>2 DEF Allocated, Blocks, Live
  <2>5. CollectorTypeOK'
    BY <2>1, <2>2 DEF CollectorInv, CollectorTypeOK
  <2>6. OperandInv' /\ BodyInv' /\ ReachableInv'
    BY <2>2, <2>3, <2>4 DEF CollectorInv, OperandInv, BodyInv, ReachableInv, Running, Owner
  <2>7. TraceInv'
    BY <2>2, <2>3, <2>4 DEF CollectorInv, TraceInv, Owner
  <2>8. KeptInv'
    BY <2>2, <2>3, <2>4 DEF CollectorInv, KeptInv, Owner
  <2>9. QED BY <2>1, <2>5, <2>6, <2>7, <2>8 DEF CollectorInv
<1>5. QED BY <1>1, <1>2, <1>3, <1>4 DEF CollectorNext

\* The heap below keeps its invariant whatever the program and the trace do, and
\* the program, the trace and the heap together keep theirs.
THEOREM CollectorInvariance == CollectorSpec => []CollectorInv
<1>1. CollectorInv /\ [CollectorNext]_collectorVars => CollectorInv'
  BY CollectorStepInv
<1>2. QED BY <1>1, CollectorInitInv, PTL DEF CollectorSpec

-----------------------------------------------------------------------------
(* What the invariant gives. *)

LEMMA ReachableFollows == CollectorInv => ReachableAllocated
<1> SUFFICES ASSUME CollectorInv, NEW r \in Reachable \cup ({operands[m] : m \in Members} \ {Null})
             PROVE  Owner(r) \in Allocated /\ Owner(r) \in DOMAIN content
  BY DEF ReachableAllocated
<1>1. {operands[m] : m \in Members} \ {Null} \subseteq Held
  BY VisibleIsHeld DEF CollectorInv, OperandInv
<1>2. Reachable \subseteq Held
  BY DEF Held
<1>3. QED BY <1>1, <1>2, HeldFacts DEF CollectorInv

LEMMA ExactFollows == CollectorInv => CollectionExact
<1> SUFFICES ASSUME CollectorInv, pc = "walk", trigger # "none"
             PROVE  Allocated = {Owner(r) : r \in Reachable}
  BY DEF CollectionExact
<1>1. \A b \in Allocated : header[b].mark = epoch
  BY DEF CollectorInv, HeapInv, SweptClean
<1>2. {b \in Allocated : Live(b)} = Allocated
  BY <1>1 DEF Live, Allocated
<1>3. QED BY <1>2 DEF CollectorInv, KeptInv

LEMMA LeavesFollows ==
  CollectorInv /\ [CollectorNext]_collectorVars => [LeavesReachable]_collectorVars
<1> SUFFICES ASSUME CollectorInv, CollectorNext, pc # "idle"
             PROVE  /\ \A r \in Reachable : content'[Owner(r)] = content[Owner(r)]
                    /\ \A d \in 1 .. Top, s \in Slots :
                         frames'[d][s] # frames[d][s] => d = Top /\ s = destination
  BY DEF LeavesReachable
<1>1. ~Program
  BY DEF Program, Assign, Store, Call, Return, New, Running
<1>2. \A r \in Reachable : Owner(r) \in Allocated /\ Owner(r) \in DOMAIN content
  BY DEF CollectorInv, ReachableInv, BodyInv
<1>3. ASSUME NEW b \in Nat, b \notin Allocated, Publish(b)
      PROVE  /\ \A r \in Reachable : content'[Owner(r)] = content[Owner(r)]
             /\ \A d \in 1 .. Top, s \in Slots :
                  frames'[d][s] # frames[d][s] => d = Top /\ s = destination
  <2>1. \A r \in Reachable : content'[Owner(r)] = content[Owner(r)]
    BY <1>2, <1>3 DEF Publish
  <2>2. frames \in Seq(Frame) /\ Top = Len(frames) /\ Top \in 1 .. MaxDepth
    BY FrameFacts
  <2>3. frames' = [frames EXCEPT ![Top] = [frames[Top] EXCEPT ![destination] = <<b, "whole">>]]
    BY <1>3 DEF Publish
  <2>4. ASSUME NEW d \in 1 .. Top, NEW s \in Slots, frames'[d][s] # frames[d][s]
        PROVE  d = Top /\ s = destination
    <3>1. frames[d] \in Frame
      BY <2>2
    <3>2. QED BY <2>2, <2>3, <2>4, <3>1 DEF Frame
  <2>5. QED BY <2>1, <2>4
<1>4. CASE Allocate
  <2>1. HeapInv
    BY DEF CollectorInv
  <2>2. TakeSplit \/ TakeWhole => selected \in Nat /\ selected \notin Allocated
    BY <2>1, TakeSplitStep, TakeWholeStep DEF HandedOut
  <2>3. Bump => frontier \in Nat /\ frontier \notin Allocated
    BY <2>1, BumpStep DEF HandedOut
  <2>4. QED BY <1>3, <1>4, <2>2, <2>3 DEF Allocate, program
<1>5. CASE Collection /\ ~SweepStep
  BY <1>5
  DEF Collection, PrepareTrace, TraceRoots, DrainItem, ScratchExhausted, Drained, program
<1>6. CASE SweepStep
  <2>1. /\ pc = "sweep" /\ \A b \in Allocated : Live(b) => b \in Allocated'
    BY <1>6, SweepKeeps DEF CollectorInv, SweepStep
  <2>2. \A r \in Reachable : Owner(r) \in Allocated'
    BY <2>1 DEF CollectorInv, KeptInv
  <2>3. QED BY <1>6, <2>2 DEF SweepStep
<1>7. QED BY <1>1, <1>4, <1>5, <1>6 DEF CollectorNext

\* No reference that the program can get at, from a local, through fields or in a
\* value that waits in a C local, is to storage that was given back.
THEOREM NothingReachableIsFreed == CollectorSpec => []ReachableAllocated
BY ReachableFollows, CollectorInvariance, PTL

\* When a request resumes after its collection, exactly the blocks are left of
\* which the program can reach some part: all garbage is gone, cycles included.
THEOREM CollectionsAreExact == CollectorSpec => []CollectionExact
BY ExactFollows, CollectorInvariance, PTL

\* From a request to its return the runtime writes no field of an object the
\* program can reach, and no local but the destination.
THEOREM ReachableIsUntouched == CollectorSpec => ReachableIntact
BY LeavesFollows, CollectorInvariance, PTL DEF CollectorSpec, ReachableIntact
=============================================================================
