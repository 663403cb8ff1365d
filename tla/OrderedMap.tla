---------------------------- MODULE OrderedMap ----------------------------
(***************************************************************************)
(* The managed ordered map of the C backend (render_map_operation_helpers):*)
(* entries in a dense backing, in the order in which their keys arrived,   *)
(* and a table of slots, probed linearly, that maps a key to the position  *)
(* of its entry.  Positions are stored plus one: 0 is an empty slot.       *)
(*                                                                         *)
(* An operation runs to its end without interleaving; the backings of a    *)
(* growing map are built aside and published last, so a failed allocation  *)
(* leaves the map alone.  A panic ends the program.                        *)
(***************************************************************************)
EXTENDS Integers, Sequences, FiniteSets

CONSTANTS
  Keys, Values,
  Hash,          \* the value descriptor's hash of a key
  Listings,      \* the entry lists of map expressions
  CapacityMax,   \* INT64_MAX, beyond which no capacity may grow
  MaxLocks       \* bound on the iterations active at a time

ASSUME HashAssumption == Hash \in [Keys -> Nat]
ASSUME ListingAssumption == Listings \subseteq Seq([key : Keys, value : Values])
ASSUME LimitAssumption == CapacityMax \in Nat \ (0 .. 7) /\ MaxLocks \in Nat

VARIABLES
  entries,         \* the initialized part of the ordered entries
  entryCapacity,   \* 0 as long as the map has no backings
  slots, slotCapacity,
  length, lockCount,
  outcome,         \* "running", or what the program panicked with
  answer           \* what the last lookup gave

backings == <<entries, entryCapacity, slots, slotCapacity, length>>
vars == <<backings, lockCount, outcome, answer>>

Outcomes == {"running", "locked", "missing", "exhausted"}
Entry == [key : Keys, value : Values]
Pair(k, v) == [key |-> k, value |-> v]

-----------------------------------------------------------------------------
(* Capacities: the first one doubled until it suffices, 0 when the limit is *)
(* met.                                                                    *)

Doublings(first) ==
  LET doubled[n \in 0 .. CapacityMax] == IF n = 0 THEN first ELSE 2 * doubled[n - 1]
  IN  doubled

Doubled(first, least) ==
  LET capacities == {c \in first .. CapacityMax :
                       c >= least /\ \E n \in 0 .. CapacityMax : c = Doublings(first)[n]}
  IN  IF capacities = {} THEN 0
      ELSE CHOOSE c \in capacities : \A d \in capacities : c <= d

\* sao2_map_entry_capacity
EntryCapacity(required, current) == Doubled(IF current = 0 THEN 4 ELSE current, required)

\* sao2_map_slot_capacity: at least half of the slots stay empty.
SlotCapacity(required, current) == Doubled(IF current = 0 THEN 8 ELSE current, 2 * required)

-----------------------------------------------------------------------------
(* The table of slots. *)

Position(k, step, capacity) == (Hash[k] + step) % capacity

\* Index n goes to the first empty slot at or after the home of its key.
Place(table, capacity, k, n) ==
  LET at(step) == Position(k, step, capacity)
      step == CHOOSE s \in 0 .. capacity - 1 :
                table[at(s)] = 0 /\ \A t \in 0 .. s - 1 : table[at(t)] # 0
  IN  [table EXCEPT ![at(step)] = n]

\* sao2_map_rebuild_slots
RebuildSlots(items, capacity) ==
  LET placed[n \in 0 .. Len(items)] ==
        IF n = 0 THEN [p \in 0 .. capacity - 1 |-> 0]
        ELSE Place(placed[n - 1], capacity, items[n].key, n)
  IN  placed[Len(items)]

\* sao2_map_find: slots are probed from the key's home until an empty one.
StopsAt(k, step) ==
  LET n == slots[Position(k, step, slotCapacity)]
  IN  n = 0 \/ entries[n].key = k

ProbedSlot(k) ==
  slots[Position(k, CHOOSE s \in 0 .. slotCapacity - 1 :
          StopsAt(k, s) /\ \A t \in 0 .. s - 1 : ~StopsAt(k, t), slotCapacity)]

Found(k) == length # 0 /\ ProbedSlot(k) # 0

-----------------------------------------------------------------------------
(* Operations. *)

\* The entries a map expression leaves: the first place and the last value of
\* each key it lists.
Unique(listed) ==
  LET taken[n \in 0 .. Len(listed)] ==
        IF n = 0 THEN <<>>
        ELSE LET before == taken[n - 1]
                 again == {i \in DOMAIN before : before[i].key = listed[n].key}
             IN  IF again = {} THEN Append(before, listed[n])
                 ELSE [i \in DOMAIN before |->
                        IF i \in again THEN listed[n] ELSE before[i]]
  IN  taken[Len(listed)]

\* sao2_map_construct: an empty map has no backings; the capacities of any other
\* are for as many entries as are listed, repeated keys included.  When the limit
\* is met the expression panics and there is no map.
Construct(listed) ==
  /\ listed # <<>> => EntryCapacity(Len(listed), 0) # 0 /\ SlotCapacity(Len(listed), 0) # 0
  /\ entries = Unique(listed) /\ length = Len(entries)
  /\ entryCapacity = IF listed = <<>> THEN 0 ELSE EntryCapacity(Len(listed), 0)
  /\ slotCapacity = IF listed = <<>> THEN 0 ELSE SlotCapacity(Len(listed), 0)
  /\ slots = RebuildSlots(entries, slotCapacity)

Init ==
  /\ \E listed \in Listings : Construct(listed)
  /\ lockCount = 0 /\ outcome = "running" /\ answer = "nothing"

Running == outcome = "running"
NoAnswer == answer' = "nothing"
Panic(reason) == outcome' = reason /\ NoAnswer /\ UNCHANGED <<backings, lockCount>>

\* A key that is present keeps its place, its slot and any iteration.
Overwrite(k, v) ==
  /\ Running /\ Found(k)
  /\ entries' = [entries EXCEPT ![ProbedSlot(k)] = Pair(k, v)]
  /\ NoAnswer
  /\ UNCHANGED <<entryCapacity, slots, slotCapacity, length, lockCount, outcome>>

InsertLocked(k) == Running /\ ~Found(k) /\ lockCount # 0 /\ Panic("locked")

RoomLeft == length + 1 <= entryCapacity /\ length + 1 <= slotCapacity \div 2

InsertInPlace(k, v) ==
  /\ Running /\ ~Found(k) /\ lockCount = 0
  /\ RoomLeft
  /\ entries' = Append(entries, Pair(k, v))
  /\ slots' = Place(slots, slotCapacity, k, length + 1)
  /\ length' = length + 1
  /\ NoAnswer
  /\ UNCHANGED <<entryCapacity, slotCapacity, lockCount, outcome>>

\* Both backings are replaced as soon as one of them is too small.
InsertGrowing(k, v) ==
  /\ Running /\ ~Found(k) /\ lockCount = 0
  /\ ~RoomLeft
  /\ EntryCapacity(length + 1, entryCapacity) # 0
  /\ SlotCapacity(length + 1, slotCapacity) # 0
  /\ entryCapacity' = EntryCapacity(length + 1, entryCapacity)
  /\ slotCapacity' = SlotCapacity(length + 1, slotCapacity)
  /\ entries' = Append(entries, Pair(k, v))
  /\ slots' = RebuildSlots(entries', slotCapacity')
  /\ length' = length + 1
  /\ NoAnswer
  /\ UNCHANGED <<lockCount, outcome>>

\* The capacity limit, or one of the two allocations, stops the program.
InsertExhausted(k) ==
  Running /\ ~Found(k) /\ lockCount = 0 /\ ~RoomLeft /\ Panic("exhausted")

RemoveKeySlotOnly(k) ==   \* mutation: only the removed key's slot is cleared
  /\ Running /\ lockCount = 0 /\ Found(k)
  /\ entries' = [i \in 1 .. length - 1 |->
       IF i < ProbedSlot(k) THEN entries[i] ELSE entries[i + 1]]
  /\ slots' = [p \in DOMAIN slots |->
       IF slots[p] = ProbedSlot(k) THEN 0
       ELSE IF slots[p] > ProbedSlot(k) THEN slots[p] - 1 ELSE slots[p]]
  /\ length' = length - 1
  /\ NoAnswer
  /\ UNCHANGED <<entryCapacity, slotCapacity, lockCount, outcome>>

RemoveKeySwapping(k) ==   \* mutation: the last entry fills the gap
  /\ Running /\ lockCount = 0 /\ Found(k)
  /\ entries' = [i \in 1 .. length - 1 |->
       IF i = ProbedSlot(k) THEN entries[length] ELSE entries[i]]
  /\ slots' = RebuildSlots(entries', slotCapacity)
  /\ length' = length - 1
  /\ NoAnswer
  /\ UNCHANGED <<entryCapacity, slotCapacity, lockCount, outcome>>

\* The later entries move down by one; every slot is computed anew.
RemoveKey(k) ==
  /\ Running /\ lockCount = 0 /\ Found(k)
  /\ entries' = [i \in 1 .. length - 1 |->
       IF i < ProbedSlot(k) THEN entries[i] ELSE entries[i + 1]]
  /\ slots' = RebuildSlots(entries', slotCapacity)
  /\ length' = length - 1
  /\ NoAnswer
  /\ UNCHANGED <<entryCapacity, slotCapacity, lockCount, outcome>>

RemoveRefused(k) ==
  /\ Running
  /\ \/ lockCount # 0 /\ Panic("locked")
     \/ lockCount = 0 /\ ~Found(k) /\ Panic("missing")

\* sao2_map_load
Load(k) ==
  /\ Running
  /\ \/ /\ Found(k)
        /\ answer' = entries[ProbedSlot(k)].value
        /\ UNCHANGED <<backings, lockCount, outcome>>
     \/ ~Found(k) /\ Panic("missing")

\* sao2_map_store_existing: like Overwrite, but an absent key is an error.
StoreMissing(k) == Running /\ ~Found(k) /\ Panic("missing")

Contains(k) ==
  /\ Running
  /\ answer' = IF Found(k) THEN "present" ELSE "absent"
  /\ UNCHANGED <<backings, lockCount, outcome>>

BeginIteration ==
  /\ Running /\ lockCount < MaxLocks
  /\ lockCount' = lockCount + 1
  /\ NoAnswer
  /\ UNCHANGED <<backings, outcome>>

EndIteration ==
  /\ Running /\ lockCount > 0
  /\ lockCount' = lockCount - 1
  /\ NoAnswer
  /\ UNCHANGED <<backings, outcome>>

Next ==
  \/ \E k \in Keys, v \in Values :
       \/ Overwrite(k, v) \/ InsertInPlace(k, v) \/ InsertGrowing(k, v)
       \/ InsertLocked(k) \/ InsertExhausted(k)
  \/ \E k \in Keys : \/ StoreMissing(k) \/ RemoveKey(k) \/ RemoveRefused(k)
                     \/ Load(k) \/ Contains(k)
  \/ BeginIteration \/ EndIteration

Spec == Init /\ [][Next]_vars

-----------------------------------------------------------------------------
(* Properties. *)

\* Every variable stays within its type.
MapTypeOK ==
  /\ entries \in Seq(Entry) /\ length \in Nat
  /\ entryCapacity \in 0 .. CapacityMax /\ slotCapacity \in 0 .. CapacityMax
  /\ slots \in [0 .. slotCapacity - 1 -> Nat]
  /\ lockCount \in 0 .. MaxLocks
  /\ outcome \in Outcomes /\ answer \in Values \cup {"nothing", "present", "absent"}

PowerOfTwo(capacity) == \E n \in 0 .. CapacityMax : capacity = Doublings(1)[n]

\* What every operation asserts of the control (sao2_map_control), or panics as
\* a compiler error: a power of two lets it mask where it means a remainder.
MapControlValid ==
  /\ length = Len(entries)
  /\ length <= entryCapacity /\ length <= slotCapacity \div 2
  /\ (entryCapacity = 0 <=> slotCapacity = 0)
  /\ slotCapacity # 0 => PowerOfTwo(slotCapacity)

\* The table leads to every entry, and only to entries: each position is in one
\* slot, no empty slot separates it from the home of its key, and no two
\* entries have the same key.
SlotsIndexEntries ==
  /\ \A p, q \in DOMAIN slots : slots[p] # 0 /\ slots[p] = slots[q] => p = q
  /\ \A p \in DOMAIN slots : slots[p] \in 0 .. length
  /\ \A n \in 1 .. length : \E s \in 0 .. slotCapacity - 1 :
       LET at(t) == Position(entries[n].key, t, slotCapacity)
       IN  slots[at(s)] = n /\ \A t \in 0 .. s - 1 : slots[at(t)] # 0
  /\ \A m, n \in 1 .. length : entries[m].key = entries[n].key => m = n

Abstract == INSTANCE AbstractMap WITH pairs <- entries, locks <- lockCount

\* Hashing, probing, growing and rebuilding amount to an ordered map: lookups
\* answer from the entries, in the order in which their keys came.
ImplementsAbstractMap == Abstract!Spec
=============================================================================
