----------------------------- MODULE TraceTable -----------------------------
(***************************************************************************)
(* The work list of the tracer (c_backend.rs, TRACE_RUNTIME): the items in *)
(* the order they were found, and a hash table over them that is rebuilt   *)
(* at half load.  Both grow while a trace runs, and either growth may fail.*)
(* A key stands for a reference and the identity of its layout.            *)
(***************************************************************************)
EXTENDS Integers, Sequences, FiniteSets, SequencesExt

CONSTANTS
    Keys,
    HashOf,          \* sao2_trace_hash, a function on Keys
    FirstItems,      \* 8, the first capacity of the items
    FirstSlots       \* 16, the first capacity of the slots

TableAssumption ==
    /\ HashOf \in [Keys -> Nat]
    /\ FirstItems \in Nat \ {0} /\ FirstSlots \in Nat \ {0, 1}

VARIABLES
    items,
    itemCapacity,
    nextItem,        \* how many items have been traced
    slots,           \* a function on 0..capacity - 1; 0 is an empty slot
    requested,       \* history: the keys enqueued
    traceResult

vars == <<items, itemCapacity, nextItem, slots, requested, traceResult>>

SlotCapacity == Cardinality(DOMAIN slots)
Empty(capacity) == [s \in 0..capacity - 1 |-> 0]

\* sao2_trace_slot_for: where the probing for a key ends.
Probe(table, entries, key) ==
    LET capacity == Cardinality(DOMAIN table)
        At(step) == (HashOf[key] + step) % capacity
        Ends(step) == table[At(step)] = 0 \/ entries[table[At(step)]] = key
        last == CHOOSE step \in 0..capacity - 1 :
                    Ends(step) /\ \A earlier \in 0..step - 1 : ~ Ends(earlier)
    IN  At(last)
Found(key) == SlotCapacity > 0 /\ slots[Probe(slots, items, key)] /= 0

\* Mutation: the old slots are copied to where they were.
RebuiltInPlace(capacity) ==
    [s \in 0..capacity - 1 |-> IF s \in DOMAIN slots THEN slots[s] ELSE 0]

\* sao2_trace_rebuild_slots: every item once more, in order.
Rebuilt(capacity) ==
    LET placed[n \in 0..Len(items)] ==
            IF n = 0 THEN Empty(capacity)
            ELSE [placed[n - 1] EXCEPT ![Probe(placed[n - 1], items, items[n])] = n]
    IN  placed[Len(items)]

AtHalfLoad == Len(items) + 1 > SlotCapacity \div 2

-----------------------------------------------------------------------------
Init ==
    /\ items = <<>> /\ itemCapacity = 0 /\ nextItem = 0
    /\ slots = Empty(0)
    /\ requested = {}
    /\ traceResult = "ok"

Put(key, table) ==
    /\ slots' = [table EXCEPT ![Probe(table, items, key)] = Len(items) + 1]
    /\ items' = Append(items, key)

\* sao2_trace_enqueue of a key that is known.
EnqueueAgain(key) ==
    /\ traceResult = "ok" /\ Found(key)
    /\ requested' = requested \cup {key}
    /\ UNCHANGED <<items, itemCapacity, nextItem, slots, traceResult>>

\* sao2_trace_enqueue of a new key, with what it has to grow first.
NeedsItems == Len(items) = itemCapacity
EnqueueNew(key) ==
    /\ traceResult = "ok" /\ ~ Found(key)
    /\ requested' = requested \cup {key}
    /\ itemCapacity' = IF ~ NeedsItems THEN itemCapacity
                       ELSE IF itemCapacity = 0 THEN FirstItems ELSE 2 * itemCapacity
    /\ Put(key, IF SlotCapacity = 0 THEN Empty(FirstSlots)
                ELSE IF AtHalfLoad THEN Rebuilt(2 * SlotCapacity) ELSE slots)
    /\ UNCHANGED <<nextItem, traceResult>>

\* One of the three allocations fails; what was done before it stays done.
EnqueueFails(key) ==
    /\ traceResult = "ok" /\ ~ Found(key)
    /\ traceResult' = "scratch exhausted"
    /\ \/ SlotCapacity = 0 /\ UNCHANGED <<slots, itemCapacity>>
       \/ /\ NeedsItems
          /\ slots' = IF SlotCapacity = 0 THEN Empty(FirstSlots) ELSE slots
          /\ UNCHANGED itemCapacity
       \/ /\ SlotCapacity > 0 /\ AtHalfLoad
          /\ itemCapacity' = IF NeedsItems THEN 2 * itemCapacity ELSE itemCapacity
          /\ UNCHANGED slots
    /\ UNCHANGED <<items, nextItem, requested>>

\* sao2_trace_drain takes the next item; its layout enqueues what it holds.
Take ==
    /\ traceResult = "ok" /\ nextItem < Len(items)
    /\ nextItem' = nextItem + 1
    /\ UNCHANGED <<items, itemCapacity, slots, requested, traceResult>>

Next ==
    \/ \E key \in Keys : EnqueueAgain(key)
    \/ \E key \in Keys : EnqueueNew(key)
    \/ \E key \in Keys : EnqueueFails(key)
    \/ Take

Spec == Init /\ [][Next]_vars

-----------------------------------------------------------------------------
TraceTypeOK ==
    /\ items \in Seq(Keys) /\ Len(items) <= itemCapacity
    /\ nextItem \in 0..Len(items)
    /\ \A s \in DOMAIN slots : slots[s] \in 0..Len(items)
    /\ traceResult \in {"ok", "scratch exhausted"}

\* c_backend.rs:4752-4834 - every key that was enqueued is in the list once,
\* so that it is traced, and traced once; the table finds it at the end of a
\* probe, across every rebuild; and an empty slot is always left to end one.
EnqueuedOnce ==
    /\ requested = Range(items) /\ IsInjective(items)
    /\ SlotCapacity > 0 =>
        /\ \E s \in DOMAIN slots : slots[s] = 0
        /\ \A i \in DOMAIN items : slots[Probe(slots, items, items[i])] = i
=============================================================================
