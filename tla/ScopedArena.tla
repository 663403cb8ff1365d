---------------------------- MODULE ScopedArena ----------------------------
(***************************************************************************)
(* The scoped arena (c_backend.rs, ARENA_RUNTIME): a bump allocator whose  *)
(* frontier a function marks when it starts and restores when it returns.  *)
(* A failed request is reported by a panic, which ends the program.        *)
(***************************************************************************)
EXTENDS Integers, Sequences, SequencesExt

CONSTANTS
    Capacity,        \* SAO2_ARENA_CAPACITY
    OffsetMax,       \* UINT32_MAX, the largest offset of a reference
    WordMax,         \* UINT64_MAX
    Page,            \* the size of a page
    Alignment,       \* SAO2_REF_ALIGNMENT
    BodySizes,       \* the sizes requested
    MaxCalls,        \* bound: nested calls
    MaxBlocks        \* bound: allocations of one call

ArenaAssumption ==
    /\ {Capacity, OffsetMax, WordMax, Page, Alignment, MaxCalls, MaxBlocks} \subseteq Nat \ {0}
    /\ BodySizes \subseteq 0..WordMax
    /\ Capacity % Page = 0            \* sao2_platform_page_size
    /\ Alignment <= Capacity
    /\ Capacity <= OffsetMax + 1 /\ OffsetMax < WordMax

VARIABLES
    frontier,
    committed,       \* the end of the usable pages
    calls,           \* of the running functions: the mark, and the blocks
    scopedStatus,    \* "ok", or how the last request failed
    refused          \* history: the size of a request that was refused

vars == <<frontier, committed, calls, scopedStatus, refused>>

\* SAO2_ARENA_INITIAL_CURSOR: offset 0 is the null reference.
Cursor == Alignment

RoundUp(n, unit) == ((n + unit - 1) \div unit) * unit

\* Mutation: nothing is stored for an empty struct.
StoredAsAsked(size) == size

Stored(size) == IF size = 0 THEN Alignment ELSE size

Start == RoundUp(frontier, Alignment)
End(size) == RoundUp(Start + Stored(size), Alignment)

\* sao2_scoped_allocate and sao2_scoped_bump_allocate, up to the commit.
Fits(size) ==
    /\ Start <= OffsetMax
    /\ Start + Stored(size) <= WordMax /\ End(size) <= WordMax
    /\ End(size) <= OffsetMax + 1
    /\ Start <= Capacity /\ Stored(size) <= Capacity - Start
    /\ End(size) <= Capacity

CommittedEnd(size) == RoundUp(End(size), Page)

-----------------------------------------------------------------------------
Init ==
    /\ frontier = Cursor
    /\ committed = 0
    /\ calls = <<>>
    /\ scopedStatus = "ok" /\ refused = 0

\* The prologue of a function that allocates scoped structs.
Call ==
    /\ scopedStatus = "ok" /\ Len(calls) < MaxCalls
    /\ calls' = Append(calls, [mark |-> frontier, blocks |-> <<>>])
    /\ UNCHANGED <<frontier, committed, scopedStatus, refused>>

\* sao2_arena_commit_through and the new reference.
AllocateScoped(size) ==
    /\ scopedStatus = "ok" /\ calls /= <<>> /\ Len(Last(calls).blocks) < MaxBlocks
    /\ Fits(size)
    /\ committed' = IF CommittedEnd(size) > committed THEN CommittedEnd(size) ELSE committed
    /\ frontier' = End(size)
    /\ calls' = [calls EXCEPT ![Len(calls)].blocks = Append(@, [offset |-> Start, size |-> size])]
    /\ UNCHANGED <<scopedStatus, refused>>

Exhausted(size) ==
    /\ scopedStatus = "ok" /\ calls /= <<>>
    /\ ~ Fits(size)
    /\ scopedStatus' = "exhausted" /\ refused' = size
    /\ UNCHANGED <<frontier, committed, calls>>

CommitFails(size) ==
    /\ scopedStatus = "ok" /\ calls /= <<>>
    /\ Fits(size) /\ CommittedEnd(size) > committed
    /\ scopedStatus' = "commit failed"
    /\ UNCHANGED <<frontier, committed, calls, refused>>

\* sao2_scoped_restore in the epilogue; a mark that is not one of the arena
\* is an internal error.
Marked == Last(calls).mark \in Cursor..frontier
Return ==
    /\ scopedStatus = "ok" /\ calls /= <<>>
    /\ frontier' = IF Marked THEN Last(calls).mark ELSE frontier
    /\ scopedStatus' = IF Marked THEN "ok" ELSE "internal error"
    /\ calls' = Front(calls)
    /\ UNCHANGED <<committed, refused>>

Next ==
    \/ Call
    \/ Return
    \/ \E size \in BodySizes : AllocateScoped(size)
    \/ \E size \in BodySizes : Exhausted(size)
    \/ \E size \in BodySizes : CommitFails(size)

Spec == Init /\ [][Next]_vars

-----------------------------------------------------------------------------
ScopedTypeOK ==
    /\ frontier \in 0..Capacity /\ committed \in 0..Capacity
    /\ calls \in Seq([mark : Nat, blocks : Seq([offset : Nat, size : Nat])])
    /\ scopedStatus \in {"ok", "exhausted", "commit failed", "internal error"}
    /\ refused \in BodySizes \cup {0}

LiveBlocks == UNION {{calls[c].blocks[b] : b \in DOMAIN calls[c].blocks} : c \in DOMAIN calls}
Extent(block) == block.offset..(block.offset + Stored(block.size) - 1)

\* c_backend.rs:4317-4352,4661-4684 - whatever the running functions have
\* allocated lies apart, behind the mark of its function, in front of the
\* frontier and on committed pages: no callee's allocation or return gives a
\* caller's struct away, and empty structs have references of their own.
ScopedBlocksApart ==
    /\ LiveBlocks /= {} => frontier <= committed
    /\ \A c \in DOMAIN calls : \A b \in DOMAIN calls[c].blocks :
        LET block == calls[c].blocks[b]
        IN  /\ block.offset % Alignment = 0
            /\ Extent(block) \subseteq calls[c].mark..(frontier - 1)
            /\ \A d \in DOMAIN calls : \A e \in DOMAIN calls[d].blocks :
                <<c, b>> /= <<d, e>> =>
                    /\ calls[d].blocks[e].offset /= block.offset
                    /\ Extent(block) \cap Extent(calls[d].blocks[e]) = {}

\* DESIGN.md:613 - a request is refused as exceeding the arena only when the
\* rest of the arena is too small for it, and no restore is an internal error.
ScopedExhaustionIsReal ==
    /\ scopedStatus = "exhausted" => RoundUp(Stored(refused), Alignment) > Capacity - frontier
    /\ scopedStatus /= "internal error"
=============================================================================
