------------------------------ MODULE Runtime ------------------------------
(***************************************************************************)
(* The parts of the runtime that share no state with each other: maps,     *)
(* lists and the loops over them, the scoped arena, the trace work list,   *)
(* checked arithmetic and the entry of the program.  A behaviour is one of *)
(* one of them; the others stay as they are when nothing was done yet.     *)
(* The map is OrderedMap itself, and its constants are those of maps.      *)
(***************************************************************************)
EXTENDS OrderedMap

CONSTANTS
    Elements, Lists, NoList,            \* Iteration
    ListLiterals, ListCapacityMax, ListIndices, MaxFrames, MaxLoops,
    ArenaCapacity, OffsetMax, WordMax,  \* ScopedArena
    Page, Alignment, BodySizes, MaxCalls, MaxBlocks,
    TraceKeys, TraceHash,               \* TraceTable
    FirstItems, FirstSlots,
    Bits, Lengths,                      \* Arithmetic
    Texts, TextHash, NonAscii,          \* ProgramEntry
    LiteralLists, MaxArguments

VARIABLES
    part,
    list, frames, loopOutcome,
    frontier, committed, calls, scopedStatus, refused,
    traceItems, itemCapacity, nextItem, traceSlots, requested, traceResult,
    operation, left, right, checks, arithmeticOutcome, result,
    phase, takesArguments, literals, argv, pool, arguments, held, exit

mapVars == vars
loopVars == <<list, frames, loopOutcome>>
scopedVars == <<frontier, committed, calls, scopedStatus, refused>>
traceVars == <<traceItems, itemCapacity, nextItem, traceSlots, requested, traceResult>>
arithmeticVars == <<operation, left, right, checks, arithmeticOutcome, result>>
entryVars == <<phase, takesArguments, literals, argv, pool, arguments, held, exit>>

Loops == INSTANCE Iteration WITH
    Values <- Elements, Literals <- ListLiterals, CapacityMax <- ListCapacityMax,
    Indices <- ListIndices, outcome <- loopOutcome
Scoped == INSTANCE ScopedArena WITH Capacity <- ArenaCapacity
Trace == INSTANCE TraceTable WITH
    Keys <- TraceKeys, HashOf <- TraceHash, items <- traceItems, slots <- traceSlots
Arithmetic == INSTANCE Arithmetic WITH outcome <- arithmeticOutcome
ProgramEntry == INSTANCE ProgramEntry

ASSUME RuntimeAssumption ==
    /\ Loops!ListAssumption
    /\ Scoped!ArenaAssumption
    /\ Trace!TableAssumption
    /\ Arithmetic!ArithmeticAssumption
    /\ ProgramEntry!EntryAssumption

NoMap ==
    /\ entries = <<>> /\ entryCapacity = 0 /\ slots = [p \in 0 .. -1 |-> 0] /\ slotCapacity = 0
    /\ length = 0 /\ lockCount = 0 /\ outcome = "running" /\ answer = "nothing"
NoLoops ==
    /\ list = [l \in Lists |-> [elements |-> <<>>, locks |-> 0, capacity |-> 0]]
    /\ frames = <<<<>>>> /\ loopOutcome = "running"
NoArithmetic ==
    /\ operation = "none" /\ left = 0 /\ right = 0 /\ checks = <<>>
    /\ arithmeticOutcome = "none" /\ result = {}
NoEntry ==
    /\ phase = "none" /\ takesArguments = FALSE /\ literals = <<>> /\ argv = <<>>
    /\ pool = ProgramEntry!NoPool /\ arguments = <<>> /\ held = {} /\ exit = ""

RuntimeInit ==
    /\ part \in {"map", "loops", "scoped", "trace", "arithmetic", "entry"}
    /\ IF part = "map" THEN Init ELSE NoMap
    /\ IF part = "loops" THEN Loops!Init ELSE NoLoops
    /\ Scoped!Init
    /\ Trace!Init
    /\ IF part = "arithmetic" THEN Arithmetic!Init ELSE NoArithmetic
    /\ IF part = "entry" THEN ProgramEntry!Init ELSE NoEntry

RuntimeNext ==
    \/ /\ part = "map" /\ Next
       /\ UNCHANGED <<part, loopVars, scopedVars, traceVars, arithmeticVars, entryVars>>
    \/ /\ part = "loops" /\ Loops!Next
       /\ UNCHANGED <<part, mapVars, scopedVars, traceVars, arithmeticVars, entryVars>>
    \/ /\ part = "scoped" /\ Scoped!Next
       /\ UNCHANGED <<part, mapVars, loopVars, traceVars, arithmeticVars, entryVars>>
    \/ /\ part = "trace" /\ Trace!Next
       /\ UNCHANGED <<part, mapVars, loopVars, scopedVars, arithmeticVars, entryVars>>
    \/ /\ part = "arithmetic" /\ Arithmetic!Next
       /\ UNCHANGED <<part, mapVars, loopVars, scopedVars, traceVars, entryVars>>
    \/ /\ part = "entry" /\ ProgramEntry!Next
       /\ UNCHANGED <<part, mapVars, loopVars, scopedVars, traceVars, arithmeticVars>>

RuntimeSpec ==
    RuntimeInit
    /\ [][RuntimeNext]_<<part, mapVars, loopVars, scopedVars, traceVars, arithmeticVars, entryVars>>

-----------------------------------------------------------------------------
\* The types of the parts' variables, and what the operations of a map and of a
\* list assert of the control they are given: a list's elements fit its capacity.
RuntimeWellFormed ==
    CASE part = "map" -> MapTypeOK /\ MapControlValid
      [] part = "loops" -> Loops!IterationTypeOK
      [] part = "scoped" -> Scoped!ScopedTypeOK
      [] part = "trace" -> Trace!TraceTypeOK
      [] part = "entry" -> ProgramEntry!EntryTypeOK
      [] OTHER -> TRUE

\* Iteration: every loop that is left, whatever way, gives back its lock.
LocksExact == part = "loops" => Loops!LocksExact
\* Iteration: the length a loop has read stays that of its list.
SnapshotCurrent == part = "loops" => Loops!SnapshotCurrent
\* ScopedArena: live blocks do not meet, and a refused block had no room.
ScopedBlocksApart == Scoped!ScopedBlocksApart /\ Scoped!ScopedExhaustionIsReal
\* TraceTable: what is enqueued is found, and traced once.
EnqueuedOnce == Trace!EnqueuedOnce
\* Arithmetic: an operation panics or has its meaning.
CheckedExactly == part = "arithmetic" => Arithmetic!CheckedExactly
\* ProgramEntry: one pointer for one text, given back in the order of its taking.
InternedByContents ==
    part = "entry" => ProgramEntry!InternedByContents /\ ProgramEntry!ReleasedInOrder
=============================================================================
