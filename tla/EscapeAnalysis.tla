--------------------------- MODULE EscapeAnalysis ---------------------------
(* The escape analysis of src/src/escape.rs, run on programs that execute    *)
(* beside it.  The analysis is flow-insensitive: what it computes depends on *)
(* the set of operations of each function only.  A program is therefore the  *)
(* set of operations it holds, control may take any of them in any order     *)
(* (loops and branches realise every order), and an operation joins the      *)
(* program the first time it runs: every state pairs a program with one of   *)
(* its executions.  A struct object has one referenced member; tuples and    *)
(* unions, which carry the facts of their operands, are left out.            *)
(* An outline bounds what a program may become: the functions each function  *)
(* may call, those with a local whose type holds references in a list or a   *)
(* map, on which the analysis gives up, and the room for operations.         *)
EXTENDS Integers, Sequences, FiniteSets

CONSTANTS Functions,      \* the functions of the program
          Main,           \* the entry, which has no parameter
          Outlines,       \* what the programs may become
          Locals,         \* the locals of a function
          Param,          \* the local that holds the parameter
          None,           \* no object, and no local
          MaxObjects, MaxFrames,  \* bounds of the exploration,
          MaxPath         \* and of the path of a projected assignment

ASSUME EscapeAssumption ==
    /\ IsFiniteSet(Functions) /\ IsFiniteSet(Locals)
    /\ Main \in Functions
    /\ Outlines \subseteq [calls: [Functions -> SUBSET (Functions \ {Main})],
                           containers: SUBSET (Functions \ {Main}),
                           room: [Functions -> Nat]]
    /\ Param \in Locals /\ None \notin Locals \cup Nat
    /\ MaxObjects \in Nat /\ MaxFrames \in Nat \ {0} /\ MaxPath \in 1..2

VARIABLES outline,  \* never changes
          code,     \* the operations of each function
          objects,  \* the objects allocated: allocating operation, frame, member
          stack     \* the active calls, the innermost last

vars == <<outline, code, objects, stack>>

-----------------------------------------------------------------------------
(* Programs. *)

Place(l, d) == [local |-> l, depth |-> d]
Constant == Place(None, 0)
Operands == {Constant} \cup [local: Locals, depth: 0..1]

MayCall == outline.calls
Containers == outline.containers

Operation(k, to, v, f) == [kind |-> k, to |-> to, value |-> v, callee |-> f]
Whole == [local: Locals, depth: {0}]
Operations(f) ==
    [kind: {"struct"}, to: Whole, value: {Constant} \cup Whole, callee: {None}]
    \cup {o \in [kind: {"copy"}, to: Whole, value: Operands, callee: {None}] :
             o.value # o.to}
    \cup [kind: {"assign"}, to: [local: Locals, depth: 1..MaxPath],
          value: {Constant} \cup Whole, callee: {None}]
    \cup [kind: {"call"}, to: Whole, value: Whole, callee: MayCall[f]]
    \cup [kind: {"return"}, to: {Constant}, value: Operands, callee: {None}]
    \cup (IF f \in Containers
          THEN [kind: {"retain"}, to: Whole, value: Whole, callee: {None}] ELSE {})

OfKind(f, kinds) == {o \in code[f] : o.kind \in kinds}
Sites(f) == OfKind(f, {"struct"})

\* the least set that holds "start" and, with it, what "grow" adds to it, for
\* a monotonic "grow" that is stable after "bound" rounds
Iterated(grow(_), start, bound) ==
    LET round[n \in 0..bound] == IF n = 0 THEN start ELSE grow(round[n - 1])
    IN  round[bound]

-----------------------------------------------------------------------------
(* The analysis.  An origin is a parameter, an allocation or the heap of     *)
(* another function. *)

Parameter == Operation("parameter", Constant, Constant, None)
ExternalHeap == Operation("external", Constant, Constant, None)

\* the origins an operation puts in its destination before any copy
Seeds(f, l) ==
    (IF l = Param /\ f # Main THEN {Parameter} ELSE {})
    \cup {o \in Sites(f) : o.to.local = l}
    \cup {ExternalHeap : o \in {o \in OfKind(f, {"call"}) : o.to.local = l}}

\* one pass of the propagation loop: a projection keeps the facts of its base
Propagate(f, facts) ==
    [l \in Locals |-> facts[l] \cup
        UNION {facts[o.value.local] :
               o \in {o \in OfKind(f, {"copy"}) : o.to.local = l /\ o.value # Constant}}]

Facts(f) ==
    LET grow(facts) == Propagate(f, facts)
    IN  Iterated(grow, [l \in Locals |-> Seeds(f, l)], Cardinality(Locals))

OperandFacts(facts, value) == IF value = Constant THEN {} ELSE facts[value.local]

\* the stores that keep a value alive as long as their owner
Edges(f, facts) ==
    (UNION {{o} \X OperandFacts(facts, o.value) : o \in Sites(f)})
    \cup (UNION {facts[o.to.local] \X OperandFacts(facts, o.value) :
                 o \in OfKind(f, {"assign"})})

\* what is returned, put in the reach of a caller or passed to be kept
Leaks(f, facts, escapes) ==
    UNION {OperandFacts(facts, o.value) :
           o \in OfKind(f, {"return"})
                 \cup {o \in OfKind(f, {"assign"}) :
                        facts[o.to.local] \cap {Parameter, ExternalHeap} # {}}
                 \cup {o \in OfKind(f, {"call"}) : o.callee \in escapes}}

\* Mutant: a container does not make its function conservative.
EscapedUnlessContained(f, facts, escapes) == Leaks(f, facts, escapes)

EscapedDirectly(f, facts, escapes) ==
    Leaks(f, facts, escapes) \cup (IF f \in Containers THEN {Parameter} ELSE {})

\* the worklist: what escapes takes everything it owns with it
Closure(edges, escaped) ==
    LET grow(reached) == reached \cup {e[2] : e \in {e \in edges : e[1] \in reached}}
    IN  Iterated(grow, escaped, Cardinality({e[2] : e \in edges}))

Escaped(f, escapes) ==
    LET facts == Facts(f)
    IN  Closure(Edges(f, facts), EscapedDirectly(f, facts, escapes))

Callees(f) == {o.callee : o \in OfKind(f, {"call"})}

\* the call-graph queue: a function is analysed once all its callees are, and
\* those on a cycle, or above one, never are; "escapes" collects the functions
\* whose parameter escapes
Summaries ==
    LET grow(known) ==
            LET ready == {f \in Functions \ known.analysed : Callees(f) \subseteq known.analysed}
            IN  [analysed |-> known.analysed \cup ready,
                 escapes  |-> known.escapes \cup
                     {f \in ready : Parameter \in Escaped(f, known.escapes)}]
    IN  Iterated(grow, [analysed |-> {}, escapes |-> {}], Cardinality(Functions))

\* the allocations of one function that keep to its invocation
InScope(f, escapes) ==
    IF f \in Containers THEN {} ELSE Sites(f) \ Escaped(f, escapes)

\* Mutant: no fallback, a cycle is planned from the summaries at hand.
PlanRegardless == [f \in Functions |-> Sites(f) \ Escaped(f, Summaries.escapes)]

\* the allocations the plan places in the scoped arena; a function that could
\* not be analysed lets its parameter escape and gets no scoped storage
Plan ==
    LET known == Summaries
        unknown == Functions \ known.analysed
    IN  [f \in Functions |->
            IF f \in unknown THEN {} ELSE InScope(f, known.escapes \cup unknown)]

-----------------------------------------------------------------------------
(* Execution. *)

Top == stack[Len(stack)]
Member(o) == IF o = None THEN None ELSE objects[o].next

\* the object a place denotes, None where a step of the path does not exist
Value(p) ==
    IF p = Constant THEN None
    ELSE CASE p.depth = 0 -> Top.env[p.local]
           [] p.depth = 1 -> Member(Top.env[p.local])

\* the object a projected assignment writes into
Owner(p) ==
    IF p.depth = 1 THEN Top.env[p.local] ELSE Member(Top.env[p.local])

Bind(l, o) == stack' = [stack EXCEPT ![Len(stack)].env[l] = o]

EmptyFrame(f) == [fn |-> f, env |-> [l \in Locals |-> None], result |-> None]

Init ==
    /\ outline \in Outlines
    /\ code = [f \in Functions |-> {}]
    /\ objects = <<>>
    /\ stack = <<EmptyFrame(Main)>>

Construct(o) ==
    /\ o.kind = "struct"
    /\ Len(objects) < MaxObjects
    /\ objects' = Append(objects,
           [fn |-> Top.fn, site |-> o, frame |-> Len(stack), next |-> Value(o.value)])
    /\ Bind(o.to.local, Len(objects) + 1)

Copy(o) ==
    /\ o.kind = "copy"
    /\ Bind(o.to.local, Value(o.value))
    /\ UNCHANGED objects

\* a store into the member of the object the path reaches, of a struct or,
\* where the analysis has given up, of a container
Store(o) ==
    /\ o.kind \in {"assign", "retain"}
    /\ LET owner == IF o.kind = "assign" THEN Owner(o.to) ELSE Value(o.to)
       IN  /\ owner # None
           /\ objects' = [objects EXCEPT ![owner].next = Value(o.value)]
    /\ UNCHANGED stack

Call(o) ==
    /\ o.kind = "call"
    /\ Len(stack) < MaxFrames
    /\ stack' = Append(stack,
           [EmptyFrame(o.callee) EXCEPT !.env[Param] = Value(o.value),
                                        !.result = o.to.local])
    /\ UNCHANGED objects

\* the frame goes, and with it the scoped storage of its allocations
Popped(value) ==
    LET caller == Len(stack) - 1
    IN  [SubSeq(stack, 1, caller) EXCEPT ![caller].env[Top.result] = value]

Return(o) ==
    /\ o.kind = "return"
    /\ Len(stack) > 1
    /\ stack' = Popped(Value(o.value))
    /\ objects' = [i \in 1..Len(objects) |->
           IF objects[i].frame = Len(stack) THEN [objects[i] EXCEPT !.frame = 0]
           ELSE objects[i]]

\* the bound leaves every function a return of unit
UnitReturn == Operation("return", Constant, Constant, None)

Run(o) ==
    /\ \/ o \in code[Top.fn] \cup {UnitReturn}
       \/ Cardinality(code[Top.fn] \ {UnitReturn}) < outline.room[Top.fn]
    /\ code' = [code EXCEPT ![Top.fn] = @ \cup {o}]
    /\ UNCHANGED outline
    /\ Construct(o) \/ Copy(o) \/ Store(o) \/ Call(o) \/ Return(o)

Next == \E o \in Operations(Top.fn) : Run(o)

Spec == Init /\ [][Next]_vars

-----------------------------------------------------------------------------
(* Properties. *)

EscapeTypeOK ==
    /\ \A i \in 1..Len(objects) :
          /\ objects[i].next \in {None} \cup 1..Len(objects)
          /\ objects[i].frame \in 0..Len(stack)
    /\ \A i \in 1..Len(stack) :
          \A l \in Locals : stack[i].env[l] \in {None} \cup 1..Len(objects)

\* what the active frames can still reach
Held ==
    LET grow(held) == held \cup {Member(o) : o \in held}
        bound == {f.env[l] : f \in {stack[i] : i \in 1..Len(stack)}, l \in Locals}
    IN  Iterated(grow, bound, MaxObjects) \ {None}

Scoped == LET plan == Plan IN {o \in 1..Len(objects) : objects[o].site \in plan[objects[o].fn]}

\* DESIGN.md: the scoped arena is for allocations proven not to outlive the
\* current function.  No object of a call that has returned, still reachable,
\* was placed in the scoped arena (escape.rs analyze).
ScopedDoesNotOutliveCall ==
    LET returned == {o \in Held : objects[o].frame = 0}
    IN  returned = {} \/ returned \cap Scoped = {}

\* the locals of f that hold, or copy, a reference read out of a member
ReadOut(f) ==
    LET grow(ls) == ls \cup {o.to.local : o \in {o \in OfKind(f, {"copy"}) :
                                o.value.depth = 1 \/ o.value.local \in ls}}
    IN  Iterated(grow, {}, Cardinality(Locals))

\* every projected assignment of the program writes into the object its base
\* local was bound to, not into one read out of a member of another object
StoresAreDirect ==
    \A f \in Functions : \A o \in OfKind(f, {"assign"}) :
        o.to.depth = 1 /\ o.to.local \notin ReadOut(f)

\* In a program whose stores are direct the placement is sound, whatever is
\* copied, loaded, returned, passed down a chain of calls, kept by a recursive
\* function or retained by a container (escape.rs analyse_function, analyze).
DirectlyStoredSound == EscapeTypeOK /\ (StoresAreDirect => ScopedDoesNotOutliveCall)

\* ... and no object of the collected heap ever refers to a scoped one, not
\* even while the call that allocated it is active: a collection never has to
\* keep scoped storage alive (escape.rs, the closure of escaped over edges).
CollectedHoldsNoScoped ==
    StoresAreDirect /\ (\E o \in Held : objects[o].next # None) =>
        LET scoped == Scoped
        IN  \A o \in Held \ scoped : objects[o].next \notin scoped

=============================================================================
