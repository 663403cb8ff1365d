------------------------- MODULE BalancedExecution -------------------------
(***************************************************************************)
(* What acceptance by IterationBalance promises: the C emitted for a       *)
(* function locks and unlocks the containers its temporaries hold, along   *)
(* whatever path it takes, and finds each of them locked, and as long as it*)
(* was when its iteration began.  Temporaries may hold the same container, *)
(* and callers may be iterating over it, too.                              *)
(***************************************************************************)
EXTENDS IterationBalance, FiniteSets

CONSTANTS
  Containers,
  MaxLocks,     \* UINT64_MAX, the largest lock_count
  OuterLocks,   \* the lock_counts that loops of the callers may leave
  Lengths,      \* the lengths containers may have
  Positions     \* the values an index operand may have

ASSUME ContainerAssumption ==
  /\ Containers # {}
  /\ MaxLocks \in Nat /\ OuterLocks \subseteq 0 .. MaxLocks
  /\ Lengths \subseteq Nat /\ Positions \subseteq Int

VARIABLES
  stage,      \* "compiling", "running", "returned", "stopped" by a panic, or the
              \* invariant that failed: "unlocked", "overlocked" or "outside"
  at, index,  \* the block that executes, and its next operation
  value,      \* the container each temporary holds
  locks,      \* lock_count of each container
  length,     \* length of each container
  outer,      \* history: lock_count of each container when the function was called
  held,       \* history: the containers that begin_iteration locked, innermost last
  began,      \* history: the lengths they had then
  position    \* history: the index that iteration_value found outside

containers == <<value, locks, length, held, began>>
execution == <<stage, at, index, containers, outer, position>>
vars == <<balanceVars, execution>>

\* The containers an operand may be when it is evaluated.
Evaluated(operand) == IF operand = other THEN Containers ELSE {value[operand]}

\* The element or result an operation writes may be any container, too.
Written(to) ==
  IF to = other THEN {value} ELSE {[value EXCEPT ![to] = c] : c \in Containers}

LengthsRegardless == [Containers -> Lengths]   \* mutation: the lock is not checked

\* The lengths that appends, inserts and removals may leave: their own checks
\* stop the program where the container is locked.
Relengthened ==
  {l \in [Containers -> Lengths] : \A c \in Containers : locks[c] # 0 => l[c] = length[c]}

\* A call of the accepted function: its callers may be iterating over containers.
Start ==
  /\ stage = "compiling" /\ verdict = "accepted"
  /\ stage' = "running"
  /\ value' \in [Temporaries -> Containers]
  /\ length' \in [Containers -> Lengths]
  /\ outer' \in [Containers -> OuterLocks] /\ locks' = outer'
  /\ UNCHANGED <<balanceVars, at, index, held, began, position>>

Executing(kind) ==
  /\ stage = "running" /\ index <= Len(Operations(at))
  /\ Operations(at)[index].kind = kind
  /\ UNCHANGED <<balanceVars, outer>>

Operand == Operations(at)[index].iterable

\* sao2_compiler_invariant ends the program.
Fails(invariant) ==
  /\ stage' = invariant
  /\ UNCHANGED <<at, index, containers>>

Continues ==
  /\ index' = index + 1
  /\ UNCHANGED <<stage, at, position>>

BeginIteration ==
  /\ Executing("begin")
  /\ \E c \in Evaluated(Operand) :
       \/ locks[c] = MaxLocks /\ Fails("overlocked") /\ UNCHANGED position
       \/ /\ locks[c] # MaxLocks
          /\ locks' = [locks EXCEPT ![c] = @ + 1]
          /\ held' = Append(held, c) /\ began' = Append(began, length[c])
          /\ UNCHANGED <<value, length>>
          /\ Continues

IterationValue ==
  /\ Executing("value")
  /\ \E c \in Evaluated(Operand), i \in Positions :
       \/ locks[c] = 0 /\ Fails("unlocked") /\ UNCHANGED position
       \/ /\ locks[c] # 0 /\ (i < 0 \/ i >= length[c])
          /\ Fails("outside") /\ position' = i
       \/ /\ locks[c] # 0 /\ i >= 0 /\ i < length[c]
          /\ value' \in Written(Operations(at)[index].to)
          /\ UNCHANGED <<locks, length, held, began>>
          /\ Continues

EndIteration ==
  /\ Executing("end")
  /\ \E c \in Evaluated(Operand) :
       \/ locks[c] = 0 /\ Fails("unlocked") /\ UNCHANGED position
       \/ /\ locks[c] # 0
          /\ locks' = [locks EXCEPT ![c] = @ - 1]
          /\ held' = Popped(held) /\ began' = Popped(began)
          /\ UNCHANGED <<value, length>>
          /\ Continues

\* Every other operation, structural changes and calls among them.
OtherOperation ==
  /\ Executing("other")
  /\ value' \in Written(Operations(at)[index].to)
  /\ length' \in Relengthened
  /\ UNCHANGED <<locks, held, began>>
  /\ Continues

\* A check fails, of a lock or another, or a callee panics.
Panic ==
  /\ Executing("other")
  /\ stage' = "stopped"
  /\ UNCHANGED <<at, index, containers, position>>

AtTerminator ==
  /\ stage = "running" /\ index = Terminator(at)
  /\ UNCHANGED <<balanceVars, containers, outer, position>>

Goto ==
  /\ AtTerminator
  /\ \E n \in DOMAIN Targets(at) : at' = Targets(at)[n]
  /\ index' = 1
  /\ UNCHANGED stage

Leave ==
  /\ AtTerminator
  /\ \/ function[at].exit = "return" /\ stage' = "returned"
     \/ function[at].exit = "stop" /\ stage' = "stopped"
  /\ UNCHANGED <<at, index>>

Execute ==
  \/ Start \/ BeginIteration \/ IterationValue \/ EndIteration
  \/ OtherOperation \/ Panic \/ Goto \/ Leave

-----------------------------------------------------------------------------
Init ==
  /\ BalanceInit
  /\ stage = "compiling" /\ at = Entry /\ index = 1
  /\ value = <<>> /\ locks = <<>> /\ length = <<>> /\ outer = <<>>
  /\ held = <<>> /\ began = <<>> /\ position = 0

Next == (Validate /\ UNCHANGED execution) \/ Execute

Spec == Init /\ [][Next]_vars

-----------------------------------------------------------------------------
(* Properties. *)

Failures == {"unlocked", "overlocked", "outside"}

\* Every variable stays within its type.
TypeOK ==
  /\ BalanceTypeOK
  /\ stage \in {"compiling", "running", "returned", "stopped"} \cup Failures
  /\ at \in Blocks /\ index \in 1 .. Terminator(at)
  /\ held \in Seq(Containers) /\ began \in Seq(Lengths) /\ position \in Int
  /\ stage # "compiling" =>
       /\ value \in [Temporaries -> Containers]
       /\ locks \in [Containers -> Nat] /\ length \in [Containers -> Lengths]
       /\ outer \in [Containers -> OuterLocks]

\* iteration_value and end_iteration never find the lock_count of their container
\* zero in an accepted function: what they check first does not fail.
NeverUnlocked == stage # "unlocked"

\* How often the function has locked a container it still holds.
Count(s, c) == Cardinality({n \in DOMAIN s : s[n] = c})

\* The validator knows neither indices nor what the callers lock, and the other
\* invariants of an iteration may fail, but for reasons from outside of it alone:
\* begin_iteration's once the callers and the loops of this function hold the
\* container MaxLocks times; iteration_value's for an index that was outside of
\* the container already when the innermost iteration began.  So an index that was
\* inside then is inside still, whatever was called or changed in between.
FailuresFromOutside ==
  /\ stage = "overlocked" =>
       \E c \in Containers : outer[c] + Count(held, c) = MaxLocks
  /\ stage = "outside" =>
       held # <<>> /\ position \notin 0 .. began[Len(began)] - 1

\* What acceptance promises of the invariants that begin_iteration, iteration_value
\* and end_iteration check: no more than these two.
IterationInvariants == NeverUnlocked /\ FailuresFromOutside

\* Along every path, the containers that are locked are those which the
\* validator's temporaries hold now, in its order: the one an iteration ends is
\* the one it began, although its temporary is evaluated again.
HeldAsValidated ==
  stage \in {"running", "returned"} =>
    LET stack == before[at][index] IN
    /\ Len(held) = Len(stack)
    /\ \A n \in DOMAIN held : held[n] = value[stack[n]]

\* iteration_value reads the container that the innermost iteration locked.
ValueOfInnermost ==
  (stage = "running" /\ index <= Len(Operations(at)) /\ Operations(at)[index].kind = "value") =>
    held # <<>> /\ Operand \in Temporaries /\ held[Len(held)] = value[Operand]

\* A function that returns has unlocked every container as often as it locked it:
\* the locks that are left are those of its callers.
ReturnsUnlocked ==
  stage = "returned" => \A c \in Containers : locks[c] = outer[c]

-----------------------------------------------------------------------------
(* The inductive invariant. *)

\* Each container held is as often locked as it is held, and as long as it was.
LocksExact == \A c \in Containers : locks[c] = outer[c] + Count(held, c)
LengthsKept ==
  Len(began) = Len(held) /\ \A n \in DOMAIN held : began[n] = length[held[n]]

ExecutionInv ==
  /\ ValidatorInv /\ TypeOK
  /\ stage = "compiling" => at = Entry /\ index = 1 /\ held = <<>> /\ began = <<>>
  /\ stage # "compiling" =>
       verdict = "accepted" /\ states[at] # unreached /\ LocksExact /\ LengthsKept
  /\ stage = "returned" => function[at].exit = "return" /\ index = Terminator(at)
  /\ NeverUnlocked /\ FailuresFromOutside /\ HeldAsValidated
=============================================================================
