-------------------------- MODULE IterationBalance --------------------------
(***************************************************************************)
(* validate_iteration_balance of ir.rs: before C is emitted, the validator *)
(* follows every path of a function's blocks with the stack of iterations  *)
(* active on it, and rejects the function if they may not balance.         *)
(*                                                                         *)
(* An operation is known by its kind, the operand it iterates over and the *)
(* local it writes.  Only temporaries that hold a list or map matter;      *)
(* other stands for every other operand and destination.                   *)
(***************************************************************************)
EXTENDS Integers, Sequences

CONSTANTS
  Blocks, Entry,
  Temporaries,   \* the function's temporaries whose type is a list or a map
  other,         \* any other operand: constant, projected, or no temporary
  unreached,     \* a block no path has come to yet
  Functions      \* the functions to validate

Operands == Temporaries \cup {other}
Operation ==
  {o \in [kind : {"begin", "value", "end", "other"}, iterable : Operands, to : Operands] :
     o.kind \in {"begin", "end"} => o.to = other}

\* A block ends by going to its targets (jump, branch or switch), by a return,
\* or by stopping the program.
BasicBlock == [operations : Seq(Operation), exit : {"goto", "return", "stop"},
               targets : Seq(Blocks)]

ASSUME BalanceAssumption ==
  /\ Entry \in Blocks /\ other \notin Temporaries
  /\ unreached \notin Seq(Temporaries)
  /\ Functions \subseteq [Blocks -> BasicBlock]
  /\ \A f \in Functions, b \in Blocks :
       f[b].exit = "goto" <=> f[b].targets # <<>>

VARIABLES
  function,
  states,     \* the active iterations at the start of each block
  worklist, next,
  block, site, active,   \* the block under way, its next step, and the stack there
  before,     \* history: the stack before each operation of a block
  verdict

validator == <<states, worklist, next, block, site, active, before, verdict>>
balanceVars == <<function, validator>>

Operations(b) == function[b].operations
Targets(b) == function[b].targets

\* The steps of a block: its operations, its terminator, then its successors.
Terminator(b) == Len(Operations(b)) + 1

-----------------------------------------------------------------------------
\* operation_destination_local against the stack.
Overwrites(op, stack) == op.to # other /\ \E n \in DOMAIN stack : stack[n] = op.to

\* require_stabilized_iteration_operand
Stabilized(op) == op.iterable \in Temporaries

Innermost(op, stack) == stack # <<>> /\ stack[Len(stack)] = op.iterable
Popped(stack) == SubSeq(stack, 1, Len(stack) - 1)

LegalOverwriting(op, stack) ==   \* mutation: active temporaries may be overwritten
  /\ op.kind \in {"begin", "value", "end"} => Stabilized(op)
  /\ op.kind \in {"value", "end"} => Innermost(op, stack)

\* transfer_iteration_operation: what it accepts, and the stack it leaves.
Legal(op, stack) ==
  /\ ~Overwrites(op, stack)
  /\ op.kind \in {"begin", "value", "end"} => Stabilized(op)
  /\ op.kind \in {"value", "end"} => Innermost(op, stack)

After(op, stack) ==
  CASE op.kind = "begin" -> Append(stack, op.iterable)
    [] op.kind = "end"   -> Popped(stack)
    [] OTHER             -> stack

-----------------------------------------------------------------------------
Fail == /\ verdict' = "rejected"
        /\ UNCHANGED <<function, states, worklist, next, block, site, active, before>>

TakeBlock ==
  /\ verdict = "running" /\ site = 0 /\ next < Len(worklist)
  /\ next' = next + 1
  /\ block' = worklist[next'] /\ active' = states[block'] /\ site' = 1
  /\ UNCHANGED <<function, states, worklist, before, verdict>>

TransferOperation ==
  /\ verdict = "running" /\ site \in 1 .. Len(Operations(block))
  /\ LET op == Operations(block)[site] IN
     \/ /\ Legal(op, active)
        /\ active' = After(op, active) /\ site' = site + 1
        /\ before' = [before EXCEPT ![block] = Append(@, active)]
        /\ UNCHANGED <<function, states, worklist, next, block, verdict>>
     \/ ~Legal(op, active) /\ Fail

LeaveUnchecked ==   \* mutation: returns are not checked
  /\ verdict = "running" /\ site = Terminator(block)
  /\ site' = site + 1
  /\ before' = [before EXCEPT ![block] = Append(@, active)]
  /\ UNCHANGED <<function, states, worklist, next, block, active, verdict>>

\* The terminator: a return must leave no iteration active.
LeaveOperations ==
  /\ verdict = "running" /\ site = Terminator(block)
  /\ \/ /\ function[block].exit = "return" => active = <<>>
        /\ site' = site + 1
        /\ before' = [before EXCEPT ![block] = Append(@, active)]
        /\ UNCHANGED <<function, states, worklist, next, block, active, verdict>>
     \/ function[block].exit = "return" /\ active # <<>> /\ Fail

\* One iteration of the loop over the successors: a join of equal stacks.
Target == Targets(block)[site - Terminator(block)]
AtSuccessor ==
  /\ verdict = "running" /\ site > Terminator(block)
  /\ site <= Terminator(block) + Len(Targets(block))

JoinUnequal ==   \* mutation: the first path to a block decides its stack
  /\ AtSuccessor
  /\ site' = site + 1
  /\ \/ /\ states[Target] = unreached
        /\ states' = [states EXCEPT ![Target] = active]
        /\ worklist' = Append(worklist, Target)
     \/ states[Target] # unreached /\ UNCHANGED <<states, worklist>>
  /\ UNCHANGED <<function, next, block, active, before, verdict>>

JoinSuccessor ==
  /\ AtSuccessor
  /\ \/ /\ states[Target] = unreached
        /\ states' = [states EXCEPT ![Target] = active]
        /\ worklist' = Append(worklist, Target) /\ site' = site + 1
        /\ UNCHANGED <<function, next, block, active, before, verdict>>
     \/ /\ states[Target] = active
        /\ site' = site + 1
        /\ UNCHANGED <<function, states, worklist, next, block, active, before, verdict>>
     \/ states[Target] \notin {unreached, active} /\ Fail

FinishBlock ==
  /\ verdict = "running" /\ site = Terminator(block) + Len(Targets(block)) + 1
  /\ site' = 0
  /\ UNCHANGED <<function, states, worklist, next, block, active, before, verdict>>

Accept ==
  /\ verdict = "running" /\ site = 0 /\ next = Len(worklist)
  /\ verdict' = "accepted"
  /\ UNCHANGED <<function, states, worklist, next, block, site, active, before>>

-----------------------------------------------------------------------------
BalanceInit ==
  /\ function \in Functions
  /\ states = [b \in Blocks |-> IF b = Entry THEN <<>> ELSE unreached]
  /\ worklist = <<Entry>> /\ next = 0
  /\ block = Entry /\ site = 0 /\ active = <<>>
  /\ before = [b \in Blocks |-> <<>>]
  /\ verdict = "running"

Validate ==
  TakeBlock \/ TransferOperation \/ LeaveOperations \/ JoinSuccessor \/ FinishBlock \/ Accept

-----------------------------------------------------------------------------
(* Properties. *)

\* Every variable stays within its type.
BalanceTypeOK ==
  /\ function \in Functions
  /\ states \in [Blocks -> Seq(Temporaries) \cup {unreached}]
  /\ worklist \in Seq(Blocks) /\ next \in 0 .. Len(worklist)
  /\ block \in Blocks /\ site \in Nat /\ active \in Seq(Temporaries)
  /\ before \in [Blocks -> Seq(Seq(Temporaries))]
  /\ verdict \in {"running", "accepted", "rejected"}

\* However a function's blocks loop and join, each goes onto the work list only on
\* the first path that comes to it: validation takes no more blocks than there are.
WorklistOnce ==
  \A m, n \in DOMAIN worklist : worklist[m] = worklist[n] => m = n

-----------------------------------------------------------------------------
(* The inductive invariant of the validator. *)

\* What is known of a block of which k operations' stacks are recorded.
Chain(b, k) ==
  /\ Len(before[b]) = k
  /\ k > 0 => before[b][1] = states[b]
  /\ \A i \in 1 .. k - 1 :
       /\ Legal(Operations(b)[i], before[b][i])
       /\ before[b][i + 1] = After(Operations(b)[i], before[b][i])

\* A block is balanced where it ends, and with the blocks it goes to.
Balanced(b) ==
  /\ Chain(b, Terminator(b))
  /\ function[b].exit = "return" => before[b][Terminator(b)] = <<>>
  /\ \A n \in DOMAIN Targets(b) : states[Targets(b)[n]] = before[b][Terminator(b)]

Taken == {worklist[n] : n \in 1 .. next}
Done == Taken \ (IF site = 0 THEN {} ELSE {block})

WorklistExact ==
  /\ WorklistOnce
  /\ \A b \in Blocks : states[b] # unreached <=> \E n \in DOMAIN worklist : worklist[n] = b
  /\ site # 0 => next > 0 /\ block = worklist[next]
  /\ \A b \in Blocks \ Taken : before[b] = <<>>

UnderWay ==
  /\ site \in 1 .. Terminator(block) =>
       /\ Chain(block, site - 1)
       /\ site = 1 => active = states[block]
       /\ site > 1 => LET op == Operations(block)[site - 1] IN
                        /\ Legal(op, before[block][site - 1])
                        /\ active = After(op, before[block][site - 1])
  /\ site > Terminator(block) =>
       /\ site <= Terminator(block) + Len(Targets(block)) + 1
       /\ Chain(block, Terminator(block))
       /\ active = before[block][Terminator(block)]
       /\ function[block].exit = "return" => active = <<>>
       /\ \A n \in 1 .. site - Terminator(block) - 1 : states[Targets(block)[n]] = active

ValidatorInv ==
  /\ BalanceTypeOK /\ WorklistExact /\ UnderWay
  /\ states[Entry] = <<>>
  /\ \A b \in Done : Balanced(b)
  /\ verdict = "accepted" => site = 0 /\ next = Len(worklist)
=============================================================================
