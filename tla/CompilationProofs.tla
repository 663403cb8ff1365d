------------------------- MODULE CompilationProofs -------------------------
(***************************************************************************)
(* For every function, set of containers and path: what the validator      *)
(* accepts unlocks what it locked.  The validator's records, before, are   *)
(* an annotation that each accepted block satisfies; the execution is then *)
(* related to the annotation of the block it is in.                        *)
(*                                                                         *)
(* For every program of every length: a narrowed read has a temporary, and *)
(* that holds the payload of now unless an assignment was carried around a *)
(* loop or hidden in an expression.  Each token of the program being       *)
(* compiled is annotated with what is known of the temporaries before and  *)
(* behind it; the passes, which keep only what the statements they are     *)
(* inside of will restore, are related to the annotation, and the          *)
(* execution to the annotation of the token it is at.                      *)
(***************************************************************************)
EXTENDS Compilation, FiniteSetTheorems, SequenceTheorems, WellFoundedInduction, TLAPS

-----------------------------------------------------------------------------
(* Types, stacks and records. *)

\* What a block consists of.
LEMMA BlockFacts ==
  ASSUME BalanceTypeOK, NEW b \in Blocks
  PROVE  /\ Operations(b) \in Seq(Operation) /\ Len(Operations(b)) \in Nat
         /\ Targets(b) \in Seq(Blocks) /\ Len(Targets(b)) \in Nat
         /\ Terminator(b) = Len(Operations(b)) + 1
         /\ Terminator(b) \in Nat
         /\ function[b].exit \in {"goto", "return", "stop"}
         /\ function[b].exit = "return" => Targets(b) = <<>>
<1>1. function \in [Blocks -> BasicBlock] /\ (function[b].exit = "goto" <=> Targets(b) # <<>>)
  BY BalanceAssumption DEF BalanceTypeOK, Targets
<1>2. function[b] \in BasicBlock
  BY <1>1
<1>3. /\ Operations(b) \in Seq(Operation) /\ Targets(b) \in Seq(Blocks)
      /\ function[b].exit \in {"goto", "return", "stop"}
  BY <1>2 DEF BasicBlock, Operations, Targets
<1>4. QED BY <1>1, <1>3 DEF Terminator

\* The operations of a block.
LEMMA OperationFacts ==
  ASSUME NEW op \in Operation
  PROVE  /\ op.kind \in {"begin", "value", "end", "other"}
         /\ op.iterable \in Temporaries \cup {other} /\ op.to \in Temporaries \cup {other}
         /\ op.kind \in {"begin", "end"} => op.to = other
BY DEF Operation, Operands

\* A legal operation leaves a stack of temporaries.
LEMMA AfterType ==
  ASSUME NEW op \in Operation, NEW stack \in Seq(Temporaries), Legal(op, stack)
  PROVE  After(op, stack) \in Seq(Temporaries)
<1>1. CASE op.kind = "begin"
  <2>1. op.iterable \in Temporaries
    BY <1>1 DEF Legal, Stabilized
  <2>2. QED BY <1>1, <2>1 DEF After
<1>2. CASE op.kind = "end"
  <2>1. stack # <<>>
    BY <1>2 DEF Legal, Innermost
  <2>2. SubSeq(stack, 1, Len(stack) - 1) \in Seq(Temporaries)
    BY <2>1
  <2>3. QED BY <1>2, <2>2 DEF After, Popped
<1>3. CASE op.kind \notin {"begin", "end"}
  BY <1>3 DEF After
<1>4. QED BY <1>1, <1>2, <1>3

\* A record stays good while the block and its first stack stay.
LEMMA ChainFrame ==
  ASSUME NEW b \in Blocks, NEW k \in Nat, Chain(b, k),
         function' = function, before'[b] = before[b], states'[b] = states[b]
  PROVE  Chain(b, k)'
BY DEF Chain, Operations

\* A block stays balanced when paths come to others.
LEMMA BalancedFrame ==
  ASSUME NEW b \in Blocks, Balanced(b), BalanceTypeOK,
         function' = function, before'[b] = before[b],
         \A c \in Blocks : states[c] # unreached => states'[c] = states[c]
  PROVE  Balanced(b)'
<1>1. Terminator(b)' = Terminator(b) /\ Targets(b)' = Targets(b)
  BY DEF Terminator, Targets, Operations
<1>2. before[b] \in Seq(Seq(Temporaries)) /\ Len(before[b]) = Terminator(b) /\ Terminator(b) \in 1 .. Terminator(b)
  BY BlockFacts DEF Balanced, Chain, BalanceTypeOK
<1>3. /\ before[b][Terminator(b)] \in Seq(Temporaries) /\ before[b][Terminator(b)] # unreached
      /\ before[b][1] \in Seq(Temporaries)
  BY <1>2, BlockFacts, BalanceAssumption
<1>4. states[b] \in Seq(Temporaries) /\ states[b] # unreached
  BY <1>2, <1>3, BlockFacts, BalanceAssumption DEF Balanced, Chain
<1>5. Chain(b, Terminator(b))'
  BY <1>1, <1>4, ChainFrame, BlockFacts DEF Balanced
<1>6. ASSUME NEW n \in DOMAIN Targets(b)
      PROVE  states'[Targets(b)[n]] = before[b][Terminator(b)]
  <2>1. Targets(b)[n] \in Blocks
    BY BlockFacts
  <2>2. states[Targets(b)[n]] = before[b][Terminator(b)]
    BY DEF Balanced
  <2>3. QED BY <1>3, <2>1, <2>2
<1>7. QED BY <1>1, <1>5, <1>6 DEF Balanced

-----------------------------------------------------------------------------
(* The validator. *)

\* Before any block is taken nothing is recorded.
LEMMA ValidatorInit == BalanceInit => ValidatorInv
<1> SUFFICES ASSUME BalanceInit PROVE ValidatorInv OBVIOUS
<1> USE DEF BalanceInit
<1>1. BalanceTypeOK
  BY BalanceAssumption DEF BalanceTypeOK
<1>2. Taken = {} /\ Done = {}
  BY DEF Taken, Done
<1>3. WorklistExact
  <2>1. Len(worklist) = 1 /\ DOMAIN worklist = {1} /\ worklist[1] = Entry
    OBVIOUS
  <2>2. \A b \in Blocks : states[b] # unreached <=> b = Entry
    <3>1. <<>> \in Seq(Temporaries)
      OBVIOUS
    <3>2. unreached # <<>>
      BY <3>1, BalanceAssumption
    <3>3. QED BY <3>2, BalanceAssumption
  <2>3. WorklistOnce
    BY <2>1 DEF WorklistOnce
  <2>4. \A b \in Blocks : states[b] # unreached <=> \E n \in DOMAIN worklist : worklist[n] = b
    BY <2>1, <2>2
  <2>5. QED BY <1>2, <2>3, <2>4 DEF WorklistExact
<1>4. UnderWay
  <2>1. Terminator(block) \in Nat
    BY <1>1, BlockFacts, BalanceAssumption
  <2>2. ~ site \in 1 .. Terminator(block) /\ ~ site > Terminator(block)
    BY <2>1
  <2>3. QED BY <2>2 DEF UnderWay
<1>5. QED BY <1>1, <1>2, <1>3, <1>4, BalanceAssumption DEF ValidatorInv

\* The block under way has been reached, and only one place of the work list is its.
LEMMA UnderWayFacts ==
  ASSUME ValidatorInv, site # 0
  PROVE  /\ block \in Taken /\ next \in 1 .. Len(worklist)
         /\ states[block] # unreached /\ states[block] \in Seq(Temporaries)
         /\ block \in Blocks /\ before[block] \in Seq(Seq(Temporaries))
BY DEF ValidatorInv, WorklistExact, BalanceTypeOK, Taken

\* Recording the stack before the next operation continues the record.
LEMMA RecordStep ==
  ASSUME ValidatorInv, site \in 1 .. Terminator(block),
         before' = [before EXCEPT ![block] = Append(@, active)],
         UNCHANGED <<function, states>>,
         NEW b, b = block, NEW k, k = site
  PROVE  /\ Chain(b, k)' /\ before'[b][k] = active
         /\ before' \in [Blocks -> Seq(Seq(Temporaries))]
         /\ \A c \in Blocks \ {b} : before'[c] = before[c]
<1>1. /\ b \in Blocks /\ before[b] \in Seq(Seq(Temporaries)) /\ active \in Seq(Temporaries)
      /\ before \in [Blocks -> Seq(Seq(Temporaries))] /\ k \in Nat \ {0}
      /\ site # 0
  BY BlockFacts DEF ValidatorInv, BalanceTypeOK
<1>2. Chain(b, k - 1)
  BY DEF ValidatorInv, UnderWay
<1>3. before'[b] = Append(before[b], active)
  BY <1>1
<1>4. /\ Len(before'[b]) = k /\ before'[b][k] = active
      /\ \A i \in 1 .. k - 1 : before'[b][i] = before[b][i]
  BY <1>1, <1>2, <1>3 DEF Chain
<1>5. before'[b][1] = states[b]
  <2>1. CASE k = 1
    BY <1>4, <2>1 DEF ValidatorInv, UnderWay
  <2>2. CASE k > 1
    BY <1>1, <1>2, <1>4, <2>2 DEF Chain
  <2>3. QED BY <1>1, <2>1, <2>2
<1>6. ASSUME NEW i \in 1 .. k - 1
      PROVE  /\ Legal(Operations(b)[i], before'[b][i])
             /\ before'[b][i + 1] = After(Operations(b)[i], before'[b][i])
  <2>1. CASE i < k - 1
    <3>1. i \in 1 .. (k - 1) - 1 /\ i + 1 \in 1 .. k - 1
      BY <1>1, <2>1
    <3>2. QED BY <1>2, <1>4, <3>1 DEF Chain
  <2>2. CASE i = k - 1
    <3>1. k > 1 /\ i + 1 = k
      BY <1>1, <2>2
    <3>2. /\ Legal(Operations(block)[site - 1], before[block][site - 1])
          /\ active = After(Operations(block)[site - 1], before[block][site - 1])
      BY <3>1 DEF ValidatorInv, UnderWay
    <3>3. before'[b][i] = before[b][i]
      BY <1>4
    <3>4. QED BY <1>4, <2>2, <3>1, <3>2, <3>3
  <2>3. i < k - 1 \/ i = k - 1
    BY <1>1
  <2>4. QED BY <2>1, <2>2, <2>3
<1>7. Operations(b)' = Operations(b)
  BY DEF Operations
<1>8. Chain(b, k)'
  BY <1>4, <1>5, <1>6, <1>7 DEF Chain
<1>9. QED BY <1>1, <1>3, <1>4, <1>8

\* The invariant speaks of the verdict only where it is "accepted".
LEMMA VerdictStep ==
  ASSUME ValidatorInv, verdict' \in {"running", "accepted", "rejected"},
         UNCHANGED <<function, states, worklist, next, block, site, active, before>>,
         verdict' = "accepted" => site = 0 /\ next = Len(worklist)
  PROVE  ValidatorInv'
<1>1. BalanceTypeOK'
  BY DEF ValidatorInv, BalanceTypeOK
<1>2. /\ \A b \in Blocks : Targets(b)' = Targets(b) /\ Terminator(b)' = Terminator(b)
                            /\ Operations(b)' = Operations(b)
      /\ Taken' = Taken /\ Done' = Done
  BY DEF Targets, Terminator, Operations, Taken, Done
<1>3. WorklistExact'
  BY <1>2 DEF ValidatorInv, WorklistExact, WorklistOnce
<1>4. ASSUME NEW b \in Blocks, NEW k PROVE Chain(b, k)' = Chain(b, k)
  BY DEF Chain, Operations
<1>5. UnderWay'
  <2>1. block \in Blocks
    BY DEF ValidatorInv, BalanceTypeOK
  <2>2. QED BY <1>2, <1>4, <2>1 DEF ValidatorInv, UnderWay
<1>6. \A b \in Done : Balanced(b)'
  <2>1. Done \subseteq Blocks
    BY DEF ValidatorInv, BalanceTypeOK, Taken, Done
  <2>2. QED BY <2>1, BalancedFrame DEF ValidatorInv
<1>7. QED BY <1>1, <1>2, <1>3, <1>5, <1>6 DEF ValidatorInv

\* Taking the next block of the work list.
LEMMA TakeStep ==
  ASSUME ValidatorInv, TakeBlock
  PROVE  ValidatorInv'
<1> USE DEF TakeBlock
<1>1. /\ next' = next + 1 /\ next' \in 1 .. Len(worklist) /\ block' = worklist[next']
      /\ block' \in Blocks /\ site = 0 /\ site' = 1
      /\ UNCHANGED <<function, states, worklist, before, verdict>>
      /\ next \in Nat /\ active' = states[block']
  BY DEF ValidatorInv, BalanceTypeOK
<1>2. states[block'] \in Seq(Temporaries)
  BY <1>1 DEF ValidatorInv, BalanceTypeOK, WorklistExact
<1>3. BalanceTypeOK'
  BY <1>1, <1>2 DEF ValidatorInv, BalanceTypeOK
<1>4. block' \notin Taken /\ Taken' = Taken \cup {block'}
  <2>1. 1 .. next' = (1 .. next) \cup {next'}
    BY <1>1
  <2>2. Taken' = {worklist[n] : n \in 1 .. next'}
    BY <1>1 DEF Taken
  <2>3. \A n \in 1 .. next : n \in DOMAIN worklist /\ worklist[n] # worklist[next']
    BY <1>1 DEF ValidatorInv, BalanceTypeOK, WorklistExact, WorklistOnce
  <2>4. QED BY <1>1, <2>1, <2>2, <2>3 DEF Taken
<1>5. Done' = Done
  BY <1>1, <1>4 DEF Done
<1>6. WorklistExact'
  BY <1>1, <1>4 DEF ValidatorInv, WorklistExact, WorklistOnce
<1>7. Terminator(block)' \in Nat
  BY <1>1, BlockFacts DEF ValidatorInv, Terminator, Operations
<1>8. UnderWay'
  <2>1. before'[block'] = <<>>
    BY <1>1, <1>4 DEF ValidatorInv, WorklistExact
  <2>2. Terminator(block)' >= 1
    BY <1>1, BlockFacts DEF ValidatorInv, Terminator, Operations
  <2>3. /\ site' = 1 /\ Len(before'[block']) = 0 /\ active' = states'[block']
    BY <1>1, <2>1
  <2>4. Chain(block, site - 1)'
    BY <2>3 DEF Chain
  <2>5. QED BY <1>7, <2>2, <2>3, <2>4 DEF UnderWay
<1>9. \A b \in Done : Balanced(b)'
  <2>1. Done \subseteq Blocks
    BY DEF ValidatorInv, BalanceTypeOK, Taken, Done
  <2>2. QED BY <1>1, <2>1, BalancedFrame DEF ValidatorInv
<1>10. QED BY <1>1, <1>3, <1>5, <1>6, <1>8, <1>9 DEF ValidatorInv

\* Recording a stack touches no other block.
LEMMA RecordFrame ==
  ASSUME ValidatorInv, site \in 1 .. Terminator(block),
         before' = [before EXCEPT ![block] = Append(@, active)],
         UNCHANGED <<function, states, worklist, next, block, verdict>>, site' = site + 1
  PROVE  /\ WorklistExact' /\ Done' = Done /\ \A b \in Done : Balanced(b)'
         /\ verdict = verdict' /\ Terminator(block)' = Terminator(block)
<1>1. site # 0 /\ site' # 0 /\ Taken' = Taken /\ Done = Taken \ {block}
  <2>1. site \in Nat \ {0} /\ site' = site + 1
    BY DEF ValidatorInv, BalanceTypeOK
  <2>2. site # 0 /\ site' # 0
    BY <2>1
  <2>3. Taken' = Taken /\ Done = Taken \ {block}
    BY <2>2 DEF Taken, Done
  <2>4. QED BY <2>2, <2>3
<1>2. Done' = Done
  BY <1>1 DEF Done
<1>3. block \in Taken /\ \A c \in Blocks \ {block} : before'[c] = before[c]
  BY <1>1, UnderWayFacts, RecordStep
<1>4. WorklistExact'
  BY <1>1, <1>3 DEF ValidatorInv, WorklistExact, WorklistOnce
<1>5. \A b \in Done : Balanced(b)'
  <2>1. Done \subseteq Blocks \ {block}
    BY <1>1 DEF ValidatorInv, BalanceTypeOK, Taken
  <2>2. QED BY <1>3, <2>1, BalancedFrame DEF ValidatorInv
<1>6. QED BY <1>2, <1>4, <1>5 DEF Terminator, Operations

\* A legal operation, or the rejection of one that is not.
LEMMA TransferStep ==
  ASSUME ValidatorInv, TransferOperation
  PROVE  ValidatorInv'
<1> DEFINE op == Operations(block)[site]
<1>1. CASE Legal(op, active) /\ verdict' # "rejected"
  <2>1. /\ active' = After(op, active) /\ site' = site + 1
        /\ before' = [before EXCEPT ![block] = Append(@, active)]
        /\ UNCHANGED <<function, states, worklist, next, block, verdict>>
        /\ verdict = "running" /\ site \in 1 .. Len(Operations(block))
    BY <1>1 DEF TransferOperation, Fail
  <2>2. /\ block \in Blocks /\ site \in 1 .. Terminator(block) /\ op \in Operation
        /\ active \in Seq(Temporaries) /\ site \in Nat /\ site + 1 \in 1 .. Terminator(block)
        /\ site + 1 > 1
    <3>1. BalanceTypeOK /\ block \in Blocks /\ active \in Seq(Temporaries) /\ site \in Nat
      BY DEF ValidatorInv, BalanceTypeOK
    <3>2. /\ Operations(block) \in Seq(Operation) /\ Len(Operations(block)) \in Nat
          /\ Terminator(block) = Len(Operations(block)) + 1
      BY <3>1, BlockFacts
    <3>3. op \in Operation
      BY <2>1, <3>2
    <3>4. site \in 1 .. Terminator(block) /\ site + 1 \in 1 .. Terminator(block) /\ site + 1 > 1
      BY <2>1, <3>1, <3>2
    <3>5. QED BY <3>1, <3>3, <3>4
  <2>3. active' \in Seq(Temporaries)
    BY <1>1, <2>1, <2>2, AfterType
  <2>4. /\ WorklistExact' /\ Done' = Done /\ \A b \in Done : Balanced(b)'
        /\ Terminator(block)' = Terminator(block)
    BY <2>1, <2>2, RecordFrame
  <2>5. PICK b, k : b = block /\ k = site
    OBVIOUS
  <2>6. /\ before' \in [Blocks -> Seq(Seq(Temporaries))]
        /\ Chain(b, k)' /\ before'[b][k] = active
    BY <2>1, <2>2, <2>5, RecordStep
  <2>7. Chain(block, site - 1)'
    <3>1. block' = b /\ site' - 1 = k
      BY <2>1, <2>2, <2>5
    <3>2. QED BY ONLY <3>1, <2>6 DEF Chain, Operations
  <2>8. UnderWay'
    <3>1. Operations(block)' = Operations(block) /\ site' - 1 = site /\ block' = block
      BY <2>1, <2>2 DEF Operations
    <3>2. site' \in 1 .. Terminator(block)' /\ ~ site' > Terminator(block)' /\ site' > 1 /\ site' # 1
      BY <2>1, <2>2, <2>4, BlockFacts DEF ValidatorInv
    <3>3. /\ Legal(Operations(block)'[site' - 1], before'[block'][site' - 1])
          /\ active' = After(Operations(block)'[site' - 1], before'[block'][site' - 1])
      BY <1>1, <2>1, <2>5, <2>6, <3>1
    <3>4. QED BY <2>7, <3>2, <3>3 DEF UnderWay
  <2>9. BalanceTypeOK'
    BY <2>1, <2>2, <2>3, <2>6 DEF ValidatorInv, BalanceTypeOK
  <2>10. QED BY <2>1, <2>4, <2>8, <2>9 DEF ValidatorInv
<1>2. CASE Fail
  BY <1>2, VerdictStep DEF Fail
<1>3. QED BY <1>1, <1>2 DEF TransferOperation

\* A terminator that a return may be, or the rejection of a return.
LEMMA LeaveStep ==
  ASSUME ValidatorInv, LeaveOperations
  PROVE  ValidatorInv'
<1>1. CASE ~ Fail
  <2>1. /\ function[block].exit = "return" => active = <<>>
        /\ site' = site + 1
        /\ before' = [before EXCEPT ![block] = Append(@, active)]
        /\ UNCHANGED <<function, states, worklist, next, block, active, verdict>>
        /\ verdict = "running" /\ site = Terminator(block)
    BY <1>1 DEF LeaveOperations
  <2>2. /\ block \in Blocks /\ site \in 1 .. Terminator(block)
        /\ active \in Seq(Temporaries) /\ site \in Nat
    BY <2>1, BlockFacts, SMTT(40) DEF ValidatorInv, BalanceTypeOK
  <2>3. /\ WorklistExact' /\ Done' = Done /\ \A b \in Done : Balanced(b)'
        /\ Terminator(block)' = Terminator(block)
    BY <2>1, <2>2, RecordFrame
  <2>4. PICK b, k : b = block /\ k = site
    OBVIOUS
  <2>5. /\ before' \in [Blocks -> Seq(Seq(Temporaries))]
        /\ Chain(b, k)' /\ before'[b][k] = active
    BY <2>1, <2>2, <2>4, RecordStep
  <2>6. Chain(block, Terminator(block))'
    BY <2>1, <2>3, <2>4, <2>5 DEF Chain, Operations
  <2>7. UnderWay'
    <3>1. /\ ~ site' \in 1 .. Terminator(block)' /\ site' - Terminator(block)' - 1 = 0
          /\ site' <= Terminator(block)' + Len(Targets(block)') + 1
      BY <2>1, <2>2, <2>3, BlockFacts DEF ValidatorInv, Targets
    <3>2. /\ active' = before'[block'][Terminator(block)']
          /\ function'[block'].exit = "return" => active' = <<>>
      BY <2>1, <2>3, <2>4, <2>5
    <3>3. QED BY <2>6, <3>1, <3>2 DEF UnderWay
  <2>8. BalanceTypeOK'
    BY <2>1, <2>2, <2>5 DEF ValidatorInv, BalanceTypeOK
  <2>9. QED BY <2>1, <2>3, <2>7, <2>8 DEF ValidatorInv
<1>2. CASE Fail
  BY <1>2, VerdictStep DEF Fail
<1>3. QED BY <1>1, <1>2

\* A step within the terminator changes nothing that was recorded.
LEMMA AfterTerminator ==
  ASSUME ValidatorInv, site > Terminator(block)
  PROVE  /\ site # 0 /\ block \in Blocks /\ site \in Nat /\ Terminator(block) \in Nat \ {0}
         /\ Len(Targets(block)) \in Nat
         /\ site <= Terminator(block) + Len(Targets(block)) + 1
         /\ Chain(block, Terminator(block))
         /\ active = before[block][Terminator(block)]
         /\ function[block].exit = "return" => active = <<>>
         /\ \A n \in 1 .. site - Terminator(block) - 1 : states[Targets(block)[n]] = active
<1>1. block \in Blocks /\ site \in Nat /\ BalanceTypeOK
  BY DEF ValidatorInv, BalanceTypeOK
<1>2. Terminator(block) \in Nat \ {0} /\ Len(Targets(block)) \in Nat
  BY <1>1, BlockFacts
<1>3. QED BY <1>1, <1>2 DEF ValidatorInv, UnderWay

\* A path that comes to a block, alone or with others that agree.
LEMMA JoinStep ==
  ASSUME ValidatorInv, JoinSuccessor
  PROVE  ValidatorInv'
<1> DEFINE t == Target
<1>1. /\ verdict = "running" /\ site > Terminator(block)
      /\ site <= Terminator(block) + Len(Targets(block))
  BY DEF JoinSuccessor, AtSuccessor
<1>2. /\ site # 0 /\ block \in Blocks /\ site \in Nat /\ Terminator(block) \in Nat \ {0}
      /\ Len(Targets(block)) \in Nat
      /\ Chain(block, Terminator(block)) /\ active = before[block][Terminator(block)]
      /\ function[block].exit = "return" => active = <<>>
      /\ \A n \in 1 .. site - Terminator(block) - 1 : states[Targets(block)[n]] = active
      /\ BalanceTypeOK /\ active \in Seq(Temporaries)
  BY <1>1, AfterTerminator DEF ValidatorInv, BalanceTypeOK
<1>3. t \in Blocks /\ t = Targets(block)[site - Terminator(block)]
  BY <1>1, <1>2, BlockFacts DEF Target
<1>4. active # unreached
  BY <1>2, BalanceAssumption
<1>5. CASE /\ states[t] \in {unreached, active} /\ site' = site + 1
           /\ states' = [states EXCEPT ![t] = active]
           /\ worklist' = IF states[t] = unreached THEN Append(worklist, t) ELSE worklist
           /\ UNCHANGED <<function, next, block, active, before, verdict>>
  <2>1. \A c \in Blocks : states[c] # unreached => states'[c] = states[c]
    BY <1>5 DEF ValidatorInv, BalanceTypeOK
  <2>2. states'[t] = active /\ \A c \in Blocks \ {t} : states'[c] = states[c]
    BY <1>3, <1>5 DEF ValidatorInv, BalanceTypeOK
  <2>3. /\ worklist' \in Seq(Blocks) /\ Len(worklist') >= Len(worklist)
        /\ \A n \in 1 .. Len(worklist) : worklist'[n] = worklist[n]
    BY <1>3, <1>5 DEF ValidatorInv, BalanceTypeOK
  <2>4. BalanceTypeOK'
    BY <1>2, <1>3, <1>5, <2>3 DEF ValidatorInv, BalanceTypeOK
  <2>5. Taken' = Taken /\ Done' = Done
    <3>1. Taken' = Taken
      BY <1>5, <2>3 DEF Taken, ValidatorInv, BalanceTypeOK
    <3>2. site' # 0
      BY <1>2, <1>5
    <3>3. QED BY <1>2, <1>5, <3>1, <3>2 DEF Done
  <2>6. WorklistExact'
    <3>1. CASE states[t] = unreached
      <4>1. \A n \in 1 .. Len(worklist) : worklist[n] # t
        BY <1>3, <3>1 DEF ValidatorInv, WorklistExact
      <4>2. /\ Len(worklist') = Len(worklist) + 1 /\ worklist'[Len(worklist) + 1] = t
            /\ Len(worklist) \in Nat
        BY <1>3, <1>5, <3>1 DEF ValidatorInv, BalanceTypeOK
      <4>3. WorklistOnce'
        BY <2>3, <4>1, <4>2 DEF ValidatorInv, WorklistExact, WorklistOnce
      <4>4. ASSUME NEW b \in Blocks
            PROVE  states'[b] # unreached <=> \E n \in DOMAIN worklist' : worklist'[n] = b
        <5>1. states[b] # unreached <=> \E n \in DOMAIN worklist : worklist[n] = b
          BY DEF ValidatorInv, WorklistExact
        <5>2. CASE b = t
          BY <1>4, <2>2, <2>3, <4>2, <5>2
        <5>3. CASE b # t
          BY <2>2, <2>3, <4>2, <5>1, <5>3
        <5>4. QED BY <5>2, <5>3
      <4>5. next > 0 /\ block' = worklist'[next']
        BY <1>2, <1>5, <2>3 DEF ValidatorInv, WorklistExact, BalanceTypeOK
      <4>6. QED BY <1>5, <2>5, <4>3, <4>4, <4>5 DEF ValidatorInv, WorklistExact
    <3>2. CASE states[t] # unreached
      BY <1>2, <1>5, <2>1, <2>2, <2>5, <3>2, <1>4 DEF ValidatorInv, WorklistExact, WorklistOnce
    <3>3. QED BY <3>1, <3>2
  <2>7. block \notin Done /\ states[block] # unreached /\ Done \subseteq Blocks
    BY <1>2, UnderWayFacts, SMTT(30) DEF Done, Taken, ValidatorInv, BalanceTypeOK
  <2>8. \A b \in Done : Balanced(b)'
    BY <1>2, <1>5, <2>1, <2>7, BalancedFrame DEF ValidatorInv
  <2>9. UnderWay'
    <3>1. /\ Terminator(block)' = Terminator(block) /\ Targets(block)' = Targets(block)
          /\ Operations(block)' = Operations(block)
      BY <1>5 DEF Terminator, Targets, Operations
    <3>2. PICK b, k : b = block /\ k = Terminator(block)
      OBVIOUS
    <3>3. Chain(b, k)'
      BY <1>2, <1>5, <2>1, <2>7, <3>2, ChainFrame
    <3>4. Chain(block, Terminator(block))'
      BY <1>5, <3>1, <3>2, <3>3 DEF Chain, Operations
    <3>5. ASSUME NEW n \in 1 .. site - Terminator(block) PROVE states'[Targets(block)[n]] = active
      <4>1. CASE n = site - Terminator(block)
        BY <1>3, <2>2, <4>1
      <4>2. CASE n # site - Terminator(block)
        <5>1. n \in 1 .. site - Terminator(block) - 1 /\ n \in 1 .. Len(Targets(block))
          BY <1>1, <1>2, <4>2, SMTT(40)
        <5>2. Targets(block) \in Seq(Blocks)
          BY <1>2, BlockFacts
        <5>3. Targets(block)[n] \in Blocks
          BY <5>1, <5>2
        <5>4. states[Targets(block)[n]] = active
          BY <1>2, <5>1
        <5>5. QED BY <1>4, <2>1, <5>3, <5>4
      <4>3. QED BY <4>1, <4>2
    <3>6. /\ site' > Terminator(block) /\ ~ site' \in 1 .. Terminator(block)
          /\ site' <= Terminator(block) + Len(Targets(block)) + 1
          /\ site' - Terminator(block) - 1 = site - Terminator(block)
      BY <1>1, <1>2, <1>5
    <3>7. QED BY <1>2, <1>5, <3>1, <3>4, <3>5, <3>6 DEF UnderWay
  <2>10. states'[Entry] = <<>>
    <3>1. states[Entry] = <<>> /\ <<>> \in Seq(Temporaries) /\ Entry \in Blocks
      BY BalanceAssumption DEF ValidatorInv
    <3>2. QED BY <2>1, <3>1, BalanceAssumption
  <2>11. QED BY <1>1, <1>5, <2>4, <2>5, <2>6, <2>8, <2>9, <2>10 DEF ValidatorInv
<1>6. CASE Fail
  BY <1>6, VerdictStep DEF Fail
<1>7. CASE ~ Fail
  <2>1. /\ states' = [states EXCEPT ![t] = active] /\ site' = site + 1
        /\ states[t] \in {unreached, active}
        /\ worklist' = IF states[t] = unreached THEN Append(worklist, t) ELSE worklist
        /\ UNCHANGED <<function, next, block, active, before, verdict>>
    BY <1>2, <1>3, <1>4, <1>7 DEF JoinSuccessor, BalanceTypeOK
  <2>2. QED BY <1>5, <2>1
<1>8. QED BY <1>6, <1>7

\* The block under way is balanced once its successors are joined.
LEMMA FinishStep ==
  ASSUME ValidatorInv, FinishBlock
  PROVE  ValidatorInv'
<1>1. /\ site' = 0 /\ site = Terminator(block) + Len(Targets(block)) + 1
      /\ UNCHANGED <<function, states, worklist, next, block, active, before, verdict>>
      /\ verdict = "running"
  BY DEF FinishBlock
<1>2. /\ block \in Blocks /\ BalanceTypeOK
      /\ Targets(block) \in Seq(Blocks) /\ Len(Targets(block)) \in Nat
      /\ Terminator(block) = Len(Operations(block)) + 1 /\ Len(Operations(block)) \in Nat
  <2>1. block \in Blocks /\ BalanceTypeOK
    BY DEF ValidatorInv, BalanceTypeOK
  <2>2. QED BY <2>1, BlockFacts
<1>3. Balanced(block)
  <2>1. site > Terminator(block) /\ site - Terminator(block) - 1 = Len(Targets(block))
    BY <1>1, <1>2
  <2>2. /\ Chain(block, Terminator(block))
        /\ active = before[block][Terminator(block)]
        /\ function[block].exit = "return" => active = <<>>
        /\ \A n \in 1 .. site - Terminator(block) - 1 : states[Targets(block)[n]] = active
    BY <2>1, AfterTerminator
  <2>3. DOMAIN Targets(block) = 1 .. site - Terminator(block) - 1
    BY <1>2, <2>1
  <2>4. QED BY <2>2, <2>3 DEF Balanced
<1>4. Taken' = Taken /\ Done = Taken \ {block} /\ Done' = Taken
  BY <1>1, <1>2 DEF Taken, Done
<1>5. \A b \in Done' : Balanced(b)'
  <2>1. Taken \subseteq Blocks
    BY DEF ValidatorInv, BalanceTypeOK, Taken
  <2>2. \A b \in Taken : Balanced(b)
    BY <1>3, <1>4 DEF ValidatorInv
  <2>3. QED BY <1>1, <1>2, <1>4, <2>1, <2>2, BalancedFrame
<1>6. BalanceTypeOK'
  BY <1>1 DEF ValidatorInv, BalanceTypeOK
<1>7. WorklistExact'
  BY <1>1, <1>4 DEF ValidatorInv, WorklistExact, WorklistOnce
<1>8. UnderWay'
  <2>1. Terminator(block)' \in Nat
    BY <1>1, <1>2 DEF Terminator, Operations
  <2>2. ~ site' \in 1 .. Terminator(block)' /\ ~ site' > Terminator(block)'
    BY <1>1, <2>1
  <2>3. QED BY <2>2 DEF UnderWay
<1>9. QED BY <1>1, <1>5, <1>6, <1>7, <1>8 DEF ValidatorInv

\* Every step of the validator.
LEMMA ValidatorStep ==
  ASSUME ValidatorInv, Validate
  PROVE  ValidatorInv'
<1>1. CASE Accept
  BY <1>1, VerdictStep DEF Accept
<1>2. QED BY <1>1, TakeStep, TransferStep, LeaveStep, JoinStep, FinishStep DEF Validate

-----------------------------------------------------------------------------
(* The execution of what was accepted. *)

\* An accepted function is balanced wherever execution comes.
LEMMA AcceptedBlock ==
  ASSUME ValidatorInv, verdict = "accepted", NEW b \in Blocks, states[b] # unreached
  PROVE  Balanced(b)
<1>1. site = 0 /\ next = Len(worklist)
  BY DEF ValidatorInv
<1>2. b \in Taken
  BY <1>1 DEF ValidatorInv, WorklistExact, Taken
<1>3. QED BY <1>1, <1>2 DEF ValidatorInv, Done

\* The annotation at the operation about to execute.
LEMMA AnnotationFacts ==
  ASSUME ValidatorInv, verdict = "accepted", NEW b \in Blocks, states[b] # unreached,
         NEW i \in 1 .. Terminator(b)
  PROVE  /\ before[b][i] \in Seq(Temporaries)
         /\ i <= Len(Operations(b)) =>
              /\ Operations(b)[i] \in Operation
              /\ Legal(Operations(b)[i], before[b][i])
              /\ before[b][i + 1] = After(Operations(b)[i], before[b][i])
              /\ i + 1 \in 1 .. Terminator(b)
<1>1. Balanced(b)
  BY AcceptedBlock
<1>2. /\ before[b] \in Seq(Seq(Temporaries)) /\ BalanceTypeOK
  BY DEF ValidatorInv, BalanceTypeOK
<1>3. /\ Operations(b) \in Seq(Operation) /\ Terminator(b) = Len(Operations(b)) + 1
      /\ Len(Operations(b)) \in Nat
  BY <1>2, BlockFacts
<1>4. Len(before[b]) = Terminator(b)
  BY <1>1 DEF Balanced, Chain
<1>5. before[b][i] \in Seq(Temporaries)
  BY <1>2, <1>4
<1>6. ASSUME i <= Len(Operations(b))
      PROVE  /\ Operations(b)[i] \in Operation
             /\ Legal(Operations(b)[i], before[b][i])
             /\ before[b][i + 1] = After(Operations(b)[i], before[b][i])
             /\ i + 1 \in 1 .. Terminator(b)
  <2>1. i \in 1 .. Terminator(b) - 1 /\ i \in 1 .. Len(Operations(b)) /\ i + 1 \in 1 .. Terminator(b)
    BY <1>3, <1>6
  <2>2. QED BY <1>1, <1>3, <2>1 DEF Balanced, Chain
<1>7. QED BY <1>5, <1>6

\* Counting the locks: one more.
LEMMA CountAppend ==
  ASSUME NEW s \in Seq(Containers), NEW c \in Containers, NEW d \in Containers
  PROVE  /\ Count(Append(s, c), d) = Count(s, d) + (IF c = d THEN 1 ELSE 0)
         /\ Count(s, d) \in Nat
<1> DEFINE old == {n \in DOMAIN s : s[n] = d}
           new == {n \in DOMAIN Append(s, c) : Append(s, c)[n] = d}
<1>1. /\ DOMAIN s = 1 .. Len(s) /\ Len(s) \in Nat
      /\ DOMAIN Append(s, c) = 1 .. Len(s) + 1 /\ Append(s, c)[Len(s) + 1] = c
      /\ \A n \in 1 .. Len(s) : Append(s, c)[n] = s[n]
  OBVIOUS
<1>2. IsFiniteSet(old) /\ Cardinality(old) \in Nat
  <2>1. IsFiniteSet(1 .. Len(s))
    BY <1>1, FS_Interval
  <2>2. old \subseteq 1 .. Len(s)
    BY <1>1
  <2>3. QED BY <2>1, <2>2, FS_Subset, FS_CardinalityType
<1>3. c = d => new = old \cup {Len(s) + 1} /\ Len(s) + 1 \notin old
  BY <1>1
<1>4. c # d => new = old
  BY <1>1
<1>5. Count(s, d) = Cardinality(old) /\ Count(Append(s, c), d) = Cardinality(new)
  BY DEF Count
<1> HIDE DEF old, new
<1>6. CASE c = d
  <2>1. Cardinality(new) = Cardinality(old) + 1
    BY <1>2, <1>3, <1>6, FS_AddElement
  <2>2. QED BY <1>2, <1>5, <1>6, <2>1
<1>7. CASE c # d
  BY <1>2, <1>4, <1>5, <1>7
<1>8. QED BY <1>6, <1>7

\* A sequence and what is popped from it.
LEMMA PoppedFacts ==
  ASSUME NEW S, NEW s \in Seq(S), s # <<>>
  PROVE  /\ Len(s) \in Nat \ {0} /\ s[Len(s)] \in S
         /\ Popped(s) \in Seq(S) /\ Len(Popped(s)) = Len(s) - 1
         /\ \A i \in 1 .. Len(s) - 1 : Popped(s)[i] = s[i]
         /\ Append(Popped(s), s[Len(s)]) = s
<1>1. Len(s) \in Nat \ {0} /\ s[Len(s)] \in S
  OBVIOUS
<1>2. PICK p : p = Popped(s)
  OBVIOUS
<1>3. /\ p \in Seq(S) /\ Len(p) = Len(s) - 1
      /\ \A i \in 1 .. Len(s) - 1 : p[i] = s[i]
  <2>1. PICK m, n : m = 1 /\ n = Len(s) - 1
    OBVIOUS
  <2>2. m \in Int /\ n \in Int /\ \A i \in m .. n : s[i] \in S
    BY <1>1, <2>1
  <2>3. /\ SubSeq(s, m, n) \in Seq(S)
        /\ Len(SubSeq(s, m, n)) = IF m <= n THEN n - m + 1 ELSE 0
        /\ \A i \in 1 .. n - m + 1 : SubSeq(s, m, n)[i] = s[m + i - 1]
    BY <2>2, SubSeqProperties
  <2>4. p = SubSeq(s, m, n)
    BY <1>2, <2>1 DEF Popped
  <2>5. p \in Seq(S)
    BY <2>3, <2>4
  <2>6. Len(p) = Len(s) - 1
    BY <1>1, <2>1, <2>3, <2>4
  <2>7. ASSUME NEW i \in 1 .. Len(s) - 1 PROVE p[i] = s[i]
    <3>1. i \in 1 .. n - m + 1 /\ m + i - 1 = i
      BY <1>1, <2>1
    <3>2. QED BY <2>3, <2>4, <3>1
  <2>8. QED BY <2>5, <2>6, <2>7
<1>4. PICK t : t = Append(p, s[Len(s)])
  OBVIOUS
<1>5. t \in Seq(S) /\ Len(t) = Len(s) /\ \A i \in 1 .. Len(t) : t[i] = s[i]
  BY <1>1, <1>3, <1>4
<1>6. t = s
  BY <1>5, SeqEqual
<1>7. QED BY <1>1, <1>2, <1>3, <1>4, <1>6

\* One less.
LEMMA CountPopped ==
  ASSUME NEW s \in Seq(Containers), s # <<>>, NEW d \in Containers
  PROVE  /\ Count(s, d) = Count(Popped(s), d) + (IF s[Len(s)] = d THEN 1 ELSE 0)
         /\ Count(Popped(s), d) \in Nat
<1>1. PICK p, c : p = Popped(s) /\ c = s[Len(s)]
  OBVIOUS
<1>2. p \in Seq(Containers) /\ c \in Containers /\ Append(p, c) = s
  BY <1>1, PoppedFacts
<1>3. Count(s, d) = Count(p, d) + (IF c = d THEN 1 ELSE 0) /\ Count(p, d) \in Nat
  BY <1>2, CountAppend
<1>4. QED BY <1>1, <1>3

\* What callers have locked is counted in natural numbers.
LEMMA OuterFact ==
  ASSUME NEW f \in [Containers -> OuterLocks], NEW c \in Containers
  PROVE  f[c] \in Nat
<1>1. MaxLocks \in Nat /\ OuterLocks \subseteq 0 .. MaxLocks /\ f[c] \in OuterLocks
  BY ContainerAssumption
<1>2. f[c] \in 0 .. MaxLocks
  BY <1>1
<1>3. QED BY <1>1, <1>2

\* What is known where an operation executes.
LEMMA ExecutingFacts ==
  ASSUME ExecutionInv, stage = "running", index <= Len(Operations(at)),
         NEW op, op = Operations(at)[index], NEW stack, stack = before[at][index]
  PROVE  /\ op \in Operation /\ stack \in Seq(Temporaries) /\ Legal(op, stack)
         /\ before[at][index + 1] = After(op, stack) /\ index + 1 \in 1 .. Terminator(at)
         /\ After(op, stack) \in Seq(Temporaries)
         /\ held \in Seq(Containers) /\ Len(held) = Len(stack)
         /\ \A n \in 1 .. Len(held) : held[n] = value[stack[n]]
         /\ value \in [Temporaries -> Containers] /\ locks \in [Containers -> Nat]
         /\ length \in [Containers -> Lengths] /\ began \in Seq(Lengths)
         /\ outer \in [Containers -> OuterLocks] /\ \A c \in Containers : outer[c] \in Nat
         /\ LocksExact /\ LengthsKept
<1>1. /\ ValidatorInv /\ verdict = "accepted" /\ at \in Blocks /\ states[at] # unreached
      /\ index \in 1 .. Terminator(at)
      /\ held \in Seq(Containers) /\ value \in [Temporaries -> Containers]
      /\ locks \in [Containers -> Nat]
      /\ length \in [Containers -> Lengths] /\ began \in Seq(Lengths)
      /\ outer \in [Containers -> OuterLocks]
      /\ LocksExact /\ LengthsKept
  BY DEF ExecutionInv, TypeOK
<1>2. /\ op \in Operation /\ stack \in Seq(Temporaries) /\ Legal(op, stack)
      /\ before[at][index + 1] = After(op, stack) /\ index + 1 \in 1 .. Terminator(at)
  BY <1>1, AnnotationFacts
<1>3. Len(held) = Len(stack) /\ \A n \in DOMAIN held : held[n] = value[stack[n]]
  BY DEF ExecutionInv, HeldAsValidated
<1>4. After(op, stack) \in Seq(Temporaries)
  BY <1>2, AfterType
<1>5. \A c \in Containers : outer[c] \in Nat
  BY <1>1, OuterFact
<1>6. \A n \in 1 .. Len(held) : held[n] = value[stack[n]]
  BY <1>1, <1>3
<1>7. QED BY <1>1, <1>2, <1>3, <1>4, <1>5, <1>6

\* The validator is done.
LEMMA ValidatorDone ==
  ASSUME ExecutionInv, UNCHANGED balanceVars
  PROVE  /\ ValidatorInv' /\ BalanceTypeOK'
         /\ \A b \in Blocks : Terminator(b)' = Terminator(b) /\ Operations(b)' = Operations(b)
<1>1. ValidatorInv'
  BY VerdictStep DEF ExecutionInv, ValidatorInv, BalanceTypeOK, balanceVars, validator
<1>2. QED BY <1>1 DEF ValidatorInv, balanceVars, validator, Terminator, Operations

\* An operation that does to the containers held what the validator did to the stack.
LEMMA Proceed ==
  ASSUME ExecutionInv, UNCHANGED balanceVars, stage = "running", index <= Len(Operations(at)),
         stage' = "running", at' = at, index' = index + 1,
         value' \in [Temporaries -> Containers], locks' \in [Containers -> Nat],
         held' \in Seq(Containers),
         length' \in [Containers -> Lengths], began' \in Seq(Lengths),
         outer' = outer, position' = position,
         NEW op, op = Operations(at)[index], NEW stack, stack = before[at][index],
         Len(held') = Len(After(op, stack)),
         \A n \in 1 .. Len(held') : held'[n] = value'[After(op, stack)[n]],
         LocksExact', LengthsKept'
  PROVE  ExecutionInv'
<1>1. /\ at \in Blocks /\ verdict = "accepted" /\ states[at] # unreached
      /\ outer \in [Containers -> OuterLocks] /\ position \in Int
  BY DEF ExecutionInv, TypeOK
<1>2. /\ ValidatorInv' /\ BalanceTypeOK' /\ Terminator(at)' = Terminator(at)
      /\ before' = before /\ verdict' = verdict /\ states' = states
  BY <1>1, ValidatorDone DEF balanceVars, validator, Terminator, Operations
<1>3. before[at][index + 1] = After(op, stack) /\ index + 1 \in 1 .. Terminator(at)
  BY ExecutingFacts
<1>4. TypeOK'
  BY <1>1, <1>2, <1>3 DEF TypeOK
<1>5. HeldAsValidated'
  <2>1. before'[at'][index'] = After(op, stack)
    BY <1>2, <1>3
  <2>2. DOMAIN held' = 1 .. Len(held')
    OBVIOUS
  <2>3. QED BY <2>1, <2>2 DEF HeldAsValidated
<1>6. NeverUnlocked' /\ FailuresFromOutside'
  BY DEF NeverUnlocked, FailuresFromOutside
<1>7. QED BY <1>1, <1>2, <1>4, <1>5, <1>6 DEF ExecutionInv

\* A failed invariant leaves everything where it was.
LEMMA FailureStep ==
  ASSUME ExecutionInv, UNCHANGED balanceVars, stage = "running",
         stage' \in {"overlocked", "outside", "stopped"}, UNCHANGED <<at, index, containers, outer>>,
         position' \in Int, FailuresFromOutside'
  PROVE  ExecutionInv'
<1>1. UNCHANGED <<at, index, value, locks, length, outer, held, began>>
  BY DEF containers
<1>2. at \in Blocks
  BY DEF ExecutionInv, TypeOK
<1>3. /\ ValidatorInv' /\ BalanceTypeOK' /\ Terminator(at)' = Terminator(at)
      /\ verdict' = verdict /\ states' = states
  BY <1>2, ValidatorDone DEF balanceVars, validator
<1>4. TypeOK'
  BY <1>1, <1>3 DEF ExecutionInv, TypeOK, Failures
<1>5. LocksExact' /\ LengthsKept'
  BY <1>1 DEF ExecutionInv, LocksExact, LengthsKept
<1>6. QED BY <1>1, <1>3, <1>4, <1>5 DEF ExecutionInv, NeverUnlocked, HeldAsValidated

\* begin_iteration locks the container its temporary holds.
LEMMA BeginLocks ==
  ASSUME ExecutionInv, UNCHANGED balanceVars, stage = "running", index <= Len(Operations(at)),
         NEW op, op = Operations(at)[index], op.kind = "begin",
         NEW c \in Containers, c = value[op.iterable], op.iterable \in Temporaries,
         locks' = [locks EXCEPT ![c] = @ + 1], held' = Append(held, c),
         began' = Append(began, length[c]), index' = index + 1, stage' = "running",
         UNCHANGED <<value, length, at, outer, position>>
  PROVE  ExecutionInv'
<1>1. PICK stack : stack = before[at][index]
  OBVIOUS
<1>3. /\ op \in Operation /\ stack \in Seq(Temporaries) /\ Legal(op, stack)
      /\ held \in Seq(Containers) /\ Len(held) = Len(stack)
      /\ \A n \in 1 .. Len(held) : held[n] = value[stack[n]]
      /\ value \in [Temporaries -> Containers] /\ locks \in [Containers -> Nat]
      /\ length \in [Containers -> Lengths] /\ began \in Seq(Lengths)
      /\ LocksExact /\ LengthsKept /\ \A d \in Containers : outer[d] \in Nat
  BY <1>1, ExecutingFacts
<1>6. After(op, stack) = Append(stack, op.iterable)
  BY DEF After
<1>7. /\ held' \in Seq(Containers) /\ locks' \in [Containers -> Nat]
      /\ Len(held') = Len(After(op, stack))
      /\ \A n \in 1 .. Len(held') : held'[n] = value'[After(op, stack)[n]]
  <2>1. held' \in Seq(Containers) /\ Len(held') = Len(held) + 1 /\ Len(held) \in Nat
    BY <1>3
  <2>2. Len(After(op, stack)) = Len(stack) + 1
    <3>1. stack \in Seq(Temporaries)
      BY <1>3
    <3>2. QED BY <1>6, <3>1
  <2>3. locks' \in [Containers -> Nat]
    BY <1>3
  <2>4. ASSUME NEW n \in 1 .. Len(held) PROVE held'[n] = value'[After(op, stack)[n]]
    <3>1. held'[n] = held[n] /\ held[n] = value[stack[n]]
      BY <1>3
    <3>2. After(op, stack)[n] = stack[n]
      BY <1>3, <1>6
    <3>3. QED BY <3>1, <3>2
  <2>5. held'[Len(held) + 1] = c /\ After(op, stack)[Len(held) + 1] = op.iterable
    BY <1>3, <1>6
  <2>6. QED BY <1>3, <2>1, <2>2, <2>3, <2>4, <2>5, SMTT(40)
<1>8. LocksExact'
  <2>1. ASSUME NEW d \in Containers
        PROVE  locks'[d] = outer[d] + Count(held', d)
    <3>1. locks[d] = outer[d] + Count(held, d) /\ outer[d] \in Nat
      BY <1>3 DEF LocksExact
    <3>2. locks'[d] = locks[d] + (IF c = d THEN 1 ELSE 0)
      BY <1>3
    <3>3. Count(held', d) = Count(held, d) + (IF c = d THEN 1 ELSE 0) /\ Count(held, d) \in Nat
      BY <1>3, CountAppend
    <3>4. QED BY <3>1, <3>2, <3>3
  <2>2. QED BY <2>1 DEF LocksExact
<1>9. LengthsKept' /\ began' \in Seq(Lengths)
  <2>1. length[c] \in Lengths /\ Len(began) = Len(held)
    BY <1>3 DEF LengthsKept
  <2>2. \A n \in 1 .. Len(held) : began[n] = length[held[n]]
    BY <1>3 DEF LengthsKept
  <2>3. QED BY <1>3, <2>1, <2>2 DEF LengthsKept
<1>10. value' \in [Temporaries -> Containers] /\ length' \in [Containers -> Lengths]
  BY <1>3
<1>11. QED BY <1>1, <1>7, <1>8, <1>9, <1>10, Proceed, SMTT(30)

\* begin_iteration
LEMMA BeginStep ==
  ASSUME ExecutionInv, BeginIteration
  PROVE  ExecutionInv'
<1>1. PICK op, stack : op = Operations(at)[index] /\ stack = before[at][index]
  OBVIOUS
<1>2. /\ stage = "running" /\ index <= Len(Operations(at)) /\ op.kind = "begin"
      /\ UNCHANGED balanceVars /\ outer' = outer
  BY <1>1 DEF BeginIteration, Executing
<1>3. /\ op \in Operation /\ stack \in Seq(Temporaries) /\ Legal(op, stack)
      /\ value \in [Temporaries -> Containers] /\ LocksExact
  BY <1>1, <1>2, ExecutingFacts
<1>4. op.iterable \in Temporaries
  BY <1>2, <1>3 DEF Legal, Stabilized
<1>5. PICK c \in Containers : c = value[op.iterable]
  BY <1>3, <1>4
<1>6. Evaluated(Operand) = {c}
  BY <1>1, <1>4, <1>5, BalanceAssumption DEF Operand, Evaluated
<1>7. CASE locks[c] = MaxLocks /\ Fails("overlocked") /\ UNCHANGED position
  <2>1. outer[c] + Count(held, c) = MaxLocks
    BY <1>3, <1>7 DEF LocksExact
  <2>2. UNCHANGED <<at, index, containers, outer>> /\ held' = held /\ stage' = "overlocked"
    BY <1>2, <1>7 DEF Fails, containers
  <2>3. FailuresFromOutside'
    BY <2>1, <2>2 DEF FailuresFromOutside
  <2>4. position' \in Int
    BY <1>7 DEF ExecutionInv, TypeOK
  <2>5. QED BY <1>2, <2>2, <2>3, <2>4, FailureStep
<1>8. CASE /\ locks' = [locks EXCEPT ![c] = @ + 1]
           /\ held' = Append(held, c) /\ began' = Append(began, length[c])
           /\ UNCHANGED <<value, length>> /\ Continues
  BY <1>1, <1>2, <1>4, <1>5, <1>8, BeginLocks DEF Continues
<1>9. QED BY <1>6, <1>7, <1>8 DEF BeginIteration

\* The innermost container is locked while the validator's stack is not empty.
LEMMA InnermostLocked ==
  ASSUME ExecutionInv, stage = "running", index <= Len(Operations(at)),
         NEW op, op = Operations(at)[index], op.kind \in {"value", "end"}
  PROVE  /\ Evaluated(Operand) = {held[Len(held)]} /\ op.iterable \in Temporaries
         /\ Operand = op.iterable /\ held[Len(held)] = value[op.iterable]
         /\ held # <<>> /\ held[Len(held)] \in Containers
         /\ locks[held[Len(held)]] # 0
         /\ began[Len(began)] = length[held[Len(held)]]
<1>1. PICK stack : stack = before[at][index]
  OBVIOUS
<1>2. /\ op \in Operation /\ stack \in Seq(Temporaries) /\ Legal(op, stack)
      /\ held \in Seq(Containers) /\ Len(held) = Len(stack)
      /\ \A n \in 1 .. Len(held) : held[n] = value[stack[n]]
      /\ LocksExact /\ LengthsKept /\ \A d \in Containers : outer[d] \in Nat
  BY <1>1, ExecutingFacts
<1>3. op.iterable \in Temporaries /\ stack # <<>> /\ stack[Len(stack)] = op.iterable
  BY <1>2 DEF Legal, Stabilized, Innermost
<1>4. held # <<>> /\ held[Len(held)] = value[op.iterable] /\ held[Len(held)] \in Containers
  BY <1>2, <1>3
<1>5. Operand = op.iterable /\ Evaluated(Operand) = {held[Len(held)]}
  BY <1>3, <1>4, BalanceAssumption DEF Operand, Evaluated
<1>6. locks[held[Len(held)]] # 0
  <2>1. PICK c : c = held[Len(held)]
    OBVIOUS
  <2>2. locks[c] = outer[c] + Count(held, c) /\ outer[c] \in Nat
    BY <1>2, <1>4, <2>1 DEF LocksExact
  <2>3. Count(held, c) = Count(Popped(held), c) + 1 /\ Count(Popped(held), c) \in Nat
    BY <1>2, <1>4, <2>1, CountPopped
  <2>4. QED BY <2>1, <2>2, <2>3
<1>7. began[Len(began)] = length[held[Len(held)]]
  <2>1. Len(held) \in 1 .. Len(held) /\ Len(began) = Len(held)
    BY <1>2, <1>4 DEF LengthsKept
  <2>2. QED BY <1>2, <2>1 DEF LengthsKept
<1>8. QED BY <1>3, <1>4, <1>5, <1>6, <1>7

\* end_iteration
LEMMA EndStep ==
  ASSUME ExecutionInv, EndIteration
  PROVE  ExecutionInv'
<1>1. PICK op, stack, c :
        op = Operations(at)[index] /\ stack = before[at][index] /\ c = held[Len(held)]
  OBVIOUS
<1>2. /\ stage = "running" /\ index <= Len(Operations(at)) /\ op.kind = "end"
      /\ UNCHANGED balanceVars /\ outer' = outer
  BY <1>1 DEF EndIteration, Executing
<1>3. /\ op \in Operation /\ stack \in Seq(Temporaries) /\ Legal(op, stack)
      /\ held \in Seq(Containers) /\ Len(held) = Len(stack)
      /\ \A n \in 1 .. Len(held) : held[n] = value[stack[n]]
      /\ value \in [Temporaries -> Containers] /\ locks \in [Containers -> Nat]
      /\ length \in [Containers -> Lengths] /\ began \in Seq(Lengths)
      /\ LocksExact /\ LengthsKept /\ \A d \in Containers : outer[d] \in Nat
  BY <1>1, <1>2, ExecutingFacts
<1>4. /\ Evaluated(Operand) = {c} /\ held # <<>> /\ c \in Containers /\ locks[c] # 0
  BY <1>1, <1>2, InnermostLocked
<1>5. /\ locks' = [locks EXCEPT ![c] = @ - 1] /\ held' = Popped(held)
      /\ began' = Popped(began) /\ index' = index + 1 /\ stage' = "running"
      /\ UNCHANGED <<at, value, length, position>>
  BY <1>2, <1>4 DEF EndIteration, Continues
<1>6. After(op, stack) = Popped(stack)
  BY <1>2 DEF After
<1>7. /\ held' \in Seq(Containers) /\ locks' \in [Containers -> Nat]
      /\ Len(held') = Len(After(op, stack))
      /\ \A n \in 1 .. Len(held') : held'[n] = value'[After(op, stack)[n]]
  <2>1. Len(held) \in Nat \ {0}
    BY <1>3, <1>4
  <2>2. locks' \in [Containers -> Nat]
    BY <1>3, <1>4, <1>5
  <2>3. /\ held' \in Seq(Containers) /\ Len(held') = Len(held) - 1
        /\ \A n \in 1 .. Len(held) - 1 : held'[n] = held[n]
    BY <1>3, <1>4, <1>5, PoppedFacts
  <2>4. /\ Len(Popped(stack)) = Len(held) - 1
        /\ \A n \in 1 .. Len(held) - 1 : Popped(stack)[n] = stack[n]
    <3>1. stack # <<>>
      BY <1>3, <2>1
    <3>2. QED BY <1>3, <3>1, PoppedFacts
  <2>5. Len(held') = Len(After(op, stack))
    BY <1>6, <2>3, <2>4
  <2>6. ASSUME NEW n \in 1 .. Len(held') PROVE held'[n] = value'[After(op, stack)[n]]
    <3>1. n \in 1 .. Len(held) - 1 /\ n \in 1 .. Len(held)
      BY <2>1, <2>3
    <3>2. held[n] = value[stack[n]] /\ held'[n] = held[n] /\ Popped(stack)[n] = stack[n]
      BY <1>3, <2>3, <2>4, <3>1
    <3>3. QED BY <1>5, <1>6, <3>2
  <2>7. QED BY <2>2, <2>3, <2>5, <2>6
<1>8. LocksExact'
  <2>1. ASSUME NEW d \in Containers
        PROVE  locks'[d] = outer[d] + Count(held', d)
    <3>1. locks[d] = outer[d] + Count(held, d) /\ outer[d] \in Nat
      BY <1>3 DEF LocksExact
    <3>2. locks'[d] = locks[d] - (IF c = d THEN 1 ELSE 0)
      BY <1>3, <1>4, <1>5
    <3>3. /\ Count(held, d) = Count(Popped(held), d) + (IF c = d THEN 1 ELSE 0)
          /\ Count(Popped(held), d) \in Nat
      BY <1>1, <1>3, <1>4, CountPopped
    <3>4. QED BY <1>5, <3>1, <3>2, <3>3
  <2>2. QED BY <1>2, <2>1 DEF LocksExact
<1>9. value' \in [Temporaries -> Containers] /\ length' \in [Containers -> Lengths]
  BY <1>3, <1>5
<1>10. LengthsKept' /\ began' \in Seq(Lengths)
  <2>1. Len(began) = Len(held) /\ Len(held) \in Nat \ {0} /\ began # <<>>
    BY <1>3, <1>4 DEF LengthsKept
  <2>2. /\ held' \in Seq(Containers) /\ Len(held') = Len(held) - 1
        /\ \A n \in 1 .. Len(held) - 1 : held'[n] = held[n]
    BY <1>3, <1>4, <1>5, PoppedFacts
  <2>3. /\ began' \in Seq(Lengths) /\ Len(began') = Len(held) - 1
        /\ \A n \in 1 .. Len(held) - 1 : began'[n] = began[n]
    BY <1>3, <1>5, <2>1, PoppedFacts
  <2>4. \A n \in 1 .. Len(held) - 1 : began[n] = length[held[n]]
    BY <1>3, <2>1 DEF LengthsKept
  <2>5. Len(began') = Len(held') /\ \A n \in 1 .. Len(held') : began'[n] = length'[held'[n]]
    BY <1>5, <2>2, <2>3, <2>4
  <2>6. QED BY <2>2, <2>3, <2>5 DEF LengthsKept
<1>11. QED BY <1>1, <1>2, <1>5, <1>7, <1>8, <1>9, <1>10, Proceed, SMTT(30)

\* A container that is held is locked.
LEMMA HeldIsLocked ==
  ASSUME held \in Seq(Containers), LocksExact, \A d \in Containers : outer[d] \in Nat,
         NEW n \in 1 .. Len(held)
  PROVE  locks[held[n]] # 0
<1>1. held[n] \in Containers
  OBVIOUS
<1> DEFINE here == {m \in DOMAIN held : held[m] = held[n]}
<1>2. n \in here /\ here \subseteq 1 .. Len(held)
  OBVIOUS
<1>3. IsFiniteSet(here) /\ Cardinality(here) \in Nat
  <2>1. IsFiniteSet(1 .. Len(held))
    BY FS_Interval
  <2>2. QED BY <1>2, <2>1, FS_Subset, FS_CardinalityType
<1>4. Cardinality(here) # 0
  BY <1>2, <1>3, FS_EmptySet
<1>5. locks[held[n]] = outer[held[n]] + Cardinality(here) /\ outer[held[n]] \in Nat
  BY <1>1 DEF LocksExact, Count
<1>6. QED BY <1>3, <1>4, <1>5

\* An operation that writes a local: never a temporary that is iterated over.
LEMMA WriteStep ==
  ASSUME ExecutionInv, UNCHANGED balanceVars, stage = "running", index <= Len(Operations(at)),
         NEW op, op = Operations(at)[index], op.kind \in {"value", "other"},
         value' \in Written(op.to), length' \in Relengthened, index' = index + 1,
         stage' = "running", UNCHANGED <<at, locks, held, began, outer, position>>
  PROVE  ExecutionInv'
<1>1. PICK stack : stack = before[at][index]
  OBVIOUS
<1>2. /\ op \in Operation /\ stack \in Seq(Temporaries) /\ Legal(op, stack)
      /\ held \in Seq(Containers) /\ Len(held) = Len(stack)
      /\ \A n \in 1 .. Len(held) : held[n] = value[stack[n]]
      /\ value \in [Temporaries -> Containers] /\ locks \in [Containers -> Nat]
      /\ began \in Seq(Lengths)
      /\ LocksExact /\ LengthsKept /\ \A d \in Containers : outer[d] \in Nat
  BY <1>1, ExecutingFacts
<1>3. After(op, stack) = stack /\ op.to \in Temporaries \cup {other}
  BY <1>2, OperationFacts DEF After
<1>4. /\ value' \in [Temporaries -> Containers]
      /\ \A n \in 1 .. Len(stack) : value'[stack[n]] = value[stack[n]]
  <2>1. CASE op.to = other
    BY <1>2, <2>1 DEF Written
  <2>2. CASE op.to # other
    <3>1. op.to \in Temporaries
      BY <1>3, <2>2
    <3>2. PICK c \in Containers : value' = [value EXCEPT ![op.to] = c]
      BY <2>2 DEF Written
    <3>3. \A n \in 1 .. Len(stack) : stack[n] # op.to /\ stack[n] \in Temporaries
      <4>1. stack \in Seq(Temporaries) /\ ~Overwrites(op, stack)
        BY <1>2 DEF Legal
      <4>2. QED BY <2>2, <4>1 DEF Overwrites
    <3>4. QED BY <1>2, <3>1, <3>2, <3>3
  <2>3. QED BY <2>1, <2>2
<1>5. LocksExact'
  BY <1>2 DEF LocksExact
<1>6. /\ held' \in Seq(Containers) /\ locks' \in [Containers -> Nat]
      /\ Len(held') = Len(After(op, stack))
      /\ \A n \in 1 .. Len(held') : held'[n] = value'[After(op, stack)[n]]
  BY <1>2, <1>3, <1>4
<1>7. LengthsKept'
  <2>1. ASSUME NEW n \in 1 .. Len(held) PROVE length'[held[n]] = length[held[n]]
    <3>1. held[n] \in Containers
      BY <1>2
    <3>2. locks[held[n]] # 0
      BY <1>2, <3>1, HeldIsLocked
    <3>3. QED BY <3>1, <3>2 DEF Relengthened
  <2>2. Len(began) = Len(held) /\ \A n \in 1 .. Len(held) : began[n] = length[held[n]]
    BY <1>2 DEF LengthsKept
  <2>3. began' = began /\ held' = held /\ DOMAIN held = 1 .. Len(held)
    BY <1>2
  <2>4. QED BY <2>1, <2>2, <2>3 DEF LengthsKept
<1>8. value' \in [Temporaries -> Containers] /\ length' \in [Containers -> Lengths]
  BY <1>4 DEF Relengthened
<1>9. began' \in Seq(Lengths)
  BY <1>2
<1>10. QED BY <1>1, <1>5, <1>6, <1>7, <1>8, <1>9, Proceed, SMTT(30)

\* iteration_value
LEMMA ValueStep ==
  ASSUME ExecutionInv, IterationValue
  PROVE  ExecutionInv'
<1>1. PICK op : op = Operations(at)[index]
  OBVIOUS
<1>2. /\ stage = "running" /\ index <= Len(Operations(at)) /\ op.kind = "value"
      /\ UNCHANGED balanceVars
  BY <1>1 DEF IterationValue, Executing
<1>3. PICK c : c = held[Len(held)]
  OBVIOUS
<1>4. /\ Evaluated(Operand) = {c} /\ c \in Containers /\ locks[c] # 0
      /\ began[Len(began)] = length[c] /\ held # <<>>
  BY <1>1, <1>2, <1>3, InnermostLocked
<1>5. outer' = outer /\ length \in [Containers -> Lengths]
  BY <1>2 DEF IterationValue, Executing, ExecutionInv, TypeOK
<1>6. ASSUME NEW i \in Positions, i < 0 \/ i >= length[c], Fails("outside"), position' = i
      PROVE  ExecutionInv'
  <2>1. i \in Int /\ length[c] \in Nat
    BY <1>4, <1>5, ContainerAssumption
  <2>2. UNCHANGED <<at, index, containers, outer>> /\ UNCHANGED <<held, began>> /\ stage' = "outside"
    BY <1>5, <1>6 DEF Fails, containers
  <2>3. position' \notin 0 .. began'[Len(began')] - 1
    BY <1>4, <1>6, <2>1, <2>2
  <2>4. FailuresFromOutside'
    BY <1>4, <2>2, <2>3 DEF FailuresFromOutside
  <2>5. QED BY <1>2, <1>6, <2>1, <2>2, <2>4, FailureStep
<1>7. ASSUME value' \in Written(op.to), UNCHANGED <<locks, length, held, began>>, Continues
      PROVE  ExecutionInv'
  <2>1. length' \in Relengthened
    BY <1>5, <1>7 DEF Relengthened
  <2>2. QED BY <1>1, <1>2, <1>5, <1>7, <2>1, WriteStep DEF Continues
<1>8. QED BY <1>1, <1>4, <1>6, <1>7 DEF IterationValue

\* Every other operation.
LEMMA OtherStep ==
  ASSUME ExecutionInv, OtherOperation
  PROVE  ExecutionInv'
<1>1. PICK op : op = Operations(at)[index]
  OBVIOUS
<1>2. /\ stage = "running" /\ index <= Len(Operations(at)) /\ op.kind = "other"
      /\ UNCHANGED balanceVars /\ value' \in Written(op.to) /\ length' \in Relengthened
      /\ index' = index + 1 /\ stage' = "running"
      /\ UNCHANGED <<at, locks, held, began, outer, position>>
  BY <1>1 DEF OtherOperation, Executing, Continues
<1>3. QED BY <1>1, <1>2, WriteStep

\* A panic.
LEMMA PanicStep ==
  ASSUME ExecutionInv, Panic
  PROVE  ExecutionInv'
<1>1. /\ stage = "running" /\ stage' = "stopped" /\ UNCHANGED balanceVars
      /\ UNCHANGED <<at, index, containers, outer>> /\ position' = position
  BY DEF Panic, Executing
<1>2. FailuresFromOutside' /\ position' \in Int
  BY <1>1 DEF FailuresFromOutside, ExecutionInv, TypeOK
<1>3. QED BY <1>1, <1>2, FailureStep

\* The next block's annotation starts with the stack this one ended with.
LEMMA GotoStep ==
  ASSUME ExecutionInv, Goto
  PROVE  ExecutionInv'
<1>1. /\ stage = "running" /\ index = Terminator(at) /\ UNCHANGED balanceVars
      /\ index' = 1
      /\ UNCHANGED <<stage, value, locks, length, held, began, outer, position>>
  BY DEF Goto, AtTerminator, containers
<1>2. PICK n \in DOMAIN Targets(at) : at' = Targets(at)[n]
  BY DEF Goto
<1>3. /\ ValidatorInv /\ BalanceTypeOK /\ verdict = "accepted" /\ at \in Blocks
      /\ states[at] # unreached /\ index \in 1 .. Terminator(at)
  BY <1>1 DEF ExecutionInv, TypeOK
<1>4. at' \in Blocks
  BY <1>2, <1>3, BlockFacts
<1>5. states[at'] = before[at][index] /\ before[at][index] \in Seq(Temporaries)
  BY <1>1, <1>2, <1>3, AcceptedBlock, AnnotationFacts DEF Balanced
<1>6. states[at'] # unreached
  BY <1>5, BalanceAssumption
<1>7. before[at'][1] = states[at'] /\ Terminator(at') \in Nat /\ 1 \in 1 .. Terminator(at')
  <2>1. Terminator(at') \in Nat /\ Terminator(at') > 0
    BY <1>3, <1>4, BlockFacts
  <2>2. QED BY <1>3, <1>4, <1>6, <2>1, AcceptedBlock DEF Balanced, Chain
<1>8. /\ ValidatorInv' /\ BalanceTypeOK' /\ Terminator(at)' \in Nat /\ index' \in 1 .. Terminator(at)'
      /\ before' = before /\ verdict' = verdict /\ states' = states
  BY <1>1, <1>4, <1>7, ValidatorDone DEF balanceVars, validator, Terminator, Operations
<1>9. TypeOK'
  BY <1>1, <1>4, <1>8 DEF ExecutionInv, TypeOK
<1>10. HeldAsValidated'
  BY <1>1, <1>5, <1>7, <1>8 DEF ExecutionInv, HeldAsValidated
<1>11. LocksExact' /\ LengthsKept'
  BY <1>1 DEF ExecutionInv, LocksExact, LengthsKept
<1>12. QED BY <1>1, <1>3, <1>6, <1>8, <1>9, <1>10, <1>11
            DEF ExecutionInv, NeverUnlocked, FailuresFromOutside

\* A call finds the locks of its callers, and holds none yet.
LEMMA CallStep ==
  ASSUME ExecutionInv, Start
  PROVE  ExecutionInv'
<1>1. /\ UNCHANGED balanceVars /\ UNCHANGED <<at, index, held, began, position>>
      /\ stage = "compiling" /\ stage' = "running" /\ verdict = "accepted"
      /\ value' \in [Temporaries -> Containers] /\ length' \in [Containers -> Lengths]
      /\ outer' \in [Containers -> OuterLocks] /\ locks' = outer'
  BY DEF Start
<1>2. /\ at = Entry /\ at \in Blocks /\ index = 1 /\ held = <<>> /\ began = <<>>
      /\ states[Entry] = <<>> /\ ValidatorInv /\ BalanceTypeOK
  BY <1>1 DEF ExecutionInv, TypeOK, ValidatorInv
<1>3. /\ ValidatorInv' /\ BalanceTypeOK' /\ Terminator(at)' = Terminator(at)
      /\ before' = before /\ verdict' = verdict /\ states' = states
  BY <1>1, <1>2, ValidatorDone DEF balanceVars, validator
<1>4. states[at] # unreached
  <2>1. <<>> \in Seq(Temporaries)
    OBVIOUS
  <2>2. QED BY <1>2, <2>1, BalanceAssumption
<1>5. before[at][1] = <<>>
  <2>1. Terminator(at) > 0
    BY <1>2, BlockFacts
  <2>2. QED BY <1>1, <1>2, <1>4, <2>1, AcceptedBlock DEF Balanced, Chain
<1>6. \A c \in Containers : outer'[c] \in Nat
  BY <1>1, OuterFact
<1>7. TypeOK'
  <2>1. locks' \in [Containers -> Nat]
    BY <1>1, <1>6
  <2>2. QED BY <1>1, <1>3, <2>1 DEF ExecutionInv, TypeOK
<1>8. HeldAsValidated'
  <2>1. Len(held') = 0 /\ DOMAIN held' = {} /\ before'[at'][index'] = <<>>
    BY <1>1, <1>2, <1>3, <1>5
  <2>2. QED BY <2>1 DEF HeldAsValidated
<1>9. LocksExact'
  <2>1. ASSUME NEW c \in Containers PROVE locks'[c] = outer'[c] + Count(held', c)
    <3>1. {n \in DOMAIN held' : held'[n] = c} = {}
      BY <1>1, <1>2
    <3>2. Count(held', c) = 0
      BY <3>1, FS_EmptySet DEF Count
    <3>3. QED BY <1>1, <1>6, <3>2
  <2>2. QED BY <2>1 DEF LocksExact
<1>10. LengthsKept'
  BY <1>1, <1>2 DEF LengthsKept
<1>11. QED BY <1>1, <1>3, <1>4, <1>7, <1>8, <1>9, <1>10
            DEF ExecutionInv, NeverUnlocked, FailuresFromOutside

\* Returning and stopping touch no container.
LEMMA EndingStep ==
  ASSUME ExecutionInv, Leave
  PROVE  ExecutionInv'
<1>1. /\ UNCHANGED balanceVars
      /\ UNCHANGED <<at, index, value, locks, length, held, began, outer, position>>
      /\ stage = "running" /\ index = Terminator(at) /\ stage' \in {"returned", "stopped"}
      /\ stage' = "returned" => function[at].exit = "return"
  BY DEF Leave, AtTerminator, containers
<1>2. at \in Blocks
  BY DEF ExecutionInv, TypeOK
<1>3. /\ ValidatorInv' /\ BalanceTypeOK' /\ Terminator(at)' = Terminator(at)
      /\ before' = before /\ verdict' = verdict /\ states' = states /\ function' = function
  BY <1>1, <1>2, ValidatorDone DEF balanceVars, validator
<1>4. LocksExact' /\ LengthsKept'
  BY <1>1 DEF ExecutionInv, LocksExact, LengthsKept
<1>5. TypeOK'
  BY <1>1, <1>3 DEF ExecutionInv, TypeOK
<1>6. HeldAsValidated'
  BY <1>1, <1>3 DEF ExecutionInv, HeldAsValidated
<1>7. QED BY <1>1, <1>3, <1>4, <1>5, <1>6 DEF ExecutionInv, NeverUnlocked, FailuresFromOutside

-----------------------------------------------------------------------------
(* The theorems. *)

\* The empty execution satisfies the invariant.
LEMMA ExecutionInit == Init => ExecutionInv
<1> SUFFICES ASSUME Init PROVE ExecutionInv OBVIOUS
<1>1. ValidatorInv /\ BalanceTypeOK
  BY ValidatorInit DEF Init, ValidatorInv
<1>2. at \in Blocks /\ index \in 1 .. Terminator(at)
  BY <1>1, BlockFacts, BalanceAssumption DEF Init
<1>3. TypeOK
  BY <1>1, <1>2 DEF Init, TypeOK
<1>4. QED BY <1>1, <1>3
          DEF Init, ExecutionInv, NeverUnlocked, FailuresFromOutside, HeldAsValidated

\* Every step preserves the invariant; the validator moves only while compiling.
LEMMA ExecutionStep == ExecutionInv /\ [Next]_vars => ExecutionInv'
<1> SUFFICES ASSUME ExecutionInv, [Next]_vars PROVE ExecutionInv' OBVIOUS
<1>1. CASE Validate /\ UNCHANGED execution
  <2>1. verdict = "running" /\ stage = "compiling" /\ function' = function
    BY <1>1 DEF ExecutionInv, Validate, TakeBlock, TransferOperation, LeaveOperations,
                JoinSuccessor, AtSuccessor, FinishBlock, Accept, Fail
  <2>2. ValidatorInv' /\ BalanceTypeOK'
    BY <1>1, ValidatorStep DEF ExecutionInv, ValidatorInv
  <2>3. Terminator(at)' = Terminator(at)
    BY <1>1, <2>1 DEF execution, Terminator, Operations
  <2>4. TypeOK'
    BY <1>1, <2>2, <2>3 DEF ExecutionInv, TypeOK, execution, containers
  <2>5. stage' = "compiling" /\ UNCHANGED <<at, index, held, began>>
    BY <1>1, <2>1 DEF execution, containers
  <2>6. QED BY <2>1, <2>2, <2>4, <2>5
            DEF ExecutionInv, NeverUnlocked, FailuresFromOutside, HeldAsValidated
<1>2. CASE Execute
  BY <1>2, BeginStep, EndStep, ValueStep, OtherStep, PanicStep, GotoStep, CallStep, EndingStep
     DEF Execute
<1>3. CASE UNCHANGED vars
  <2>1. UNCHANGED balanceVars /\ UNCHANGED execution
    BY <1>3 DEF vars
  <2>2. /\ ValidatorInv' /\ BalanceTypeOK' /\ Terminator(at)' = Terminator(at)
        /\ before' = before /\ verdict' = verdict /\ states' = states /\ function' = function
    BY <2>1, ValidatorDone DEF balanceVars, validator, execution, Terminator, Operations
  <2>3. TypeOK'
    BY <2>1, <2>2 DEF ExecutionInv, TypeOK, execution, containers
  <2>4. UNCHANGED <<stage, at, index, value, locks, length, outer, held, began, position>>
    BY <2>1 DEF execution, containers
  <2>5. HeldAsValidated' /\ NeverUnlocked' /\ FailuresFromOutside'
    BY <2>2, <2>4 DEF ExecutionInv, HeldAsValidated, NeverUnlocked, FailuresFromOutside
  <2>6. stage # "compiling" => LocksExact' /\ LengthsKept'
    BY <2>4 DEF ExecutionInv, LocksExact, LengthsKept
  <2>7. QED BY <2>2, <2>3, <2>4, <2>5, <2>6 DEF ExecutionInv
<1>4. QED BY <1>1, <1>2, <1>3 DEF Next

\* The invariant holds throughout.
THEOREM ExecutionInvariant == Spec => []ExecutionInv
<1>1. QED BY ExecutionInit, ExecutionStep, PTL DEF Spec

\* No accepted function, with however many blocks, temporaries and containers,
\* comes to an iteration_value or end_iteration whose container is not locked.
THEOREM AcceptedFindsLocked == Spec => []NeverUnlocked
<1>1. ExecutionInv => NeverUnlocked
  BY DEF ExecutionInv
<1>2. QED BY <1>1, ExecutionInvariant, PTL

\* What else begin_iteration and iteration_value check fails only for what comes
\* from outside of the function's iterations: the locks of its callers together
\* with its own depth, or an index that was outside when the iteration began.
THEOREM AcceptedFailsFromOutside == Spec => []FailuresFromOutside
<1>1. ExecutionInv => FailuresFromOutside
  BY DEF ExecutionInv
<1>2. QED BY <1>1, ExecutionInvariant, PTL

\* So much acceptance promises of the invariants of an iteration, and no more.
THEOREM AcceptedKeepsInvariants == Spec => []IterationInvariants
<1>1. NeverUnlocked /\ FailuresFromOutside => IterationInvariants
  BY DEF IterationInvariants
<1>2. QED BY <1>1, AcceptedFindsLocked, AcceptedFailsFromOutside, PTL

\* What is locked is what the validator's stack names.
THEOREM AcceptedHoldsStack == Spec => []HeldAsValidated
<1>1. ExecutionInv => HeldAsValidated
  BY DEF ExecutionInv
<1>2. QED BY <1>1, ExecutionInvariant, PTL

\* Every element is read from the container of the innermost iteration.
THEOREM ValueReadsInnermost == Spec => []ValueOfInnermost
<1>1. ExecutionInv => ValueOfInnermost
  <2>1. SUFFICES ASSUME ExecutionInv, stage = "running", index <= Len(Operations(at)),
                        Operations(at)[index].kind = "value"
                 PROVE  held # <<>> /\ Operand \in Temporaries /\ held[Len(held)] = value[Operand]
    BY DEF ValueOfInnermost
  <2>2. QED BY <2>1, InnermostLocked
<1>2. QED BY <1>1, ExecutionInvariant, PTL

\* An accepted function returns with every container it locked unlocked.
THEOREM AcceptedReturnsUnlocked == Spec => []ReturnsUnlocked
<1>1. ExecutionInv => ReturnsUnlocked
  <2>1. SUFFICES ASSUME ExecutionInv, stage = "returned", NEW c \in Containers
                 PROVE  locks[c] = outer[c]
    BY DEF ReturnsUnlocked
  <2>2. /\ at \in Blocks /\ ValidatorInv /\ verdict = "accepted" /\ states[at] # unreached
        /\ function[at].exit = "return" /\ index = Terminator(at)
        /\ Len(held) = Len(before[at][index]) /\ held \in Seq(Containers)
        /\ locks[c] = outer[c] + Count(held, c) /\ outer \in [Containers -> OuterLocks]
    BY <2>1 DEF ExecutionInv, TypeOK, HeldAsValidated, LocksExact
  <2>3. before[at][index] = <<>>
    BY <2>2, AcceptedBlock DEF Balanced
  <2>4. {n \in DOMAIN held : held[n] = c} = {}
    BY <2>2, <2>3
  <2>5. Count(held, c) = 0 /\ outer[c] \in Nat
    BY <2>1, <2>2, <2>4, FS_EmptySet, OuterFact DEF Count
  <2>6. QED BY <2>2, <2>5
<1>2. QED BY <1>1, ExecutionInvariant, PTL

\* Validation takes every block at most once.
THEOREM EachBlockOnce == Spec => []WorklistOnce
<1>1. ExecutionInv => WorklistOnce
  BY DEF ExecutionInv, ValidatorInv, WorklistExact
<1>2. QED BY <1>1, ExecutionInvariant, PTL

-----------------------------------------------------------------------------
(* Narrowing: the frames. *)

Kinds == Narrowing!Openings \cup Narrowing!Branches \cup Narrowing!Exits \cup {"assign", "end"}
TypeNames == Alternatives \cup {Opaque}
Lowerings == [type : TypeNames, local : Nat]
Tokens == [kind : Kinds, test : TypeNames]
Notes == [type : TypeNames, next : Nat, origin : Nat, local : Nat]
Frames == [kind : Narrowing!Openings \cup {"function"}, start : Nat, branch : Nat, outer : TypeNames,
           lowered : Lowerings, complete : BOOLEAN, assigned : BOOLEAN, falls : BOOLEAN,
           assigns : BOOLEAN, removes : BOOLEAN, continues : BOOLEAN]

\* What the checker narrows to, the lowering has a temporary for.
Matches(type, lowering, size) ==
  /\ type # Opaque => lowering.type = type
  /\ lowering.type # Opaque <=> lowering.local # 0
  /\ lowering.local <= size

FrameRight(f, size) ==
  /\ f \in Frames
  /\ Matches(f.outer, f.lowered, size)
  /\ f.removes => f.assigns
  /\ f.kind = "switch" => f.outer = Opaque

\* A statement and its last branch stand in the program.
Inside(f, tokens) ==
  /\ f.kind # "function"
  /\ 0 < f.start /\ f.start <= f.branch /\ f.branch <= Len(tokens)
  /\ tokens[f.start].kind = f.kind
  /\ f.branch # f.start => tokens[f.branch].kind \in Narrowing!Branches /\ f.kind \in {"if", "value", "switch"}
  /\ f.complete /\ f.kind \in {"if", "value"} => tokens[f.branch].kind = "else"

\* Where nothing is tested, nothing is narrowed to what it was not before.
KeepsType(f, type) == f.kind \in {"for", "block"} => type \in {Opaque, f.outer}

\* The statements both passes are inside of, each in the body under way around it.
FramesRight(fs, tokens) ==
  /\ fs \in Seq(Frames) /\ Len(fs) >= 1
  /\ fs[1].kind = "function" /\ fs[1].branch = 0
  /\ \A n \in 1 .. Len(fs) : FrameRight(fs[n], Len(tokens))
  /\ \A n \in 2 .. Len(fs) : Inside(fs[n], tokens) /\ KeepsType(fs[n - 1], fs[n].outer)
  /\ \A n \in 1 .. Len(fs) - 1 : fs[n].falls

\* A step pushes a frame, pops one, or changes the top.
Replaced(fs, fs2, M, g) ==
  /\ M \in 1 .. Len(fs) + 1
  /\ fs2 \in Seq(Frames) /\ Len(fs2) = M /\ fs2[M] = g
  /\ \A n \in 1 .. M - 1 : fs2[n] = fs[n]

\* The innermost statement is a frame, and stands in the program unless it is the
\* function.
LEMMA TopIs ==
  ASSUME NEW fs, NEW tokens, tokens \in Seq(Tokens), FramesRight(fs, tokens)
  PROVE  /\ Len(fs) \in Nat \ {0} /\ Len(tokens) \in Nat
         /\ fs[Len(fs)] \in Frames /\ FrameRight(fs[Len(fs)], Len(tokens))
         /\ fs[Len(fs)].kind # "function" => Len(fs) > 1
         /\ Len(fs) > 1 => Inside(fs[Len(fs)], tokens)
<1>1. Len(fs) \in Nat \ {0} /\ Len(tokens) \in Nat /\ Len(fs) \in 1 .. Len(fs)
  BY DEF FramesRight
<1>2. Len(fs) > 1 => Len(fs) \in 2 .. Len(fs)
  BY <1>1
<1>3. FrameRight(fs[Len(fs)], Len(tokens))
  BY <1>1 DEF FramesRight
<1>4. Len(fs) > 1 => Inside(fs[Len(fs)], tokens)
  BY <1>2 DEF FramesRight
<1>5. fs[Len(fs)].kind # "function" => Len(fs) > 1
  BY <1>1 DEF FramesRight
<1> QED BY <1>1, <1>3, <1>4, <1>5 DEF FrameRight

\* A longer program changes nothing for the frames there are.
LEMMA StillRight ==
  ASSUME NEW f, NEW size, size \in Nat, FrameRight(f, size)
  PROVE  FrameRight(f, size + 1)
BY DEF FrameRight, Matches, Frames, Lowerings

\* A statement stands in a program that grew, too.
LEMMA StillInside ==
  ASSUME NEW f, f \in Frames, NEW tokens, tokens \in Seq(Tokens),
         NEW t, t \in Tokens, Inside(f, tokens)
  PROVE  Inside(f, Append(tokens, t))
<1>1. f.start \in 1 .. Len(tokens) /\ f.branch \in 1 .. Len(tokens)
  BY DEF Inside, Frames
<1>2. Len(Append(tokens, t)) = Len(tokens) + 1
      /\ Append(tokens, t)[f.start] = tokens[f.start] /\ Append(tokens, t)[f.branch] = tokens[f.branch]
  BY <1>1
<1> QED BY <1>1, <1>2 DEF Inside

\* Whatever token comes, the frames stay right if the new top is.
LEMMA ReplacedRight ==
  ASSUME NEW tokens, tokens \in Seq(Tokens), NEW t, t \in Tokens,
         NEW fs, FramesRight(fs, tokens), NEW M, NEW g, NEW fs2, Replaced(fs, fs2, M, g),
         NEW tokens2, tokens2 = Append(tokens, t),
         FrameRight(g, Len(tokens2)),
         M = 1 => g.kind = "function" /\ g.branch = 0,
         M > 1 => Inside(g, tokens2) /\ KeepsType(fs[M - 1], g.outer),
         \A n \in 1 .. M - 1 : fs[n].falls
  PROVE  FramesRight(fs2, tokens2)
<1> DEFINE N == Len(fs)
           K == Len(tokens)
<1>1. /\ N \in Nat \ {0} /\ K \in Nat /\ N = Len(fs) /\ K = Len(tokens)
      /\ Len(tokens2) = K + 1
      /\ M \in 1 .. N + 1 /\ M \in Nat
  BY TopIs DEF Replaced
<1>2. /\ fs2 \in Seq(Frames) /\ Len(fs2) = M /\ fs2[M] = g
      /\ \A n \in 1 .. M - 1 : fs2[n] = fs[n] /\ n \in 1 .. N
  BY <1>1 DEF Replaced
<1>3. \A n \in 1 .. N : FrameRight(fs[n], K) /\ fs[n] \in Frames
  BY <1>1 DEF FramesRight, FrameRight
<1>4. \A n \in 2 .. N : Inside(fs[n], tokens) /\ KeepsType(fs[n - 1], fs[n].outer)
  BY <1>1 DEF FramesRight
<1>5. \A n \in 1 .. N - 1 : fs[n].falls
  BY <1>1 DEF FramesRight
<1>6. fs[1].kind = "function" /\ fs[1].branch = 0
  BY DEF FramesRight
<1> HIDE DEF N, K
<1>7. ASSUME NEW n \in 1 .. M PROVE FrameRight(fs2[n], K + 1)
  <2>1. n = M \/ n \in 1 .. M - 1
    BY <1>1
  <2>2. ASSUME n \in 1 .. M - 1 PROVE FrameRight(fs2[n], K + 1)
    BY <1>1, <1>2, <1>3, <2>2, StillRight
  <2> QED BY <1>1, <1>2, <2>1, <2>2
<1>8. ASSUME NEW n \in 2 .. M PROVE Inside(fs2[n], tokens2) /\ KeepsType(fs2[n - 1], fs2[n].outer)
  <2>1. n - 1 \in 1 .. M - 1 /\ (n = M \/ n \in 1 .. M - 1) /\ M > 1 /\ fs2[n - 1] = fs[n - 1]
    BY <1>1, <1>2
  <2>2. ASSUME n \in 1 .. M - 1 PROVE Inside(fs2[n], tokens2) /\ KeepsType(fs2[n - 1], fs2[n].outer)
    <3>1. n \in 2 .. N /\ n \in 1 .. N /\ fs2[n] = fs[n]
      BY <1>1, <1>2, <2>2
    <3>2. Inside(fs[n], tokens2)
      BY <1>3, <1>4, <3>1, StillInside
    <3> QED BY <1>4, <2>1, <3>1, <3>2
  <2>3. ASSUME n = M PROVE Inside(fs2[n], tokens2) /\ KeepsType(fs2[n - 1], fs2[n].outer)
    BY <1>2, <2>1, <2>3
  <2> QED BY <2>1, <2>2, <2>3
<1>9. \A n \in 1 .. M - 1 : fs2[n].falls
  BY <1>2
<1>10. fs2[1].kind = "function" /\ fs2[1].branch = 0
  <2>1. CASE M = 1
    BY <1>2, <2>1
  <2>2. CASE M > 1
    BY <1>1, <1>2, <1>6, <2>2
  <2> QED BY <1>1, <2>1, <2>2
<1>11. M >= 1
  BY <1>1
<1> QED BY <1>1, <1>2, <1>7, <1>8, <1>9, <1>10, <1>11 DEF FramesRight

-----------------------------------------------------------------------------
(* Narrowing: the notes. *)

\* What is noted at a token leads back to a loop around it.
NoteRight(p, tokens, ns) ==
  LET note == ns[p]
      kind == tokens[p].kind IN
  /\ note.local <= p /\ (note.type # Opaque => note.local # 0)
  /\ note.origin < p
  /\ kind \in {"block", "else"} => tokens[p].test = Opaque
  /\ kind \in {"break", "continue"} => note.origin # 0
  /\ kind \in Narrowing!Exits \cup {"end"} /\ note.origin # 0 => tokens[note.origin].kind \in Narrowing!Loops

\* The next branch of a statement, or its end, is linked to the one before.
LinkRight(p, tokens, ns) ==
  tokens[p].kind \in Narrowing!Openings \cup Narrowing!Branches =>
    /\ ns[p].next > p /\ ns[p].next <= Len(tokens)
    /\ tokens[ns[p].next].kind \in Narrowing!Branches \cup {"end"}
    /\ tokens[p].kind \in Narrowing!Loops => tokens[ns[p].next].kind = "end"

\* The branches under way have no link yet.
NotesRight(tokens, ns, pending) ==
  /\ tokens \in Seq(Tokens) /\ ns \in Seq(Notes) /\ Len(ns) = Len(tokens)
  /\ \A p \in 1 .. Len(tokens) : NoteRight(p, tokens, ns) /\ ns[p].next <= Len(tokens)
  /\ \A p \in 1 .. Len(tokens) : p \notin pending => LinkRight(p, tokens, ns)

\* A step appends a token and its note, and may link a branch b to it.
Extended(tokens, ns, pending, t, b, tokens2, ns2, pending2) ==
  /\ t \in Tokens /\ tokens2 = Append(tokens, t)
  /\ ns2 \in Seq(Notes) /\ Len(ns2) = Len(tokens) + 1
  /\ \A p \in 1 .. Len(tokens) :
       /\ ns2[p].type = ns[p].type /\ ns2[p].local = ns[p].local /\ ns2[p].origin = ns[p].origin
       /\ ns2[p].next = IF p = b THEN Len(tokens) + 1 ELSE ns[p].next
       /\ p # b /\ p \notin pending2 => p \notin pending
  /\ t.kind \in Narrowing!Openings \cup Narrowing!Branches => Len(tokens) + 1 \in pending2

\* What a program and its notes are after one more token.
LEMMA TokensExtended ==
  ASSUME NEW tokens, NEW ns, NEW pending, NotesRight(tokens, ns, pending), NEW t, NEW b,
         NEW tokens2, NEW ns2, NEW pending2,
         Extended(tokens, ns, pending, t, b, tokens2, ns2, pending2)
  PROVE  /\ Len(tokens) \in Nat /\ tokens2 \in Seq(Tokens) /\ Len(tokens2) = Len(tokens) + 1
         /\ tokens2[Len(tokens) + 1] = t
         /\ \A p \in 1 .. Len(tokens) :
              /\ tokens2[p] = tokens[p] /\ tokens[p] \in Tokens
              /\ ns[p] \in Notes /\ ns2[p] \in Notes
              /\ ns[p].next \in Nat /\ ns[p].origin \in Nat /\ ns[p].local \in Nat
<1>1. /\ tokens \in Seq(Tokens) /\ ns \in Seq(Notes) /\ Len(ns) = Len(tokens) /\ t \in Tokens
      /\ tokens2 = Append(tokens, t) /\ ns2 \in Seq(Notes) /\ Len(ns2) = Len(tokens) + 1
  BY DEF NotesRight, Extended
<1>2. Len(tokens) \in Nat /\ tokens2 \in Seq(Tokens) /\ Len(tokens2) = Len(tokens) + 1
      /\ tokens2[Len(tokens) + 1] = t
  BY <1>1
<1>3. ASSUME NEW p \in 1 .. Len(tokens)
      PROVE  /\ tokens2[p] = tokens[p] /\ tokens[p] \in Tokens
             /\ ns[p] \in Notes /\ ns2[p] \in Notes
  BY <1>1
<1>4. \A p \in 1 .. Len(tokens) : ns[p].next \in Nat /\ ns[p].origin \in Nat /\ ns[p].local \in Nat
  BY <1>3 DEF Notes
<1> QED BY <1>2, <1>3, <1>4

\* A token whose note is right, linked to as it may be, leaves the notes right.
LEMMA NotesExtended ==
  ASSUME NEW tokens, NEW ns, NEW pending, NotesRight(tokens, ns, pending), NEW t, NEW b,
         NEW tokens2, NEW ns2, NEW pending2,
         Extended(tokens, ns, pending, t, b, tokens2, ns2, pending2),
         NoteRight(Len(tokens) + 1, tokens2, ns2), ns2[Len(tokens) + 1].next = 0,
         b \in 1 .. Len(tokens) =>
           /\ t.kind \in Narrowing!Branches \cup {"end"}
           /\ tokens[b].kind \in Narrowing!Loops => t.kind = "end"
  PROVE  NotesRight(tokens2, ns2, pending2)
<1> DEFINE K == Len(tokens)
<1>1. /\ K \in Nat /\ tokens2 \in Seq(Tokens) /\ Len(tokens2) = K + 1 /\ tokens2[K + 1] = t
      /\ ns2 \in Seq(Notes) /\ Len(ns2) = K + 1 /\ K = Len(tokens)
  <2>1. /\ Len(tokens) \in Nat /\ tokens2 \in Seq(Tokens) /\ Len(tokens2) = Len(tokens) + 1
        /\ tokens2[Len(tokens) + 1] = t
    BY TokensExtended
  <2> QED BY <2>1 DEF Extended
<1>2. \A p \in 1 .. K :
        /\ tokens2[p] = tokens[p]
        /\ ns[p].next \in Nat /\ ns[p].origin \in Nat /\ ns[p].local \in Nat
        /\ NoteRight(p, tokens, ns) /\ ns[p].next <= K
        /\ p \notin pending => LinkRight(p, tokens, ns)
        /\ ns2[p].type = ns[p].type /\ ns2[p].local = ns[p].local /\ ns2[p].origin = ns[p].origin
        /\ ns2[p].next = IF p = b THEN K + 1 ELSE ns[p].next
        /\ p # b /\ p \notin pending2 => p \notin pending
  <2>1. \A p \in 1 .. K :
          /\ tokens2[p] = tokens[p]
          /\ ns[p].next \in Nat /\ ns[p].origin \in Nat /\ ns[p].local \in Nat
    BY TokensExtended
  <2>2. \A p \in 1 .. K :
          /\ NoteRight(p, tokens, ns) /\ ns[p].next <= K
          /\ p \notin pending => LinkRight(p, tokens, ns)
    BY DEF NotesRight
  <2>3. \A p \in 1 .. K :
          /\ ns2[p].type = ns[p].type /\ ns2[p].local = ns[p].local /\ ns2[p].origin = ns[p].origin
          /\ ns2[p].next = IF p = b THEN K + 1 ELSE ns[p].next
          /\ p # b /\ p \notin pending2 => p \notin pending
    BY DEF Extended
  <2> QED BY <2>1, <2>2, <2>3
<1>3. t.kind \in Narrowing!Openings \cup Narrowing!Branches => K + 1 \in pending2
  BY DEF Extended
<1>4. /\ NoteRight(K + 1, tokens2, ns2) /\ ns2[K + 1].next = 0
      /\ b \in 1 .. K =>
           /\ t.kind \in Narrowing!Branches \cup {"end"}
           /\ tokens[b].kind \in Narrowing!Loops => t.kind = "end"
  OBVIOUS
<1> HIDE DEF K
<1>5. ASSUME NEW p \in 1 .. K PROVE NoteRight(p, tokens2, ns2) /\ ns2[p].next <= K + 1
  <2>1. NoteRight(p, tokens, ns) /\ ns[p].origin \in Nat /\ p \in Nat
    BY <1>1, <1>2
  <2>2. ns[p].origin < p
    BY <2>1 DEF NoteRight
  <2>3. ns[p].origin # 0 => tokens2[ns[p].origin] = tokens[ns[p].origin]
    BY <1>1, <1>2, <2>1, <2>2
  <2>4. NoteRight(p, tokens2, ns2)
    BY <1>2, <2>1, <2>3 DEF NoteRight
  <2>5. ns2[p].next <= K + 1
    BY <1>1, <1>2, SMTT(30)
  <2> QED BY <2>4, <2>5
<1>6. ASSUME NEW p \in 1 .. K, p \notin pending2, p # b PROVE LinkRight(p, tokens2, ns2)
  <2>1. LinkRight(p, tokens, ns) /\ tokens2[p] = tokens[p] /\ ns2[p].next = ns[p].next /\ ns[p].next \in Nat
    BY <1>2, <1>6
  <2>2. ASSUME tokens[p].kind \in Narrowing!Openings \cup Narrowing!Branches
        PROVE  ns[p].next \in 1 .. K
    BY <1>1, <2>1, <2>2 DEF LinkRight
  <2> QED BY <1>1, <1>2, <2>1, <2>2 DEF LinkRight
<1>7. ASSUME b \in 1 .. K PROVE LinkRight(b, tokens2, ns2)
  BY <1>1, <1>2, <1>4, <1>7 DEF LinkRight
<1>8. ASSUME NEW p \in 1 .. K + 1, p \notin pending2 PROVE LinkRight(p, tokens2, ns2)
  <2>1. CASE p = K + 1
    BY <1>1, <1>3, <1>8, <2>1 DEF LinkRight
  <2>2. CASE p = b /\ p # K + 1
    BY <1>1, <1>7, <2>2
  <2>3. CASE p # b /\ p # K + 1
    BY <1>1, <1>6, <1>8, <2>3
  <2> QED BY <2>1, <2>2, <2>3
<1>9. \A p \in 1 .. K + 1 : NoteRight(p, tokens2, ns2) /\ ns2[p].next <= K + 1
  BY <1>1, <1>4, <1>5
<1> QED BY <1>1, <1>8, <1>9 DEF NotesRight

-----------------------------------------------------------------------------
(* Narrowing: what is known where.  A fact is the temporary that holds the    *)
(* payload of x: 0 where none does, and Unreachable where nothing comes.      *)

Unreachable == -1
KnownAs(type, lowering) == IF type = Opaque THEN 0 ELSE lowering.local

\* Going from one point to another loses what is known, or keeps it.
Flows(a, b) == a = Unreachable \/ b = 0 \/ b = a

\* A test or a branch starts from in[p] or, past the branch before it, from out[p].
FromHere(p, tokens, in, out) == IF tokens[p].kind \in Narrowing!Branches THEN out[p] ELSE in[p]
Behind(p, tokens, in, out) ==
  IF tokens[p].test # Opaque THEN p ELSE FromHere(p, tokens, in, out)

StepFlows(p, tokens, ns, in, out) ==
  LET kind == tokens[p].kind
      origin == ns[p].origin IN
  /\ kind \notin Narrowing!Branches \cup {"end"} => out[p] = Unreachable
  /\ kind = "assign" => Flows(0, in[p + 1])
  /\ kind \in Narrowing!Openings \cup Narrowing!Branches => Flows(Behind(p, tokens, in, out), in[p + 1])
  /\ kind = "end" /\ origin = 0 => Flows(in[p], in[p + 1]) /\ Flows(out[p], in[p + 1])
  /\ kind = "end" /\ origin # 0 => Flows(in[p], in[origin]) /\ out[p] = Unreachable
  /\ kind \in {"break", "continue"} => Flows(in[p], in[origin])

LinkFlows(p, tokens, ns, in, out) ==
  LET kind == tokens[p].kind
      target == ns[p].next IN
  /\ kind \in Narrowing!Loops => Flows(in[p], in[target + 1])
  /\ kind \in {"if", "value", "switch", "elif", "arm"} =>
       Flows(FromHere(p, tokens, in, out), out[target])
  /\ kind \in Narrowing!Branches => Flows(in[p], IF tokens[target].kind = "end" THEN out[target] ELSE in[target])

\* in[K + 1] is what is known where the next token will stand.
Facts(K, in, out) == in \in [1 .. K + 1 -> Int] /\ out \in [1 .. K -> Int]

FlowsRight(tokens, ns, pending, in, out) ==
  /\ Facts(Len(tokens), in, out)
  /\ Flows(0, in[1])
  /\ \A p \in 1 .. Len(tokens) :
       /\ StepFlows(p, tokens, ns, in, out)
       /\ tokens[p].kind \in Narrowing!Openings \cup Narrowing!Branches /\ p \notin pending =>
            LinkFlows(p, tokens, ns, in, out)
       /\ ns[p].type # Opaque =>
            FromHere(p, tokens, in, out) \in {Unreachable, ns[p].local}

\* What is known where the token comes, behind it, and where the next will stand.
Grown(K, in, out, new, past, now, in2, out2) ==
  /\ new \in Int /\ past \in Int /\ now \in Int
  /\ Flows(in[K + 1], new)
  /\ in2 = [q \in 1 .. K + 2 |-> IF q = K + 2 THEN now ELSE IF q = K + 1 THEN new ELSE in[q]]
  /\ out2 = [q \in 1 .. K + 1 |-> IF q = K + 1 THEN past ELSE out[q]]

\* What flows to what flows on, flows there.
LEMMA FlowsOn ==
  ASSUME NEW a, NEW b, NEW c, Flows(a, b), Flows(b, c)
  PROVE  Flows(a, c)
BY DEF Flows, Unreachable

\* What flowed to a point flows to it still.
StillFlows(K, in, in2) == \A q \in 1 .. K + 1 : \A a : Flows(a, in[q]) => Flows(a, in2[q])

\* What the facts are after one more token.
LEMMA GrownIs ==
  ASSUME NEW K, K \in Nat, NEW in, NEW out, Facts(K, in, out),
         NEW new, NEW past, NEW now, NEW in2, NEW out2, Grown(K, in, out, new, past, now, in2, out2)
  PROVE  /\ Facts(K + 1, in2, out2)
         /\ in2[K + 1] = new /\ in2[K + 2] = now /\ out2[K + 1] = past
         /\ \A q \in 1 .. K : in2[q] = in[q] /\ out2[q] = out[q]
         /\ StillFlows(K, in, in2)
<1>1. /\ in2 \in [1 .. K + 2 -> Int] /\ out2 \in [1 .. K + 1 -> Int]
      /\ in2[K + 1] = new /\ in2[K + 2] = now /\ out2[K + 1] = past
      /\ \A q \in 1 .. K : in2[q] = in[q] /\ out2[q] = out[q]
  BY DEF Grown, Facts
<1>2. ASSUME NEW a, NEW q \in 1 .. K + 1, Flows(a, in[q]) PROVE Flows(a, in2[q])
  <2>1. q = K + 1 \/ q \in 1 .. K
    OBVIOUS
  <2>2. CASE q = K + 1
    BY <1>1, <1>2, <2>2, FlowsOn DEF Grown
  <2>3. CASE q \in 1 .. K
    BY <1>1, <1>2, <2>3
  <2> QED BY <2>1, <2>2, <2>3
<1> QED BY <1>1, <1>2 DEF Facts, StillFlows


\* What a step knows of the new token, and of the branch it links.
LEMMA FlowsExtended ==
  ASSUME NEW tokens, NEW ns, NEW pending, NotesRight(tokens, ns, pending), NEW t, NEW b,
         NEW tokens2, NEW ns2, NEW pending2,
         Extended(tokens, ns, pending, t, b, tokens2, ns2, pending2),
         NEW in, NEW out, FlowsRight(tokens, ns, pending, in, out),
         NEW new, NEW past, NEW now, NEW in2, NEW out2,
         Grown(Len(tokens), in, out, new, past, now, in2, out2),
         StepFlows(Len(tokens) + 1, tokens2, ns2, in2, out2),
         ns2[Len(tokens) + 1].type # Opaque =>
           FromHere(Len(tokens) + 1, tokens2, in2, out2) \in {Unreachable, ns2[Len(tokens) + 1].local},
         b \in 1 .. Len(tokens) => LinkFlows(b, tokens2, ns2, in2, out2)
  PROVE  FlowsRight(tokens2, ns2, pending2, in2, out2)
<1> DEFINE K == Len(tokens)
<1>1. /\ K \in Nat /\ Len(tokens2) = K + 1 /\ tokens2[K + 1] = t
      /\ \A p \in 1 .. K :
           /\ tokens2[p] = tokens[p]
           /\ ns[p].next \in Nat /\ ns[p].origin \in Nat /\ ns[p].local \in Nat
      /\ K = Len(tokens) /\ Grown(K, in, out, new, past, now, in2, out2)
  BY TokensExtended
<1>2. \A p \in 1 .. K :
        /\ NoteRight(p, tokens, ns)
        /\ p \notin pending => LinkRight(p, tokens, ns)
  BY DEF NotesRight
<1>3. \A p \in 1 .. K :
        /\ ns2[p].type = ns[p].type /\ ns2[p].local = ns[p].local /\ ns2[p].origin = ns[p].origin
        /\ ns2[p].next = IF p = b THEN K + 1 ELSE ns[p].next
        /\ p # b /\ p \notin pending2 => p \notin pending
  BY DEF Extended
<1>4. t.kind \in Narrowing!Openings \cup Narrowing!Branches => K + 1 \in pending2
  BY DEF Extended
<1>5. /\ Facts(K, in, out)
      /\ Flows(0, in[1])
      /\ \A p \in 1 .. K :
           /\ StepFlows(p, tokens, ns, in, out)
           /\ tokens[p].kind \in Narrowing!Openings \cup Narrowing!Branches /\ p \notin pending =>
                LinkFlows(p, tokens, ns, in, out)
           /\ ns[p].type # Opaque =>
                FromHere(p, tokens, in, out) \in {Unreachable, ns[p].local}
  BY DEF FlowsRight
<1>6. /\ Facts(K + 1, in2, out2)
      /\ \A q \in 1 .. K : in2[q] = in[q] /\ out2[q] = out[q]
      /\ StillFlows(K, in, in2)
  <2> HIDE DEF K
  <2> QED BY ONLY <1>1, <1>5, GrownIs
<1>7. /\ StepFlows(K + 1, tokens2, ns2, in2, out2)
      /\ ns2[K + 1].type # Opaque =>
           FromHere(K + 1, tokens2, in2, out2) \in {Unreachable, ns2[K + 1].local}
      /\ b \in 1 .. K => LinkFlows(b, tokens2, ns2, in2, out2)
  OBVIOUS
<1> HIDE DEF K
<1>8. ASSUME NEW p \in 1 .. K
      PROVE  /\ FromHere(p, tokens2, in2, out2) = FromHere(p, tokens, in, out)
             /\ Behind(p, tokens2, in2, out2) = Behind(p, tokens, in, out)
  BY <1>1, <1>6 DEF FromHere, Behind
<1>9. ASSUME NEW p \in 1 .. K PROVE StepFlows(p, tokens2, ns2, in2, out2)
  <2>1. StepFlows(p, tokens, ns, in, out) /\ NoteRight(p, tokens, ns)
        /\ p \in 1 .. K + 1 /\ p + 1 \in 1 .. K + 1 /\ ns[p].origin \in Nat
    BY <1>1, <1>2, <1>5
  <2>2. ns[p].origin # 0 => ns[p].origin \in 1 .. K
    BY <1>1, <2>1 DEF NoteRight
  <2>3. tokens[p].kind \in {"break", "continue"} => ns[p].origin # 0
    BY <2>1 DEF NoteRight
  <2>4. \A a : Flows(a, in[p + 1]) => Flows(a, in2[p + 1])
    BY <1>6, <2>1 DEF StillFlows
  <2>5. ns[p].origin # 0 => in2[ns[p].origin] = in[ns[p].origin]
    BY <1>6, <2>2
  <2> QED BY <1>1, <1>3, <1>6, <1>8, <2>1, <2>3, <2>4, <2>5 DEF StepFlows
<1>10. ASSUME NEW p \in 1 .. K, tokens[p].kind \in Narrowing!Openings \cup Narrowing!Branches, p \notin pending2, p # b
       PROVE  LinkFlows(p, tokens2, ns2, in2, out2)
  <2>1. LinkFlows(p, tokens, ns, in, out) /\ LinkRight(p, tokens, ns)
    BY <1>2, <1>3, <1>5, <1>10
  <2>2. ns2[p].next = ns[p].next /\ ns[p].next \in 1 .. K /\ ns[p].next + 1 \in 1 .. K + 1
    BY <1>1, <1>3, <1>10, <2>1 DEF LinkRight
  <2>3. /\ \A a : Flows(a, in[ns[p].next + 1]) => Flows(a, in2[ns[p].next + 1])
        /\ in2[ns[p].next] = in[ns[p].next] /\ out2[ns[p].next] = out[ns[p].next]
        /\ tokens2[ns[p].next] = tokens[ns[p].next]
        /\ in2[p] = in[p] /\ tokens2[p] = tokens[p]
    BY <1>1, <1>6, <2>2 DEF StillFlows
  <2> QED BY <1>8, <2>1, <2>2, <2>3 DEF LinkFlows
<1>11. ASSUME NEW p \in 1 .. K + 1, tokens2[p].kind \in Narrowing!Openings \cup Narrowing!Branches, p \notin pending2
       PROVE  LinkFlows(p, tokens2, ns2, in2, out2)
  <2>1. p # K + 1
    BY <1>1, <1>4, <1>11
  <2>2. p \in 1 .. K /\ tokens2[p] = tokens[p]
    BY <1>1, <2>1
  <2> QED BY <1>7, <1>10, <1>11, <2>2
<1>12. ASSUME NEW p \in 1 .. K + 1
       PROVE  /\ StepFlows(p, tokens2, ns2, in2, out2)
              /\ ns2[p].type # Opaque =>
                   FromHere(p, tokens2, in2, out2) \in {Unreachable, ns2[p].local}
  <2>1. CASE p = K + 1
    BY <1>7, <2>1
  <2>2. CASE p # K + 1
    <3>1. p \in 1 .. K
      BY <1>1, <2>2
    <3> QED BY <1>3, <1>5, <1>8, <1>9, <3>1
  <2> QED BY <2>1, <2>2
<1>13. Flows(0, in2[1])
  <2>1. 1 \in 1 .. K + 1
    BY <1>1
  <2> QED BY <1>5, <1>6, <2>1 DEF StillFlows
<1> QED BY <1>1, <1>6, <1>11, <1>12, <1>13 DEF FlowsRight

-----------------------------------------------------------------------------
(* Narrowing: the frames and what is known. *)

Known(f) == KnownAs(f.outer, f.lowered)

\* A statement entered with x narrowed, in which an assignment would be carried
\* around a loop or hidden in an expression.
Guarded(fs, m) ==
  \/ fs[m].kind \in Narrowing!Loops /\ fs[m].outer # Opaque
  \/ \E n \in 1 .. m :
       /\ fs[n].outer # Opaque
       /\ fs[m].kind = "value" \/ (fs[m].kind = "block" /\ n < m)

\* None is assigned to there.
Calm(fs) ==
  \A m \in 1 .. Len(fs) : Guarded(fs, m) =>
    \A k \in m .. Len(fs) : ~fs[k].assigned /\ ~fs[k].assigns

\* What was known before a statement is known in it, and now, while none of the
\* bodies under way assigns.
Unassigned(fs, n, m) == \A k \in n .. m : ~fs[k].assigned
Keeps(fs, cur) ==
  /\ \A m \in 1 .. Len(fs) : \A n \in 1 .. m - 1 :
       Unassigned(fs, n, m - 1) /\ Known(fs[n]) # 0 => Known(fs[m]) = Known(fs[n])
  /\ \A n \in 1 .. Len(fs) :
       Unassigned(fs, n, Len(fs)) /\ Known(fs[n]) # 0 => cur = Known(fs[n])

\* What is known where the last branch of a statement ended.
Joined(f) == IF ~f.continues THEN Unreachable ELSE IF f.removes THEN 0 ELSE Known(f)

FrameFlows(f, in, out) ==
  /\ in[f.start] = Known(f)
  /\ f.branch # f.start => out[f.branch] = Known(f) /\ in[f.branch] = Joined(f)
  /\ f.branch = f.start => ~f.continues /\ ~f.removes

FramesFlow(fs, in, out) == \A n \in 2 .. Len(fs) : FrameFlows(fs[n], in, out)

PendingBranches(fs) == {fs[n].branch : n \in 2 .. Len(fs)}

\* Frames that were calm are, with one in the place of the innermost ones.
LEMMA ReplacedCalm ==
  ASSUME NEW fs, Len(fs) \in Nat \ {0}, Calm(fs), NEW M, NEW g, NEW fs2, Replaced(fs, fs2, M, g),
         M <= Len(fs) => g.kind = fs[M].kind /\ g.outer = fs[M].outer,
         M <= Len(fs) /\ (\A k \in M .. Len(fs) : ~fs[k].assigned /\ ~fs[k].assigns) =>
           ~g.assigned /\ ~g.assigns,
         M > Len(fs) => ~g.assigned /\ ~g.assigns
  PROVE  Calm(fs2)
<1> DEFINE N == Len(fs)
<1>1. /\ N \in Nat \ {0} /\ N = Len(fs) /\ M \in 1 .. N + 1 /\ M \in Nat
      /\ Len(fs2) = M /\ fs2[M] = g /\ \A n \in 1 .. M - 1 : fs2[n] = fs[n]
  BY DEF Replaced
<1>2. /\ M <= N => g.kind = fs[M].kind /\ g.outer = fs[M].outer
      /\ M <= N /\ (\A k \in M .. N : ~fs[k].assigned /\ ~fs[k].assigns) => ~g.assigned /\ ~g.assigns
      /\ M > N => ~g.assigned /\ ~g.assigns
  OBVIOUS
<1>3. \A m \in 1 .. N : Guarded(fs, m) => \A k \in m .. N : ~fs[k].assigned /\ ~fs[k].assigns
  BY DEF Calm
<1> HIDE DEF N
<1>4. ASSUME NEW m \in 1 .. M, Guarded(fs2, m), NEW k \in m .. M
      PROVE  ~fs2[k].assigned /\ ~fs2[k].assigns
  <2>1. CASE m <= N
    <3>1. \A n \in 1 .. m : fs2[n].kind = fs[n].kind /\ fs2[n].outer = fs[n].outer
      <4>1. ASSUME NEW n \in 1 .. m
            PROVE fs2[n].kind = fs[n].kind /\ fs2[n].outer = fs[n].outer
        <5>1. n \in 1 .. M - 1 \/ (n = M /\ M <= N)
          BY <1>1, <2>1
        <5> QED BY <1>1, <1>2, <5>1
      <4> QED BY <4>1
    <3>2. Guarded(fs, m)
      <4>1. m \in 1 .. m
        BY <1>1
      <4> QED BY <1>4, <3>1, <4>1 DEF Guarded
    <3>3. \A j \in m .. N : ~fs[j].assigned /\ ~fs[j].assigns
      BY <1>1, <1>3, <2>1, <3>2
    <3>4. CASE k = M
      <4>1. M <= N => \A j \in M .. N : ~fs[j].assigned /\ ~fs[j].assigns
        BY <1>1, <3>3
      <4> QED BY <1>1, <1>2, <3>4, <4>1
    <3>5. CASE k # M
      <4>1. k \in 1 .. M - 1 /\ k \in m .. N
        BY <1>1, <3>5
      <4> QED BY <1>1, <3>3, <4>1
    <3> QED BY <3>4, <3>5
  <2>2. CASE m > N
    <3>1. k = M /\ M > N
      BY <1>1, <2>2
    <3> QED BY <1>1, <1>2, <3>1
  <2> QED BY <1>1, <2>1, <2>2
<1> QED BY <1>1, <1>4 DEF Calm

\* What is known when statements end is kept, with one frame in the place of
\* some.
LEMMA ReplacedKeeps ==
  ASSUME NEW fs, Len(fs) \in Nat \ {0}, NEW cur, Keeps(fs, cur),
         NEW M, NEW g, NEW fs2, Replaced(fs, fs2, M, g), NEW cur2,
         M <= Len(fs) => Known(g) = Known(fs[M]),
         M > Len(fs) => Known(g) = cur,
         ~g.assigned /\ Known(g) # 0 => cur2 = Known(g)
  PROVE  Keeps(fs2, cur2)
<1> DEFINE N == Len(fs)
<1>1. /\ N \in Nat \ {0} /\ N = Len(fs) /\ M \in 1 .. N + 1 /\ M \in Nat
      /\ Len(fs2) = M /\ fs2[M] = g /\ \A n \in 1 .. M - 1 : fs2[n] = fs[n]
  BY DEF Replaced
<1>2. /\ M <= N => Known(g) = Known(fs[M])
      /\ M > N => Known(g) = cur
      /\ ~g.assigned /\ Known(g) # 0 => cur2 = Known(g)
  OBVIOUS
<1>3. /\ \A m \in 1 .. N : \A n \in 1 .. m - 1 :
           Unassigned(fs, n, m - 1) /\ Known(fs[n]) # 0 => Known(fs[m]) = Known(fs[n])
      /\ \A n \in 1 .. N : Unassigned(fs, n, N) /\ Known(fs[n]) # 0 => cur = Known(fs[n])
  BY DEF Keeps
<1> HIDE DEF N
<1>4. ASSUME NEW m \in 1 .. M, NEW n \in 1 .. m - 1, Unassigned(fs2, n, m - 1), Known(fs2[n]) # 0
      PROVE  Known(fs2[m]) = Known(fs2[n])
  <2>1. n \in 1 .. M - 1 /\ fs2[n] = fs[n] /\ n \in 1 .. N
    BY <1>1
  <2>2. \A k \in n .. m - 1 : fs2[k] = fs[k]
    BY <1>1, <2>1
  <2>3. Unassigned(fs, n, m - 1)
    BY <1>4, <2>2 DEF Unassigned
  <2>4. CASE m \in 1 .. M - 1
    <3>1. m \in 1 .. N /\ fs2[m] = fs[m]
      BY <1>1, <2>4
    <3> QED BY <1>3, <1>4, <2>1, <2>3, <3>1
  <2>5. CASE m = M /\ M <= N
    <3>1. M \in 1 .. N
      BY <1>1, <2>5
    <3>2. Known(fs[M]) = Known(fs[n])
      BY <1>3, <1>4, <2>1, <2>3, <2>5, <3>1
    <3> QED BY <1>1, <1>2, <2>1, <2>5, <3>2
  <2>6. CASE m = M /\ M > N
    <3>1. m - 1 = N
      BY <1>1, <2>6
    <3>2. cur = Known(fs[n])
      BY <1>3, <1>4, <2>1, <2>3, <3>1
    <3> QED BY <1>1, <1>2, <2>1, <2>6, <3>2
  <2> QED BY <1>1, <2>4, <2>5, <2>6
<1>5. ASSUME NEW n \in 1 .. M, Unassigned(fs2, n, M), Known(fs2[n]) # 0
      PROVE  cur2 = Known(fs2[n])
  <2>1. ~g.assigned
    BY <1>1, <1>5 DEF Unassigned
  <2>2. Known(g) = Known(fs2[n])
    <3>1. CASE n = M
      BY <1>1, <3>1
    <3>2. CASE n # M
      <4>1. M \in 1 .. M /\ n \in 1 .. M - 1 /\ Unassigned(fs2, n, M - 1)
        BY <1>1, <1>5, <3>2 DEF Unassigned
      <4> QED BY <1>1, <1>4, <1>5, <4>1
    <3> QED BY <3>1, <3>2
  <2> QED BY <1>2, <1>5, <2>1, <2>2
<1> QED BY <1>1, <1>4, <1>5 DEF Keeps

\* What flows to the ends of statements still does, with one frame in the place
\* of some.
LEMMA ReplacedFlow ==
  ASSUME NEW tokens, tokens \in Seq(Tokens), NEW fs, FramesRight(fs, tokens),
         NEW in, NEW out, FramesFlow(fs, in, out), NEW M, NEW g, NEW fs2, Replaced(fs, fs2, M, g),
         Facts(Len(tokens), in, out),
         NEW new, NEW past, NEW now, NEW in2, NEW out2,
         Grown(Len(tokens), in, out, new, past, now, in2, out2),
         M > 1 => FrameFlows(g, in2, out2)
  PROVE  FramesFlow(fs2, in2, out2)
<1> DEFINE N == Len(fs)
           K == Len(tokens)
<1>1. /\ N \in Nat \ {0} /\ N = Len(fs) /\ M \in 1 .. N + 1 /\ M \in Nat
      /\ Len(fs2) = M /\ fs2[M] = g /\ \A n \in 1 .. M - 1 : fs2[n] = fs[n]
  BY TopIs DEF Replaced
<1>2. K \in Nat /\ \A q \in 1 .. K : in2[q] = in[q] /\ out2[q] = out[q]
  <2>1. K \in Nat /\ Grown(K, in, out, new, past, now, in2, out2)
        /\ Facts(K, in, out)
    BY TopIs
  <2> HIDE DEF K
  <2> QED BY ONLY <2>1, GrownIs
<1>3. \A n \in 2 .. N : FrameFlows(fs[n], in, out) /\ Inside(fs[n], tokens)
  BY DEF FramesFlow, FramesRight
<1>4. \A n \in 1 .. N : fs[n] \in Frames
  BY DEF FramesRight, FrameRight
<1>5. K = Len(tokens) /\ (M > 1 => FrameFlows(g, in2, out2))
  OBVIOUS
<1> HIDE DEF N, K
<1>6. ASSUME NEW n \in 2 .. M PROVE FrameFlows(fs2[n], in2, out2)
  <2>1. CASE n = M
    BY <1>1, <1>5, <2>1
  <2>2. CASE n # M
    <3>1. n \in 1 .. M - 1 /\ n \in 2 .. N /\ n \in 1 .. N /\ fs2[n] = fs[n]
      BY <1>1, <2>2
    <3>2. FrameFlows(fs[n], in, out) /\ Inside(fs[n], tokens) /\ fs[n].start \in Nat /\ fs[n].branch \in Nat
      BY <1>3, <1>4, <3>1 DEF Frames
    <3>3. fs[n].start \in 1 .. K /\ fs[n].branch \in 1 .. K
      BY <1>2, <1>5, <3>2 DEF Inside
    <3>4. in2[fs[n].start] = in[fs[n].start] /\ in2[fs[n].branch] = in[fs[n].branch]
          /\ out2[fs[n].branch] = out[fs[n].branch]
      BY <1>2, <3>3
    <3> QED BY <3>1, <3>2, <3>4 DEF FrameFlows
  <2> QED BY <2>1, <2>2
<1> QED BY <1>1, <1>6 DEF FramesFlow


\* The branches of the frames that go are linked.
LinkedAbove(fs, M, g, b) ==
  \A n \in M .. Len(fs) : n > 1 => fs[n].branch = b \/ (n = M /\ g.branch = fs[n].branch)

\* Of the branches that are not linked yet, only the one linked now is no more.
LEMMA ReplacedPending ==
  ASSUME NEW fs, Len(fs) \in Nat, NEW M, NEW g, NEW fs2, Replaced(fs, fs2, M, g), NEW b,
         LinkedAbove(fs, M, g, b)
  PROVE  /\ \A p \in PendingBranches(fs) : p = b \/ p \in PendingBranches(fs2)
         /\ M > 1 => g.branch \in PendingBranches(fs2)
<1>1. /\ M \in 1 .. Len(fs) + 1 /\ Len(fs2) = M /\ fs2[M] = g
      /\ \A n \in 1 .. M - 1 : fs2[n] = fs[n]
  BY DEF Replaced
<1>2. M > 1 => g.branch \in PendingBranches(fs2)
  BY <1>1 DEF PendingBranches
<1>3. ASSUME NEW n \in 2 .. Len(fs) PROVE fs[n].branch = b \/ fs[n].branch \in PendingBranches(fs2)
  <2>1. CASE n \in 1 .. M - 1
    <3>1. n \in 2 .. Len(fs2) /\ fs2[n].branch = fs[n].branch
      BY <1>1, <2>1
    <3> QED BY <3>1 DEF PendingBranches
  <2>2. CASE n \in M .. Len(fs)
    <3>1. n > 1 /\ (n = M => M > 1)
      OBVIOUS
    <3> QED BY <1>2, <2>2, <3>1 DEF LinkedAbove
  <2> QED BY <1>1, <2>1, <2>2
<1> QED BY <1>2, <1>3 DEF PendingBranches

-----------------------------------------------------------------------------
(* Narrowing: the steps of the passes. *)

StaticRight(tokens, ns, fs, type, lowering) ==
  /\ NotesRight(tokens, ns, PendingBranches(fs))
  /\ FramesRight(fs, tokens)
  /\ type \in TypeNames /\ lowering \in Lowerings
  /\ Matches(type, lowering, Len(tokens))
  /\ KeepsType(fs[Len(fs)], type)

KnownRight(tokens, ns, fs, cur, in, out) ==
  /\ Calm(fs) /\ Keeps(fs, cur)
  /\ FlowsRight(tokens, ns, PendingBranches(fs), in, out)
  /\ FramesFlow(fs, in, out)
  /\ in[Len(tokens) + 1] = IF fs[Len(fs)].falls THEN cur ELSE Unreachable

\* A step of the passes: a token, its note, and another top frame.
Step(tokens, ns, fs, t, b, M, g, tokens2, ns2, fs2) ==
  /\ Extended(tokens, ns, PendingBranches(fs), t, b, tokens2, ns2, PendingBranches(fs2))
  /\ Replaced(fs, fs2, M, g)

\* The new token is noted, and linked to where it may be.
TokenNoted(K, t, b, tokens, tokens2, ns2) ==
  /\ NoteRight(K + 1, tokens2, ns2) /\ ns2[K + 1].next = 0
  /\ b \in 1 .. K =>
       /\ t.kind \in Narrowing!Branches \cup {"end"}
       /\ tokens[b].kind \in Narrowing!Loops => t.kind = "end"

\* The new top frame stands where it may.
TopStands(fs, M, g, tokens2) ==
  /\ FrameRight(g, Len(tokens2))
  /\ M = 1 => g.kind = "function" /\ g.branch = 0
  /\ M > 1 => Inside(g, tokens2) /\ KeepsType(fs[M - 1], g.outer)
  /\ \A n \in 1 .. M - 1 : fs[n].falls

\* A token that is noted rightly leaves the static part of the invariant right.
LEMMA StaticStep ==
  ASSUME NEW tokens, NEW ns, NEW fs, NEW type, NEW lowering,
         StaticRight(tokens, ns, fs, type, lowering),
         NEW t, NEW b, NEW M, NEW g, NEW tokens2, NEW ns2, NEW fs2, NEW type2, NEW lowering2,
         Step(tokens, ns, fs, t, b, M, g, tokens2, ns2, fs2),
         TokenNoted(Len(tokens), t, b, tokens, tokens2, ns2), TopStands(fs, M, g, tokens2),
         type2 \in TypeNames, lowering2 \in Lowerings,
         Matches(type2, lowering2, Len(tokens2)), KeepsType(g, type2)
  PROVE  StaticRight(tokens2, ns2, fs2, type2, lowering2)
<1>1. NotesRight(tokens, ns, PendingBranches(fs)) /\ FramesRight(fs, tokens) /\ tokens \in Seq(Tokens)
  BY DEF StaticRight, NotesRight
<1>2. Extended(tokens, ns, PendingBranches(fs), t, b, tokens2, ns2, PendingBranches(fs2))
      /\ Replaced(fs, fs2, M, g)
  BY DEF Step
<1>3. NotesRight(tokens2, ns2, PendingBranches(fs2))
  <2>1. /\ NoteRight(Len(tokens) + 1, tokens2, ns2) /\ ns2[Len(tokens) + 1].next = 0
        /\ b \in 1 .. Len(tokens) =>
             /\ t.kind \in Narrowing!Branches \cup {"end"}
             /\ tokens[b].kind \in Narrowing!Loops => t.kind = "end"
    BY DEF TokenNoted
  <2> QED BY <1>1, <1>2, <2>1, NotesExtended
<1>4. t \in Tokens /\ tokens2 = Append(tokens, t)
  BY <1>2 DEF Extended
<1>5. FramesRight(fs2, tokens2)
  <2>1. /\ FrameRight(g, Len(tokens2))
        /\ M = 1 => g.kind = "function" /\ g.branch = 0
        /\ M > 1 => Inside(g, tokens2) /\ KeepsType(fs[M - 1], g.outer)
        /\ \A n \in 1 .. M - 1 : fs[n].falls
    BY DEF TopStands
  <2> QED BY <1>1, <1>2, <1>4, <2>1, ReplacedRight
<1>6. fs2[Len(fs2)] = g
  BY <1>2 DEF Replaced
<1> QED BY <1>3, <1>5, <1>6 DEF StaticRight

\* What is known of the new top frame.
TopKnows(fs, cur, M, g, cur2, now, in2, out2) ==
  /\ now = IF g.falls THEN cur2 ELSE Unreachable
  /\ M <= Len(fs) => Known(g) = Known(fs[M])
  /\ M > Len(fs) => Known(g) = cur
  /\ ~g.assigned /\ Known(g) # 0 => cur2 = Known(g)
  /\ M > 1 => FrameFlows(g, in2, out2)

\* What flows to and from the new token, and past the branch that is linked to it.
TokenFlows(K, b, tokens2, ns2, in2, out2) ==
  /\ StepFlows(K + 1, tokens2, ns2, in2, out2)
  /\ ns2[K + 1].type # Opaque =>
       FromHere(K + 1, tokens2, in2, out2) \in {Unreachable, ns2[K + 1].local}
  /\ b \in 1 .. K => LinkFlows(b, tokens2, ns2, in2, out2)

\* A token whose facts follow from those before it leaves a fact at every token.
LEMMA KnownStep ==
  ASSUME NEW tokens, NEW ns, NEW fs, NEW type, NEW lowering,
         StaticRight(tokens, ns, fs, type, lowering),
         NEW cur, NEW in, NEW out, KnownRight(tokens, ns, fs, cur, in, out),
         NEW t, NEW b, NEW M, NEW g, NEW tokens2, NEW ns2, NEW fs2,
         Step(tokens, ns, fs, t, b, M, g, tokens2, ns2, fs2),
         NEW new, NEW past, NEW now, NEW cur2, NEW in2, NEW out2,
         Grown(Len(tokens), in, out, new, past, now, in2, out2),
         Calm(fs2), TopKnows(fs, cur, M, g, cur2, now, in2, out2),
         TokenFlows(Len(tokens), b, tokens2, ns2, in2, out2)
  PROVE  KnownRight(tokens2, ns2, fs2, cur2, in2, out2)
<1>1. NotesRight(tokens, ns, PendingBranches(fs)) /\ FramesRight(fs, tokens) /\ tokens \in Seq(Tokens)
  BY DEF StaticRight, NotesRight
<1>2. Extended(tokens, ns, PendingBranches(fs), t, b, tokens2, ns2, PendingBranches(fs2))
      /\ Replaced(fs, fs2, M, g)
  BY DEF Step
<1>3. /\ FlowsRight(tokens, ns, PendingBranches(fs), in, out) /\ Facts(Len(tokens), in, out)
      /\ Keeps(fs, cur) /\ FramesFlow(fs, in, out)
  BY DEF KnownRight, FlowsRight
<1>4. FlowsRight(tokens2, ns2, PendingBranches(fs2), in2, out2)
  <2>1. /\ StepFlows(Len(tokens) + 1, tokens2, ns2, in2, out2)
        /\ ns2[Len(tokens) + 1].type # Opaque =>
             FromHere(Len(tokens) + 1, tokens2, in2, out2) \in {Unreachable, ns2[Len(tokens) + 1].local}
        /\ b \in 1 .. Len(tokens) => LinkFlows(b, tokens2, ns2, in2, out2)
    BY DEF TokenFlows
  <2> QED BY <1>1, <1>2, <1>3, <2>1, FlowsExtended
<1>5. Len(fs) \in Nat \ {0} /\ Len(tokens) \in Nat
  BY <1>1, TopIs
<1>6. Keeps(fs2, cur2)
  <2>1. /\ M <= Len(fs) => Known(g) = Known(fs[M])
        /\ M > Len(fs) => Known(g) = cur
        /\ ~g.assigned /\ Known(g) # 0 => cur2 = Known(g)
    BY DEF TopKnows
  <2> QED BY <1>2, <1>3, <1>5, <2>1, ReplacedKeeps
<1>7. FramesFlow(fs2, in2, out2)
  <2>1. M > 1 => FrameFlows(g, in2, out2)
    BY DEF TopKnows
  <2> QED BY <1>1, <1>2, <1>3, <2>1, ReplacedFlow
<1>8. in2[Len(tokens) + 2] = now
  BY <1>3, <1>5, GrownIs
<1>9. fs2[Len(fs2)] = g /\ Len(tokens2) + 1 = Len(tokens) + 2
  <2>1. Len(tokens2) = Len(tokens) + 1
    BY <1>1, <1>2, TokensExtended
  <2> QED BY <1>2, <1>5, <2>1 DEF Replaced
<1> QED BY <1>4, <1>6, <1>7, <1>8, <1>9 DEF KnownRight, TopKnows

Added(s, e, s2) == s2 = Append(s, e)

\* A token that links no other.
LEMMA NoteAppended ==
  ASSUME NEW tokens, NEW ns, NEW pending, NotesRight(tokens, ns, pending),
         NEW t, t \in Tokens, NEW note, note \in Notes, NEW pending2,
         NEW tokens2, Added(tokens, t, tokens2), NEW ns2, Added(ns, note, ns2),
         pending \subseteq pending2,
         t.kind \in Narrowing!Openings \cup Narrowing!Branches => Len(tokens) + 1 \in pending2
  PROVE  Extended(tokens, ns, pending, t, 0, tokens2, ns2, pending2)
<1>1. /\ ns \in Seq(Notes) /\ Len(ns) = Len(tokens) /\ Len(tokens) \in Nat
  BY DEF NotesRight
<1>2. ns2 \in Seq(Notes) /\ Len(ns2) = Len(tokens) + 1 /\ ns2[Len(tokens) + 1] = note
      /\ \A p \in 1 .. Len(tokens) : ns2[p] = ns[p] /\ p # 0
  BY <1>1 DEF Added
<1> QED BY <1>1, <1>2 DEF Extended, Added

\* A list with another entry in one place.
LEMMA ListChanged ==
  ASSUME NEW S, NEW s, s \in Seq(S), NEW i, i \in 1 .. Len(s), NEW e, e \in S,
         NEW s2, s2 = [s EXCEPT ![i] = e]
  PROVE  /\ s2 \in Seq(S) /\ Len(s2) = Len(s) /\ s2[i] = e
         /\ \A n \in 1 .. Len(s) : n # i => s2[n] = s[n]
OBVIOUS

\* A note that is linked differs in nothing else.
LEMMA NextSet ==
  ASSUME NEW note, note \in Notes, NEW k, k \in Nat, NEW linked, linked = [note EXCEPT !.next = k]
  PROVE  /\ linked \in Notes /\ linked.next = k
         /\ linked.type = note.type /\ linked.local = note.local /\ linked.origin = note.origin
BY DEF Notes

\* An entry is added, and one before it linked to the place named.
Linked(s, e, b, here, s2) == s2 = [Append(s, e) EXCEPT ![b].next = here]

\* Linking an earlier entry leaves the one that was added.
LEMMA LinkedLast ==
  ASSUME NEW s, s \in Seq(Notes), NEW e, e \in Notes, NEW b, b \in 1 .. Len(s), NEW here, NEW s2,
         Linked(s, e, b, here, s2)
  PROVE  s2[Len(s) + 1] = e
<1> DEFINE s1 == Append(s, e)
<1>1. /\ s1 \in Seq(Notes) /\ Len(s1) = Len(s) + 1 /\ s1[Len(s) + 1] = e
      /\ Len(s) \in Nat /\ s2 = [s1 EXCEPT ![b].next = here]
  BY DEF Linked
<1> HIDE DEF s1
<1>2. Len(s) + 1 \in DOMAIN s1 /\ b # Len(s) + 1
  BY <1>1
<1> QED BY <1>1, <1>2

\* The branches that are pending are linked, or pending still, as the new one is.
MayLink(tokens, t, b, here, pending, pending2) ==
  /\ b \in 1 .. Len(tokens) /\ here = Len(tokens) + 1
  /\ \A p \in pending : p = b \/ p \in pending2
  /\ t.kind \in Narrowing!Openings \cup Narrowing!Branches => here \in pending2

\* A token to which an earlier one is linked.
LEMMA NoteLinked ==
  ASSUME NEW tokens, NEW ns, NEW pending, NotesRight(tokens, ns, pending),
         NEW t, t \in Tokens, NEW note, note \in Notes, NEW b, NEW here, NEW pending2,
         NEW tokens2, Added(tokens, t, tokens2), NEW ns2, Linked(ns, note, b, here, ns2),
         MayLink(tokens, t, b, here, pending, pending2)
  PROVE  Extended(tokens, ns, pending, t, b, tokens2, ns2, pending2)
<1> DEFINE ns1 == Append(ns, note)
<1>1. /\ ns \in Seq(Notes) /\ Len(ns) = Len(tokens) /\ Len(tokens) \in Nat
      /\ b \in 1 .. Len(tokens) /\ here = Len(tokens) + 1
      /\ \A p \in pending : p = b \/ p \in pending2
      /\ t.kind \in Narrowing!Openings \cup Narrowing!Branches => here \in pending2
  BY DEF NotesRight, MayLink
<1>2. /\ ns1 \in Seq(Notes) /\ Len(ns1) = Len(tokens) + 1 /\ ns1[Len(tokens) + 1] = note
      /\ \A p \in 1 .. Len(tokens) : ns1[p] = ns[p] /\ p # Len(tokens) + 1
  BY <1>1
<1>3. ns2 = [ns1 EXCEPT ![b].next = Len(tokens) + 1] /\ tokens2 = Append(tokens, t)
  BY <1>1 DEF Linked, Added
<1> HIDE DEF ns1
<1>4. ns1[b] \in Notes /\ b \in 1 .. Len(ns1)
  BY <1>1, <1>2
<1> DEFINE linked == [ns1[b] EXCEPT !.next = Len(tokens) + 1]
<1>5. ns2 = [ns1 EXCEPT ![b] = linked]
  BY <1>3
<1>6. /\ linked \in Notes /\ linked.next = Len(tokens) + 1
      /\ linked.type = ns1[b].type /\ linked.local = ns1[b].local /\ linked.origin = ns1[b].origin
  <2>1. Len(tokens) + 1 \in Nat
    BY <1>1
  <2> QED BY <1>4, <2>1, NextSet
<1> HIDE DEF linked
<1>7. /\ ns2 \in Seq(Notes) /\ Len(ns2) = Len(tokens) + 1
      /\ \A p \in 1 .. Len(tokens) + 1 : p # b => ns2[p] = ns1[p]
      /\ ns2[b] = linked
  <2>1. /\ ns2 \in Seq(Notes) /\ Len(ns2) = Len(ns1) /\ ns2[b] = linked
        /\ \A n \in 1 .. Len(ns1) : n # b => ns2[n] = ns1[n]
    BY ONLY <1>2, <1>4, <1>5, <1>6, ListChanged
  <2> QED BY <1>2, <2>1
<1>8. /\ ns2[b].type = ns1[b].type /\ ns2[b].local = ns1[b].local
      /\ ns2[b].origin = ns1[b].origin /\ ns2[b].next = Len(tokens) + 1
  BY <1>6, <1>7
<1>9. \A p \in 1 .. Len(tokens) :
       /\ ns2[p].type = ns[p].type /\ ns2[p].local = ns[p].local /\ ns2[p].origin = ns[p].origin
       /\ ns2[p].next = IF p = b THEN Len(tokens) + 1 ELSE ns[p].next
  BY <1>1, <1>2, <1>7, <1>8
<1> QED BY <1>1, <1>3, <1>7, <1>9 DEF Extended


Static == StaticRight(program, notes, frames, narrowed, narrowings)
Cur == KnownAs(narrowed, narrowings)
TokenOf(kind, test) == [kind |-> kind, test |-> test]
NoteOf(type, origin, local) == [type |-> type, next |-> 0, origin |-> origin, local |-> local]

\* The temporary that is used is what is known.
LEMMA LocalIs ==
  ASSUME NEW type, NEW lowering, lowering \in Lowerings, NEW size, size \in Nat,
         Matches(type, lowering, size)
  PROVE  /\ (IF lowering.type = type THEN lowering.local ELSE 0) = KnownAs(type, lowering)
         /\ KnownAs(type, lowering) \in Nat /\ KnownAs(type, lowering) <= size
         /\ type # Opaque => KnownAs(type, lowering) # 0
BY DEF Matches, KnownAs, Lowerings

\* What the static part of the invariant says of the variables.
LEMMA StaticIs ==
  ASSUME Static
  PROVE  /\ program \in Seq(Tokens) /\ Len(program) \in Nat /\ Len(frames) \in Nat \ {0}
         /\ NotesRight(program, notes, PendingBranches(frames)) /\ FramesRight(frames, program)
         /\ narrowed \in TypeNames /\ narrowings \in Lowerings
         /\ Matches(narrowed, narrowings, Len(program))
         /\ KeepsType(Narrowing!Top, narrowed)
         /\ Narrowing!Top \in Frames /\ FrameRight(Narrowing!Top, Len(program)) /\ Narrowing!Top = frames[Len(frames)]
         /\ Narrowing!Top.kind # "function" => Len(frames) > 1
         /\ Len(frames) > 1 => Inside(Narrowing!Top, program)
         /\ frames \in Seq(Frames)
<1>1. /\ NotesRight(program, notes, PendingBranches(frames)) /\ FramesRight(frames, program)
      /\ narrowed \in TypeNames /\ narrowings \in Lowerings
      /\ Matches(narrowed, narrowings, Len(program))
      /\ KeepsType(Narrowing!Top, narrowed)
  BY DEF Static, StaticRight, Narrowing!Top
<1>2. program \in Seq(Tokens)
  BY <1>1 DEF NotesRight
<1>3. frames \in Seq(Frames)
  BY <1>1 DEF FramesRight
<1> QED BY <1>1, <1>2, <1>3, TopIs DEF Narrowing!Top

\* What is noted at a token where no branch starts.
LEMMA NotedIs ==
  ASSUME Static, NEW kind, kind \in Kinds, NEW test, test \in TypeNames,
         NEW type, type \in {Opaque, narrowed}, NEW origin, origin \in Nat,
         Narrowing!Noted(kind, test, type, origin)
  PROVE  /\ TokenOf(kind, test) \in Tokens /\ program' = Append(program, TokenOf(kind, test))
         /\ NoteOf(type, origin, KnownAs(type, narrowings)) \in Notes
         /\ notes' = Append(notes, NoteOf(type, origin, KnownAs(type, narrowings)))
         /\ KnownAs(type, narrowings) <= Len(program)
         /\ type # Opaque => KnownAs(type, narrowings) # 0 /\ KnownAs(type, narrowings) = Cur
<1>1. /\ narrowed \in TypeNames /\ narrowings \in Lowerings /\ Len(program) \in Nat
      /\ Matches(narrowed, narrowings, Len(program))
  BY StaticIs
<1>2. Matches(type, narrowings, Len(program)) /\ type \in TypeNames
  BY <1>1 DEF Matches, TypeNames
<1>3. /\ (IF narrowings.type = type THEN narrowings.local ELSE 0) = KnownAs(type, narrowings)
      /\ KnownAs(type, narrowings) \in Nat /\ KnownAs(type, narrowings) <= Len(program)
      /\ type # Opaque => KnownAs(type, narrowings) # 0
  BY <1>1, <1>2, LocalIs
<1>4. TokenOf(kind, test) \in Tokens /\ program' = Append(program, TokenOf(kind, test))
  BY DEF Narrowing!Noted, TokenOf, Tokens
<1>5. NoteOf(type, origin, KnownAs(type, narrowings)) \in Notes
      /\ notes' = Append(notes, NoteOf(type, origin, KnownAs(type, narrowings)))
  BY <1>2, <1>3 DEF Narrowing!Noted, NoteOf, Notes
<1>6. type # Opaque => KnownAs(type, narrowings) = Cur
  BY DEF Cur
<1> QED BY <1>3, <1>4, <1>5, <1>6

\* The note at the new token.
NoteFits(K, kind, test, type, origin, local, tokens2) ==
  /\ local \in Nat /\ local <= K /\ (type # Opaque => local # 0)
  /\ origin \in Nat /\ origin <= K
  /\ kind \in {"block", "else"} => test = Opaque
  /\ kind \in {"break", "continue"} => origin # 0
  /\ kind \in Narrowing!Exits \cup {"end"} /\ origin # 0 => tokens2[origin].kind \in Narrowing!Loops

\* The note of a new token is right if it fits the tokens before it.
LEMMA NewNoteRight ==
  ASSUME NEW K, K \in Nat, NEW tokens2, NEW ns2, NEW kind, NEW test, tokens2[K + 1] = TokenOf(kind, test),
         NEW type, NEW origin, NEW local, ns2[K + 1] = NoteOf(type, origin, local),
         NoteFits(K, kind, test, type, origin, local, tokens2)
  PROVE  NoteRight(K + 1, tokens2, ns2) /\ ns2[K + 1].next = 0
BY DEF NoteFits, NoteRight, NoteOf, TokenOf

\* What a token may leave of the top frame.
SameFrame(f, g) ==
  /\ f \in Frames /\ g \in Frames
  /\ g.kind = f.kind /\ g.start = f.start /\ g.branch = f.branch
  /\ g.outer = f.outer /\ g.lowered = f.lowered /\ g.complete = f.complete

\* A frame whose flags alone change is right.
LEMMA SameRight ==
  ASSUME NEW f, NEW g, SameFrame(f, g), NEW size, size \in Nat, FrameRight(f, size),
         g.removes => g.assigns
  PROVE  FrameRight(g, size + 1)
<1>1. FrameRight(f, size + 1)
  BY StillRight
<1> QED BY <1>1 DEF FrameRight, SameFrame

\* A frame whose flags alone change stands where it stood.
LEMMA SameInside ==
  ASSUME NEW f, NEW g, SameFrame(f, g), NEW tokens, tokens \in Seq(Tokens), NEW t, t \in Tokens,
         Inside(f, tokens)
  PROVE  Inside(g, Append(tokens, t))
<1>1. Inside(f, Append(tokens, t))
  BY StillInside DEF SameFrame
<1> QED BY <1>1 DEF Inside, SameFrame

\* Assignment and Exit: a token, and the top frame is the same but for its flags.
LEMMA TokenStep ==
  ASSUME Static, NEW kind, kind \in Narrowing!Exits \cup {"assign"},
         NEW origin, origin \in Nat, origin <= Len(program),
         kind \in {"break", "continue"} => origin # 0,
         origin # 0 => program[origin].kind \in Narrowing!Loops,
         Narrowing!Noted(kind, Opaque, narrowed, origin),
         NEW g, SameFrame(Narrowing!Top, g), g.removes => g.assigns,
         frames' = [frames EXCEPT ![Len(frames)] = g],
         \/ narrowed' = narrowed /\ narrowings' = narrowings
         \/ narrowed' = Opaque /\ narrowings' = Narrowing!Unknown
  PROVE  /\ Static'
         /\ Step(program, notes, frames, TokenOf(kind, Opaque), 0, Len(frames), g, program', notes', frames')
         /\ program'[Len(program) + 1] = TokenOf(kind, Opaque)
         /\ notes'[Len(program) + 1] = NoteOf(narrowed, origin, Cur)
<1>1. /\ program \in Seq(Tokens) /\ Len(program) \in Nat /\ Len(frames) \in Nat \ {0}
      /\ NotesRight(program, notes, PendingBranches(frames)) /\ FramesRight(frames, program)
      /\ narrowed \in TypeNames /\ narrowings \in Lowerings
      /\ Matches(narrowed, narrowings, Len(program))
      /\ KeepsType(Narrowing!Top, narrowed)
      /\ Narrowing!Top \in Frames /\ FrameRight(Narrowing!Top, Len(program)) /\ Narrowing!Top = frames[Len(frames)]
      /\ Len(frames) > 1 => Inside(Narrowing!Top, program)
      /\ frames \in Seq(Frames)
  BY StaticIs
<1>2. kind \in Kinds /\ Opaque \in TypeNames /\ kind \notin Narrowing!Openings \cup Narrowing!Branches \cup {"end"}
  BY DEF Kinds, Narrowing!Exits, TypeNames, Narrowing!Openings, Narrowing!Branches
<1>3. /\ TokenOf(kind, Opaque) \in Tokens /\ program' = Append(program, TokenOf(kind, Opaque))
      /\ NoteOf(narrowed, origin, Cur) \in Notes
      /\ notes' = Append(notes, NoteOf(narrowed, origin, Cur))
      /\ Cur <= Len(program) /\ (narrowed # Opaque => Cur # 0) /\ Cur \in Nat
  <2>1. /\ TokenOf(kind, Opaque) \in Tokens /\ program' = Append(program, TokenOf(kind, Opaque))
        /\ NoteOf(narrowed, origin, KnownAs(narrowed, narrowings)) \in Notes
        /\ notes' = Append(notes, NoteOf(narrowed, origin, KnownAs(narrowed, narrowings)))
        /\ KnownAs(narrowed, narrowings) <= Len(program)
        /\ narrowed # Opaque => KnownAs(narrowed, narrowings) # 0
    BY <1>2, NotedIs
  <2>2. Cur \in Nat
    BY <1>1, LocalIs DEF Cur
  <2> QED BY <2>1, <2>2 DEF Cur
<1>4. Replaced(frames, frames', Len(frames), g)
  BY <1>1 DEF Replaced, SameFrame
<1>5. PendingBranches(frames) \subseteq PendingBranches(frames')
  <2>1. LinkedAbove(frames, Len(frames), g, 0)
    BY <1>1 DEF SameFrame, LinkedAbove
  <2>2. \A p \in PendingBranches(frames) : p = 0 \/ p \in PendingBranches(frames')
    BY <1>1, <1>4, <2>1, ReplacedPending
  <2>3. 0 \notin PendingBranches(frames)
    <3>1. \A n \in 2 .. Len(frames) : Inside(frames[n], program)
      BY <1>1 DEF FramesRight
    <3>2. \A n \in 2 .. Len(frames) : frames[n] \in Frames
      BY <1>1
    <3> QED BY <3>1, <3>2 DEF PendingBranches, Inside, Frames
  <2> QED BY <2>2, <2>3
<1>6. /\ Extended(program, notes, PendingBranches(frames), TokenOf(kind, Opaque), 0,
                  program', notes', PendingBranches(frames'))
      /\ notes'[Len(program) + 1] = NoteOf(narrowed, origin, Cur)
  <2>1. TokenOf(kind, Opaque).kind \in Narrowing!Openings \cup Narrowing!Branches =>
          Len(program) + 1 \in PendingBranches(frames')
    BY <1>2 DEF TokenOf
  <2>2. NotesRight(program, notes, PendingBranches(frames))
    BY <1>1
  <2>3. /\ Added(program, TokenOf(kind, Opaque), program')
        /\ Added(notes, NoteOf(narrowed, origin, Cur), notes')
        /\ TokenOf(kind, Opaque) \in Tokens /\ NoteOf(narrowed, origin, Cur) \in Notes
    BY <1>3 DEF Added
  <2>4. Extended(program, notes, PendingBranches(frames), TokenOf(kind, Opaque), 0,
                 program', notes', PendingBranches(frames'))
    BY ONLY <1>5, <2>1, <2>2, <2>3, NoteAppended
  <2>5. notes \in Seq(Notes) /\ Len(notes) = Len(program)
    BY <2>2 DEF NotesRight
  <2> QED BY <1>1, <1>3, <2>4, <2>5
<1>7. Step(program, notes, frames, TokenOf(kind, Opaque), 0, Len(frames), g, program', notes', frames')
  BY <1>4, <1>6 DEF Step
<1>8. /\ Len(program') = Len(program) + 1 /\ program'[Len(program) + 1] = TokenOf(kind, Opaque)
      /\ \A p \in 1 .. Len(program) : program'[p] = program[p]
  BY <1>1, <1>3
<1>9. NoteRight(Len(program) + 1, program', notes') /\ notes'[Len(program) + 1].next = 0
  <2>1. origin # 0 => program'[origin].kind \in Narrowing!Loops
    BY <1>8
  <2>2. kind \notin {"block", "else"}
    BY DEF Narrowing!Exits
  <2>3. NoteFits(Len(program), kind, Opaque, narrowed, origin, Cur, program')
    BY <1>3, <2>1, <2>2 DEF NoteFits
  <2> QED BY <1>1, <1>6, <1>8, <2>3, NewNoteRight
<1>10. /\ FrameRight(g, Len(program'))
       /\ Len(frames) = 1 => g.kind = "function" /\ g.branch = 0
       /\ Len(frames) > 1 => Inside(g, program') /\ KeepsType(frames[Len(frames) - 1], g.outer)
       /\ \A n \in 1 .. Len(frames) - 1 : frames[n].falls
  <2>1. FrameRight(g, Len(program'))
    BY <1>1, <1>8, SameRight
  <2>2. Len(frames) = 1 => g.kind = "function" /\ g.branch = 0
    BY <1>1 DEF FramesRight, SameFrame
  <2>3. Len(frames) > 1 => Inside(g, program')
    BY <1>1, <1>3, SameInside
  <2>4. Len(frames) > 1 => KeepsType(frames[Len(frames) - 1], g.outer)
    <3>1. Len(frames) > 1 => Len(frames) \in 2 .. Len(frames)
      BY <1>1
    <3> QED BY <1>1, <3>1 DEF FramesRight, SameFrame
  <2>5. \A n \in 1 .. Len(frames) - 1 : frames[n].falls
    BY <1>1 DEF FramesRight
  <2> QED BY <2>1, <2>2, <2>3, <2>4, <2>5
<1>11. /\ narrowed' \in TypeNames /\ narrowings' \in Lowerings
       /\ Matches(narrowed', narrowings', Len(program')) /\ KeepsType(g, narrowed')
  <2>1. narrowed' \in TypeNames /\ narrowings' \in Lowerings
    BY <1>1, <1>2 DEF Narrowing!Unknown, Lowerings, TypeNames
  <2>2. Matches(narrowed', narrowings', Len(program'))
    BY <1>1, <1>8 DEF Narrowing!Unknown, Matches, Lowerings
  <2>3. KeepsType(g, narrowed')
    BY <1>1 DEF KeepsType, SameFrame
  <2> QED BY <2>1, <2>2, <2>3
<1>12. TokenNoted(Len(program), TokenOf(kind, Opaque), 0, program, program', notes')
  BY <1>1, <1>9 DEF TokenNoted
<1>13. TopStands(frames, Len(frames), g, program')
  BY <1>10 DEF TopStands
<1>14. StaticRight(program', notes', frames', narrowed', narrowings')
  <2>1. StaticRight(program, notes, frames, narrowed, narrowings)
    BY DEF Static
  <2> QED BY ONLY <2>1, <1>7, <1>11, <1>12, <1>13, StaticStep
<1> QED BY <1>6, <1>7, <1>8, <1>14 DEF Static


KnownNow(in, out) == KnownRight(program, notes, frames, Cur, in, out)
SomeKnown == \E in, out : KnownNow(in, out)

\* A set of naturals up to N has a greatest one.
LEMMA GreatestIn ==
  ASSUME NEW N, N \in Nat, NEW S, S \subseteq 1 .. N, S # {}
  PROVE  \E n \in S : \A m \in S : m <= n
<1> DEFINE R == OpToRel(<, Nat)
           T == {N - n : n \in S}
<1>1. IsWellFoundedOn(R, Nat)
  BY NatLessThanWellFounded
<1>2. \A a, b \in Nat : a < b => <<a, b>> \in R
  BY DEF OpToRel
<1> HIDE DEF R
<1>3. T \subseteq Nat /\ T # {}
  <2>1. PICK n \in S : TRUE
    OBVIOUS
  <2>2. N - n \in T
    BY <2>1
  <2>3. T \subseteq Nat
    OBVIOUS
  <2> QED BY <2>2, <2>3
<1> HIDE DEF T
<1>4. PICK a \in T : \A b \in T : ~ (<<b, a>> \in R)
  BY <1>1, <1>3, WFMin
<1>5. \A b \in T : ~ (b < a)
  BY <1>2, <1>3, <1>4
<1>6. PICK n \in S : a = N - n
  BY <1>4 DEF T
<1>7. \A m \in S : N - m \in T
  BY DEF T
<1>8. \A m \in S : m <= n
  BY <1>3, <1>5, <1>6, <1>7
<1> QED BY <1>8

\* break and continue find the loop they belong to.
LEMMA InnermostIs ==
  ASSUME frames \in Seq(Frames), Narrowing!Enclosing # {}
  PROVE  Narrowing!InnermostLoop \in 1 .. Len(frames) /\ frames[Narrowing!InnermostLoop].kind \in Narrowing!Loops
<1>1. Narrowing!Enclosing \subseteq 1 .. Len(frames) /\ Len(frames) \in Nat
  BY DEF Narrowing!Enclosing
<1>2. \E n \in Narrowing!Enclosing : \A m \in Narrowing!Enclosing : m <= n
  BY <1>1, GreatestIn
<1>3. Narrowing!InnermostLoop \in Narrowing!Enclosing
  BY <1>2 DEF Narrowing!InnermostLoop
<1> QED BY <1>1, <1>3 DEF Narrowing!Enclosing

\* An assignment and an exit change a flag of the innermost frame.
LEMMA FlagSet ==
  ASSUME NEW f, f \in Frames, NEW g,
         g = [f EXCEPT !.assigned = TRUE] \/ g = [f EXCEPT !.falls = FALSE]
  PROVE  SameFrame(f, g) /\ g.assigns = f.assigns /\ g.removes = f.removes /\ g.continues = f.continues
BY DEF SameFrame, Frames

\* What flows to the end of a statement does so when flags alone change.
LEMMA SameFlow ==
  ASSUME NEW f, NEW g, SameFrame(f, g), g.removes = f.removes, g.continues = f.continues,
         NEW tokens, tokens \in Seq(Tokens), Inside(f, tokens),
         NEW in, NEW out, FrameFlows(f, in, out), Facts(Len(tokens), in, out),
         NEW new, NEW past, NEW now, NEW in2, NEW out2,
         Grown(Len(tokens), in, out, new, past, now, in2, out2)
  PROVE  Known(g) = Known(f) /\ FrameFlows(g, in2, out2)
<1>1. Len(tokens) \in Nat /\ f.start \in 1 .. Len(tokens) /\ f.branch \in 1 .. Len(tokens)
  BY DEF Inside, SameFrame, Frames
<1>2. \A q \in 1 .. Len(tokens) : in2[q] = in[q] /\ out2[q] = out[q]
  BY <1>1, GrownIs
<1>3. in2[f.start] = in[f.start] /\ in2[f.branch] = in[f.branch] /\ out2[f.branch] = out[f.branch]
  BY <1>1, <1>2
<1>4. Known(g) = Known(f)
  BY DEF Known, SameFrame
<1> QED BY <1>3, <1>4 DEF FrameFlows, SameFrame, Joined

\* What the top frame says of what is known.
LEMMA TopKnown ==
  ASSUME Static, NEW in, NEW out, KnownNow(in, out)
  PROVE  /\ Calm(frames) /\ Keeps(frames, Cur)
         /\ FlowsRight(program, notes, PendingBranches(frames), in, out)
         /\ Facts(Len(program), in, out)
         /\ in[Len(program) + 1] = IF Narrowing!Top.falls THEN Cur ELSE Unreachable
         /\ in[Len(program) + 1] \in Int
         /\ Len(frames) > 1 => FrameFlows(Narrowing!Top, in, out)
         /\ ~Narrowing!Top.assigned /\ Known(Narrowing!Top) # 0 => Cur = Known(Narrowing!Top)
         /\ Guarded(frames, Len(frames)) => ~Narrowing!Top.assigned /\ ~Narrowing!Top.assigns
         /\ KnownRight(program, notes, frames, Cur, in, out)
<1>1. Len(program) \in Nat /\ Len(frames) \in Nat \ {0} /\ Narrowing!Top = frames[Len(frames)]
  BY StaticIs
<1>2. /\ Calm(frames) /\ Keeps(frames, Cur)
      /\ FlowsRight(program, notes, PendingBranches(frames), in, out)
      /\ FramesFlow(frames, in, out)
      /\ in[Len(program) + 1] = IF Narrowing!Top.falls THEN Cur ELSE Unreachable
      /\ KnownRight(program, notes, frames, Cur, in, out)
  BY <1>1 DEF KnownNow, KnownRight
<1>3. Facts(Len(program), in, out)
  BY <1>2 DEF FlowsRight
<1>4. in[Len(program) + 1] \in Int
  BY <1>1, <1>3 DEF Facts
<1>5. Len(frames) > 1 => FrameFlows(Narrowing!Top, in, out)
  BY <1>1, <1>2 DEF FramesFlow
<1>6. ~Narrowing!Top.assigned /\ Known(Narrowing!Top) # 0 => Cur = Known(Narrowing!Top)
  BY <1>1, <1>2 DEF Keeps, Unassigned
<1>7. Guarded(frames, Len(frames)) => ~Narrowing!Top.assigned /\ ~Narrowing!Top.assigns
  BY <1>1, <1>2 DEF Calm
<1> QED BY <1>2, <1>3, <1>4, <1>5, <1>6, <1>7

\* An assignment: nothing is known of any temporary behind it.
LEMMA AssignmentStep ==
  ASSUME Static, Narrowing!Assignment
  PROVE  Static' /\ (~carried' /\ ~hidden' /\ SomeKnown => SomeKnown')
<1> DEFINE g == [Narrowing!Top EXCEPT !.assigned = TRUE]
<1>1. /\ program \in Seq(Tokens) /\ Len(program) \in Nat /\ Len(frames) \in Nat \ {0}
      /\ Narrowing!Top \in Frames /\ FrameRight(Narrowing!Top, Len(program)) /\ Narrowing!Top = frames[Len(frames)]
      /\ Len(frames) > 1 => Inside(Narrowing!Top, program)
      /\ frames \in Seq(Frames)
  BY StaticIs
<1>2. /\ Narrowing!Noted("assign", Opaque, narrowed, 0) /\ frames' = [frames EXCEPT ![Len(frames)] = g]
      /\ narrowed' = Opaque /\ narrowings' = Narrowing!Unknown /\ Narrowing!Top.falls
      /\ carried' = (carried \/ Narrowing!CarriedHere) /\ hidden' = (hidden \/ Narrowing!HiddenHere)
  BY DEF Narrowing!Assignment, Narrowing!Reached, Narrowing!Top
<1>3. /\ SameFrame(Narrowing!Top, g) /\ g.assigns = Narrowing!Top.assigns /\ g.removes = Narrowing!Top.removes
      /\ g.continues = Narrowing!Top.continues
  BY <1>1, FlagSet
<1>4. g.assigned /\ g.falls
  BY <1>1, <1>2 DEF Frames
<1> HIDE DEF g
<1>5. g.removes => g.assigns
  BY <1>1, <1>3 DEF FrameRight
<1>6. /\ Static'
      /\ Step(program, notes, frames, TokenOf("assign", Opaque), 0, Len(frames), g,
              program', notes', frames')
      /\ program'[Len(program) + 1] = TokenOf("assign", Opaque)
      /\ notes'[Len(program) + 1] = NoteOf(narrowed, 0, Cur)
  <2>1. "assign" \in Narrowing!Exits \cup {"assign"} /\ "assign" \notin {"break", "continue"} /\ 0 \in Nat
        /\ 0 <= Len(program)
    BY <1>1
  <2> QED BY <1>2, <1>3, <1>5, <2>1, TokenStep
<1>7. ASSUME NEW in, NEW out, KnownNow(in, out), ~carried', ~hidden' PROVE SomeKnown'
  <2>1. /\ Facts(Len(program), in, out)
        /\ in[Len(program) + 1] = Cur /\ in[Len(program) + 1] \in Int
        /\ Len(frames) > 1 => FrameFlows(Narrowing!Top, in, out)
        /\ KnownRight(program, notes, frames, Cur, in, out)
    BY <1>2, <1>7, TopKnown
  <2> DEFINE K == Len(program)
             in2 == [q \in 1 .. K + 2 |-> IF q = K + 2 THEN 0 ELSE IF q = K + 1 THEN in[K + 1] ELSE in[q]]
             out2 == [q \in 1 .. K + 1 |-> IF q = K + 1 THEN Unreachable ELSE out[q]]
  <2>2. Grown(K, in, out, in[K + 1], Unreachable, 0, in2, out2)
    BY <2>1 DEF Grown, Flows, Unreachable
  <2> HIDE DEF in2, out2
  <2>3. in2[K + 1] = Cur /\ in2[K + 2] = 0 /\ out2[K + 1] = Unreachable
    BY <1>1, <2>1, <2>2, GrownIs
  <2>4. Cur' = 0
    BY <1>2 DEF Cur, KnownAs, Narrowing!Unknown
  <2>5. Replaced(frames, frames', Len(frames), g)
    BY <1>6 DEF Step
  <2>6. Calm(frames')
    <3>0. ~Narrowing!CarriedHere /\ ~Narrowing!HiddenHere
      BY <1>2, <1>7, Zenon
    <3>1. ~Narrowing!CarriedHere /\ ~Narrowing!HiddenHere /\ DOMAIN frames = 1 .. Len(frames)
      BY <1>1, <3>0
    <3>2. \A m \in 1 .. Len(frames) : ~Guarded(frames, m)
      BY <3>1 DEF Narrowing!CarriedHere, Narrowing!HiddenHere, Guarded
    <3>3. /\ Len(frames') = Len(frames)
          /\ \A n \in 1 .. Len(frames) : frames'[n].kind = frames[n].kind /\ frames'[n].outer = frames[n].outer
      BY <1>1, <1>3, <2>5 DEF Replaced, SameFrame
    <3>4. \A m \in 1 .. Len(frames) : \A n \in 1 .. m : n \in 1 .. Len(frames)
      BY <1>1
    <3>5. \A m \in 1 .. Len(frames) : ~Guarded(frames', m)
      BY <3>2, <3>3, <3>4 DEF Guarded
    <3> QED BY <3>3, <3>5 DEF Calm
  <2>7. Len(frames) > 1 => FrameFlows(g, in2, out2)
    BY <1>1, <1>3, <2>1, <2>2, SameFlow
  <2>8. StepFlows(K + 1, program', notes', in2, out2)
    <3>1. K + 1 + 1 = K + 2
      BY <1>1
    <3> QED BY <1>6, <2>3, <3>1 DEF StepFlows, TokenOf, NoteOf, Flows, Narrowing!Openings,
        Narrowing!Branches
  <2>9. notes'[K + 1].type # Opaque =>
          FromHere(K + 1, program', in2, out2) \in {Unreachable, notes'[K + 1].local}
    BY <1>6, <2>3 DEF FromHere, TokenOf, NoteOf, Narrowing!Branches
  <2>10. Known(g) = Known(Narrowing!Top)
    BY <1>3 DEF Known, SameFrame
  <2>11. KnownRight(program', notes', frames', 0, in2, out2)
    <3>1. TopKnows(frames, Cur, Len(frames), g, 0, 0, in2, out2)
      BY <1>1, <1>4, <2>7, <2>10 DEF TopKnows
    <3>2. TokenFlows(K, 0, program', notes', in2, out2)
      BY <1>1, <2>8, <2>9 DEF TokenFlows
    <3>3. StaticRight(program, notes, frames, narrowed, narrowings)
      BY DEF Static
    <3> QED BY ONLY <1>6, <2>1, <2>2, <2>6, <3>1, <3>2, <3>3, KnownStep
  <2> QED BY <2>4, <2>11 DEF SomeKnown, KnownNow
<1> QED BY <1>6, <1>7 DEF SomeKnown


\* break, continue and return: nothing comes behind them.
LEMMA ExitStep ==
  ASSUME Static, NEW kind, kind \in Narrowing!Exits, Narrowing!Exit(kind)
  PROVE  Static' /\ (~carried /\ ~hidden /\ SomeKnown => SomeKnown')
<1> DEFINE g == [Narrowing!Top EXCEPT !.falls = FALSE]
           origin == IF kind = "return" THEN 0 ELSE frames[Narrowing!InnermostLoop].start
<1>1. /\ program \in Seq(Tokens) /\ Len(program) \in Nat /\ Len(frames) \in Nat \ {0}
      /\ Narrowing!Top \in Frames /\ FrameRight(Narrowing!Top, Len(program)) /\ Narrowing!Top = frames[Len(frames)]
      /\ Len(frames) > 1 => Inside(Narrowing!Top, program)
      /\ frames \in Seq(Frames) /\ FramesRight(frames, program)
  BY StaticIs
<1>2. /\ Narrowing!Noted(kind, Opaque, narrowed, origin) /\ frames' = [frames EXCEPT ![Len(frames)] = g]
      /\ narrowed' = narrowed /\ narrowings' = narrowings /\ Narrowing!Top.falls
      /\ kind # "return" => Narrowing!Enclosing # {}
  BY DEF Narrowing!Exit, Narrowing!Reached, Narrowing!Top
<1>3. /\ SameFrame(Narrowing!Top, g) /\ g.assigns = Narrowing!Top.assigns /\ g.removes = Narrowing!Top.removes
      /\ g.continues = Narrowing!Top.continues
  BY <1>1, FlagSet
<1>4. g.assigned = Narrowing!Top.assigned /\ ~g.falls
  BY <1>1 DEF Frames
<1>5. kind # "return" =>
        /\ Narrowing!InnermostLoop \in 2 .. Len(frames) /\ frames[Narrowing!InnermostLoop].kind \in Narrowing!Loops
        /\ Inside(frames[Narrowing!InnermostLoop], program) /\ origin = frames[Narrowing!InnermostLoop].start
        /\ origin \in 1 .. Len(program) /\ program[origin].kind \in Narrowing!Loops
  <2> SUFFICES ASSUME kind # "return"
               PROVE  /\ Narrowing!InnermostLoop \in 2 .. Len(frames) /\ frames[Narrowing!InnermostLoop].kind \in Narrowing!Loops
                      /\ Inside(frames[Narrowing!InnermostLoop], program) /\ origin = frames[Narrowing!InnermostLoop].start
                      /\ origin \in 1 .. Len(program) /\ program[origin].kind \in Narrowing!Loops
    OBVIOUS
  <2>1. Narrowing!InnermostLoop \in 1 .. Len(frames) /\ frames[Narrowing!InnermostLoop].kind \in Narrowing!Loops
    BY <1>1, <1>2, InnermostIs
  <2>2. Narrowing!InnermostLoop # 1
    BY <1>1, <2>1 DEF FramesRight, Narrowing!Loops
  <2>3. Narrowing!InnermostLoop \in 2 .. Len(frames)
    BY <2>1, <2>2
  <2>4. Inside(frames[Narrowing!InnermostLoop], program) /\ frames[Narrowing!InnermostLoop] \in Frames
    BY <1>1, <2>3 DEF FramesRight
  <2>5. /\ frames[Narrowing!InnermostLoop].start \in 1 .. Len(program)
        /\ program[frames[Narrowing!InnermostLoop].start].kind \in Narrowing!Loops
    BY <1>1, <2>1, <2>4 DEF Inside, Frames
  <2> QED BY <2>1, <2>3, <2>4, <2>5
<1>6. /\ origin \in Nat /\ origin <= Len(program)
      /\ kind \in {"break", "continue"} => origin # 0
      /\ origin # 0 => program[origin].kind \in Narrowing!Loops
      /\ kind = "return" => origin = 0
  BY <1>1, <1>5
<1> HIDE DEF g, origin
<1>7. g.removes => g.assigns
  BY <1>1, <1>3 DEF FrameRight
<1>8. /\ Static'
      /\ Step(program, notes, frames, TokenOf(kind, Opaque), 0, Len(frames), g,
              program', notes', frames')
      /\ program'[Len(program) + 1] = TokenOf(kind, Opaque)
      /\ notes'[Len(program) + 1] = NoteOf(narrowed, origin, Cur)
  <2>1. kind \in Narrowing!Exits \cup {"assign"}
    OBVIOUS
  <2> QED BY <1>2, <1>3, <1>6, <1>7, <2>1, TokenStep
<1>9. ASSUME NEW in, NEW out, KnownNow(in, out) PROVE SomeKnown'
  <2>1. /\ Facts(Len(program), in, out) /\ Calm(frames) /\ Keeps(frames, Cur)
        /\ in[Len(program) + 1] = Cur /\ in[Len(program) + 1] \in Int
        /\ Len(frames) > 1 => FrameFlows(Narrowing!Top, in, out)
        /\ ~Narrowing!Top.assigned /\ Known(Narrowing!Top) # 0 => Cur = Known(Narrowing!Top)
        /\ KnownRight(program, notes, frames, Cur, in, out)
    BY <1>2, <1>9, TopKnown
  <2> DEFINE K == Len(program)
             in2 == [q \in 1 .. K + 2 |->
                       IF q = K + 2 THEN Unreachable ELSE IF q = K + 1 THEN in[K + 1] ELSE in[q]]
             out2 == [q \in 1 .. K + 1 |-> IF q = K + 1 THEN Unreachable ELSE out[q]]
  <2>2. Grown(K, in, out, in[K + 1], Unreachable, Unreachable, in2, out2)
    BY <2>1 DEF Grown, Flows, Unreachable
  <2> HIDE DEF in2, out2
  <2>3. /\ in2[K + 1] = Cur /\ out2[K + 1] = Unreachable
        /\ \A q \in 1 .. K : in2[q] = in[q] /\ out2[q] = out[q]
    BY <1>1, <2>1, <2>2, GrownIs
  <2>4. Cur' = Cur
    BY <1>2 DEF Cur
  <2>5. Replaced(frames, frames', Len(frames), g)
    BY <1>8 DEF Step
  <2>6. Calm(frames')
    <3>1. /\ Len(frames) <= Len(frames) => g.kind = frames[Len(frames)].kind /\ g.outer = frames[Len(frames)].outer
          /\ Len(frames) <= Len(frames) /\ (\A k \in Len(frames) .. Len(frames) : ~frames[k].assigned /\ ~frames[k].assigns) =>
               ~g.assigned /\ ~g.assigns
          /\ Len(frames) > Len(frames) => ~g.assigned /\ ~g.assigns
      BY <1>1, <1>3, <1>4 DEF SameFrame
    <3> QED BY <1>1, <2>1, <2>5, <3>1, ReplacedCalm
  <2>7. Len(frames) > 1 => FrameFlows(g, in2, out2)
    BY <1>1, <1>3, <2>1, <2>2, SameFlow
  <2>8. kind # "return" => Flows(Cur, in2[origin])
    <3> SUFFICES ASSUME kind # "return" PROVE Flows(Cur, in2[origin])
      OBVIOUS
    <3> DEFINE L == Narrowing!InnermostLoop
    <3>1. /\ L \in 2 .. Len(frames) /\ frames[L].kind \in Narrowing!Loops /\ origin = frames[L].start
          /\ origin \in 1 .. K
      BY <1>5
    <3>2. FrameFlows(frames[L], in, out)
      BY <2>1, <3>1 DEF KnownRight, FramesFlow
    <3>3. in2[origin] = Known(frames[L])
      BY <2>3, <3>1, <3>2 DEF FrameFlows
    <3>4. ASSUME Known(frames[L]) # 0 PROVE Cur = Known(frames[L])
      <4>1. frames[L].outer # Opaque
        BY <3>4 DEF Known, KnownAs
      <4>2. \A k \in L .. Len(frames) : ~frames[k].assigned
        BY <1>1, <2>1, <3>1, <4>1 DEF Calm, Guarded
      <4> QED BY <1>1, <2>1, <3>1, <3>4, <4>2 DEF Keeps, Unassigned
    <3> QED BY <3>3, <3>4 DEF Flows
  <2>9. StepFlows(K + 1, program', notes', in2, out2)
    <3>1. /\ kind \notin Narrowing!Branches \cup {"end"} /\ kind # "assign"
          /\ kind \notin Narrowing!Openings \cup Narrowing!Branches
          /\ kind \in {"break", "continue"} => kind # "return"
      BY DEF Narrowing!Exits, Narrowing!Branches, Narrowing!Openings
    <3> QED BY <1>8, <2>3, <2>8, <3>1 DEF StepFlows, TokenOf, NoteOf
  <2>10. notes'[K + 1].type # Opaque =>
          FromHere(K + 1, program', in2, out2) \in {Unreachable, notes'[K + 1].local}
    BY <1>8, <2>3 DEF FromHere, TokenOf, NoteOf, Narrowing!Branches, Narrowing!Exits
  <2>11. Known(g) = Known(Narrowing!Top)
    BY <1>3 DEF Known, SameFrame
  <2>12. KnownRight(program', notes', frames', Cur, in2, out2)
    <3>1. TopKnows(frames, Cur, Len(frames), g, Cur, Unreachable, in2, out2)
      BY <1>1, <1>4, <2>1, <2>7, <2>11 DEF TopKnows
    <3>2. TokenFlows(K, 0, program', notes', in2, out2)
      BY <1>1, <2>9, <2>10 DEF TokenFlows
    <3>3. StaticRight(program, notes, frames, narrowed, narrowings)
      BY DEF Static
    <3> QED BY ONLY <1>8, <2>1, <2>2, <2>6, <3>1, <3>2, <3>3, KnownStep
  <2> QED BY <2>4, <2>12 DEF SomeKnown, KnownNow
<1> QED BY <1>8, <1>9 DEF SomeKnown


\* What is known behind a test, or where there is none.
LEMMA InsideMatches ==
  ASSUME NEW test, test \in TypeNames, NEW type, type \in TypeNames,
         NEW lowering, lowering \in Lowerings, Len(program) \in Nat,
         Matches(type, lowering, Len(program))
  PROVE  /\ Narrowing!SemanticInside(test, type) \in TypeNames /\ Narrowing!LoweredInside(test, lowering) \in Lowerings
         /\ Matches(Narrowing!SemanticInside(test, type), Narrowing!LoweredInside(test, lowering), Len(program) + 1)
         /\ KnownAs(Narrowing!SemanticInside(test, type), Narrowing!LoweredInside(test, lowering))
              = IF test # Opaque THEN Len(program) + 1 ELSE KnownAs(type, lowering)
         /\ test = Opaque => Narrowing!SemanticInside(test, type) = type
<1>1. (test \in Alternatives <=> test # Opaque) /\ Opaque \notin Alternatives
  BY CompilationAssumption DEF Narrowing!NarrowingAssumption, TypeNames
<1>2. CASE test # Opaque
  BY <1>1, <1>2 DEF Narrowing!SemanticInside, Narrowing!LoweredInside, Matches, KnownAs,
      Narrowing!Here, Lowerings
<1>3. CASE test = Opaque
  BY <1>1, <1>3 DEF Narrowing!SemanticInside, Narrowing!LoweredInside, Matches, KnownAs, Lowerings
<1> QED BY <1>2, <1>3

\* The frame of a statement that begins.
LEMMA FrameIs ==
  ASSUME NEW kind, kind \in Narrowing!Openings, Len(program) \in Nat,
         narrowed \in TypeNames, narrowings \in Lowerings, NEW g, g = Narrowing!Frame(kind)
  PROVE  /\ g \in Frames /\ g.kind = kind /\ g.start = Len(program) + 1 /\ g.branch = Len(program) + 1
         /\ g.outer = narrowed /\ g.lowered = narrowings /\ ~g.complete /\ ~g.assigned /\ g.falls
         /\ ~g.assigns /\ ~g.removes /\ ~g.continues
BY DEF Narrowing!Frame, Frames, Narrowing!Here

\* A statement begins: what its test found is known inside.
LEMMA OpenStep ==
  ASSUME Static, NEW kind, kind \in Narrowing!Openings, NEW test, test \in Alternatives \cup {Opaque},
         Narrowing!Open(kind, test)
  PROVE  Static' /\ (SomeKnown => SomeKnown')
<1> DEFINE g == Narrowing!Frame(kind)
           type == IF kind = "for" THEN Opaque ELSE narrowed
           K == Len(program)
           N == Len(frames)
<1>1. /\ program \in Seq(Tokens) /\ K \in Nat /\ N \in Nat \ {0} /\ K = Len(program) /\ N = Len(frames)
      /\ NotesRight(program, notes, PendingBranches(frames)) /\ FramesRight(frames, program)
      /\ narrowed \in TypeNames /\ narrowings \in Lowerings
      /\ Matches(narrowed, narrowings, K)
      /\ KeepsType(Narrowing!Top, narrowed) /\ Narrowing!Top = frames[N]
      /\ frames \in Seq(Frames)
  BY StaticIs
<1>2. /\ Narrowing!Noted(kind, test, type, 0) /\ frames' = Append(frames, g) /\ Narrowing!Top.falls
      /\ narrowed' = Narrowing!SemanticInside(test, narrowed) /\ narrowings' = Narrowing!LoweredInside(test, narrowings)
      /\ test \in Alternatives => narrowed = Opaque
      /\ kind = "switch" => test = Tested
      /\ kind \in {"for", "block"} => test = Opaque
  BY DEF Narrowing!Open, Narrowing!Reached, Narrowing!Top
<1>3. /\ g \in Frames /\ g.kind = kind /\ g.start = K + 1 /\ g.branch = K + 1
      /\ g.outer = narrowed /\ g.lowered = narrowings /\ ~g.complete /\ ~g.assigned /\ g.falls
      /\ ~g.assigns /\ ~g.removes /\ ~g.continues
  BY <1>1, FrameIs
<1>4. type \in {Opaque, narrowed} /\ test \in TypeNames /\ kind \in Kinds
      /\ (test # Opaque => narrowed = Opaque) /\ (kind = "switch" => narrowed = Opaque)
  BY <1>2, CompilationAssumption DEF TypeNames, Kinds, Narrowing!NarrowingAssumption
<1> HIDE DEF g, type, K, N
<1>5. /\ TokenOf(kind, test) \in Tokens /\ program' = Append(program, TokenOf(kind, test))
      /\ NoteOf(type, 0, KnownAs(type, narrowings)) \in Notes
      /\ notes' = Append(notes, NoteOf(type, 0, KnownAs(type, narrowings)))
      /\ KnownAs(type, narrowings) <= K
      /\ type # Opaque => KnownAs(type, narrowings) # 0 /\ KnownAs(type, narrowings) = Cur
  <2>1. 0 \in Nat
    OBVIOUS
  <2> QED BY <1>1, <1>2, <1>4, <2>1, NotedIs
<1>6. Replaced(frames, frames', N + 1, g)
  BY <1>1, <1>2, <1>3 DEF Replaced
<1>7. PendingBranches(frames) \subseteq PendingBranches(frames') /\ K + 1 \in PendingBranches(frames')
  <2>1. LinkedAbove(frames, N + 1, g, 0)
    BY <1>1 DEF LinkedAbove
  <2>2. /\ \A p \in PendingBranches(frames) : p = 0 \/ p \in PendingBranches(frames')
        /\ N + 1 > 1 => g.branch \in PendingBranches(frames')
    BY <1>1, <1>6, <2>1, ReplacedPending
  <2>3. 0 \notin PendingBranches(frames)
    <3>1. \A n \in 2 .. N : Inside(frames[n], program) /\ frames[n] \in Frames
      BY <1>1 DEF FramesRight
    <3> QED BY <1>1, <3>1 DEF PendingBranches, Inside, Frames
  <2> QED BY <1>1, <1>3, <2>2, <2>3
<1>8. /\ Len(program') = K + 1 /\ program'[K + 1] = TokenOf(kind, test)
      /\ notes'[K + 1] = NoteOf(type, 0, KnownAs(type, narrowings))
  <2>1. notes \in Seq(Notes) /\ Len(notes) = K
    BY <1>1 DEF NotesRight
  <2> QED BY <1>1, <1>5, <2>1
<1>9. Step(program, notes, frames, TokenOf(kind, test), 0, N + 1, g, program', notes', frames')
  <2>1. TokenOf(kind, test).kind \in Narrowing!Openings \cup Narrowing!Branches =>
          Len(program) + 1 \in PendingBranches(frames')
    BY <1>1, <1>7
  <2>2. NotesRight(program, notes, PendingBranches(frames))
        /\ PendingBranches(frames) \subseteq PendingBranches(frames')
    BY <1>1, <1>7
  <2>3. /\ Added(program, TokenOf(kind, test), program')
        /\ Added(notes, NoteOf(type, 0, KnownAs(type, narrowings)), notes')
        /\ TokenOf(kind, test) \in Tokens /\ NoteOf(type, 0, KnownAs(type, narrowings)) \in Notes
    BY <1>5 DEF Added
  <2>4. Extended(program, notes, PendingBranches(frames), TokenOf(kind, test), 0,
                 program', notes', PendingBranches(frames'))
    BY ONLY <2>1, <2>2, <2>3, NoteAppended
  <2> QED BY <1>6, <2>4 DEF Step
<1>10. /\ narrowed' \in TypeNames /\ narrowings' \in Lowerings
       /\ Matches(narrowed', narrowings', K + 1)
       /\ Cur' = IF test # Opaque THEN K + 1 ELSE Cur
       /\ test = Opaque => narrowed' = narrowed
  <2>1. Cur' = KnownAs(narrowed', narrowings')
    BY DEF Cur
  <2> QED BY <1>1, <1>2, <1>4, <2>1, InsideMatches DEF Cur
<1>11. Static'
  <2>1. NoteRight(K + 1, program', notes') /\ notes'[K + 1].next = 0
    <3>1. KnownAs(type, narrowings) \in Nat
      BY <1>1 DEF KnownAs, Lowerings
    <3>2. NoteFits(K, kind, test, type, 0, KnownAs(type, narrowings), program')
      BY <1>1, <1>2, <1>5, <3>1 DEF NoteFits, Narrowing!Openings
    <3> QED BY <1>1, <1>8, <3>2, NewNoteRight
  <2>2. FrameRight(g, K + 1)
    BY <1>1, <1>3, <1>4 DEF FrameRight, Matches, Lowerings
  <2>3. Inside(g, program')
    BY <1>1, <1>3, <1>8 DEF Inside, TokenOf, Narrowing!Openings
  <2>4. KeepsType(frames[N], g.outer) /\ KeepsType(g, narrowed')
    BY <1>1, <1>2, <1>3, <1>10 DEF KeepsType
  <2>5. \A n \in 1 .. N : frames[n].falls
    BY <1>1, <1>2 DEF FramesRight
  <2>6. TokenNoted(K, TokenOf(kind, test), 0, program, program', notes')
    BY <1>1, <2>1 DEF TokenNoted
  <2>9. TopStands(frames, N + 1, g, program')
    <3> DEFINE M == N + 1
    <3>1. M - 1 = N /\ M # 1 /\ FrameRight(g, Len(program'))
      BY <1>1, <1>8, <2>2
    <3> HIDE DEF M
    <3>2. TopStands(frames, M, g, program')
      BY <2>3, <2>4, <2>5, <3>1 DEF TopStands
    <3> QED BY <3>2 DEF M
  <2>7. StaticRight(program, notes, frames, narrowed, narrowings)
    BY DEF Static
  <2>8. StaticRight(program', notes', frames', narrowed', narrowings')
    <3>1. Matches(narrowed', narrowings', Len(program')) /\ KeepsType(g, narrowed')
      BY <1>8, <1>10, <2>4
    <3> QED BY ONLY <1>1, <1>9, <1>10, <2>6, <2>7, <2>9, <3>1, StaticStep
  <2> QED BY <2>8 DEF Static
<1>12. ASSUME NEW in, NEW out, KnownNow(in, out) PROVE SomeKnown'
  <2>1. /\ Facts(K, in, out) /\ Calm(frames)
        /\ in[K + 1] = Cur /\ in[K + 1] \in Int
        /\ KnownRight(program, notes, frames, Cur, in, out)
    BY <1>1, <1>2, <1>12, TopKnown
  <2> DEFINE now == IF test # Opaque THEN K + 1 ELSE Cur
             in2 == [q \in 1 .. K + 2 |-> IF q = K + 2 THEN now ELSE IF q = K + 1 THEN in[K + 1] ELSE in[q]]
             out2 == [q \in 1 .. K + 1 |-> IF q = K + 1 THEN Unreachable ELSE out[q]]
  <2>2. now \in Int /\ Cur' = now
    BY <1>1, <1>10, <2>1
  <2> HIDE DEF now
  <2>3. Grown(K, in, out, in[K + 1], Unreachable, now, in2, out2)
    BY <2>1, <2>2 DEF Grown, Flows, Unreachable
  <2> HIDE DEF in2, out2
  <2>4. in2[K + 1] = Cur /\ in2[K + 2] = now /\ out2[K + 1] = Unreachable
    BY <1>1, <2>1, <2>3, GrownIs
  <2>5. Calm(frames')
    <3>1. /\ N + 1 <= Len(frames) => g.kind = frames[N + 1].kind /\ g.outer = frames[N + 1].outer
          /\ N + 1 <= Len(frames) /\ (\A k \in N + 1 .. Len(frames) : ~frames[k].assigned /\ ~frames[k].assigns) =>
               ~g.assigned /\ ~g.assigns
          /\ N + 1 > Len(frames) => ~g.assigned /\ ~g.assigns
      BY <1>1, <1>3
    <3> QED BY <1>1, <1>6, <2>1, <3>1, ReplacedCalm
  <2>6. Known(g) = Cur
    BY <1>3 DEF Known, Cur
  <2>7. test # Opaque => Cur = 0
    BY <1>4 DEF Cur, KnownAs
  <2>8. TopKnows(frames, Cur, N + 1, g, now, now, in2, out2)
    <3>1. FrameFlows(g, in2, out2)
      BY <1>3, <2>4, <2>6 DEF FrameFlows
    <3>2. Cur # 0 => now = Cur
      BY <2>7 DEF now
    <3>3. ~(N + 1 <= Len(frames))
      BY <1>1
    <3> QED BY <1>3, <2>6, <3>1, <3>2, <3>3 DEF TopKnows
  <2>9. TokenFlows(K, 0, program', notes', in2, out2)
    <3>1. K + 1 + 1 = K + 2 /\ 0 \notin 1 .. K
      BY <1>1
    <3>2. kind \notin Narrowing!Branches \cup Narrowing!Exits \cup {"assign", "end"}
      BY DEF Narrowing!Openings, Narrowing!Branches, Narrowing!Exits
    <3>3. FromHere(K + 1, program', in2, out2) = Cur /\ Behind(K + 1, program', in2, out2) = now
      BY <1>8, <2>4, <3>2 DEF FromHere, Behind, TokenOf, now
    <3>4. StepFlows(K + 1, program', notes', in2, out2)
      BY <1>8, <2>4, <3>1, <3>2, <3>3 DEF StepFlows, TokenOf, NoteOf, Flows, Narrowing!Exits
    <3>5. notes'[K + 1].type # Opaque =>
            FromHere(K + 1, program', in2, out2) \in {Unreachable, notes'[K + 1].local}
      <4>1. notes'[K + 1].type = type /\ notes'[K + 1].local = KnownAs(type, narrowings)
        BY <1>8 DEF NoteOf
      <4> QED BY <1>5, <3>3, <4>1
    <3> QED BY <3>1, <3>4, <3>5 DEF TokenFlows
  <2>10. KnownRight(program', notes', frames', now, in2, out2)
    <3>1. StaticRight(program, notes, frames, narrowed, narrowings)
      BY DEF Static
    <3> QED BY ONLY <1>1, <1>9, <2>1, <2>3, <2>5, <2>8, <2>9, <3>1, KnownStep
  <2> QED BY <2>2, <2>10 DEF SomeKnown, KnownNow
<1> QED BY <1>11, <1>12 DEF SomeKnown


\* The body under way has ended in g.
BodyEnded(f, g) ==
  /\ g \in Frames
  /\ g.kind = f.kind /\ g.start = f.start /\ g.outer = f.outer /\ g.lowered = f.lowered
  /\ ~g.assigned /\ g.falls
  /\ g.assigns <=> f.assigns \/ f.assigned
  /\ g.removes <=> f.removes \/ (f.assigned /\ f.falls)
  /\ g.continues <=> f.continues \/ f.falls

\* The flags of a frame whose body ended.
LEMMA EndBodyIs ==
  ASSUME NEW f, f \in Frames, NEW g, g = Narrowing!EndBody(f)
  PROVE  BodyEnded(f, g) /\ g.branch = f.branch /\ g.complete = f.complete
<1>1. f.assigns \in BOOLEAN /\ f.assigned \in BOOLEAN /\ f.removes \in BOOLEAN
      /\ f.falls \in BOOLEAN /\ f.continues \in BOOLEAN
  BY DEF Frames
<1>2. /\ g.kind = f.kind /\ g.start = f.start /\ g.outer = f.outer /\ g.lowered = f.lowered
      /\ g.branch = f.branch /\ g.complete = f.complete
      /\ g.assigned = FALSE /\ g.falls = TRUE
      /\ g.assigns = (f.assigns \/ f.assigned)
      /\ g.removes = (f.removes \/ (f.assigned /\ f.falls))
      /\ g.continues = (f.continues \/ f.falls)
      /\ g = [kind |-> f.kind, start |-> f.start, branch |-> f.branch, outer |-> f.outer,
              lowered |-> f.lowered, complete |-> f.complete, assigned |-> FALSE, falls |-> TRUE,
              assigns |-> f.assigns \/ f.assigned, removes |-> f.removes \/ (f.assigned /\ f.falls),
              continues |-> f.continues \/ f.falls]
  BY DEF Narrowing!EndBody, Frames
<1>3. g \in Frames
  BY <1>1, <1>2 DEF Frames
<1> QED BY <1>2, <1>3 DEF BodyEnded

\* Another branch of the statement has begun.
Branched(f, here, whole, g) == g = [Narrowing!EndBody(f) EXCEPT !.branch = here, !.complete = whole]

\* The frame of a statement whose next branch begins.
LEMMA BranchFrameIs ==
  ASSUME NEW f, f \in Frames, NEW here, here \in Nat, NEW whole, whole \in BOOLEAN,
         NEW g, Branched(f, here, whole, g)
  PROVE  BodyEnded(f, g) /\ g.branch = here /\ g.complete = whole
<1> DEFINE e == Narrowing!EndBody(f)
<1>1. BodyEnded(f, e)
  BY EndBodyIs
<1>2. g = [e EXCEPT !.branch = here, !.complete = whole]
  BY DEF Branched
<1> HIDE DEF e
<1>3. e \in Frames
  BY <1>1 DEF BodyEnded
<1>4. /\ g \in Frames /\ g.branch = here /\ g.complete = whole
      /\ g.kind = e.kind /\ g.start = e.start /\ g.outer = e.outer /\ g.lowered = e.lowered
      /\ g.assigned = e.assigned /\ g.falls = e.falls /\ g.assigns = e.assigns
      /\ g.removes = e.removes /\ g.continues = e.continues
  BY <1>2, <1>3 DEF Frames
<1> QED BY <1>1, <1>4 DEF BodyEnded

\* What is known at the end of a body flows to the end of the statement.
LEMMA JoinedFlows ==
  ASSUME NEW f, f \in Frames, NEW g, BodyEnded(f, g), NEW cur, cur \in Int,
         ~f.assigned /\ Known(f) # 0 => cur = Known(f)
  PROVE  /\ Known(g) = Known(f)
         /\ Flows(IF f.falls THEN cur ELSE Unreachable, Joined(g))
         /\ Flows(Joined(f), Joined(g))
<1>1. Known(g) = Known(f)
  BY DEF BodyEnded, Known
<1>2. Flows(IF f.falls THEN cur ELSE Unreachable, Joined(g))
  BY <1>1 DEF BodyEnded, Joined, Flows
<1>3. Flows(Joined(f), Joined(g))
  BY <1>1 DEF BodyEnded, Joined, Flows
<1> QED BY <1>1, <1>2, <1>3

\* Where the frame's last branch stands.
LEMMA BranchIs ==
  ASSUME Static, Narrowing!Top.kind # "function"
  PROVE  /\ Len(frames) > 1 /\ Inside(Narrowing!Top, program)
         /\ Narrowing!Top.branch \in 1 .. Len(program) /\ Narrowing!Top.start \in 1 .. Len(program)
         /\ program[Narrowing!Top.branch].kind \in {Narrowing!Top.kind} \cup Narrowing!Branches
         /\ Narrowing!Top.branch # Narrowing!Top.start => program[Narrowing!Top.branch].kind \in Narrowing!Branches
         /\ program[Narrowing!Top.start].kind = Narrowing!Top.kind
<1>1. /\ Len(program) \in Nat /\ Narrowing!Top \in Frames /\ Len(frames) > 1 /\ Inside(Narrowing!Top, program)
  BY StaticIs
<1>2. Narrowing!Top.branch \in Nat /\ Narrowing!Top.start \in Nat
  BY <1>1 DEF Frames
<1> QED BY <1>1, <1>2 DEF Inside

\* A branch begins from what was known before the statement.
LEMMA BranchStep ==
  ASSUME Static, NEW kind, kind \in Narrowing!Branches, NEW test, test \in Alternatives \cup {Opaque},
         Narrowing!Branch(kind, test)
  PROVE  Static' /\ (SomeKnown => SomeKnown')
<1> DEFINE whole == kind \in {"else", "arm"}
           g == [Narrowing!EndBody(Narrowing!Top) EXCEPT !.branch = Narrowing!Here, !.complete = whole]
           b == Narrowing!Top.branch
           type == IF kind = "elif" THEN Narrowing!Top.outer ELSE Opaque
           note == NoteOf(type, Narrowing!Top.start, Known(Narrowing!Top))
           K == Len(program)
           N == Len(frames)
<1>1. /\ program \in Seq(Tokens) /\ K \in Nat /\ N \in Nat \ {0} /\ K = Len(program) /\ N = Len(frames)
      /\ NotesRight(program, notes, PendingBranches(frames)) /\ FramesRight(frames, program)
      /\ Narrowing!Top \in Frames /\ FrameRight(Narrowing!Top, K) /\ Narrowing!Top = frames[N]
      /\ frames \in Seq(Frames) /\ Narrowing!Here = K + 1 /\ K + 1 \in Nat
  BY StaticIs DEF Narrowing!Here
<1>2. /\ program' = Append(program, TokenOf(kind, test))
      /\ notes' = Narrowing!LinkFrom(b, Append(notes, [type |-> type, next |-> 0, origin |-> Narrowing!Top.start,
                     local |-> IF Narrowing!Top.lowered.type = Narrowing!Top.outer THEN Narrowing!Top.lowered.local ELSE 0]))
      /\ frames' = [frames EXCEPT ![N] = g]
      /\ narrowed' = Narrowing!SemanticInside(test, Narrowing!Top.outer) /\ narrowings' = Narrowing!LoweredInside(test, Narrowing!Top.lowered)
      /\ Narrowing!Top.kind \in {"if", "value", "switch"} /\ ~Narrowing!Top.complete
      /\ kind = "else" => test = Opaque
      /\ kind = "arm" => Narrowing!Top.kind = "switch"
      /\ kind = "elif" => Narrowing!Top.kind \in {"if", "value"}
      /\ kind = "elif" /\ test # Opaque => Narrowing!Top.outer = Opaque
  <2>1. /\ kind = "elif" => Narrowing!Top.kind \in {"if", "value"} /\ test \in {Opaque, Tested}
        /\ kind = "arm" => Narrowing!Top.kind = "switch"
        /\ kind = "else" => test = Opaque
        /\ kind = "elif" /\ test = Tested => Narrowing!Top.outer = Opaque
        /\ Narrowing!Top.kind \in {"if", "value", "switch"} /\ ~Narrowing!Top.complete
    BY DEF Narrowing!Branch, Narrowing!Branches, Narrowing!InFrame
  <2>2. /\ program' = Append(program, TokenOf(kind, test))
        /\ notes' = Narrowing!LinkFrom(b, Append(notes, [type |-> type, next |-> 0, origin |-> Narrowing!Top.start,
                       local |-> IF Narrowing!Top.lowered.type = Narrowing!Top.outer THEN Narrowing!Top.lowered.local ELSE 0]))
        /\ frames' = [frames EXCEPT ![N] = g]
        /\ narrowed' = Narrowing!SemanticInside(test, Narrowing!Top.outer) /\ narrowings' = Narrowing!LoweredInside(test, Narrowing!Top.lowered)
    BY DEF Narrowing!Branch, TokenOf
  <2> QED BY <2>1, <2>2
<1>3. BodyEnded(Narrowing!Top, g) /\ g.branch = K + 1 /\ g.complete = whole
  <2>1. /\ whole \in BOOLEAN /\ Branched(Narrowing!Top, Narrowing!Here, whole, g)
        /\ Narrowing!Top \in Frames /\ Narrowing!Here \in Nat
    BY <1>1 DEF Branched
  <2> HIDE DEF g, whole, K
  <2>2. BodyEnded(Narrowing!Top, g) /\ g.branch = Narrowing!Here /\ g.complete = whole
    BY ONLY <2>1, BranchFrameIs
  <2> QED BY <1>1, <2>2
<1>4. /\ N > 1 /\ Inside(Narrowing!Top, program) /\ b \in 1 .. K /\ Narrowing!Top.start \in 1 .. K
      /\ program[b].kind \in {Narrowing!Top.kind} \cup Narrowing!Branches
      /\ b # Narrowing!Top.start => program[b].kind \in Narrowing!Branches
      /\ program[Narrowing!Top.start].kind = Narrowing!Top.kind
  <2>1. Narrowing!Top.kind # "function"
    BY <1>2
  <2> QED BY <2>1, BranchIs
<1>5. /\ (IF Narrowing!Top.lowered.type = Narrowing!Top.outer THEN Narrowing!Top.lowered.local ELSE 0) = Known(Narrowing!Top)
      /\ Known(Narrowing!Top) \in Nat /\ Known(Narrowing!Top) <= K /\ (Narrowing!Top.outer # Opaque => Known(Narrowing!Top) # 0)
      /\ Narrowing!Top.outer \in TypeNames /\ Narrowing!Top.lowered \in Lowerings /\ Matches(Narrowing!Top.outer, Narrowing!Top.lowered, K)
  <2>1. Narrowing!Top.outer \in TypeNames /\ Narrowing!Top.lowered \in Lowerings /\ Matches(Narrowing!Top.outer, Narrowing!Top.lowered, K)
    BY <1>1 DEF FrameRight, Frames
  <2> QED BY <1>1, <2>1, LocalIs DEF Known
<1>6. kind = "arm" \/ kind = "else" \/ kind = "elif"
  BY DEF Narrowing!Branches
<1>7. test # Opaque => Known(Narrowing!Top) = 0
  <2>1. test # Opaque => Narrowing!Top.outer = Opaque
    BY <1>1, <1>2, <1>6 DEF FrameRight
  <2> QED BY <2>1 DEF Known, KnownAs
<1>8. /\ note \in Notes /\ TokenOf(kind, test) \in Tokens
      /\ notes' = [Append(notes, note) EXCEPT ![b].next = K + 1]
  <2>1. note \in Notes
    BY <1>4, <1>5 DEF NoteOf, Notes, TypeNames
  <2>2. TokenOf(kind, test) \in Tokens
    BY DEF TokenOf, Tokens, Kinds, TypeNames
  <2>3. notes' = Narrowing!LinkFrom(b, Append(notes, note))
    BY <1>2, <1>5 DEF NoteOf
  <2> QED BY <1>1, <2>1, <2>2, <2>3 DEF Narrowing!LinkFrom
<1> HIDE DEF g, note, b, K, N
<1>9. Replaced(frames, frames', N, g)
  BY <1>1, <1>2, <1>3 DEF Replaced, BodyEnded
<1>10. /\ \A p \in PendingBranches(frames) : p = b \/ p \in PendingBranches(frames')
       /\ K + 1 \in PendingBranches(frames')
  <2>1. LinkedAbove(frames, N, g, b)
    BY <1>1 DEF LinkedAbove, b
  <2> QED BY <1>1, <1>3, <1>4, <1>9, <2>1, ReplacedPending
<1>11. /\ Extended(program, notes, PendingBranches(frames), TokenOf(kind, test), b,
                   program', notes', PendingBranches(frames'))
       /\ notes'[K + 1] = note
  <2>1. /\ Linked(notes, note, b, Narrowing!Here, notes') /\ Added(program, TokenOf(kind, test), program')
        /\ TokenOf(kind, test) \in Tokens /\ note \in Notes
        /\ NotesRight(program, notes, PendingBranches(frames))
        /\ MayLink(program, TokenOf(kind, test), b, Narrowing!Here, PendingBranches(frames), PendingBranches(frames'))
    BY <1>1, <1>2, <1>4, <1>8, <1>10 DEF Linked, Added, MayLink
  <2>2. Extended(program, notes, PendingBranches(frames), TokenOf(kind, test), b,
                 program', notes', PendingBranches(frames'))
    BY ONLY <2>1, NoteLinked
  <2>3. notes'[Len(program) + 1] = note
    BY <1>1, <1>4, <2>1, LinkedLast DEF NotesRight
  <2> QED BY <1>1, <2>2, <2>3
<1>12. Step(program, notes, frames, TokenOf(kind, test), b, N, g, program', notes', frames')
  BY <1>1, <1>9, <1>11 DEF Step
<1>13. /\ Len(program') = K + 1 /\ program'[K + 1] = TokenOf(kind, test)
       /\ \A p \in 1 .. K : program'[p] = program[p]
  BY <1>1, <1>2, <1>8
<1>14. /\ narrowed' \in TypeNames /\ narrowings' \in Lowerings
       /\ Matches(narrowed', narrowings', K + 1)
       /\ Cur' = IF test # Opaque THEN K + 1 ELSE Known(Narrowing!Top)
  <2>1. Cur' = KnownAs(narrowed', narrowings')
    BY DEF Cur
  <2>2. test \in TypeNames
    BY DEF TypeNames
  <2> QED BY <1>1, <1>2, <1>5, <2>1, <2>2, InsideMatches DEF Known
<1>15. Static'
  <2>1. TokenNoted(K, TokenOf(kind, test), b, program, program', notes')
    <3>1. NoteFits(K, kind, test, type, Narrowing!Top.start, Known(Narrowing!Top), program')
      BY <1>1, <1>2, <1>4, <1>5, <1>6 DEF NoteFits, Narrowing!Exits
    <3>2. NoteRight(K + 1, program', notes') /\ notes'[K + 1].next = 0
      BY <1>1, <1>11, <1>13, <3>1, NewNoteRight DEF note
    <3>3. TokenOf(kind, test).kind \in Narrowing!Branches /\ program[b].kind \notin Narrowing!Loops
      BY <1>2, <1>4 DEF TokenOf, Narrowing!Loops, Narrowing!Branches
    <3> QED BY <3>2, <3>3 DEF TokenNoted
  <2>2. FrameRight(g, Len(program'))
    <3>1. FrameRight(Narrowing!Top, K + 1)
      BY <1>1, StillRight
    <3> QED BY <1>1, <1>3, <1>13, <3>1 DEF FrameRight, BodyEnded
  <2>3. Inside(g, program')
    <3>1. g.start = Narrowing!Top.start /\ g.kind = Narrowing!Top.kind /\ g.branch = K + 1 /\ g.complete = whole
      BY <1>3 DEF BodyEnded
    <3>2. program'[K + 1].kind = kind /\ program'[g.start].kind = g.kind
      BY <1>4, <1>13, <3>1 DEF TokenOf
    <3>3. whole /\ g.kind \in {"if", "value"} => kind = "else"
      BY <1>2, <1>6, <3>1
    <3>4. /\ 0 < g.start /\ g.start <= g.branch /\ g.branch <= Len(program')
          /\ program'[g.branch].kind \in Narrowing!Branches /\ g.kind \in {"if", "value", "switch"}
          /\ g.kind # "function" /\ program'[g.start].kind = g.kind
      BY <1>1, <1>2, <1>4, <1>13, <3>1, <3>2
    <3>5. g.complete /\ g.kind \in {"if", "value"} => program'[g.branch].kind = "else"
      BY <3>1, <3>2, <3>3
    <3> QED BY ONLY <3>4, <3>5 DEF Inside
  <2>4. TopStands(frames, N, g, program')
    <3>1. KeepsType(frames[N - 1], g.outer)
      BY <1>1, <1>3, <1>4 DEF FramesRight, BodyEnded
    <3>2. \A n \in 1 .. N - 1 : frames[n].falls
      BY <1>1 DEF FramesRight
    <3> QED BY <1>4, <2>2, <2>3, <3>1, <3>2 DEF TopStands
  <2>5. Matches(narrowed', narrowings', Len(program')) /\ KeepsType(g, narrowed')
    BY <1>2, <1>3, <1>13, <1>14 DEF KeepsType, BodyEnded
  <2>6. StaticRight(program, notes, frames, narrowed, narrowings)
    BY DEF Static
  <2>7. StaticRight(program', notes', frames', narrowed', narrowings')
    BY ONLY <1>1, <1>12, <1>14, <2>1, <2>4, <2>5, <2>6, StaticStep
  <2> QED BY <2>7 DEF Static
<1>16. ASSUME NEW in, NEW out, KnownNow(in, out) PROVE SomeKnown'
  <2>1. /\ Facts(K, in, out) /\ Calm(frames)
        /\ in[K + 1] = IF Narrowing!Top.falls THEN Cur ELSE Unreachable
        /\ in[K + 1] \in Int
        /\ FrameFlows(Narrowing!Top, in, out)
        /\ ~Narrowing!Top.assigned /\ Known(Narrowing!Top) # 0 => Cur = Known(Narrowing!Top)
        /\ KnownRight(program, notes, frames, Cur, in, out)
    BY <1>1, <1>4, <1>16, TopKnown
  <2> DEFINE now == IF test # Opaque THEN K + 1 ELSE Known(Narrowing!Top)
             in2 == [q \in 1 .. K + 2 |-> IF q = K + 2 THEN now ELSE IF q = K + 1 THEN Joined(g) ELSE in[q]]
             out2 == [q \in 1 .. K + 1 |-> IF q = K + 1 THEN Known(Narrowing!Top) ELSE out[q]]
  <2>2. now \in Int /\ Cur' = now /\ Joined(g) \in Int /\ Known(g) = Known(Narrowing!Top)
    BY <1>1, <1>3, <1>5, <1>14 DEF Joined, Known, BodyEnded, Unreachable
  <2> HIDE DEF now
  <2>3. /\ Flows(in[K + 1], Joined(g))
        /\ Flows(Joined(Narrowing!Top), Joined(g))
    <3>1. Cur \in Int
      <4>1. narrowed \in TypeNames /\ narrowings \in Lowerings
        BY StaticIs
      <4> QED BY <4>1 DEF Cur, KnownAs, Lowerings
    <3>2. PICK f : f = Narrowing!Top
      OBVIOUS
    <3>3. PICK cur : cur = Cur
      OBVIOUS
    <3>4. f \in Frames /\ BodyEnded(f, g) /\ cur \in Int
      BY <1>1, <1>3, <3>1, <3>2, <3>3
    <3>5. ~f.assigned /\ Known(f) # 0 => cur = Known(f)
      BY <2>1, <3>2, <3>3
    <3>6. Flows(IF f.falls THEN cur ELSE Unreachable, Joined(g)) /\ Flows(Joined(f), Joined(g))
      BY ONLY <3>4, <3>5, JoinedFlows
    <3> QED BY <2>1, <3>2, <3>3, <3>6
  <2>4. Grown(K, in, out, Joined(g), Known(Narrowing!Top), now, in2, out2)
    BY <1>5, <2>2, <2>3 DEF Grown
  <2> HIDE DEF in2, out2
  <2>5. /\ in2[K + 1] = Joined(g) /\ in2[K + 2] = now /\ out2[K + 1] = Known(Narrowing!Top)
        /\ \A q \in 1 .. K : in2[q] = in[q] /\ out2[q] = out[q]
    BY <1>1, <2>1, <2>4, GrownIs
  <2>6. Calm(frames')
    <3>1. /\ N <= Len(frames) => g.kind = frames[N].kind /\ g.outer = frames[N].outer
          /\ N <= Len(frames) /\ (\A k \in N .. Len(frames) : ~frames[k].assigned /\ ~frames[k].assigns) =>
               ~g.assigned /\ ~g.assigns
          /\ N > Len(frames) => ~g.assigned /\ ~g.assigns
      BY <1>1, <1>3 DEF BodyEnded
    <3> QED BY <1>1, <1>9, <2>1, <3>1, ReplacedCalm
  <2>7. TopKnows(frames, Cur, N, g, now, now, in2, out2)
    <3>1. FrameFlows(g, in2, out2)
      <4>1. in2[g.start] = Known(g)
        BY <1>3, <1>4, <2>1, <2>2, <2>5 DEF FrameFlows, BodyEnded
      <4>2. g.branch # g.start
        BY <1>1, <1>3, <1>4 DEF BodyEnded
      <4> QED BY <1>3, <2>2, <2>5, <4>1, <4>2 DEF FrameFlows
    <3>2. Known(g) # 0 => now = Known(g)
      BY <1>7, <2>2 DEF now
    <3>3. ~(N > Len(frames))
      BY <1>1
    <3> QED BY <1>1, <1>3, <2>2, <3>1, <3>2, <3>3 DEF TopKnows, BodyEnded
  <2>8. TokenFlows(K, b, program', notes', in2, out2)
    <3>1. K + 1 + 1 = K + 2
      BY <1>1
    <3>2. kind \notin Narrowing!Openings \cup Narrowing!Exits \cup {"assign", "end"}
      BY <1>6 DEF Narrowing!Openings, Narrowing!Exits
    <3>3. FromHere(K + 1, program', in2, out2) = Known(Narrowing!Top) /\ Behind(K + 1, program', in2, out2) = now
      BY <1>13, <2>5 DEF FromHere, Behind, TokenOf, now
    <3>4. StepFlows(K + 1, program', notes', in2, out2)
      BY <1>13, <2>5, <3>1, <3>2, <3>3 DEF StepFlows, TokenOf, Flows, Narrowing!Exits
    <3>5. notes'[K + 1].type # Opaque =>
            FromHere(K + 1, program', in2, out2) \in {Unreachable, notes'[K + 1].local}
      <4>1. notes'[K + 1].local = Known(Narrowing!Top)
        BY <1>11 DEF NoteOf, note
      <4> QED BY <3>3, <4>1
    <3>6. LinkFlows(b, program', notes', in2, out2)
      <4>1. notes'[b].next = K + 1 /\ program'[b] = program[b] /\ program'[K + 1].kind # "end"
        BY <1>1, <1>4, <1>11, <1>13, <3>2 DEF Extended, TokenOf
      <4>2. FromHere(b, program', in2, out2) = Known(Narrowing!Top)
        <5>1. CASE b = Narrowing!Top.start
          <6>1. program[b].kind \notin Narrowing!Branches
            BY <1>2, <1>4, <5>1 DEF Narrowing!Branches
          <6> QED BY <1>4, <2>1, <2>5, <4>1, <5>1, <6>1 DEF FromHere, FrameFlows
        <5>2. CASE b # Narrowing!Top.start
          BY <1>4, <2>1, <2>5, <4>1, <5>2 DEF FromHere, FrameFlows, b
        <5> QED BY <5>1, <5>2
      <4>3. program[b].kind \in Narrowing!Branches => in2[b] = Joined(Narrowing!Top)
        <5>1. CASE b = Narrowing!Top.start
          BY <1>2, <1>4, <5>1 DEF Narrowing!Branches
        <5>2. CASE b # Narrowing!Top.start
          BY <1>4, <2>1, <2>5, <5>2 DEF FrameFlows, b
        <5> QED BY <5>1, <5>2
      <4>4. program[b].kind \notin Narrowing!Loops
        BY <1>2, <1>4 DEF Narrowing!Loops, Narrowing!Branches
      <4> QED BY <2>3, <2>5, <4>1, <4>2, <4>3, <4>4 DEF LinkFlows, Flows
    <3> QED BY <3>4, <3>5, <3>6 DEF TokenFlows
  <2>9. KnownRight(program', notes', frames', now, in2, out2)
    <3>1. StaticRight(program, notes, frames, narrowed, narrowings)
      BY DEF Static
    <3> QED BY ONLY <1>1, <1>12, <2>1, <2>4, <2>6, <2>7, <2>8, <3>1, KnownStep
  <2> QED BY <2>2, <2>9 DEF SomeKnown, KnownNow
<1> QED BY <1>15, <1>16 DEF SomeKnown


\* The frames with the innermost left, and the one around it changed.
LEMMA PoppedFrames ==
  ASSUME NEW fs, fs \in Seq(Frames), NEW M, M \in Nat \ {0}, Len(fs) = M + 1,
         NEW g, g \in Frames, NEW fs2, fs2 = [SubSeq(fs, 1, M) EXCEPT ![M] = g]
  PROVE  Replaced(fs, fs2, M, g)
<1> DEFINE s == SubSeq(fs, 1, M)
<1>1. s \in Seq(Frames) /\ Len(s) = M /\ \A n \in 1 .. M : s[n] = fs[n]
  OBVIOUS
<1>2. fs2 = [s EXCEPT ![M] = g] /\ M \in 1 .. Len(s)
  BY <1>1
<1> HIDE DEF s
<1>3. /\ fs2 \in Seq(Frames) /\ Len(fs2) = Len(s) /\ fs2[M] = g
      /\ \A n \in 1 .. Len(s) : n # M => fs2[n] = s[n]
  BY <1>1, <1>2, ListChanged
<1>4. \A n \in 1 .. M - 1 : fs2[n] = fs[n]
  BY <1>1, <1>3
<1> QED BY <1>1, <1>3, <1>4 DEF Replaced

\* What an ended statement leaves of the frame around it.
ReturnsTo(f, parent, g) ==
  /\ SameFrame(parent, g)
  /\ g.assigns = parent.assigns /\ g.removes = parent.removes /\ g.continues = parent.continues
  /\ f.kind \in {"value", "block"} => g.assigned = parent.assigned /\ g.falls = parent.falls
  /\ f.kind \notin {"value", "block"} =>
       /\ g.assigned <=> parent.assigned \/ f.assigns
       /\ g.falls <=> parent.falls /\ (f.kind = "if" /\ f.complete => f.continues)

\* What a statement that ended changes in the one around it.
LEMMA AroundIs ==
  ASSUME NEW f, f \in Frames, NEW parent, parent \in Frames
  PROVE  ReturnsTo(f, parent, Narrowing!Around(f, parent))
<1> DEFINE g == Narrowing!Around(f, parent)
<1>1. CASE f.kind \in {"value", "block"}
  BY <1>1 DEF Narrowing!Around, SameFrame, ReturnsTo
<1>2. CASE f.kind \notin {"value", "block"}
  <2> DEFINE assigned == parent.assigned \/ f.assigns
             falls == parent.falls /\ (f.kind = "if" /\ f.complete => f.continues)
  <2>1. g = [parent EXCEPT !.assigned = assigned, !.falls = falls]
        /\ assigned \in BOOLEAN /\ falls \in BOOLEAN
    BY <1>2 DEF Narrowing!Around
  <2> HIDE DEF assigned, falls
  <2>2. /\ g \in Frames /\ g.assigned = assigned /\ g.falls = falls
        /\ g.kind = parent.kind /\ g.start = parent.start /\ g.branch = parent.branch
        /\ g.outer = parent.outer /\ g.lowered = parent.lowered /\ g.complete = parent.complete
        /\ g.assigns = parent.assigns /\ g.removes = parent.removes /\ g.continues = parent.continues
    BY <2>1 DEF Frames
  <2> QED BY <1>2, <2>2 DEF SameFrame, assigned, falls, ReturnsTo
<1> QED BY <1>1, <1>2

\* The narrowing after a statement, and what is known there.
LEMMA AfterIs ==
  ASSUME Static, Narrowing!Top.kind # "function", NEW f, BodyEnded(Narrowing!Top, f)
  PROVE  /\ Narrowing!NarrowedAfter(f) \in {Opaque, Narrowing!Top.outer}
         /\ Narrowing!LoweredAfter(f) \in Lowerings
         /\ Matches(Narrowing!NarrowedAfter(f), Narrowing!LoweredAfter(f), Len(program))
         /\ Narrowing!Top.kind \in {"if", "switch"} =>
              KnownAs(Narrowing!NarrowedAfter(f), Narrowing!LoweredAfter(f)) = IF f.removes THEN 0 ELSE Known(Narrowing!Top)
         /\ Narrowing!Top.kind = "while" =>
              KnownAs(Narrowing!NarrowedAfter(f), Narrowing!LoweredAfter(f)) = IF f.assigns THEN 0 ELSE Known(Narrowing!Top)
         /\ Narrowing!Top.kind = "for" =>
              KnownAs(Narrowing!NarrowedAfter(f), Narrowing!LoweredAfter(f))
                = IF f.assigns \/ narrowed = Opaque THEN 0 ELSE Known(Narrowing!Top)
         /\ Narrowing!Top.kind = "value" => KnownAs(Narrowing!NarrowedAfter(f), Narrowing!LoweredAfter(f)) = Known(Narrowing!Top)
         /\ Narrowing!Top.kind = "block" => KnownAs(Narrowing!NarrowedAfter(f), Narrowing!LoweredAfter(f)) = Cur
<1>1. /\ narrowed \in TypeNames /\ narrowings \in Lowerings
      /\ Matches(narrowed, narrowings, Len(program)) /\ KeepsType(Narrowing!Top, narrowed)
      /\ Narrowing!Top \in Frames /\ FrameRight(Narrowing!Top, Len(program))
  BY StaticIs
<1>2. /\ Narrowing!Top.outer \in TypeNames /\ Narrowing!Top.lowered \in Lowerings
      /\ Matches(Narrowing!Top.outer, Narrowing!Top.lowered, Len(program)) /\ Narrowing!Top.kind \in Narrowing!Openings
      /\ f.kind = Narrowing!Top.kind /\ f.outer = Narrowing!Top.outer /\ f.lowered = Narrowing!Top.lowered
  BY <1>1 DEF FrameRight, Frames, BodyEnded
<1>3. CASE Narrowing!Top.kind \in {"if", "switch"}
  BY <1>2, <1>3 DEF Narrowing!NarrowedAfter, Narrowing!LoweredAfter, Matches, KnownAs, Known
<1>4. CASE Narrowing!Top.kind = "while"
  BY <1>2, <1>4 DEF Narrowing!NarrowedAfter, Narrowing!LoweredAfter, Matches, KnownAs, Known
<1>5. CASE Narrowing!Top.kind = "for"
  <2>1. narrowed \in {Opaque, Narrowing!Top.outer}
    BY <1>1, <1>5 DEF KeepsType
  <2> QED BY <1>2, <1>5, <2>1 DEF Narrowing!NarrowedAfter, Narrowing!LoweredAfter, Matches,
      KnownAs, Known
<1>6. CASE Narrowing!Top.kind = "value"
  BY <1>2, <1>6 DEF Narrowing!NarrowedAfter, Narrowing!LoweredAfter, KnownAs, Known
<1>7. CASE Narrowing!Top.kind = "block"
  <2>1. narrowed \in {Opaque, Narrowing!Top.outer}
    BY <1>1, <1>7 DEF KeepsType
  <2> QED BY <1>1, <1>2, <1>7, <2>1 DEF Narrowing!NarrowedAfter, Narrowing!LoweredAfter, Cur
<1> QED BY <1>2, <1>3, <1>4, <1>5, <1>6, <1>7 DEF Narrowing!Openings


\* The frame around the statement that ends.
Ended == Narrowing!EndBody(Narrowing!Top)
Parent == frames[Len(frames) - 1]
Returned == Narrowing!Around(Ended, Parent)
Looped == IF Narrowing!Top.kind \in Narrowing!Loops THEN Narrowing!Top.start ELSE 0

\* What the end of a statement finds.
LEMMA EndIs ==
  ASSUME Static, Narrowing!End
  PROVE  /\ Len(frames) - 1 \in Nat \ {0} /\ Narrowing!Top.kind # "function"
         /\ BodyEnded(Narrowing!Top, Ended) /\ Ended.branch = Narrowing!Top.branch /\ Ended.complete = Narrowing!Top.complete
         /\ Parent \in Frames /\ Parent.falls /\ SameFrame(Parent, Returned)
         /\ Returned.assigns = Parent.assigns /\ Returned.removes = Parent.removes
         /\ Returned.continues = Parent.continues
         /\ Narrowing!Top.kind \in {"value", "block"} => Returned.assigned = Parent.assigned /\ Returned.falls
         /\ Narrowing!Top.kind \notin {"value", "block"} =>
              /\ Returned.assigned <=> Parent.assigned \/ Ended.assigns
              /\ Returned.falls <=> (Narrowing!Top.kind = "if" /\ Narrowing!Top.complete => Ended.continues)
         /\ Replaced(frames, frames', Len(frames) - 1, Returned)
         /\ Narrowing!Top.kind \in {"switch", "value"} => Narrowing!Top.complete
         /\ program' = Append(program, TokenOf("end", Opaque))
         /\ Linked(notes, NoteOf(narrowed, Looped, Cur), Narrowing!Top.branch, Narrowing!Here, notes')
         /\ narrowed' = Narrowing!NarrowedAfter(Ended) /\ narrowings' = Narrowing!LoweredAfter(Ended)
<1> DEFINE M == Len(frames) - 1
<1>1. /\ Len(frames) \in Nat \ {0} /\ FramesRight(frames, program) /\ frames \in Seq(Frames)
      /\ Narrowing!Top \in Frames /\ Narrowing!Top = frames[Len(frames)]
      /\ narrowed \in TypeNames /\ narrowings \in Lowerings /\ Len(program) \in Nat
      /\ Matches(narrowed, narrowings, Len(program))
      /\ Len(frames) > 1 => Inside(Narrowing!Top, program)
  BY StaticIs
<1>2. Len(frames) > 1
  BY DEF Narrowing!End
<1>3. M \in Nat \ {0} /\ Len(frames) = M + 1 /\ M \in 1 .. Len(frames) /\ M \in 1 .. Len(frames) - 1
  BY <1>1, <1>2
<1>4. Parent \in Frames /\ Parent.falls /\ Narrowing!Top.kind # "function" /\ Parent = frames[M]
  <2>1. Parent = frames[M]
    BY DEF Parent
  <2> QED BY <1>1, <1>2, <1>3, <2>1 DEF FramesRight, Inside
<1>5. BodyEnded(Narrowing!Top, Ended) /\ Ended.branch = Narrowing!Top.branch /\ Ended.complete = Narrowing!Top.complete
  BY <1>1, EndBodyIs DEF Ended
<1>6. Ended \in Frames /\ Ended.kind = Narrowing!Top.kind /\ Ended.start = Narrowing!Top.start
  BY <1>5 DEF BodyEnded
<1>7. /\ SameFrame(Parent, Returned)
      /\ Returned.assigns = Parent.assigns /\ Returned.removes = Parent.removes
      /\ Returned.continues = Parent.continues
      /\ Ended.kind \in {"value", "block"} =>
           Returned.assigned = Parent.assigned /\ Returned.falls = Parent.falls
      /\ Ended.kind \notin {"value", "block"} =>
           /\ Returned.assigned <=> Parent.assigned \/ Ended.assigns
           /\ Returned.falls <=> Parent.falls /\ (Ended.kind = "if" /\ Ended.complete => Ended.continues)
  <2>1. ReturnsTo(Ended, Parent, Returned)
    BY <1>4, <1>6, AroundIs DEF Returned
  <2> QED BY <2>1 DEF ReturnsTo
<1>8. /\ Narrowing!Top.kind \in {"switch", "value"} => Narrowing!Top.complete
      /\ program' = Append(program, TokenOf("end", Opaque))
      /\ notes' = Narrowing!LinkFrom(Ended.branch, Append(notes,
           [type |-> narrowed, next |-> 0, origin |-> IF Ended.kind \in Narrowing!Loops THEN Ended.start ELSE 0,
            local |-> IF narrowings.type = narrowed THEN narrowings.local ELSE 0]))
      /\ frames' = [SubSeq(frames, 1, Len(frames) - 1) EXCEPT ![Len(frames) - 1] = Narrowing!Around(Ended, @)]
      /\ narrowed' = Narrowing!NarrowedAfter(Ended) /\ narrowings' = Narrowing!LoweredAfter(Ended)
  BY DEF Narrowing!End, Ended, TokenOf, Narrowing!InFrame
<1>9. Replaced(frames, frames', M, Returned)
  <2>1. SubSeq(frames, 1, M)[M] = Parent
    BY <1>1, <1>3, <1>4
  <2>2. frames' = [SubSeq(frames, 1, M) EXCEPT ![M] = Returned]
    BY <1>8, <2>1 DEF Returned
  <2>3. Returned \in Frames
    BY <1>7 DEF SameFrame
  <2> HIDE DEF M
  <2> QED BY <1>1, <1>3, <2>2, <2>3, PoppedFrames
<1>10. Linked(notes, NoteOf(narrowed, Looped, Cur), Narrowing!Top.branch, Narrowing!Here, notes')
  <2>1. (IF narrowings.type = narrowed THEN narrowings.local ELSE 0) = Cur
    BY <1>1, LocalIs DEF Cur
  <2> QED BY <1>5, <1>6, <1>8, <2>1 DEF Linked, Narrowing!LinkFrom, NoteOf, Looped
<1>11. /\ Narrowing!Top.kind \in {"value", "block"} => Returned.assigned = Parent.assigned /\ Returned.falls
       /\ Narrowing!Top.kind \notin {"value", "block"} =>
            /\ Returned.assigned <=> Parent.assigned \/ Ended.assigns
            /\ Returned.falls <=> (Narrowing!Top.kind = "if" /\ Narrowing!Top.complete => Ended.continues)
  BY <1>4, <1>5, <1>6, <1>7
<1> QED BY <1>3, <1>4, <1>5, <1>7, <1>8, <1>9, <1>10, <1>11

\* The end of a statement leaves the static part right.
LEMMA EndStatic ==
  ASSUME Static, Narrowing!End
  PROVE  /\ Static'
         /\ Step(program, notes, frames, TokenOf("end", Opaque), Narrowing!Top.branch, Len(frames) - 1, Returned,
                 program', notes', frames')
         /\ Len(program') = Len(program) + 1 /\ program'[Len(program) + 1] = TokenOf("end", Opaque)
         /\ \A p \in 1 .. Len(program) : program'[p] = program[p]
         /\ notes'[Len(program) + 1] = NoteOf(narrowed, Looped, Cur)
         /\ notes'[Narrowing!Top.branch].next = Len(program) + 1
<1> DEFINE M == Len(frames) - 1
           K == Len(program)
           b == Narrowing!Top.branch
           t == TokenOf("end", Opaque)
           note == NoteOf(narrowed, Looped, Cur)
<1>1. /\ program \in Seq(Tokens) /\ K \in Nat /\ K = Len(program)
      /\ NotesRight(program, notes, PendingBranches(frames)) /\ FramesRight(frames, program)
      /\ Narrowing!Top \in Frames /\ Narrowing!Top = frames[Len(frames)]
      /\ frames \in Seq(Frames) /\ Narrowing!Here = K + 1
      /\ narrowed \in TypeNames /\ narrowings \in Lowerings
      /\ Matches(narrowed, narrowings, K) /\ KeepsType(Narrowing!Top, narrowed)
  BY StaticIs DEF Narrowing!Here
<1>2. /\ M \in Nat \ {0} /\ Narrowing!Top.kind # "function" /\ Len(frames) = M + 1
      /\ BodyEnded(Narrowing!Top, Ended)
      /\ Parent \in Frames /\ SameFrame(Parent, Returned) /\ Parent = frames[M]
      /\ Returned.assigns = Parent.assigns /\ Returned.removes = Parent.removes
      /\ Replaced(frames, frames', M, Returned)
      /\ program' = Append(program, t)
      /\ Linked(notes, note, b, Narrowing!Here, notes')
      /\ narrowed' = Narrowing!NarrowedAfter(Ended) /\ narrowings' = Narrowing!LoweredAfter(Ended)
  <2>1. Len(frames) \in Nat
    BY <1>1
  <2> QED BY <2>1, EndIs DEF Parent
<1>3. /\ Inside(Narrowing!Top, program) /\ b \in 1 .. K /\ Narrowing!Top.start \in 1 .. K
      /\ program[Narrowing!Top.start].kind = Narrowing!Top.kind
  BY <1>2, BranchIs
<1>4. Cur \in Nat /\ Cur <= K /\ (narrowed # Opaque => Cur # 0)
  BY <1>1, LocalIs DEF Cur
<1>5. note \in Notes /\ t \in Tokens
  <2>1. Looped \in Nat
    BY <1>1, <1>3 DEF Looped
  <2>2. note \in Notes
    BY <1>1, <1>4, <2>1 DEF NoteOf, Notes
  <2>3. t \in Tokens
    BY DEF TokenOf, Tokens, Kinds, TypeNames
  <2> QED BY <2>2, <2>3
<1>6. t.kind = "end"
  BY DEF TokenOf
<1> HIDE DEF note, b, K, M, t
<1>7. \A p \in PendingBranches(frames) : p = b \/ p \in PendingBranches(frames')
  <2>1. LinkedAbove(frames, M, Returned, b)
    BY <1>1, <1>2 DEF LinkedAbove, SameFrame, b
  <2>2. Len(frames) \in Nat
    BY <1>1
  <2> QED BY <1>2, <2>1, <2>2, ReplacedPending
<1>8. Extended(program, notes, PendingBranches(frames), t, b, program', notes', PendingBranches(frames'))
      /\ notes'[K + 1] = note
  <2>1. /\ Linked(notes, note, b, Narrowing!Here, notes') /\ Added(program, t, program')
        /\ t \in Tokens /\ note \in Notes
        /\ NotesRight(program, notes, PendingBranches(frames))
        /\ MayLink(program, t, b, Narrowing!Here, PendingBranches(frames), PendingBranches(frames'))
    BY <1>1, <1>2, <1>3, <1>5, <1>6, <1>7 DEF Added, MayLink, Narrowing!Openings, Narrowing!Branches
  <2>2. Extended(program, notes, PendingBranches(frames), t, b, program', notes', PendingBranches(frames'))
    BY ONLY <2>1, NoteLinked
  <2>3. notes \in Seq(Notes) /\ Len(notes) = K
    BY <1>1 DEF NotesRight
  <2>4. notes'[Len(notes) + 1] = note
    BY <1>3, <2>1, <2>3, LinkedLast
  <2> QED BY <2>2, <2>3, <2>4
<1>9. Step(program, notes, frames, t, b, M, Returned, program', notes', frames')
  BY <1>2, <1>8 DEF Step
<1>10. /\ Len(program') = K + 1 /\ program'[K + 1] = t
       /\ \A p \in 1 .. K : program'[p] = program[p]
  BY <1>1, <1>2, <1>5
<1>11. notes'[b].next = K + 1
  BY <1>1, <1>3, <1>8 DEF Extended
<1>12. TokenNoted(K, t, b, program, program', notes')
  <2>1. NoteFits(K, "end", Opaque, narrowed, Looped, Cur, program')
    <3>1. Looped \in Nat /\ Looped <= K /\ (Looped # 0 => program'[Looped].kind \in Narrowing!Loops)
      BY <1>1, <1>3, <1>10 DEF Looped
    <3> QED BY <1>4, <3>1 DEF NoteFits
  <2>2. NoteRight(K + 1, program', notes') /\ notes'[K + 1].next = 0
    BY <1>1, <1>8, <1>10, <2>1, NewNoteRight DEF note, t
  <2> QED BY <1>6, <2>2 DEF TokenNoted
<1>13. TopStands(frames, M, Returned, program')
  <2>1. FrameRight(Parent, K) /\ (M > 1 => Inside(Parent, program) /\ KeepsType(frames[M - 1], Parent.outer))
    BY <1>1, <1>2 DEF FramesRight
  <2>2. FrameRight(Returned, Len(program'))
    <3>1. Returned.removes => Returned.assigns
      BY <1>2, <2>1 DEF FrameRight
    <3>2. FrameRight(Returned, K + 1)
      BY <1>1, <1>2, <2>1, <3>1, SameRight
    <3> QED BY <1>10, <3>2
  <2>3. M > 1 => Inside(Returned, program')
    BY <1>1, <1>2, <1>5, <2>1, SameInside
  <2>4. M > 1 => KeepsType(frames[M - 1], Returned.outer)
    BY <1>2, <2>1 DEF SameFrame
  <2>5. M = 1 => Returned.kind = "function" /\ Returned.branch = 0
    BY <1>1, <1>2 DEF FramesRight, SameFrame
  <2>6. \A n \in 1 .. M - 1 : frames[n].falls
    BY <1>1, <1>2 DEF FramesRight
  <2> QED BY <2>2, <2>3, <2>4, <2>5, <2>6 DEF TopStands
<1>14. /\ Narrowing!NarrowedAfter(Ended) \in {Opaque, Narrowing!Top.outer} /\ Narrowing!LoweredAfter(Ended) \in Lowerings
       /\ Matches(Narrowing!NarrowedAfter(Ended), Narrowing!LoweredAfter(Ended), Len(program))
  BY <1>2, AfterIs
<1>15. /\ narrowed' \in TypeNames /\ narrowings' \in Lowerings
       /\ Matches(narrowed', narrowings', Len(program')) /\ KeepsType(Returned, narrowed')
  <2>1. narrowed' \in TypeNames /\ narrowings' \in Lowerings
    BY <1>1, <1>2, <1>14 DEF TypeNames, Frames
  <2>2. Matches(narrowed', narrowings', Len(program'))
    BY <1>1, <1>2, <1>10, <1>14 DEF Matches, Lowerings
  <2>3. KeepsType(Parent, Narrowing!Top.outer)
    BY <1>1, <1>2 DEF FramesRight
  <2>4. KeepsType(Returned, narrowed')
    BY <1>2, <1>14, <2>3 DEF KeepsType, SameFrame
  <2> QED BY <2>1, <2>2, <2>4
<1>16. Static'
  <2>1. StaticRight(program, notes, frames, narrowed, narrowings)
    BY DEF Static
  <2>2. TokenNoted(Len(program), t, b, program, program', notes')
    BY <1>1, <1>12
  <2>3. StaticRight(program', notes', frames', narrowed', narrowings')
    BY ONLY <1>9, <1>13, <1>15, <2>1, <2>2, StaticStep
  <2> QED BY <2>3 DEF Static
<1>17. K = Len(program) /\ b = Narrowing!Top.branch /\ M = Len(frames) - 1 /\ t = TokenOf("end", Opaque)
       /\ note = NoteOf(narrowed, Looped, Cur)
  BY DEF K, b, M, t, note
<1> QED BY <1>8, <1>9, <1>10, <1>11, <1>16, <1>17


\* Only what was known before the statement is known after it, and only where no
\* body of it lost that.
LEMMA AfterFlows ==
  ASSUME Static, Narrowing!End, NEW in, NEW out, KnownNow(in, out),
         NEW after, after = KnownAs(Narrowing!NarrowedAfter(Ended), Narrowing!LoweredAfter(Ended)),
         NEW now, now = IF Returned.falls THEN after ELSE Unreachable
  PROVE  /\ Narrowing!Top.kind \in {"if", "switch", "value", "block"} => Flows(in[Len(program) + 1], now)
         /\ Narrowing!Top.kind \in {"if", "switch", "value"} => Flows(Joined(Narrowing!Top), now)
         /\ Narrowing!Top.kind \in {"if", "switch", "value"} /\ program[Narrowing!Top.branch].kind # "else" =>
              Flows(Known(Narrowing!Top), now)
         /\ Narrowing!Top.kind \in Narrowing!Loops => Flows(Known(Narrowing!Top), now) /\ Flows(in[Len(program) + 1], Known(Narrowing!Top))
         /\ ~Returned.assigned /\ Known(Returned) # 0 => after = Known(Returned)
<1> DEFINE was == in[Len(program) + 1]
<1>1. /\ Len(frames) - 1 \in Nat \ {0} /\ Narrowing!Top.kind # "function" /\ BodyEnded(Narrowing!Top, Ended)
      /\ SameFrame(Parent, Returned)
      /\ Narrowing!Top.kind \in {"value", "block"} => Returned.assigned = Parent.assigned /\ Returned.falls
      /\ Narrowing!Top.kind \notin {"value", "block"} =>
           /\ Returned.assigned <=> Parent.assigned \/ Ended.assigns
           /\ Returned.falls <=> (Narrowing!Top.kind = "if" /\ Narrowing!Top.complete => Ended.continues)
      /\ Narrowing!Top.kind \in {"switch", "value"} => Narrowing!Top.complete
  BY EndIs
<1>0. /\ Len(frames) - 1 \in Nat \ {0} /\ Len(frames) - 1 \in 1 .. Len(frames) - 1
      /\ Len(frames) = (Len(frames) - 1) + 1
      /\ Len(frames) \in 1 .. Len(frames) /\ Len(frames) - 1 \in 1 .. Len(frames)
      /\ Len(frames) - 1 < Len(frames)
  <2> DEFINE L == Len(frames)
  <2>1. L \in Nat /\ L - 1 \in Nat \ {0}
    BY <1>1, StaticIs
  <2> HIDE DEF L
  <2>2. /\ L - 1 \in Nat \ {0} /\ L - 1 \in 1 .. L - 1 /\ L = (L - 1) + 1
        /\ L \in 1 .. L /\ L - 1 \in 1 .. L /\ L - 1 < L
    BY <2>1
  <2> QED BY <2>2 DEF L
<1>2. /\ Len(frames) \in Nat \ {0} /\ Narrowing!Top \in Frames /\ FrameRight(Narrowing!Top, Len(program))
      /\ KeepsType(Narrowing!Top, narrowed) /\ Narrowing!Top = frames[Len(frames)]
      /\ narrowed \in TypeNames /\ narrowings \in Lowerings
  BY StaticIs
<1>3. /\ Calm(frames) /\ Keeps(frames, Cur)
      /\ was = IF Narrowing!Top.falls THEN Cur ELSE Unreachable
      /\ ~Narrowing!Top.assigned /\ Known(Narrowing!Top) # 0 => Cur = Known(Narrowing!Top)
      /\ Guarded(frames, Len(frames)) => ~Narrowing!Top.assigned /\ ~Narrowing!Top.assigns
  BY TopKnown
<1>4. /\ Narrowing!Top.kind \in {"if", "switch"} => after = IF Ended.removes THEN 0 ELSE Known(Narrowing!Top)
      /\ Narrowing!Top.kind = "while" => after = IF Ended.assigns THEN 0 ELSE Known(Narrowing!Top)
      /\ Narrowing!Top.kind = "for" => after = IF Ended.assigns \/ narrowed = Opaque THEN 0 ELSE Known(Narrowing!Top)
      /\ Narrowing!Top.kind = "value" => after = Known(Narrowing!Top)
      /\ Narrowing!Top.kind = "block" => after = Cur
  BY <1>1, AfterIs
<1>5. Known(Narrowing!Top) # 0 => Narrowing!Top.outer # Opaque
  BY DEF Known, KnownAs
<1>6. Cur # 0 => narrowed # Opaque
  BY DEF Cur, KnownAs
<1>7. Cur \in Int
  BY <1>2 DEF Cur, KnownAs, Lowerings
<1>8. /\ Ended.assigns <=> Narrowing!Top.assigns \/ Narrowing!Top.assigned
      /\ Ended.removes <=> Narrowing!Top.removes \/ (Narrowing!Top.assigned /\ Narrowing!Top.falls)
      /\ Ended.continues <=> Narrowing!Top.continues \/ Narrowing!Top.falls
      /\ Ended.removes => Ended.assigns
      /\ Known(Ended) = Known(Narrowing!Top)
  BY <1>1, <1>2 DEF BodyEnded, FrameRight, Known
<1>9. Narrowing!Top.kind \in Narrowing!Loops \cup {"value"} /\ Known(Narrowing!Top) # 0 => ~Ended.assigns /\ ~Narrowing!Top.assigned
  <2> SUFFICES ASSUME Narrowing!Top.kind \in Narrowing!Loops \cup {"value"}, Known(Narrowing!Top) # 0
               PROVE  ~Ended.assigns /\ ~Narrowing!Top.assigned
    OBVIOUS
  <2>1. Guarded(frames, Len(frames))
    BY <1>2, <1>5 DEF Guarded
  <2> QED BY <1>3, <1>8, <2>1
<1>10. Flows(was, Joined(Ended)) /\ Flows(Joined(Narrowing!Top), Joined(Ended))
  BY <1>1, <1>2, <1>3, <1>7, JoinedFlows, ZenonT(60)
<1>11. ASSUME Narrowing!Top.kind \in {"if", "switch", "value"} PROVE Flows(Joined(Ended), now)
  <2>1. CASE ~Ended.continues
    BY <2>1 DEF Joined, Flows
  <2>2. CASE Ended.continues
    <3>1. now = after
      BY <1>1, <1>11, <2>2
    <3>2. after = IF Ended.removes THEN 0 ELSE Known(Narrowing!Top)
      BY <1>4, <1>8, <1>9, <1>11
    <3> QED BY <1>8, <2>2, <3>1, <3>2 DEF Joined, Flows
  <2> QED BY <2>1, <2>2
<1>12. Narrowing!Top.kind \in {"if", "switch", "value", "block"} => Flows(was, now)
  <2>1. CASE Narrowing!Top.kind = "block"
    BY <1>1, <1>3, <1>4, <2>1 DEF Flows
  <2>2. CASE Narrowing!Top.kind \in {"if", "switch", "value"}
    BY <1>10, <1>11, <2>2, FlowsOn
  <2> QED BY <2>1, <2>2
<1>13. Narrowing!Top.kind \in {"if", "switch", "value"} => Flows(Joined(Narrowing!Top), now)
  BY <1>10, <1>11, FlowsOn
<1>14. Narrowing!Top.kind \in {"if", "switch", "value"} /\ program[Narrowing!Top.branch].kind # "else" => Flows(Known(Narrowing!Top), now)
  <2> SUFFICES ASSUME Narrowing!Top.kind \in {"if", "switch", "value"}, program[Narrowing!Top.branch].kind # "else"
               PROVE  Flows(Known(Narrowing!Top), now)
    OBVIOUS
  <2>1. ~(Narrowing!Top.complete /\ Narrowing!Top.kind \in {"if", "value"})
    <3>1. Inside(Narrowing!Top, program)
      BY <1>1, BranchIs
    <3> QED BY <3>1 DEF Inside
  <2>2. Returned.falls
    BY <1>1, <2>1
  <2> QED BY <1>4, <2>2 DEF Flows
<1>15. Narrowing!Top.kind \in Narrowing!Loops => Flows(Known(Narrowing!Top), now) /\ Flows(was, Known(Narrowing!Top))
  <2> SUFFICES ASSUME Narrowing!Top.kind \in Narrowing!Loops PROVE Flows(Known(Narrowing!Top), now) /\ Flows(was, Known(Narrowing!Top))
    OBVIOUS
  <2>1. now = after
    BY <1>1 DEF Narrowing!Loops
  <2>2. after = 0 \/ after = Known(Narrowing!Top)
    BY <1>4 DEF Narrowing!Loops
  <2>3. Flows(Known(Narrowing!Top), now)
    BY <2>1, <2>2 DEF Flows
  <2>4. Flows(was, Known(Narrowing!Top))
    BY <1>3, <1>9 DEF Flows
  <2> QED BY <2>3, <2>4
<1>16. ASSUME ~Returned.assigned, Known(Returned) # 0 PROVE after = Known(Returned)
  <2>1. Known(Returned) = Known(Parent) /\ Known(Parent) # 0 /\ Parent.outer # Opaque
    BY <1>1, <1>16 DEF Known, KnownAs, SameFrame
  <2>2. ~Parent.assigned /\ (Narrowing!Top.kind \notin {"value", "block"} => ~Ended.assigns)
    BY <1>1, <1>16
  <2>3. Known(Narrowing!Top) = Known(Parent)
    <3> DEFINE M == Len(frames) - 1
    <3>1. /\ M \in Nat \ {0} /\ Len(frames) = M + 1 /\ Parent = frames[M] /\ M \in 1 .. Len(frames) - 1
          /\ Len(frames) \in 1 .. Len(frames)
      BY <1>0 DEF Parent
    <3>2. Unassigned(frames, M, M)
      BY <2>2, <3>1 DEF Unassigned
    <3>3. \A n \in 1 .. Len(frames) - 1 :
            Unassigned(frames, n, Len(frames) - 1) /\ Known(frames[n]) # 0 =>
              Known(frames[Len(frames)]) = Known(frames[n])
      BY <1>3, <3>1 DEF Keeps
    <3> QED BY <1>2, <2>1, <3>1, <3>2, <3>3
  <2>4. CASE Narrowing!Top.kind = "block"
    <3>1. Guarded(frames, Len(frames))
      <4> QED BY <1>0, <1>2, <2>1, <2>4 DEF Guarded, Parent
    <3> QED BY <1>3, <1>4, <2>1, <2>3, <2>4, <3>1
  <2>5. CASE Narrowing!Top.kind = "for"
    BY <1>3, <1>4, <1>6, <1>8, <2>1, <2>2, <2>3, <2>5
  <2>6. CASE Narrowing!Top.kind \in {"if", "switch", "while", "value"}
    BY <1>4, <1>8, <2>1, <2>2, <2>3, <2>6
  <2>7. Narrowing!Top.kind \in Narrowing!Openings
    BY <1>1, <1>2 DEF Frames
  <2> QED BY <2>4, <2>5, <2>6, <2>7 DEF Narrowing!Openings
<1> QED BY <1>12, <1>13, <1>14, <1>15, <1>16


\* A statement ends: what is known behind it holds on every way there.
LEMMA EndTokenStep ==
  ASSUME Static, Narrowing!End
  PROVE  Static' /\ (SomeKnown => SomeKnown')
<1> DEFINE M == Len(frames) - 1
           K == Len(program)
           b == Narrowing!Top.branch
           t == TokenOf("end", Opaque)
<1>1. /\ K \in Nat /\ K = Len(program) /\ program \in Seq(Tokens) /\ Len(frames) \in Nat \ {0}
      /\ Narrowing!Top \in Frames /\ Narrowing!Top = frames[Len(frames)]
      /\ FramesRight(frames, program) /\ narrowed \in TypeNames /\ narrowings \in Lowerings
      /\ Matches(narrowed, narrowings, K)
  BY StaticIs
<1>2. /\ M \in Nat \ {0} /\ Len(frames) = M + 1 /\ Parent = frames[M] /\ M \in 1 .. Len(frames)
      /\ Narrowing!Top.kind # "function" /\ BodyEnded(Narrowing!Top, Ended)
      /\ Parent \in Frames /\ SameFrame(Parent, Returned)
      /\ Returned.assigns = Parent.assigns /\ Returned.removes = Parent.removes
      /\ Returned.continues = Parent.continues
      /\ Narrowing!Top.kind \in {"value", "block"} => Returned.assigned = Parent.assigned /\ Returned.falls
      /\ Narrowing!Top.kind \notin {"value", "block"} =>
           /\ Returned.assigned <=> Parent.assigned \/ Ended.assigns
           /\ Returned.falls <=> (Narrowing!Top.kind = "if" /\ Narrowing!Top.complete => Ended.continues)
      /\ Replaced(frames, frames', M, Returned)
      /\ narrowed' = Narrowing!NarrowedAfter(Ended) /\ narrowings' = Narrowing!LoweredAfter(Ended)
  <2> DEFINE L == Len(frames)
  <2>1. L \in Nat /\ L - 1 \in Nat \ {0}
    BY <1>1, EndIs
  <2> HIDE DEF L
  <2>2. L - 1 \in Nat \ {0} /\ L = (L - 1) + 1 /\ L - 1 \in 1 .. L
    BY <2>1
  <2>3. M \in Nat \ {0} /\ Len(frames) = M + 1 /\ Parent = frames[M] /\ M \in 1 .. Len(frames)
    BY <2>2 DEF L, Parent
  <2> QED BY <2>3, EndIs
<1>3. /\ Inside(Narrowing!Top, program) /\ b \in 1 .. K /\ Narrowing!Top.start \in 1 .. K
      /\ program[b].kind \in {Narrowing!Top.kind} \cup Narrowing!Branches
      /\ b # Narrowing!Top.start => program[b].kind \in Narrowing!Branches
      /\ program[Narrowing!Top.start].kind = Narrowing!Top.kind
  BY <1>2, BranchIs
<1>4. /\ Static' /\ Step(program, notes, frames, t, b, M, Returned, program', notes', frames')
      /\ Len(program') = K + 1 /\ program'[K + 1] = t
      /\ \A p \in 1 .. K : program'[p] = program[p]
      /\ notes'[K + 1] = NoteOf(narrowed, Looped, Cur)
      /\ notes'[b].next = K + 1
  BY EndStatic
<1>5. Cur \in Nat
  BY <1>1, LocalIs DEF Cur
<1>6. t.kind = "end" /\ t.test = Opaque
  BY DEF TokenOf
<1>7. Narrowing!Top.kind \in Narrowing!Openings
  BY <1>1, <1>2 DEF Frames
<1> HIDE DEF M, K, b, t
<1>8. ASSUME NEW in, NEW out, KnownNow(in, out) PROVE SomeKnown'
  <2>1. /\ Facts(K, in, out) /\ Calm(frames)
        /\ in[K + 1] = IF Narrowing!Top.falls THEN Cur ELSE Unreachable
        /\ in[K + 1] \in Int
        /\ FrameFlows(Narrowing!Top, in, out)
        /\ KnownRight(program, notes, frames, Cur, in, out)
    BY <1>1, <1>2, <1>8, TopKnown
  <2> DEFINE after == KnownAs(Narrowing!NarrowedAfter(Ended), Narrowing!LoweredAfter(Ended))
             now == IF Returned.falls THEN after ELSE Unreachable
             past == IF Narrowing!Top.kind \in Narrowing!Loops \cup {"block"} THEN Unreachable ELSE now
             in2 == [q \in 1 .. K + 2 |-> IF q = K + 2 THEN now ELSE IF q = K + 1 THEN in[K + 1] ELSE in[q]]
             out2 == [q \in 1 .. K + 1 |-> IF q = K + 1 THEN past ELSE out[q]]
  <2>2. /\ Narrowing!Top.kind \in {"if", "switch", "value", "block"} => Flows(in[K + 1], now)
        /\ Narrowing!Top.kind \in {"if", "switch", "value"} => Flows(Joined(Narrowing!Top), now)
        /\ Narrowing!Top.kind \in {"if", "switch", "value"} /\ program[b].kind # "else" => Flows(Known(Narrowing!Top), now)
        /\ Narrowing!Top.kind \in Narrowing!Loops => Flows(Known(Narrowing!Top), now) /\ Flows(in[K + 1], Known(Narrowing!Top))
        /\ ~Returned.assigned /\ Known(Returned) # 0 => after = Known(Returned)
    BY <1>1, <1>8, AfterFlows DEF b
  <2>3. Cur' = after /\ after \in Int
    <3>1. Cur' = after
      BY <1>2 DEF Cur
    <3>2. Narrowing!LoweredAfter(Ended) \in Lowerings
      BY <1>2, AfterIs
    <3> QED BY <3>1, <3>2 DEF KnownAs, Lowerings
  <2> HIDE DEF after
  <2>4. now \in Int /\ past \in Int
    BY <2>3 DEF Unreachable
  <2> HIDE DEF now
  <2>5. past \in {Unreachable, now} /\ (Narrowing!Top.kind \notin Narrowing!Loops \cup {"block"} => past = now)
        /\ (Narrowing!Top.kind \in Narrowing!Loops \cup {"block"} => past = Unreachable)
    OBVIOUS
  <2> HIDE DEF past
  <2>6. Grown(K, in, out, in[K + 1], past, now, in2, out2)
    BY <2>1, <2>4 DEF Grown, Flows, Unreachable
  <2> HIDE DEF in2, out2
  <2>7. /\ in2[K + 1] = in[K + 1] /\ in2[K + 2] = now /\ out2[K + 1] = past
        /\ \A q \in 1 .. K : in2[q] = in[q] /\ out2[q] = out[q]
    BY <1>1, <2>1, <2>6, GrownIs
  <2>8. Calm(frames')
    <3>1. /\ M <= Len(frames) => Returned.kind = frames[M].kind /\ Returned.outer = frames[M].outer
          /\ M <= Len(frames) /\ (\A k \in M .. Len(frames) : ~frames[k].assigned /\ ~frames[k].assigns) =>
               ~Returned.assigned /\ ~Returned.assigns
          /\ M > Len(frames) => ~Returned.assigned /\ ~Returned.assigns
      <4>1. M \in M .. Len(frames) /\ Len(frames) \in M .. Len(frames) /\ ~(M > Len(frames))
        BY <1>2
      <4>2. ~Narrowing!Top.assigned /\ ~Narrowing!Top.assigns => ~Ended.assigns
        BY <1>2 DEF BodyEnded
      <4> QED BY <1>1, <1>2, <4>1, <4>2 DEF SameFrame
    <3> QED BY <1>1, <1>2, <2>1, <3>1, ReplacedCalm
  <2>9. TopKnows(frames, Cur, M, Returned, after, now, in2, out2)
    <3>1. Known(Returned) = Known(Parent)
      BY <1>2 DEF Known, SameFrame
    <3>2. M > 1 => FrameFlows(Returned, in2, out2)
      <4>1. M > 1 => FrameFlows(Parent, in, out) /\ Inside(Parent, program)
        BY <1>1, <1>2, <2>1 DEF KnownRight, FramesFlow, FramesRight
      <4>2. Facts(Len(program), in, out) /\ Grown(Len(program), in, out, in[K + 1], past, now, in2, out2)
        BY <1>1, <2>1, <2>6
      <4> QED BY <1>1, <1>2, <4>1, <4>2, SameFlow
    <3>3. ~(M > Len(frames))
      BY <1>2
    <3>4. now = IF Returned.falls THEN after ELSE Unreachable
      BY DEF now
    <3> QED BY <1>2, <2>2, <3>1, <3>2, <3>3, <3>4 DEF TopKnows
  <2>10. TokenFlows(K, b, program', notes', in2, out2)
    <3>1. K + 1 + 1 = K + 2
      BY <1>1
    <3>2. StepFlows(K + 1, program', notes', in2, out2)
      <4>1. notes'[K + 1].origin = Looped /\ program'[K + 1].kind = "end"
        BY <1>4, <1>6 DEF NoteOf
      <4>2. CASE Narrowing!Top.kind \in Narrowing!Loops
        <5>1. Looped = Narrowing!Top.start /\ Looped # 0 /\ in2[Looped] = Known(Narrowing!Top)
          BY <1>1, <1>3, <2>1, <2>7, <4>2 DEF Looped, FrameFlows
        <5>2. Flows(in2[K + 1], in2[Looped]) /\ out2[K + 1] = Unreachable
          BY <2>2, <2>5, <2>7, <4>2, <5>1
        <5> QED BY <4>1, <5>1, <5>2 DEF StepFlows, Narrowing!Openings, Narrowing!Branches
      <4>3. CASE Narrowing!Top.kind \notin Narrowing!Loops
        <5>1. Looped = 0 /\ Narrowing!Top.kind \in {"if", "switch", "value", "block"}
          BY <1>7, <4>3 DEF Looped, Narrowing!Openings, Narrowing!Loops
        <5>2. Flows(in2[K + 1], in2[K + 2])
          BY <2>2, <2>7, <5>1
        <5>3. Flows(out2[K + 1], in2[K + 2])
          BY <2>5, <2>7 DEF Flows
        <5> QED BY <3>1, <4>1, <5>1, <5>2, <5>3 DEF StepFlows, Narrowing!Openings,
            Narrowing!Branches
      <4> QED BY <4>2, <4>3
    <3>3. notes'[K + 1].type # Opaque =>
            FromHere(K + 1, program', in2, out2) \in {Unreachable, notes'[K + 1].local}
      <4>1. notes'[K + 1].local = Cur /\ FromHere(K + 1, program', in2, out2) = in2[K + 1]
        BY <1>4, <1>6 DEF NoteOf, FromHere, Narrowing!Branches
      <4> QED BY <2>1, <2>7, <4>1
    <3>4. LinkFlows(b, program', notes', in2, out2)
      <4>1. notes'[b].next = K + 1 /\ program'[b] = program[b] /\ program'[K + 1].kind = "end"
            /\ in2[b] = in[b] /\ out2[b] = out[b]
        BY <1>3, <1>4, <1>6, <2>7
      <4>2. CASE Narrowing!Top.kind \in Narrowing!Loops \cup {"block"}
        <5>1. b = Narrowing!Top.start /\ program[b].kind = Narrowing!Top.kind
          BY <1>3, <4>2 DEF Inside, b, Narrowing!Loops
        <5>2. in2[b] = Known(Narrowing!Top)
          BY <2>1, <4>1, <5>1 DEF FrameFlows
        <5>3. Narrowing!Top.kind \in Narrowing!Loops => Flows(in2[b], in2[K + 1 + 1])
          BY <2>2, <2>7, <3>1, <5>2
        <5> QED BY <4>1, <4>2, <5>1, <5>3 DEF LinkFlows, Narrowing!Loops, Narrowing!Branches
      <4>3. CASE Narrowing!Top.kind \in {"if", "switch", "value"}
        <5>1. program[b].kind \notin Narrowing!Loops /\ out2[K + 1] = now
          BY <1>3, <2>5, <2>7, <4>3 DEF Narrowing!Loops, Narrowing!Branches
        <5>2. FromHere(b, program', in2, out2) = Known(Narrowing!Top)
          <6>1. CASE b = Narrowing!Top.start
            <7>1. program[b].kind \notin Narrowing!Branches
              BY <1>3, <4>3, <6>1 DEF Narrowing!Branches
            <7> QED BY <2>1, <4>1, <6>1, <7>1 DEF FromHere, FrameFlows
          <6>2. CASE b # Narrowing!Top.start
            BY <1>3, <2>1, <4>1, <6>2 DEF FromHere, FrameFlows, b
          <6> QED BY <6>1, <6>2
        <5>3. program[b].kind \in Narrowing!Branches => in2[b] = Joined(Narrowing!Top)
          <6>1. CASE b = Narrowing!Top.start
            BY <1>3, <4>3, <6>1 DEF Narrowing!Branches
          <6>2. CASE b # Narrowing!Top.start
            BY <2>1, <4>1, <6>2 DEF FrameFlows, b
          <6> QED BY <6>1, <6>2
        <5>4. program[b].kind \in {"if", "value", "switch", "elif", "arm"} => program[b].kind # "else"
          OBVIOUS
        <5> QED BY <2>2, <4>1, <4>3, <5>1, <5>2, <5>3, <5>4 DEF LinkFlows
      <4> QED BY <1>7, <4>2, <4>3 DEF Narrowing!Openings, Narrowing!Loops
    <3> QED BY <3>2, <3>3, <3>4 DEF TokenFlows
  <2>11. KnownRight(program', notes', frames', after, in2, out2)
    <3>1. StaticRight(program, notes, frames, narrowed, narrowings)
      BY DEF Static
    <3> QED BY ONLY <1>1, <1>4, <2>1, <2>6, <2>8, <2>9, <2>10, <3>1, KnownStep
  <2> QED BY <2>3, <2>11 DEF SomeKnown, KnownNow
<1> QED BY <1>4, <1>8 DEF SomeKnown


-----------------------------------------------------------------------------
(* Narrowing: the program that was emitted. *)

\* A program in the making has room for the tokens it still needs.
Room == Len(program) + Len(frames) - 1 + Cardinality(Narrowing!Incomplete(frames)) <= MaxTokens

StageRight ==
  /\ phase \in {"compiling", "running", "returned"}
  /\ carried \in BOOLEAN /\ hidden \in BOOLEAN /\ outside \in BOOLEAN
  /\ x \in Narrowing!Values /\ payload \in [1 .. MaxTokens -> Narrowing!Values]
  /\ phase = "compiling" => token = 0 /\ ~outside
  /\ phase # "compiling" => Len(frames) = 1 /\ token \in 1 .. Len(program) + 1

\* What is known where execution stands.
Fact(in, out) ==
  IF token # Len(program) + 1 /\ outside THEN out[token] ELSE in[token]

\* What is known is true.
Holds(in, out) ==
  phase = "running" => Fact(in, out) # Unreachable /\ (Fact(in, out) # 0 => payload[Fact(in, out)] = x)

NarrowingInv ==
  /\ Static /\ Room /\ StageRight
  /\ ~carried /\ ~hidden => \E in, out : KnownNow(in, out) /\ Holds(in, out)

\* The statements that still need a branch can be counted.
LEMMA IncompleteIs ==
  ASSUME NEW fs, fs \in Seq(Frames)
  PROVE  IsFiniteSet(Narrowing!Incomplete(fs)) /\ Cardinality(Narrowing!Incomplete(fs)) \in Nat
<1>1. Narrowing!Incomplete(fs) \subseteq 1 .. Len(fs) /\ Len(fs) \in Nat
  BY DEF Narrowing!Incomplete
<1>2. IsFiniteSet(1 .. Len(fs))
  BY <1>1, FS_Interval
<1> QED BY <1>1, <1>2, FS_Subset, FS_CardinalityType

\* A program is never longer than it may be.
LEMMA RoomIs ==
  ASSUME Static, Room
  PROVE  Len(program) <= MaxTokens /\ Len(program) \in Nat /\ MaxTokens \in Nat
<1>1. Len(program) \in Nat /\ Len(frames) \in Nat \ {0} /\ frames \in Seq(Frames)
  BY StaticIs
<1>2. Cardinality(Narrowing!Incomplete(frames)) \in Nat
  BY <1>1, IncompleteIs
<1>3. MaxTokens \in Nat
  BY CompilationAssumption DEF Narrowing!NarrowingAssumption
<1> QED BY <1>1, <1>2, <1>3 DEF Room

\* Ended statements make room for the token that ends them.
LEMMA EndRoom ==
  ASSUME Static, Room, Narrowing!End
  PROVE  Room'
<1> DEFINE M == Len(frames) - 1
<1>1. /\ Len(frames) \in Nat \ {0} /\ frames \in Seq(Frames) /\ Len(program) \in Nat
      /\ program \in Seq(Tokens)
  BY StaticIs
<1>2. /\ M \in Nat \ {0} /\ Replaced(frames, frames', M, Returned)
      /\ SameFrame(Parent, Returned) /\ Parent = frames[M]
  BY EndIs DEF Parent
<1>3. Len(program') = Len(program) + 1
  BY EndStatic
<1>4. /\ frames' \in Seq(Frames) /\ Len(frames') = M /\ frames'[M] = Returned
      /\ \A n \in 1 .. M - 1 : frames'[n] = frames[n]
  BY <1>2 DEF Replaced
<1>5. \A n \in 1 .. M : frames'[n].kind = frames[n].kind /\ frames'[n].complete = frames[n].complete
  <2>1. ASSUME NEW n \in 1 .. M
        PROVE  frames'[n].kind = frames[n].kind /\ frames'[n].complete = frames[n].complete
    <3>1. n = M \/ n \in 1 .. M - 1
      BY <1>2
    <3> QED BY <1>2, <1>4, <3>1 DEF SameFrame
  <2> QED BY <2>1
<1>6. Narrowing!Incomplete(frames') \subseteq Narrowing!Incomplete(frames)
  <2>1. DOMAIN frames' = 1 .. M /\ DOMAIN frames = 1 .. Len(frames)
    BY <1>1, <1>4
  <2>2. 1 .. M \subseteq 1 .. Len(frames)
    BY <1>1, <1>2
  <2> HIDE DEF M
  <2> QED BY <1>5, <2>1, <2>2 DEF Narrowing!Incomplete
<1>7. /\ Cardinality(Narrowing!Incomplete(frames')) <= Cardinality(Narrowing!Incomplete(frames))
      /\ Cardinality(Narrowing!Incomplete(frames')) \in Nat /\ Cardinality(Narrowing!Incomplete(frames)) \in Nat
  BY <1>1, <1>4, <1>6, IncompleteIs, FS_Subset
<1>8. MaxTokens \in Nat
  BY CompilationAssumption DEF Narrowing!NarrowingAssumption
<1>9. Len(program') + Len(frames') - 1 + Cardinality(Narrowing!Incomplete(frames')) <= MaxTokens
  <2> DEFINE c == Cardinality(Narrowing!Incomplete(frames))
             d == Cardinality(Narrowing!Incomplete(frames'))
             L == Len(frames)
  <2>1. Len(program) + L - 1 + c <= MaxTokens /\ Len(program') = Len(program) + 1 /\ Len(frames') = L - 1
        /\ d <= c /\ d \in Nat /\ c \in Nat /\ L \in Nat /\ Len(program) \in Nat
    BY <1>1, <1>3, <1>4, <1>7 DEF Room
  <2> HIDE DEF c, d, L
  <2>2. Len(program') + Len(frames') - 1 + d <= MaxTokens
    BY <1>8, <2>1
  <2> QED BY <2>2 DEF d
<1>10. Room' = (Len(program') + Len(frames') - 1 + Cardinality(Narrowing!Incomplete(frames')) <= MaxTokens)
  BY DEF Room, Narrowing!Incomplete
<1> QED BY <1>9, <1>10

\* What a step of the passes keeps.
StillCompiling ==
  /\ Static' /\ Room'
  /\ phase = "compiling" /\ UNCHANGED <<phase, token, outside, x, payload>>
  /\ carried' \in BOOLEAN /\ hidden' \in BOOLEAN
  /\ ~carried' /\ ~hidden' => SomeKnown'

\* Where the statements fit, there is room for their ends.
LEMMA FitsIsRoom == Narrowing!Fits(frames') <=> Room'
<1>1. \A S : Narrowing!Cardinality(S) = Cardinality(S)
  BY DEF Narrowing!Cardinality, Cardinality
<1>2. Room' = (Len(program') + Len(frames') - 1 + Cardinality(Narrowing!Incomplete(frames')) <= MaxTokens)
  BY DEF Room, Narrowing!Incomplete
<1>3. Narrowing!Fits(frames')
      = (Len(program') + Len(frames') - 1 + Narrowing!Cardinality(Narrowing!Incomplete(frames')) <= MaxTokens)
  BY DEF Narrowing!Fits
<1> QED BY <1>1, <1>2, <1>3

\* A step of the passes preserves the invariant.
LEMMA CompileStep ==
  ASSUME NarrowingInv, Narrowing!Compile
  PROVE  NarrowingInv'
<1>1. Static /\ Room /\ StageRight /\ (~carried /\ ~hidden => SomeKnown)
  BY DEF NarrowingInv, SomeKnown
<1>2. StillCompiling
  <2>1. ASSUME NEW k \in Narrowing!Openings, NEW t \in Alternatives \cup {Opaque}, Narrowing!Open(k, t)
        PROVE  StillCompiling
    <3>1. Static' /\ (SomeKnown => SomeKnown')
      BY <1>1, <2>1, OpenStep
    <3>2. Room' /\ phase = "compiling" /\ UNCHANGED <<carried, hidden, phase, token, outside, x, payload>>
      BY <2>1, FitsIsRoom DEF Narrowing!Open, Narrowing!Reached
    <3> QED BY <1>1, <3>1, <3>2 DEF StageRight, StillCompiling
  <2>2. ASSUME NEW k \in Narrowing!Branches, NEW t \in Alternatives \cup {Opaque}, Narrowing!Branch(k, t)
        PROVE  StillCompiling
    <3>1. Static' /\ (SomeKnown => SomeKnown')
      BY <1>1, <2>2, BranchStep
    <3>2. Room' /\ phase = "compiling" /\ UNCHANGED <<carried, hidden, phase, token, outside, x, payload>>
      BY <2>2, FitsIsRoom DEF Narrowing!Branch
    <3> QED BY <1>1, <3>1, <3>2 DEF StageRight, StillCompiling
  <2>3. ASSUME Narrowing!End PROVE StillCompiling
    <3>1. Static' /\ (SomeKnown => SomeKnown') /\ Room'
      BY <1>1, <2>3, EndTokenStep, EndRoom
    <3>2. phase = "compiling" /\ UNCHANGED <<carried, hidden, phase, token, outside, x, payload>>
      BY <2>3 DEF Narrowing!End
    <3> QED BY <1>1, <3>1, <3>2 DEF StageRight, StillCompiling
  <2>4. ASSUME Narrowing!Assignment PROVE StillCompiling
    <3>1. Static' /\ (~carried' /\ ~hidden' /\ SomeKnown => SomeKnown')
      BY <1>1, <2>4, AssignmentStep
    <3>2. Room' /\ phase = "compiling" /\ UNCHANGED <<phase, token, outside, x, payload>>
      BY <2>4, FitsIsRoom DEF Narrowing!Assignment, Narrowing!Reached
    <3>3. carried' = (carried \/ Narrowing!CarriedHere) /\ hidden' = (hidden \/ Narrowing!HiddenHere)
      BY <2>4 DEF Narrowing!Assignment
    <3>4. Narrowing!CarriedHere \in BOOLEAN /\ Narrowing!HiddenHere \in BOOLEAN
      BY DEF Narrowing!CarriedHere, Narrowing!HiddenHere
    <3>5. carried' \in BOOLEAN /\ hidden' \in BOOLEAN /\ (~carried' /\ ~hidden' => ~carried /\ ~hidden)
      BY <1>1, <3>3, <3>4 DEF StageRight
    <3> QED BY <1>1, <3>1, <3>2, <3>5 DEF StillCompiling
  <2>5. ASSUME NEW k \in Narrowing!Exits, Narrowing!Exit(k) PROVE StillCompiling
    <3>1. Static' /\ (~carried /\ ~hidden /\ SomeKnown => SomeKnown')
      BY <1>1, <2>5, ExitStep
    <3>2. Room' /\ phase = "compiling" /\ UNCHANGED <<carried, hidden, phase, token, outside, x, payload>>
      BY <2>5, FitsIsRoom DEF Narrowing!Exit, Narrowing!Reached
    <3> QED BY <1>1, <3>1, <3>2 DEF StageRight, StillCompiling
  <2> QED BY <2>1, <2>2, <2>3, <2>4, <2>5 DEF Narrowing!Compile
<1>3. StageRight'
  BY <1>1, <1>2 DEF StageRight, StillCompiling
<1>4. ASSUME ~carried', ~hidden' PROVE \E in, out : (KnownNow(in, out) /\ Holds(in, out))'
  <2>1. PICK in, out : KnownNow(in, out)'
    BY <1>2, <1>4 DEF SomeKnown, StillCompiling
  <2>2. Holds(in, out)'
    BY <1>2 DEF Holds, StillCompiling
  <2> QED BY <2>1, <2>2
<1> QED BY <1>2, <1>3, <1>4 DEF NarrowingInv, StillCompiling


\* The token that execution stands at, and what was noted there.
LEMMA RunsAt ==
  ASSUME NarrowingInv, NEW kinds, Narrowing!Running(kinds)
  PROVE  /\ phase = "running" /\ Static /\ StageRight /\ Room
         /\ Len(program) \in Nat /\ token \in 1 .. Len(program) /\ program[token].kind \in kinds
         /\ UNCHANGED <<Narrowing!compilation, phase>> /\ PendingBranches(frames) = {}
         /\ program \in Seq(Tokens) /\ notes \in Seq(Notes) /\ Len(notes) = Len(program)
         /\ \A p \in 1 .. Len(program) :
              /\ program[p] \in Tokens /\ notes[p] \in Notes
              /\ notes[p].next \in Nat /\ notes[p].origin \in Nat
              /\ NoteRight(p, program, notes) /\ LinkRight(p, program, notes)
<1>1. /\ phase = "running" /\ Static /\ StageRight /\ Room
      /\ program[token].kind \in kinds /\ token <= Len(program)
      /\ UNCHANGED <<Narrowing!compilation, phase>>
  BY DEF NarrowingInv, Narrowing!Running, Narrowing!Token
<1>2. Len(frames) = 1 /\ token \in 1 .. Len(program) + 1
  BY <1>1 DEF StageRight
<1>3. PendingBranches(frames) = {}
  BY <1>2 DEF PendingBranches
<1>4. Len(program) \in Nat /\ NotesRight(program, notes, {})
  BY <1>1, <1>3, StaticIs
<1>5. /\ program \in Seq(Tokens) /\ notes \in Seq(Notes) /\ Len(notes) = Len(program)
      /\ \A p \in 1 .. Len(program) : NoteRight(p, program, notes) /\ LinkRight(p, program, notes)
  BY <1>4 DEF NotesRight
<1>6. \A p \in 1 .. Len(program) : notes[p] \in Notes
  BY <1>5
<1>7. \A p \in 1 .. Len(program) : notes[p].next \in Nat /\ notes[p].origin \in Nat
  BY <1>6 DEF Notes
<1>8. \A p \in 1 .. Len(program) : program[p] \in Tokens
  BY <1>5
<1> QED BY <1>1, <1>2, <1>3, <1>4, <1>5, <1>6, <1>7, <1>8

\* Past a body there is a branch or an end.
LEMMA RunsKnown ==
  ASSUME NarrowingInv, NEW kinds, Narrowing!Running(kinds), NEW in, NEW out, KnownNow(in, out), Holds(in, out)
  PROVE  /\ Flows(0, in[1])
         /\ \A p \in 1 .. Len(program) :
              /\ StepFlows(p, program, notes, in, out)
              /\ program[p].kind \in Narrowing!Openings \cup Narrowing!Branches => LinkFlows(p, program, notes, in, out)
              /\ notes[p].type # Opaque =>
                   FromHere(p, program, in, out) \in {Unreachable, notes[p].local}
         /\ Fact(in, out) = IF outside THEN out[token] ELSE in[token]
         /\ Fact(in, out) # Unreachable
         /\ Fact(in, out) # 0 => payload[Fact(in, out)] = x
         /\ outside => program[token].kind \in Narrowing!Branches \cup {"end"}
<1>1. /\ phase = "running" /\ Static /\ Len(program) \in Nat /\ token \in 1 .. Len(program)
      /\ PendingBranches(frames) = {}
  BY RunsAt
<1>2. FlowsRight(program, notes, {}, in, out)
  BY <1>1 DEF KnownNow, KnownRight
<1>3. /\ Flows(0, in[1])
      /\ \A p \in 1 .. Len(program) :
           /\ StepFlows(p, program, notes, in, out)
           /\ program[p].kind \in Narrowing!Openings \cup Narrowing!Branches => LinkFlows(p, program, notes, in, out)
           /\ notes[p].type # Opaque =>
                FromHere(p, program, in, out) \in {Unreachable, notes[p].local}
  BY <1>2 DEF FlowsRight
<1>4. Fact(in, out) = IF outside THEN out[token] ELSE in[token]
  BY <1>1 DEF Fact
<1>5. Fact(in, out) # Unreachable /\ (Fact(in, out) # 0 => payload[Fact(in, out)] = x)
  BY <1>1 DEF Holds
<1>6. outside => program[token].kind \in Narrowing!Branches \cup {"end"}
  BY <1>1, <1>3, <1>4, <1>5 DEF StepFlows
<1> QED BY <1>3, <1>4, <1>5, <1>6

\* A step of the program that keeps what is known keeps the invariant.
LEMMA RunKeeps ==
  ASSUME NarrowingInv, UNCHANGED Narrowing!compilation, StageRight',
         \A in, out : KnownNow(in, out) /\ Holds(in, out) => Holds(in, out)'
  PROVE  NarrowingInv'
<1>1. Static /\ Room /\ (~carried /\ ~hidden => \E in, out : KnownNow(in, out) /\ Holds(in, out))
  BY DEF NarrowingInv
<1>2. Static' /\ Room'
  BY <1>1 DEF Narrowing!compilation, Static, Room, Narrowing!Incomplete
<1>3. \A in, out : KnownNow(in, out) => KnownNow(in, out)'
  BY DEF Narrowing!compilation, KnownNow, Cur
<1>4. carried' = carried /\ hidden' = hidden
  BY DEF Narrowing!compilation
<1> QED BY <1>1, <1>2, <1>3, <1>4 DEF NarrowingInv

\* Execution goes on to a point that what is known flows to.
LEMMA Flowed ==
  ASSUME NEW in, NEW out, NEW a, Flows(a, Fact(in, out)'), a # Unreachable,
         a # 0 => payload[a] = x, UNCHANGED <<x, payload>>
  PROVE  Holds(in, out)'
BY DEF Flows, Holds, Unreachable

\* Where the next token is known, so is what is known there.
LEMMA FactAt ==
  ASSUME NEW in, NEW out, program' = program, ~outside' \/ token' # Len(program) + 1
  PROVE  Fact(in, out)' = IF outside' THEN out[token'] ELSE in[token']
BY DEF Fact

\* Execution begins where nothing is narrowed.
LEMMA StartStep ==
  ASSUME NarrowingInv, Narrowing!Start
  PROVE  NarrowingInv'
<1>1. /\ StageRight /\ Static /\ phase = "compiling" /\ Len(frames) = 1
      /\ \E p \in DOMAIN program : program[p].test # Opaque
      /\ phase' = "running" /\ token' = 1 /\ x' \in Narrowing!Values
      /\ UNCHANGED <<Narrowing!compilation, outside, payload>>
  BY DEF NarrowingInv, Narrowing!Start
<1>2. Len(program) \in Nat /\ program \in Seq(Tokens)
  BY <1>1, StaticIs
<1>3. ~outside
  BY <1>1 DEF StageRight
<1>4. StageRight'
  <2>1. program' = program /\ frames' = frames /\ carried' = carried /\ hidden' = hidden
    BY <1>1 DEF Narrowing!compilation
  <2>2. 1 \in 1 .. Len(program) + 1
    BY <1>2
  <2> QED BY <1>1, <2>1, <2>2 DEF StageRight
<1>5. ASSUME NEW in, NEW out, KnownNow(in, out) PROVE Holds(in, out)'
  <2>1. Flows(0, in[1])
    BY <1>5 DEF KnownNow, KnownRight, FlowsRight
  <2>2. in[1] = 0
    BY <2>1 DEF Flows, Unreachable
  <2>3. Fact(in, out)' = 0
    BY <1>1, <1>3, <2>2 DEF Fact
  <2> QED BY <2>3 DEF Holds, Unreachable
<1> QED BY <1>1, <1>4, <1>5, RunKeeps

\* The test succeeded, and its temporary is written.
LEMMA SucceedKeeps ==
  ASSUME NarrowingInv, NEW kinds, Narrowing!Running(kinds), kinds \subseteq Narrowing!Openings \cup Narrowing!Branches, Narrowing!Succeed, UNCHANGED x,
         program[token].kind \in Narrowing!Branches => outside
  PROVE  NarrowingInv'
<1>1. /\ phase = "running" /\ Static /\ StageRight /\ Room
      /\ Len(program) \in Nat /\ token \in 1 .. Len(program) /\ program[token].kind \in kinds
      /\ UNCHANGED <<Narrowing!compilation, phase>>
  BY RunsAt
<1>2. MaxTokens \in Nat /\ token \in 1 .. MaxTokens
  BY <1>1, RoomIs
<1>3. /\ payload' = IF program[token].test = Opaque THEN payload ELSE [payload EXCEPT ![token] = x]
      /\ token' = token + 1 /\ outside' = FALSE
  BY DEF Narrowing!Succeed, Narrowing!Token
<1>4. /\ program' = program /\ frames' = frames /\ carried' = carried /\ hidden' = hidden
      /\ Len(program') = Len(program)
  BY <1>1 DEF Narrowing!compilation
<1>5. /\ payload \in [1 .. MaxTokens -> Narrowing!Values] /\ x \in Narrowing!Values /\ Len(frames) = 1
      /\ carried \in BOOLEAN /\ hidden \in BOOLEAN
  BY <1>1 DEF StageRight
<1>6. StageRight'
  <2>1. payload' \in [1 .. MaxTokens -> Narrowing!Values]
    BY <1>3, <1>5
  <2>2. token' \in 1 .. Len(program') + 1
    BY <1>1, <1>3, <1>4
  <2> QED BY <1>1, <1>3, <1>4, <1>5, <2>1, <2>2 DEF StageRight
<1>7. ASSUME NEW in, NEW out, KnownNow(in, out), Holds(in, out) PROVE Holds(in, out)'
  <2>1. /\ StepFlows(token, program, notes, in, out)
        /\ Fact(in, out) = IF outside THEN out[token] ELSE in[token]
        /\ Fact(in, out) # Unreachable
        /\ Fact(in, out) # 0 => payload[Fact(in, out)] = x
        /\ outside => program[token].kind \in Narrowing!Branches \cup {"end"}
    BY <1>1, <1>7, RunsKnown
  <2>2. Fact(in, out)' = in[token + 1]
    BY <1>3 DEF Fact
  <2>3. program[token].kind \in Narrowing!Openings \cup Narrowing!Branches
    BY <1>1
  <2>4. Flows(Behind(token, program, in, out), in[token + 1])
    BY <2>1, <2>3 DEF StepFlows
  <2>5. CASE program[token].test # Opaque
    <3>1. Flows(token, in[token + 1])
      BY <2>4, <2>5 DEF Behind
    <3>2. in[token + 1] = 0 \/ in[token + 1] = token
      BY <1>1, <3>1 DEF Flows, Unreachable
    <3>3. payload'[token] = x'
      BY <1>2, <1>3, <1>5, <2>5
    <3>4. in[token + 1] # Unreachable
      BY <1>1, <3>2 DEF Unreachable
    <3> QED BY <2>2, <3>2, <3>3, <3>4 DEF Holds
  <2>6. CASE program[token].test = Opaque
    <3>1. Fact(in, out) = FromHere(token, program, in, out)
      BY <2>1, <2>3 DEF FromHere, Narrowing!Openings, Narrowing!Branches
    <3>2. Flows(Fact(in, out), Fact(in, out)')
      BY <2>2, <2>4, <2>6, <3>1 DEF Behind
    <3> QED BY <1>3, <2>1, <2>6, <3>2, Flowed
  <2> QED BY <2>5, <2>6
<1> QED BY <1>1, <1>6, <1>7, RunKeeps


\* A test that succeeds writes the temporary that is known behind it.
LEMMA TestStep ==
  ASSUME NarrowingInv, Narrowing!Test
  PROVE  NarrowingInv'
<1> DEFINE kinds == {"if", "value", "switch", "elif", "arm"}
           target == notes[token].next
<1>1. /\ Narrowing!Running(kinds) /\ (program[token].kind \in Narrowing!Branches => outside) /\ UNCHANGED x
      /\ Narrowing!Succeed \/ (token' = target /\ outside' = TRUE /\ UNCHANGED payload)
  BY DEF Narrowing!Test, Narrowing!Token
<1>2. kinds \subseteq Narrowing!Openings \cup Narrowing!Branches /\ kinds \cap (Narrowing!Loops \cup {"else", "end"}) = {}
  BY DEF Narrowing!Openings, Narrowing!Branches, Narrowing!Loops
<1> HIDE DEF kinds
<1>3. CASE Narrowing!Succeed
  BY <1>1, <1>2, <1>3, SucceedKeeps
<1>4. CASE token' = target /\ outside' = TRUE /\ UNCHANGED payload
  <2>1. /\ phase = "running" /\ StageRight
        /\ Len(program) \in Nat /\ token \in 1 .. Len(program) /\ program[token].kind \in kinds
        /\ UNCHANGED <<Narrowing!compilation, phase>> /\ target \in Nat /\ LinkRight(token, program, notes)
    BY <1>1, RunsAt
  <2>2. program' = program /\ frames' = frames /\ carried' = carried /\ hidden' = hidden
    BY <2>1 DEF Narrowing!compilation
  <2>3. target \in 1 .. Len(program) /\ target # Len(program) + 1
    BY <1>2, <2>1 DEF LinkRight
  <2> HIDE DEF target
  <2>4. token' \in 1 .. Len(program') + 1 /\ token' # Len(program) + 1
    BY <1>4, <2>1, <2>2, <2>3
  <2>5. StageRight'
    BY <1>1, <1>4, <2>1, <2>2, <2>4 DEF StageRight
  <2>6. ASSUME NEW in, NEW out, KnownNow(in, out), Holds(in, out) PROVE Holds(in, out)'
    <3>1. /\ program[token].kind \in Narrowing!Openings \cup Narrowing!Branches => LinkFlows(token, program, notes, in, out)
          /\ Fact(in, out) = IF outside THEN out[token] ELSE in[token]
          /\ Fact(in, out) # Unreachable
          /\ Fact(in, out) # 0 => payload[Fact(in, out)] = x
          /\ outside => program[token].kind \in Narrowing!Branches \cup {"end"}
      BY <1>1, <2>1, <2>6, RunsKnown
    <3>2. Fact(in, out)' = out[target]
      BY <1>4, <2>2, <2>4, FactAt
    <3>3. Flows(FromHere(token, program, in, out), out[target])
      BY <1>2, <2>1, <3>1 DEF LinkFlows, kinds, target
    <3>4. Fact(in, out) = FromHere(token, program, in, out)
      BY <1>1, <1>2, <2>1, <3>1 DEF FromHere
    <3> QED BY <1>1, <1>4, <3>1, <3>2, <3>3, <3>4, Flowed
  <2> QED BY <2>1, <2>5, <2>6, RunKeeps
<1> QED BY <1>1, <1>3, <1>4

\* The end of a body that was not the last goes to the end of the statement.
LEMMA LeaveBranchStep ==
  ASSUME NarrowingInv, Narrowing!LeaveBranch
  PROVE  NarrowingInv'
<1> DEFINE target == notes[token].next
<1>1. /\ Narrowing!Running(Narrowing!Branches) /\ ~outside
      /\ token' = target /\ outside' = (program[token'].kind = "end")
      /\ UNCHANGED <<x, payload>>
  BY DEF Narrowing!LeaveBranch
<1>2. /\ phase = "running" /\ StageRight
      /\ Len(program) \in Nat /\ token \in 1 .. Len(program) /\ program[token].kind \in Narrowing!Branches
      /\ UNCHANGED <<Narrowing!compilation, phase>> /\ target \in Nat /\ LinkRight(token, program, notes)
  BY <1>1, RunsAt
<1>3. program' = program /\ frames' = frames /\ carried' = carried /\ hidden' = hidden
  BY <1>2 DEF Narrowing!compilation
<1>4. target \in 1 .. Len(program) /\ target # Len(program) + 1
  BY <1>2 DEF LinkRight
<1> HIDE DEF target
<1>5. token' \in 1 .. Len(program') + 1 /\ token' # Len(program) + 1
  BY <1>1, <1>2, <1>3, <1>4
<1>6. StageRight'
  BY <1>1, <1>2, <1>3, <1>5 DEF StageRight
<1>7. ASSUME NEW in, NEW out, KnownNow(in, out), Holds(in, out) PROVE Holds(in, out)'
  <2>1. /\ program[token].kind \in Narrowing!Openings \cup Narrowing!Branches => LinkFlows(token, program, notes, in, out)
        /\ Fact(in, out) = IF outside THEN out[token] ELSE in[token]
        /\ Fact(in, out) # Unreachable
        /\ Fact(in, out) # 0 => payload[Fact(in, out)] = x
    BY <1>1, <1>2, <1>7, RunsKnown
  <2>2. Fact(in, out)' = IF outside' THEN out[target] ELSE in[target]
    BY <1>1, <1>3, <1>5, FactAt
  <2>3. Flows(in[token], IF program[target].kind = "end" THEN out[target] ELSE in[target])
    BY <1>2, <2>1 DEF LinkFlows, target
  <2>4. Flows(Fact(in, out), Fact(in, out)')
    BY <1>1, <2>1, <2>2, <2>3
  <2> QED BY <1>1, <2>1, <2>4, Flowed
<1> QED BY <1>2, <1>6, <1>7, RunKeeps

\* A loop is entered, or left for what is known behind its end.
LEMMA LoopStep ==
  ASSUME NarrowingInv, Narrowing!Loop
  PROVE  NarrowingInv'
<1> DEFINE target == notes[token].next
<1>1. /\ Narrowing!Running(Narrowing!Loops) /\ UNCHANGED x
      /\ Narrowing!Succeed \/ (token' = target + 1 /\ UNCHANGED <<outside, payload>>)
  BY DEF Narrowing!Loop, Narrowing!LoopEnd
<1>2. Narrowing!Loops \subseteq Narrowing!Openings \cup Narrowing!Branches /\ Narrowing!Loops \cap (Narrowing!Branches \cup {"end"}) = {}
  BY DEF Narrowing!Openings, Narrowing!Branches, Narrowing!Loops
<1>3. CASE Narrowing!Succeed
  <2>1. program[token].kind \in Narrowing!Branches => outside
    BY <1>1, <1>2, RunsAt
  <2> QED BY <1>1, <1>2, <1>3, <2>1, SucceedKeeps
<1>4. CASE token' = target + 1 /\ UNCHANGED <<outside, payload>>
  <2>1. /\ phase = "running" /\ StageRight
        /\ Len(program) \in Nat /\ token \in 1 .. Len(program) /\ program[token].kind \in Narrowing!Loops
        /\ UNCHANGED <<Narrowing!compilation, phase>> /\ target \in Nat /\ LinkRight(token, program, notes)
    BY <1>1, RunsAt
  <2>2. program' = program /\ frames' = frames /\ carried' = carried /\ hidden' = hidden
    BY <2>1 DEF Narrowing!compilation
  <2>3. target \in 1 .. Len(program)
    BY <1>2, <2>1 DEF LinkRight
  <2> HIDE DEF target
  <2>4. token' \in 1 .. Len(program') + 1
    BY <1>4, <2>1, <2>2, <2>3
  <2>5. StageRight'
    BY <1>1, <1>4, <2>1, <2>2, <2>4 DEF StageRight
  <2>6. ASSUME NEW in, NEW out, KnownNow(in, out), Holds(in, out) PROVE Holds(in, out)'
    <3>1. /\ program[token].kind \in Narrowing!Openings \cup Narrowing!Branches => LinkFlows(token, program, notes, in, out)
          /\ Fact(in, out) = IF outside THEN out[token] ELSE in[token]
          /\ Fact(in, out) # Unreachable
          /\ Fact(in, out) # 0 => payload[Fact(in, out)] = x
          /\ outside => program[token].kind \in Narrowing!Branches \cup {"end"}
      BY <1>1, <2>1, <2>6, RunsKnown
    <3>2. ~outside
      BY <1>2, <2>1, <3>1
    <3>3. Fact(in, out)' = in[target + 1]
      BY <1>4, <2>2, <3>2, FactAt
    <3>4. Flows(in[token], in[target + 1])
      BY <1>2, <2>1, <3>1 DEF LinkFlows, target
    <3>5. Flows(Fact(in, out), Fact(in, out)')
      BY <3>1, <3>2, <3>3, <3>4
    <3> QED BY <1>1, <1>4, <3>1, <3>5, Flowed
  <2> QED BY <2>1, <2>5, <2>6, RunKeeps
<1> QED BY <1>1, <1>3, <1>4

\* What goes on, and what goes back to its loop.
LEMMA ProceedStep ==
  ASSUME NarrowingInv, Narrowing!Proceed
  PROVE  NarrowingInv'
<1> DEFINE kinds == {"block", "end", "else"}
           back == program[token].kind = "end" /\ notes[token].origin # 0
<1>1. /\ Narrowing!Running(kinds) /\ (program[token].kind = "else" => outside)
      /\ token' = IF back THEN notes[token].origin ELSE token + 1
      /\ outside' = FALSE /\ UNCHANGED <<x, payload>>
  BY DEF Narrowing!Proceed, Narrowing!Token
<1>2. /\ phase = "running" /\ StageRight
      /\ Len(program) \in Nat /\ token \in 1 .. Len(program) /\ program[token].kind \in kinds
      /\ UNCHANGED <<Narrowing!compilation, phase>> /\ NoteRight(token, program, notes) /\ notes[token].origin \in Nat
  BY <1>1, RunsAt
<1>3. program' = program /\ frames' = frames /\ carried' = carried /\ hidden' = hidden
  BY <1>2 DEF Narrowing!compilation
<1>4. notes[token].origin < token
  BY <1>2 DEF NoteRight
<1>5. token' \in 1 .. Len(program') + 1
  BY <1>1, <1>2, <1>3, <1>4
<1>6. StageRight'
  BY <1>1, <1>2, <1>3, <1>5 DEF StageRight
<1>7. ASSUME NEW in, NEW out, KnownNow(in, out), Holds(in, out) PROVE Holds(in, out)'
  <2>1. /\ StepFlows(token, program, notes, in, out)
        /\ Fact(in, out) = IF outside THEN out[token] ELSE in[token]
        /\ Fact(in, out) # Unreachable
        /\ Fact(in, out) # 0 => payload[Fact(in, out)] = x
        /\ outside => program[token].kind \in Narrowing!Branches \cup {"end"}
    BY <1>1, <1>2, <1>7, RunsKnown
  <2>2. Fact(in, out)' = in[token']
    BY <1>1, <1>3, FactAt
  <2>3. CASE program[token].kind \in {"block", "else"}
    <3>1. program[token].test = Opaque
      BY <1>2, <2>3 DEF NoteRight
    <3>2. token' = token + 1
      BY <1>1, <2>3
    <3>3. Flows(Behind(token, program, in, out), in[token + 1])
      BY <2>1, <2>3 DEF StepFlows, Narrowing!Openings, Narrowing!Branches
    <3>4. Fact(in, out) = Behind(token, program, in, out)
      BY <1>1, <2>1, <2>3, <3>1 DEF Behind, FromHere, Narrowing!Branches
    <3>5. Flows(Fact(in, out), Fact(in, out)')
      BY <2>2, <3>2, <3>3, <3>4
    <3> QED BY <1>1, <2>1, <3>5, Flowed
  <2>4. CASE program[token].kind = "end"
    <3>1. CASE notes[token].origin = 0
      <4>1. token' = token + 1
        BY <1>1, <3>1
      <4>2. Flows(in[token], in[token + 1]) /\ Flows(out[token], in[token + 1])
        BY <2>1, <2>4, <3>1 DEF StepFlows
      <4>3. Flows(Fact(in, out), Fact(in, out)')
        BY <2>1, <2>2, <4>1, <4>2
      <4> QED BY <1>1, <2>1, <4>3, Flowed
    <3>2. CASE notes[token].origin # 0
      <4>1. token' = notes[token].origin
        BY <1>1, <2>4, <3>2
      <4>2. Flows(in[token], in[notes[token].origin]) /\ out[token] = Unreachable
        BY <2>1, <2>4, <3>2 DEF StepFlows
      <4>3. Flows(Fact(in, out), Fact(in, out)')
        BY <2>1, <2>2, <4>1, <4>2
      <4> QED BY <1>1, <2>1, <4>3, Flowed
    <3> QED BY <3>1, <3>2
  <2> QED BY <1>2, <2>3, <2>4
<1> QED BY <1>2, <1>6, <1>7, RunKeeps

\* An assignment leaves no temporary known.
LEMMA AssignStep ==
  ASSUME NarrowingInv, Narrowing!Assign
  PROVE  NarrowingInv'
<1>1. /\ Narrowing!Running({"assign"}) /\ x' \in Narrowing!Values /\ token' = token + 1 /\ UNCHANGED <<outside, payload>>
  BY DEF Narrowing!Assign
<1>2. /\ phase = "running" /\ StageRight
      /\ Len(program) \in Nat /\ token \in 1 .. Len(program) /\ program[token].kind \in {"assign"}
      /\ UNCHANGED <<Narrowing!compilation, phase>>
  BY <1>1, RunsAt
<1>3. program' = program /\ frames' = frames /\ carried' = carried /\ hidden' = hidden
  BY <1>2 DEF Narrowing!compilation
<1>4. token' \in 1 .. Len(program') + 1
  BY <1>1, <1>2, <1>3
<1>5. StageRight'
  BY <1>1, <1>2, <1>3, <1>4 DEF StageRight
<1>6. ASSUME NEW in, NEW out, KnownNow(in, out), Holds(in, out) PROVE Holds(in, out)'
  <2>1. /\ StepFlows(token, program, notes, in, out)
        /\ outside => program[token].kind \in Narrowing!Branches \cup {"end"}
    BY <1>1, <1>2, <1>6, RunsKnown
  <2>2. ~outside
    BY <1>2, <2>1 DEF Narrowing!Branches
  <2>3. Fact(in, out)' = in[token + 1]
    BY <1>1, <1>3, <2>2, FactAt
  <2>4. Flows(0, in[token + 1])
    BY <1>2, <2>1 DEF StepFlows
  <2> QED BY <2>3, <2>4 DEF Flows, Holds, Unreachable
<1> QED BY <1>2, <1>5, <1>6, RunKeeps

\* break and continue bring to where they go what is known there.
LEMMA JumpStep ==
  ASSUME NarrowingInv, Narrowing!Jump
  PROVE  NarrowingInv'
<1> DEFINE kinds == {"break", "continue"}
           origin == notes[token].origin
           target == notes[origin].next
<1>1. /\ Narrowing!Running(kinds)
      /\ token' = IF program[token].kind = "break" THEN target + 1 ELSE origin
      /\ UNCHANGED <<outside, x, payload>>
  BY DEF Narrowing!Jump, Narrowing!Token, Narrowing!LoopEnd
<1>2. /\ phase = "running" /\ StageRight
      /\ Len(program) \in Nat /\ token \in 1 .. Len(program) /\ program[token].kind \in kinds
      /\ UNCHANGED <<Narrowing!compilation, phase>>
      /\ NoteRight(token, program, notes) /\ origin \in Nat
      /\ \A p \in 1 .. Len(program) : notes[p].next \in Nat /\ LinkRight(p, program, notes)
  BY <1>1, RunsAt
<1>3. program' = program /\ frames' = frames /\ carried' = carried /\ hidden' = hidden
  BY <1>2 DEF Narrowing!compilation
<1>4. origin \in 1 .. Len(program) /\ program[origin].kind \in Narrowing!Loops
  <2>1. origin < token /\ origin # 0 /\ program[origin].kind \in Narrowing!Loops
    BY <1>2 DEF NoteRight, Narrowing!Exits
  <2> QED BY <1>2, <2>1
<1>5. Narrowing!Loops \subseteq Narrowing!Openings \cup Narrowing!Branches
  BY DEF Narrowing!Openings, Narrowing!Branches, Narrowing!Loops
<1>6. target \in Nat /\ target > origin /\ target <= Len(program)
  BY <1>2, <1>4, <1>5 DEF LinkRight
<1> HIDE DEF origin, target, kinds
<1>7. token' \in 1 .. Len(program') + 1
  BY <1>1, <1>2, <1>3, <1>4, <1>6
<1>8. StageRight'
  BY <1>1, <1>2, <1>3, <1>7 DEF StageRight
<1>9. ASSUME NEW in, NEW out, KnownNow(in, out), Holds(in, out) PROVE Holds(in, out)'
  <2>1. /\ \A p \in 1 .. Len(program) :
             /\ StepFlows(p, program, notes, in, out)
             /\ program[p].kind \in Narrowing!Openings \cup Narrowing!Branches => LinkFlows(p, program, notes, in, out)
        /\ Fact(in, out) = IF outside THEN out[token] ELSE in[token]
        /\ Fact(in, out) # Unreachable
        /\ Fact(in, out) # 0 => payload[Fact(in, out)] = x
        /\ outside => program[token].kind \in Narrowing!Branches \cup {"end"}
    BY <1>1, <1>9, RunsKnown
  <2>2. ~outside
    BY <1>2, <2>1 DEF Narrowing!Branches, kinds
  <2>3. Fact(in, out) = in[token] /\ Fact(in, out)' = in[token']
    BY <1>1, <1>3, <2>1, <2>2, FactAt
  <2>4. Flows(in[token], in[origin])
    BY <1>2, <2>1 DEF StepFlows, kinds, origin
  <2>5. Flows(in[origin], in[target + 1])
    BY <1>4, <1>5, <2>1 DEF LinkFlows, target
  <2>6. Flows(in[token], in[token'])
    BY <1>1, <2>4, <2>5, FlowsOn
  <2>7. Flows(Fact(in, out), Fact(in, out)')
    BY <2>3, <2>6
  <2> QED BY <1>1, <2>1, <2>7, Flowed
<1> QED BY <1>2, <1>8, <1>9, RunKeeps

\* A program that returned reads nothing any more.
LEMMA ReturnStep ==
  ASSUME NarrowingInv, Narrowing!Return
  PROVE  NarrowingInv'
<1>1. /\ phase = "running" /\ phase' = "returned"
      /\ UNCHANGED <<Narrowing!compilation, token, outside, x, payload>>
  BY DEF Narrowing!Return
<1>2. program' = program /\ frames' = frames /\ carried' = carried /\ hidden' = hidden
  BY <1>1 DEF Narrowing!compilation
<1>3. StageRight'
  <2>1. StageRight
    BY DEF NarrowingInv
  <2> QED BY <1>1, <1>2, <2>1 DEF StageRight
<1>4. \A in, out : Holds(in, out)'
  BY <1>1 DEF Holds
<1> QED BY <1>1, <1>3, <1>4, RunKeeps


\* The empty program satisfies the invariant.
LEMMA NarrowingStarts ==
  ASSUME Narrowing!Init
  PROVE  NarrowingInv
<1> DEFINE f == [Narrowing!Frame("function") EXCEPT !.start = 0, !.branch = 0]
<1>1. /\ program = <<>> /\ notes = <<>> /\ narrowed = Opaque /\ narrowings = Narrowing!Unknown
      /\ frames = <<f>> /\ carried = FALSE /\ hidden = FALSE
      /\ phase = "compiling" /\ token = 0 /\ outside = FALSE
      /\ x \in ValuesOf[Tested] /\ payload = [p \in 1 .. MaxTokens |-> x]
  BY DEF Narrowing!Init
<1>2. /\ Opaque \in TypeNames /\ Narrowing!Unknown \in Lowerings /\ MaxTokens \in Nat /\ Tested \in Alternatives
      /\ Narrowing!Unknown.type = Opaque /\ Narrowing!Unknown.local = 0
  BY CompilationAssumption DEF Narrowing!NarrowingAssumption, TypeNames, Lowerings, Narrowing!Unknown
<1>3. /\ f \in Frames /\ f.kind = "function" /\ f.branch = 0 /\ f.outer = Opaque /\ f.lowered = Narrowing!Unknown
      /\ ~f.complete /\ ~f.assigned /\ f.falls /\ ~f.assigns /\ ~f.removes /\ ~f.continues
  <2> DEFINE e == Narrowing!Frame("function")
  <2>1. Narrowing!Here = 1
    BY <1>1 DEF Narrowing!Here
  <2>2. e = [kind |-> "function", start |-> 1, branch |-> 1, outer |-> Opaque, lowered |-> Narrowing!Unknown,
             complete |-> FALSE, assigned |-> FALSE, falls |-> TRUE, assigns |-> FALSE,
             removes |-> FALSE, continues |-> FALSE]
    BY <1>1, <2>1 DEF Narrowing!Frame
  <2>3. f = [e EXCEPT !.start = 0, !.branch = 0]
    OBVIOUS
  <2> HIDE DEF e, f
  <2>4. /\ e \in Frames /\ e.kind = "function" /\ e.outer = Opaque /\ e.lowered = Narrowing!Unknown
        /\ ~e.complete /\ ~e.assigned /\ e.falls /\ ~e.assigns /\ ~e.removes /\ ~e.continues
    BY <1>2, <2>2 DEF Frames
  <2>5. /\ f \in Frames /\ f.branch = 0 /\ f.kind = e.kind /\ f.outer = e.outer /\ f.lowered = e.lowered
        /\ f.complete = e.complete /\ f.assigned = e.assigned /\ f.falls = e.falls
        /\ f.assigns = e.assigns /\ f.removes = e.removes /\ f.continues = e.continues
    BY <2>3, <2>4 DEF Frames
  <2> QED BY <2>4, <2>5
<1> HIDE DEF f
<1>4. /\ Len(program) = 0 /\ Len(notes) = 0 /\ Len(frames) = 1 /\ frames[1] = f
      /\ program \in Seq(Tokens) /\ notes \in Seq(Notes) /\ frames \in Seq(Frames)
  BY <1>1, <1>3
<1>5. PendingBranches(frames) = {}
  BY <1>4 DEF PendingBranches
<1>6. NotesRight(program, notes, {})
  BY <1>4 DEF NotesRight
<1>7. FrameRight(f, 0) /\ Matches(Opaque, Narrowing!Unknown, 0)
  BY <1>2, <1>3 DEF FrameRight, Matches
<1>8. FramesRight(frames, program)
  BY <1>3, <1>4, <1>7 DEF FramesRight
<1>9. KeepsType(f, Opaque)
  BY DEF KeepsType
<1>10. Static
  BY <1>1, <1>2, <1>4, <1>5, <1>6, <1>7, <1>8, <1>9 DEF Static, StaticRight
<1>11. Room
  <2>1. Narrowing!Incomplete(frames) = {}
    <3>1. \A n \in DOMAIN frames : n = 1
      BY <1>4
    <3> QED BY <1>3, <1>4, <3>1 DEF Narrowing!Incomplete
  <2> QED BY <1>2, <1>4, <2>1, FS_EmptySet DEF Room
<1>12. StageRight
  <2>1. ValuesOf[Tested] \subseteq Narrowing!Values
    BY <1>2 DEF Narrowing!Values
  <2>2. x \in Narrowing!Values /\ payload \in [1 .. MaxTokens -> Narrowing!Values]
    BY <1>1, <2>1
  <2> QED BY <1>1, <2>2 DEF StageRight
<1>13. \E in, out : KnownNow(in, out) /\ Holds(in, out)
  <2> DEFINE in == [q \in 1 .. 1 |-> 0]
             out == [q \in 1 .. 0 |-> 0]
  <2>1. in[1] = 0 /\ in \in [1 .. 0 + 1 -> Int] /\ out \in [1 .. 0 -> Int]
    OBVIOUS
  <2> HIDE DEF in, out
  <2>2. Cur = 0
    BY <1>1 DEF Cur, KnownAs
  <2>3. Calm(frames)
    BY <1>3, <1>4 DEF Calm
  <2>4. Keeps(frames, 0)
    BY <1>3, <1>4 DEF Keeps, Known, KnownAs
  <2>5. FlowsRight(program, notes, {}, in, out)
    BY <1>4, <2>1 DEF FlowsRight, Facts, Flows
  <2>6. FramesFlow(frames, in, out)
    BY <1>4 DEF FramesFlow
  <2>7. in[Len(program) + 1] = IF frames[Len(frames)].falls THEN 0 ELSE Unreachable
    BY <1>3, <1>4, <2>1
  <2>8. KnownNow(in, out)
    BY <1>5, <2>2, <2>3, <2>4, <2>5, <2>6, <2>7 DEF KnownNow, KnownRight
  <2>9. Holds(in, out)
    BY <1>1 DEF Holds
  <2> QED BY <2>8, <2>9
<1> QED BY <1>10, <1>11, <1>12, <1>13 DEF NarrowingInv

\* Every step of the passes and of the program preserves it.
LEMMA NarrowingStep ==
  ASSUME NarrowingInv, [Narrowing!Next]_(Narrowing!vars)
  PROVE  NarrowingInv'
<1>1. CASE UNCHANGED Narrowing!vars
  <2>1. UNCHANGED Narrowing!compilation /\ UNCHANGED <<phase, token, outside, x, payload>>
    BY <1>1 DEF Narrowing!vars
  <2>2. program' = program /\ frames' = frames /\ carried' = carried /\ hidden' = hidden
    BY <2>1 DEF Narrowing!compilation
  <2>3. StageRight'
    <3>1. StageRight
      BY DEF NarrowingInv
    <3> QED BY <2>1, <2>2, <3>1 DEF StageRight
  <2>4. \A in, out : Holds(in, out) => Holds(in, out)'
    BY <2>1, <2>2 DEF Holds, Fact
  <2> QED BY <2>1, <2>3, <2>4, RunKeeps
<1>2. CASE Narrowing!Compile
  BY <1>2, CompileStep
<1>3. CASE Narrowing!Run
  BY <1>3, StartStep, TestStep, LeaveBranchStep, LoopStep, ProceedStep, AssignStep, JumpStep,
     ReturnStep DEF Narrowing!Run
<1> QED BY <1>1, <1>2, <1>3 DEF Narrowing!Next

\* Wherever the checker narrows x, the lowering has a temporary.
LEMMA FoundWhereNarrowed ==
  ASSUME NarrowingInv
  PROVE  Narrowing!LoweringFindsNarrowing
<1>1. NotesRight(program, notes, PendingBranches(frames))
  BY StaticIs DEF NarrowingInv
<1>2. DOMAIN notes = 1 .. Len(program) /\ \A p \in 1 .. Len(program) : NoteRight(p, program, notes)
  BY <1>1 DEF NotesRight
<1> QED BY <1>2 DEF Narrowing!LoweringFindsNarrowing, NoteRight

\* A narrowed read finds the payload that x has.
LEMMA ReadWhereNarrowed ==
  ASSUME NarrowingInv
  PROVE  Narrowing!NarrowedReadCurrent
<1> SUFFICES ASSUME ~carried, ~hidden, Narrowing!Evaluates, notes[token].type # Opaque
             PROVE  notes[token].local # 0 /\ payload[notes[token].local] = x
  BY DEF Narrowing!NarrowedReadCurrent, Narrowing!ReadIsCurrent
<1>1. /\ phase = "running" /\ token <= Len(program)
      /\ program[token].kind \in Narrowing!Branches => outside
      /\ program[token].kind = "end" => ~outside
  BY DEF Narrowing!Evaluates, Narrowing!Token
<1>2. Static /\ StageRight
  BY DEF NarrowingInv
<1>3. token \in 1 .. Len(program) /\ Len(program) \in Nat /\ Len(frames) = 1
  <2>1. Len(program) \in Nat
    BY <1>2, StaticIs
  <2> QED BY <1>1, <1>2, <2>1 DEF StageRight
<1>4. PICK in, out : KnownNow(in, out) /\ Holds(in, out)
  BY DEF NarrowingInv
<1>5. PendingBranches(frames) = {}
  BY <1>3 DEF PendingBranches
<1>6. /\ StepFlows(token, program, notes, in, out)
      /\ FromHere(token, program, in, out) \in {Unreachable, notes[token].local}
  BY <1>3, <1>4, <1>5 DEF KnownNow, KnownRight, FlowsRight
<1>7. /\ Fact(in, out) = IF outside THEN out[token] ELSE in[token]
      /\ Fact(in, out) # Unreachable /\ (Fact(in, out) # 0 => payload[Fact(in, out)] = x)
  BY <1>1, <1>3, <1>4 DEF Fact, Holds
<1>8. outside => program[token].kind \in Narrowing!Branches
  BY <1>1, <1>6, <1>7 DEF StepFlows
<1>9. Fact(in, out) = FromHere(token, program, in, out)
  BY <1>1, <1>7, <1>8 DEF FromHere
<1>10. notes[token].local # 0
  <2>1. NotesRight(program, notes, PendingBranches(frames))
    BY <1>2, StaticIs
  <2>2. NoteRight(token, program, notes)
    BY <1>3, <2>1 DEF NotesRight
  <2> QED BY <2>2 DEF NoteRight
<1> QED BY <1>6, <1>7, <1>9, <1>10

\* The invariant gives every variable its type.
LEMMA NarrowingTyped ==
  ASSUME NarrowingInv
  PROVE  Narrowing!TypeOK
<1>1. Static /\ Room /\ StageRight
  BY DEF NarrowingInv
<1>2. /\ Len(program) \in Nat /\ Len(frames) \in Nat \ {0} /\ narrowed \in TypeNames
      /\ NotesRight(program, notes, PendingBranches(frames))
  BY <1>1, StaticIs
<1>3. Len(program) <= MaxTokens
  BY <1>1, RoomIs
<1>4. Len(notes) = Len(program) /\ notes \in Seq(Notes)
  BY <1>2 DEF NotesRight
<1>5. ASSUME NEW p \in DOMAIN notes
      PROVE  /\ notes[p].type \in Alternatives \cup {Opaque}
             /\ notes[p].next \in 0 .. Len(notes) /\ notes[p].local \in 0 .. p
             /\ notes[p].origin \in 0 .. p
  <2>1. p \in 1 .. Len(program) /\ notes[p] \in Notes
    BY <1>2, <1>4
  <2>2. NoteRight(p, program, notes) /\ notes[p].next <= Len(program)
    BY <1>2, <2>1 DEF NotesRight
  <2>3. /\ notes[p].type \in TypeNames /\ notes[p].next \in Nat /\ notes[p].local \in Nat
        /\ notes[p].origin \in Nat /\ notes[p].local <= p /\ notes[p].origin < p
    BY <2>1, <2>2 DEF Notes, NoteRight
  <2> QED BY <1>2, <1>4, <2>1, <2>2, <2>3 DEF TypeNames
<1>6. token \in 0 .. Len(program) + 1
  BY <1>1, <1>2 DEF StageRight
<1>7. narrowed \in Alternatives \cup {Opaque}
  BY <1>2 DEF TypeNames
<1>8. /\ phase \in {"compiling", "running", "returned"} /\ carried \in BOOLEAN /\ hidden \in BOOLEAN
      /\ outside \in BOOLEAN /\ x \in Narrowing!Values /\ payload \in [1 .. MaxTokens -> Narrowing!Values]
  BY <1>1 DEF StageRight
<1>9. Len(frames) >= 1
  BY <1>2
<1> QED BY <1>3, <1>4, <1>5, <1>6, <1>7, <1>8, <1>9 DEF Narrowing!TypeOK

-----------------------------------------------------------------------------
(* The parts. *)

\* A step is one of its part, and leaves the others as they are.
LEMMA PartSteps ==
  ASSUME [CompilationNext]_allVars
  PROVE  /\ part' = part
         /\ part = "driver" => [Driver!Next]_driverVars
         /\ part = "names" => [Names!Next]_namesVars
         /\ part = "narrowing" => [Narrowing!Next]_(Narrowing!vars)
         /\ part = "balanced" => [Next]_vars
<1>1. narrowingVars' = narrowingVars => Narrowing!vars' = Narrowing!vars
  BY DEF narrowingVars, Narrowing!vars, Narrowing!compilation
<1>2. balancedVars' = balancedVars => vars' = vars
  BY DEF balancedVars
<1>3. CASE part = "driver" /\ Driver!Next /\ UNCHANGED part
  BY <1>3
<1>4. CASE part = "names" /\ Names!Next /\ UNCHANGED part
  BY <1>4
<1>5. CASE part = "narrowing" /\ Narrowing!Next /\ UNCHANGED part
  BY <1>5
<1>6. CASE part = "balanced" /\ Next /\ UNCHANGED part
  BY <1>6
<1>7. CASE UNCHANGED <<part, driverVars, namesVars, narrowingVars, balancedVars>>
  BY <1>1, <1>2, <1>7
<1>8. \/ part = "driver" /\ Driver!Next /\ UNCHANGED part
      \/ part = "names" /\ Names!Next /\ UNCHANGED part
      \/ part = "narrowing" /\ Narrowing!Next /\ UNCHANGED part
      \/ part = "balanced" /\ Next /\ UNCHANGED part
      \/ UNCHANGED <<part, driverVars, namesVars, narrowingVars, balancedVars>>
  BY DEF CompilationNext, allVars
<1> QED BY <1>3, <1>4, <1>5, <1>6, <1>7, <1>8

-----------------------------------------------------------------------------
(* Narrowing: the theorems. *)

\* In every program, however its statements nest, the invariant holds throughout.
LEMMA NarrowingInvariant == CompilationSpec => [](part = "narrowing" => NarrowingInv)
<1>1. CompilationInit => (part = "narrowing" => NarrowingInv)
  BY NarrowingStarts DEF CompilationInit
<1>2. (part = "narrowing" => NarrowingInv) /\ [CompilationNext]_allVars
      => (part = "narrowing" => NarrowingInv)'
  <2> SUFFICES ASSUME part = "narrowing" => NarrowingInv, [CompilationNext]_allVars
               PROVE  part' = "narrowing" => NarrowingInv'
    OBVIOUS
  <2>1. part' = part /\ (part = "narrowing" => [Narrowing!Next]_(Narrowing!vars))
    BY PartSteps
  <2>2. CASE part = "narrowing"
    BY <2>1, <2>2, NarrowingStep
  <2> QED BY <2>1, <2>2
<1> QED BY <1>1, <1>2, PTL DEF CompilationSpec

\* Wherever the checker narrows a name, the lowering has a temporary of that type:
\* the two passes, which keep their narrowings apart, never disagree.
THEOREM LoweringNeverMissesNarrowing == CompilationSpec => []LoweringFindsNarrowing
<1>1. (part = "narrowing" => NarrowingInv) => LoweringFindsNarrowing
  BY NarrowingTyped, FoundWhereNarrowed DEF LoweringFindsNarrowing
<1> QED BY <1>1, NarrowingInvariant, PTL

\* A narrowed read sees the payload that x has now, along every path through
\* tests, loops and exits of every program, unless an assignment in it is carried
\* around a loop or hidden in an expression.
THEOREM NarrowedReadsAreCurrent == CompilationSpec => []NarrowedReadCurrent
<1>1. (part = "narrowing" => NarrowingInv) => NarrowedReadCurrent
  BY ReadWhereNarrowed DEF NarrowedReadCurrent
<1> QED BY <1>1, NarrowingInvariant, PTL
=============================================================================
