----------------------------- MODULE Arithmetic -----------------------------
(***************************************************************************)
(* Checked integer operations of a compiled program (c_backend.rs,         *)
(* SCALAR_RUNTIME): the checks that lowering puts in front of an operation *)
(* in their order, and the C expression behind them.  What C leaves        *)
(* undefined has no value.  Integers are Bits wide.                        *)
(***************************************************************************)
EXTENDS Integers, Sequences

CONSTANTS
    Bits,            \* 64
    Lengths          \* of the strings that are indexed

ArithmeticAssumption == Bits \in Nat \ {0} /\ Lengths \subseteq Nat

VARIABLES
    operation,
    left,
    right,
    checks,          \* those still to be made
    outcome,         \* "running", "panic" or "done"
    result           \* the values the expression may have

vars == <<operation, left, right, checks, outcome, result>>

\* The powers of two, by their recursion: the prover knows nothing of "^".
Power[n \in 0..Bits] == IF n = 0 THEN 1 ELSE 2 * Power[n - 1]

IntMin == -Power[Bits - 1]
IntMax == Power[Bits - 1] - 1
UIntMax == Power[Bits] - 1
Int64 == IntMin..IntMax

\* sao2_int_to_bits and back; sao2_int_magnitude.
ToBits(v) == IF v >= 0 THEN v ELSE UIntMax - (-(v + 1))
FromBits(b) == IF b <= IntMax THEN b ELSE -1 - (UIntMax - b)
Magnitude(v) == IF v >= 0 THEN v ELSE 1 + (-(v + 1))

\* Mutation: the minimum has no room.
LimitOfPositive(negative) == IntMax

Limit(negative) == IF negative THEN IntMax + 1 ELSE IntMax

\* C division truncates, and the remainder follows it.
Sign(v) == IF v < 0 THEN -1 ELSE 1
Abs(v) == IF v < 0 THEN -v ELSE v
Quotient(l, r) == Sign(l) * Sign(r) * (Abs(l) \div Abs(r))
Remains(l, r) == l - r * Quotient(l, r)

ChecksOf(op) ==
    CASE op \in {"add", "subtract", "multiply", "negate", "divide", "remainder", "index"} -> <<op>>
      [] op = "shift left" -> <<"shift range", "shift left">>
      [] op = "shift right" -> <<"shift range">>

\* The sao2_check_ functions: whether one panics.
Panics(check, l, r) ==
    CASE check = "add" -> \/ r > 0 /\ l > IntMax - r
                          \/ r < 0 /\ l < IntMin - r
      [] check = "subtract" -> \/ r < 0 /\ l > IntMax + r
                               \/ r > 0 /\ l < IntMin + r
      [] check = "multiply" ->
            l /= 0 /\ r /= 0 /\ Magnitude(r) > Limit((l < 0) /= (r < 0)) \div Magnitude(l)
      [] check = "negate" -> l = IntMin
      [] check \in {"divide", "remainder"} -> r = 0 \/ (l = IntMin /\ r = -1)
      [] check = "shift range" -> r < 0 \/ r > Bits - 1
      [] check = "shift left" -> Magnitude(l) > Limit(l < 0) \div Power[r]
      [] check = "index" -> IF r >= 0 THEN Magnitude(r) >= l ELSE Magnitude(r) > l

Defined(v) == IF v \in Int64 THEN {v} ELSE {}

\* sao2_shift_right: the sign is shifted in; no C shift is by the width.
ShiftedRight(l, r) ==
    IF r = 0 THEN l
    ELSE IF l < 0 THEN FromBits((ToBits(l) \div Power[r]) + (UIntMax - (Power[Bits - r] - 1)))
    ELSE FromBits(ToBits(l) \div Power[r])

\* The C expressions.
Computed(op, l, r) ==
    CASE op = "add" -> Defined(l + r)
      [] op = "subtract" -> Defined(l - r)
      [] op = "multiply" -> Defined(l * r)
      [] op = "negate" -> Defined(-l)
      [] op = "divide" -> IF r = 0 THEN {} ELSE Defined(Quotient(l, r))
      [] op = "remainder" ->
            IF r = 0 \/ Quotient(l, r) \notin Int64 THEN {} ELSE Defined(Remains(l, r))
      [] op = "shift left" ->
            IF r \in 0..Bits - 1 THEN {FromBits((ToBits(l) * Power[r]) % (UIntMax + 1))} ELSE {}
      [] op = "shift right" -> IF r \in 0..Bits - 1 THEN {ShiftedRight(l, r)} ELSE {}
      [] op = "index" ->
            LET position == IF r >= 0 THEN r ELSE l - Magnitude(r)
            IN  IF position \in 0..l - 1 THEN {position} ELSE {}

-----------------------------------------------------------------------------
Operations == {"add", "subtract", "multiply", "negate", "divide", "remainder",
               "shift left", "shift right", "index"}

Init ==
    /\ operation \in Operations
    /\ left \in IF operation = "index" THEN Lengths ELSE Int64
    /\ right \in Int64
    /\ checks = ChecksOf(operation)
    /\ outcome = "running"
    /\ result = {}

Check ==
    /\ outcome = "running" /\ checks /= <<>>
    /\ IF Panics(Head(checks), left, right)
       THEN outcome' = "panic" /\ UNCHANGED checks
       ELSE checks' = Tail(checks) /\ UNCHANGED outcome
    /\ UNCHANGED <<operation, left, right, result>>

Evaluate ==
    /\ outcome = "running" /\ checks = <<>>
    /\ result' = Computed(operation, left, right)
    /\ outcome' = "done"
    /\ UNCHANGED <<operation, left, right, checks>>

Next == Check \/ Evaluate

Spec == Init /\ [][Next]_vars

-----------------------------------------------------------------------------
\* What the operations mean, over all the integers; none for what has no
\* meaning.
Meaning(op, l, r) ==
    CASE op = "add" -> {l + r}
      [] op = "subtract" -> {l - r}
      [] op = "multiply" -> {l * r}
      [] op = "negate" -> {-l}
      [] op = "divide" -> {q \in -Abs(l)..Abs(l) : r /= 0 /\ \E m \in -Abs(l)..Abs(l) :
                              l = q * r + m /\ Abs(m) < Abs(r) /\ (m = 0 \/ Sign(m) = Sign(l))}
      [] op = "remainder" -> {m \in -Abs(l)..Abs(l) :
                                /\ r /= 0 /\ Abs(m) < Abs(r) /\ (m = 0 \/ Sign(m) = Sign(l))
                                /\ \E q \in Int64 : l = q * r + m}
      [] op = "shift left" -> IF r \in 0..Bits - 1 THEN {l * Power[r]} ELSE {}
      [] op = "shift right" -> IF r \in 0..Bits - 1 THEN {l \div Power[r]} ELSE {}
      [] op = "index" -> {p \in 0..l - 1 : p = r \/ p = l + r}

\* c_backend.rs:5363-5390,5488-5575 - an operation panics exactly when what it
\* means is no integer of the language; otherwise its C expression is defined
\* and has that value.
CheckedExactly ==
    /\ outcome = "done" => result /= {} /\ result = Meaning(operation, left, right)
    /\ outcome = "panic" => Meaning(operation, left, right) \cap Int64 = {}
=============================================================================
