------------------------ MODULE EscapeAnalysisProofs ------------------------
(***************************************************************************)
(* Proofs about EscapeAnalysis: for any functions, locals and outlines,    *)
(* hence for programs of any size, with any recursion and any nesting of   *)
(* calls, the placement of a program whose stores are direct is sound.     *)
(* First what the iterated rules of the analysis compute: fixed points,    *)
(* which grow with the program.  Then the analysis as one value, of which  *)
(* Sound is all that an execution needs; the invariant of an execution,    *)
(* said of such a value, one lemma per kind of operation; and, at the end, *)
(* the step of the specification, which grows the program and runs it.     *)
(***************************************************************************)
EXTENDS EscapeAnalysis, FiniteSetTheorems, SequenceTheorems, WellFoundedInduction, TLAPS

-----------------------------------------------------------------------------
(* Iteration to a fixed point. *)

\* A set of naturals that holds 0 and the successor of each of its elements
\* holds every natural.
LEMMA Naturals ==
  ASSUME NEW P \in SUBSET Nat, 0 \in P, \A n \in P : n + 1 \in P
  PROVE  P = Nat
<1> SUFFICES ASSUME Nat \ P # {} PROVE FALSE
  OBVIOUS
<1> DEFINE R == OpToRel(<, Nat)
<1>1. IsWellFoundedOn(R, Nat)
  BY NatLessThanWellFounded
<1>2. \A a, b \in Nat : a < b => <<a, b>> \in R
  BY DEF OpToRel
<1> HIDE DEF R
<1>3. PICK x \in Nat \ P : \A y \in Nat \ P : ~ (<<y, x>> \in R)
  BY <1>1, WFMin
<1>4. x # 0 /\ x - 1 \in Nat /\ x - 1 < x
  BY <1>3
<1>5. x - 1 \in P
  BY <1>2, <1>3, <1>4
<1> QED BY <1>3, <1>4, <1>5

\* The same up to a bound.
LEMMA UpTo ==
  ASSUME NEW N, N \in Nat, NEW P \in SUBSET (0 .. N),
         0 \in P, \A n \in P : n < N => n + 1 \in P
  PROVE  P = 0 .. N
<1> DEFINE Q == P \cup {n \in Nat : n > N}
<1>0. \A n \in P : n \in 0 .. N
  OBVIOUS
<1>1. 0 \in Q /\ Q \in SUBSET Nat
  <2>1. \A n \in 0 .. N : n \in Nat
    OBVIOUS
  <2>2. P \subseteq Nat
    BY <1>0, <2>1
  <2> QED BY <2>2
<1>2. \A n \in Q : n + 1 \in Q
  OBVIOUS
<1> HIDE DEF Q
<1>3. Q = Nat
  BY <1>1, <1>2, Naturals
<1>4. \A n \in 0 .. N : n \in Nat /\ ~ (n > N)
  OBVIOUS
<1> QED BY <1>0, <1>3, <1>4 DEF Q

\* The rounds of a rule g, from a start.
Rounds(r, N, start, g) ==
  r[0] = start /\ \A n \in 1 .. N : r[n] = g[r[n - 1]]

\* What is defined in rounds exists.
LEMMA RoundsExist ==
  ASSUME NEW S, NEW start, start \in S, NEW N, N \in Nat, NEW g, g \in [S -> S]
  PROVE  \E r \in [0 .. N -> S] : Rounds(r, N, start, g)
<1> DEFINE good(r, n) == r[0] = start /\ \A i \in 1 .. n : r[i] = g[r[i - 1]]
           P == {n \in 0 .. N : \E r \in [0 .. n -> S] : good(r, n)}
<1>1. 0 \in P
  <2> DEFINE r == [i \in 0 .. 0 |-> start]
  <2>1. good(r, 0) /\ r \in [0 .. 0 -> S]
    OBVIOUS
  <2>2. \E q \in [0 .. 0 -> S] : good(q, 0)
    BY <2>1
  <2> HIDE DEF good
  <2> QED BY <2>2
<1>2. ASSUME NEW n \in P, n < N
      PROVE  \E r \in [0 .. n + 1 -> S] : good(r, n + 1)
  <2>1. PICK r \in [0 .. n -> S] : good(r, n)
    OBVIOUS
  <2> DEFINE b == g[r[n]]
             q == [i \in 0 .. n + 1 |-> IF i = n + 1 THEN b ELSE r[i]]
  <2>2. b \in S
    <3>1. r[n] \in S
      BY <2>1
    <3> QED BY <3>1
  <2>3. q \in [0 .. n + 1 -> S]
    BY <2>1, <2>2
  <2> HIDE DEF b
  <2>4. good(q, n + 1)
    BY <2>1 DEF b
  <2> QED BY <2>3, <2>4
<1>3. \A n \in P : n < N => n + 1 \in P
  <2> SUFFICES ASSUME NEW n \in P, n < N PROVE n + 1 \in P
    OBVIOUS
  <2>1. n + 1 \in 0 .. N
    OBVIOUS
  <2>2. \E r \in [0 .. n + 1 -> S] : good(r, n + 1)
    BY <1>2
  <2> HIDE DEF good
  <2> QED BY <2>1, <2>2
<1> HIDE DEF P
<1>4. P = 0 .. N
  BY <1>1, <1>3, UpTo DEF P
<1> QED BY <1>4 DEF P, Rounds

\* What every round leaves in a set is in it at the end.
LEMMA RoundsStay ==
  ASSUME NEW S, NEW N, N \in Nat, NEW r, r[0] \in S,
         \A n \in 1 .. N : r[n - 1] \in S => r[n] \in S
  PROVE  \A n \in 0 .. N : r[n] \in S
<1> DEFINE P == {n \in 0 .. N : r[n] \in S}
<1>1. 0 \in P
  OBVIOUS
<1>2. \A n \in P : n < N => n + 1 \in P
  <2> SUFFICES ASSUME NEW n \in P, n < N PROVE n + 1 \in P
    OBVIOUS
  <2>1. n + 1 \in 1 .. N /\ (n + 1) - 1 = n
    OBVIOUS
  <2>2. r[n + 1] \in S
    BY <2>1
  <2> QED BY <2>2
<1> HIDE DEF P
<1>3. P = 0 .. N
  BY <1>1, <1>2, UpTo DEF P
<1> QED BY <1>3 DEF P

\* A rule that adds to sets within U.
Adds(g, U) == g \in [SUBSET U -> SUBSET U] /\ \A X \in SUBSET U : X \subseteq g[X]
\* After N rounds there is nothing to add.
Settled(r, N, g) == g[r[N]] = r[N]

\* Sets that grow in rounds by a rule have stopped growing after as many rounds
\* as there are elements.
LEMMA RoundsEnd ==
  ASSUME NEW U, IsFiniteSet(U), NEW N, N \in Nat, Cardinality(U) <= N,
         NEW g, Adds(g, U),
         NEW r, r \in [0 .. N -> SUBSET U], NEW start, Rounds(r, N, start, g)
  PROVE  Settled(r, N, g)
<1> DEFINE grown(n) == Cardinality(r[n]) >= n
           P == {n \in 0 .. N : g[r[n]] = r[n] \/ grown(n)}
<1>0. g \in [SUBSET U -> SUBSET U] /\ \A X \in SUBSET U : X \subseteq g[X]
  BY DEF Adds
<1>1. \A n \in 0 .. N : IsFiniteSet(r[n]) /\ Cardinality(r[n]) \in Nat
  BY FS_Subset, FS_CardinalityType
<1>2. 0 \in P
  BY <1>1
<1>3. ASSUME NEW n \in 0 .. N, n < N, g[r[n]] = r[n] \/ grown(n)
      PROVE  g[r[n + 1]] = r[n + 1] \/ grown(n + 1)
  <2>1. n + 1 \in 1 .. N /\ n + 1 \in 0 .. N /\ (n + 1) - 1 = n
    BY <1>3
  <2>2. r[n + 1] = g[r[n]]
    BY <2>1 DEF Rounds
  <2>3. CASE g[r[n]] = r[n]
    BY <2>2, <2>3
  <2>4. CASE g[r[n]] # r[n]
    <3>1. grown(n)
      BY <1>3, <2>4
    <3>2. r[n] \subseteq r[n + 1] /\ r[n] # r[n + 1]
      BY <1>0, <2>2, <2>4
    <3>3. Cardinality(r[n]) < Cardinality(r[n + 1])
      BY <1>1, <2>1, <3>2, FS_Subset
    <3>4. Cardinality(r[n]) \in Nat /\ Cardinality(r[n + 1]) \in Nat
      BY <1>1, <2>1
    <3> QED BY <3>1, <3>3, <3>4
  <2> QED BY <2>3, <2>4
<1>4. \A n \in P : n < N => n + 1 \in P
  <2> SUFFICES ASSUME NEW n \in P, n < N PROVE n + 1 \in P
    OBVIOUS
  <2>1. n + 1 \in 0 .. N
    OBVIOUS
  <2>2. g[r[n]] = r[n] \/ grown(n)
    OBVIOUS
  <2> HIDE DEF grown
  <2> QED BY <1>3, <2>1, <2>2
<1> HIDE DEF P
<1>5. P = 0 .. N
  BY <1>2, <1>4, UpTo DEF P
<1>6. g[r[N]] = r[N] \/ Cardinality(r[N]) >= N
  BY <1>5 DEF P
<1>7. ASSUME Cardinality(r[N]) >= N PROVE r[N] = U
  <2>1. r[N] \subseteq U /\ Cardinality(r[N]) \in Nat /\ Cardinality(U) \in Nat
    BY <1>1, FS_CardinalityType
  <2>2. Cardinality(r[N]) >= Cardinality(U)
    BY <1>7, <2>1
  <2>3. ~ (Cardinality(r[N]) < Cardinality(U))
    BY <2>1, <2>2
  <2> QED BY <2>1, <2>3, FS_Subset
<1>8. ASSUME r[N] = U PROVE g[r[N]] = r[N]
  <2>1. g[U] \in SUBSET U /\ U \subseteq g[U]
    BY <1>0
  <2> QED BY <1>8, <2>1
<1> QED BY <1>6, <1>7, <1>8 DEF Settled

-----------------------------------------------------------------------------
(* The fixed points of the analysis. *)

\* The closure holds what it starts with and is closed, and no other set that is
\* has less.
LEMMA ClosureFacts ==
  ASSUME NEW edges, NEW T, IsFiniteSet(T), \A e \in edges : e[2] \in T, NEW start
  PROVE  /\ start \subseteq Closure(edges, start)
         /\ \A e \in edges : e[1] \in Closure(edges, start) => e[2] \in Closure(edges, start)
         /\ \A X : start \subseteq X /\ (\A e \in edges : e[1] \in X => e[2] \in X)
                     => Closure(edges, start) \subseteq X
<1> DEFINE U == {e[2] : e \in edges}
           N == Cardinality(U)
           grow(X) == X \cup {e[2] : e \in {e \in edges : e[1] \in X}}
           V == start \cup U
           g == [X \in SUBSET V |-> grow(X)]
           build(r) == [n \in 0 .. N |-> IF n = 0 THEN start ELSE grow(r[n - 1])]
           found == CHOOSE r : r = build(r)
<1>1. IsFiniteSet(U) /\ N \in Nat
  <2>1. U \in SUBSET T
    OBVIOUS
  <2> QED BY <2>1, FS_Subset, FS_CardinalityType
<1>2. start \in SUBSET V /\ g \in [SUBSET V -> SUBSET V]
  OBVIOUS
<1>3. Closure(edges, start) = found[N]
  BY DEF Closure, Iterated
<1> HIDE DEF N, V, U
<1>4. PICK r \in [0 .. N -> SUBSET V] : Rounds(r, N, start, g)
  <2> HIDE DEF g
  <2> QED BY ONLY <1>1, <1>2, RoundsExist
<1>5. found = build(found)
  <2>1. \A n \in 1 .. N : r[n - 1] \in SUBSET V
    BY <1>1
  <2>2. \A n \in 1 .. N : r[n] = grow(r[n - 1])
    <3> HIDE DEF grow
    <3> QED BY <1>4, <2>1 DEF Rounds
  <2>3. r = build(r)
    <3> HIDE DEF grow
    <3> QED BY <1>1, <1>4, <2>2 DEF Rounds
  <2> HIDE DEF build
  <2> QED BY <2>3 DEF build
<1> HIDE DEF found
<1>6. found[0] = start /\ \A n \in 1 .. N : found[n] = grow(found[n - 1])
  <2> HIDE DEF grow
  <2> QED BY <1>1, <1>5
<1>7. \A n \in 0 .. N : found[n] \in SUBSET V
  <2>1. \A n \in 1 .. N : found[n - 1] \in SUBSET V => found[n] \in SUBSET V
    BY <1>6 DEF V, U
  <2> QED BY <1>1, <1>2, <1>6, <2>1, RoundsStay
<1>8. \A n \in 0 .. N : start \subseteq found[n]
  <2> DEFINE W == {X \in SUBSET V : start \subseteq X}
  <2>1. \A n \in 1 .. N : found[n - 1] \in W => found[n] \in W
    BY <1>1, <1>6, <1>7
  <2>2. found[0] \in W
    BY <1>2, <1>6
  <2> HIDE DEF W
  <2>3. \A n \in 0 .. N : found[n] \in W
    BY <1>1, <2>1, <2>2, RoundsStay
  <2> QED BY <2>3 DEF W
\* What is added are targets: they are counted.
<1>9. grow(found[N]) = found[N]
  <2> DEFINE h == [X \in SUBSET U |-> X \cup {e[2] : e \in {e \in edges : e[1] \in start \cup X}}]
             q == [n \in 0 .. N |-> found[n] \cap U]
  <2>1. Adds(h, U)
    BY DEF U, Adds
  <2>2. q \in [0 .. N -> SUBSET U]
    OBVIOUS
  <2>3. ASSUME NEW n \in 0 .. N
        PROVE  found[n] = start \cup q[n] /\ h[q[n]] = grow(found[n]) \cap U
    <3>1. found[n] = start \cup (found[n] \cap U)
      BY <1>7, <1>8 DEF V
    <3> QED BY <3>1 DEF U
  <2>4. Rounds(q, N, q[0], h)
    <3> SUFFICES ASSUME NEW n \in 1 .. N PROVE q[n] = h[q[n - 1]]
      BY DEF Rounds
    <3>1. n \in 0 .. N /\ n - 1 \in 0 .. N
      BY <1>1
    <3>2. found[n] = grow(found[n - 1])
      BY <1>6
    <3> HIDE DEF h
    <3> QED BY <2>3, <3>1, <3>2
  <2>5. h[q[N]] = q[N]
    <3> HIDE DEF h, q
    <3>1. Cardinality(U) <= N
      BY <1>1 DEF N
    <3>2. Settled(q, N, h)
      BY ONLY <1>1, <2>1, <2>2, <2>4, <3>1, RoundsEnd
    <3> QED BY <3>2 DEF Settled
  <2>6. N \in 0 .. N
    BY <1>1
  <2>7. found[N] \subseteq grow(found[N]) /\ grow(found[N]) \subseteq found[N] \cup U
    BY DEF U
  <2> HIDE DEF h
  <2> QED BY <2>3, <2>5, <2>6, <2>7
<1>10. ASSUME NEW X, start \subseteq X, \A e \in edges : e[1] \in X => e[2] \in X
       PROVE  found[N] \subseteq X
  <2>1. \A n \in 1 .. N : found[n - 1] \in SUBSET X => found[n] \in SUBSET X
    BY <1>6, <1>10
  <2>2. \A n \in 0 .. N : found[n] \in SUBSET X
    BY <1>1, <1>6, <1>10, <2>1, RoundsStay
  <2> QED BY <1>1, <2>2
<1>11. start \subseteq found[N] /\ \A e \in edges : e[1] \in found[N] => e[2] \in found[N]
  BY <1>1, <1>8, <1>9
<1> QED BY <1>3, <1>10, <1>11


\* A program within its outline.
TypedCode ==
  /\ outline \in Outlines
  /\ code \in [Functions -> SUBSET UNION {Operations(f) : f \in Functions}]
  /\ \A f \in Functions : code[f] \subseteq Operations(f) /\ IsFiniteSet(code[f])

\* What an operation holds, by its kind.
WellFormed(o) ==
  /\ o.kind \in {"struct", "copy", "assign", "call", "return", "retain"}
  /\ o.kind # "return" => o.to.local \in Locals
  /\ o.value # Constant => o.value.local \in Locals /\ o.value.depth \in 0 .. 1
  /\ o.value.local \in Locals => o.value # Constant
  /\ o.kind \notin {"copy", "return"} /\ o.value # Constant => o.value.depth = 0
  /\ o.kind = "copy" => o.value # o.to /\ o.to = Place(o.to.local, 0)
  /\ o.kind \in {"call", "retain"} => o.value # Constant
  /\ o.kind \in {"struct", "call", "retain"} => o.to.depth = 0
  /\ o.kind = "assign" => o.to.depth \in 1 .. MaxPath

LEMMA OperationsWellFormed ==
  ASSUME outline \in Outlines, NEW f, f \in Functions, NEW o, o \in Operations(f)
  PROVE  /\ WellFormed(o)
         /\ o.kind = "call" => o.callee \in Functions \ {Main}
         /\ o.kind = "retain" => f \in Containers
<1>0. None \notin Locals
  BY EscapeAssumption
<1>1. \A p \in Whole : /\ p.local \in Locals /\ p.depth = 0
                       /\ p # Constant /\ p = Place(p.local, 0)
  BY <1>0 DEF Whole, Constant, Place
<1>2. \A p \in Operands : p # Constant => p.local \in Locals /\ p.depth \in 0 .. 1
  BY DEF Operands
<1>3. Constant.local \notin Locals
  BY <1>0 DEF Constant, Place
<1>4. MayCall[f] \subseteq Functions \ {Main}
  BY EscapeAssumption DEF MayCall
<1>5. \A p \in [local : Locals, depth : 1 .. MaxPath] : p.local \in Locals /\ p.depth \in 1 .. MaxPath
  OBVIOUS
<1>6. \A p \in {Constant} \cup Whole : p # Constant => p \in Whole
  OBVIOUS
<1> HIDE DEF Constant, Whole, Operands
<1>a. CASE o \in [kind : {"struct"}, to : Whole, value : {Constant} \cup Whole, callee : {None}]
  BY <1>a, <1>1, <1>3, <1>6 DEF WellFormed
<1>b. CASE /\ o \in [kind : {"copy"}, to : Whole, value : Operands, callee : {None}]
           /\ o.value # o.to
  BY <1>b, <1>1, <1>2, <1>3 DEF WellFormed
<1>c. CASE o \in [kind : {"assign"}, to : [local : Locals, depth : 1 .. MaxPath],
                  value : {Constant} \cup Whole, callee : {None}]
  BY <1>c, <1>1, <1>3, <1>5, <1>6 DEF WellFormed
<1>d. CASE o \in [kind : {"call"}, to : Whole, value : Whole, callee : MayCall[f]]
  BY <1>d, <1>1, <1>3, <1>4 DEF WellFormed
<1>e. CASE o \in [kind : {"return"}, to : {Constant}, value : Operands, callee : {None}]
  BY <1>e, <1>2, <1>3 DEF WellFormed
<1>f. CASE /\ f \in Containers
           /\ o \in [kind : {"retain"}, to : Whole, value : Whole, callee : {None}]
  BY <1>f, <1>1, <1>3 DEF WellFormed
<1> QED BY <1>a, <1>b, <1>c, <1>d, <1>e, <1>f DEF Operations

\* Every operation of a program is.
LEMMA CodeWellFormed ==
  ASSUME TypedCode
  PROVE  \A f \in Functions : \A o \in code[f] :
            /\ WellFormed(o)
            /\ o.kind = "call" => o.callee \in Functions \ {Main}
            /\ o.kind = "retain" => f \in Containers
BY OperationsWellFormed DEF TypedCode

\* ReadOut is closed under copies, and least.
ReadOutClosed(f, X) ==
  \A o \in code[f] : o.kind = "copy" /\ (o.value.depth = 1 \/ o.value.local \in X)
                       => o.to.local \in X

LEMMA ReadOutFacts ==
  ASSUME TypedCode
  PROVE  \A f \in Functions : /\ ReadOutClosed(f, ReadOut(f))
                              /\ ReadOut(f) \subseteq Locals
                              /\ \A X : ReadOutClosed(f, X) => ReadOut(f) \subseteq X
<1> SUFFICES ASSUME NEW f \in Functions
             PROVE  /\ ReadOutClosed(f, ReadOut(f))
                    /\ ReadOut(f) \subseteq Locals
                    /\ \A X : ReadOutClosed(f, X) => ReadOut(f) \subseteq X
  OBVIOUS
<1> DEFINE N == Cardinality(Locals)
           grow(ls) == ls \cup {o.to.local : o \in {o \in OfKind(f, {"copy"}) :
                                o.value.depth = 1 \/ o.value.local \in ls}}
           S == SUBSET Locals
           g == [X \in S |-> grow(X)]
           build(r) == [n \in 0 .. N |-> IF n = 0 THEN {} ELSE grow(r[n - 1])]
           found == CHOOSE r : r = build(r)
<1>1. IsFiniteSet(Locals) /\ N \in Nat /\ N <= N
  BY EscapeAssumption, FS_CardinalityType
<1>2. Adds(g, Locals) /\ g \in [S -> S] /\ {} \in S
  <2>1. \A o \in OfKind(f, {"copy"}) : o.to.local \in Locals
    BY CodeWellFormed DEF OfKind, WellFormed
  <2>2. \A X \in S : grow(X) \in S /\ X \subseteq grow(X)
    BY <2>1
  <2> HIDE DEF grow
  <2> QED BY <2>2 DEF Adds
<1>3. ReadOut(f) = found[N]
  BY DEF ReadOut, Iterated
<1> HIDE DEF N, S
<1>4. PICK r \in [0 .. N -> S] : Rounds(r, N, {}, g)
  <2> HIDE DEF g
  <2> QED BY ONLY <1>1, <1>2, RoundsExist
<1>5. found = build(found)
  <2>1. \A n \in 1 .. N : r[n - 1] \in S
    BY <1>1
  <2>2. \A n \in 1 .. N : r[n] = grow(r[n - 1])
    <3> HIDE DEF grow
    <3> QED BY <1>4, <2>1 DEF Rounds
  <2>3. r = build(r)
    <3> HIDE DEF grow
    <3> QED BY <1>1, <1>4, <2>2 DEF Rounds
  <2> HIDE DEF build
  <2> QED BY <2>3 DEF build
<1> HIDE DEF found
<1>6. found[0] = {} /\ \A n \in 1 .. N : found[n] = grow(found[n - 1])
  <2> HIDE DEF grow
  <2>1. 0 \in 0 .. N /\ \A n \in 1 .. N : n \in 0 .. N /\ n # 0
    BY <1>1
  <2>2. \A n \in 0 .. N : build(found)[n] = IF n = 0 THEN {} ELSE grow(found[n - 1])
    OBVIOUS
  <2> HIDE DEF build
  <2>3. \A n \in 0 .. N : found[n] = IF n = 0 THEN {} ELSE grow(found[n - 1])
    BY <1>5, <2>2
  <2>4. \A n \in 1 .. N : found[n] = grow(found[n - 1])
    BY <2>1, <2>3
  <2> QED BY <2>1, <2>3, <2>4
<1>7. \A n \in 0 .. N : found[n] \in S
  <2>1. \A X \in S : grow(X) \in S
    <3> HIDE DEF grow
    <3> QED BY <1>2
  <2>2. \A n \in 1 .. N : found[n - 1] \in S => found[n] \in S
    <3> HIDE DEF grow
    <3> QED BY <1>6, <2>1
  <2>3. found[0] \in S
    BY <1>2, <1>6
  <2> QED BY ONLY <1>1, <2>2, <2>3, RoundsStay
<1>8. grow(found[N]) = found[N]
  <2>1. found = [n \in 0 .. N |-> found[n]]
    BY ONLY <1>5
  <2>2. found \in [0 .. N -> SUBSET Locals]
    BY <1>7, <2>1 DEF S
  <2>3. Rounds(found, N, {}, g)
    <3>1. \A n \in 1 .. N : found[n - 1] \in S
      BY <1>1, <1>7
    <3> HIDE DEF grow
    <3> QED BY <1>6, <3>1 DEF Rounds
  <2>4. Settled(found, N, g)
    <3> HIDE DEF g
    <3> QED BY ONLY <1>1, <1>2, <2>2, <2>3, RoundsEnd DEF N
  <2>5. found[N] \in S
    BY <1>1, <1>7
  <2> HIDE DEF grow
  <2> QED BY <2>4, <2>5 DEF Settled
<1>9. ASSUME NEW X, ReadOutClosed(f, X)
      PROVE  found[N] \subseteq X
  <2>1. \A n \in 1 .. N : found[n - 1] \in SUBSET X => found[n] \in SUBSET X
    BY <1>6, <1>9 DEF ReadOutClosed, OfKind
  <2>2. found[0] \in SUBSET X
    BY <1>6
  <2>3. \A n \in 0 .. N : found[n] \in SUBSET X
    BY ONLY <1>1, <2>1, <2>2, RoundsStay
  <2> QED BY <1>1, <2>3
<1>10. ReadOutClosed(f, found[N])
  BY <1>8 DEF ReadOutClosed, OfKind
<1> QED BY <1>1, <1>3, <1>7, <1>9, <1>10 DEF S

\* What the frames hold is within every set that holds what the locals hold and,
\* with an object, its member.
LEMMA HeldLeast ==
  ASSUME NEW X, \A i \in 1 .. Len(stack) : \A l \in Locals : stack[i].env[l] \in X,
         \A o \in X : Member(o) \in X
  PROVE  Held \subseteq X \ {None}
<1> DEFINE N == MaxObjects
           bound == {f.env[l] : f \in {stack[i] : i \in 1 .. Len(stack)}, l \in Locals}
           grow(held) == held \cup {Member(o) : o \in held}
           S == SUBSET X
           g == [Y \in S |-> grow(Y)]
           build(r) == [n \in 0 .. N |-> IF n = 0 THEN bound ELSE grow(r[n - 1])]
           found == CHOOSE r : r = build(r)
<1>1. N \in Nat
  BY EscapeAssumption
<1>2. \A Y \in S : grow(Y) \in S
  OBVIOUS
<1>3. g \in [S -> S] /\ bound \in S
  <2>1. bound \in S
    OBVIOUS
  <2> HIDE DEF grow, bound
  <2> QED BY <1>2, <2>1
<1>4. Held = found[N] \ {None}
  BY DEF Held, Iterated
<1> HIDE DEF N, S, bound
<1>5. PICK r \in [0 .. N -> S] : Rounds(r, N, bound, g)
  <2> HIDE DEF g
  <2> QED BY ONLY <1>1, <1>3, RoundsExist
<1>6. found = build(found)
  <2>1. \A n \in 1 .. N : r[n - 1] \in S
    BY <1>1
  <2>2. \A n \in 1 .. N : r[n] = grow(r[n - 1])
    <3> HIDE DEF grow
    <3> QED BY <1>5, <2>1 DEF Rounds
  <2>3. r = build(r)
    <3> HIDE DEF grow
    <3> QED BY <1>1, <1>5, <2>2 DEF Rounds
  <2> HIDE DEF build
  <2> QED BY <2>3 DEF build
<1> HIDE DEF found
<1>7. found[0] \in S /\ \A n \in 1 .. N : found[n - 1] \in S => found[n] \in S
  <2> HIDE DEF grow
  <2>1. 0 \in 0 .. N /\ \A n \in 1 .. N : n \in 0 .. N /\ n # 0
    BY <1>1
  <2>2. \A n \in 0 .. N : build(found)[n] = IF n = 0 THEN bound ELSE grow(found[n - 1])
    OBVIOUS
  <2> HIDE DEF build
  <2>3. \A n \in 0 .. N : found[n] = IF n = 0 THEN bound ELSE grow(found[n - 1])
    BY <1>6, <2>2
  <2>4. \A n \in 1 .. N : found[n] = grow(found[n - 1])
    BY <2>1, <2>3
  <2>5. found[0] = bound
    BY <2>1, <2>3
  <2> QED BY <1>2, <1>3, <2>4, <2>5
<1>8. \A n \in 0 .. N : found[n] \in S
  BY ONLY <1>1, <1>7, RoundsStay
<1> QED BY <1>1, <1>4, <1>8 DEF S

\* The origins of the facts of a function.
Origins(f) == {Parameter, ExternalHeap} \cup Sites(f)
AllFacts(f) == [Locals -> SUBSET Origins(f)]

LEMMA SeedsAndCopies ==
  ASSUME TypedCode
  PROVE  \A f \in Functions :
            /\ IsFiniteSet(Origins(f))
            /\ [l \in Locals |-> Seeds(f, l)] \in AllFacts(f)
            /\ \A facts \in AllFacts(f) : Propagate(f, facts) \in AllFacts(f)
<1> SUFFICES ASSUME NEW f \in Functions
             PROVE  /\ IsFiniteSet(Origins(f))
                    /\ [l \in Locals |-> Seeds(f, l)] \in AllFacts(f)
                    /\ \A facts \in AllFacts(f) : Propagate(f, facts) \in AllFacts(f)
  OBVIOUS
<1>1. IsFiniteSet(Origins(f))
  <2>1. IsFiniteSet(Sites(f))
    <3>1. Sites(f) \in SUBSET code[f] /\ IsFiniteSet(code[f])
      BY DEF TypedCode, Sites, OfKind
    <3> QED BY <3>1, FS_Subset
  <2>2. IsFiniteSet({Parameter}) /\ IsFiniteSet({ExternalHeap})
    BY FS_Singleton
  <2>3. IsFiniteSet({Parameter} \cup {ExternalHeap})
    BY <2>2, FS_Union
  <2>4. IsFiniteSet(({Parameter} \cup {ExternalHeap}) \cup Sites(f))
    BY <2>1, <2>3, FS_Union
  <2>5. ({Parameter} \cup {ExternalHeap}) \cup Sites(f) = Origins(f)
    BY DEF Origins
  <2> QED BY <2>4, <2>5
<1>2. \A l \in Locals : Seeds(f, l) \subseteq Origins(f)
  BY DEF Seeds, Origins
<1>3. ASSUME NEW facts \in AllFacts(f)
      PROVE  Propagate(f, facts) \in AllFacts(f)
  <2>1. \A o \in code[f] : o.kind = "copy" /\ o.value # Constant => o.value.local \in Locals
    BY CodeWellFormed DEF WellFormed
  <2>2. \A l \in Locals : facts[l] \subseteq Origins(f)
    BY DEF AllFacts
  <2>3. ASSUME NEW l \in Locals
        PROVE  facts[l] \cup UNION {facts[o.value.local] :
                  o \in {o \in OfKind(f, {"copy"}) : o.to.local = l /\ o.value # Constant}}
               \subseteq Origins(f)
    BY <2>1, <2>2 DEF OfKind
  <2> QED BY <2>3 DEF Propagate, AllFacts
<1> QED BY <1>1, <1>2, <1>3 DEF AllFacts

\* What the facts of a function hold: the seeds, and what copies carry.
FactsClosed(f, facts) ==
  /\ \A l \in Locals : Seeds(f, l) \subseteq facts[l]
  /\ \A o \in code[f] : o.kind = "copy" /\ o.value # Constant
                          => facts[o.value.local] \subseteq facts[o.to.local]

\* The facts of a function are closed, and within all others that are.
LEMMA FactsFacts ==
  ASSUME TypedCode
  PROVE  \A f \in Functions :
            /\ Facts(f) \in AllFacts(f)
            /\ FactsClosed(f, Facts(f))
            /\ \A X : FactsClosed(f, X) => \A l \in Locals : Facts(f)[l] \subseteq X[l]
<1> SUFFICES ASSUME NEW f \in Functions
             PROVE  /\ Facts(f) \in AllFacts(f)
                    /\ FactsClosed(f, Facts(f))
                    /\ \A X : FactsClosed(f, X) => \A l \in Locals : Facts(f)[l] \subseteq X[l]
  OBVIOUS
<1> DEFINE N == Cardinality(Locals)
           start == [l \in Locals |-> Seeds(f, l)]
           grow(facts) == Propagate(f, facts)
           S == AllFacts(f)
           g == [X \in S |-> grow(X)]
           build(r) == [n \in 0 .. N |-> IF n = 0 THEN start ELSE grow(r[n - 1])]
           found == CHOOSE r : r = build(r)
<1>1. IsFiniteSet(Locals) /\ N \in Nat /\ N <= N
  BY EscapeAssumption, FS_CardinalityType
<1>2. start \in S /\ \A X \in S : grow(X) \in S
  BY SeedsAndCopies
<1>3. g \in [S -> S]
  <2> HIDE DEF grow, S
  <2> QED BY <1>2
<1>4. Facts(f) = found[N]
  BY DEF Facts, Iterated
<1>w. \A o \in code[f] : o.kind = "copy" => /\ o.to.local \in Locals
                                            /\ o.value # Constant => o.value.local \in Locals
  BY CodeWellFormed DEF WellFormed
<1> HIDE DEF N, S, start
<1>5. PICK r \in [0 .. N -> S] : Rounds(r, N, start, g)
  <2> HIDE DEF g
  <2> QED BY ONLY <1>1, <1>2, <1>3, RoundsExist
<1>6. found = build(found)
  <2>1. \A n \in 1 .. N : r[n - 1] \in S
    BY <1>1
  <2>2. \A n \in 1 .. N : r[n] = grow(r[n - 1])
    <3> HIDE DEF grow
    <3> QED BY <1>5, <2>1 DEF Rounds
  <2>3. r = build(r)
    <3> HIDE DEF grow
    <3> QED BY <1>1, <1>5, <2>2 DEF Rounds
  <2> HIDE DEF build
  <2> QED BY <2>3 DEF build
<1> HIDE DEF found
<1>7. found[0] = start /\ \A n \in 1 .. N : found[n] = Propagate(f, found[n - 1])
  <2> HIDE DEF grow
  <2>1. 0 \in 0 .. N /\ \A n \in 1 .. N : n \in 0 .. N /\ n # 0
    BY <1>1
  <2>2. \A n \in 0 .. N : build(found)[n] = IF n = 0 THEN start ELSE grow(found[n - 1])
    OBVIOUS
  <2> HIDE DEF build
  <2>3. \A n \in 0 .. N : found[n] = IF n = 0 THEN start ELSE grow(found[n - 1])
    BY <1>6, <2>2
  <2>4. \A n \in 1 .. N : found[n] = grow(found[n - 1])
    BY <2>1, <2>3
  <2>5. found[0] = start
    BY <2>1, <2>3
  <2> QED BY <2>4, <2>5 DEF grow
<1>8. \A n \in 0 .. N : found[n] \in S
  <2>1. \A n \in 1 .. N : found[n - 1] \in S => found[n] \in S
    BY <1>2, <1>7
  <2>2. found[0] \in S
    BY <1>2, <1>7
  <2> QED BY ONLY <1>1, <2>1, <2>2, RoundsStay
<1>9. \A n \in 0 .. N : \A l \in Locals : Seeds(f, l) \subseteq found[n][l]
  <2> DEFINE W == {X \in S : \A l \in Locals : Seeds(f, l) \subseteq X[l]}
  <2>1. ASSUME NEW n \in 1 .. N, found[n - 1] \in W PROVE found[n] \in W
    <3>1. n \in 0 .. N /\ found[n] \in S
      BY <1>1, <1>8
    <3>a. found[n] = Propagate(f, found[n - 1])
      BY <1>7
    <3>b. \A F : \A l \in Locals : F[l] \subseteq Propagate(f, F)[l]
      BY DEF Propagate
    <3>2. \A l \in Locals : found[n - 1][l] \subseteq found[n][l]
      BY <3>a, <3>b
    <3> QED BY <2>1, <3>1, <3>2
  <2>2. found[0] \in W
    BY <1>2, <1>7 DEF start
  <2> HIDE DEF W
  <2>3. \A n \in 0 .. N : found[n] \in W
    BY ONLY <1>1, <2>1, <2>2, RoundsStay
  <2> QED BY <2>3 DEF W
\* One origin at a time: the locals it has reached grow by a rule of their own.
<1>10. ASSUME NEW x, NEW o \in code[f], o.kind = "copy", o.value # Constant,
              x \in found[N][o.value.local]
       PROVE  x \in found[N][o.to.local]
  <2> DEFINE spread(X) == X \cup {c.to.local : c \in {c \in OfKind(f, {"copy"}) :
                                    c.value # Constant /\ c.value.local \in X}}
             h == [X \in SUBSET Locals |-> spread(X)]
             q == [n \in 0 .. N |-> {l \in Locals : x \in found[n][l]}]
  <2>1. Adds(h, Locals)
    BY <1>w DEF Adds, OfKind
  <2>2. q \in [0 .. N -> SUBSET Locals]
    OBVIOUS
  <2>3. ASSUME NEW n \in 1 .. N PROVE q[n] = h[q[n - 1]]
    <3>1. n \in 0 .. N /\ n - 1 \in 0 .. N
      BY <1>1
    <3>2. \A l \in Locals : found[n][l] = found[n - 1][l] \cup
            UNION {found[n - 1][c.value.local] :
               c \in {c \in OfKind(f, {"copy"}) : c.to.local = l /\ c.value # Constant}}
      BY <1>7 DEF Propagate
    <3>3. q[n] = {l \in Locals : x \in found[n][l]}
          /\ q[n - 1] = {l \in Locals : x \in found[n - 1][l]}
      BY <3>1
    <3>4. q[n - 1] \in SUBSET Locals
      BY <3>3
    <3> HIDE DEF q
    <3>5. \A l \in Locals : l \in q[n] <=> l \in spread(q[n - 1])
      BY <1>w, <3>2, <3>3 DEF OfKind
    <3>6. spread(q[n - 1]) \subseteq Locals
      BY <1>w, <3>4 DEF OfKind
    <3> QED BY <3>3, <3>4, <3>5, <3>6
  <2>4. Rounds(q, N, q[0], h)
    <3> HIDE DEF q, h
    <3> QED BY <2>3 DEF Rounds
  <2>5. Settled(q, N, h)
    <3> HIDE DEF q, h
    <3> QED BY ONLY <1>1, <2>1, <2>2, <2>4, RoundsEnd DEF N
  <2>6. N \in 0 .. N
    BY <1>1
  <2>7. q[N] = {l \in Locals : x \in found[N][l]}
    BY <2>6
  <2> HIDE DEF q
  <2>8. spread(q[N]) = q[N]
    BY <2>5, <2>7 DEF Settled
  <2>9. o.value.local \in q[N]
    BY <1>w, <1>10, <2>7
  <2>10. o.to.local \in spread(q[N])
    BY <1>10, <2>9 DEF OfKind
  <2> QED BY <2>7, <2>8, <2>10
<1>11. ASSUME NEW X, FactsClosed(f, X)
       PROVE  \A l \in Locals : found[N][l] \subseteq X[l]
  <2> DEFINE W == {Y \in S : \A l \in Locals : Y[l] \subseteq X[l]}
  <2>1. ASSUME NEW n \in 1 .. N, found[n - 1] \in W PROVE found[n] \in W
    <3>1. n \in 0 .. N /\ found[n] \in S
      BY <1>1, <1>8
    <3>2. \A l \in Locals : found[n][l] = found[n - 1][l] \cup
            UNION {found[n - 1][c.value.local] :
               c \in {c \in OfKind(f, {"copy"}) : c.to.local = l /\ c.value # Constant}}
      BY <1>7 DEF Propagate
    <3>3. \A l \in Locals : found[n][l] \subseteq X[l]
      BY <1>w, <1>11, <2>1, <3>2 DEF FactsClosed, OfKind
    <3> QED BY <3>1, <3>3
  <2>2. found[0] \in W
    BY <1>2, <1>7, <1>11 DEF start, FactsClosed
  <2> HIDE DEF W
  <2>3. \A n \in 0 .. N : found[n] \in W
    BY ONLY <1>1, <2>1, <2>2, RoundsStay
  <2> QED BY <1>1, <2>3 DEF W
<1>12. N \in 0 .. N
  BY <1>1
<1>13. FactsClosed(f, found[N])
  BY <1>9, <1>10, <1>12 DEF FactsClosed
<1> QED BY <1>4, <1>8, <1>11, <1>12, <1>13 DEF S

-----------------------------------------------------------------------------
(* What escapes. *)

\* The edges of a function lead from origins to origins, so that their closure
\* is a fixed point.
LEMMA EdgesFacts ==
  ASSUME TypedCode
  PROVE  \A f \in Functions : \A e \in Edges(f, Facts(f)) : e[2] \in Origins(f)
<1> SUFFICES ASSUME NEW f \in Functions, NEW e \in Edges(f, Facts(f))
             PROVE  e[2] \in Origins(f)
  OBVIOUS
<1>1. \A l \in Locals : Facts(f)[l] \subseteq Origins(f)
  BY FactsFacts DEF AllFacts
<1>2. \A o \in code[f] : o.value # Constant => o.value.local \in Locals
  BY CodeWellFormed DEF WellFormed
<1>3. \A o \in code[f] : OperandFacts(Facts(f), o.value) \subseteq Origins(f)
  BY <1>1, <1>2 DEF OperandFacts
<1>4. \A o \in Sites(f) \cup OfKind(f, {"assign"}) : o \in code[f]
  BY DEF Sites, OfKind
<1> QED BY <1>3, <1>4 DEF Edges

\* What a function lets escape depends on the summaries of its callees only.
LEMMA EscapedByCallees ==
  ASSUME NEW f, NEW Y, NEW Z, Y \cap Callees(f) \subseteq Z
  PROVE  EscapedDirectly(f, Facts(f), Y) \subseteq EscapedDirectly(f, Facts(f), Z)
<1>1. \A o \in OfKind(f, {"call"}) : o.callee \in Y => o.callee \in Z
  BY DEF Callees
<1>2. Leaks(f, Facts(f), Y) \subseteq Leaks(f, Facts(f), Z)
  BY <1>1 DEF Leaks
<1> QED BY <1>2 DEF EscapedDirectly

\* What escapes holds what escapes directly and is closed, and nothing more.
EscapedClosed(f, X) == \A e \in Edges(f, Facts(f)) : e[1] \in X => e[2] \in X

LEMMA EscapedFacts ==
  ASSUME TypedCode
  PROVE  \A f \in Functions : \A Y :
            /\ EscapedDirectly(f, Facts(f), Y) \subseteq Escaped(f, Y)
            /\ EscapedClosed(f, Escaped(f, Y))
            /\ \A X : EscapedDirectly(f, Facts(f), Y) \subseteq X /\ EscapedClosed(f, X)
                        => Escaped(f, Y) \subseteq X
<1> SUFFICES ASSUME NEW f \in Functions, NEW Y
             PROVE  /\ EscapedDirectly(f, Facts(f), Y) \subseteq Escaped(f, Y)
                    /\ EscapedClosed(f, Escaped(f, Y))
                    /\ \A X : EscapedDirectly(f, Facts(f), Y) \subseteq X /\ EscapedClosed(f, X)
                                => Escaped(f, Y) \subseteq X
  OBVIOUS
<1> DEFINE edges == Edges(f, Facts(f))
           start == EscapedDirectly(f, Facts(f), Y)
           T == Origins(f)
<1>1. IsFiniteSet(T) /\ \A e \in edges : e[2] \in T
  BY SeedsAndCopies, EdgesFacts
<1>2. Escaped(f, Y) = Closure(edges, start)
  BY DEF Escaped
<1> HIDE DEF edges, start, T
<1>3. /\ start \subseteq Closure(edges, start)
      /\ \A e \in edges : e[1] \in Closure(edges, start) => e[2] \in Closure(edges, start)
      /\ \A X : start \subseteq X /\ (\A e \in edges : e[1] \in X => e[2] \in X)
                  => Closure(edges, start) \subseteq X
  BY ONLY <1>1, ClosureFacts
<1> QED BY <1>2, <1>3 DEF edges, start, EscapedClosed

LEMMA EscapedGrows ==
  ASSUME TypedCode, NEW f, f \in Functions, NEW Y, NEW Z, Y \cap Callees(f) \subseteq Z
  PROVE  Escaped(f, Y) \subseteq Escaped(f, Z)
BY EscapedFacts, EscapedByCallees

\* What the call-graph queue leaves: the functions analysed are those whose
\* callees all are, and the parameter of one escapes as its facts say.
Analysed == Summaries.analysed
EscapesOf == Summaries.escapes

\* the functions, with their summaries, a rule can be stated of
Known == {k \in [analysed : SUBSET Functions, escapes : SUBSET Functions] :
            /\ k.escapes \subseteq k.analysed
            /\ \A f \in k.analysed : /\ Callees(f) \subseteq k.analysed
                                     /\ f \in k.escapes <=> Parameter \in Escaped(f, k.escapes)}

QueueRound(known) ==
  LET ready == {f \in Functions \ known.analysed : Callees(f) \subseteq known.analysed}
  IN  [analysed |-> known.analysed \cup ready,
       escapes  |-> known.escapes \cup {f \in ready : Parameter \in Escaped(f, known.escapes)}]

LEMMA QueueRoundKnown ==
  ASSUME TypedCode, NEW k \in Known
  PROVE  QueueRound(k) \in Known
<1> DEFINE ready == {f \in Functions \ k.analysed : Callees(f) \subseteq k.analysed}
           added == {f \in ready : Parameter \in Escaped(f, k.escapes)}
           A == k.analysed \cup ready
           E == k.escapes \cup added
           n == QueueRound(k)
<1>1. n = [analysed |-> A, escapes |-> E]
  BY DEF QueueRound
<1>2. /\ k.analysed \subseteq Functions /\ k.escapes \subseteq k.analysed
      /\ \A f \in k.analysed : /\ Callees(f) \subseteq k.analysed
                               /\ f \in k.escapes <=> Parameter \in Escaped(f, k.escapes)
  BY DEF Known
<1>3. ready \subseteq Functions /\ ready \cap k.analysed = {} /\ added \subseteq ready
  OBVIOUS
<1>4. \A f \in A : f \in Functions /\ Callees(f) \subseteq k.analysed
  BY <1>2
<1>5. \A f \in ready : f \in E <=> Parameter \in Escaped(f, k.escapes)
  BY <1>2
<1>6. \A f \in k.analysed : f \in E <=> Parameter \in Escaped(f, k.escapes)
  BY <1>2
<1> HIDE DEF n, ready, added
<1>7. ASSUME NEW f \in A
      PROVE  Escaped(f, E) = Escaped(f, k.escapes)
  <2>1. f \in Functions /\ Callees(f) \subseteq k.analysed
    BY <1>4
  <2>2. E \cap Callees(f) \subseteq k.escapes
    BY <1>3, <2>1
  <2>3. k.escapes \cap Callees(f) \subseteq E
    OBVIOUS
  <2> HIDE DEF E
  <2>4. Escaped(f, E) \subseteq Escaped(f, k.escapes)
    BY <2>1, <2>2, EscapedGrows
  <2>5. Escaped(f, k.escapes) \subseteq Escaped(f, E)
    BY <2>1, <2>3, EscapedGrows
  <2> QED BY <2>4, <2>5
<1>8. \A f \in A : f \in E <=> Parameter \in Escaped(f, E)
  <2> HIDE DEF E
  <2> QED BY <1>5, <1>6, <1>7
<1>9. E \subseteq A /\ A \subseteq Functions /\ E \subseteq Functions
  BY <1>2, <1>3
<1>10. \A f \in A : Callees(f) \subseteq A
  BY <1>4
<1> HIDE DEF A, E
<1>11. n \in [analysed : SUBSET Functions, escapes : SUBSET Functions]
       /\ n.analysed = A /\ n.escapes = E
  BY <1>1, <1>9
<1> QED BY <1>8, <1>9, <1>10, <1>11 DEF Known, n

LEMMA SummariesFacts ==
  ASSUME TypedCode
  PROVE  /\ Summaries \in Known
         /\ \A f \in Functions : Callees(f) \subseteq Analysed => f \in Analysed
         /\ \A X : (\A f \in Functions : Callees(f) \subseteq X => f \in X)
                     => Analysed \subseteq X
         /\ \A X : (\A f \in Analysed : \A Y \in SUBSET X :
                       Parameter \in Escaped(f, Y) => f \in X)
                     => EscapesOf \subseteq X
<1> DEFINE N == Cardinality(Functions)
           grow(known) ==
              LET ready == {f \in Functions \ known.analysed : Callees(f) \subseteq known.analysed}
              IN  [analysed |-> known.analysed \cup ready,
                   escapes  |-> known.escapes \cup
                      {f \in ready : Parameter \in Escaped(f, known.escapes)}]
           start == [analysed |-> {}, escapes |-> {}]
           S == Known
           g == [k \in S |-> QueueRound(k)]
           build(r) == [n \in 0 .. N |-> IF n = 0 THEN start ELSE grow(r[n - 1])]
           found == CHOOSE r : r = build(r)
<1>1. IsFiniteSet(Functions) /\ N \in Nat /\ N <= N
  BY EscapeAssumption, FS_CardinalityType
<1>2. Summaries = found[N]
  BY DEF Summaries, Iterated
<1>3. \A k : grow(k) = QueueRound(k)
  BY DEF QueueRound
<1>4. start \in S
  BY DEF Known
<1>5. g \in [S -> S]
  BY QueueRoundKnown
<1> HIDE DEF N, S, start, grow
<1>6. PICK r \in [0 .. N -> S] : Rounds(r, N, start, g)
  <2> HIDE DEF g
  <2> QED BY ONLY <1>1, <1>4, <1>5, RoundsExist
<1>7. found = build(found)
  <2>1. \A n \in 1 .. N : r[n - 1] \in S
    BY <1>1
  <2>2. \A n \in 1 .. N : r[n] = grow(r[n - 1])
    BY <1>3, <1>6, <2>1 DEF Rounds
  <2>3. r = build(r)
    BY <1>1, <1>6, <2>2 DEF Rounds
  <2> HIDE DEF build
  <2> QED BY <2>3 DEF build
<1> HIDE DEF found
<1>8. found[0] = start /\ \A n \in 1 .. N : found[n] = QueueRound(found[n - 1])
  <2>1. 0 \in 0 .. N /\ \A n \in 1 .. N : n \in 0 .. N /\ n # 0
    BY <1>1
  <2>2. \A n \in 0 .. N : build(found)[n] = IF n = 0 THEN start ELSE grow(found[n - 1])
    OBVIOUS
  <2> HIDE DEF build
  <2>3. \A n \in 0 .. N : found[n] = IF n = 0 THEN start ELSE grow(found[n - 1])
    BY <1>7, <2>2
  <2>4. \A n \in 1 .. N : found[n] = grow(found[n - 1])
    BY <2>1, <2>3
  <2>5. found[0] = start
    BY <2>1, <2>3
  <2> QED BY <1>3, <2>4, <2>5
<1>9. \A n \in 0 .. N : found[n] \in S
  <2>1. \A n \in 1 .. N : found[n - 1] \in S => found[n] \in S
    BY <1>8, QueueRoundKnown DEF S
  <2>2. found[0] \in S
    BY <1>4, <1>8
  <2> QED BY ONLY <1>1, <2>1, <2>2, RoundsStay
<1>10. N \in 0 .. N
  BY <1>1
\* The functions analysed grow by a rule of their own.
<1>11. \A f \in Functions : Callees(f) \subseteq found[N].analysed => f \in found[N].analysed
  <2> DEFINE more(X) == X \cup {f \in Functions : Callees(f) \subseteq X}
             h == [X \in SUBSET Functions |-> more(X)]
             q == [n \in 0 .. N |-> found[n].analysed]
  <2>1. Adds(h, Functions)
    BY DEF Adds
  <2>2. q \in [0 .. N -> SUBSET Functions]
    BY <1>9 DEF S, Known
  <2>3. ASSUME NEW n \in 1 .. N PROVE q[n] = h[q[n - 1]]
    <3>1. n \in 0 .. N /\ n - 1 \in 0 .. N
      BY <1>1
    <3>2. q[n] = found[n].analysed /\ q[n - 1] = found[n - 1].analysed
      BY <3>1
    <3>3. found[n] = QueueRound(found[n - 1])
      BY <1>8
    <3>4. \A k : QueueRound(k).analysed = more(k.analysed)
      BY DEF QueueRound
    <3>5. q[n - 1] \in SUBSET Functions
      BY <2>2, <3>1
    <3> HIDE DEF q, more
    <3> QED BY <3>2, <3>3, <3>4, <3>5
  <2>4. Rounds(q, N, q[0], h)
    <3> HIDE DEF q, h
    <3> QED BY <2>3 DEF Rounds
  <2>5. Settled(q, N, h)
    <3> HIDE DEF q, h
    <3> QED BY ONLY <1>1, <2>1, <2>2, <2>4, RoundsEnd DEF N
  <2>6. q[N] = found[N].analysed /\ q[N] \in SUBSET Functions
    BY <1>10, <2>2
  <2> HIDE DEF q
  <2>7. more(q[N]) = q[N]
    BY <2>5, <2>6 DEF Settled
  <2> QED BY <2>6, <2>7
<1>12. ASSUME NEW X, \A f \in Functions : Callees(f) \subseteq X => f \in X
       PROVE  found[N].analysed \subseteq X
  <2> DEFINE W == {k \in S : k.analysed \subseteq X}
  <2>1. ASSUME NEW n \in 1 .. N, found[n - 1] \in W PROVE found[n] \in W
    <3>1. n \in 0 .. N /\ found[n] \in S
      BY <1>1, <1>9
    <3>2. found[n] = QueueRound(found[n - 1])
      BY <1>8
    <3>3. \A k : k.analysed \subseteq X => QueueRound(k).analysed \subseteq X
      BY <1>12 DEF QueueRound
    <3> QED BY <2>1, <3>1, <3>2, <3>3
  <2>2. found[0] \in W
    BY <1>4, <1>8 DEF start
  <2> HIDE DEF W
  <2>3. \A n \in 0 .. N : found[n] \in W
    BY ONLY <1>1, <2>1, <2>2, RoundsStay
  <2> QED BY <1>10, <2>3 DEF W
<1>13. ASSUME NEW X, \A f \in found[N].analysed : \A Y \in SUBSET X :
                        Parameter \in Escaped(f, Y) => f \in X
       PROVE  found[N].escapes \subseteq X
  <2> DEFINE T == found[N].analysed
             W == {k \in S : k.analysed \subseteq T => k.escapes \subseteq X}
  <2>1. ASSUME NEW n \in 1 .. N, found[n - 1] \in W PROVE found[n] \in W
    <3>1. n \in 0 .. N /\ found[n] \in S
      BY <1>1, <1>9
    <3>2. found[n] = QueueRound(found[n - 1])
      BY <1>8
    <3>3. ASSUME NEW k, k.analysed \subseteq T => k.escapes \subseteq X,
                 QueueRound(k).analysed \subseteq T
          PROVE  QueueRound(k).escapes \subseteq X
      <4>1. k.analysed \subseteq T /\ k.escapes \in SUBSET X
        BY <3>3 DEF QueueRound
      <4>2. \A f \in QueueRound(k).escapes :
               f \in k.escapes \/ (f \in QueueRound(k).analysed /\ Parameter \in Escaped(f, k.escapes))
        BY DEF QueueRound
      <4> QED BY <1>13, <3>3, <4>1, <4>2
    <3> HIDE DEF T
    <3> QED BY <2>1, <3>1, <3>2, <3>3
  <2>2. found[0] \in W
    BY <1>4, <1>8 DEF start
  <2> HIDE DEF W
  <2>3. \A n \in 0 .. N : found[n] \in W
    BY ONLY <1>1, <2>1, <2>2, RoundsStay
  <2> QED BY <1>10, <2>3 DEF W
<1> QED BY <1>2, <1>9, <1>10, <1>11, <1>12, <1>13 DEF S, Analysed, EscapesOf

-----------------------------------------------------------------------------
(* What an execution needs of the analysis. *)

\* the functions whose parameter may escape, known or not
Escapes == EscapesOf \cup (Functions \ Analysed)

\* The analysis of a program, as a value.
Analysis ==
  [code    |-> code,
   facts   |-> [f \in Functions |-> Facts(f)],
   edges   |-> [f \in Functions |-> Edges(f, Facts(f))],
   escaped |-> [f \in Functions |-> Escaped(f, Escapes)],
   escapes |-> Escapes,
   readOut |-> [f \in Functions |-> ReadOut(f)],
   plan    |-> Plan]

\* what the value of an operation may be, in the analysis a
Sources(a, f, o) == OperandFacts(a.facts[f], o.value)

\* what the analysis says of an operation of f
SoundOperation(a, f, o) ==
  LET target == a.facts[f][o.to.local]
      sources == Sources(a, f, o)
  IN  /\ WellFormed(o)
      /\ o.kind = "struct" => o \in target /\ {o} \X sources \subseteq a.edges[f]
      /\ o.kind = "copy" =>
            /\ sources \subseteq target
            /\ o.value.depth = 1 \/ o.value.local \in a.readOut[f] => o.to.local \in a.readOut[f]
      /\ o.kind = "assign" =>
            /\ target \X sources \subseteq a.edges[f]
            /\ target \cap {Parameter, ExternalHeap} # {} => sources \subseteq a.escaped[f]
      /\ o.kind = "call" =>
            /\ o.callee \in Functions \ {Main}
            /\ ExternalHeap \in target
            /\ o.callee \in a.escapes => sources \subseteq a.escaped[f]
      /\ o.kind = "return" => sources \subseteq a.escaped[f]
      /\ o.kind = "retain" => f \in a.escapes /\ a.plan[f] = {}

\* and of f
SoundFunction(a, f) ==
  /\ f # Main => Parameter \in a.facts[f][Param]
  /\ \E T : IsFiniteSet(T) /\ \A e \in a.edges[f] : e[2] \in T
  /\ \A e \in a.edges[f] : e[1] \in a.escaped[f] => e[2] \in a.escaped[f]
  /\ f \notin a.escapes => Parameter \notin a.escaped[f]
  /\ a.plan[f] \subseteq a.code[f] \ a.escaped[f]
  /\ \A s \in a.code[f] : s.kind = "struct" /\ s \notin a.plan[f]
                            => s \in a.escaped[f] \/ (f \in a.escapes /\ a.plan[f] = {})

Sound(a) == \A f \in Functions : SoundFunction(a, f)
                                   /\ \A o \in a.code[f] : SoundOperation(a, f, o)

\* The queue's summaries and the plan, function by function.
LEMMA PlanFacts ==
  ASSUME TypedCode
  PROVE  \A f \in Functions :
            /\ f \notin Escapes => Parameter \notin Escaped(f, Escapes)
            /\ f \in Containers => f \in Escapes
            /\ Plan[f] = IF f \in Analysed /\ f \notin Containers
                         THEN Sites(f) \ Escaped(f, Escapes) ELSE {}
            /\ f \notin Analysed => f \in Escapes
<1> SUFFICES ASSUME NEW f \in Functions
             PROVE  /\ f \notin Escapes => Parameter \notin Escaped(f, Escapes)
                    /\ f \in Containers => f \in Escapes
                    /\ Plan[f] = IF f \in Analysed /\ f \notin Containers
                                 THEN Sites(f) \ Escaped(f, Escapes) ELSE {}
                    /\ f \notin Analysed => f \in Escapes
  OBVIOUS
<1>1. /\ EscapesOf \subseteq Analysed
      /\ \A g \in Analysed : /\ Callees(g) \subseteq Analysed
                             /\ g \in EscapesOf <=> Parameter \in Escaped(g, EscapesOf)
  BY SummariesFacts DEF Known, Analysed, EscapesOf
<1>2. ASSUME f \in Analysed
      PROVE  Escaped(f, Escapes) \subseteq Escaped(f, EscapesOf)
  <2>1. Escapes \cap Callees(f) \subseteq EscapesOf
    BY <1>1, <1>2 DEF Escapes
  <2> QED BY <2>1, EscapedGrows
<1>3. f \notin Escapes => Parameter \notin Escaped(f, Escapes)
  BY <1>1, <1>2 DEF Escapes
<1>4. f \in Containers => f \in Escapes
  <2> SUFFICES ASSUME f \in Containers, f \in Analysed PROVE f \in EscapesOf
    BY DEF Escapes
  <2>1. Parameter \in EscapedDirectly(f, Facts(f), EscapesOf)
    BY DEF EscapedDirectly
  <2>2. Parameter \in Escaped(f, EscapesOf)
    BY <2>1, EscapedFacts
  <2> QED BY <1>1, <2>2
<1>5. Plan[f] = IF f \in Analysed /\ f \notin Containers
                THEN Sites(f) \ Escaped(f, Escapes) ELSE {}
  BY DEF Plan, InScope, Escapes, Analysed, EscapesOf
<1> QED BY <1>3, <1>4, <1>5 DEF Escapes

LEMMA AnalysisSound ==
  ASSUME TypedCode
  PROVE  Sound(Analysis)
<1> SUFFICES ASSUME NEW f \in Functions
             PROVE  SoundFunction(Analysis, f)
                      /\ \A o \in Analysis.code[f] : SoundOperation(Analysis, f, o)
  BY DEF Sound
<1> DEFINE a == Analysis
           X == Escaped(f, Escapes)
           F == Facts(f)
           E == Edges(f, F)
           R == ReadOut(f)
<1>1. /\ a.code = code /\ a.facts[f] = F /\ a.edges[f] = E /\ a.escaped[f] = X
      /\ a.escapes = Escapes /\ a.readOut[f] = R /\ a.plan = Plan
  BY DEF Analysis
<1>2. /\ EscapedDirectly(f, F, Escapes) \subseteq X
      /\ \A e \in E : e[1] \in X => e[2] \in X
  BY EscapedFacts DEF EscapedClosed
<1>3. \E T : IsFiniteSet(T) /\ \A e \in E : e[2] \in T
  BY SeedsAndCopies, EdgesFacts
<1>4. FactsClosed(f, F)
  BY FactsFacts
<1>5. ReadOutClosed(f, R)
  BY ReadOutFacts
<1>6. /\ f \notin Escapes => Parameter \notin X
      /\ f \in Containers => f \in Escapes
      /\ Plan[f] = IF f \in Analysed /\ f \notin Containers THEN Sites(f) \ X ELSE {}
      /\ f \notin Analysed => f \in Escapes
  BY PlanFacts
<1> HIDE DEF a, X, F, E, R
<1>7. SoundFunction(a, f)
  <2>1. f # Main => Parameter \in F[Param]
    BY <1>4, EscapeAssumption DEF FactsClosed, Seeds
  <2>2. a.plan[f] \subseteq a.code[f] \ a.escaped[f]
    BY <1>1, <1>6 DEF Sites, OfKind
  <2>3. \A s \in a.code[f] : s.kind = "struct" /\ s \notin a.plan[f]
                            => s \in a.escaped[f] \/ (f \in a.escapes /\ a.plan[f] = {})
    BY <1>1, <1>6 DEF Sites, OfKind
  <2> QED BY <1>1, <1>2, <1>3, <1>6, <2>1, <2>2, <2>3 DEF SoundFunction
<1>8. ASSUME NEW o \in a.code[f]
      PROVE  SoundOperation(a, f, o)
  <2>1. o \in code[f]
    BY <1>1
  <2>2. /\ WellFormed(o)
        /\ o.kind = "call" => o.callee \in Functions \ {Main}
        /\ o.kind = "retain" => f \in Containers
    BY <2>1, CodeWellFormed
  <2> DEFINE target == F[o.to.local]
             sources == OperandFacts(F, o.value)
  <2>3. Leaks(f, F, Escapes) \subseteq X
    BY <1>2 DEF EscapedDirectly
  <2>a. o.kind = "struct" => o \in target /\ {o} \X sources \subseteq E
    <3> SUFFICES ASSUME o.kind = "struct" PROVE o \in target /\ {o} \X sources \subseteq E
      OBVIOUS
    <3>1. o \in Sites(f) /\ o.to.local \in Locals
      BY <2>1, <2>2 DEF Sites, OfKind, WellFormed
    <3>2. o \in Seeds(f, o.to.local)
      BY <3>1 DEF Seeds
    <3>3. {o} \X sources \subseteq E
      BY <3>1 DEF Edges, E
    <3> QED BY <1>4, <3>1, <3>2, <3>3 DEF FactsClosed
  <2>b. o.kind = "copy" =>
            /\ sources \subseteq target
            /\ o.value.depth = 1 \/ o.value.local \in R => o.to.local \in R
    BY <1>4, <1>5, <2>1 DEF FactsClosed, ReadOutClosed, OperandFacts
  <2>c. o.kind = "assign" =>
            /\ target \X sources \subseteq E
            /\ target \cap {Parameter, ExternalHeap} # {} => sources \subseteq X
    <3> SUFFICES ASSUME o.kind = "assign"
                 PROVE  /\ target \X sources \subseteq E
                        /\ target \cap {Parameter, ExternalHeap} # {} => sources \subseteq X
      OBVIOUS
    <3>1. o \in OfKind(f, {"assign"})
      BY <2>1 DEF OfKind
    <3>2. target \X sources \subseteq E
      BY <3>1 DEF Edges, E
    <3>3. target \cap {Parameter, ExternalHeap} # {} => sources \subseteq Leaks(f, F, Escapes)
      BY <3>1 DEF Leaks
    <3> QED BY <2>3, <3>2, <3>3
  <2>d. o.kind = "call" => ExternalHeap \in target /\ (o.callee \in Escapes => sources \subseteq X)
    <3> SUFFICES ASSUME o.kind = "call"
                 PROVE  ExternalHeap \in target /\ (o.callee \in Escapes => sources \subseteq X)
      OBVIOUS
    <3>1. o \in OfKind(f, {"call"}) /\ o.to.local \in Locals
      BY <2>1, <2>2 DEF OfKind, WellFormed
    <3>2. ExternalHeap \in Seeds(f, o.to.local)
      BY <3>1 DEF Seeds
    <3>3. o.callee \in Escapes => sources \subseteq Leaks(f, F, Escapes)
      BY <3>1 DEF Leaks
    <3> QED BY <1>4, <2>3, <3>1, <3>2, <3>3 DEF FactsClosed
  <2>e. o.kind = "return" => sources \subseteq X
    <3> SUFFICES ASSUME o.kind = "return" PROVE sources \subseteq X
      OBVIOUS
    <3>1. o \in OfKind(f, {"return"})
      BY <2>1 DEF OfKind
    <3>2. sources \subseteq Leaks(f, F, Escapes)
      BY <3>1 DEF Leaks
    <3> QED BY <2>3, <3>2
  <2>f. o.kind = "retain" => f \in Escapes /\ Plan[f] = {}
    BY <1>6, <2>2
  <2> QED BY <1>1, <2>2, <2>a, <2>b, <2>c, <2>d, <2>e, <2>f DEF SoundOperation, Sources
<1> QED BY <1>7, <1>8 DEF a

\* The analysis b of a program that has the operations of another, a, and more.
Grows(a, b) ==
  \A f \in Functions :
     /\ a.code[f] \subseteq b.code[f]
     /\ \A l \in Locals : a.facts[f][l] \subseteq b.facts[f][l]
     /\ a.edges[f] \subseteq b.edges[f]
     /\ a.readOut[f] \subseteq b.readOut[f]
     /\ \A s \in a.code[f] : s.kind = "struct" /\ s \in b.plan[f] => s \in a.plan[f]

\* What has been shown of the fixed points, for the program of the next state.
FixedPoints ==
  /\ \A f \in Functions :
        /\ FactsClosed(f, Facts(f)) /\ ReadOutClosed(f, ReadOut(f))
        /\ EscapedDirectly(f, Facts(f), EscapesOf) \subseteq Escaped(f, EscapesOf)
        /\ EscapedClosed(f, Escaped(f, EscapesOf))
        /\ EscapedDirectly(f, Facts(f), Escapes) \subseteq Escaped(f, Escapes)
        /\ EscapedClosed(f, Escaped(f, Escapes))
        /\ Plan[f] = IF f \in Analysed /\ f \notin Containers
                     THEN Sites(f) \ Escaped(f, Escapes) ELSE {}
  /\ \A f \in Analysed : /\ f \in Functions
                         /\ Callees(f) \subseteq Analysed
                         /\ Parameter \in Escaped(f, EscapesOf) => f \in EscapesOf
  /\ \A X : (\A f \in Functions : Callees(f) \subseteq X => f \in X) => Analysed \subseteq X

LEMMA FixedPointsHold == TypedCode => FixedPoints
<1> SUFFICES ASSUME TypedCode PROVE FixedPoints
  OBVIOUS
<1>1. \A f \in Analysed : /\ f \in Functions
                          /\ Callees(f) \subseteq Analysed
                          /\ Parameter \in Escaped(f, EscapesOf) => f \in EscapesOf
  BY SummariesFacts DEF Known, Analysed, EscapesOf
<1> QED BY <1>1, FactsFacts, ReadOutFacts, EscapedFacts, PlanFacts, SummariesFacts DEF FixedPoints

LEMMA FixedPointsNext == TypedCode' => FixedPoints'
BY FixedPointsHold, PTL

\* What a set of operations lets escape.
Leaking(ops, facts, escapes) ==
  {o \in ops : \/ o.kind = "return"
               \/ o.kind = "assign" /\ facts[o.to.local] \cap {Parameter, ExternalHeap} # {}
               \/ o.kind = "call" /\ o.callee \in escapes}
LeakedBy(ops, facts, escapes) ==
  UNION {OperandFacts(facts, o.value) : o \in Leaking(ops, facts, escapes)}

LEMMA LeaksAreLeaked ==
  ASSUME NEW f, NEW facts, NEW Y
  PROVE  Leaks(f, facts, Y) = LeakedBy(code[f], facts, Y)
<1>1. OfKind(f, {"return"})
        \cup {o \in OfKind(f, {"assign"}) : facts[o.to.local] \cap {Parameter, ExternalHeap} # {}}
        \cup {o \in OfKind(f, {"call"}) : o.callee \in Y}
      = Leaking(code[f], facts, Y)
  BY DEF OfKind, Leaking
<1> QED BY <1>1 DEF Leaks, LeakedBy

LEMMA LeakedGrows ==
  ASSUME NEW ops, NEW more, ops \subseteq more, \A o \in ops : WellFormed(o),
         NEW F, NEW G, \A l \in Locals : F[l] \subseteq G[l],
         NEW Y, NEW Z, \A o \in ops : o.kind = "call" /\ o.callee \in Y => o.callee \in Z
  PROVE  LeakedBy(ops, F, Y) \subseteq LeakedBy(more, G, Z)
<1> SUFFICES ASSUME NEW o \in Leaking(ops, F, Y)
             PROVE  /\ o \in Leaking(more, G, Z)
                    /\ OperandFacts(F, o.value) \subseteq OperandFacts(G, o.value)
  BY DEF LeakedBy
<1>1. o \in ops /\ WellFormed(o)
  BY DEF Leaking
<1>2. OperandFacts(F, o.value) \subseteq OperandFacts(G, o.value)
  BY <1>1 DEF OperandFacts, WellFormed
<1>3. o \in Leaking(more, G, Z)
  <2>1. CASE o.kind = "return"
    BY <1>1, <2>1 DEF Leaking
  <2>2. CASE o.kind = "assign" /\ F[o.to.local] \cap {Parameter, ExternalHeap} # {}
    <3>1. o.to.local \in Locals
      BY <1>1, <2>2 DEF WellFormed
    <3> QED BY <1>1, <2>2, <3>1 DEF Leaking
  <2>3. CASE o.kind = "call" /\ o.callee \in Y
    BY <1>1, <2>3 DEF Leaking
  <2> QED BY <2>1, <2>2, <2>3 DEF Leaking
<1> QED BY <1>2, <1>3

\* The analysis grows with the program: nothing that was found is lost, and what
\* the plan places in the scoped arena was placed there before.
LEMMA AnalysisGrows ==
  ASSUME TypedCode, TypedCode', outline' = outline,
         \A f \in Functions : code[f] \subseteq code'[f]
  PROVE  Grows(Analysis, Analysis')
<1>1. \A f \in Functions : \A kinds : OfKind(f, kinds) \subseteq OfKind(f, kinds)'
  BY DEF OfKind
<1>2. FixedPoints'
  BY FixedPointsNext
<1>w. \A f \in Functions : \A o \in code[f] : /\ WellFormed(o)
                                              /\ o.kind = "call" => o.callee \in Functions
  BY CodeWellFormed
<1>3. \A f \in Functions : \A l \in Locals : Facts(f)[l] \subseteq Facts(f)'[l]
  <2> SUFFICES ASSUME NEW f \in Functions
               PROVE  \A l \in Locals : Facts(f)[l] \subseteq Facts(f)'[l]
    OBVIOUS
  <2>1. FactsClosed(f, Facts(f))'
    BY <1>2 DEF FixedPoints
  <2>2. \A l \in Locals : Seeds(f, l) \subseteq Seeds(f, l)'
    BY <1>1 DEF Seeds, Sites
  <2>3. FactsClosed(f, Facts(f)')
    BY <2>1, <2>2 DEF FactsClosed
  <2> QED BY <2>3, FactsFacts
<1>4. \A f \in Functions : ReadOut(f) \subseteq ReadOut(f)'
  <2> SUFFICES ASSUME NEW f \in Functions PROVE ReadOut(f) \subseteq ReadOut(f)'
    OBVIOUS
  <2>1. ReadOutClosed(f, ReadOut(f))'
    BY <1>2 DEF FixedPoints
  <2>2. ReadOutClosed(f, ReadOut(f)')
    BY <2>1 DEF ReadOutClosed
  <2> QED BY <2>2, ReadOutFacts
<1>o. \A f \in Functions : \A o \in code[f] :
         OperandFacts(Facts(f), o.value) \subseteq OperandFacts(Facts(f)', o.value)
  BY <1>3, <1>w DEF OperandFacts, WellFormed
<1>5. \A f \in Functions : Edges(f, Facts(f)) \subseteq Edges(f, Facts(f))'
  <2> SUFFICES ASSUME NEW f \in Functions, NEW e \in Edges(f, Facts(f))
               PROVE  e \in Edges(f, Facts(f))'
    OBVIOUS
  <2>1. CASE \E o \in Sites(f) : e \in {o} \X OperandFacts(Facts(f), o.value)
    <3>1. PICK o \in Sites(f) : e \in {o} \X OperandFacts(Facts(f), o.value)
      BY <2>1
    <3>2. o \in Sites(f)' /\ o \in code[f]
      BY <1>1 DEF Sites, OfKind
    <3>3. e \in {o} \X OperandFacts(Facts(f)', o.value)
      BY <1>o, <3>1, <3>2
    <3> QED BY <3>2, <3>3 DEF Edges
  <2>2. CASE \E o \in OfKind(f, {"assign"}) :
                e \in Facts(f)[o.to.local] \X OperandFacts(Facts(f), o.value)
    <3>1. PICK o \in OfKind(f, {"assign"}) :
                e \in Facts(f)[o.to.local] \X OperandFacts(Facts(f), o.value)
      BY <2>2
    <3>2. o \in OfKind(f, {"assign"})' /\ o \in code[f] /\ o.to.local \in Locals
      BY <1>1, <1>w DEF OfKind, WellFormed
    <3>3. e \in Facts(f)'[o.to.local] \X OperandFacts(Facts(f)', o.value)
      BY <1>3, <1>o, <3>1, <3>2
    <3> QED BY <3>2, <3>3 DEF Edges
  <2> QED BY <2>1, <2>2 DEF Edges
<1>6. \A f \in Functions : \A Y : Y \cap Callees(f) \subseteq EscapesOf' =>
         EscapedDirectly(f, Facts(f), Y) \subseteq EscapedDirectly(f, Facts(f), EscapesOf)'
  <2> SUFFICES ASSUME NEW f \in Functions, NEW Y, Y \cap Callees(f) \subseteq EscapesOf'
               PROVE  EscapedDirectly(f, Facts(f), Y) \subseteq EscapedDirectly(f, Facts(f), EscapesOf)'
    OBVIOUS
  <2> DEFINE F == Facts(f)
             G == Facts(f)'
             Z == EscapesOf'
  <2>1. Leaks(f, F, Y) = LeakedBy(code[f], F, Y)
    BY LeaksAreLeaked
  <2>2. Leaks(f, Facts(f), EscapesOf)' = LeakedBy(code'[f], G, Z)
    BY DEF Leaks, LeakedBy, Leaking, OfKind
  <2>3. \A o \in code[f] : o.kind = "call" /\ o.callee \in Y => o.callee \in Z
    BY DEF Callees, OfKind
  <2>4. code[f] \subseteq code'[f] /\ \A l \in Locals : F[l] \subseteq G[l]
    BY <1>3
  <2>5. \A o \in code[f] : WellFormed(o)
    BY <1>w
  <2> HIDE DEF F, G, Z
  <2>6. LeakedBy(code[f], F, Y) \subseteq LeakedBy(code'[f], G, Z)
    BY ONLY <2>3, <2>4, <2>5, LeakedGrows
  <2>7. Leaks(f, F, Y) \subseteq Leaks(f, Facts(f), EscapesOf)'
    BY <2>1, <2>2, <2>6
  <2>8. Containers' = Containers
    BY DEF Containers
  <2> QED BY <2>7, <2>8 DEF EscapedDirectly, F
<1>7. \A f \in Functions : Callees(f) \subseteq Callees(f)'
  BY <1>1 DEF Callees
<1>8. Analysed' \subseteq Analysed
  <2>1. \A X : (\A f \in Functions : Callees(f)' \subseteq X => f \in X) => Analysed' \subseteq X
    BY <1>2 DEF FixedPoints
  <2>2. \A f \in Functions : Callees(f)' \subseteq Analysed => f \in Analysed
    BY <1>7, SummariesFacts
  <2> QED BY <2>1, <2>2
\* A set that is closed in the next state is closed in this one.
<1>9. \A f \in Functions : /\ EscapedClosed(f, Escaped(f, EscapesOf)')
                          /\ EscapedClosed(f, Escaped(f, Escapes)')
  BY <1>2, <1>5 DEF FixedPoints, EscapedClosed
<1>10. EscapesOf \subseteq Escapes'
  <2>1. ASSUME NEW f \in Analysed, NEW Y \in SUBSET Escapes', Parameter \in Escaped(f, Y)
        PROVE  f \in Escapes'
    <3>1. f \in Functions
      BY SummariesFacts DEF Known, Analysed
    <3>2. CASE f \notin Analysed'
      BY <3>1, <3>2 DEF Escapes
    <3>3. CASE f \in Analysed'
      <4>1. Callees(f) \subseteq Analysed'
        BY <1>2, <1>7, <3>1, <3>3 DEF FixedPoints
      <4>2. Y \cap Callees(f) \subseteq EscapesOf'
        BY <4>1 DEF Escapes
      <4>3. EscapedDirectly(f, Facts(f), Y) \subseteq EscapedDirectly(f, Facts(f), EscapesOf)'
        BY <1>6, <3>1, <4>2
      <4>4. EscapedDirectly(f, Facts(f), Y) \subseteq Escaped(f, EscapesOf)'
        BY <1>2, <3>1, <4>3 DEF FixedPoints
      <4>5. Escaped(f, Y) \subseteq Escaped(f, EscapesOf)'
        BY <1>9, <3>1, <4>4, EscapedFacts
      <4>6. f \in EscapesOf'
        BY <1>2, <2>1, <3>3, <4>5 DEF FixedPoints
      <4> QED BY <4>6 DEF Escapes
    <3> QED BY <3>2, <3>3
  <2>2. \A f \in Analysed : \A Y \in SUBSET Escapes' : Parameter \in Escaped(f, Y) => f \in Escapes'
    BY <2>1
  <2> QED BY <2>2, SummariesFacts
<1>11. Escapes \subseteq Escapes'
  BY <1>8, <1>10 DEF Escapes
<1>12. Containers' = Containers
  BY DEF Containers
<1>13. \A f \in Functions : Escaped(f, Escapes) \subseteq Escaped(f, Escapes)'
  <2> SUFFICES ASSUME NEW f \in Functions
               PROVE  Escaped(f, Escapes) \subseteq Escaped(f, Escapes)'
    OBVIOUS
  <2> DEFINE F == Facts(f)
             G == Facts(f)'
             Y == Escapes
             Z == Escapes'
  <2>1. Leaks(f, F, Y) = LeakedBy(code[f], F, Y)
    BY LeaksAreLeaked
  <2>2. Leaks(f, Facts(f), Escapes)' = LeakedBy(code'[f], G, Z)
    BY DEF Leaks, LeakedBy, Leaking, OfKind
  <2>3. \A o \in code[f] : o.kind = "call" /\ o.callee \in Y => o.callee \in Z
    BY <1>11
  <2>4. code[f] \subseteq code'[f] /\ \A l \in Locals : F[l] \subseteq G[l]
    BY <1>3
  <2>5. \A o \in code[f] : WellFormed(o)
    BY <1>w
  <2> HIDE DEF F, G, Y, Z
  <2>6. LeakedBy(code[f], F, Y) \subseteq LeakedBy(code'[f], G, Z)
    BY ONLY <2>3, <2>4, <2>5, LeakedGrows
  <2>7. Leaks(f, F, Y) \subseteq Leaks(f, Facts(f), Escapes)'
    BY <2>1, <2>2, <2>6
  <2>8. EscapedDirectly(f, Facts(f), Escapes) \subseteq EscapedDirectly(f, Facts(f), Escapes)'
    BY <1>12, <2>7 DEF EscapedDirectly, F, Y
  <2>9. EscapedDirectly(f, Facts(f), Escapes) \subseteq Escaped(f, Escapes)'
    BY <1>2, <2>8 DEF FixedPoints
  <2> QED BY <1>9, <2>9, EscapedFacts
<1>14. \A f \in Functions : \A s \in code[f] : s.kind = "struct" /\ s \in Plan'[f] => s \in Plan[f]
  <2> SUFFICES ASSUME NEW f \in Functions, NEW s \in code[f], s.kind = "struct", s \in Plan'[f]
               PROVE  s \in Plan[f]
    OBVIOUS
  <2>1. Plan'[f] = IF f \in Analysed' /\ f \notin Containers'
                   THEN Sites(f)' \ Escaped(f, Escapes)' ELSE {}
    BY <1>2 DEF FixedPoints
  <2>2. f \in Analysed' /\ f \notin Containers' /\ s \notin Escaped(f, Escapes)'
    BY <2>1
  <2>3. f \in Analysed /\ f \notin Containers /\ s \notin Escaped(f, Escapes)
    BY <1>8, <1>12, <1>13, <2>2
  <2>4. s \in Sites(f)
    BY DEF Sites, OfKind
  <2> QED BY <2>3, <2>4, PlanFacts
<1> QED BY <1>3, <1>4, <1>5, <1>14 DEF Grows, Analysis

-----------------------------------------------------------------------------
(* Executions.  The invariant is stated of an analysis a, of the objects obs    *)
(* and of the frames stk, so that the growth of the program and the step that   *)
(* its new operation takes are two lemmas.                                      *)

\* What an object is called in frame i: by the operation that allocated it in
\* the frame that did, and in the frames above that it was passed to, Parameter.
Origin(obs, i, z) == IF obs[z].frame = i THEN obs[z].site ELSE Parameter

\* What the owners in S may come to own, by the stores of f.
Reach(a, f, S) == Closure(a.edges[f], S)

InArena(a, obs, z) == obs[z].site \in a.plan[obs[z].fn]

\* The calls between the frame that allocated z and frame i each passed a
\* parameter through which z may be reached.
PassedDown(a, obs, stk, z, i) ==
  \A m \in obs[z].frame + 1 .. i :
     \E c \in a.code[stk[m - 1].fn] :
        /\ c.kind = "call" /\ c.callee = stk[m].fn
        /\ Origin(obs, m - 1, z) \in
              Reach(a, stk[m - 1].fn, a.facts[stk[m - 1].fn][c.value.local])

\* If z is in the arena, the analysis of frame i knows of it: z is reached there
\* from the origins in S.
Seen(a, obs, stk, z, i, S) ==
  InArena(a, obs, z) =>
     /\ obs[z].frame \in 1 .. i
     /\ PassedDown(a, obs, stk, z, i)
     /\ Origin(obs, i, z) \in Reach(a, stk[i].fn, S)

\* Types, and which function and operation an object comes from.
ObjectsOK(a, obs, stk) ==
  /\ Len(obs) \in Nat
  /\ \A x \in 1 .. Len(obs) :
        /\ obs[x].fn \in Functions
        /\ obs[x].site \in a.code[obs[x].fn] /\ obs[x].site.kind = "struct"
        /\ obs[x].frame \in 0 .. Len(stk)
        /\ obs[x].frame # 0 => stk[obs[x].frame].fn = obs[x].fn
        /\ obs[x].next \in {None} \cup 1 .. Len(obs)

FramesOK(a, obs, stk) ==
  /\ Len(stk) \in Nat \ {0}
  /\ \A i \in 1 .. Len(stk) :
        /\ stk[i].fn \in Functions
        /\ \A l \in Locals : stk[i].env[l] \in {None} \cup 1 .. Len(obs)
        /\ i # 1 => /\ stk[i].result \in Locals
                    /\ \E c \in a.code[stk[i - 1].fn] :
                          c.kind = "call" /\ c.to.local = stk[i].result

\* No object of H, which holds all that the frames can reach, is in the arena
\* once its call has returned;
HeldOK(a, obs, stk, H) ==
  /\ H \subseteq 1 .. Len(obs)
  /\ \A i \in 1 .. Len(stk) : \A l \in Locals : stk[i].env[l] \in {None} \cup H
  /\ \A x \in H : obs[x].next \in {None} \cup H
  /\ \A x \in H : obs[x].frame = 0 => ~ InArena(a, obs, x)

\* what a local holds is seen from the facts of the local,
LocalsSeen(a, obs, stk) ==
  \A i \in 1 .. Len(stk) : \A l \in Locals :
     stk[i].env[l] # None => Seen(a, obs, stk, stk[i].env[l], i, a.facts[stk[i].fn][l])

\* what an object refers to is seen, in the frame that allocated it, from its
\* allocation,
MembersSeen(a, obs, stk, H) ==
  \A x \in H : obs[x].next # None =>
     Seen(a, obs, stk, obs[x].next, obs[x].frame, {obs[x].site})

\* and what a local holds that was not read out of a member is named by its facts.
DirectNamed(a, obs, stk) ==
  \A i \in 1 .. Len(stk) : \A l \in Locals \ a.readOut[stk[i].fn] :
     LET z == stk[i].env[l]
         facts == a.facts[stk[i].fn][l]
     IN  z # None => \/ facts \cap {Parameter, ExternalHeap} # {}
                     \/ obs[z].frame = i /\ obs[z].site \in facts

Placed(a, obs, stk, H) ==
  HeldOK(a, obs, stk, H) /\ LocalsSeen(a, obs, stk)
    /\ MembersSeen(a, obs, stk, H) /\ DirectNamed(a, obs, stk)

RunOK(a, obs, stk) == ObjectsOK(a, obs, stk) /\ FramesOK(a, obs, stk)

-----------------------------------------------------------------------------
(* What is reached, and what is not in the arena. *)

LEMMA ReachFacts ==
  ASSUME NEW a, Sound(a), NEW f, f \in Functions, NEW S
  PROVE  /\ S \subseteq Reach(a, f, S)
         /\ \A e \in a.edges[f] : e[1] \in Reach(a, f, S) => e[2] \in Reach(a, f, S)
         /\ \A X : S \subseteq X /\ (\A e \in a.edges[f] : e[1] \in X => e[2] \in X)
                     => Reach(a, f, S) \subseteq X
<1> DEFINE edges == a.edges[f]
<1>1. PICK T : IsFiniteSet(T) /\ \A e \in edges : e[2] \in T
  BY DEF Sound, SoundFunction
<1>2. Reach(a, f, S) = Closure(edges, S)
  BY DEF Reach
<1> HIDE DEF edges
<1>3. /\ S \subseteq Closure(edges, S)
      /\ \A e \in edges : e[1] \in Closure(edges, S) => e[2] \in Closure(edges, S)
      /\ \A X : S \subseteq X /\ (\A e \in edges : e[1] \in X => e[2] \in X)
                  => Closure(edges, S) \subseteq X
  BY ONLY <1>1, ClosureFacts
<1> QED BY <1>2, <1>3 DEF edges

\* What is reached from what is reached is reached.
LEMMA ReachWithin ==
  ASSUME NEW a, Sound(a), NEW f, f \in Functions, NEW S, NEW T, S \subseteq Reach(a, f, T)
  PROVE  Reach(a, f, S) \subseteq Reach(a, f, T)
<1> DEFINE X == Reach(a, f, T)
<1>1. \A e \in a.edges[f] : e[1] \in X => e[2] \in X
  BY ReachFacts
<1>2. S \subseteq X
  OBVIOUS
<1> HIDE DEF X
<1>3. Reach(a, f, S) \subseteq X
  BY <1>1, <1>2, ReachFacts
<1> QED BY <1>3 DEF X

\* What is reached from what escapes escapes.
LEMMA ReachEscapes ==
  ASSUME NEW a, Sound(a), NEW f, f \in Functions, NEW S, S \subseteq a.escaped[f]
  PROVE  Reach(a, f, S) \subseteq a.escaped[f]
<1>1. \A e \in a.edges[f] : e[1] \in a.escaped[f] => e[2] \in a.escaped[f]
  BY DEF Sound, SoundFunction
<1> QED BY <1>1, ReachFacts

\* What a call passes to a function whose parameter escapes, escapes.
LEMMA CallEscapes ==
  ASSUME NEW a, Sound(a), NEW f, f \in Functions, NEW c, c \in a.code[f], c.kind = "call",
         c.callee \in a.escapes
  PROVE  Reach(a, f, a.facts[f][c.value.local]) \subseteq a.escaped[f]
<1>1. SoundOperation(a, f, c)
  BY DEF Sound
<1>2. c.value # Constant /\ Sources(a, f, c) \subseteq a.escaped[f]
  BY <1>1 DEF SoundOperation, WellFormed
<1>3. a.facts[f][c.value.local] \subseteq a.escaped[f]
  BY <1>2 DEF Sources, OperandFacts
<1> QED BY <1>3, ReachEscapes

\* An object whose name in some frame escapes there is not in the arena: through
\* the calls that passed it down, it escapes where it was allocated.
LEMMA EscapedNotInArena ==
  ASSUME NEW a, Sound(a), NEW obs, NEW stk, RunOK(a, obs, stk),
         NEW z, z \in 1 .. Len(obs), NEW i, i \in 1 .. Len(stk),
         obs[z].frame \in 1 .. i, PassedDown(a, obs, stk, z, i),
         Origin(obs, i, z) \in a.escaped[stk[i].fn]
  PROVE  ~ InArena(a, obs, z)
<1> DEFINE j == obs[z].frame
           N == i - j
           P == {n \in 0 .. N : Origin(obs, i - n, z) \in a.escaped[stk[i - n].fn]}
<1>1. /\ Len(stk) \in Nat /\ \A k \in 1 .. Len(stk) : stk[k].fn \in Functions
      /\ stk[j].fn = obs[z].fn
  BY DEF RunOK, ObjectsOK, FramesOK
<1>2. j \in Nat /\ i \in Nat /\ N \in Nat /\ i - 0 = i /\ i - N = j
  BY <1>1
<1>3. 0 \in P
  BY <1>2
<1>4. ASSUME NEW n \in P, n < N
      PROVE  n + 1 \in P
  <2> DEFINE m == i - n
  <2>1. /\ m \in j + 1 .. i /\ m \in 1 .. Len(stk) /\ m - 1 \in 1 .. Len(stk)
        /\ i - (n + 1) = m - 1 /\ n + 1 \in 0 .. N /\ m # j
    <3>1. n \in 0 .. N /\ n < N
      BY <1>4
    <3>2. j \in 1 .. i /\ i \in 1 .. Len(stk) /\ Len(stk) \in Nat
      BY <1>1
    <3> HIDE DEF j, P
    <3> QED BY ONLY <3>1, <3>2, <1>2
  <2>2. Parameter \in a.escaped[stk[m].fn]
    BY <2>1 DEF Origin
  <2> HIDE DEF m
  <2>3. stk[m].fn \in a.escapes
    BY <1>1, <2>1, <2>2 DEF Sound, SoundFunction
  <2>4. PICK c \in a.code[stk[m - 1].fn] :
           /\ c.kind = "call" /\ c.callee = stk[m].fn
           /\ Origin(obs, m - 1, z) \in
                 Reach(a, stk[m - 1].fn, a.facts[stk[m - 1].fn][c.value.local])
    BY <2>1 DEF PassedDown
  <2>5. Origin(obs, m - 1, z) \in a.escaped[stk[m - 1].fn]
    BY <1>1, <2>1, <2>3, <2>4, CallEscapes
  <2> QED BY <2>1, <2>5
<1>5. P \in SUBSET (0 .. N)
  OBVIOUS
<1> HIDE DEF P
<1>6. P = 0 .. N
  BY ONLY <1>2, <1>3, <1>4, <1>5, UpTo
<1>7. N \in P
  BY <1>2, <1>6
<1>8. Origin(obs, j, z) \in a.escaped[stk[j].fn]
  BY <1>2, <1>7 DEF P
<1>9. obs[z].site \in a.escaped[obs[z].fn]
  BY <1>1, <1>8 DEF Origin
<1>10. obs[z].fn \in Functions
  BY DEF RunOK, ObjectsOK
<1> QED BY <1>9, <1>10 DEF InArena, Sound, SoundFunction

\* Nor is one that was passed to a frame whose function lets its parameter escape.
LEMMA PassedNotInArena ==
  ASSUME NEW a, Sound(a), NEW obs, NEW stk, RunOK(a, obs, stk),
         NEW z, z \in 1 .. Len(obs), NEW i, i \in 1 .. Len(stk),
         obs[z].frame \in 1 .. i, obs[z].frame # i, PassedDown(a, obs, stk, z, i),
         stk[i].fn \in a.escapes
  PROVE  ~ InArena(a, obs, z)
<1>1. Len(stk) \in Nat /\ \A k \in 1 .. Len(stk) : stk[k].fn \in Functions
  BY DEF RunOK, FramesOK
<1>2. i \in obs[z].frame + 1 .. i /\ i - 1 \in 1 .. Len(stk) /\ obs[z].frame \in 1 .. i - 1
  BY <1>1
<1>3. PICK c \in a.code[stk[i - 1].fn] :
           /\ c.kind = "call" /\ c.callee = stk[i].fn
           /\ Origin(obs, i - 1, z) \in
                 Reach(a, stk[i - 1].fn, a.facts[stk[i - 1].fn][c.value.local])
  BY <1>2 DEF PassedDown
<1>4. Origin(obs, i - 1, z) \in a.escaped[stk[i - 1].fn]
  BY <1>1, <1>2, <1>3, CallEscapes
<1>5. PassedDown(a, obs, stk, z, i - 1)
  <2>1. \A m \in obs[z].frame + 1 .. i - 1 : m \in obs[z].frame + 1 .. i
    BY <1>1
  <2> QED BY <2>1 DEF PassedDown
<1> QED BY <1>2, <1>4, <1>5, EscapedNotInArena

-----------------------------------------------------------------------------
(* What the program reads. *)

LEMMA Between ==
  ASSUME NEW n, n \in Nat, NEW j, j \in 0 .. n, NEW k, k \in 1 .. j
  PROVE  /\ j \in 1 .. n /\ j \in Nat /\ k \in Nat /\ k \in 1 .. n
         /\ 1 <= k /\ k <= j /\ j <= n /\ k # 0
<1>1. j \in Nat /\ j <= n
  OBVIOUS
<1> QED BY <1>1

\* An object that refers to one in the arena is itself in the arena.
LEMMA OwnerInArena ==
  ASSUME NEW a, Sound(a), NEW obs, NEW stk, RunOK(a, obs, stk),
         NEW H, Placed(a, obs, stk, H), NEW x, x \in H,
         obs[x].next # None, InArena(a, obs, obs[x].next)
  PROVE  InArena(a, obs, x)
<1> SUFFICES ASSUME ~ InArena(a, obs, x) PROVE FALSE
  OBVIOUS
<1> DEFINE z == obs[x].next
           j == obs[x].frame
           f == obs[x].fn
           s == obs[x].site
<1>1. x \in 1 .. Len(obs) /\ z \in 1 .. Len(obs)
  BY DEF Placed, HeldOK
<1>2. /\ f \in Functions /\ s \in a.code[f] /\ s.kind = "struct"
      /\ j \in 0 .. Len(stk)
      /\ j # 0 => stk[j].fn = f
      /\ obs[z].frame # 0 => stk[obs[z].frame].fn = obs[z].fn
      /\ Len(stk) \in Nat
  BY <1>1 DEF RunOK, ObjectsOK, FramesOK
<1>3. /\ obs[z].frame \in 1 .. j
      /\ PassedDown(a, obs, stk, z, j)
      /\ Origin(obs, j, z) \in Reach(a, stk[j].fn, {s})
  BY DEF Placed, MembersSeen, Seen
<1>4. j \in 1 .. Len(stk) /\ stk[j].fn = f /\ obs[z].frame # 0
  <2>1. j \in 1 .. Len(stk) /\ obs[z].frame # 0 /\ j # 0
    <3>1. Len(stk) \in Nat /\ j \in 0 .. Len(stk) /\ obs[z].frame \in 1 .. j
      BY <1>2, <1>3
    <3> HIDE DEF j, z
    <3>2. j \in 1 .. Len(stk) /\ 1 <= j /\ j \in Nat /\ obs[z].frame # 0
      BY ONLY <3>1, Between
    <3> QED BY ONLY <3>2
  <2> QED BY <1>2, <2>1
<1>5. s \in a.escaped[f] \/ (f \in a.escapes /\ a.plan[f] = {})
  BY <1>2 DEF InArena, Sound, SoundFunction
<1>6. CASE s \in a.escaped[f]
  <2>1. Origin(obs, j, z) \in a.escaped[stk[j].fn]
    BY <1>2, <1>3, <1>4, <1>6, ReachEscapes
  <2> QED BY <1>1, <1>3, <1>4, <2>1, EscapedNotInArena
<1>7. CASE f \in a.escapes /\ a.plan[f] = {}
  <2>1. CASE obs[z].frame = j
    BY <1>2, <1>4, <1>7, <2>1 DEF InArena
  <2>2. CASE obs[z].frame # j
    BY <1>1, <1>3, <1>4, <1>7, <2>2, PassedNotInArena
  <2> QED BY <2>1, <2>2
<1> QED BY <1>5, <1>6, <1>7

\* What is read out of a member is seen from the facts of the local it is read
\* through.
LEMMA MemberReadSeen ==
  ASSUME NEW a, Sound(a), NEW obs, NEW stk, RunOK(a, obs, stk),
         NEW H, Placed(a, obs, stk, H), NEW i, i \in 1 .. Len(stk), NEW l, l \in Locals,
         NEW y, y = stk[i].env[l], y # None, obs[y].next # None
  PROVE  Seen(a, obs, stk, obs[y].next, i, a.facts[stk[i].fn][l])
<1> DEFINE z == obs[y].next
           j == obs[y].frame
           S == a.facts[stk[i].fn][l]
<1> SUFFICES ASSUME InArena(a, obs, z)
             PROVE  /\ obs[z].frame \in 1 .. i
                    /\ PassedDown(a, obs, stk, z, i)
                    /\ Origin(obs, i, z) \in Reach(a, stk[i].fn, S)
  BY DEF Seen
<1>1. y \in H /\ y \in 1 .. Len(obs)
  BY DEF Placed, HeldOK
<1>2. InArena(a, obs, y)
  BY <1>1, OwnerInArena
<1>3. Len(stk) \in Nat /\ \A k \in 1 .. Len(stk) : stk[k].fn \in Functions
  BY DEF RunOK, FramesOK
<1>4. /\ j \in 1 .. i
      /\ PassedDown(a, obs, stk, y, i)
      /\ Origin(obs, i, y) \in Reach(a, stk[i].fn, S)
  BY <1>2 DEF Placed, LocalsSeen, Seen
<1>5. /\ obs[z].frame \in 1 .. j
      /\ PassedDown(a, obs, stk, z, j)
      /\ Origin(obs, j, z) \in Reach(a, stk[j].fn, {obs[y].site})
  BY <1>1 DEF Placed, MembersSeen, Seen
<1>6. /\ i \in Nat /\ j \in Nat /\ obs[z].frame \in Nat /\ obs[z].frame <= j /\ 1 <= j /\ j <= i
      /\ 1 <= obs[z].frame /\ i <= Len(stk)
  <2>1. i \in 0 .. Len(stk)
    BY <1>3
  <2>2. i \in Nat /\ i <= Len(stk) /\ j \in Nat /\ 1 <= j /\ j <= i
    BY ONLY <1>3, <1>4, <2>1, Between
  <2>3. j \in 0 .. Len(stk)
    BY ONLY <1>3, <2>2
  <2>4. obs[z].frame \in Nat /\ 1 <= obs[z].frame /\ obs[z].frame <= j
    BY ONLY <1>3, <1>5, <2>3, Between
  <2> QED BY <2>2, <2>4
<1> HIDE DEF j, S
\* Wherever the owner is reached, so is what it owns.
<1>7. ASSUME NEW m \in j .. i, NEW T, Origin(obs, m, y) \in Reach(a, stk[m].fn, T)
      PROVE  Origin(obs, m, z) \in Reach(a, stk[m].fn, T)
  <2>1. CASE m = j
    <3>1. Origin(obs, m, y) = obs[y].site
      BY <2>1 DEF Origin, j
    <3>2. stk[j].fn \in Functions
      BY <1>3, <1>6
    <3>3. Reach(a, stk[j].fn, {obs[y].site}) \subseteq Reach(a, stk[j].fn, T)
      BY <1>7, <2>1, <3>1, <3>2, ReachWithin
    <3> QED BY <1>5, <2>1, <3>3
  <2>2. CASE m # j
    <3>1. obs[y].frame # m
      BY <2>2 DEF j
    <3>2. obs[z].frame # m
      BY <1>6, <2>2
    <3> QED BY <1>7, <3>1, <3>2 DEF Origin
  <2> QED BY <2>1, <2>2
<1>8. obs[z].frame \in 1 .. i
  BY <1>6
<1>9. ASSUME NEW m \in obs[z].frame + 1 .. i
      PROVE  \E c \in a.code[stk[m - 1].fn] :
               /\ c.kind = "call" /\ c.callee = stk[m].fn
               /\ Origin(obs, m - 1, z) \in
                     Reach(a, stk[m - 1].fn, a.facts[stk[m - 1].fn][c.value.local])
  <2>1. CASE m <= j
    <3>1. m \in obs[z].frame + 1 .. j
      BY <1>6, <2>1
    <3> QED BY <1>5, <3>1 DEF PassedDown
  <2>2. CASE ~ (m <= j)
    <3>1. m \in j + 1 .. i /\ m - 1 \in j .. i
      BY <1>6, <2>2
    <3>2. m \in obs[y].frame + 1 .. i
      BY <3>1 DEF j
    <3>3. PICK c \in a.code[stk[m - 1].fn] :
               /\ c.kind = "call" /\ c.callee = stk[m].fn
               /\ Origin(obs, m - 1, y) \in
                     Reach(a, stk[m - 1].fn, a.facts[stk[m - 1].fn][c.value.local])
      BY <1>4, <3>2 DEF PassedDown
    <3>4. Origin(obs, m - 1, z) \in
             Reach(a, stk[m - 1].fn, a.facts[stk[m - 1].fn][c.value.local])
      BY <1>7, <3>1, <3>3
    <3> QED BY <3>3, <3>4
  <2> QED BY <2>1, <2>2
<1>10. Origin(obs, i, z) \in Reach(a, stk[i].fn, S)
  <2>1. i \in j .. i
    BY <1>6
  <2> QED BY <1>4, <1>7, <2>1
<1>11. PassedDown(a, obs, stk, z, i)
  BY <1>9 DEF PassedDown
<1> QED BY <1>8, <1>10, <1>11

\* What the place p denotes in a frame.
ReadAt(obs, env, p) ==
  IF p = Constant THEN None
  ELSE IF p.depth = 0 THEN env[p.local]
  ELSE IF env[p.local] = None THEN None ELSE obs[env[p.local]].next

\* The value of an operation is held, and seen from its sources;
LEMMA ValueSeen ==
  ASSUME NEW a, Sound(a), NEW obs, NEW stk, RunOK(a, obs, stk),
         NEW H, Placed(a, obs, stk, H), NEW i, i \in 1 .. Len(stk),
         NEW o, o \in a.code[stk[i].fn],
         NEW v, v = ReadAt(obs, stk[i].env, o.value)
  PROVE  /\ v \in {None} \cup H
         /\ v # None => Seen(a, obs, stk, v, i, Sources(a, stk[i].fn, o))
<1>1. stk[i].fn \in Functions
  BY DEF RunOK, FramesOK
<1>2. WellFormed(o)
  BY <1>1 DEF Sound, SoundOperation
<1>3. CASE o.value = Constant
  BY <1>3 DEF ReadAt
<1>4. CASE o.value # Constant
  <2> DEFINE l == o.value.local
             y == stk[i].env[l]
  <2>1. l \in Locals /\ Sources(a, stk[i].fn, o) = a.facts[stk[i].fn][l]
    BY <1>2, <1>4 DEF WellFormed, Sources, OperandFacts
  <2>2. y \in {None} \cup H /\ (y # None => Seen(a, obs, stk, y, i, a.facts[stk[i].fn][l]))
    BY <2>1 DEF Placed, HeldOK, LocalsSeen
  <2>3. CASE o.value.depth = 0 \/ y = None
    BY <1>4, <2>1, <2>2, <2>3 DEF ReadAt
  <2>4. CASE ~ (o.value.depth = 0 \/ y = None)
    <3>1. v = obs[y].next /\ y \in H
      BY <1>4, <2>2, <2>4 DEF ReadAt
    <3>2. v \in {None} \cup H
      BY <3>1 DEF Placed, HeldOK
    <3>3. v # None => Seen(a, obs, stk, v, i, a.facts[stk[i].fn][l])
      BY <2>1, <2>4, <3>1, MemberReadSeen
    <3> QED BY <2>1, <3>2, <3>3
  <2> QED BY <2>3, <2>4
<1> QED BY <1>3, <1>4

\* and if its sources escape it is not in the arena.
LEMMA LeakedNotInArena ==
  ASSUME NEW a, Sound(a), NEW obs, NEW stk, RunOK(a, obs, stk),
         NEW i, i \in 1 .. Len(stk), NEW z, z \in 1 .. Len(obs),
         NEW S, Seen(a, obs, stk, z, i, S), S \subseteq a.escaped[stk[i].fn]
  PROVE  ~ InArena(a, obs, z)
<1> SUFFICES ASSUME InArena(a, obs, z) PROVE FALSE
  OBVIOUS
<1>1. stk[i].fn \in Functions
  BY DEF RunOK, FramesOK
<1>2. /\ obs[z].frame \in 1 .. i
      /\ PassedDown(a, obs, stk, z, i)
      /\ Origin(obs, i, z) \in Reach(a, stk[i].fn, S)
  BY DEF Seen
<1>3. Origin(obs, i, z) \in a.escaped[stk[i].fn]
  BY <1>1, <1>2, ReachEscapes
<1> QED BY <1>2, <1>3, EscapedNotInArena

-----------------------------------------------------------------------------
(* The growth of the program. *)

LEMMA ReachGrows ==
  ASSUME NEW a, Sound(a), NEW b, Sound(b), Grows(a, b), NEW f, f \in Functions,
         NEW S, NEW T, S \subseteq T
  PROVE  Reach(a, f, S) \subseteq Reach(b, f, T)
<1> DEFINE X == Reach(b, f, T)
<1>1. T \subseteq X /\ \A e \in b.edges[f] : e[1] \in X => e[2] \in X
  BY ReachFacts
<1>2. S \subseteq X /\ \A e \in a.edges[f] : e[1] \in X => e[2] \in X
  BY <1>1 DEF Grows
<1> HIDE DEF X
<1>3. Reach(a, f, S) \subseteq X
  BY <1>2, ReachFacts
<1> QED BY <1>3 DEF X

\* What was seen is still seen: the plan has lost places, the facts have gained
\* origins.
LEMMA SeenGrows ==
  ASSUME NEW a, Sound(a), NEW b, Sound(b), Grows(a, b),
         NEW obs, NEW stk, RunOK(a, obs, stk),
         NEW z, z \in 1 .. Len(obs), NEW i, i \in 0 .. Len(stk),
         NEW S, NEW T, S \subseteq T, Seen(a, obs, stk, z, i, S)
  PROVE  Seen(b, obs, stk, z, i, T)
<1> SUFFICES ASSUME InArena(b, obs, z)
             PROVE  /\ obs[z].frame \in 1 .. i
                    /\ PassedDown(b, obs, stk, z, i)
                    /\ Origin(obs, i, z) \in Reach(b, stk[i].fn, T)
  BY DEF Seen
<1>1. /\ obs[z].fn \in Functions /\ obs[z].site \in a.code[obs[z].fn]
      /\ obs[z].site.kind = "struct"
      /\ Len(stk) \in Nat /\ \A k \in 1 .. Len(stk) : stk[k].fn \in Functions
  BY DEF RunOK, ObjectsOK, FramesOK
<1>2. InArena(a, obs, z)
  BY <1>1 DEF InArena, Grows
<1>3. /\ obs[z].frame \in 1 .. i
      /\ PassedDown(a, obs, stk, z, i)
      /\ Origin(obs, i, z) \in Reach(a, stk[i].fn, S)
  BY <1>2 DEF Seen
<1>4. /\ i \in 1 .. Len(stk) /\ obs[z].frame \in Nat /\ 1 <= obs[z].frame
      /\ i \in Nat /\ i <= Len(stk)
  <2>1. Len(stk) \in Nat /\ i \in 0 .. Len(stk) /\ obs[z].frame \in 1 .. i
    BY <1>1, <1>3
  <2> QED BY ONLY <2>1, Between
<1>5. ASSUME NEW m \in obs[z].frame + 1 .. i
      PROVE  \E c \in b.code[stk[m - 1].fn] :
               /\ c.kind = "call" /\ c.callee = stk[m].fn
               /\ Origin(obs, m - 1, z) \in
                     Reach(b, stk[m - 1].fn, b.facts[stk[m - 1].fn][c.value.local])
  <2>1. m - 1 \in 1 .. Len(stk)
    BY <1>1, <1>4
  <2> DEFINE f == stk[m - 1].fn
  <2>2. f \in Functions
    BY <1>1, <2>1
  <2>3. PICK c \in a.code[f] :
           /\ c.kind = "call" /\ c.callee = stk[m].fn
           /\ Origin(obs, m - 1, z) \in Reach(a, f, a.facts[f][c.value.local])
    BY <1>3 DEF PassedDown
  <2> HIDE DEF f
  <2>4. c.value.local \in Locals
    BY <2>2, <2>3 DEF Sound, SoundOperation, WellFormed
  <2>5. a.facts[f][c.value.local] \subseteq b.facts[f][c.value.local] /\ c \in b.code[f]
    BY <2>2, <2>3, <2>4 DEF Grows
  <2>6. Origin(obs, m - 1, z) \in Reach(b, f, b.facts[f][c.value.local])
    BY <2>2, <2>3, <2>5, ReachGrows
  <2> QED BY <2>3, <2>5, <2>6 DEF f
<1>6. Origin(obs, i, z) \in Reach(b, stk[i].fn, T)
  BY <1>1, <1>3, <1>4, ReachGrows
<1>7. PassedDown(b, obs, stk, z, i)
  BY <1>5 DEF PassedDown
<1> QED BY <1>3, <1>6, <1>7

LEMMA RunGrows ==
  ASSUME NEW a, NEW b, Grows(a, b), NEW obs, NEW stk, RunOK(a, obs, stk)
  PROVE  RunOK(b, obs, stk)
<1>1. ObjectsOK(b, obs, stk)
  BY DEF RunOK, ObjectsOK, Grows
<1>2. FramesOK(b, obs, stk)
  <2>1. Len(stk) \in Nat
    BY DEF RunOK, FramesOK
  <2>2. \A i \in 1 .. Len(stk) : i # 1 => i - 1 \in 1 .. Len(stk)
    BY <2>1
  <2>3. ASSUME NEW i \in 1 .. Len(stk), i # 1
        PROVE  \E c \in b.code[stk[i - 1].fn] : c.kind = "call" /\ c.to.local = stk[i].result
    <3>1. stk[i - 1].fn \in Functions
      BY <2>2, <2>3 DEF RunOK, FramesOK
    <3>2. \E c \in a.code[stk[i - 1].fn] : c.kind = "call" /\ c.to.local = stk[i].result
      BY <2>3 DEF RunOK, FramesOK
    <3> QED BY <3>1, <3>2 DEF Grows
  <2> QED BY <2>3 DEF RunOK, FramesOK
<1> QED BY <1>1, <1>2 DEF RunOK

LEMMA PlacedGrows ==
  ASSUME NEW a, Sound(a), NEW b, Sound(b), Grows(a, b),
         NEW obs, NEW stk, RunOK(a, obs, stk), NEW H, Placed(a, obs, stk, H)
  PROVE  Placed(b, obs, stk, H)
<1>1. \A i \in 1 .. Len(stk) :
         /\ stk[i].fn \in Functions
         /\ \A l \in Locals : stk[i].env[l] \in {None} \cup 1 .. Len(obs)
  BY DEF RunOK, FramesOK
<1>2. \A x \in H : /\ x \in 1 .. Len(obs) /\ obs[x].frame \in 0 .. Len(stk)
                   /\ obs[x].next \in {None} \cup 1 .. Len(obs)
                   /\ obs[x].fn \in Functions /\ obs[x].site \in a.code[obs[x].fn]
                   /\ obs[x].site.kind = "struct"
  BY DEF RunOK, ObjectsOK, Placed, HeldOK
<1>3. HeldOK(b, obs, stk, H)
  <2>1. \A x \in H : InArena(b, obs, x) => InArena(a, obs, x)
    BY <1>2 DEF InArena, Grows
  <2> QED BY <2>1 DEF Placed, HeldOK
<1>4. ASSUME NEW i \in 1 .. Len(stk), NEW l \in Locals, stk[i].env[l] # None
      PROVE  Seen(b, obs, stk, stk[i].env[l], i, b.facts[stk[i].fn][l])
  <2>1. a.facts[stk[i].fn][l] \subseteq b.facts[stk[i].fn][l]
    BY <1>1 DEF Grows
  <2>2. i \in 0 .. Len(stk)
    OBVIOUS
  <2>3. stk[i].env[l] \in 1 .. Len(obs)
    BY <1>1, <1>4
  <2>4. Seen(a, obs, stk, stk[i].env[l], i, a.facts[stk[i].fn][l])
    BY <1>4 DEF Placed, LocalsSeen
  <2> QED BY <2>1, <2>2, <2>3, <2>4, SeenGrows
<1>5. ASSUME NEW x \in H, obs[x].next # None
      PROVE  Seen(b, obs, stk, obs[x].next, obs[x].frame, {obs[x].site})
  <2>1. Seen(a, obs, stk, obs[x].next, obs[x].frame, {obs[x].site})
    BY <1>5 DEF Placed, MembersSeen
  <2>2. obs[x].next \in 1 .. Len(obs) /\ obs[x].frame \in 0 .. Len(stk)
    BY <1>2, <1>5
  <2> QED BY <2>1, <2>2, SeenGrows
<1>6. DirectNamed(b, obs, stk)
  BY <1>1 DEF Placed, DirectNamed, Grows
<1>7. LocalsSeen(b, obs, stk) /\ MembersSeen(b, obs, stk, H)
  BY <1>4, <1>5 DEF LocalsSeen, MembersSeen
<1> QED BY <1>3, <1>6, <1>7 DEF Placed

-----------------------------------------------------------------------------
(* The steps of an execution, each on the objects and the frames it changes. *)

\* What is seen depends on where the object was allocated and on the functions
\* of the frames.
LEMMA SeenAgain ==
  ASSUME NEW a, NEW obs, NEW more, NEW stk, NEW next, NEW z, NEW i, i \in Nat, NEW S,
         obs[z].frame \in Nat,
         more[z].fn = obs[z].fn, more[z].site = obs[z].site, more[z].frame = obs[z].frame,
         \A k \in 1 .. i : next[k].fn = stk[k].fn,
         Seen(a, obs, stk, z, i, S)
  PROVE  Seen(a, more, next, z, i, S)
<1> SUFFICES ASSUME InArena(a, more, z)
             PROVE  /\ more[z].frame \in 1 .. i
                    /\ PassedDown(a, more, next, z, i)
                    /\ Origin(more, i, z) \in Reach(a, next[i].fn, S)
  BY DEF Seen
<1>1. /\ obs[z].frame \in 1 .. i
      /\ PassedDown(a, obs, stk, z, i)
      /\ Origin(obs, i, z) \in Reach(a, stk[i].fn, S)
  BY DEF Seen, InArena
<1>2. \A m \in obs[z].frame + 1 .. i : m \in 1 .. i /\ m - 1 \in 1 .. i
  BY <1>1
<1>3. \A m : Origin(more, m, z) = Origin(obs, m, z)
  BY DEF Origin
<1>4. PassedDown(a, more, next, z, i)
  <2> SUFFICES ASSUME NEW m \in obs[z].frame + 1 .. i
               PROVE  \E c \in a.code[next[m - 1].fn] :
                        /\ c.kind = "call" /\ c.callee = next[m].fn
                        /\ Origin(more, m - 1, z) \in
                             Reach(a, next[m - 1].fn, a.facts[next[m - 1].fn][c.value.local])
    BY DEF PassedDown
  <2>1. next[m].fn = stk[m].fn /\ next[m - 1].fn = stk[m - 1].fn
    BY <1>2
  <2>2. \E c \in a.code[stk[m - 1].fn] :
           /\ c.kind = "call" /\ c.callee = stk[m].fn
           /\ Origin(obs, m - 1, z) \in
                 Reach(a, stk[m - 1].fn, a.facts[stk[m - 1].fn][c.value.local])
    BY <1>1 DEF PassedDown
  <2> QED BY <1>3, <2>1, <2>2
<1>5. i \in 1 .. i
  BY <1>1
<1> QED BY <1>1, <1>3, <1>4, <1>5

\* What an owner is stored is seen from the owner.
LEMMA SeenFromOwner ==
  ASSUME NEW a, Sound(a), NEW obs, NEW stk, NEW z, NEW i, stk[i].fn \in Functions,
         NEW S, NEW s, {s} \X S \subseteq a.edges[stk[i].fn],
         Seen(a, obs, stk, z, i, S)
  PROVE  Seen(a, obs, stk, z, i, {s})
<1> DEFINE f == stk[i].fn
           X == Reach(a, f, {s})
<1>1. s \in X /\ \A e \in a.edges[f] : e[1] \in X => e[2] \in X
  BY ReachFacts
<1>2. S \subseteq X
  <2> SUFFICES ASSUME NEW t \in S PROVE t \in X
    OBVIOUS
  <2>1. <<s, t>> \in a.edges[f]
    OBVIOUS
  <2> HIDE DEF X, f
  <2> QED BY <1>1, <2>1
<1>3. Reach(a, f, S) \subseteq X
  BY <1>2, ReachWithin
<1> QED BY <1>3 DEF Seen

\* The frames next are stk with a new value in a local of the last.
Rebound(stk, next, l, v) ==
  /\ Len(next) = Len(stk)
  /\ \A i \in 1 .. Len(stk) :
        /\ next[i].fn = stk[i].fn /\ next[i].result = stk[i].result
        /\ \A k \in Locals : next[i].env[k] = IF i = Len(stk) /\ k = l THEN v
                                              ELSE stk[i].env[k]

LEMMA RunRebound ==
  ASSUME NEW a, NEW obs, NEW stk, RunOK(a, obs, stk), NEW next, NEW l, NEW v,
         Rebound(stk, next, l, v), v \in {None} \cup 1 .. Len(obs)
  PROVE  RunOK(a, obs, next)
<1>1. Len(stk) \in Nat \ {0} /\ Len(obs) \in Nat /\ Len(next) = Len(stk)
  BY DEF RunOK, FramesOK, ObjectsOK, Rebound
<1>2. \A i \in 1 .. Len(stk) : i # 1 => i - 1 \in 1 .. Len(stk)
  BY <1>1
<1>3. FramesOK(a, obs, next)
  <2> SUFFICES ASSUME NEW i \in 1 .. Len(stk)
               PROVE  /\ next[i].fn \in Functions
                      /\ \A k \in Locals : next[i].env[k] \in {None} \cup 1 .. Len(obs)
                      /\ i # 1 => /\ next[i].result \in Locals
                                  /\ \E c \in a.code[next[i - 1].fn] :
                                        c.kind = "call" /\ c.to.local = next[i].result
    BY <1>1 DEF FramesOK
  <2>1. \A k \in Locals : stk[i].env[k] \in {None} \cup 1 .. Len(obs)
    BY DEF RunOK, FramesOK
  <2>2. \A k \in Locals : next[i].env[k] \in {None} \cup 1 .. Len(obs)
    BY <2>1 DEF Rebound
  <2>3. i # 1 => /\ stk[i].result \in Locals
                 /\ \E c \in a.code[stk[i - 1].fn] : c.kind = "call" /\ c.to.local = stk[i].result
    BY DEF RunOK, FramesOK
  <2>4. /\ next[i].fn = stk[i].fn /\ next[i].result = stk[i].result /\ stk[i].fn \in Functions
        /\ i # 1 => next[i - 1].fn = stk[i - 1].fn
    BY <1>2 DEF RunOK, FramesOK, Rebound
  <2> QED BY <2>2, <2>3, <2>4
<1>4. ObjectsOK(a, obs, next)
  <2>1. \A x \in 1 .. Len(obs) : obs[x].frame # 0 => obs[x].frame \in 1 .. Len(stk)
    BY <1>1 DEF RunOK, ObjectsOK
  <2> QED BY <1>1, <2>1 DEF RunOK, ObjectsOK, Rebound
<1> QED BY <1>3, <1>4 DEF RunOK

LEMMA PlacedRebound ==
  ASSUME NEW a, NEW obs, NEW stk, RunOK(a, obs, stk), NEW H, Placed(a, obs, stk, H),
         NEW next, NEW l, NEW v, Rebound(stk, next, l, v), v \in {None} \cup H,
         LET f == stk[Len(stk)].fn
         IN  v # None =>
                /\ Seen(a, obs, stk, v, Len(stk), a.facts[f][l])
                /\ l \notin a.readOut[f] =>
                      \/ a.facts[f][l] \cap {Parameter, ExternalHeap} # {}
                      \/ obs[v].frame = Len(stk) /\ obs[v].site \in a.facts[f][l]
  PROVE  Placed(a, obs, next, H)
<1>1. Len(stk) \in Nat \ {0} /\ Len(next) = Len(stk)
  BY DEF RunOK, FramesOK, Rebound
<1>2. \A x \in H : /\ x \in 1 .. Len(obs) /\ obs[x].frame \in 0 .. Len(stk)
                   /\ obs[x].next \in {None} \cup H
  BY DEF RunOK, ObjectsOK, Placed, HeldOK
<1>3. ASSUME NEW z \in H, NEW i \in 0 .. Len(stk), NEW S, Seen(a, obs, stk, z, i, S)
      PROVE  Seen(a, obs, next, z, i, S)
  <2>1. i \in Nat /\ obs[z].frame \in Nat /\ \A k \in 1 .. i : k \in 1 .. Len(stk)
    BY <1>1, <1>2
  <2>2. \A k \in 1 .. i : next[k].fn = stk[k].fn
    BY <2>1 DEF Rebound
  <2> QED BY <1>3, <2>1, <2>2, SeenAgain
<1>4. HeldOK(a, obs, next, H)
  BY <1>1 DEF Placed, HeldOK, Rebound
<1>5. ASSUME NEW i \in 1 .. Len(stk), NEW k \in Locals, next[i].env[k] # None
      PROVE  Seen(a, obs, next, next[i].env[k], i, a.facts[next[i].fn][k])
  <2>1. next[i].env[k] \in H
    BY <1>1, <1>4, <1>5 DEF HeldOK
  <2>2. Seen(a, obs, stk, next[i].env[k], i, a.facts[stk[i].fn][k])
    BY <1>5 DEF Rebound, Placed, LocalsSeen
  <2>3. next[i].fn = stk[i].fn /\ i \in 0 .. Len(stk)
    BY DEF Rebound
  <2> QED BY <1>3, <2>1, <2>2, <2>3
<1>6. ASSUME NEW x \in H, obs[x].next # None
      PROVE  Seen(a, obs, next, obs[x].next, obs[x].frame, {obs[x].site})
  BY <1>2, <1>3, <1>6 DEF Placed, MembersSeen
<1>7. DirectNamed(a, obs, next)
  BY <1>1 DEF Placed, DirectNamed, Rebound
<1> QED BY <1>1, <1>4, <1>5, <1>6, <1>7 DEF Placed, LocalsSeen, MembersSeen

\* The objects more are obs and a new one.
Allocated(obs, more, n) ==
  /\ Len(more) = Len(obs) + 1
  /\ \A x \in 1 .. Len(obs) : more[x] = obs[x]
  /\ more[Len(obs) + 1] = n

LEMMA RunAllocated ==
  ASSUME NEW a, NEW obs, NEW stk, RunOK(a, obs, stk), NEW more, NEW n,
         Allocated(obs, more, n),
         n.fn = stk[Len(stk)].fn, n.site \in a.code[n.fn], n.site.kind = "struct",
         n.frame = Len(stk), n.next \in {None} \cup 1 .. Len(obs)
  PROVE  RunOK(a, more, stk)
<1>1. Len(stk) \in Nat \ {0} /\ Len(obs) \in Nat /\ Len(more) = Len(obs) + 1
  BY DEF RunOK, FramesOK, ObjectsOK, Allocated
<1>2. /\ Len(more) \in Nat /\ \A x \in 1 .. Len(obs) : x \in 1 .. Len(more)
      /\ \A x \in 1 .. Len(more) : x \in 1 .. Len(obs) \/ x = Len(obs) + 1
      /\ Len(stk) \in 1 .. Len(stk) /\ Len(stk) \in 0 .. Len(stk)
  BY <1>1
<1>3. ObjectsOK(a, more, stk)
  <2> SUFFICES ASSUME NEW x \in 1 .. Len(more)
               PROVE  /\ more[x].fn \in Functions
                      /\ more[x].site \in a.code[more[x].fn] /\ more[x].site.kind = "struct"
                      /\ more[x].frame \in 0 .. Len(stk)
                      /\ more[x].frame # 0 => stk[more[x].frame].fn = more[x].fn
                      /\ more[x].next \in {None} \cup 1 .. Len(more)
    BY <1>2 DEF ObjectsOK
  <2>1. CASE x \in 1 .. Len(obs)
    BY <1>2, <2>1 DEF Allocated, RunOK, ObjectsOK
  <2>2. CASE x = Len(obs) + 1
    <3>1. more[x] = n /\ stk[Len(stk)].fn \in Functions
      BY <1>2, <2>2 DEF Allocated, RunOK, FramesOK
    <3> QED BY <1>2, <3>1
  <2> QED BY <1>2, <2>1, <2>2
<1>4. FramesOK(a, more, stk)
  <2>1. \A i \in 1 .. Len(stk) : \A l \in Locals : stk[i].env[l] \in {None} \cup 1 .. Len(more)
    BY <1>2 DEF RunOK, FramesOK
  <2> QED BY <2>1 DEF RunOK, FramesOK
<1> QED BY <1>3, <1>4 DEF RunOK

LEMMA PlacedAllocated ==
  ASSUME NEW a, NEW obs, NEW stk, RunOK(a, obs, stk), NEW H, Placed(a, obs, stk, H),
         NEW more, NEW n, Allocated(obs, more, n),
         n.frame = Len(stk), n.next \in {None} \cup H,
         n.next # None => Seen(a, obs, stk, n.next, Len(stk), {n.site})
  PROVE  Placed(a, more, stk, H \cup {Len(obs) + 1})
<1> DEFINE new == Len(obs) + 1
           G == H \cup {new}
<1>1. Len(stk) \in Nat \ {0} /\ Len(obs) \in Nat /\ Len(more) = new
  BY DEF RunOK, FramesOK, ObjectsOK, Allocated
<1>2. \A x \in H : /\ x \in 1 .. Len(obs) /\ obs[x].frame \in 0 .. Len(stk)
                   /\ obs[x].next \in {None} \cup H
  BY DEF RunOK, ObjectsOK, Placed, HeldOK
<1>3. (\A x \in H : more[x] = obs[x]) /\ more[new] = n
  BY <1>2 DEF Allocated
<1> HIDE DEF new
<1>4. ASSUME NEW z \in H, NEW i \in 0 .. Len(stk), NEW S, Seen(a, obs, stk, z, i, S)
      PROVE  Seen(a, more, stk, z, i, S)
  <2>1. i \in Nat /\ obs[z].frame \in Nat
    BY <1>1, <1>2
  <2> QED BY <1>3, <1>4, <2>1, SeenAgain
<1>5. HeldOK(a, more, stk, G)
  <2>1. G \subseteq 1 .. Len(more)
    <3>1. new \in 1 .. new /\ \A x \in 1 .. Len(obs) : x \in 1 .. new
      BY <1>1 DEF new
    <3> QED BY <1>1, <1>2, <3>1
  <2>2. \A i \in 1 .. Len(stk) : \A l \in Locals : stk[i].env[l] \in {None} \cup G
    BY DEF Placed, HeldOK
  <2>3. \A x \in G : more[x].next \in {None} \cup G
    BY <1>2, <1>3
  <2>4. \A x \in G : more[x].frame = 0 => ~ InArena(a, more, x)
    BY <1>1, <1>3 DEF Placed, HeldOK, InArena
  <2> QED BY <2>1, <2>2, <2>3, <2>4 DEF HeldOK
<1>6. ASSUME NEW i \in 1 .. Len(stk), NEW l \in Locals, stk[i].env[l] # None
      PROVE  Seen(a, more, stk, stk[i].env[l], i, a.facts[stk[i].fn][l])
  <2>1. stk[i].env[l] \in H /\ Seen(a, obs, stk, stk[i].env[l], i, a.facts[stk[i].fn][l])
    BY <1>6 DEF Placed, HeldOK, LocalsSeen
  <2>2. i \in 0 .. Len(stk)
    OBVIOUS
  <2> QED BY <1>4, <2>1, <2>2
<1>7. ASSUME NEW x \in G, more[x].next # None
      PROVE  Seen(a, more, stk, more[x].next, more[x].frame, {more[x].site})
  <2>1. CASE x \in H
    <3>1. Seen(a, obs, stk, obs[x].next, obs[x].frame, {obs[x].site})
      BY <1>3, <1>7, <2>1 DEF Placed, MembersSeen
    <3> QED BY <1>2, <1>3, <1>4, <1>7, <2>1, <3>1
  <2>2. CASE x = new
    <3>1. Len(stk) \in 0 .. Len(stk)
      BY <1>1
    <3> QED BY <1>3, <1>4, <1>7, <2>2, <3>1
  <2> QED BY <2>1, <2>2
<1>8. DirectNamed(a, more, stk)
  <2>1. \A i \in 1 .. Len(stk) : \A l \in Locals :
           stk[i].env[l] # None => more[stk[i].env[l]] = obs[stk[i].env[l]]
    BY <1>3 DEF Placed, HeldOK
  <2> QED BY <2>1 DEF Placed, DirectNamed
<1> QED BY <1>5, <1>6, <1>7, <1>8 DEF Placed, LocalsSeen, MembersSeen, new

\* The objects more are obs with v stored in the member of x.
Stored(obs, more, x, v) ==
  /\ Len(more) = Len(obs)
  /\ \A y \in 1 .. Len(obs) :
        /\ more[y].fn = obs[y].fn /\ more[y].site = obs[y].site
        /\ more[y].frame = obs[y].frame
        /\ more[y].next = IF y = x THEN v ELSE obs[y].next

LEMMA RunStored ==
  ASSUME NEW a, NEW obs, NEW stk, RunOK(a, obs, stk), NEW more, NEW x, NEW v,
         Stored(obs, more, x, v), v \in {None} \cup 1 .. Len(obs)
  PROVE  RunOK(a, more, stk)
<1>1. ObjectsOK(a, more, stk)
  BY DEF RunOK, ObjectsOK, Stored
<1>2. FramesOK(a, more, stk)
  BY DEF RunOK, FramesOK, Stored
<1> QED BY <1>1, <1>2 DEF RunOK

LEMMA PlacedStored ==
  ASSUME NEW a, NEW obs, NEW stk, RunOK(a, obs, stk), NEW H, Placed(a, obs, stk, H),
         NEW more, NEW x, x \in H, NEW v, v \in {None} \cup H, Stored(obs, more, x, v),
         v # None => Seen(a, obs, stk, v, obs[x].frame, {obs[x].site})
  PROVE  Placed(a, more, stk, H)
<1>1. Len(stk) \in Nat
  BY DEF RunOK, FramesOK
<1>2. \A y \in H : /\ y \in 1 .. Len(obs) /\ obs[y].frame \in 0 .. Len(stk)
                   /\ obs[y].next \in {None} \cup H
  BY DEF RunOK, ObjectsOK, Placed, HeldOK
<1>3. \A y \in H : /\ more[y].fn = obs[y].fn /\ more[y].site = obs[y].site
                   /\ more[y].frame = obs[y].frame
                   /\ more[y].next = IF y = x THEN v ELSE obs[y].next
  BY <1>2 DEF Stored
<1>4. ASSUME NEW z \in H, NEW i \in 0 .. Len(stk), NEW S, Seen(a, obs, stk, z, i, S)
      PROVE  Seen(a, more, stk, z, i, S)
  <2>1. i \in Nat /\ obs[z].frame \in Nat
    BY <1>1, <1>2
  <2> QED BY <1>3, <1>4, <2>1, SeenAgain
<1>5. HeldOK(a, more, stk, H)
  <2>1. H \subseteq 1 .. Len(more)
    BY <1>2 DEF Stored
  <2>2. \A y \in H : more[y].frame = 0 => ~ InArena(a, more, y)
    BY <1>3 DEF Placed, HeldOK, InArena
  <2>3. \A y \in H : more[y].next \in {None} \cup H
    BY <1>2, <1>3
  <2> QED BY <2>1, <2>2, <2>3 DEF Placed, HeldOK
<1>6. ASSUME NEW i \in 1 .. Len(stk), NEW l \in Locals, stk[i].env[l] # None
      PROVE  Seen(a, more, stk, stk[i].env[l], i, a.facts[stk[i].fn][l])
  <2>1. stk[i].env[l] \in H /\ Seen(a, obs, stk, stk[i].env[l], i, a.facts[stk[i].fn][l])
    BY <1>6 DEF Placed, HeldOK, LocalsSeen
  <2>2. i \in 0 .. Len(stk)
    OBVIOUS
  <2> QED BY <1>4, <2>1, <2>2
<1>7. ASSUME NEW y \in H, more[y].next # None
      PROVE  Seen(a, more, stk, more[y].next, more[y].frame, {more[y].site})
  <2>1. CASE y = x
    <3>1. Seen(a, obs, stk, v, obs[x].frame, {obs[x].site}) /\ v \in H
      BY <1>3, <1>7, <2>1
    <3> QED BY <1>2, <1>3, <1>4, <2>1, <3>1
  <2>2. CASE y # x
    <3>1. Seen(a, obs, stk, obs[y].next, obs[y].frame, {obs[y].site}) /\ obs[y].next \in H
      BY <1>2, <1>3, <1>7, <2>2 DEF Placed, MembersSeen
    <3> QED BY <1>2, <1>3, <1>4, <2>2, <3>1
  <2> QED BY <2>1, <2>2
<1>8. DirectNamed(a, more, stk)
  <2>1. \A i \in 1 .. Len(stk) : \A l \in Locals : stk[i].env[l] \in {None} \cup H
    BY DEF Placed, HeldOK
  <2> QED BY <1>3, <2>1 DEF Placed, DirectNamed
<1> QED BY <1>5, <1>6, <1>7, <1>8 DEF Placed, LocalsSeen, MembersSeen

\* The frames next are stk and one of the function g, with the argument v, whose
\* result goes to r.
Pushed(stk, next, g, v, r) ==
  /\ Len(next) = Len(stk) + 1
  /\ \A i \in 1 .. Len(stk) : next[i] = stk[i]
  /\ next[Len(stk) + 1].fn = g /\ next[Len(stk) + 1].result = r
  /\ \A l \in Locals : next[Len(stk) + 1].env[l] = IF l = Param THEN v ELSE None

LEMMA RunPushed ==
  ASSUME NEW a, Sound(a), NEW obs, NEW stk, RunOK(a, obs, stk),
         NEW c, c \in a.code[stk[Len(stk)].fn], c.kind = "call",
         NEW next, NEW v, v \in {None} \cup 1 .. Len(obs),
         Pushed(stk, next, c.callee, v, c.to.local)
  PROVE  RunOK(a, obs, next)
<1> DEFINE new == Len(stk) + 1
<1>1. Len(stk) \in Nat \ {0} /\ Len(next) = new
  BY DEF RunOK, FramesOK, Pushed
<1>2. /\ new \in Nat \ {0} /\ \A i \in 1 .. Len(stk) : i \in 1 .. new
      /\ \A i \in 1 .. new : i \in 1 .. Len(stk) \/ i = new
      /\ Len(stk) \in 1 .. Len(stk) /\ new - 1 = Len(stk)
      /\ \A i \in 1 .. Len(stk) : i # 1 => i - 1 \in 1 .. Len(stk)
      /\ \A i \in 0 .. Len(stk) : i \in 0 .. new /\ (i # 0 => i \in 1 .. Len(stk))
  BY <1>1
<1>3. c.callee \in Functions /\ c.to.local \in Locals
  <2>1. stk[Len(stk)].fn \in Functions
    BY <1>2 DEF RunOK, FramesOK
  <2> QED BY <2>1 DEF Sound, SoundOperation, WellFormed
<1> HIDE DEF new
<1>4. FramesOK(a, obs, next)
  <2> SUFFICES ASSUME NEW i \in 1 .. new
               PROVE  /\ next[i].fn \in Functions
                      /\ \A l \in Locals : next[i].env[l] \in {None} \cup 1 .. Len(obs)
                      /\ i # 1 => /\ next[i].result \in Locals
                                  /\ \E d \in a.code[next[i - 1].fn] :
                                        d.kind = "call" /\ d.to.local = next[i].result
    BY <1>1, <1>2 DEF FramesOK
  <2>1. CASE i \in 1 .. Len(stk)
    <3>1. next[i] = stk[i] /\ (i # 1 => next[i - 1] = stk[i - 1])
      BY <1>2, <2>1 DEF Pushed
    <3> QED BY <2>1, <3>1 DEF RunOK, FramesOK
  <2>2. CASE i = new
    <3>1. /\ next[i].fn = c.callee /\ next[i].result = c.to.local
          /\ \A l \in Locals : next[i].env[l] \in {None} \cup 1 .. Len(obs)
          /\ next[i - 1] = stk[Len(stk)]
      BY <1>2, <2>2 DEF Pushed, new
    <3> QED BY <1>3, <3>1
  <2> QED BY <1>2, <2>1, <2>2
<1>5. ObjectsOK(a, obs, next)
  BY <1>1, <1>2 DEF RunOK, ObjectsOK, Pushed
<1> QED BY <1>4, <1>5 DEF RunOK

LEMMA PlacedPushed ==
  ASSUME NEW a, Sound(a), NEW obs, NEW stk, RunOK(a, obs, stk),
         NEW H, Placed(a, obs, stk, H),
         NEW c, c \in a.code[stk[Len(stk)].fn], c.kind = "call",
         NEW next, NEW v, v \in {None} \cup H,
         Pushed(stk, next, c.callee, v, c.to.local),
         v # None => Seen(a, obs, stk, v, Len(stk), Sources(a, stk[Len(stk)].fn, c))
  PROVE  Placed(a, obs, next, H)
<1> DEFINE top == Len(stk)
           new == Len(stk) + 1
           f == stk[top].fn
           g == c.callee
<1>1. top \in Nat \ {0} /\ Len(next) = new
  BY DEF RunOK, FramesOK, Pushed
<1>2. /\ new \in Nat \ {0} /\ new \in 1 .. new
      /\ \A i \in 1 .. new : i \in 1 .. top \/ i = new
      /\ top \in 1 .. top /\ new - 1 = top /\ top \in 0 .. top
      /\ \A i \in 1 .. top : i \in 0 .. top /\ i # new
      /\ \A i \in 0 .. top : i \in Nat /\ \A k \in 1 .. i : k \in 1 .. top
  BY <1>1
<1>3. \A x \in H : /\ x \in 1 .. Len(obs) /\ obs[x].frame \in 0 .. top
                   /\ obs[x].next \in {None} \cup H
  BY DEF RunOK, ObjectsOK, Placed, HeldOK
<1>4. f \in Functions
  BY <1>2 DEF RunOK, FramesOK
<1>5. SoundOperation(a, f, c)
  BY <1>4 DEF Sound
<1>6. g \in Functions \ {Main} /\ Sources(a, f, c) = a.facts[f][c.value.local]
  BY <1>5 DEF SoundOperation, WellFormed, Sources, OperandFacts
<1>7. Parameter \in a.facts[g][Param]
  BY <1>6 DEF Sound, SoundFunction
<1>8. ASSUME NEW z \in H, NEW i \in 0 .. top, NEW S, Seen(a, obs, stk, z, i, S)
      PROVE  Seen(a, obs, next, z, i, S)
  <2>1. i \in Nat /\ obs[z].frame \in Nat
    BY <1>2, <1>3
  <2>2. \A k \in 1 .. i : next[k].fn = stk[k].fn
    BY <1>2 DEF Pushed
  <2> QED BY <1>8, <2>1, <2>2, SeenAgain
<1>9. /\ next[new].fn = g /\ next[top] = stk[top]
      /\ \A l \in Locals : next[new].env[l] = IF l = Param THEN v ELSE None
  BY <1>2 DEF Pushed
<1> HIDE DEF top, new, f, g
\* The argument, in the new frame.
<1>10. ASSUME v # None
       PROVE  Seen(a, obs, next, v, new, a.facts[g][Param])
  <2> SUFFICES ASSUME InArena(a, obs, v)
               PROVE  /\ obs[v].frame \in 1 .. new
                      /\ PassedDown(a, obs, next, v, new)
                      /\ Origin(obs, new, v) \in Reach(a, next[new].fn, a.facts[g][Param])
    BY DEF Seen
  <2>1. Seen(a, obs, next, v, top, Sources(a, f, c))
    BY <1>2, <1>8, <1>10 DEF top, f
  <2>2. /\ obs[v].frame \in 1 .. top
        /\ PassedDown(a, obs, next, v, top)
        /\ Origin(obs, top, v) \in Reach(a, next[top].fn, a.facts[f][c.value.local])
    BY <1>6, <2>1 DEF Seen
  <2>3. /\ obs[v].frame \in 1 .. new /\ obs[v].frame # new
        /\ \A m \in obs[v].frame + 1 .. new : m \in obs[v].frame + 1 .. top \/ m = new
    BY <1>1, <1>2, <2>2 DEF new, top
  <2>4. PassedDown(a, obs, next, v, new)
    <3> SUFFICES ASSUME NEW m \in obs[v].frame + 1 .. new
                 PROVE  \E d \in a.code[next[m - 1].fn] :
                          /\ d.kind = "call" /\ d.callee = next[m].fn
                          /\ Origin(obs, m - 1, v) \in
                               Reach(a, next[m - 1].fn, a.facts[next[m - 1].fn][d.value.local])
      BY DEF PassedDown
    <3>1. CASE m \in obs[v].frame + 1 .. top
      BY <2>2, <3>1 DEF PassedDown
    <3>2. CASE m = new
      <4>1. next[m].fn = g /\ m - 1 = top /\ next[m - 1].fn = f
        BY <1>2, <1>9, <3>2 DEF f
      <4>2. Origin(obs, m - 1, v) \in Reach(a, next[m - 1].fn, a.facts[next[m - 1].fn][c.value.local])
        BY <1>9, <2>2, <4>1 DEF f
      <4>3. c \in a.code[next[m - 1].fn] /\ c.callee = next[m].fn
        BY <4>1 DEF f, top, g
      <4> QED BY <4>2, <4>3
    <3> QED BY <2>3, <3>1, <3>2
  <2>5. Origin(obs, new, v) = Parameter
    BY <2>3 DEF Origin
  <2>6. a.facts[g][Param] \subseteq Reach(a, g, a.facts[g][Param])
    BY <1>6, ReachFacts
  <2> QED BY <1>7, <1>9, <2>3, <2>4, <2>5, <2>6
<1>11. HeldOK(a, obs, next, H)
  <2>1. \A i \in 1 .. new : \A l \in Locals : next[i].env[l] \in {None} \cup H
    BY <1>2, <1>9 DEF Placed, HeldOK, Pushed, top
  <2> QED BY <1>1, <2>1 DEF Placed, HeldOK
<1>12. ASSUME NEW i \in 1 .. new, NEW l \in Locals, next[i].env[l] # None
       PROVE  Seen(a, obs, next, next[i].env[l], i, a.facts[next[i].fn][l])
  <2>1. CASE i = new
    BY <1>9, <1>10, <1>12, <2>1
  <2>2. CASE i \in 1 .. top
    <3>1. next[i] = stk[i]
      BY <2>2 DEF Pushed, top
    <3>2. stk[i].env[l] \in H /\ Seen(a, obs, stk, stk[i].env[l], i, a.facts[stk[i].fn][l])
      BY <1>12, <2>2, <3>1 DEF Placed, HeldOK, LocalsSeen, top
    <3> QED BY <1>2, <1>8, <2>2, <3>1, <3>2
  <2> QED BY <1>2, <2>1, <2>2
<1>13. ASSUME NEW x \in H, obs[x].next # None
       PROVE  Seen(a, obs, next, obs[x].next, obs[x].frame, {obs[x].site})
  BY <1>3, <1>8, <1>13 DEF Placed, MembersSeen
<1>14. DirectNamed(a, obs, next)
  <2> SUFFICES ASSUME NEW i \in 1 .. new, NEW l \in Locals \ a.readOut[next[i].fn],
                      next[i].env[l] # None
               PROVE  \/ a.facts[next[i].fn][l] \cap {Parameter, ExternalHeap} # {}
                      \/ /\ obs[next[i].env[l]].frame = i
                         /\ obs[next[i].env[l]].site \in a.facts[next[i].fn][l]
    BY <1>1 DEF DirectNamed
  <2>1. CASE i = new
    <3>1. l = Param
      BY <1>9, <2>1
    <3> QED BY <1>7, <1>9, <2>1, <3>1
  <2>2. CASE i \in 1 .. top
    <3>1. next[i] = stk[i]
      BY <2>2 DEF Pushed, top
    <3> QED BY <2>2, <3>1 DEF Placed, DirectNamed, top
  <2> QED BY <1>2, <2>1, <2>2
<1> QED BY <1>1, <1>11, <1>12, <1>13, <1>14 DEF Placed, LocalsSeen, MembersSeen

\* The frames next are stk without the last, and what was allocated there is not
\* of an active frame any more.
Cut(obs, more, stk, next) ==
  /\ Len(next) = Len(stk) - 1
  /\ \A i \in 1 .. Len(next) : next[i] = stk[i]
  /\ Len(more) = Len(obs)
  /\ \A x \in 1 .. Len(obs) :
        /\ more[x].fn = obs[x].fn /\ more[x].site = obs[x].site
        /\ more[x].next = obs[x].next
        /\ more[x].frame = IF obs[x].frame = Len(stk) THEN 0 ELSE obs[x].frame

LEMMA RunCut ==
  ASSUME NEW a, NEW obs, NEW stk, RunOK(a, obs, stk), Len(stk) > 1,
         NEW more, NEW next, Cut(obs, more, stk, next)
  PROVE  RunOK(a, more, next)
<1>1. Len(stk) \in Nat /\ Len(next) = Len(stk) - 1 /\ Len(more) = Len(obs)
  BY DEF RunOK, FramesOK, Cut
<1>2. /\ Len(next) \in Nat \ {0}
      /\ \A i \in 1 .. Len(next) : /\ i \in 1 .. Len(stk)
                                   /\ i # 1 => i - 1 \in 1 .. Len(next)
      /\ \A i \in 0 .. Len(stk) : i # Len(stk) => /\ i \in 0 .. Len(next)
                                                  /\ i # 0 => i \in 1 .. Len(next)
      /\ 0 \in 0 .. Len(next)
  BY <1>1
<1>3. FramesOK(a, more, next)
  <2> SUFFICES ASSUME NEW i \in 1 .. Len(next)
               PROVE  /\ next[i].fn \in Functions
                      /\ \A l \in Locals : next[i].env[l] \in {None} \cup 1 .. Len(more)
                      /\ i # 1 => /\ next[i].result \in Locals
                                  /\ \E d \in a.code[next[i - 1].fn] :
                                        d.kind = "call" /\ d.to.local = next[i].result
    BY <1>2 DEF FramesOK
  <2>1. next[i] = stk[i] /\ (i # 1 => next[i - 1] = stk[i - 1]) /\ i \in 1 .. Len(stk)
    BY <1>2 DEF Cut
  <2> QED BY <1>1, <2>1 DEF RunOK, FramesOK
<1>4. ObjectsOK(a, more, next)
  <2> SUFFICES ASSUME NEW x \in 1 .. Len(obs)
               PROVE  /\ more[x].fn \in Functions
                      /\ more[x].site \in a.code[more[x].fn] /\ more[x].site.kind = "struct"
                      /\ more[x].frame \in 0 .. Len(next)
                      /\ more[x].frame # 0 => next[more[x].frame].fn = more[x].fn
                      /\ more[x].next \in {None} \cup 1 .. Len(more)
    BY <1>1 DEF RunOK, ObjectsOK
  <2>1. /\ more[x].fn = obs[x].fn /\ more[x].site = obs[x].site
        /\ more[x].next = obs[x].next
        /\ more[x].frame = IF obs[x].frame = Len(stk) THEN 0 ELSE obs[x].frame
    BY DEF Cut
  <2>2. more[x].frame \in 0 .. Len(next) /\ (more[x].frame # 0 =>
           more[x].frame = obs[x].frame /\ next[more[x].frame] = stk[obs[x].frame])
    BY <1>2, <2>1 DEF RunOK, ObjectsOK, Cut
  <2> QED BY <1>1, <2>1, <2>2 DEF RunOK, ObjectsOK
<1> QED BY <1>3, <1>4 DEF RunOK

\* What goes with the frame is what it had in the arena: nothing else refers to it.
LEMMA PlacedCut ==
  ASSUME NEW a, Sound(a), NEW obs, NEW stk, RunOK(a, obs, stk), Len(stk) > 1,
         NEW H, Placed(a, obs, stk, H),
         NEW more, NEW next, Cut(obs, more, stk, next)
  PROVE  Placed(a, more, next,
                {x \in H : ~ (obs[x].frame = Len(stk) /\ InArena(a, obs, x))})
<1> DEFINE top == Len(stk)
           G == {x \in H : ~ (obs[x].frame = top /\ InArena(a, obs, x))}
<1>1. top \in Nat /\ Len(next) = top - 1 /\ Len(more) = Len(obs)
  BY DEF RunOK, FramesOK, Cut
<1>2. /\ Len(next) \in Nat \ {0}
      /\ \A i \in 1 .. Len(next) : i \in 1 .. top /\ i \in 0 .. Len(next) /\ i < top
      /\ \A i \in 0 .. top : i # top => i \in 0 .. Len(next) /\ i \in Nat
      /\ \A i \in 0 .. Len(next) : i \in Nat /\ i < top /\ \A k \in 1 .. i : k \in 1 .. Len(next)
      /\ \A i \in 0 .. Len(next) : \A j \in 1 .. i : j # top
      /\ \A i \in 0 .. top : \A j \in 1 .. i : j = top => i = top
      /\ \A i \in 0 .. top : i \in Nat
      /\ 0 \in 0 .. Len(next) /\ 0 # top
  BY <1>1
<1>3. \A x \in H : /\ x \in 1 .. Len(obs) /\ obs[x].frame \in 0 .. top
                   /\ obs[x].next \in {None} \cup H
  BY DEF RunOK, ObjectsOK, Placed, HeldOK
<1>4. \A x \in H : /\ more[x].fn = obs[x].fn /\ more[x].site = obs[x].site
                   /\ more[x].next = obs[x].next
                   /\ more[x].frame = IF obs[x].frame = top THEN 0 ELSE obs[x].frame
                   /\ InArena(a, more, x) = InArena(a, obs, x)
  BY <1>3 DEF Cut, InArena
<1> HIDE DEF top, G
\* What is seen in a frame that stays was allocated in one.
<1>5. ASSUME NEW z \in H, NEW i \in 0 .. Len(next), NEW S, Seen(a, obs, stk, z, i, S)
      PROVE  z \in G /\ Seen(a, more, next, z, i, S)
  <2>1. CASE InArena(a, obs, z)
    <3>1. obs[z].frame # top
      BY <1>2, <1>5, <2>1 DEF Seen
    <3>2. i \in Nat /\ obs[z].frame \in Nat /\ more[z].frame = obs[z].frame
      BY <1>2, <1>3, <1>4, <3>1
    <3>3. \A k \in 1 .. i : next[k].fn = stk[k].fn
      BY <1>2 DEF Cut
    <3>4. Seen(a, more, next, z, i, S)
      BY <1>4, <1>5, <3>2, <3>3, SeenAgain
    <3> QED BY <3>1, <3>4 DEF G
  <2>2. CASE ~ InArena(a, obs, z)
    BY <1>4, <2>2 DEF G, Seen
  <2> QED BY <2>1, <2>2
<1>6. ASSUME NEW x \in G, obs[x].next # None
      PROVE  /\ obs[x].next \in G
             /\ Seen(a, more, next, obs[x].next, more[x].frame, {more[x].site})
  <2>1. x \in H /\ obs[x].next \in H
    BY <1>3, <1>6 DEF G
  <2>2. Seen(a, obs, stk, obs[x].next, obs[x].frame, {obs[x].site})
    BY <1>6, <2>1 DEF Placed, MembersSeen
  <2>3. CASE obs[x].frame = top
    <3>1. ~ InArena(a, obs, x)
      BY <2>3 DEF G
    <3>2. ~ InArena(a, obs, obs[x].next)
      BY <1>6, <2>1, <3>1, OwnerInArena
    <3> QED BY <1>4, <2>1, <3>2 DEF G, Seen
  <2>4. CASE obs[x].frame # top
    <3>1. obs[x].frame \in 0 .. Len(next) /\ more[x].frame = obs[x].frame
      BY <1>2, <1>3, <1>4, <2>1, <2>4
    <3> QED BY <1>4, <1>5, <2>1, <2>2, <3>1
  <2> QED BY <2>3, <2>4
<1>7. ASSUME NEW i \in 1 .. Len(next), NEW l \in Locals, next[i].env[l] # None
      PROVE  /\ next[i].env[l] \in G
             /\ Seen(a, more, next, next[i].env[l], i, a.facts[next[i].fn][l])
  <2>1. next[i] = stk[i] /\ i \in 1 .. Len(stk) /\ i \in 0 .. Len(next)
    BY <1>2 DEF Cut, top
  <2>2. stk[i].env[l] \in H /\ Seen(a, obs, stk, stk[i].env[l], i, a.facts[stk[i].fn][l])
    BY <1>7, <2>1 DEF Placed, HeldOK, LocalsSeen
  <2> QED BY <1>5, <2>1, <2>2
<1>8. HeldOK(a, more, next, G)
  <2>1. G \subseteq 1 .. Len(more)
    BY <1>1, <1>3 DEF G
  <2>2. \A i \in 1 .. Len(next) : \A l \in Locals : next[i].env[l] \in {None} \cup G
    BY <1>7
  <2>3. \A x \in G : x \in H /\ more[x].next \in {None} \cup G
    BY <1>4, <1>6 DEF G
  <2>4. \A x \in G : more[x].frame = 0 => ~ InArena(a, more, x)
    <3> SUFFICES ASSUME NEW x \in G, more[x].frame = 0 PROVE ~ InArena(a, obs, x)
      BY <1>4 DEF G
    <3>1. CASE obs[x].frame = top
      BY <3>1 DEF G
    <3>2. CASE obs[x].frame # top
      <4>1. obs[x].frame = 0 /\ x \in H
        BY <1>4, <3>2 DEF G
      <4> QED BY <4>1 DEF Placed, HeldOK
    <3> QED BY <3>1, <3>2
  <2> QED BY <2>1, <2>2, <2>3, <2>4 DEF HeldOK
<1>9. MembersSeen(a, more, next, G)
  BY <1>4, <1>6 DEF MembersSeen, G
<1>10. DirectNamed(a, more, next)
  <2> SUFFICES ASSUME NEW i \in 1 .. Len(next), NEW l \in Locals \ a.readOut[next[i].fn],
                      next[i].env[l] # None,
                      a.facts[next[i].fn][l] \cap {Parameter, ExternalHeap} = {}
               PROVE  /\ more[next[i].env[l]].frame = i
                      /\ more[next[i].env[l]].site \in a.facts[next[i].fn][l]
    BY DEF DirectNamed
  <2>1. next[i] = stk[i] /\ i \in 1 .. Len(stk) /\ i # top
    BY <1>2 DEF Cut, top
  <2>2. stk[i].env[l] \in H
    BY <2>1 DEF Placed, HeldOK
  <2>3. /\ obs[stk[i].env[l]].frame = i
        /\ obs[stk[i].env[l]].site \in a.facts[stk[i].fn][l]
    BY <2>1 DEF Placed, DirectNamed
  <2> QED BY <1>4, <2>1, <2>2, <2>3
<1>11. LocalsSeen(a, more, next)
  BY <1>7 DEF LocalsSeen
<1> QED BY <1>8, <1>9, <1>10, <1>11 DEF Placed, G, top

\* What is read is an object, or nothing.
LEMMA ReadTyped ==
  ASSUME NEW a, Sound(a), NEW obs, NEW stk, RunOK(a, obs, stk), NEW i, i \in 1 .. Len(stk),
         NEW o, o \in a.code[stk[i].fn]
  PROVE  ReadAt(obs, stk[i].env, o.value) \in {None} \cup 1 .. Len(obs)
<1>1. stk[i].fn \in Functions /\ \A l \in Locals : stk[i].env[l] \in {None} \cup 1 .. Len(obs)
  BY DEF RunOK, FramesOK
<1>2. o.value # Constant => o.value.local \in Locals
  BY <1>1 DEF Sound, SoundOperation, WellFormed
<1>3. \A x \in 1 .. Len(obs) : obs[x].next \in {None} \cup 1 .. Len(obs)
  BY DEF RunOK, ObjectsOK
<1> QED BY <1>1, <1>2, <1>3 DEF ReadAt

\* The operation o of the last frame, and the value it has there.
Running(a, obs, stk, o, v) ==
  /\ Sound(a) /\ RunOK(a, obs, stk)
  /\ o \in a.code[stk[Len(stk)].fn]
  /\ v = ReadAt(obs, stk[Len(stk)].env, o.value)

LEMMA RunningFacts ==
  ASSUME NEW a, NEW obs, NEW stk, NEW o, NEW v, Running(a, obs, stk, o, v)
  PROVE  /\ Sound(a) /\ RunOK(a, obs, stk)
         /\ Len(stk) \in Nat /\ Len(stk) \in 1 .. Len(stk) /\ Len(obs) \in Nat
         /\ stk[Len(stk)].fn \in Functions
         /\ SoundOperation(a, stk[Len(stk)].fn, o)
         /\ v \in {None} \cup 1 .. Len(obs)
<1>1. Len(stk) \in Nat \ {0} /\ Len(obs) \in Nat
  BY DEF Running, RunOK, FramesOK, ObjectsOK
<1>2. Len(stk) \in 1 .. Len(stk)
  BY <1>1
<1>3. stk[Len(stk)].fn \in Functions
  BY <1>2 DEF Running, RunOK, FramesOK
<1>4. SoundOperation(a, stk[Len(stk)].fn, o)
  BY <1>3 DEF Running, Sound
<1>5. v \in {None} \cup 1 .. Len(obs)
  BY <1>2, ReadTyped DEF Running
<1> QED BY <1>1, <1>2, <1>3, <1>4, <1>5 DEF Running

LEMMA ConstructRun ==
  ASSUME NEW a, NEW obs, NEW stk, NEW o, NEW v, Running(a, obs, stk, o, v),
         o.kind = "struct", NEW more, NEW n, Allocated(obs, more, n),
         n.fn = stk[Len(stk)].fn, n.site = o, n.frame = Len(stk), n.next = v,
         NEW new, new = Len(obs) + 1, NEW next, Rebound(stk, next, o.to.local, new)
  PROVE  /\ RunOK(a, more, next)
         /\ \A H : Placed(a, obs, stk, H) => \E G : Placed(a, more, next, G)
<1> DEFINE top == Len(stk)
           f == stk[top].fn
           l == o.to.local
<1>1. /\ Sound(a) /\ RunOK(a, obs, stk) /\ Len(obs) \in Nat
      /\ top \in Nat /\ top \in 1 .. top /\ f \in Functions /\ SoundOperation(a, f, o)
      /\ v \in {None} \cup 1 .. Len(obs)
  BY RunningFacts
<1>2. RunOK(a, more, stk)
  BY <1>1, RunAllocated DEF Running
<1>3. new \in 1 .. Len(more) /\ more[new] = n
  BY <1>1 DEF Allocated
<1>4. RunOK(a, more, next)
  BY <1>2, <1>3, RunRebound
<1>5. ASSUME NEW H, Placed(a, obs, stk, H)
      PROVE  \E G : Placed(a, more, next, G)
  <2> DEFINE G == H \cup {new}
  <2>1. v \in {None} \cup H /\ (v # None => Seen(a, obs, stk, v, top, Sources(a, f, o)))
    BY <1>1, <1>5, ValueSeen DEF Running
  <2>2. {o} \X Sources(a, f, o) \subseteq a.edges[f] /\ o \in a.facts[f][l]
    BY <1>1 DEF SoundOperation
  <2>3. v # None => Seen(a, obs, stk, v, top, {o})
    BY <1>1, <2>1, <2>2, SeenFromOwner
  <2>4. Placed(a, more, stk, G)
    BY <1>1, <1>5, <2>1, <2>3, PlacedAllocated
  <2>5. more[new].frame = top /\ more[new].site = o /\ Origin(more, top, new) = o
    BY <1>3 DEF Origin
  <2> HIDE DEF top, f, l
  <2>6. PassedDown(a, more, stk, new, top)
    <3>1. \A m : m \notin top + 1 .. top
      BY <1>1
    <3> QED BY <2>5, <3>1 DEF PassedDown
  <2>7. Seen(a, more, stk, new, top, a.facts[f][l])
    <3>1. a.facts[f][l] \subseteq Reach(a, f, a.facts[f][l])
      BY <1>1, ReachFacts
    <3> QED BY <1>1, <2>2, <2>5, <2>6, <3>1 DEF Seen, f
  <2>8. Placed(a, more, next, G)
    <3>1. new \in {None} \cup G
      OBVIOUS
    <3> HIDE DEF G
    <3>2. more[new].frame = top /\ more[new].site \in a.facts[f][l]
      BY <2>2, <2>5
    <3> QED BY <1>2, <2>4, <2>7, <3>1, <3>2, PlacedRebound DEF f, l, top
  <2> QED BY <2>8
<1> QED BY <1>4, <1>5

LEMMA CopyRun ==
  ASSUME NEW a, NEW obs, NEW stk, NEW o, NEW v, Running(a, obs, stk, o, v),
         o.kind = "copy", NEW next, Rebound(stk, next, o.to.local, v)
  PROVE  /\ RunOK(a, obs, next)
         /\ \A H : Placed(a, obs, stk, H) => \E G : Placed(a, obs, next, G)
<1> DEFINE top == Len(stk)
           f == stk[top].fn
           l == o.to.local
           facts == a.facts[f]
<1>1. /\ Sound(a) /\ RunOK(a, obs, stk)
      /\ top \in 1 .. top /\ f \in Functions /\ SoundOperation(a, f, o)
      /\ v \in {None} \cup 1 .. Len(obs)
  BY RunningFacts
<1>2. RunOK(a, obs, next)
  BY <1>1, RunRebound
<1>3. ASSUME NEW H, Placed(a, obs, stk, H)
      PROVE  Placed(a, obs, next, H)
  <2>1. v \in {None} \cup H /\ (v # None => Seen(a, obs, stk, v, top, Sources(a, f, o)))
    BY <1>1, <1>3, ValueSeen DEF Running
  <2>2. /\ Sources(a, f, o) \subseteq facts[l]
        /\ o.value.depth = 1 \/ o.value.local \in a.readOut[f] => l \in a.readOut[f]
        /\ o.value # Constant => o.value.local \in Locals /\ o.value.depth \in 0 .. 1
    BY <1>1 DEF SoundOperation, WellFormed
  <2> HIDE DEF top, f, l, facts
  <2>3. v # None => Seen(a, obs, stk, v, top, facts[l])
    <3>1. Sources(a, f, o) \subseteq Reach(a, f, facts[l])
      BY <1>1, <2>2, ReachFacts
    <3>2. Reach(a, f, Sources(a, f, o)) \subseteq Reach(a, f, facts[l])
      BY <1>1, <3>1, ReachWithin
    <3> QED BY <2>1, <3>2 DEF Seen, f
\* A local that nothing read out of a member has reached got its value whole.
  <2>4. ASSUME v # None, l \notin a.readOut[f]
        PROVE  \/ facts[l] \cap {Parameter, ExternalHeap} # {}
               \/ obs[v].frame = top /\ obs[v].site \in facts[l]
    <3>1. o.value # Constant
      BY <2>4 DEF Running, ReadAt
    <3>2. /\ o.value.depth = 0 /\ o.value.local \in Locals \ a.readOut[f]
          /\ Sources(a, f, o) = facts[o.value.local]
      BY <2>2, <2>4, <3>1 DEF Sources, OperandFacts, facts
    <3>3. v = stk[top].env[o.value.local]
      BY <3>1, <3>2 DEF Running, ReadAt, top
    <3>4. \/ facts[o.value.local] \cap {Parameter, ExternalHeap} # {}
          \/ obs[v].frame = top /\ obs[v].site \in facts[o.value.local]
      BY <1>1, <1>3, <2>4, <3>2, <3>3 DEF Placed, DirectNamed, f, facts, top
    <3> QED BY <2>2, <3>2, <3>4
  <2> QED BY <1>1, <1>3, <2>1, <2>3, <2>4, PlacedRebound DEF top, f, l, facts
<1> QED BY <1>2, <1>3

\* A store, of a program whose stores are direct.
LEMMA StoreRun ==
  ASSUME NEW a, NEW obs, NEW stk, NEW o, NEW v, Running(a, obs, stk, o, v),
         o.kind \in {"assign", "retain"},
         o.kind = "assign" => o.to.local \notin a.readOut[stk[Len(stk)].fn],
         NEW x, x = stk[Len(stk)].env[o.to.local], x # None,
         NEW more, Stored(obs, more, x, v)
  PROVE  \A H : Placed(a, obs, stk, H) => Placed(a, more, stk, H)
<1> SUFFICES ASSUME NEW H, Placed(a, obs, stk, H)
             PROVE  Placed(a, more, stk, H)
  OBVIOUS
<1> DEFINE top == Len(stk)
           f == stk[top].fn
           l == o.to.local
           sources == Sources(a, f, o)
           facts == a.facts[f][l]
<1>1. /\ Sound(a) /\ RunOK(a, obs, stk)
      /\ top \in 1 .. top /\ f \in Functions /\ SoundOperation(a, f, o)
  BY RunningFacts
<1>2. v \in {None} \cup H /\ (v # None => Seen(a, obs, stk, v, top, sources))
  BY <1>1, ValueSeen DEF Running
<1>3. /\ l \in Locals
      /\ o.kind = "assign" => /\ facts \X sources \subseteq a.edges[f]
                              /\ facts \cap {Parameter, ExternalHeap} # {} => sources \subseteq a.escaped[f]
      /\ o.kind = "retain" => f \in a.escapes /\ a.plan[f] = {}
  BY <1>1 DEF SoundOperation, WellFormed
<1>4. x \in H
  BY <1>1, <1>3 DEF Placed, HeldOK
<1>5. \A z \in H : z \in 1 .. Len(obs) /\ (obs[z].frame # 0 => stk[obs[z].frame].fn = obs[z].fn)
  BY <1>1 DEF Placed, HeldOK, RunOK, ObjectsOK
<1>6. ASSUME v # None
      PROVE  Seen(a, obs, stk, v, obs[x].frame, {obs[x].site})
  <2>1. v \in H /\ v \in 1 .. Len(obs) /\ Seen(a, obs, stk, v, top, sources)
    BY <1>2, <1>5, <1>6
  <2>2. CASE o.kind = "assign" /\ facts \cap {Parameter, ExternalHeap} # {}
    <3>1. ~ InArena(a, obs, v)
      BY <1>1, <1>3, <2>1, <2>2, LeakedNotInArena
    <3> QED BY <3>1 DEF Seen
  <2>3. CASE o.kind = "assign" /\ facts \cap {Parameter, ExternalHeap} = {}
    <3>1. obs[x].frame = top /\ obs[x].site \in facts
      BY <1>1, <1>3, <2>3 DEF Placed, DirectNamed
    <3>2. {obs[x].site} \X sources \subseteq a.edges[f]
      BY <1>3, <2>3, <3>1
    <3>3. Seen(a, obs, stk, v, top, {obs[x].site})
      BY <1>1, <2>1, <3>2, SeenFromOwner
    <3> QED BY <3>1, <3>3
  <2>4. CASE o.kind = "retain"
    <3> SUFFICES ASSUME InArena(a, obs, v) PROVE FALSE
      BY DEF Seen
    <3>1. obs[v].frame \in 1 .. top /\ PassedDown(a, obs, stk, v, top)
      BY <2>1 DEF Seen
    <3>2. CASE obs[v].frame = top
      <4>1. obs[v].fn = f
        BY <1>1, <1>5, <2>1, <3>1, <3>2
      <4> QED BY <1>3, <2>4, <4>1 DEF InArena
    <3>3. CASE obs[v].frame # top
      BY <1>1, <1>3, <2>1, <2>4, <3>1, <3>3, PassedNotInArena
    <3> QED BY <3>2, <3>3
  <2> QED BY <2>2, <2>3, <2>4
<1> QED BY <1>1, <1>2, <1>4, <1>6, PlacedStored

LEMMA CallRun ==
  ASSUME NEW a, NEW obs, NEW stk, NEW o, NEW v, Running(a, obs, stk, o, v),
         o.kind = "call", NEW next, Pushed(stk, next, o.callee, v, o.to.local)
  PROVE  /\ RunOK(a, obs, next)
         /\ \A H : Placed(a, obs, stk, H) => \E G : Placed(a, obs, next, G)
<1>1. /\ Sound(a) /\ RunOK(a, obs, stk) /\ Len(stk) \in 1 .. Len(stk)
      /\ o \in a.code[stk[Len(stk)].fn] /\ v \in {None} \cup 1 .. Len(obs)
  BY RunningFacts DEF Running
<1>2. RunOK(a, obs, next)
  BY <1>1, RunPushed
<1>3. ASSUME NEW H, Placed(a, obs, stk, H)
      PROVE  Placed(a, obs, next, H)
  <2>1. v \in {None} \cup H
        /\ (v # None => Seen(a, obs, stk, v, Len(stk), Sources(a, stk[Len(stk)].fn, o)))
    BY <1>1, <1>3, ValueSeen DEF Running
  <2> QED BY <1>1, <1>3, <2>1, PlacedPushed
<1> QED BY <1>2, <1>3

LEMMA ReturnRun ==
  ASSUME NEW a, NEW obs, NEW stk, NEW o, NEW v, Running(a, obs, stk, o, v),
         o.kind = "return", Len(stk) > 1,
         NEW more, NEW rest, Cut(obs, more, stk, rest),
         NEW next, Rebound(rest, next, stk[Len(stk)].result, v)
  PROVE  /\ RunOK(a, more, next)
         /\ \A H : Placed(a, obs, stk, H) => \E G : Placed(a, more, next, G)
<1> DEFINE top == Len(stk)
           f == stk[top].fn
           l == stk[top].result
           below == Len(rest)
<1>1. /\ Sound(a) /\ RunOK(a, obs, stk) /\ top \in Nat
      /\ top \in 1 .. top /\ f \in Functions /\ SoundOperation(a, f, o)
      /\ v \in {None} \cup 1 .. Len(obs)
  BY RunningFacts
<1>2. RunOK(a, more, rest)
  BY <1>1, RunCut
<1>3. RunOK(a, more, next)
  <2>1. Len(more) = Len(obs)
    BY DEF Cut
  <2> QED BY <1>1, <1>2, <2>1, RunRebound
<1>4. /\ below = top - 1 /\ below \in 1 .. below /\ top # 1 /\ top - 1 \in 1 .. top
      /\ rest[below] = stk[top - 1]
  <2>1. below = top - 1
    BY DEF Cut
  <2>2. below \in 1 .. below /\ top # 1 /\ top - 1 \in 1 .. top
    BY <1>1, <2>1
  <2> QED BY <2>1, <2>2 DEF Cut
\* The caller knows the result as storage of another function.
<1>5. l \in Locals /\ ExternalHeap \in a.facts[rest[below].fn][l]
  <2>1. /\ l \in Locals /\ stk[top - 1].fn \in Functions
        /\ \E c \in a.code[stk[top - 1].fn] : c.kind = "call" /\ c.to.local = l
    BY <1>1, <1>4 DEF RunOK, FramesOK
  <2>2. PICK c \in a.code[stk[top - 1].fn] : c.kind = "call" /\ c.to.local = l
    BY <2>1
  <2>3. SoundOperation(a, stk[top - 1].fn, c)
    BY <1>1, <2>1, <2>2 DEF Sound
  <2> QED BY <1>4, <2>1, <2>2, <2>3 DEF SoundOperation
<1>6. ASSUME NEW H, Placed(a, obs, stk, H)
      PROVE  \E G : Placed(a, more, next, G)
  <2> DEFINE G == {x \in H : ~ (obs[x].frame = top /\ InArena(a, obs, x))}
  <2>1. Placed(a, more, rest, G)
    BY <1>1, <1>6, PlacedCut
  <2>2. v \in {None} \cup H /\ (v # None => Seen(a, obs, stk, v, top, Sources(a, f, o)))
    BY <1>1, <1>6, ValueSeen DEF Running
  <2>3. v # None => v \in 1 .. Len(obs) /\ ~ InArena(a, obs, v)
    <3>1. Sources(a, f, o) \subseteq a.escaped[f]
      BY <1>1 DEF SoundOperation
    <3> QED BY <1>1, <2>2, <3>1, LeakedNotInArena
  <2>4. v \in {None} \cup G
    BY <2>2, <2>3
  <2>5. v # None => ~ InArena(a, more, v)
    BY <2>3 DEF InArena, Cut
  <2>6. v # None => Seen(a, more, rest, v, below, a.facts[rest[below].fn][l])
    BY <2>5 DEF Seen
  <2>7. a.facts[rest[below].fn][l] \cap {Parameter, ExternalHeap} # {}
    BY <1>5
  <2> HIDE DEF G
  <2>8. Placed(a, more, next, G)
    BY <1>2, <2>1, <2>4, <2>6, <2>7, PlacedRebound
  <2> QED BY <2>8
<1> QED BY <1>3, <1>6

-----------------------------------------------------------------------------
(* The invariant. *)

AnyOperation == UNION {Operations(f) : f \in Functions}

Sequences ==
  /\ objects \in Seq([fn : Functions, site : AnyOperation, frame : Nat, next : Nat \cup {None}])
  /\ stack \in Seq([fn : Functions, env : [Locals -> Nat \cup {None}],
                    result : Locals \cup {None}])

EscapeInv ==
  /\ TypedCode /\ Sequences
  /\ RunOK(Analysis, objects, stack)
  /\ StoresAreDirect => \E H : Placed(Analysis, objects, stack, H)

LEMMA EscapeInitInv == Init => EscapeInv
<1> SUFFICES ASSUME Init PROVE EscapeInv
  OBVIOUS
<1>1. TypedCode
  <2>1. outline \in Outlines /\ code = [f \in Functions |-> {}]
    BY DEF Init
  <2>2. IsFiniteSet({})
    BY FS_EmptySet
  <2> QED BY <2>1, <2>2 DEF TypedCode
<1> DEFINE a == Analysis
<1>2. Main \in Functions /\ stack = <<EmptyFrame(Main)>> /\ objects = <<>>
  BY EscapeAssumption DEF Init
<1>3. EmptyFrame(Main) \in [fn : Functions, env : [Locals -> Nat \cup {None}],
                             result : Locals \cup {None}]
  BY <1>2 DEF EmptyFrame
<1>4. Sequences
  <2> DEFINE F == [fn : Functions, env : [Locals -> Nat \cup {None}], result : Locals \cup {None}]
  <2>1. EmptyFrame(Main) \in F
    BY <1>3
  <2> HIDE DEF F
  <2>2. stack \in Seq(F)
    BY <1>2, <2>1
  <2> QED BY <1>2, <2>2 DEF Sequences, F
<1>5. /\ Len(stack) = 1 /\ Len(objects) = 0
      /\ stack[1].fn = Main /\ \A l \in Locals : stack[1].env[l] = None
  BY <1>2 DEF EmptyFrame
<1>6. \A i \in 1 .. Len(stack) : i = 1
  BY <1>5
<1>7. \A i \in 1 .. Len(objects) : FALSE
  BY <1>5
<1> HIDE DEF a
<1>8. RunOK(a, objects, stack)
  BY <1>2, <1>5, <1>6, <1>7 DEF RunOK, ObjectsOK, FramesOK
<1>9. Placed(a, objects, stack, {})
  BY <1>5, <1>6 DEF Placed, HeldOK, LocalsSeen, MembersSeen, DirectNamed
<1> QED BY <1>1, <1>4, <1>8, <1>9 DEF EscapeInv, a

\* What is held is within every H of the invariant.
LEMMA HeldWithin ==
  ASSUME Sequences, RunOK(Analysis, objects, stack),
         NEW H, Placed(Analysis, objects, stack, H)
  PROVE  Held \subseteq H
<1> DEFINE X == H \cup {None}
<1>1. \A i \in 1 .. Len(stack) : \A l \in Locals : stack[i].env[l] \in X
  BY DEF Placed, HeldOK
<1>2. \A o \in X : Member(o) \in X
  BY DEF Placed, HeldOK, Member
<1> HIDE DEF X
<1>3. Held \subseteq X \ {None}
  BY <1>1, <1>2, HeldLeast
<1> QED BY <1>3 DEF X

LEMMA InvImpliesSound == EscapeInv => DirectlyStoredSound
<1> SUFFICES ASSUME EscapeInv PROVE DirectlyStoredSound
  OBVIOUS
<1>1. EscapeTypeOK
  BY DEF EscapeInv, RunOK, ObjectsOK, FramesOK, EscapeTypeOK
<1>2. ASSUME StoresAreDirect PROVE ScopedDoesNotOutliveCall
  <2>1. PICK H : Placed(Analysis, objects, stack, H)
    BY <1>2 DEF EscapeInv
  <2>2. Held \subseteq H
    BY <2>1, HeldWithin DEF EscapeInv
  <2>3. \A o \in H : objects[o].frame = 0 => o \notin Scoped
    BY <2>1 DEF Placed, HeldOK, InArena, Analysis, Scoped
  <2> QED BY <2>2, <2>3 DEF ScopedDoesNotOutliveCall
<1> QED BY <1>1, <1>2 DEF DirectlyStoredSound

LEMMA InvImpliesCollected == EscapeInv => CollectedHoldsNoScoped
<1> SUFFICES ASSUME EscapeInv, StoresAreDirect,
                    NEW o \in Held \ Scoped, objects[o].next \in Scoped
             PROVE  FALSE
  BY DEF CollectedHoldsNoScoped
<1>1. PICK H : Placed(Analysis, objects, stack, H)
  BY DEF EscapeInv
<1>2. o \in H /\ Sound(Analysis) /\ RunOK(Analysis, objects, stack)
  BY <1>1, HeldWithin, AnalysisSound DEF EscapeInv
<1>3. o \in 1 .. Len(objects) /\ objects[o].next \in 1 .. Len(objects)
  BY <1>1, <1>2 DEF Placed, HeldOK, Scoped
<1>4. \A z \in 1 .. Len(objects) : z \in Scoped <=> InArena(Analysis, objects, z)
  BY DEF InArena, Analysis, Scoped
<1>5. objects[o].next # None
  BY <1>3, EscapeAssumption DEF Sequences, EscapeInv, RunOK, ObjectsOK
<1>6. InArena(Analysis, objects, o)
  BY <1>1, <1>2, <1>3, <1>4, <1>5, OwnerInArena
<1> QED BY <1>3, <1>4, <1>6

-----------------------------------------------------------------------------
(* A step keeps the invariant. *)

AnalysisIsSound == Sound(Analysis)

LEMMA AnalysisSoundHolds == TypedCode => AnalysisIsSound
BY AnalysisSound DEF AnalysisIsSound

LEMMA AnalysisSoundNext == TypedCode' => AnalysisIsSound'
BY AnalysisSoundHolds, PTL

\* What the invariant says of the state, in the analysis of the grown program.
LEMMA InvGrows ==
  ASSUME EscapeInv, TypedCode', outline' = outline,
         \A f \in Functions : code[f] \subseteq code'[f]
  PROVE  /\ Sound(Analysis') /\ RunOK(Analysis', objects, stack)
         /\ StoresAreDirect' => \E H : Placed(Analysis', objects, stack, H)
<1> DEFINE a == Analysis
           b == Analysis'
<1>1. Sound(a) /\ Sound(b) /\ Grows(a, b)
  BY AnalysisSound, AnalysisSoundNext, AnalysisGrows DEF EscapeInv, AnalysisIsSound
<1>2. RunOK(a, objects, stack)
  BY DEF EscapeInv
<1>3. ASSUME StoresAreDirect' PROVE StoresAreDirect
  <2> SUFFICES ASSUME NEW f \in Functions, NEW o \in OfKind(f, {"assign"})
               PROVE  o.to.depth = 1 /\ o.to.local \notin ReadOut(f)
    BY DEF StoresAreDirect
  <2>1. o \in OfKind(f, {"assign"})'
    BY DEF OfKind
  <2>2. o.to.depth = 1 /\ o.to.local \notin ReadOut(f)'
    BY <1>3, <2>1 DEF StoresAreDirect
  <2>3. ReadOut(f) \subseteq ReadOut(f)'
    BY <1>1 DEF Grows, Analysis
  <2> QED BY <2>2, <2>3
<1> HIDE DEF a, b
<1>4. RunOK(b, objects, stack)
  BY <1>1, <1>2, RunGrows
<1>5. ASSUME StoresAreDirect' PROVE \E H : Placed(b, objects, stack, H)
  <2>1. PICK H : Placed(a, objects, stack, H)
    BY <1>3, <1>5 DEF EscapeInv, a
  <2>2. Placed(b, objects, stack, H)
    BY <1>1, <1>2, <2>1, PlacedGrows
  <2> QED BY <2>2
<1> QED BY <1>1, <1>4, <1>5 DEF b

\* The last of a sequence of frames with a new value in a local.
Frame == [fn : Functions, env : [Locals -> Nat \cup {None}], result : Locals \cup {None}]
Object == [fn : Functions, site : AnyOperation, frame : Nat, next : Nat \cup {None}]

LEMMA BindFacts ==
  ASSUME NEW stk, stk \in Seq(Frame), Len(stk) # 0, NEW l, l \in Locals,
         NEW v, v \in Nat \cup {None},
         NEW next, next = [stk EXCEPT ![Len(stk)].env[l] = v]
  PROVE  next \in Seq(Frame) /\ Rebound(stk, next, l, v)
<1> DEFINE top == Len(stk)
           F == [stk[top] EXCEPT !.env[l] = v]
<1>1. top \in Nat /\ top \in 1 .. top /\ DOMAIN stk = 1 .. top /\ stk[top] \in Frame
  <2>1. top \in Nat /\ DOMAIN stk = 1 .. top
    OBVIOUS
  <2>2. top \in 1 .. top
    BY <2>1
  <2> QED BY <2>1, <2>2
<1>2. /\ F \in Frame /\ F.fn = stk[top].fn /\ F.result = stk[top].result
      /\ \A k \in Locals : F.env[k] = IF k = l THEN v ELSE stk[top].env[k]
  <2>1. F = [stk[top] EXCEPT !.env = [stk[top].env EXCEPT ![l] = v]]
    BY <1>1 DEF Frame
  <2> DEFINE E == [stk[top].env EXCEPT ![l] = v]
  <2>2. stk[top].env \in [Locals -> Nat \cup {None}]
    BY <1>1 DEF Frame
  <2>3. E \in [Locals -> Nat \cup {None}] /\ \A k \in Locals : E[k] = IF k = l THEN v ELSE stk[top].env[k]
    BY <2>2
  <2> HIDE DEF E
  <2>4. F = [stk[top] EXCEPT !.env = E]
    BY <2>1 DEF E
  <2> HIDE DEF F, top
  <2>5. F \in Frame /\ F.fn = stk[top].fn /\ F.result = stk[top].result /\ F.env = E
    BY <1>1, <2>3, <2>4 DEF Frame
  <2> QED BY <2>3, <2>5
<1>3. next = [stk EXCEPT ![top] = F]
  OBVIOUS
<1> HIDE DEF top, F
<1>4. next \in Seq(Frame) /\ Len(next) = Len(stk)
      /\ \A i \in 1 .. Len(stk) : next[i] = IF i = top THEN F ELSE stk[i]
  BY <1>1, <1>2, <1>3 DEF top
<1> QED BY <1>1, <1>2, <1>4 DEF Rebound, top

\* The value of an operation is what is read of its place.
LEMMA ValueIsRead ==
  ASSUME NEW o, WellFormed(o)
  PROVE  Value(o.value) = ReadAt(objects, stack[Len(stack)].env, o.value)
BY DEF WellFormed, Value, ReadAt, Member, Top

\* The step of the operation o, in a program that has it: b is the analysis of
\* the program that is left.
LEMMA OperationStep ==
  ASSUME Sequences, NEW b, Sound(b), RunOK(b, objects, stack),
         NEW o, o \in b.code[Top.fn], o \in AnyOperation,
         Construct(o) \/ Copy(o) \/ Store(o) \/ Call(o) \/ Return(o)
  PROVE  /\ objects' \in Seq(Object) /\ stack' \in Seq(Frame)
         /\ RunOK(b, objects', stack')
         /\ (\A f \in Functions : \A c \in b.code[f] :
               c.kind = "assign" => c.to.depth = 1 /\ c.to.local \notin b.readOut[f])
              => \A H : Placed(b, objects, stack, H) => \E G : Placed(b, objects', stack', G)
<1> DEFINE top == Len(stack)
           v == Value(o.value)
           l == o.to.local
           Kept(more, next) == \A H : Placed(b, objects, stack, H) => \E G : Placed(b, more, next, G)
           Direct == \A f \in Functions : \A c \in b.code[f] :
               c.kind = "assign" => c.to.depth = 1 /\ c.to.local \notin b.readOut[f]
<1>0. objects \in Seq(Object) /\ stack \in Seq(Frame) /\ Top = stack[top]
  BY DEF Sequences, Object, Frame, Top
<1>1. /\ top \in Nat /\ top # 0 /\ top \in 1 .. top /\ Top.fn \in Functions
      /\ Len(objects) \in Nat
  <2>1. top \in Nat \ {0} /\ Len(objects) \in Nat
    BY DEF RunOK, FramesOK, ObjectsOK
  <2>2. top \in 1 .. top
    BY <2>1
  <2> QED BY <1>0, <2>1, <2>2 DEF RunOK, FramesOK
<1>2. SoundOperation(b, Top.fn, o) /\ WellFormed(o)
  BY <1>1 DEF Sound, SoundOperation
<1>3. Running(b, objects, stack, o, v)
  BY <1>0, <1>2, ValueIsRead DEF Running
<1>4. v \in {None} \cup 1 .. Len(objects)
  BY <1>3, RunningFacts
<1>5. v \in Nat \cup {None}
  BY <1>1, <1>4
<1>6. o.kind # "return" => l \in Locals
  BY <1>2 DEF WellFormed
<1>7. l \in Locals => \A x \in {None} \cup Nat : Bind(l, x) =>
         stack' \in Seq(Frame) /\ Rebound(stack, stack', l, x)
  BY <1>0, <1>1, BindFacts DEF Bind
<1> HIDE DEF top, v, l
<1>a. CASE Construct(o)
  <2> DEFINE n == [fn |-> Top.fn, site |-> o, frame |-> top, next |-> v]
             new == Len(objects) + 1
  <2>1. o.kind = "struct" /\ objects' = Append(objects, n) /\ Bind(l, new)
    BY <1>a DEF Construct, top, v, l
  <2>2. n \in Object
    BY <1>1, <1>5 DEF Object
  <2>3. new \in Nat
    BY <1>1
  <2>4. n.fn = Top.fn /\ n.site = o /\ n.frame = top /\ n.next = v
    OBVIOUS
  <2> HIDE DEF n
  <2>5. objects' \in Seq(Object) /\ Allocated(objects, objects', n)
    BY <1>0, <2>1, <2>2 DEF Allocated
  <2>6. stack' \in Seq(Frame) /\ Rebound(stack, stack', l, new)
    BY <1>6, <1>7, <2>1, <2>3
  <2>7. RunOK(b, objects', stack') /\ Kept(objects', stack')
    <3>1. /\ n.fn = stack[Len(stack)].fn /\ n.site = o /\ n.frame = Len(stack) /\ n.next = v
          /\ Rebound(stack, stack', o.to.local, new) /\ o.kind = "struct"
      BY <1>0, <2>1, <2>4, <2>6 DEF top, l
    <3>2. new = Len(objects) + 1
      OBVIOUS
    <3> HIDE DEF new
    <3> QED BY ONLY <1>3, <2>5, <3>1, <3>2, ConstructRun
  <2> QED BY <2>5, <2>6, <2>7
<1>b. CASE Copy(o)
  <2>1. o.kind = "copy" /\ Bind(l, v) /\ objects' = objects
    BY <1>b DEF Copy, v, l
  <2>2. stack' \in Seq(Frame) /\ Rebound(stack, stack', l, v)
    BY <1>5, <1>6, <1>7, <2>1
  <2>3. RunOK(b, objects, stack') /\ Kept(objects, stack')
    BY <1>3, <2>1, <2>2, CopyRun DEF l
  <2> QED BY <1>0, <2>1, <2>2, <2>3
<1>c. CASE Store(o)
  <2> DEFINE owner == IF o.kind = "assign" THEN Owner(o.to) ELSE Value(o.to)
  <2>1. /\ o.kind \in {"assign", "retain"} /\ owner # None
        /\ objects' = [objects EXCEPT ![owner].next = v] /\ stack' = stack
    BY <1>c DEF Store, v
  <2> HIDE DEF owner
  <2>2. objects' \in Seq(Object) /\ Stored(objects, objects', owner, v)
    <3>1. DOMAIN objects = 1 .. Len(objects) /\ objects \in [1 .. Len(objects) -> Object]
      BY <1>0
    <3>2. CASE owner \in 1 .. Len(objects)
      <4> DEFINE n == [objects[owner] EXCEPT !.next = v]
      <4>1. objects[owner] \in Object
        BY <3>1, <3>2
      <4>2. n \in Object /\ n.fn = objects[owner].fn /\ n.site = objects[owner].site
            /\ n.frame = objects[owner].frame /\ n.next = v
        BY <1>5, <4>1 DEF Object
      <4>3. objects' = [objects EXCEPT ![owner] = n]
        BY <2>1
      <4> HIDE DEF n
      <4>4. objects' \in Seq(Object) /\ Len(objects') = Len(objects)
            /\ \A y \in 1 .. Len(objects) : objects'[y] = IF y = owner THEN n ELSE objects[y]
        BY <1>0, <3>1, <3>2, <4>2, <4>3
      <4> QED BY <4>2, <4>4 DEF Stored
    <3>3. CASE owner \notin 1 .. Len(objects)
      <4>1. objects' = objects
        BY <2>1, <3>1, <3>3
      <4> QED BY <1>0, <3>3, <4>1 DEF Stored
    <3> QED BY <3>2, <3>3
  <2>3. RunOK(b, objects', stack)
    BY <1>4, <2>2, RunStored
  <2>4. ASSUME Direct PROVE Kept(objects', stack)
    <3>1. owner = stack[top].env[l] /\ (o.kind = "assign" => l \notin b.readOut[stack[top].fn])
      <4>1. CASE o.kind = "assign"
        <5>1. o.to.depth = 1 /\ l \notin b.readOut[Top.fn]
          BY <1>1, <2>4, <4>1 DEF l
        <5> QED BY <1>0, <4>1, <5>1 DEF owner, Owner, l
      <4>2. CASE o.kind = "retain"
        <5>1. o.to.depth = 0 /\ o.to # Constant
          BY <1>2, <1>6, <4>2, EscapeAssumption DEF WellFormed, l, Constant, Place
        <5> QED BY <1>0, <4>2, <5>1 DEF owner, Value, l
      <4> QED BY <2>1, <4>1, <4>2
    <3>2. \A H : Placed(b, objects, stack, H) => Placed(b, objects', stack, H)
      <4>1. /\ o.kind \in {"assign", "retain"} /\ owner # None
            /\ owner = stack[Len(stack)].env[o.to.local]
            /\ o.kind = "assign" => o.to.local \notin b.readOut[stack[Len(stack)].fn]
        BY <2>1, <3>1 DEF top, l
      <4> QED BY ONLY <1>3, <2>2, <4>1, StoreRun
    <3> QED BY <3>2
  <2> QED BY <1>0, <2>1, <2>2, <2>3, <2>4
<1>d. CASE Call(o)
  <2> DEFINE F == [EmptyFrame(o.callee) EXCEPT !.env[Param] = v, !.result = l]
  <2>1. o.kind = "call" /\ stack' = Append(stack, F) /\ objects' = objects
    BY <1>d DEF Call, v, l
  <2>2. o.callee \in Functions
    BY <1>2, <2>1 DEF SoundOperation
  <2>3. /\ F \in Frame /\ F.fn = o.callee /\ F.result = l
        /\ \A k \in Locals : F.env[k] = IF k = Param THEN v ELSE None
    BY <1>5, <1>6, <2>1, <2>2, EscapeAssumption DEF EmptyFrame, Frame
  <2> HIDE DEF F
  <2>4. stack' \in Seq(Frame) /\ Pushed(stack, stack', o.callee, v, l)
    BY <1>0, <2>1, <2>3 DEF Pushed
  <2>5. RunOK(b, objects, stack') /\ Kept(objects, stack')
    BY <1>3, <2>1, <2>4, CallRun DEF l
  <2> QED BY <1>0, <2>1, <2>4, <2>5
<1>e. CASE Return(o)
  <2> DEFINE caller == top - 1
             rest == SubSeq(stack, 1, caller)
             r == Top.result
  <2>1. /\ o.kind = "return" /\ top > 1
        /\ stack' = [rest EXCEPT ![caller].env[r] = v]
        /\ objects' = [i \in 1 .. Len(objects) |->
              IF objects[i].frame = top THEN [objects[i] EXCEPT !.frame = 0] ELSE objects[i]]
    BY <1>e DEF Return, Popped, top, v
  <2>2. caller \in Nat /\ caller # 0 /\ top # 1 /\ 1 .. caller \subseteq 1 .. top
    BY <1>1, <2>1
  <2>3. rest \in Seq(Frame) /\ Len(rest) = caller /\ \A i \in 1 .. caller : rest[i] = stack[i]
    <3>1. 1 .. caller \subseteq 1 .. Len(stack)
      BY <2>2 DEF top
    <3> HIDE DEF caller
    <3>2. rest \in Seq(Frame) /\ Len(rest) = caller
      BY <1>0, <1>1, <2>2, <3>1
    <3>3. \A i \in 1 .. caller : rest[i] = stack[i]
      BY <1>0, <1>1, <2>2, <3>1
    <3> QED BY <3>2, <3>3
  <2>4. r \in Locals
    BY <1>0, <1>1, <2>2 DEF RunOK, FramesOK, top
  <2> HIDE DEF rest, caller, r
  <2>5. stack' \in Seq(Frame) /\ Rebound(rest, stack', r, v)
    BY <1>5, <2>1, <2>2, <2>3, <2>4, BindFacts
  <2>6. objects' \in Seq(Object) /\ Cut(objects, objects', stack, rest)
    <3>1. ASSUME NEW i \in 1 .. Len(objects)
          PROVE  /\ objects'[i] \in Object
                 /\ objects'[i].fn = objects[i].fn /\ objects'[i].site = objects[i].site
                 /\ objects'[i].next = objects[i].next
                 /\ objects'[i].frame = IF objects[i].frame = top THEN 0 ELSE objects[i].frame
      <4>1. objects[i] \in Object
        BY <1>0
      <4>2. objects'[i] = IF objects[i].frame = top THEN [objects[i] EXCEPT !.frame = 0] ELSE objects[i]
        BY <2>1
      <4> QED BY <4>1, <4>2 DEF Object
    <3>2. objects' \in [1 .. Len(objects) -> Object]
      BY <2>1, <3>1
    <3>3. objects' \in Seq(Object) /\ Len(objects') = Len(objects)
      BY <1>1, <3>2
    <3> QED BY <2>3, <3>1, <3>3 DEF Cut, top, caller
  <2>7. RunOK(b, objects', stack') /\ Kept(objects', stack')
    <3>1. /\ o.kind = "return" /\ Len(stack) > 1
          /\ Rebound(rest, stack', stack[Len(stack)].result, v)
      BY <1>0, <2>1, <2>5 DEF top, r
    <3> QED BY ONLY <1>3, <2>6, <3>1, ReturnRun
  <2> QED BY <2>5, <2>6, <2>7
<1> QED BY <1>a, <1>b, <1>c, <1>d, <1>e

LEMMA EscapeStep == EscapeInv /\ [Next]_vars => EscapeInv'
<1> SUFFICES ASSUME EscapeInv, [Next]_vars PROVE EscapeInv'
  OBVIOUS
<1>1. CASE UNCHANGED vars
  <2>1. /\ outline' = outline /\ code' = code /\ objects' = objects /\ stack' = stack
    BY <1>1 DEF vars
  <2>2. TypedCode' /\ Sequences'
    BY <2>1 DEF EscapeInv, TypedCode, Sequences, AnyOperation, Operations, MayCall, Containers
  <2>3. /\ RunOK(Analysis', objects, stack)
        /\ StoresAreDirect' => \E H : Placed(Analysis', objects, stack, H)
    BY <2>1, <2>2, InvGrows
  <2> QED BY <2>1, <2>2, <2>3 DEF EscapeInv
<1>2. ASSUME NEW o \in Operations(Top.fn), Run(o) PROVE EscapeInv'
  <2> DEFINE f == Top.fn
             b == Analysis'
             Direct == \A g \in Functions : \A c \in b.code[g] :
               c.kind = "assign" => c.to.depth = 1 /\ c.to.local \notin b.readOut[g]
  <2>1. f \in Functions
    <3>1. Len(stack) \in Nat \ {0}
      BY DEF EscapeInv, RunOK, FramesOK
    <3>2. Len(stack) \in 1 .. Len(stack)
      BY <3>1
    <3> QED BY <3>2 DEF EscapeInv, RunOK, FramesOK, Top
  <2>2. outline' = outline /\ code' = [code EXCEPT ![f] = @ \cup {o}]
    BY <1>2 DEF Run
  <2>3. AnyOperation' = AnyOperation /\ \A g \in Functions : Operations(g)' = Operations(g)
    BY <2>2 DEF AnyOperation, Operations, MayCall, Containers
  <2>4. o \in Operations(f) /\ o \in AnyOperation
    BY <1>2, <2>1 DEF AnyOperation
  <2>5. \A g \in Functions :
           /\ code[g] \subseteq Operations(g) /\ IsFiniteSet(code[g])
           /\ code'[g] = IF g = f THEN code[g] \cup {o} ELSE code[g]
    BY <2>2 DEF EscapeInv, TypedCode
  <2> HIDE DEF f
  <2>6. TypedCode' /\ o \in code'[f] /\ \A g \in Functions : code[g] \subseteq code'[g]
    <3>1. \A g \in Functions : IsFiniteSet(code'[g]) /\ code'[g] \subseteq Operations(g)
      <4> TAKE g \in Functions
      <4>1. CASE g = f
        <5>1. IsFiniteSet(code[g] \cup {o})
          BY <2>5, FS_AddElement
        <5>2. code'[g] = code[g] \cup {o}
          BY <2>5, <4>1
        <5>3. code[g] \cup {o} \subseteq Operations(g)
          BY <2>4, <2>5, <4>1
        <5> QED BY <5>1, <5>2, <5>3
      <4>2. CASE g # f
        BY <2>5, <4>2
      <4> QED BY <4>1, <4>2
    <3>2. outline' \in Outlines
      BY <2>2 DEF EscapeInv, TypedCode
    <3>3. code' \in [Functions -> SUBSET AnyOperation]
      <4>1. code \in [Functions -> SUBSET AnyOperation]
        BY DEF EscapeInv, TypedCode, AnyOperation
      <4> QED BY <2>2, <2>4, <4>1
    <3>4. \A g \in Functions : code'[g] \subseteq Operations(g)' /\ IsFiniteSet(code'[g])
      BY <2>3, <3>1
    <3>5. code' \in [Functions -> SUBSET UNION {Operations(g)' : g \in Functions}]
      BY <2>3, <3>3 DEF AnyOperation
    <3>6. TypedCode'
      BY ONLY <3>2, <3>4, <3>5 DEF TypedCode
    <3> QED BY <2>1, <2>5, <3>6
  <2>7. /\ Sound(b) /\ RunOK(b, objects, stack)
        /\ StoresAreDirect' => \E H : Placed(b, objects, stack, H)
    BY <2>2, <2>6, InvGrows
  <2>8. b.code = code'
    BY DEF Analysis
  <2>9. StoresAreDirect' => Direct
    BY DEF StoresAreDirect, Analysis, OfKind
  <2> HIDE DEF b, Direct
  <2>10. Construct(o) \/ Copy(o) \/ Store(o) \/ Call(o) \/ Return(o)
    BY <1>2 DEF Run
  <2>11. Sequences /\ o \in b.code[Top.fn]
    BY <2>6, <2>8 DEF EscapeInv, f
  <2>12. /\ objects' \in Seq(Object) /\ stack' \in Seq(Frame) /\ RunOK(b, objects', stack')
         /\ Direct => \A H : Placed(b, objects, stack, H) => \E G : Placed(b, objects', stack', G)
    BY <2>4, <2>7, <2>10, <2>11, OperationStep DEF Direct
  <2>13. Sequences'
    BY <2>3, <2>12 DEF Sequences, Object, Frame
  <2>14. RunOK(Analysis', objects', stack')
    BY <2>12 DEF b
  <2>15. StoresAreDirect' => \E G : Placed(Analysis', objects', stack', G)
    BY <2>7, <2>9, <2>12 DEF b
  <2> QED BY <2>6, <2>13, <2>14, <2>15 DEF EscapeInv
<1> QED BY <1>1, <1>2 DEF Next

-----------------------------------------------------------------------------
(* The theorems. *)

\* The types of every state, the summary of what runs, and, in a program whose
\* stores are direct, what is held and where the analysis has seen it: the
\* inductive invariant (escape.rs analyse_function, analyze).
THEOREM EscapeInvariance == Spec => []EscapeInv
<1>1. Init => EscapeInv
  BY EscapeInitInv
<1>2. EscapeInv /\ [Next]_vars => EscapeInv'
  BY EscapeStep
<1> QED BY <1>1, <1>2, PTL DEF Spec

\* In every program whose stores are direct, whatever it copies, loads,
\* returns, passes down a chain of calls or keeps in a container, no object of
\* a call that has returned is in the scoped arena while a frame reaches it.
THEOREM DirectStoresAreSound == Spec => []DirectlyStoredSound
<1>1. EscapeInv => DirectlyStoredSound
  BY InvImpliesSound
<1> QED BY <1>1, EscapeInvariance, PTL

\* ... and no reachable object of the collected heap refers to a scoped one,
\* at any time: a collection never has to keep scoped storage alive.
THEOREM CollectedNeverHoldsScoped == Spec => []CollectedHoldsNoScoped
<1>1. EscapeInv => CollectedHoldsNoScoped
  BY InvImpliesCollected
<1> QED BY <1>1, EscapeInvariance, PTL

=============================================================================
