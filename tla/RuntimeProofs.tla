--------------------------- MODULE RuntimeProofs ---------------------------
(***************************************************************************)
(* The parts of the runtime, for every choice of their constants: what     *)
(* each keeps is an inductive invariant of its own, and since a step is a  *)
(* step of one part and leaves the others alone, each holds of the whole.  *)
(*                                                                         *)
(* Scoped arena: marks are boundaries in front of the frontier, and every  *)
(* block lies between the mark of its call and the next block or mark.     *)
(* Trace table: a map's table with keys for entries, at most half full.    *)
(* Loops: the invariant of IterationProofs.  Arithmetic: what is evaluated *)
(* has passed all its checks, and each operation's bounds are exact.       *)
(* Entry: no text is twice among the literals and the pool, and a pointer  *)
(* given keeps its text.                                                   *)
(***************************************************************************)
EXTENDS Runtime, OrderedMapProofs, SequenceTheorems

-----------------------------------------------------------------------------
(* The scoped arena. *)

\* Rounding up gives the first multiple that is not smaller.
LEMMA RoundedUp ==
  ASSUME NEW n \in Nat, NEW unit \in Nat \ {0}
  PROVE  /\ Scoped!RoundUp(n, unit) \in Nat /\ Scoped!RoundUp(n, unit) % unit = 0
         /\ n <= Scoped!RoundUp(n, unit) /\ Scoped!RoundUp(n, unit) < n + unit
<1> DEFINE x == (n + unit) - 1
           q == x \div unit
           r == x % unit
<1>1. x \in Nat
  OBVIOUS
<1>2. r \in 0 .. unit - 1 /\ q \in Nat /\ x = (unit * q) + r
  BY <1>1, Remainder
<1>3. Scoped!RoundUp(n, unit) = q * unit
  BY DEF Scoped!RoundUp
<1>4. x = (n + unit) - 1
  OBVIOUS
<1> HIDE DEF x, q, r
<1>5. q * unit = unit * q /\ q * unit \in Nat
  BY <1>2
<1>6. ((unit * q) + 0) % unit = 0
  BY <1>2, RemainderOfSum
<1>7. (q * unit) % unit = 0
  BY <1>2, <1>5, <1>6
<1> DEFINE m == q * unit
<1>8. m \in Nat /\ x = m + r
  BY <1>2, <1>5
<1> HIDE DEF m
<1>9. n <= m /\ m < n + unit
  BY <1>2, <1>4, <1>8
<1> QED BY <1>3, <1>5, <1>7, <1>9 DEF m

\* Rounding behind a multiple is rounding from it.
LEMMA RoundedFrom ==
  ASSUME NEW m \in Nat, NEW n \in Nat, NEW unit \in Nat \ {0}, m % unit = 0
  PROVE  Scoped!RoundUp(m + n, unit) = m + Scoped!RoundUp(n, unit)
<1> DEFINE x == (n + unit) - 1
           q == x \div unit
           r == x % unit
           a == m \div unit
           y == ((m + n) + unit) - 1
<1>1. x \in Nat /\ y \in Nat /\ y = m + x
  OBVIOUS
<1>2. r \in 0 .. unit - 1 /\ q \in Nat /\ x = (unit * q) + r
  BY <1>1, Remainder
<1>3. a \in Nat /\ m = (unit * a) + 0
  BY Remainder
<1>4. y % unit \in 0 .. unit - 1 /\ y \div unit \in Nat /\ y = (unit * (y \div unit)) + (y % unit)
  BY <1>1, Remainder
<1>5. Scoped!RoundUp(n, unit) = q * unit /\ Scoped!RoundUp(m + n, unit) = (y \div unit) * unit
  BY DEF Scoped!RoundUp
<1> DEFINE b == y \div unit
           s == y % unit
<1> HIDE DEF x, q, r, a, y, b, s
<1>6. y = (unit * (a + q)) + r
  BY <1>1, <1>2, <1>3
<1>7. s = r
  <2>1. ((unit * (a + q)) + r) % unit = r
    BY <1>2, <1>3, RemainderOfSum
  <2> QED BY <1>6, <2>1 DEF s
<1>8. y = (unit * b) + s /\ b \in Nat /\ s \in 0 .. unit - 1
  BY <1>4 DEF b, s
<1>9. unit * b = unit * (a + q)
  BY <1>2, <1>3, <1>6, <1>7, <1>8
<1>10. b * unit = unit * b /\ q * unit = unit * q /\ unit * (a + q) = (unit * a) + (unit * q)
  BY <1>2, <1>3, <1>8
<1> QED BY <1>3, <1>5, <1>9, <1>10 DEF b

LEMMA RoundedMultiple ==
  ASSUME NEW m \in Nat, NEW unit \in Nat \ {0}, m % unit = 0
  PROVE  Scoped!RoundUp(m, unit) = m
<1> DEFINE z == Scoped!RoundUp(0, unit)
<1>1. z \in Nat /\ z % unit = 0 /\ z < unit
  <2>1. z \in Nat /\ z % unit = 0 /\ z < 0 + unit
    BY RoundedUp
  <2> QED BY <2>1
<1>2. Scoped!RoundUp(m + 0, unit) = m + z
  BY RoundedFrom
<1> HIDE DEF z
<1>3. z = 0
  <2>1. ((unit * 0) + z) % unit = z
    BY <1>1, RemainderOfSum
  <2> QED BY <1>1, <2>1
<1> QED BY <1>2, <1>3

\* What a sequence holds has the type of its elements.
LEMMA ElementIn ==
  ASSUME NEW S, NEW s \in Seq(S), NEW i \in DOMAIN s
  PROVE  s[i] \in S
OBVIOUS

Spans(block) == block.offset + Scoped!Stored(block.size)
Mark == [mark : Nat, blocks : Seq([offset : Nat, size : Nat])]

\* A mark is a boundary in front of the frontier.
Marks(c) ==
  /\ calls[c].mark \in Scoped!Cursor .. frontier
  /\ calls[c].mark % Alignment = 0
  /\ \A d \in DOMAIN calls : c < d => calls[c].mark <= calls[d].mark

\* A block lies behind the mark of its call and in front of the later blocks of
\* its call, of the marks of later calls and of the frontier.
Lies(c, b) ==
  LET block == calls[c].blocks[b]
  IN  /\ block.offset % Alignment = 0
      /\ calls[c].mark <= block.offset /\ Spans(block) <= frontier
      /\ \A d \in DOMAIN calls : c < d => Spans(block) <= calls[d].mark
      /\ \A e \in DOMAIN calls[c].blocks : b < e => Spans(block) <= calls[c].blocks[e].offset

ScopedInv ==
  /\ frontier \in Nat /\ Scoped!Cursor <= frontier /\ frontier % Alignment = 0
  /\ committed \in Nat /\ refused \in Nat
  /\ calls \in Seq(Mark)
  /\ \A c \in DOMAIN calls : Marks(c)
  /\ \A c \in DOMAIN calls : \A b \in DOMAIN calls[c].blocks : Lies(c, b)
  /\ (\E c \in DOMAIN calls : calls[c].blocks # <<>>) => frontier <= committed
  /\ Scoped!ScopedExhaustionIsReal

LEMMA ArenaFacts ==
  /\ ArenaCapacity \in Nat \ {0} /\ OffsetMax \in Nat /\ WordMax \in Nat
  /\ Page \in Nat \ {0} /\ Alignment \in Nat \ {0}
  /\ BodySizes \subseteq Nat
  /\ ArenaCapacity <= OffsetMax + 1 /\ OffsetMax < WordMax
  /\ Scoped!Cursor = Alignment
  /\ \A size \in Nat : Scoped!Stored(size) \in Nat \ {0}
BY RuntimeAssumption DEF Scoped!ArenaAssumption, Scoped!Cursor, Scoped!Stored

LEMMA ScopedInitInv == Scoped!Init => ScopedInv
<1>1. Alignment % Alignment = 0
  <2>1. ((Alignment * 1) + 0) % Alignment = 0
    BY ArenaFacts, RemainderOfSum
  <2>2. (Alignment * 1) + 0 = Alignment
    BY ArenaFacts
  <2> QED BY <2>1, <2>2
<1> QED BY <1>1, ArenaFacts DEF Scoped!Init, ScopedInv, Scoped!ScopedExhaustionIsReal

\* A call puts a mark at the frontier.
LEMMA ScopedCallInv == ScopedInv /\ Scoped!Call => ScopedInv'
<1> SUFFICES ASSUME ScopedInv, Scoped!Call PROVE ScopedInv'
  OBVIOUS
<1> DEFINE new == [mark |-> frontier, blocks |-> <<>>]
<1>1. new \in Mark /\ new.mark = frontier /\ new.blocks = <<>>
  BY DEF ScopedInv, Mark
<1>2. calls \in Seq(Mark) /\ Len(calls) \in Nat /\ DOMAIN calls = 1 .. Len(calls)
  BY DEF ScopedInv
<1>3. /\ calls' = Append(calls, new) /\ scopedStatus = "ok"
      /\ UNCHANGED <<frontier, committed, scopedStatus, refused>>
  BY DEF Scoped!Call
<1> HIDE DEF new
<1>4. /\ calls' \in Seq(Mark) /\ DOMAIN calls' = 1 .. Len(calls) + 1
      /\ \A c \in DOMAIN calls : calls'[c] = calls[c]
      /\ calls'[Len(calls) + 1] = new
  BY <1>1, <1>2, <1>3
<1>5. \A c \in DOMAIN calls' : Marks(c)'
  BY <1>1, <1>2, <1>3, <1>4 DEF ScopedInv, Marks, Scoped!Cursor
<1>6. \A c \in DOMAIN calls' : \A b \in DOMAIN calls'[c].blocks : Lies(c, b)'
  BY <1>1, <1>2, <1>3, <1>4 DEF ScopedInv, Lies, Spans, Scoped!Stored
<1>7. (\E c \in DOMAIN calls' : calls'[c].blocks # <<>>) => frontier' <= committed'
  BY <1>1, <1>2, <1>3, <1>4 DEF ScopedInv
<1>8. Scoped!ScopedExhaustionIsReal'
  BY <1>3 DEF Scoped!ScopedExhaustionIsReal
<1> QED BY <1>3, <1>4, <1>5, <1>6, <1>7, <1>8 DEF ScopedInv, Scoped!Cursor

\* What a request takes begins at the frontier and ends at the next boundary.
LEMMA RequestEnds ==
  ASSUME ScopedInv, NEW size \in BodySizes
  PROVE  /\ Scoped!Start = frontier
         /\ Scoped!End(size) = frontier + Scoped!RoundUp(Scoped!Stored(size), Alignment)
         /\ Scoped!End(size) \in Nat /\ Scoped!End(size) % Alignment = 0
         /\ frontier + Scoped!Stored(size) <= Scoped!End(size)
<1>1. frontier \in Nat /\ frontier % Alignment = 0 /\ Alignment \in Nat \ {0}
      /\ Scoped!Stored(size) \in Nat \ {0}
  BY ArenaFacts DEF ScopedInv
<1>2. Scoped!Start = frontier
  BY <1>1, RoundedMultiple DEF Scoped!Start
<1> DEFINE n == Scoped!Stored(size)
<1>3. n \in Nat /\ frontier + n \in Nat /\ Scoped!End(size) = Scoped!RoundUp(frontier + n, Alignment)
  BY <1>1, <1>2 DEF Scoped!End
<1> HIDE DEF n
<1>4. Scoped!End(size) = frontier + Scoped!RoundUp(n, Alignment)
  BY <1>1, <1>3, RoundedFrom
<1>5. /\ Scoped!End(size) \in Nat /\ Scoped!End(size) % Alignment = 0
      /\ frontier + n <= Scoped!End(size)
  BY <1>1, <1>3, RoundedUp
<1> QED BY <1>2, <1>4, <1>5 DEF n

LEMMA AllocateScopedInv ==
  ASSUME ScopedInv, NEW size \in BodySizes, Scoped!AllocateScoped(size)
  PROVE  ScopedInv'
<1> DEFINE top == Len(calls)
           new == [offset |-> frontier, size |-> size]
           grown == Append(calls[top].blocks, new)
<1>1. /\ size \in Nat /\ Scoped!Start = frontier
      /\ Scoped!End(size) \in Nat /\ Scoped!End(size) % Alignment = 0
      /\ frontier + Scoped!Stored(size) <= Scoped!End(size)
      /\ Scoped!Stored(size) \in Nat \ {0}
  BY ArenaFacts, RequestEnds
<1>2. /\ calls \in Seq(Mark) /\ calls # <<>> /\ scopedStatus = "ok"
      /\ calls' = [calls EXCEPT ![top].blocks = grown]
      /\ frontier' = Scoped!End(size) /\ UNCHANGED <<scopedStatus, refused>>
      /\ committed' = IF Scoped!CommittedEnd(size) > committed THEN Scoped!CommittedEnd(size) ELSE committed
  BY <1>1 DEF ScopedInv, Scoped!AllocateScoped
<1>3. top \in DOMAIN calls /\ top \in Nat \ {0} /\ DOMAIN calls = 1 .. top /\ calls[top] \in Mark
  BY <1>2
<1>4. frontier \in Nat /\ frontier <= frontier' /\ frontier' \in Nat /\ committed \in Nat
  BY <1>1, <1>2 DEF ScopedInv
<1>5. new \in [offset : Nat, size : Nat] /\ new.offset = frontier /\ new.size = size
  BY <1>1, <1>4
<1> HIDE DEF new
<1>6. /\ calls[top].blocks \in Seq([offset : Nat, size : Nat])
      /\ grown \in Seq([offset : Nat, size : Nat])
      /\ DOMAIN calls[top].blocks = 1 .. Len(calls[top].blocks) /\ Len(calls[top].blocks) \in Nat
      /\ DOMAIN grown = 1 .. Len(calls[top].blocks) + 1
      /\ \A b \in DOMAIN calls[top].blocks : grown[b] = calls[top].blocks[b]
      /\ grown[Len(calls[top].blocks) + 1] = new
  BY <1>3, <1>5 DEF Mark
<1> HIDE DEF grown
<1>7. /\ calls' \in Seq(Mark) /\ DOMAIN calls' = 1 .. top
      /\ \A c \in DOMAIN calls : calls'[c].mark = calls[c].mark
      /\ \A c \in DOMAIN calls : c # top => calls'[c] = calls[c]
      /\ calls'[top].blocks = grown
  BY <1>2, <1>3, <1>6 DEF Mark
<1>8. Spans(new) <= frontier'
  BY <1>1, <1>2, <1>5 DEF Spans
<1> HIDE DEF top
<1>9. \A c \in DOMAIN calls' : Marks(c)'
  BY <1>3, <1>4, <1>7 DEF ScopedInv, Marks, Scoped!Cursor
<1>10. \A c \in DOMAIN calls : \A b \in DOMAIN calls[c].blocks :
         /\ Lies(c, b) /\ Spans(calls[c].blocks[b]) \in Nat
  <2> SUFFICES ASSUME NEW c \in DOMAIN calls, NEW b \in DOMAIN calls[c].blocks
               PROVE  Spans(calls[c].blocks[b]) \in Nat
    BY DEF ScopedInv
  <2>1. calls[c] \in Mark
    BY <1>2, ElementIn
  <2>2. calls[c].blocks \in Seq([offset : Nat, size : Nat])
    BY <2>1 DEF Mark
  <2>3. calls[c].blocks[b] \in [offset : Nat, size : Nat]
    BY <2>2, ElementIn
  <2> QED BY <2>3, ArenaFacts DEF Spans
<1>11. ASSUME NEW c \in DOMAIN calls', NEW b \in DOMAIN calls'[c].blocks
       PROVE  Lies(c, b)'
  <2>1. CASE c # top
    <3>1. calls'[c] = calls[c] /\ Lies(c, b) /\ Spans(calls[c].blocks[b]) \in Nat
      BY <1>3, <1>7, <1>10, <2>1
    <3> QED BY <1>3, <1>4, <1>7, <2>1, <3>1 DEF Lies, Spans, Scoped!Stored
  <2>2. CASE c = top /\ b \in DOMAIN calls[top].blocks
    <3>1. /\ calls'[c].blocks[b] = calls[c].blocks[b] /\ Lies(c, b)
          /\ Spans(calls[c].blocks[b]) \in Nat
          /\ calls'[c].blocks = grown /\ calls[c].blocks = calls[top].blocks
      BY <1>3, <1>6, <1>7, <1>10, <2>2
    <3>2. \A e \in DOMAIN calls'[c].blocks : b < e =>
            Spans(calls[c].blocks[b]) <= calls'[c].blocks[e].offset
      <4> SUFFICES ASSUME NEW e \in DOMAIN grown, b < e
                   PROVE  Spans(calls[c].blocks[b]) <= grown[e].offset
        BY <3>1
      <4>1. CASE e \in DOMAIN calls[top].blocks
        <5>1. Spans(calls[c].blocks[b]) <= calls[c].blocks[e].offset
          BY <3>1, <4>1 DEF Lies
        <5> QED BY <1>6, <3>1, <4>1, <5>1
      <4>2. CASE e \notin DOMAIN calls[top].blocks
        <5> DEFINE k == Len(calls[top].blocks)
        <5>1. k \in Nat /\ e \in 1 .. k + 1 /\ e \notin 1 .. k /\ grown[k + 1] = new
          BY <1>6, <4>2
        <5> HIDE DEF k
        <5>2. e = k + 1 /\ grown[e] = new
          BY <5>1
        <5> QED BY <1>5, <3>1, <5>2 DEF Lies
      <4> QED BY <4>1, <4>2
    <3> QED BY <1>3, <1>4, <1>7, <2>2, <3>1, <3>2 DEF Lies, Spans, Scoped!Stored
  <2>3. CASE c = top /\ b \notin DOMAIN calls[top].blocks
    <3>0. calls'[c].blocks = grown
      BY <1>7, <2>3
    <3>1. b = Len(calls[top].blocks) + 1 /\ calls'[c].blocks[b] = new
      BY <1>6, <2>3, <3>0
    <3>2. calls[top].mark <= frontier /\ frontier % Alignment = 0
      BY <1>3 DEF ScopedInv, Marks
    <3>3. (\A d \in DOMAIN calls' : ~ (c < d)) /\ (\A e \in DOMAIN calls'[c].blocks : ~ (b < e))
      <4>1. \A d \in DOMAIN calls' : ~ (c < d)
        BY <1>3, <1>7, <2>3
      <4>2. \A e \in DOMAIN grown : ~ (b < e)
        BY <1>6, <3>1
      <4> QED BY <3>0, <4>1, <4>2
    <3> QED BY <1>3, <1>5, <1>7, <1>8, <2>3, <3>1, <3>2, <3>3 DEF Lies, Spans, Scoped!Stored
  <2> QED BY <2>1, <2>2, <2>3
<1>12. frontier' <= committed' /\ committed' \in Nat
  <2>1. Scoped!CommittedEnd(size) \in Nat /\ Scoped!End(size) <= Scoped!CommittedEnd(size)
    BY <1>1, ArenaFacts, RoundedUp DEF Scoped!CommittedEnd
  <2> QED BY <1>2, <1>4, <2>1
<1>13. Scoped!ScopedExhaustionIsReal'
  BY <1>2 DEF Scoped!ScopedExhaustionIsReal
<1>14. Scoped!Cursor <= frontier' /\ Scoped!Cursor' = Scoped!Cursor /\ refused' \in Nat
  BY <1>2, <1>4, ArenaFacts DEF ScopedInv, Scoped!Cursor
<1> QED BY <1>1, <1>2, <1>4, <1>7, <1>9, <1>11, <1>12, <1>13, <1>14 DEF ScopedInv

\* The layout depends on nothing but the marks, the blocks and the frontier.
LEMMA SameLayout ==
  ASSUME ScopedInv, UNCHANGED <<frontier, committed, calls>>, refused' \in Nat,
         Scoped!ScopedExhaustionIsReal'
  PROVE  ScopedInv'
<1>1. \A c \in DOMAIN calls' : Marks(c)'
  BY DEF ScopedInv, Marks, Scoped!Cursor
<1>2. \A c \in DOMAIN calls' : \A b \in DOMAIN calls'[c].blocks : Lies(c, b)'
  BY DEF ScopedInv, Lies, Spans, Scoped!Stored
<1> QED BY <1>1, <1>2 DEF ScopedInv, Scoped!Cursor

\* Only a request that the rest of the arena is too small for is refused.
LEMMA ExhaustedInv ==
  ASSUME ScopedInv, NEW size \in BodySizes, Scoped!Exhausted(size)
  PROVE  ScopedInv'
<1> DEFINE n == Scoped!Stored(size)
           rounded == Scoped!RoundUp(n, Alignment)
<1>1. /\ Scoped!Start = frontier /\ Scoped!End(size) = frontier + rounded
      /\ frontier \in Nat /\ size \in Nat
  BY ArenaFacts, RequestEnds DEF ScopedInv
<1>2. n \in Nat \ {0} /\ rounded \in Nat /\ n <= rounded
  BY <1>1, ArenaFacts, RoundedUp
<1>3. /\ ~ Scoped!Fits(size) /\ scopedStatus' = "exhausted" /\ refused' = size
      /\ UNCHANGED <<frontier, committed, calls>>
  BY DEF Scoped!Exhausted
<1> HIDE DEF n, rounded
<1>4. ~ (rounded <= ArenaCapacity - frontier)
  <2> SUFFICES ASSUME rounded <= ArenaCapacity - frontier PROVE Scoped!Fits(size)
    BY <1>3
  <2>1. Scoped!Stored(size) = n
    BY DEF n
  <2> QED BY <1>1, <1>2, <2>1, ArenaFacts DEF Scoped!Fits
<1>5. Scoped!ScopedExhaustionIsReal'
  <2>1. Scoped!RoundUp(Scoped!Stored(refused'), Alignment) = rounded
    BY <1>3 DEF n, rounded
  <2>2. rounded > ArenaCapacity - frontier'
    BY <1>1, <1>2, <1>3, <1>4, ArenaFacts
  <2> QED BY <1>3, <2>1, <2>2 DEF Scoped!ScopedExhaustionIsReal, Scoped!Stored, Scoped!RoundUp
<1> QED BY <1>1, <1>3, <1>5, SameLayout

LEMMA CommitFailsInv ==
  ASSUME ScopedInv, NEW size \in BodySizes, Scoped!CommitFails(size)
  PROVE  ScopedInv'
<1>1. /\ scopedStatus' = "commit failed" /\ refused \in Nat
      /\ UNCHANGED <<frontier, committed, calls, refused>>
  BY DEF Scoped!CommitFails, ScopedInv
<1>2. Scoped!ScopedExhaustionIsReal'
  BY <1>1 DEF Scoped!ScopedExhaustionIsReal
<1> QED BY <1>1, <1>2, SameLayout

\* A return restores the frontier to a mark that all older blocks lie in front of.
LEMMA ScopedReturnInv == ScopedInv /\ Scoped!Return => ScopedInv'
<1> SUFFICES ASSUME ScopedInv, Scoped!Return PROVE ScopedInv'
  OBVIOUS
<1> DEFINE top == Len(calls)
<1>1. /\ calls \in Seq(Mark) /\ calls # <<>> /\ scopedStatus = "ok"
      /\ top \in Nat \ {0} /\ DOMAIN calls = 1 .. top /\ top \in DOMAIN calls
  <2>1. calls \in Seq(Mark) /\ calls # <<>> /\ scopedStatus = "ok"
    BY DEF ScopedInv, Scoped!Return
  <2> QED BY <2>1
<1>2. calls[top] \in Mark /\ Marks(top)
  BY <1>1, ElementIn DEF ScopedInv
<1>3. Scoped!Last(calls) = calls[top]
  BY DEF Scoped!Last
<1>4. Scoped!Marked
  BY <1>2, <1>3 DEF Scoped!Marked, Marks
<1>5. /\ frontier' = calls[top].mark /\ scopedStatus' = "ok"
      /\ calls' = SubSeq(calls, 1, top - 1) /\ UNCHANGED <<committed, refused>>
  BY <1>3, <1>4 DEF Scoped!Return, Scoped!Front
<1>6. /\ calls' \in Seq(Mark) /\ DOMAIN calls' = 1 .. top - 1
      /\ \A c \in DOMAIN calls' : calls'[c] = calls[c] /\ c \in DOMAIN calls /\ c < top
  BY <1>1, <1>5
<1> HIDE DEF top
<1>7. /\ frontier' \in Nat /\ Scoped!Cursor <= frontier' /\ frontier' % Alignment = 0
      /\ frontier' <= frontier /\ frontier \in Nat
  BY <1>2, <1>5, ArenaFacts DEF Marks, Mark, ScopedInv
<1>8. ASSUME NEW c \in DOMAIN calls' PROVE Marks(c)'
  <2>1. Marks(c) /\ calls'[c] = calls[c] /\ calls[c].mark <= frontier' /\ calls[c] \in Mark
    BY <1>1, <1>5, <1>6, ElementIn DEF Marks, ScopedInv
  <2>2. \A d \in DOMAIN calls' : c < d => calls'[c].mark <= calls'[d].mark
    BY <1>6, <2>1 DEF Marks
  <2> QED BY <1>7, <2>1, <2>2, ArenaFacts DEF Marks, Mark, Scoped!Cursor
<1>9. ASSUME NEW c \in DOMAIN calls', NEW b \in DOMAIN calls'[c].blocks PROVE Lies(c, b)'
  <2>1. Lies(c, b) /\ calls'[c] = calls[c] /\ c \in DOMAIN calls
    BY <1>6 DEF ScopedInv
  <2>2. Spans(calls[c].blocks[b]) <= frontier'
    BY <1>1, <1>5, <1>6, <2>1 DEF Lies
  <2>3. \A d \in DOMAIN calls' : c < d => Spans(calls[c].blocks[b]) <= calls'[d].mark
    BY <1>6, <2>1 DEF Lies
  <2> QED BY <2>1, <2>2, <2>3 DEF Lies, Spans, Scoped!Stored
<1>10. (\E c \in DOMAIN calls' : calls'[c].blocks # <<>>) => frontier' <= committed'
  BY <1>5, <1>6, <1>7 DEF ScopedInv
<1>11. Scoped!ScopedExhaustionIsReal'
  BY <1>5 DEF Scoped!ScopedExhaustionIsReal
<1> QED BY <1>5, <1>6, <1>7, <1>8, <1>9, <1>10, <1>11 DEF ScopedInv, Scoped!Cursor

LEMMA ScopedStepInv == ScopedInv /\ [Scoped!Next]_scopedVars => ScopedInv'
<1> SUFFICES ASSUME ScopedInv, [Scoped!Next]_scopedVars PROVE ScopedInv'
  OBVIOUS
<1>1. CASE Scoped!Call
  BY <1>1, ScopedCallInv
<1>2. CASE Scoped!Return
  BY <1>2, ScopedReturnInv
<1>3. CASE \E size \in BodySizes : Scoped!AllocateScoped(size)
  BY <1>3, AllocateScopedInv
<1>4. CASE \E size \in BodySizes : Scoped!Exhausted(size)
  BY <1>4, ExhaustedInv
<1>5. CASE \E size \in BodySizes : Scoped!CommitFails(size)
  BY <1>5, CommitFailsInv
<1>6. CASE UNCHANGED scopedVars
  <2>1. /\ UNCHANGED <<frontier, committed, calls, scopedStatus, refused>>
        /\ refused \in Nat /\ Scoped!ScopedExhaustionIsReal
    BY <1>6 DEF scopedVars, ScopedInv
  <2>2. Scoped!ScopedExhaustionIsReal'
    BY <2>1 DEF Scoped!ScopedExhaustionIsReal, Scoped!Stored, Scoped!RoundUp
  <2> QED BY <2>1, <2>2, SameLayout
<1> QED BY <1>1, <1>2, <1>3, <1>4, <1>5, <1>6 DEF Scoped!Next

\* The frontier and the committed pages stay in the arena.
LEMMA RoundedWithin ==
  ASSUME NEW n \in Nat, NEW m \in Nat, NEW unit \in Nat \ {0}, m % unit = 0, n <= m
  PROVE  Scoped!RoundUp(n, unit) <= m
<1> DEFINE r == Scoped!RoundUp(n, unit)
           q == r \div unit
           a == m \div unit
<1>1. r \in Nat /\ r % unit = 0 /\ r < n + unit
  BY RoundedUp
<1> HIDE DEF r
<1>2. /\ q \in Nat /\ r = unit * q
      /\ a \in Nat /\ m = unit * a
  <2>1. q \in Nat /\ r = (unit * q) + (r % unit)
    BY <1>1, Remainder
  <2>2. a \in Nat /\ m = (unit * a) + (m % unit)
    BY Remainder
  <2> QED BY <1>1, <2>1, <2>2
<1> HIDE DEF q, a
<1>3. ASSUME a < q PROVE FALSE
  <2>1. PICK k \in Nat : q = a + 1 + k
    <3>1. (q - a) - 1 \in Nat /\ q = a + 1 + ((q - a) - 1)
      BY <1>2, <1>3
    <3> QED BY <3>1
  <2>2. unit * q = (unit * a) + unit + (unit * k) /\ unit * k >= 0
    BY <1>2, <2>1
  <2> QED BY <1>1, <1>2, <2>2
<1>4. q <= a
  BY <1>2, <1>3
<1>5. unit * q <= unit * a
  <2>1. PICK k \in Nat : a = q + k
    <3>1. a - q \in Nat /\ a = q + (a - q)
      BY <1>2, <1>4
    <3> QED BY <3>1
  <2>2. unit * a = (unit * q) + (unit * k) /\ unit * k >= 0
    BY <1>2, <2>1
  <2>3. unit * q \in Nat /\ unit * a \in Nat
    BY <1>2
  <2> QED BY <2>2, <2>3
<1> QED BY <1>2, <1>5 DEF r

ScopedBounds ==
  /\ frontier <= ArenaCapacity /\ committed <= ArenaCapacity
  /\ scopedStatus \in {"ok", "exhausted", "commit failed", "internal error"}
  /\ refused \in BodySizes \cup {0}

LEMMA ScopedInitBounds == Scoped!Init => ScopedBounds
<1>1. Alignment <= ArenaCapacity /\ 0 <= ArenaCapacity
  BY ArenaFacts, RuntimeAssumption DEF Scoped!ArenaAssumption
<1> QED BY <1>1, ArenaFacts DEF Scoped!Init, ScopedBounds

LEMMA ScopedStepBounds == ScopedInv /\ ScopedBounds /\ [Scoped!Next]_scopedVars => ScopedBounds'
<1> SUFFICES ASSUME ScopedInv, ScopedBounds, [Scoped!Next]_scopedVars PROVE ScopedBounds'
  OBVIOUS
<1>1. CASE UNCHANGED scopedVars \/ Scoped!Call
  BY <1>1 DEF ScopedBounds, scopedVars, Scoped!Call
<1>2. CASE Scoped!Return
  <2>1. frontier \in Nat /\ Scoped!Cursor \in Nat /\ ArenaCapacity \in Nat
    BY ArenaFacts DEF ScopedInv
  <2>2. Scoped!Marked => Scoped!Last(calls).mark \in Nat /\ Scoped!Last(calls).mark <= frontier
    BY <2>1 DEF Scoped!Marked
  <2>3. /\ frontier' = IF Scoped!Marked THEN Scoped!Last(calls).mark ELSE frontier
        /\ scopedStatus' = IF Scoped!Marked THEN "ok" ELSE "internal error"
        /\ UNCHANGED <<committed, refused>>
    BY <1>2 DEF Scoped!Return
  <2>4. frontier <= ArenaCapacity
    BY DEF ScopedBounds
  <2>5. frontier' <= ArenaCapacity
    <3>1. CASE Scoped!Marked
      <4>1. frontier' = Scoped!Last(calls).mark
        BY <2>3, <3>1
      <4> HIDE DEF Scoped!Marked
      <4> QED BY ONLY <2>1, <2>2, <2>4, <3>1, <4>1
    <3>2. CASE ~Scoped!Marked
      BY <2>3, <2>4, <3>2
    <3> QED BY <3>1, <3>2
  <2> QED BY <2>3, <2>5 DEF ScopedBounds
<1>3. ASSUME NEW size \in BodySizes, Scoped!AllocateScoped(size) PROVE ScopedBounds'
  <2>1. Scoped!End(size) <= ArenaCapacity /\ Scoped!End(size) \in Nat
    BY <1>3, RequestEnds DEF Scoped!AllocateScoped, Scoped!Fits
  <2>2. ArenaCapacity % Page = 0
    BY RuntimeAssumption DEF Scoped!ArenaAssumption
  <2>3. Scoped!CommittedEnd(size) <= ArenaCapacity
    BY <2>1, <2>2, ArenaFacts, RoundedWithin DEF Scoped!CommittedEnd
  <2> QED BY <1>3, <2>1, <2>3 DEF ScopedBounds, Scoped!AllocateScoped
<1>4. ASSUME NEW size \in BodySizes, Scoped!Exhausted(size) \/ Scoped!CommitFails(size)
      PROVE  ScopedBounds'
  BY <1>4 DEF ScopedBounds, Scoped!Exhausted, Scoped!CommitFails
<1> QED BY <1>1, <1>2, <1>3, <1>4 DEF Scoped!Next

LEMMA ScopedTyped == ScopedInv /\ ScopedBounds => Scoped!ScopedTypeOK
<1> SUFFICES ASSUME ScopedInv, ScopedBounds PROVE Scoped!ScopedTypeOK
  OBVIOUS
<1>1. frontier \in Nat /\ committed \in Nat /\ ArenaCapacity \in Nat /\ calls \in Seq(Mark)
  BY ArenaFacts DEF ScopedInv
<1>2. frontier \in 0 .. ArenaCapacity /\ committed \in 0 .. ArenaCapacity
  <2>1. frontier <= ArenaCapacity /\ committed <= ArenaCapacity
    BY DEF ScopedBounds
  <2> QED BY ONLY <1>1, <2>1
<1> QED BY <1>1, <1>2 DEF ScopedBounds, Scoped!ScopedTypeOK, Mark

\* Blocks that lie one behind the other are apart.
LEMMA ScopedInvSuffices == ScopedInv => ScopedBlocksApart
<1> SUFFICES ASSUME ScopedInv PROVE Scoped!ScopedBlocksApart
  BY DEF ScopedInv, ScopedBlocksApart
<1> DEFINE block(c, b) == calls[c].blocks[b]
           apart(c, b, d, e) == /\ block(d, e).offset # block(c, b).offset
                                /\ Scoped!Extent(block(c, b)) \cap Scoped!Extent(block(d, e)) = {}
<1>1. /\ calls \in Seq(Mark) /\ DOMAIN calls = 1 .. Len(calls) /\ Len(calls) \in Nat
      /\ frontier \in Nat
  BY DEF ScopedInv
<1>2. ASSUME NEW c \in DOMAIN calls, NEW b \in DOMAIN calls[c].blocks
      PROVE  /\ Lies(c, b) /\ calls[c].mark \in Nat /\ block(c, b).offset \in Nat
             /\ block(c, b).size \in Nat /\ Scoped!Stored(block(c, b).size) \in Nat \ {0}
             /\ DOMAIN calls[c].blocks \subseteq Nat
  <2>1. calls[c] \in Mark
    BY <1>1, ElementIn
  <2>2. calls[c].blocks \in Seq([offset : Nat, size : Nat]) /\ calls[c].mark \in Nat
    BY <2>1 DEF Mark
  <2>3. block(c, b) \in [offset : Nat, size : Nat]
    BY <2>2, ElementIn
  <2>4. DOMAIN calls[c].blocks \subseteq Nat
    BY <2>2
  <2>5. Scoped!Stored(block(c, b).size) \in Nat \ {0}
    BY <2>3, ArenaFacts
  <2>6. Lies(c, b)
    BY DEF ScopedInv
  <2> QED BY <2>2, <2>3, <2>4, <2>5, <2>6
<1>3. ASSUME NEW c \in DOMAIN calls, NEW b \in DOMAIN calls[c].blocks,
             NEW d \in DOMAIN calls, NEW e \in DOMAIN calls[d].blocks,
             Spans(block(c, b)) <= block(d, e).offset
      PROVE  apart(c, b, d, e) /\ apart(d, e, c, b)
  BY <1>2, <1>3 DEF Spans, Scoped!Extent
<1>4. ASSUME NEW c \in DOMAIN calls, NEW b \in DOMAIN calls[c].blocks,
             NEW d \in DOMAIN calls, NEW e \in DOMAIN calls[d].blocks, c < d
      PROVE  apart(c, b, d, e) /\ apart(d, e, c, b)
  <2>1. Spans(block(c, b)) <= calls[d].mark /\ calls[d].mark <= block(d, e).offset
    BY <1>2, <1>4 DEF Lies
  <2>2. Spans(block(c, b)) \in Nat /\ calls[d].mark \in Nat /\ block(d, e).offset \in Nat
    BY <1>2 DEF Spans
  <2>3. Spans(block(c, b)) <= block(d, e).offset
    BY <2>1, <2>2
  <2> QED BY <1>3, <2>3
<1>5. ASSUME NEW c \in DOMAIN calls, NEW b \in DOMAIN calls[c].blocks,
             NEW e \in DOMAIN calls[c].blocks, b < e
      PROVE  apart(c, b, c, e) /\ apart(c, e, c, b)
  <2>1. Spans(block(c, b)) <= block(c, e).offset
    BY <1>2, <1>5 DEF Lies
  <2> QED BY <1>3, <2>1
<1>6. ASSUME NEW c \in DOMAIN calls, NEW b \in DOMAIN calls[c].blocks,
             NEW d \in DOMAIN calls, NEW e \in DOMAIN calls[d].blocks, <<c, b>> # <<d, e>>
      PROVE  apart(c, b, d, e)
  <2>1. c \in Nat /\ d \in Nat /\ b \in Nat /\ e \in Nat
    BY <1>1, <1>2
  <2>2. CASE c < d
    BY <1>4, <2>2
  <2>3. CASE d < c
    BY <1>4, <2>3
  <2>4. CASE c = d /\ b < e
    BY <1>5, <2>4
  <2>5. CASE c = d /\ e < b
    BY <1>5, <2>5
  <2> QED BY <1>6, <2>1, <2>2, <2>3, <2>4, <2>5
<1>7. ASSUME NEW c \in DOMAIN calls, NEW b \in DOMAIN calls[c].blocks
      PROVE  /\ block(c, b).offset % Alignment = 0
             /\ Scoped!Extent(block(c, b)) \subseteq calls[c].mark .. frontier - 1
  BY <1>1, <1>2 DEF Lies, Spans, Scoped!Extent
<1>8. Scoped!LiveBlocks # {} => frontier <= committed
  <2>1. Scoped!LiveBlocks # {} => \E c \in DOMAIN calls : calls[c].blocks # <<>>
    BY DEF Scoped!LiveBlocks
  <2> QED BY <2>1 DEF ScopedInv
<1> QED BY <1>6, <1>7, <1>8 DEF Scoped!ScopedBlocksApart

-----------------------------------------------------------------------------
(* The trace table: the probing is that of maps, of which the facts about    *)
(* tables are taken; a key of the trace is an item with nothing but a key.   *)

Probing == INSTANCE OrderedMapProofs WITH
    Keys <- TraceKeys, Hash <- TraceHash, Listings <- {}

Keyed(keys) == [i \in DOMAIN keys |-> [key |-> keys[i]]]
Distinct(keys) == \A i, j \in DOMAIN keys : keys[i] = keys[j] => i = j

LEMMA TableFacts ==
  /\ TraceHash \in [TraceKeys -> Nat]
  /\ FirstItems \in Nat \ {0} /\ FirstSlots \in Nat \ {0, 1}
  /\ Probing!HashAssumption /\ Probing!ListingAssumption /\ Probing!LimitAssumption
BY RuntimeAssumption, LimitAssumption
   DEF Trace!TableAssumption, Probing!HashAssumption, Probing!ListingAssumption, Probing!LimitAssumption

LEMMA TableSize ==
  ASSUME NEW c \in Nat, NEW table, DOMAIN table = 0 .. c - 1
  PROVE  Trace!Cardinality(DOMAIN table) = c
<1>1. \A S : Trace!Cardinality(S) = Cardinality(S)
  BY DEF Trace!Cardinality, Cardinality
<1>2. Cardinality(0 .. c - 1) = c
  BY FS_Interval
<1> QED BY <1>1, <1>2

LEMMA ProbesInTable ==
  ASSUME NEW c, c \in Nat \ {0}, NEW k, k \in TraceKeys
  PROVE  /\ \A s \in 0 .. c - 1 : Probing!Position(k, s, c) \in 0 .. c - 1
         /\ \A p \in 0 .. c - 1 : \E s \in 0 .. c - 1 : Probing!Position(k, s, c) = p
<1>1. \A s \in 0 .. c - 1 : s \in Nat
  BY c \in Nat \ {0}
<1> QED BY <1>1, TableFacts, Probing!ProbeStays, Probing!ProbesReach

Ends(table, keys, key, c, s) ==
  \/ table[Probing!Position(key, s, c)] = 0
  \/ keys[table[Probing!Position(key, s, c)]] = key

\* A probe ends at the first slot that is empty or holds the key, if there is one.
LEMMA ProbeEnds ==
  ASSUME NEW c, c \in Nat \ {0}, NEW table, DOMAIN table = 0 .. c - 1, NEW keys, NEW key,
         \E s \in 0 .. c - 1 : Ends(table, keys, key, c, s)
  PROVE  \E s \in 0 .. c - 1 :
           /\ Trace!Probe(table, keys, key) = Probing!Position(key, s, c)
           /\ Ends(table, keys, key, c, s)
           /\ \A t \in 0 .. s - 1 : ~ Ends(table, keys, key, c, t)
<1> DEFINE at(s) == (TraceHash[key] + s) % c
           ends(s) == table[at(s)] = 0 \/ keys[table[at(s)]] = key
           Q == {s \in 0 .. c - 1 : ends(s)}
           last == CHOOSE s \in 0 .. c - 1 : ends(s) /\ \A t \in 0 .. s - 1 : ~ ends(t)
<1>1. /\ \A s : at(s) = Probing!Position(key, s, c)
      /\ \A s : ends(s) <=> Ends(table, keys, key, c, s)
  BY DEF Probing!Position, Ends
<1>2. Trace!Probe(table, keys, key) = at(last)
  BY TableSize DEF Trace!Probe
<1>3. Q \in SUBSET (0 .. c - 1) /\ Q # {}
  BY <1>1
<1>4. \E s \in Q : \A t \in 0 .. s - 1 : t \notin Q
  BY <1>3, FirstProbe
<1>5. \E s \in 0 .. c - 1 : ends(s) /\ \A t \in 0 .. s - 1 : ~ ends(t)
  BY <1>4
<1>6. last \in 0 .. c - 1 /\ ends(last) /\ \A t \in 0 .. last - 1 : ~ ends(t)
  BY <1>5
<1> HIDE DEF last, at, ends
<1> QED BY <1>1, <1>2, <1>6

\* A key that is in no slot is put where a map puts its entry.
LEMMA ProbeNew ==
  ASSUME NEW c, c \in Nat, NEW n, n \in Nat, n < c, NEW keys,
         NEW table, Probing!Indexed(table, c, Keyed(keys), n),
         NEW key, key \in TraceKeys, \A i \in 1 .. n : keys[i] # key
  PROVE  /\ table[Trace!Probe(table, keys, key)] = 0
         /\ \A m : [table EXCEPT ![Trace!Probe(table, keys, key)] = m] = Probing!Place(table, c, key, m)
<1> DEFINE at(s) == Probing!Position(key, s, c)
<1>1. c \in Nat \ {0} /\ table \in [0 .. c - 1 -> 0 .. n] /\ DOMAIN table = 0 .. c - 1
  BY DEF Probing!Indexed
<1>2. /\ \A s \in 0 .. c - 1 : at(s) \in 0 .. c - 1
      /\ \A p \in 0 .. c - 1 : \E s \in 0 .. c - 1 : at(s) = p
  BY ONLY c \in Nat \ {0}, key \in TraceKeys, <1>1, ProbesInTable
<1>3. PICK p \in 0 .. c - 1 : table[p] = 0
  <2>1. \A p1, p2 \in 0 .. c - 1 : table[p1] # 0 /\ table[p1] = table[p2] => p1 = p2
    BY DEF Probing!Indexed
  <2> QED BY ONLY <1>1, <2>1, n \in Nat, n < c, EmptySlotLeft
<1>4. \A s \in 0 .. c - 1 : Ends(table, keys, key, c, s) <=> table[at(s)] = 0
  <2> SUFFICES ASSUME NEW s \in 0 .. c - 1, table[at(s)] # 0
               PROVE  keys[table[at(s)]] # key
    BY DEF Ends
  <2>1. table[at(s)] \in 0 .. n
    BY <1>1, <1>2
  <2> HIDE DEF at
  <2> QED BY <2>1
<1>5. \E s \in 0 .. c - 1 : Ends(table, keys, key, c, s)
  BY <1>2, <1>3, <1>4
<1>6. PICK s \in 0 .. c - 1 :
        /\ Trace!Probe(table, keys, key) = at(s)
        /\ Ends(table, keys, key, c, s)
        /\ \A t \in 0 .. s - 1 : ~ Ends(table, keys, key, c, t)
  BY ONLY <1>1, <1>5, ProbeEnds
<1>7. table[at(s)] = 0 /\ \A t \in 0 .. s - 1 : table[at(t)] # 0
  BY <1>1, <1>4, <1>6
<1>8. \A m : Probing!Place(table, c, key, m) = [table EXCEPT ![at(s)] = m]
  <2> DEFINE step == CHOOSE t \in 0 .. c - 1 :
                       table[at(t)] = 0 /\ \A u \in 0 .. t - 1 : table[at(u)] # 0
  <2>1. \A m : Probing!Place(table, c, key, m) = [table EXCEPT ![at(step)] = m]
    BY DEF Probing!Place
  <2>2. /\ step \in 0 .. c - 1 /\ table[at(step)] = 0
        /\ \A t \in 0 .. step - 1 : table[at(t)] # 0
    BY <1>7
  <2> HIDE DEF step, at
  <2>3. s = step
    BY <1>1, <1>7, <2>2
  <2> QED BY <2>1, <2>3
<1> QED BY <1>6, <1>7, <1>8

\* A key that was put into the table is found there.
LEMMA ProbeKnown ==
  ASSUME NEW c, c \in Nat, NEW n, n \in Nat, n < c, NEW keys, keys \in Seq(TraceKeys), n <= Len(keys),
         Distinct(keys), NEW table, Probing!Indexed(table, c, Keyed(keys), n), NEW i, i \in 1 .. n
  PROVE  table[Trace!Probe(table, keys, keys[i])] = i
<1> DEFINE key == keys[i]
           at(s) == Probing!Position(key, s, c)
<1>1. /\ c \in Nat \ {0} /\ table \in [0 .. c - 1 -> 0 .. n] /\ DOMAIN table = 0 .. c - 1
      /\ key \in TraceKeys /\ DOMAIN keys = 1 .. Len(keys) /\ i \in DOMAIN keys
      /\ Keyed(keys)[i].key = key
  BY DEF Probing!Indexed, Keyed
<1> HIDE DEF key
<1>2. \A s \in 0 .. c - 1 : at(s) \in 0 .. c - 1
  BY ONLY <1>1, ProbesInTable
<1>3. PICK s \in 0 .. c - 1 : table[at(s)] = i /\ \A t \in 0 .. s - 1 : table[at(t)] # 0
  BY <1>1 DEF Probing!Indexed
<1>4. PICK r \in 0 .. c - 1 :
        /\ Trace!Probe(table, keys, key) = at(r)
        /\ Ends(table, keys, key, c, r)
        /\ \A t \in 0 .. r - 1 : ~ Ends(table, keys, key, c, t)
  <2>1. Ends(table, keys, key, c, s)
    BY <1>3 DEF Ends, key
  <2> QED BY ONLY <1>1, <2>1, s \in 0 .. c - 1, ProbeEnds
<1>5. ~ (s < r)
  <2>1. Ends(table, keys, key, c, s)
    BY <1>3 DEF Ends, key
  <2> QED BY <1>4, <2>1
<1>6. table[at(r)] \in 1 .. n
  <2>1. table[at(r)] # 0
    <3>1. CASE r = s
      BY <1>3, <3>1
    <3>2. CASE r < s
      BY <1>3, <3>2
    <3> QED BY <1>5, <3>1, <3>2
  <2>2. table[at(r)] \in 0 .. n
    BY <1>1, <1>2
  <2> HIDE DEF at
  <2> QED BY <2>1, <2>2
<1>7. keys[table[at(r)]] = key
  BY <1>4, <1>6 DEF Ends
<1>8. table[at(r)] \in DOMAIN keys
  <2> HIDE DEF at
  <2> QED BY <1>1, <1>6
<1>9. table[at(r)] = i
  <2> HIDE DEF at
  <2> QED BY <1>1, <1>7, <1>8 DEF Distinct, key
<1> QED BY <1>4, <1>9 DEF key

\* A key that is put into the table is indexed with the others.
LEMMA PutIndexes ==
  ASSUME NEW c, c \in Nat, NEW n, n \in Nat, n < c, NEW keys, 1 .. n \subseteq DOMAIN keys,
         NEW table, Probing!Indexed(table, c, Keyed(keys), n),
         NEW more, more \in Seq(TraceKeys), n + 1 <= Len(more),
         \A i \in 1 .. n : more[i] = keys[i] /\ keys[i] # more[n + 1]
  PROVE  Probing!Indexed([table EXCEPT ![Trace!Probe(table, keys, more[n + 1])] = n + 1],
                         c, Keyed(more), n + 1)
<1> DEFINE key == more[n + 1]
<1>1. key \in TraceKeys /\ \A i \in 1 .. n : keys[i] # key
  OBVIOUS
<1>2. /\ DOMAIN more = 1 .. Len(more) /\ 1 .. n + 1 \subseteq DOMAIN more
      /\ \A m \in 1 .. n + 1 : Keyed(more)[m].key = more[m] /\ more[m] \in TraceKeys
  BY DEF Keyed
<1>3. \A m \in 1 .. n : Keyed(keys)[m].key = Keyed(more)[m].key
  BY DEF Keyed
<1> HIDE DEF key
<1>4. [table EXCEPT ![Trace!Probe(table, keys, key)] = n + 1] = Probing!Place(table, c, key, n + 1)
  BY <1>1, ProbeNew
<1>5. Probing!Indexed(table, c, Keyed(more), n)
  BY <1>3, TableFacts, Probing!IndexedByKeys
<1>6. \A m \in 1 .. n + 1 : Keyed(more)[m].key \in TraceKeys
  BY <1>2
<1>7. Probing!Indexed(Probing!Place(table, c, Keyed(more)[n + 1].key, n + 1), c, Keyed(more), n + 1)
  BY ONLY c \in Nat, n \in Nat, n < c, <1>5, <1>6, TableFacts, Probing!PlaceIndexes
<1>8. Keyed(more)[n + 1].key = key
  BY <1>2 DEF key
<1> QED BY <1>4, <1>7, <1>8 DEF key

\* sao2_trace_rebuild_slots puts every item into an empty table.
LEMMA RebuiltPuts ==
  ASSUME traceItems \in Seq(TraceKeys), NEW c, c \in Nat
  PROVE  \E placed :
           /\ placed[0] = [s \in 0 .. c - 1 |-> 0]
           /\ \A n \in 1 .. Len(traceItems) :
                placed[n] = [placed[n - 1] EXCEPT
                               ![Trace!Probe(placed[n - 1], traceItems, traceItems[n])] = n]
           /\ Trace!Rebuilt(c) = placed[Len(traceItems)]
<1> DEFINE N == Len(traceItems)
           S == [0 .. c - 1 -> Nat]
           none == [s \in 0 .. c - 1 |-> 0]
           put(n, table) == [table EXCEPT ![Trace!Probe(table, traceItems, traceItems[n])] = n]
           step == [n \in 1 .. N |-> [table \in S |-> put(n, table)]]
           build(f) == [n \in 0 .. N |-> IF n = 0 THEN none ELSE put(n, f[n - 1])]
           placed == CHOOSE f : f = build(f)
<1>1. none \in S /\ N \in Nat
  OBVIOUS
<1>2. step \in [1 .. N -> [S -> S]]
  <2>1. ASSUME NEW table \in S, NEW n \in 1 .. N
        PROVE  put(n, table) \in S
    <3> DEFINE p == Trace!Probe(table, traceItems, traceItems[n])
    <3>1. n \in Nat /\ table \in [0 .. c - 1 -> Nat]
      OBVIOUS
    <3> HIDE DEF p
    <3>2. [table EXCEPT ![p] = n] \in [0 .. c - 1 -> Nat]
      BY ONLY <3>1
    <3> QED BY <3>2 DEF p
  <2> HIDE DEF put, S
  <2> QED BY <2>1
<1> HIDE DEF S, none, step, N, build, placed, put
<1>3. PICK f \in [0 .. N -> S] :
        f[0] = none /\ \A n \in 1 .. N : f[n] = step[n][f[n - 1]]
  BY <1>1, <1>2, Recursion
<1>4. \A n \in 1 .. N : step[n][f[n - 1]] = put(n, f[n - 1])
  BY <1>1, <1>3 DEF step
<1>5. f = build(f)
  BY <1>1, <1>3, <1>4 DEF build
<1>6. placed = build(placed)
  BY <1>5 DEF placed
<1>7. Trace!Rebuilt(c) = placed[N]
  BY DEF Trace!Rebuilt, Trace!Empty, none, placed, build, put, N
<1>8. /\ placed[0] = none
      /\ \A n \in 1 .. N : placed[n] = put(n, placed[n - 1])
  BY <1>1, <1>6 DEF build
<1> QED BY <1>7, <1>8 DEF N, none, put

LEMMA RebuiltIndexes ==
  ASSUME traceItems \in Seq(TraceKeys), Distinct(traceItems), NEW c, c \in Nat, Len(traceItems) < c
  PROVE  Probing!Indexed(Trace!Rebuilt(c), c, Keyed(traceItems), Len(traceItems))
<1> DEFINE N == Len(traceItems)
           indexed(table, n) == Probing!Indexed(table, c, Keyed(traceItems), n)
<1>1. PICK placed :
        /\ placed[0] = [s \in 0 .. c - 1 |-> 0]
        /\ \A n \in 1 .. N :
             placed[n] = [placed[n - 1] EXCEPT
                            ![Trace!Probe(placed[n - 1], traceItems, traceItems[n])] = n]
        /\ Trace!Rebuilt(c) = placed[N]
  BY RebuiltPuts
<1> DEFINE P == {n \in Nat : n <= N => indexed(placed[n], n)}
<1>2. 0 \in P
  BY <1>1 DEF Probing!Indexed
<1>3. ASSUME NEW n \in Nat, n + 1 <= N, indexed(placed[n], n)
      PROVE  indexed(placed[n + 1], n + 1)
  <2>1. n \in Nat /\ n < c /\ 1 .. n \subseteq DOMAIN traceItems /\ n + 1 \in 1 .. N /\ (n + 1) - 1 = n
    BY <1>3
  <2>2. \A i \in 1 .. n : traceItems[i] = traceItems[i] /\ traceItems[i] # traceItems[n + 1]
    BY <2>1 DEF Distinct
  <2>3. indexed([placed[n] EXCEPT ![Trace!Probe(placed[n], traceItems, traceItems[n + 1])] = n + 1], n + 1)
    BY <1>3, <2>1, <2>2, PutIndexes
  <2> QED BY <1>1, <2>1, <2>3
<1> HIDE DEF indexed
<1>4. \A n \in P : n + 1 \in P
  BY <1>3
<1>5. N \in Nat
  OBVIOUS
<1> HIDE DEF P, N
<1>6. P = Nat
  BY <1>2, <1>4, SetInduction DEF P
<1> QED BY <1>1, <1>5, <1>6 DEF P, N, indexed

TraceInv ==
  /\ traceItems \in Seq(TraceKeys) /\ Distinct(traceItems)
  /\ itemCapacity \in Nat /\ Len(traceItems) <= itemCapacity
  /\ nextItem \in 0 .. Len(traceItems)
  /\ requested = {traceItems[i] : i \in DOMAIN traceItems}
  /\ traceResult \in {"ok", "scratch exhausted"}
  /\ \E c \in Nat :
       /\ Probing!Indexed(traceSlots, c, Keyed(traceItems), Len(traceItems))
       /\ 2 * Len(traceItems) <= c

LEMMA TraceInitInv == Trace!Init => TraceInv
<1> SUFFICES ASSUME Trace!Init PROVE TraceInv
  OBVIOUS
<1>1. /\ traceItems = <<>> /\ itemCapacity = 0 /\ nextItem = 0 /\ requested = {}
      /\ traceSlots = [s \in 0 .. 0 - 1 |-> 0] /\ traceResult = "ok"
  BY DEF Trace!Init, Trace!Empty
<1>2. Probing!Indexed(traceSlots, 0, Keyed(traceItems), Len(traceItems))
  BY <1>1 DEF Probing!Indexed
<1> QED BY <1>1, <1>2 DEF TraceInv, Distinct

LEMMA TraceTyped ==
  ASSUME TraceInv
  PROVE  /\ traceItems \in Seq(TraceKeys) /\ Distinct(traceItems)
         /\ Len(traceItems) \in Nat /\ DOMAIN traceItems = 1 .. Len(traceItems)
         /\ itemCapacity \in Nat /\ Len(traceItems) <= itemCapacity
<1>1. /\ traceItems \in Seq(TraceKeys) /\ Distinct(traceItems)
      /\ itemCapacity \in Nat /\ Len(traceItems) <= itemCapacity
  BY DEF TraceInv
<1>2. Len(traceItems) \in Nat /\ DOMAIN traceItems = 1 .. Len(traceItems)
  BY <1>1
<1> QED BY <1>1, <1>2

\* Where the table stands, and that a key is found only if it is an item.
LEMMA TraceTableFacts ==
  ASSUME TraceInv, NEW c, c \in Nat,
         Probing!Indexed(traceSlots, c, Keyed(traceItems), Len(traceItems)),
         2 * Len(traceItems) <= c
  PROVE  /\ Trace!SlotCapacity = c
         /\ c # 0 => Len(traceItems) < c
         /\ \A i \in DOMAIN traceItems :
              /\ c # 0
              /\ traceSlots[Trace!Probe(traceSlots, traceItems, traceItems[i])] = i
              /\ Trace!Found(traceItems[i])
<1>1. /\ traceItems \in Seq(TraceKeys) /\ Distinct(traceItems)
      /\ Len(traceItems) \in Nat /\ DOMAIN traceItems = 1 .. Len(traceItems)
  BY TraceTyped
<1>2. DOMAIN traceSlots = 0 .. c - 1
  BY DEF Probing!Indexed
<1>3. Trace!SlotCapacity = c
  BY <1>2, TableSize DEF Trace!SlotCapacity
<1>4. ASSUME NEW i, i \in DOMAIN traceItems
      PROVE  /\ c > 0
             /\ traceSlots[Trace!Probe(traceSlots, traceItems, traceItems[i])] = i
  <2>1. c > 0 /\ Len(traceItems) < c /\ i \in 1 .. Len(traceItems) /\ Len(traceItems) <= Len(traceItems)
    BY <1>1, <1>4
  <2> DEFINE n == Len(traceItems)
  <2>2. traceSlots[Trace!Probe(traceSlots, traceItems, traceItems[i])] = i
    BY <1>1, <2>1, ProbeKnown
  <2> QED BY <2>1, <2>2
<1>5. \A i \in DOMAIN traceItems : Trace!Found(traceItems[i])
  BY <1>1, <1>3, <1>4 DEF Trace!Found
<1>6. c # 0 => Len(traceItems) < c
  BY <1>1
<1> QED BY <1>3, <1>4, <1>5, <1>6

LEMMA EnqueueNewInv ==
  ASSUME TraceInv, NEW key \in TraceKeys, Trace!EnqueueNew(key)
  PROVE  TraceInv'
<1> DEFINE n == Len(traceItems)
           more == Append(traceItems, key)
           Fit(table, c) == /\ c \in Nat /\ n < c /\ 2 * (n + 1) <= c
                            /\ Probing!Indexed(table, c, Keyed(traceItems), n)
<1>1. PICK c \in Nat : /\ Probing!Indexed(traceSlots, c, Keyed(traceItems), n)
                       /\ 2 * n <= c
  BY DEF TraceInv
<1>2. n \in Nat /\ traceItems \in Seq(TraceKeys) /\ DOMAIN traceItems = 1 .. n
  BY TraceTyped
<1>3. /\ Trace!SlotCapacity = c
      /\ c # 0 => n < c
      /\ \A i \in DOMAIN traceItems : Trace!Found(traceItems[i])
  BY <1>1, TraceTableFacts
<1>4. PICK table, d :
        /\ Fit(table, d)
        /\ traceSlots' = [table EXCEPT ![Trace!Probe(table, traceItems, key)] = n + 1]
  <2>1. \A table : Trace!Put(key, table) =>
          traceSlots' = [table EXCEPT ![Trace!Probe(table, traceItems, key)] = n + 1]
    BY DEF Trace!Put
  <2>2. CASE c = 0
    <3>1. Trace!Put(key, Trace!Empty(FirstSlots))
      BY <1>3, <2>2 DEF Trace!EnqueueNew
    <3>2. n = 0
      BY <1>1, <1>2, <2>2
    <3>3. FirstSlots \in Nat /\ FirstSlots >= 2
      BY TableFacts
    <3>4. Fit(Trace!Empty(FirstSlots), FirstSlots)
      BY <3>2, <3>3 DEF Trace!Empty, Probing!Indexed
    <3> QED BY <2>1, <3>1, <3>4
  <2>3. CASE c # 0 /\ Trace!AtHalfLoad
    <3>1. Trace!Put(key, Trace!Rebuilt(2 * c))
      BY <1>3, <2>3 DEF Trace!EnqueueNew
    <3>2. 2 * c \in Nat /\ n < 2 * c /\ 2 * (n + 1) <= 2 * c
      BY <1>1, <1>2, <2>3
    <3>3. Probing!Indexed(Trace!Rebuilt(2 * c), 2 * c, Keyed(traceItems), n)
      BY <1>2, <3>2, RebuiltIndexes DEF TraceInv
    <3> QED BY <2>1, <3>1, <3>2, <3>3
  <2>4. CASE c # 0 /\ ~ Trace!AtHalfLoad
    <3>1. Trace!Put(key, traceSlots)
      BY <1>3, <2>4 DEF Trace!EnqueueNew
    <3>2. 2 * (n + 1) <= c /\ n < c
      BY <1>2, <1>3, <2>4 DEF Trace!AtHalfLoad
    <3> QED BY <1>1, <2>1, <3>1, <3>2
  <2> QED BY <2>2, <2>3, <2>4
<1>5. /\ traceItems' = more /\ requested' = requested \cup {key}
      /\ nextItem' = nextItem /\ traceResult' = traceResult
      /\ itemCapacity' = IF ~ Trace!NeedsItems THEN itemCapacity
                         ELSE IF itemCapacity = 0 THEN FirstItems ELSE 2 * itemCapacity
  BY DEF Trace!EnqueueNew, Trace!Put
<1>6. \A i \in DOMAIN traceItems : traceItems[i] # key
  BY <1>3 DEF Trace!EnqueueNew
<1>7. /\ more \in Seq(TraceKeys) /\ Len(more) = n + 1 /\ DOMAIN more = 1 .. n + 1
      /\ more[n + 1] = key
      /\ \A i \in 1 .. n : more[i] = traceItems[i]
  BY <1>2
<1> HIDE DEF more, n
<1>8. Probing!Indexed(traceSlots', d, Keyed(more), n + 1)
  <2>1. /\ 1 .. n \subseteq DOMAIN traceItems /\ n + 1 <= Len(more)
        /\ \A i \in 1 .. n : more[i] = traceItems[i] /\ traceItems[i] # more[n + 1]
    BY <1>2, <1>6, <1>7
  <2>2. d \in Nat /\ n < d /\ Probing!Indexed(table, d, Keyed(traceItems), n)
    BY <1>4
  <2>3. Probing!Indexed([table EXCEPT ![Trace!Probe(table, traceItems, more[n + 1])] = n + 1],
                        d, Keyed(more), n + 1)
    BY ONLY <1>2, <1>7, <2>1, <2>2, PutIndexes
  <2> QED BY <1>4, <1>7, <2>3
<1>9. Distinct(more)
  <2>1. \A i, j \in 1 .. n : traceItems[i] = traceItems[j] => i = j
    BY <1>2, TraceTyped DEF Distinct
  <2>2. \A i \in 1 .. n + 1 : i \in 1 .. n \/ i = n + 1
    BY <1>2
  <2> QED BY <1>2, <1>6, <1>7, <2>1, <2>2 DEF Distinct
<1>10. requested' = {more[i] : i \in DOMAIN more}
  <2>1. {more[i] : i \in 1 .. n + 1} = {more[i] : i \in 1 .. n} \cup {key}
    BY <1>2, <1>7
  <2>2. {more[i] : i \in 1 .. n} = requested
    BY <1>2, <1>7 DEF TraceInv
  <2> QED BY <1>5, <1>7, <2>1, <2>2
<1>11. itemCapacity' \in Nat /\ n + 1 <= itemCapacity' /\ nextItem' \in 0 .. n + 1
  <2>1. itemCapacity \in Nat /\ n <= itemCapacity /\ nextItem \in 0 .. n
    BY DEF TraceInv, n
  <2>2. FirstItems \in Nat \ {0}
    BY TableFacts
  <2>3. Trace!NeedsItems <=> n = itemCapacity
    BY DEF Trace!NeedsItems, n
  <2> QED BY <1>2, <1>5, <2>1, <2>2, <2>3
<1>12. d \in Nat /\ 2 * (n + 1) <= d
  BY <1>4
<1> QED BY <1>5, <1>7, <1>8, <1>9, <1>10, <1>11, <1>12 DEF TraceInv

LEMMA EnqueueFailsInv ==
  ASSUME TraceInv, NEW key \in TraceKeys, Trace!EnqueueFails(key)
  PROVE  TraceInv'
<1> DEFINE n == Len(traceItems)
<1>1. PICK c \in Nat : /\ Probing!Indexed(traceSlots, c, Keyed(traceItems), n)
                       /\ 2 * n <= c
  BY DEF TraceInv
<1>2. /\ n \in Nat /\ itemCapacity \in Nat /\ n <= itemCapacity
  BY TraceTyped
<1>3. Trace!SlotCapacity = c
  BY <1>1, TraceTableFacts
<1>4. /\ UNCHANGED <<traceItems, nextItem, requested>> /\ traceResult' = "scratch exhausted"
      /\ itemCapacity' \in {itemCapacity, 2 * itemCapacity}
      /\ traceSlots' = traceSlots \/ (c = 0 /\ traceSlots' = Trace!Empty(FirstSlots))
  BY <1>3 DEF Trace!EnqueueFails
<1>5. itemCapacity' \in Nat /\ n <= itemCapacity'
  <2>1. itemCapacity' = itemCapacity \/ itemCapacity' = 2 * itemCapacity
    BY <1>4
  <2> HIDE DEF n
  <2> QED BY <1>2, <2>1
<1>6. \E d \in Nat : Probing!Indexed(traceSlots', d, Keyed(traceItems), n) /\ 2 * n <= d
  <2>1. CASE traceSlots' = traceSlots
    BY <1>1, <2>1
  <2>2. CASE c = 0 /\ traceSlots' = Trace!Empty(FirstSlots)
    <3>1. n = 0 /\ FirstSlots \in Nat
      BY <1>1, <1>2, <2>2, TableFacts
    <3>2. Probing!Indexed(traceSlots', FirstSlots, Keyed(traceItems), n)
      BY <2>2, <3>1 DEF Trace!Empty, Probing!Indexed
    <3> QED BY <3>1, <3>2
  <2> QED BY <1>4, <2>1, <2>2
<1> QED BY <1>4, <1>5, <1>6 DEF TraceInv

LEMMA TraceStepInv == TraceInv /\ [Trace!Next]_traceVars => TraceInv'
<1> SUFFICES ASSUME TraceInv, [Trace!Next]_traceVars PROVE TraceInv'
  OBVIOUS
<1>1. CASE UNCHANGED traceVars
  BY <1>1 DEF TraceInv, traceVars
<1>2. ASSUME NEW key \in TraceKeys, Trace!EnqueueAgain(key) PROVE TraceInv'
  <2>1. PICK c \in Nat :
          /\ Probing!Indexed(traceSlots, c, Keyed(traceItems), Len(traceItems))
          /\ 2 * Len(traceItems) <= c
    BY DEF TraceInv
  <2>2. key \in requested
    <3> SUFFICES ASSUME \A i \in DOMAIN traceItems : traceItems[i] # key PROVE FALSE
      BY DEF TraceInv
    <3>1. /\ Len(traceItems) \in Nat /\ DOMAIN traceItems = 1 .. Len(traceItems)
          /\ Trace!SlotCapacity = c /\ (c # 0 => Len(traceItems) < c)
      BY <2>1, TraceTableFacts, TraceTyped
    <3>2. c # 0 /\ traceSlots[Trace!Probe(traceSlots, traceItems, key)] # 0
      BY <1>2, <3>1 DEF Trace!EnqueueAgain, Trace!Found
    <3>3. \A i \in 1 .. Len(traceItems) : traceItems[i] # key
      BY <3>1
    <3>4. traceSlots[Trace!Probe(traceSlots, traceItems, key)] = 0
      BY <2>1, <3>1, <3>2, <3>3, ProbeNew
    <3> QED BY <3>2, <3>4
  <2> QED BY <1>2, <2>2 DEF Trace!EnqueueAgain, TraceInv
<1>3. CASE Trace!Take
  BY <1>3 DEF Trace!Take, TraceInv
<1> QED BY <1>1, <1>2, <1>3, EnqueueNewInv, EnqueueFailsInv DEF Trace!Next

LEMMA TraceInvSuffices == TraceInv => EnqueuedOnce
<1> SUFFICES ASSUME TraceInv PROVE EnqueuedOnce
  OBVIOUS
<1>1. PICK c \in Nat :
        /\ Probing!Indexed(traceSlots, c, Keyed(traceItems), Len(traceItems))
        /\ 2 * Len(traceItems) <= c
  BY DEF TraceInv
<1> DEFINE n == Len(traceItems)
<1>2. n \in Nat /\ DOMAIN traceSlots = 0 .. c - 1
  BY <1>1, TraceTyped DEF Probing!Indexed
<1>3. /\ Trace!SlotCapacity = c
      /\ c # 0 => n < c
      /\ \A i \in DOMAIN traceItems : traceSlots[Trace!Probe(traceSlots, traceItems, traceItems[i])] = i
  BY <1>1, TraceTableFacts
<1>4. c > 0 => \E s \in DOMAIN traceSlots : traceSlots[s] = 0
  <2> SUFFICES ASSUME c > 0 PROVE \E s \in 0 .. c - 1 : traceSlots[s] = 0
    BY <1>2
  <2>1. /\ c \in Nat /\ n \in Nat /\ n < c /\ traceSlots \in [0 .. c - 1 -> 0 .. n]
        /\ \A p1, p2 \in 0 .. c - 1 : traceSlots[p1] # 0 /\ traceSlots[p1] = traceSlots[p2] => p1 = p2
    BY <1>1, <1>2, <1>3 DEF Probing!Indexed
  <2> QED BY ONLY <2>1, EmptySlotLeft
<1>5. requested = Trace!Range(traceItems) /\ Trace!IsInjective(traceItems)
  BY DEF TraceInv, Distinct, Trace!Range, Trace!IsInjective
<1> QED BY <1>3, <1>4, <1>5 DEF EnqueuedOnce, Trace!EnqueuedOnce

LEMMA TraceTypes == TraceInv => Trace!TraceTypeOK
BY DEF TraceInv, Trace!TraceTypeOK, Probing!Indexed

-----------------------------------------------------------------------------
(* Loops: what IterationProofs proves holds of the lists and loops here.     *)

LoopProofs == INSTANCE IterationProofs WITH
    Values <- Elements, Literals <- ListLiterals, CapacityMax <- ListCapacityMax,
    Indices <- ListIndices, outcome <- loopOutcome

LEMMA LoopsAreThose ==
  /\ LoopProofs!ListAssumption
  /\ Loops!Init <=> LoopProofs!Init
  /\ Loops!LocksExact <=> LoopProofs!LocksExact
  /\ Loops!SnapshotCurrent <=> LoopProofs!SnapshotCurrent
  /\ Loops!IterationTypeOK <=> LoopProofs!IterationTypeOK
<1>1. LoopProofs!ListAssumption
  BY RuntimeAssumption DEF LoopProofs!ListAssumption, Loops!ListAssumption
<1>2. Loops!Init <=> LoopProofs!Init
  BY DEF Loops!Init, LoopProofs!Init, Loops!Constructible, LoopProofs!Constructible,
         Loops!Capacity, LoopProofs!Capacity
<1>3. /\ Loops!LocksExact <=> LoopProofs!LocksExact
      /\ Loops!SnapshotCurrent <=> LoopProofs!SnapshotCurrent
  BY DEF Loops!LocksExact, LoopProofs!LocksExact, Loops!SnapshotCurrent, LoopProofs!SnapshotCurrent,
         Loops!ActiveLoops, LoopProofs!ActiveLoops, Loops!LoopAt, LoopProofs!LoopAt,
         Loops!Cardinality, LoopProofs!Cardinality
<1>4. Loops!IterationTypeOK <=> LoopProofs!IterationTypeOK
  BY DEF Loops!IterationTypeOK, LoopProofs!IterationTypeOK, Loops!Control, LoopProofs!Control,
         Loops!Loop, LoopProofs!Loop, Loops!Top, LoopProofs!Top, Loops!Outcomes, LoopProofs!Outcomes
<1> QED BY <1>1, <1>2, <1>3, <1>4

LEMMA LoopStepsAreThose == Loops!Next <=> LoopProofs!Next
BY DEF Loops!Next, LoopProofs!Next, Loops!EnterFor, LoopProofs!EnterFor,
       Loops!EnterWhile, LoopProofs!EnterWhile, Loops!NextElement, LoopProofs!NextElement,
       Loops!Continue, LoopProofs!Continue, Loops!Leave, LoopProofs!Leave,
       Loops!Call, LoopProofs!Call, Loops!Return, LoopProofs!Return,
       Loops!ListAppend, LoopProofs!ListAppend, Loops!ListStore, LoopProofs!ListStore,
       Loops!ListRemoveIndex, LoopProofs!ListRemoveIndex,
       Loops!Executing, LoopProofs!Executing, Loops!ActiveLoops, LoopProofs!ActiveLoops,
       Loops!Loops, LoopProofs!Loops, Loops!Inner, LoopProofs!Inner, Loops!Outer, LoopProofs!Outer,
       Loops!Top, LoopProofs!Top, Loops!SetLoops, LoopProofs!SetLoops,
       Loops!BeginIteration, LoopProofs!BeginIteration,
       Loops!EndIterations, LoopProofs!EndIterations,
       Loops!Capacity, LoopProofs!Capacity, Loops!InRange, LoopProofs!InRange,
       Loops!PositionOf, LoopProofs!PositionOf, Loops!Without, LoopProofs!Without,
       Loops!Panic, LoopProofs!Panic, Loops!Update, LoopProofs!Update,
       Loops!Cardinality, LoopProofs!Cardinality

LoopInv == LoopProofs!IterationInv /\ LoopProofs!IterationTypeOK

LEMMA LoopInitInv == Loops!Init => LoopInv
BY LoopsAreThose, LoopProofs!InitEstablishes, LoopProofs!InitTypes DEF LoopInv

LEMMA LoopStepInv == LoopInv /\ [Loops!Next]_loopVars => LoopInv'
<1> SUFFICES ASSUME LoopInv, [Loops!Next]_loopVars PROVE LoopInv'
  OBVIOUS
<1>1. [LoopProofs!Next]_LoopProofs!vars
  BY LoopStepsAreThose DEF loopVars, LoopProofs!vars
<1>2. LoopProofs!IterationInv'
  BY <1>1, LoopsAreThose, LoopProofs!NextKeeps DEF LoopInv
<1>3. LoopProofs!IterationTypeOK'
  BY <1>1, LoopsAreThose, LoopProofs!NextTypes DEF LoopInv
<1> QED BY <1>2, <1>3 DEF LoopInv

-----------------------------------------------------------------------------
(* The entry of the program: what a string is, and what is given back.       *)

\* The texts of the literals are collected once each (collect_strings).
LEMMA CollectedTexts ==
  ASSUME NEW texts, texts \in Seq(Texts)
  PROVE  ProgramEntry!Collected(texts) \in Seq(Texts) /\ Distinct(ProgramEntry!Collected(texts))
<1> DEFINE N == Len(texts)
           S == {found \in Seq(Texts) : Distinct(found)}
           more(found, t) == IF t \in ProgramEntry!Range(found) THEN found ELSE Append(found, t)
           step == [n \in 1 .. N |-> [found \in S |-> more(found, texts[n])]]
           none == <<>>
           build(f) == [n \in 0 .. N |-> IF n = 0 THEN none ELSE more(f[n - 1], texts[n])]
           found == CHOOSE f : f = build(f)
<1>1. none \in S /\ N \in Nat
  BY DEF Distinct
<1>0. \A n \in 1 .. N : texts[n] \in Texts
  OBVIOUS
<1>2. ASSUME NEW before, before \in Seq(Texts), Distinct(before), NEW t, t \in Texts
      PROVE  more(before, t) \in Seq(Texts) /\ Distinct(more(before, t))
  <2>1. CASE t \in ProgramEntry!Range(before)
    BY <1>2, <2>1
  <2>2. CASE t \notin ProgramEntry!Range(before)
    <3> DEFINE after == Append(before, t)
               n == Len(before)
    <3>1. \A i \in DOMAIN before : before[i] # t
      BY <2>2 DEF ProgramEntry!Range
    <3>2. n \in Nat /\ DOMAIN before = 1 .. n
      BY <1>2
    <3>3. /\ after \in Seq(Texts) /\ DOMAIN after = 1 .. n + 1 /\ after[n + 1] = t
          /\ \A i \in 1 .. n : after[i] = before[i]
      BY <1>2
    <3> HIDE DEF after, n
    <3>4. \A i \in 1 .. n + 1 : i \in 1 .. n \/ i = n + 1
      BY <3>2
    <3>5. Distinct(after)
      BY <1>2, <3>1, <3>2, <3>3, <3>4 DEF Distinct
    <3> QED BY <2>2, <3>3, <3>5 DEF after
  <2> QED BY <2>1, <2>2
<1> HIDE DEF more
<1>3. step \in [1 .. N -> [S -> S]]
  <2>1. \A before \in S, n \in 1 .. N : more(before, texts[n]) \in S
    BY <1>0, <1>2
  <2> HIDE DEF S
  <2> QED BY <2>1
<1> HIDE DEF S, step, N, none, build, found
<1>4. PICK f \in [0 .. N -> S] :
        f[0] = none /\ \A n \in 1 .. N : f[n] = step[n][f[n - 1]]
  BY <1>1, <1>3, Recursion
<1>5. \A n \in 1 .. N : step[n][f[n - 1]] = more(f[n - 1], texts[n])
  BY <1>1, <1>4 DEF step
<1>6. f = build(f)
  BY <1>1, <1>4, <1>5 DEF build
<1>7. found = build(found)
  BY <1>6 DEF found
<1>8. ProgramEntry!Collected(texts) = found[N]
  BY DEF ProgramEntry!Collected, found, build, more, none, N
<1>9. found[0] = none /\ \A n \in 1 .. N : found[n] = more(found[n - 1], texts[n])
  BY <1>1, <1>7 DEF build
<1> DEFINE P == {n \in Nat : n <= N => found[n] \in S}
<1>10. 0 \in P
  BY <1>1, <1>9
<1>11. ASSUME NEW n \in Nat, n + 1 <= N, found[n] \in S
       PROVE  found[n + 1] \in S
  <2>1. n + 1 \in 1 .. N /\ (n + 1) - 1 = n /\ texts[n + 1] \in Texts
    BY <1>1, <1>0, <1>11
  <2>2. more(found[n], texts[n + 1]) \in S
    BY <1>2, <1>11, <2>1 DEF S
  <2> QED BY <1>9, <2>1, <2>2
<1>12. \A n \in P : n + 1 \in P
  <2> HIDE DEF N, S
  <2> QED BY <1>1, <1>11
<1> HIDE DEF P
<1>13. P = Nat
  BY <1>10, <1>12, SetInduction DEF P
<1>14. found[N] \in S
  BY <1>1, <1>13 DEF P
<1> QED BY <1>8, <1>14 DEF S

\* sao2_entry_intern finds a text among others exactly where it is.
LEMMA FirstFinds ==
  ASSUME NEW texts, texts \in Seq(Texts), NEW text
  PROVE  LET i == ProgramEntry!FirstAt(texts, text)
         IN  \/ i \in DOMAIN texts /\ i > 0 /\ texts[i] = text
             \/ i = 0 /\ \A k \in DOMAIN texts : texts[k] # text
<1> DEFINE Q == {i \in DOMAIN texts : ProgramEntry!Matches(texts[i], text)}
<1>1. DOMAIN texts = 1 .. Len(texts) /\ Len(texts) \in Nat
  OBVIOUS
<1>2. \A i \in DOMAIN texts : ProgramEntry!Matches(texts[i], text) <=> texts[i] = text
  BY DEF ProgramEntry!Matches
<1>3. CASE Q = {}
  <2>1. ProgramEntry!FirstAt(texts, text) = 0
    BY <1>3 DEF ProgramEntry!FirstAt
  <2> QED BY <1>2, <1>3, <2>1
<1>4. CASE Q # {}
  <2>1. PICK i \in Q : \A k \in Q : i <= k
    <3>1. Q \subseteq Nat
      BY <1>1
    <3> HIDE DEF Q
    <3> QED BY <1>4, <3>1, LeastNat
  <2> DEFINE first == CHOOSE j \in DOMAIN texts :
                        /\ ProgramEntry!Matches(texts[j], text)
                        /\ \A k \in 1 .. j - 1 : ~ ProgramEntry!Matches(texts[k], text)
  <2>2. /\ i \in DOMAIN texts /\ ProgramEntry!Matches(texts[i], text)
        /\ \A k \in 1 .. i - 1 : ~ ProgramEntry!Matches(texts[k], text)
    BY <1>1, <2>1
  <2>3. first \in DOMAIN texts /\ ProgramEntry!Matches(texts[first], text)
    BY <2>2
  <2>4. ProgramEntry!FirstAt(texts, text) = first
    BY <2>2 DEF ProgramEntry!FirstAt
  <2> HIDE DEF first
  <2> QED BY <1>1, <1>2, <2>3, <2>4
<1> QED BY <1>3, <1>4

\* A pointer to a string, of a literal or of the pool, and its text.
Pointer == [in : {"nowhere", "literal", "pool"}, at : Nat]
Points(p, known, pooled) ==
  \/ \E i \in DOMAIN known : p = ProgramEntry!Literal(i)
  \/ \E i \in DOMAIN pooled : p = ProgramEntry!Pooled(i)
TextAt(p, known, pooled) == IF p.in = "literal" THEN known[p.at] ELSE pooled[p.at]

\* No text is twice among the literals and the pool.
PoolInv ==
  /\ literals \in Seq(Texts) /\ argv \in Seq(Texts)
  /\ pool \in [texts : Seq(Texts), capacity : Nat] /\ Len(pool.texts) <= pool.capacity
  /\ Distinct(literals) /\ Distinct(pool.texts)
  /\ \A i \in DOMAIN literals, j \in DOMAIN pool.texts : literals[i] # pool.texts[j]

\* The arguments so far are pointers to the texts of the command line.
ArgumentsInv ==
  /\ arguments \in Seq(Pointer)
  /\ phase # "over" =>
       \A i \in DOMAIN arguments :
         /\ Points(arguments[i], literals, pool.texts)
         /\ i \in DOMAIN argv /\ TextAt(arguments[i], literals, pool.texts) = argv[i]
  /\ phase \in {"arguments", "frame"} => arguments = <<>>
  /\ phase = "intern" => takesArguments /\ Len(arguments) < Len(argv)
  /\ phase \in {"call", "returned"} /\ takesArguments => Len(arguments) = Len(argv)
  /\ phase \in {"call", "returned"} /\ ~ takesArguments => arguments = <<>>

\* What is held where.
HeldInv ==
  /\ phase \in {"arguments", "frame", "intern", "call", "returned", "unlinked", "over"}
  /\ held \subseteq {"heap", "scoped", "frame"}
  /\ exit \in {"", "success", "status", "panic"}
  /\ phase # "over" => exit = ""
  /\ phase \in {"arguments", "frame", "unlinked"} => "frame" \notin held
  /\ exit \in {"success", "status"} => held = {} /\ pool = ProgramEntry!NoPool

EntryInv == PoolInv /\ ArgumentsInv /\ HeldInv /\ takesArguments \in BOOLEAN

LEMMA EntryInitInv == ProgramEntry!Init => EntryInv
<1> SUFFICES ASSUME ProgramEntry!Init PROVE EntryInv
  OBVIOUS
<1>1. /\ phase = "arguments" /\ arguments = <<>> /\ held = {} /\ exit = ""
      /\ takesArguments \in BOOLEAN /\ pool = [texts |-> <<>>, capacity |-> 0]
  BY DEF ProgramEntry!Init, ProgramEntry!NoPool
<1>2. argv \in Seq(Texts)
  <2>1. PICK n \in 0 .. MaxArguments : argv \in [1 .. n -> Texts]
    BY DEF ProgramEntry!Init
  <2>2. n \in Nat
    BY RuntimeAssumption DEF ProgramEntry!EntryAssumption
  <2> QED BY <2>1, <2>2, SeqDef
<1>3. literals \in Seq(Texts) /\ Distinct(literals)
  <2>1. PICK texts \in LiteralLists : literals = ProgramEntry!Collected(texts)
    BY DEF ProgramEntry!Init
  <2>2. texts \in Seq(Texts)
    BY RuntimeAssumption DEF ProgramEntry!EntryAssumption
  <2> QED BY <2>1, <2>2, CollectedTexts
<1>4. /\ pool.texts = <<>> /\ pool.capacity = 0 /\ DOMAIN pool.texts = {} /\ Len(pool.texts) = 0
      /\ pool \in [texts : Seq(Texts), capacity : Nat]
      /\ arguments \in Seq(Pointer) /\ DOMAIN arguments = {}
  <2>1. <<>> \in Seq(Texts) /\ <<>> \in Seq(Pointer) /\ DOMAIN <<>> = {} /\ Len(<<>>) = 0
    OBVIOUS
  <2> QED BY ONLY <1>1, <2>1
<1>5. PoolInv
  BY <1>2, <1>3, <1>4 DEF PoolInv, Distinct
<1>6. ArgumentsInv
  BY <1>1, <1>4 DEF ArgumentsInv
<1> QED BY <1>1, <1>5, <1>6 DEF EntryInv, HeldInv

\* The pointer that a text is given: to itself, among the literals, the pool or
\* at the end of the pool; those that were given before still point to theirs.
Given(p, text) ==
  /\ p \in Pointer
  /\ Points(p, literals', pool'.texts) /\ TextAt(p, literals', pool'.texts) = text
  /\ \A q : Points(q, literals, pool.texts) =>
       /\ Points(q, literals', pool'.texts)
       /\ TextAt(q, literals', pool'.texts) = TextAt(q, literals, pool.texts)

LEMMA KnownGiven ==
  ASSUME PoolInv, NEW text, UNCHANGED <<literals, pool>>,
         ProgramEntry!Interned(text) # ProgramEntry!Null
  PROVE  Given(ProgramEntry!Interned(text), text)
<1> DEFINE p == ProgramEntry!Interned(text)
           i == ProgramEntry!FirstAt(literals, text)
           j == ProgramEntry!FirstAt(pool.texts, text)
<1>1. /\ literals \in Seq(Texts) /\ pool.texts \in Seq(Texts)
      /\ DOMAIN literals \subseteq Nat /\ DOMAIN pool.texts \subseteq Nat
  <2>1. literals \in Seq(Texts) /\ pool.texts \in Seq(Texts)
    BY DEF PoolInv
  <2> QED BY <2>1
<1>2. /\ i = 0 \/ (i \in DOMAIN literals /\ i > 0 /\ literals[i] = text)
      /\ j = 0 \/ (j \in DOMAIN pool.texts /\ j > 0 /\ pool.texts[j] = text)
  BY <1>1, FirstFinds
<1>3. \/ i \in DOMAIN literals /\ literals[i] = text /\ p = ProgramEntry!Literal(i)
      \/ j \in DOMAIN pool.texts /\ pool.texts[j] = text /\ p = ProgramEntry!Pooled(j)
  BY <1>2 DEF ProgramEntry!Interned
<1> HIDE DEF p, i, j
<1>4. p \in Pointer /\ Points(p, literals, pool.texts) /\ TextAt(p, literals, pool.texts) = text
  BY <1>1, <1>3 DEF Pointer, Points, TextAt, ProgramEntry!Literal, ProgramEntry!Pooled
<1> QED BY <1>4 DEF Given, p

LEMMA NewGiven ==
  ASSUME PoolInv, NEW text, text \in Texts, UNCHANGED <<literals, argv>>,
         ProgramEntry!Interned(text) = ProgramEntry!Null,
         pool' = [texts |-> Append(pool.texts, text), capacity |-> ProgramEntry!Reserved]
  PROVE  PoolInv' /\ Given(ProgramEntry!Pooled(Len(pool.texts) + 1), text)
<1> DEFINE m == Len(pool.texts)
           more == Append(pool.texts, text)
<1>1. /\ literals \in Seq(Texts) /\ pool.texts \in Seq(Texts) /\ argv \in Seq(Texts)
      /\ pool.capacity \in Nat /\ m <= pool.capacity /\ Distinct(pool.texts) /\ Distinct(literals)
      /\ \A i \in DOMAIN literals, j \in DOMAIN pool.texts : literals[i] # pool.texts[j]
  BY DEF PoolInv
<1>2. m \in Nat /\ DOMAIN pool.texts = 1 .. m
  BY <1>1
<1>3. /\ \A i \in DOMAIN literals : literals[i] # text
      /\ \A i \in DOMAIN pool.texts : pool.texts[i] # text
  BY <1>1, FirstFinds
  DEF ProgramEntry!Interned, ProgramEntry!Null, ProgramEntry!Literal, ProgramEntry!Pooled
<1>4. /\ more \in Seq(Texts) /\ Len(more) = m + 1 /\ DOMAIN more = 1 .. m + 1
      /\ more[m + 1] = text /\ \A i \in 1 .. m : more[i] = pool.texts[i]
  BY <1>1, <1>2
<1>5. ProgramEntry!Reserved \in Nat /\ m + 1 <= ProgramEntry!Reserved
  <2> HIDE DEF m
  <2>1. ProgramEntry!Reserved = IF m < pool.capacity THEN pool.capacity
                                ELSE 2 * (IF pool.capacity = 0 THEN 4 ELSE pool.capacity)
    BY DEF ProgramEntry!Reserved, m
  <2> QED BY <1>1, <1>2, <2>1
<1>6. pool'.texts = more /\ pool'.capacity = ProgramEntry!Reserved
      /\ pool' \in [texts : Seq(Texts), capacity : Nat]
  BY <1>4, <1>5
<1> HIDE DEF more, m
<1>7. \A i \in 1 .. m + 1 : i \in 1 .. m \/ i = m + 1
  BY <1>2
<1>8. Distinct(more)
  BY <1>1, <1>2, <1>3, <1>4, <1>7 DEF Distinct
<1>9. \A i \in DOMAIN literals, j \in DOMAIN more : literals[i] # more[j]
  BY <1>1, <1>2, <1>3, <1>4, <1>7
<1>10. PoolInv'
  <2>1. Len(pool'.texts) <= pool'.capacity /\ Distinct(pool'.texts)
    BY <1>4, <1>5, <1>6, <1>8
  <2>2. \A i \in DOMAIN literals, j \in DOMAIN pool'.texts : literals[i] # pool'.texts[j]
    BY <1>6, <1>9
  <2>3. literals' = literals /\ argv' = argv
    OBVIOUS
  <2> QED BY ONLY <1>1, <1>6, <2>1, <2>2, <2>3 DEF PoolInv
<1>11. 1 .. m \subseteq 1 .. m + 1 /\ m + 1 \in 1 .. m + 1
  BY <1>2
<1>12. /\ ProgramEntry!Pooled(m + 1) \in Pointer
       /\ Points(ProgramEntry!Pooled(m + 1), literals, more)
       /\ TextAt(ProgramEntry!Pooled(m + 1), literals, more) = text
  BY <1>2, <1>4, <1>11 DEF Pointer, Points, TextAt, ProgramEntry!Pooled
<1>13. ASSUME NEW q, Points(q, literals, pool.texts)
       PROVE  /\ Points(q, literals, more)
              /\ TextAt(q, literals, more) = TextAt(q, literals, pool.texts)
  BY <1>2, <1>4, <1>11, <1>13 DEF Points, TextAt, ProgramEntry!Literal, ProgramEntry!Pooled
<1>14. Given(ProgramEntry!Pooled(m + 1), text)
  BY <1>6, <1>12, <1>13 DEF Given
<1> QED BY <1>10, <1>14 DEF m

LEMMA InternInv ==
  ASSUME EntryInv, ProgramEntry!InternNext
  PROVE  EntryInv'
<1> DEFINE n == Len(arguments)
           text == argv[n + 1]
<1>1. /\ phase = "intern" /\ takesArguments /\ n < Len(argv) /\ n \in Nat /\ Len(argv) \in Nat
      /\ text \in Texts /\ DOMAIN argv = 1 .. Len(argv) /\ DOMAIN arguments = 1 .. n
      /\ n + 1 \in DOMAIN argv
  <2>1. /\ argv \in Seq(Texts) /\ arguments \in Seq(Pointer)
        /\ phase = "intern" /\ takesArguments /\ n < Len(argv)
    BY DEF EntryInv, PoolInv, ArgumentsInv, ProgramEntry!InternNext
  <2> QED BY <2>1
<1>2. /\ phase' = IF Len(arguments') = Len(argv) THEN "call" ELSE "intern"
      /\ UNCHANGED <<takesArguments, literals, argv, held, exit>>
  BY DEF ProgramEntry!InternNext
<1>3. PICK pointer : arguments' = Append(arguments, pointer) /\ PoolInv' /\ Given(pointer, text)
  <2>1. CASE ProgramEntry!Interned(text) # ProgramEntry!Null
    <3>1. UNCHANGED pool /\ arguments' = Append(arguments, ProgramEntry!Interned(text))
      BY <2>1 DEF ProgramEntry!InternNext
    <3>2. PoolInv'
      BY <1>2, <3>1 DEF EntryInv, PoolInv
    <3>3. Given(ProgramEntry!Interned(text), text)
      BY <1>2, <2>1, <3>1, KnownGiven DEF EntryInv
    <3> QED BY <3>1, <3>2, <3>3
  <2>2. CASE ProgramEntry!Interned(text) = ProgramEntry!Null
    <3>1. /\ pool' = [texts |-> Append(pool.texts, text), capacity |-> ProgramEntry!Reserved]
          /\ arguments' = Append(arguments, ProgramEntry!Pooled(Len(pool.texts) + 1))
      BY <2>2 DEF ProgramEntry!InternNext
    <3>2. PoolInv' /\ Given(ProgramEntry!Pooled(Len(pool.texts) + 1), text)
      BY <1>1, <1>2, <2>2, <3>1, NewGiven DEF EntryInv
    <3> QED BY <3>1, <3>2
  <2> QED BY <2>1, <2>2
<1>4. /\ arguments' \in Seq(Pointer)
      /\ Len(arguments') = n + 1 /\ DOMAIN arguments' = 1 .. n + 1
      /\ arguments'[n + 1] = pointer /\ \A i \in 1 .. n : arguments'[i] = arguments[i]
  <2>1. arguments \in Seq(Pointer) /\ pointer \in Pointer
    BY <1>3 DEF EntryInv, ArgumentsInv, Given
  <2> QED BY <1>3, <2>1
<1> HIDE DEF n
<1>5. ASSUME NEW i \in 1 .. n + 1
      PROVE  /\ Points(arguments'[i], literals', pool'.texts)
             /\ i \in DOMAIN argv /\ TextAt(arguments'[i], literals', pool'.texts) = argv[i]
  <2>1. CASE i = n + 1
    BY <1>1, <1>3, <1>4, <2>1 DEF Given
  <2>2. CASE i \in 1 .. n
    <3>1. /\ Points(arguments[i], literals, pool.texts)
          /\ i \in DOMAIN argv /\ TextAt(arguments[i], literals, pool.texts) = argv[i]
      BY <1>1, <2>2 DEF EntryInv, ArgumentsInv
    <3> QED BY <1>3, <1>4, <2>2, <3>1 DEF Given
  <2> QED BY <1>1, <2>1, <2>2
<1>6. ArgumentsInv'
  <2>1. \A i \in DOMAIN arguments' :
          /\ Points(arguments'[i], literals', pool'.texts)
          /\ i \in DOMAIN argv' /\ TextAt(arguments'[i], literals', pool'.texts) = argv'[i]
    BY <1>2, <1>4, <1>5
  <2>2. phase' \in {"intern", "call"} /\ takesArguments'
    BY <1>1, <1>2
  <2>3. phase' = "intern" => Len(arguments') < Len(argv')
    <3>1. phase' = "intern" => n + 1 # Len(argv)
      BY <1>2, <1>4
    <3>2. phase' = "intern" => n + 1 < Len(argv)
      <4>1. n \in Nat /\ Len(argv) \in Nat /\ n < Len(argv)
        BY <1>1
      <4> QED BY ONLY <3>1, <4>1
    <3>3. argv' = argv
      BY <1>2
    <3> QED BY <1>4, <3>2, <3>3
  <2>4. phase' = "call" => Len(arguments') = Len(argv')
    BY <1>2
  <2> QED BY ONLY <1>4, <2>1, <2>2, <2>3, <2>4 DEF ArgumentsInv
<1>7. HeldInv'
  BY <1>1, <1>2 DEF EntryInv, HeldInv
<1> QED BY <1>2, <1>3, <1>6, <1>7 DEF EntryInv

\* Every other step leaves the literals, the command line and the pointers as
\* they are, or ends the program.
LEMMA EntryStepInv == EntryInv /\ [ProgramEntry!Next]_entryVars => EntryInv'
<1> SUFFICES ASSUME EntryInv, [ProgramEntry!Next]_entryVars PROVE EntryInv'
  OBVIOUS
<1>1. CASE UNCHANGED entryVars
  BY <1>1 DEF EntryInv, PoolInv, ArgumentsInv, HeldInv, entryVars
<1>2. ASSUME UNCHANGED <<literals, argv, pool>> PROVE PoolInv'
  BY <1>2 DEF EntryInv, PoolInv
<1>3. ASSUME UNCHANGED <<literals, argv>>, pool' = ProgramEntry!NoPool PROVE PoolInv'
  <2>1. pool'.texts = <<>> /\ pool'.capacity = 0 /\ DOMAIN pool'.texts = {} /\ Len(pool'.texts) = 0
        /\ pool' \in [texts : Seq(Texts), capacity : Nat]
    BY <1>3 DEF ProgramEntry!NoPool
  <2> QED BY <1>3, <2>1 DEF EntryInv, PoolInv, Distinct
<1>4. ASSUME UNCHANGED arguments, phase' = "over" PROVE ArgumentsInv'
  BY <1>4 DEF EntryInv, ArgumentsInv
<1>5. CASE ProgramEntry!RejectArguments
  BY <1>2, <1>4, <1>5 DEF ProgramEntry!RejectArguments, EntryInv, HeldInv
<1>6. CASE ProgramEntry!Reserve
  BY <1>2, <1>6 DEF ProgramEntry!Reserve, EntryInv, HeldInv, ArgumentsInv
<1>7. CASE ProgramEntry!LinkFrame
  <2>1. /\ arguments = <<>> /\ Len(arguments) = 0 /\ DOMAIN arguments = {}
        /\ argv \in Seq(Texts) /\ Len(argv) \in Nat /\ (argv # <<>> => Len(argv) > 0)
    <3>1. arguments = <<>> /\ argv \in Seq(Texts)
      BY <1>7 DEF ProgramEntry!LinkFrame, EntryInv, ArgumentsInv, PoolInv
    <3> QED BY <3>1
  <2>2. ArgumentsInv'
    BY <1>7, <2>1 DEF ProgramEntry!LinkFrame, EntryInv, ArgumentsInv
  <2> QED BY <1>2, <1>7, <2>2 DEF ProgramEntry!LinkFrame, EntryInv, HeldInv
<1>8. CASE ProgramEntry!FailArguments
  BY <1>3, <1>4, <1>8 DEF ProgramEntry!FailArguments, EntryInv, HeldInv
<1>9. CASE ProgramEntry!Run
  BY <1>2, <1>9 DEF ProgramEntry!Run, EntryInv, HeldInv, ArgumentsInv
<1>10. CASE ProgramEntry!Unlink
  BY <1>2, <1>10 DEF ProgramEntry!Unlink, EntryInv, HeldInv, ArgumentsInv
<1>11. CASE ProgramEntry!Finish
  BY <1>3, <1>4, <1>11 DEF ProgramEntry!Finish, ProgramEntry!Release, EntryInv, HeldInv
<1> QED BY <1>1, <1>5, <1>6, <1>7, <1>8, <1>9, <1>10, <1>11, InternInv DEF ProgramEntry!Next

LEMMA EntryInvSuffices ==
  EntryInv => ProgramEntry!InternedByContents /\ ProgramEntry!ReleasedInOrder
<1> SUFFICES ASSUME EntryInv PROVE ProgramEntry!InternedByContents /\ ProgramEntry!ReleasedInOrder
  OBVIOUS
<1>1. ProgramEntry!ReleasedInOrder
  BY DEF EntryInv, HeldInv, ProgramEntry!ReleasedInOrder
<1>2. ASSUME phase \in {"call", "returned"}
      PROVE  /\ \A p \in {ProgramEntry!Literal(i) : i \in DOMAIN literals} \cup ProgramEntry!Range(arguments) :
                  Points(p, literals, pool.texts)
             /\ takesArguments =>
                  [i \in DOMAIN arguments |-> ProgramEntry!TextOf(arguments[i])] = argv
  <2>1. \A i \in DOMAIN arguments :
          /\ Points(arguments[i], literals, pool.texts)
          /\ ProgramEntry!TextOf(arguments[i]) = argv[i]
    BY <1>2 DEF EntryInv, ArgumentsInv, TextAt, ProgramEntry!TextOf
  <2>2. ASSUME takesArguments
        PROVE  [i \in DOMAIN arguments |-> ProgramEntry!TextOf(arguments[i])] = argv
    <3>1. arguments \in Seq(Pointer) /\ argv \in Seq(Texts) /\ Len(arguments) = Len(argv)
      BY <1>2, <2>2 DEF EntryInv, ArgumentsInv, PoolInv
    <3>2. DOMAIN arguments = DOMAIN argv /\ argv = [i \in DOMAIN argv |-> argv[i]]
      BY <3>1
    <3> QED BY <2>1, <3>2
  <2> QED BY <2>1, <2>2 DEF Points, ProgramEntry!Range
<1>3. ASSUME NEW p, NEW q, Points(p, literals, pool.texts), Points(q, literals, pool.texts)
      PROVE  ProgramEntry!TextOf(p) = ProgramEntry!TextOf(q) <=> p = q
  BY <1>3 DEF Points, EntryInv, PoolInv, Distinct, ProgramEntry!TextOf,
              ProgramEntry!Literal, ProgramEntry!Pooled
<1>4. ProgramEntry!InternedByContents
  BY <1>2, <1>3 DEF ProgramEntry!InternedByContents
<1> QED BY <1>1, <1>4

LEMMA EntryTypes == EntryInv => ProgramEntry!EntryTypeOK
<1> SUFFICES ASSUME EntryInv PROVE ProgramEntry!EntryTypeOK
  OBVIOUS
<1>1. /\ literals \in Seq(Texts) /\ argv \in Seq(Texts) /\ pool.texts \in Seq(Texts)
      /\ Len(pool.texts) <= pool.capacity
  BY DEF EntryInv, PoolInv
<1>2. ProgramEntry!Range(literals) \cup ProgramEntry!Range(argv) \cup ProgramEntry!Range(pool.texts)
        \subseteq Texts
  BY <1>1 DEF ProgramEntry!Range
<1> QED BY <1>1, <1>2 DEF EntryInv, HeldInv, ProgramEntry!EntryTypeOK

-----------------------------------------------------------------------------
(* Checked arithmetic. *)

\* The powers of two.
LEMMA PowersAre ==
  /\ Arithmetic!Power[0] = 1
  /\ \A n \in 0 .. Bits : Arithmetic!Power[n] \in Nat \ {0}
  /\ \A n \in 1 .. Bits : Arithmetic!Power[n] = 2 * Arithmetic!Power[n - 1]
<1> DEFINE N == Bits
           S == Nat
           start == 1
           twice == [x \in Nat |-> 2 * x]
           step == [n \in 1 .. N |-> twice]
           build(f) == [n \in 0 .. N |-> IF n = 0 THEN 1 ELSE 2 * f[n - 1]]
           power == CHOOSE f : f = build(f)
<1>1. N \in Nat
  BY RuntimeAssumption DEF Arithmetic!ArithmeticAssumption
<1>2. step \in [1 .. N -> [S -> S]] /\ start \in S
  <2>1. twice \in [Nat -> Nat]
    OBVIOUS
  <2> HIDE DEF twice
  <2> QED BY <2>1
<1> HIDE DEF N, S, start, twice, step, build, power
<1>3. PICK f \in [0 .. N -> S] :
        f[0] = start /\ \A n \in 1 .. N : f[n] = step[n][f[n - 1]]
  BY <1>1, <1>2, Recursion
<1> USE DEF S, start
<1>4. \A n \in 1 .. N : step[n][f[n - 1]] = 2 * f[n - 1]
  <2>1. \A n \in 1 .. N : f[n - 1] \in Nat
    BY <1>1, <1>3
  <2> QED BY <2>1 DEF step, twice
<1>5. f = build(f)
  BY <1>1, <1>3, <1>4 DEF build
<1>6. power = build(power)
  BY <1>5 DEF power
<1>7. Arithmetic!Power = power
  BY DEF Arithmetic!Power, power, build, N
<1>8. /\ power[0] = 1
      /\ \A n \in 1 .. N : power[n] = 2 * power[n - 1]
  BY <1>1, <1>6 DEF build
<1> DEFINE P == {n \in Nat : n <= N => power[n] \in Nat \ {0}}
<1>9. 0 \in P
  BY <1>8
<1>10. ASSUME NEW n \in P PROVE n + 1 \in P
  <2>1. CASE n + 1 <= N
    <3>1. power[n + 1] = 2 * power[n] /\ power[n] \in Nat \ {0}
      BY <1>1, <1>8, <2>1
    <3> QED BY <3>1
  <2> QED BY <1>1, <2>1
<1> HIDE DEF P
<1>11. P = Nat
  <2>1. P \in SUBSET Nat
    BY DEF P
  <2> QED BY ONLY <1>9, <1>10, <2>1, SetInduction
<1>12. \A n \in 0 .. N : power[n] \in Nat \ {0}
  BY <1>1, <1>11 DEF P
<1> QED BY <1>7, <1>8, <1>12 DEF N

\* Half of the numbers of a word are negative.
Half == Arithmetic!Power[Bits - 1]

LEMMA HalfIs ==
  /\ Half \in Nat \ {0} /\ Arithmetic!Power[Bits] = 2 * Half
  /\ Arithmetic!IntMin = -Half /\ Arithmetic!IntMax = Half - 1
  /\ Arithmetic!UIntMax = (2 * Half) - 1 /\ Arithmetic!Int64 = (-Half) .. (Half - 1)
  /\ Bits \in Nat \ {0}
<1>1. Bits \in Nat \ {0} /\ Bits - 1 \in 0 .. Bits /\ Bits \in 1 .. Bits
  BY RuntimeAssumption DEF Arithmetic!ArithmeticAssumption
<1> QED BY <1>1, PowersAre DEF Half, Arithmetic!IntMin, Arithmetic!IntMax, Arithmetic!UIntMax,
                               Arithmetic!Int64

\* Moving twos from one factor to the other.
LEMMA PowersSplit ==
  ASSUME NEW n \in 0 .. Bits
  PROVE  Arithmetic!Power[n] * Arithmetic!Power[Bits - n] = Arithmetic!Power[Bits]
<1> DEFINE p == Arithmetic!Power
           P == {k \in Nat : k <= Bits => p[k] * p[Bits - k] = p[Bits]}
<1>1. /\ Bits \in Nat /\ p[0] = 1
      /\ \A k \in 0 .. Bits : p[k] \in Nat \ {0}
      /\ \A k \in 1 .. Bits : p[k] = 2 * p[k - 1]
  BY HalfIs, PowersAre
<1> HIDE DEF p
<1>2. 0 \in P
  BY <1>1
<1>3. ASSUME NEW k \in P PROVE k + 1 \in P
  <2>1. CASE k + 1 <= Bits
    <3> DEFINE a == p[k]
               b == p[Bits - (k + 1)]
               c == p[Bits - k]
    <3>1. p[k + 1] = 2 * a /\ a \in Nat
      BY <1>1, <2>1
    <3>2. c = 2 * b /\ b \in Nat
      <4>1. Bits - k \in 1 .. Bits /\ (Bits - k) - 1 = Bits - (k + 1) /\ Bits - (k + 1) \in 0 .. Bits
        BY <1>1, <2>1
      <4> QED BY <1>1, <4>1
    <3>3. a * c = p[Bits]
      BY <1>1, <2>1
    <3> HIDE DEF a, b, c
    <3>4. (2 * a) * b = a * (2 * b)
      BY <3>1, <3>2
    <3> QED BY <3>1, <3>2, <3>3, <3>4 DEF b
  <2> QED BY <1>1, <2>1
<1> HIDE DEF P
<1>4. P = Nat
  <2>1. P \in SUBSET Nat
    BY DEF P
  <2> QED BY ONLY <1>2, <1>3, <2>1, SetInduction
<1>5. n \in P /\ n <= Bits
  BY <1>1, <1>4
<1>6. p[n] * p[Bits - n] = p[Bits]
  BY <1>5 DEF P
<1> QED BY <1>6 DEF p

\* Dividing a bound by a factor.
LEMMA BoundDivided ==
  ASSUME NEW m \in Nat, NEW d \in Nat \ {0}, NEW limit \in Nat
  PROVE  m > limit \div d <=> m * d > limit
<1> DEFINE q == limit \div d
           s == limit % d
<1>1. q \in Nat /\ s \in 0 .. d - 1 /\ limit = (d * q) + s
  BY Remainder
<1> HIDE DEF q, s
<1>2. CASE m > q
  <2>1. m >= q + 1
    BY <1>1, <1>2
  <2>2. m * d >= (q + 1) * d
    BY <1>1, <2>1
  <2>3. (q + 1) * d = (d * q) + d /\ m * d \in Nat
    BY <1>1
  <2>4. m * d > limit
    BY <1>1, <2>2, <2>3
  <2> QED BY <1>2, <2>4 DEF q
<1>3. CASE ~ (m > q)
  <2>1. m <= q
    BY <1>1, <1>3
  <2>2. m * d <= q * d
    BY <1>1, <2>1
  <2>3. q * d = d * q /\ m * d \in Nat
    BY <1>1
  <2>4. ~ (m * d > limit)
    BY <1>1, <2>2, <2>3
  <2> QED BY <1>3, <2>4 DEF q
<1> QED BY <1>2, <1>3

\* An operation panics when one of its checks does.
Refuses(op, l, r) == \E i \in DOMAIN Arithmetic!ChecksOf(op) :
                        Arithmetic!Panics(Arithmetic!ChecksOf(op)[i], l, r)

\* What makes an operation right: it computes what it means, or what it means
\* is no integer of the language.
Right(op, l, r) ==
  /\ ~ Refuses(op, l, r) =>
       Arithmetic!Computed(op, l, r) # {} /\ Arithmetic!Computed(op, l, r) = Arithmetic!Meaning(op, l, r)
  /\ Refuses(op, l, r) => Arithmetic!Meaning(op, l, r) \cap Arithmetic!Int64 = {}

LEMMA RefusesOne ==
  ASSUME NEW op \in {"add", "subtract", "multiply", "negate", "divide", "remainder", "index"},
         NEW l, NEW r
  PROVE  Refuses(op, l, r) <=> Arithmetic!Panics(op, l, r)
<1>1. Arithmetic!ChecksOf(op) = <<op>>
  BY DEF Arithmetic!ChecksOf
<1> HIDE DEF Refuses
<1>2. DOMAIN <<op>> = {1} /\ <<op>>[1] = op
  OBVIOUS
<1> QED BY <1>1, <1>2 DEF Refuses

LEMMA SumsRight ==
  ASSUME NEW l \in Arithmetic!Int64, NEW r \in Arithmetic!Int64
  PROVE  Right("add", l, r) /\ Right("subtract", l, r) /\ Right("negate", l, r)
<1>1. l \in (-Half) .. (Half - 1) /\ r \in (-Half) .. (Half - 1) /\ Half \in Nat \ {0}
  BY HalfIs
<1>2. Right("add", l, r)
  <2>1. Refuses("add", l, r) <=> l + r \notin Arithmetic!Int64
    BY <1>1, RefusesOne, HalfIs DEF Arithmetic!Panics
  <2>2. Arithmetic!Computed("add", l, r) = Arithmetic!Defined(l + r)
        /\ Arithmetic!Meaning("add", l, r) = {l + r}
    BY DEF Arithmetic!Computed, Arithmetic!Meaning
  <2> QED BY ONLY <2>1, <2>2 DEF Right, Arithmetic!Defined
<1>3. Right("subtract", l, r)
  <2>1. Refuses("subtract", l, r) <=> l - r \notin Arithmetic!Int64
    BY <1>1, RefusesOne, HalfIs DEF Arithmetic!Panics
  <2>2. Arithmetic!Computed("subtract", l, r) = Arithmetic!Defined(l - r)
        /\ Arithmetic!Meaning("subtract", l, r) = {l - r}
    BY DEF Arithmetic!Computed, Arithmetic!Meaning
  <2> QED BY ONLY <2>1, <2>2 DEF Right, Arithmetic!Defined
<1>4. Right("negate", l, r)
  <2>1. Refuses("negate", l, r) <=> -l \notin Arithmetic!Int64
    BY <1>1, RefusesOne, HalfIs DEF Arithmetic!Panics
  <2>2. Arithmetic!Computed("negate", l, r) = Arithmetic!Defined(-l)
        /\ Arithmetic!Meaning("negate", l, r) = {-l}
    BY DEF Arithmetic!Computed, Arithmetic!Meaning
  <2> QED BY ONLY <2>1, <2>2 DEF Right, Arithmetic!Defined
<1> QED BY <1>2, <1>3, <1>4

LEMMA IndexRight ==
  ASSUME NEW l \in Lengths, NEW r \in Arithmetic!Int64
  PROVE  Right("index", l, r)
<1>1. l \in Nat /\ r \in Int /\ Arithmetic!Magnitude(r) = (IF r >= 0 THEN r ELSE -r)
  BY HalfIs, RuntimeAssumption DEF Arithmetic!ArithmeticAssumption, Arithmetic!Magnitude
<1>2. Refuses("index", l, r) <=> ~ (r \in -l .. l - 1)
  <2>1. Refuses("index", l, r) <=> Arithmetic!Panics("index", l, r)
    BY RefusesOne
  <2>2. Arithmetic!Panics("index", l, r) <=>
          IF r >= 0 THEN Arithmetic!Magnitude(r) >= l ELSE Arithmetic!Magnitude(r) > l
    BY DEF Arithmetic!Panics
  <2> QED BY <1>1, <2>1, <2>2
<1> DEFINE position == IF r >= 0 THEN r ELSE l - Arithmetic!Magnitude(r)
<1>3. Arithmetic!Computed("index", l, r) = IF position \in 0 .. l - 1 THEN {position} ELSE {}
  BY DEF Arithmetic!Computed
<1>4. Arithmetic!Meaning("index", l, r) = {p \in 0 .. l - 1 : p = r \/ p = l + r}
  BY DEF Arithmetic!Meaning
<1>5. position = IF r >= 0 THEN r ELSE l + r
  BY <1>1
<1> HIDE DEF position
<1>6. CASE r \in -l .. l - 1
  <2>1. position \in 0 .. l - 1 /\ {p \in 0 .. l - 1 : p = r \/ p = l + r} = {position}
    BY <1>1, <1>5, <1>6
  <2>2. Arithmetic!Computed("index", l, r) = {position}
        /\ Arithmetic!Meaning("index", l, r) = {position}
    BY <1>3, <1>4, <2>1
  <2> QED BY <1>2, <1>6, <2>2 DEF Right
<1>7. CASE ~ (r \in -l .. l - 1)
  <2>1. {p \in 0 .. l - 1 : p = r \/ p = l + r} = {}
    BY <1>1, <1>7
  <2> QED BY <1>2, <1>4, <1>7, <2>1 DEF Right
<1> QED BY <1>6, <1>7

\* The magnitude of a product, and what bounds it.
LEMMA ProductBounded ==
  ASSUME NEW l \in Arithmetic!Int64, NEW r \in Int, NEW a \in Nat, NEW b \in Nat,
         l = a \/ l = -a, r = b \/ r = -b,
         NEW negative, negative \in BOOLEAN,
         negative <=> ~ ((l < 0) <=> (r < 0)), l # 0, r # 0
  PROVE  a * b > Arithmetic!Limit(negative) <=> l * r \notin Arithmetic!Int64
<1>1. a * b \in Nat /\ a * (-b) = -(a * b) /\ (-a) * b = -(a * b) /\ (-a) * (-b) = a * b
  OBVIOUS
<1>2. l * r = IF negative THEN -(a * b) ELSE a * b
  <2>1. CASE l = a /\ r = b
    BY <1>1, <2>1
  <2>2. CASE l = a /\ r = -b
    BY <1>1, <2>2, HalfIs
  <2>3. CASE l = -a /\ r = b
    BY <1>1, <2>3, HalfIs
  <2>4. CASE l = -a /\ r = -b
    BY <1>1, <2>4, HalfIs
  <2> QED BY <2>1, <2>2, <2>3, <2>4
<1>3. Arithmetic!Limit(negative) = IF negative THEN Half ELSE Half - 1
  BY HalfIs DEF Arithmetic!Limit
<1> DEFINE m == a * b
<1>4. m \in Nat /\ l * r = IF negative THEN -m ELSE m
  BY <1>1, <1>2
<1> HIDE DEF m
<1>5. m > Arithmetic!Limit(negative) <=> l * r \notin Arithmetic!Int64
  BY <1>3, <1>4, HalfIs
<1> QED BY <1>5 DEF m

LEMMA ProductsRight ==
  ASSUME NEW l \in Arithmetic!Int64, NEW r \in Arithmetic!Int64
  PROVE  Right("multiply", l, r)
<1> DEFINE negative == (l < 0) /= (r < 0)
           a == Arithmetic!Magnitude(l)
           b == Arithmetic!Magnitude(r)
           limit == Arithmetic!Limit(negative)
<1>1. l \in Int /\ r \in Int /\ a \in Nat /\ b \in Nat /\ (l = a \/ l = -a) /\ (r = b \/ r = -b)
      /\ (l # 0 => a # 0)
  BY HalfIs DEF Arithmetic!Magnitude
<1>2. limit \in Nat
  BY HalfIs DEF Arithmetic!Limit
<1>3. negative \in BOOLEAN /\ (negative <=> ~ ((l < 0) <=> (r < 0)))
  BY <1>1
<1>4. Arithmetic!Panics("multiply", l, r) <=> l # 0 /\ r # 0 /\ b > limit \div a
  BY DEF Arithmetic!Panics
<1> HIDE DEF negative, a, b, limit
<1>5. Arithmetic!Panics("multiply", l, r) <=> l * r \notin Arithmetic!Int64
  <2>1. CASE l = 0 \/ r = 0
    BY <1>1, <1>4, <2>1, HalfIs
  <2>2. CASE l # 0 /\ r # 0
    <3>1. a * b > limit <=> l * r \notin Arithmetic!Int64
      BY <1>1, <1>3, <2>2, ProductBounded DEF limit
    <3>2. b > limit \div a <=> b * a > limit
      BY <1>1, <1>2, <2>2, BoundDivided
    <3>3. a * b = b * a
      BY <1>1
    <3> QED BY <1>4, <2>2, <3>1, <3>2, <3>3
  <2> QED BY <2>1, <2>2
<1>6. Refuses("multiply", l, r) <=> l * r \notin Arithmetic!Int64
  BY <1>5, RefusesOne
<1>7. Arithmetic!Computed("multiply", l, r) = Arithmetic!Defined(l * r)
      /\ Arithmetic!Meaning("multiply", l, r) = {l * r}
  BY DEF Arithmetic!Computed, Arithmetic!Meaning
<1> QED BY ONLY <1>6, <1>7 DEF Right, Arithmetic!Defined

\* Division by a positive number has one quotient and one remainder.
LEMMA OneDivision ==
  ASSUME NEW a \in Int, NEW b \in Nat \ {0}, NEW k \in Int, NEW m \in 0 .. b - 1,
         a = (b * k) + m
  PROVE  k = a \div b /\ m = a % b
<1> DEFINE q == a \div b
           s == a % b
<1>1. q \in Int /\ s \in 0 .. b - 1 /\ a = (b * q) + s
  OBVIOUS
<1> HIDE DEF q, s
<1>2. b * (k - q) = (b * k) - (b * q) /\ b * (k - q) = s - m
  BY <1>1
<1>3. ~ (k - q >= 1)
  <2>1. SUFFICES ASSUME k - q >= 1 PROVE FALSE
    OBVIOUS
  <2>2. b * (k - q) >= b
    BY <1>1, <2>1
  <2> QED BY <1>1, <1>2, <2>2
<1>4. ~ (k - q <= -1)
  <2>1. SUFFICES ASSUME q - k >= 1 PROVE FALSE
    BY <1>1
  <2>2. b * (q - k) >= b /\ b * (q - k) = -(b * (k - q))
    BY <1>1, <2>1
  <2> QED BY <1>1, <1>2, <2>2
<1>5. k = q
  BY <1>1, <1>3, <1>4
<1>6. m = s
  BY <1>1, <1>5
<1> QED BY <1>5, <1>6 DEF q, s

\* A quotient of natural numbers is no larger than what is divided.
LEMMA QuotientSmaller ==
  ASSUME NEW a \in Nat, NEW b \in Nat \ {0}
  PROVE  /\ a \div b \in 0 .. a /\ a % b \in 0 .. a /\ a % b \in 0 .. b - 1
         /\ a = (b * (a \div b)) + (a % b)
         /\ b # 1 => 2 * (a \div b) <= a
<1> DEFINE q == a \div b
           s == a % b
<1>1. q \in Nat /\ s \in 0 .. b - 1 /\ a = (b * q) + s
  BY Remainder
<1> HIDE DEF q, s
<1>2. b * q >= q /\ b * q \in Nat
  BY <1>1
<1>3. b # 1 => b * q >= 2 * q
  BY <1>1
<1>4. q \in 0 .. a /\ s \in 0 .. a /\ (b # 1 => 2 * q <= a)
  BY <1>1, <1>2, <1>3
<1> QED BY <1>1, <1>4 DEF q, s

\* C division truncates: the remainder has the sign of what is divided.
Divided(l, r, q, m) == /\ l = (q * r) + m
                       /\ Arithmetic!Abs(m) < Arithmetic!Abs(r)
                       /\ m = 0 \/ Arithmetic!Sign(m) = Arithmetic!Sign(l)

LEMMA Truncates ==
  ASSUME NEW l \in Int, NEW r \in Int, r # 0
  PROVE  /\ Divided(l, r, Arithmetic!Quotient(l, r), Arithmetic!Remains(l, r))
         /\ Arithmetic!Quotient(l, r) \in -Arithmetic!Abs(l) .. Arithmetic!Abs(l)
         /\ Arithmetic!Remains(l, r) \in -Arithmetic!Abs(l) .. Arithmetic!Abs(l)
         /\ \A q, m \in Int : Divided(l, r, q, m) =>
              q = Arithmetic!Quotient(l, r) /\ m = Arithmetic!Remains(l, r)
         /\ Arithmetic!Abs(r) # 1 => 2 * Arithmetic!Abs(Arithmetic!Quotient(l, r)) <= Arithmetic!Abs(l)
<1> DEFINE a == Arithmetic!Abs(l)
           b == Arithmetic!Abs(r)
           d == a \div b
           s == a % b
           Q == Arithmetic!Quotient(l, r)
           M == Arithmetic!Remains(l, r)
           x == Arithmetic!Sign(l)
           y == Arithmetic!Sign(r)
<1>1. /\ a \in Nat /\ b \in Nat \ {0} /\ x \in {1, -1} /\ y \in {1, -1}
      /\ l = x * a /\ r = y * b /\ (x = -1 <=> l < 0)
  BY DEF Arithmetic!Abs, Arithmetic!Sign
<1>2. /\ d \in 0 .. a /\ s \in 0 .. a /\ s \in 0 .. b - 1 /\ a = (b * d) + s
      /\ b # 1 => 2 * d <= a
  <2> HIDE DEF a, b
  <2> QED BY <1>1, QuotientSmaller
<1>3. Q = x * y * d /\ M = l - (r * Q)
  BY DEF Arithmetic!Quotient, Arithmetic!Remains
<1> HIDE DEF a, b, d, s, Q, M, x, y
<1>4. M = x * s /\ Q \in Int
  <2>1. Q = (x * y) * d /\ Q \in Int
    BY <1>1, <1>2, <1>3
  <2>2. CASE x = 1 /\ y = 1
    BY <1>1, <1>2, <1>3, <2>2
  <2>3. CASE x = 1 /\ y = -1
    <3>1. Q = -d /\ r = -b /\ l = a
      BY <1>1, <1>2, <2>1, <2>3
    <3>2. (-b) * (-d) = b * d
      BY <1>1, <1>2
    <3> QED BY <1>1, <1>2, <1>3, <2>3, <3>1, <3>2
  <2>4. CASE x = -1 /\ y = 1
    <3>1. Q = -d /\ r = b /\ l = -a
      BY <1>1, <1>2, <2>1, <2>4
    <3>2. b * (-d) = -(b * d)
      BY <1>1, <1>2
    <3> QED BY <1>1, <1>2, <1>3, <2>4, <3>1, <3>2
  <2>5. CASE x = -1 /\ y = -1
    <3>1. Q = d /\ r = -b /\ l = -a
      BY <1>1, <1>2, <2>1, <2>5
    <3>2. (-b) * d = -(b * d)
      BY <1>1, <1>2
    <3> QED BY <1>1, <1>2, <1>3, <2>5, <3>1, <3>2
  <2> QED BY <1>1, <2>1, <2>2, <2>3, <2>4, <2>5
<1>5. Divided(l, r, Q, M)
  <2>1. l = (Q * r) + M
    <3>1. Q * r = r * Q
      BY <1>4
    <3> QED BY <1>3, <1>4, <3>1
  <2>2. Arithmetic!Abs(M) = s
    BY <1>1, <1>2, <1>4 DEF Arithmetic!Abs
  <2>3. M = 0 \/ Arithmetic!Sign(M) = x
    BY <1>1, <1>2, <1>4 DEF Arithmetic!Sign
  <2> QED BY <1>1, <1>2, <2>1, <2>2, <2>3 DEF Divided, b, x
<1>6. Q \in -a .. a /\ M \in -a .. a
  BY <1>1, <1>2, <1>3, <1>4
<1>7. ASSUME NEW q \in Int, NEW m \in Int, Divided(l, r, q, m) PROVE q = Q /\ m = M
  <2>1. l = (q * r) + m /\ Arithmetic!Abs(m) < b /\ (m = 0 \/ Arithmetic!Sign(m) = x)
    BY <1>7 DEF Divided, b, x
  <2> DEFINE k == (x * y) * q
             n == x * m
  <2>2. k \in Int /\ n \in Int
    BY <1>1
  <2>3. n \in 0 .. b - 1
    BY <1>1, <2>1 DEF Arithmetic!Abs, Arithmetic!Sign
  <2>4. a = (b * k) + n
    <3>1. q * b \in Int /\ q * (-b) = -(q * b) /\ b * q = q * b /\ b * (-q) = -(q * b)
      BY <1>1
    <3>2. CASE x = 1 /\ y = 1
      BY <1>1, <2>1, <3>1, <3>2
    <3>3. CASE x = 1 /\ y = -1
      <4>1. k = -q /\ r = -b /\ l = a /\ n = m
        BY <1>1, <3>3
      <4> HIDE DEF k, n
      <4> QED BY <1>1, <2>1, <3>1, <4>1
    <3>4. CASE x = -1 /\ y = 1
      <4>1. k = -q /\ r = b /\ l = -a /\ n = -m
        BY <1>1, <3>4
      <4> HIDE DEF k, n
      <4> QED BY <1>1, <2>1, <3>1, <4>1
    <3>5. CASE x = -1 /\ y = -1
      <4>1. k = q /\ r = -b /\ l = -a /\ n = -m
        BY <1>1, <3>5
      <4> HIDE DEF k, n
      <4> QED BY <1>1, <2>1, <3>1, <4>1
    <3> QED BY <1>1, <3>2, <3>3, <3>4, <3>5
  <2> HIDE DEF k, n
  <2>5. k = d /\ n = s
    BY <1>1, <2>2, <2>3, <2>4, OneDivision DEF d, s
  <2>6. q = (x * y) * k /\ m = x * n
    BY <1>1 DEF k, n
  <2> QED BY <1>1, <1>2, <1>3, <1>4, <2>5, <2>6
<1>8. Arithmetic!Abs(Q) = d
  BY <1>1, <1>2, <1>3 DEF Arithmetic!Abs
<1> QED BY <1>2, <1>5, <1>6, <1>7, <1>8 DEF a, b, Q, M

\* The only quotient that is no integer of the language.
LEMMA QuotientFits ==
  ASSUME NEW l \in Arithmetic!Int64, NEW r \in Arithmetic!Int64, r # 0
  PROVE  /\ Arithmetic!Quotient(l, r) \in Int /\ Arithmetic!Remains(l, r) \in Arithmetic!Int64
         /\ Arithmetic!Quotient(l, r) \in Arithmetic!Int64 <=> ~ (l = Arithmetic!IntMin /\ r = -1)
<1> DEFINE Q == Arithmetic!Quotient(l, r)
           M == Arithmetic!Remains(l, r)
           a == Arithmetic!Abs(l)
           b == Arithmetic!Abs(r)
<1>1. /\ l \in -Half .. Half - 1 /\ r \in -Half .. Half - 1 /\ Half \in Nat \ {0}
      /\ Arithmetic!IntMin = -Half /\ Arithmetic!Int64 = -Half .. Half - 1
  BY HalfIs
<1>2. a \in 0 .. Half /\ b \in 1 .. Half /\ (a = l \/ a = -l) /\ (b = r \/ b = -r)
      /\ (l < 0 <=> a # l)
  BY <1>1 DEF Arithmetic!Abs
<1>3. Divided(l, r, Q, M) /\ Q \in -a .. a /\ M \in -a .. a
      /\ (b # 1 => 2 * Arithmetic!Abs(Q) <= a)
  BY <1>1, Truncates
<1> HIDE DEF Q, M, a
<1>4. Q \in Int /\ M \in Int
  BY <1>2, <1>3
<1>5. M \in Arithmetic!Int64
  <2>1. Arithmetic!Abs(M) < b
    BY <1>3 DEF Divided
  <2> HIDE DEF b
  <2> QED BY <1>1, <1>2, <1>4, <2>1 DEF Arithmetic!Abs
<1>6. Q \in Arithmetic!Int64 <=> ~ (l = Arithmetic!IntMin /\ r = -1)
  <2>1. CASE b # 1
    <3>1. 2 * Arithmetic!Abs(Q) <= a /\ r # -1
      BY <1>1, <1>3, <2>1 DEF Arithmetic!Abs
    <3> HIDE DEF b
    <3> QED BY <1>1, <1>2, <1>4, <3>1 DEF Arithmetic!Abs
  <2>2. CASE b = 1
    <3>1. M = 0 /\ l = (Q * r) + M
      BY <1>3, <1>4, <2>2 DEF Divided, Arithmetic!Abs
    <3>2. r = 1 \/ r = -1
      <4> HIDE DEF b
      <4> QED BY <1>1, <1>2, <2>2
    <3>3. (r = 1 => Q = l) /\ (r = -1 => Q = -l)
      BY <1>1, <1>4, <3>1, <3>2
    <3> QED BY <1>1, <1>4, <3>2, <3>3
  <2> QED BY <2>1, <2>2
<1> QED BY <1>4, <1>5, <1>6 DEF Q, M

LEMMA QuotientsRight ==
  ASSUME NEW l \in Arithmetic!Int64, NEW r \in Arithmetic!Int64
  PROVE  Right("divide", l, r) /\ Right("remainder", l, r)
<1> DEFINE Q == Arithmetic!Quotient(l, r)
           M == Arithmetic!Remains(l, r)
           a == Arithmetic!Abs(l)
           Undefined == r = 0 \/ (l = Arithmetic!IntMin /\ r = -1)
<1>1. l \in Int /\ r \in Int
  BY HalfIs
<1>2. (Refuses("divide", l, r) <=> Undefined) /\ (Refuses("remainder", l, r) <=> Undefined)
  BY RefusesOne DEF Arithmetic!Panics
<1>3. a \in Nat
  BY <1>1 DEF Arithmetic!Abs
<1>4. Arithmetic!Meaning("divide", l, r) =
        {q \in -a .. a : r /= 0 /\ \E m \in -a .. a : Divided(l, r, q, m)}
  BY DEF Arithmetic!Meaning, Divided
<1>5. Arithmetic!Meaning("remainder", l, r) =
        {m \in -a .. a : r /= 0 /\ \E q \in Arithmetic!Int64 : Divided(l, r, q, m)}
  BY DEF Arithmetic!Meaning, Divided
<1>6. Arithmetic!Computed("divide", l, r) = IF r = 0 THEN {} ELSE Arithmetic!Defined(Q)
  BY DEF Arithmetic!Computed
<1>7. Arithmetic!Computed("remainder", l, r) =
        IF r = 0 \/ Q \notin Arithmetic!Int64 THEN {} ELSE Arithmetic!Defined(M)
  BY DEF Arithmetic!Computed
<1> HIDE DEF Q, M, a
<1>8. CASE r = 0
  <2>1. Arithmetic!Meaning("divide", l, r) = {} /\ Arithmetic!Meaning("remainder", l, r) = {}
    BY <1>4, <1>5, <1>8
  <2> QED BY <1>2, <1>8, <2>1 DEF Right
<1>9. CASE r # 0
  <2>1. Divided(l, r, Q, M) /\ Q \in -a .. a /\ M \in -a .. a
        /\ \A q, m \in Int : Divided(l, r, q, m) => q = Q /\ m = M
    BY <1>1, <1>9, Truncates DEF Q, M, a
  <2>2. Q \in Int /\ M \in Arithmetic!Int64
        /\ (Q \in Arithmetic!Int64 <=> ~ (l = Arithmetic!IntMin /\ r = -1))
    BY <1>9, QuotientFits DEF Q, M
  <2>3. -a .. a \subseteq Int /\ Arithmetic!Int64 \subseteq Int
    BY <1>3, HalfIs
  <2>4. Undefined <=> Q \notin Arithmetic!Int64
    BY <1>9, <2>2
  <2>5. Arithmetic!Meaning("divide", l, r) = {Q}
    BY <1>4, <1>9, <2>1, <2>3
  <2>6. Right("divide", l, r)
    BY <1>2, <1>6, <1>9, <2>4, <2>5 DEF Right, Arithmetic!Defined
  <2>7. Arithmetic!Meaning("remainder", l, r) = IF Q \in Arithmetic!Int64 THEN {M} ELSE {}
    BY <1>5, <1>9, <2>1, <2>3
  <2>8. Right("remainder", l, r)
    BY <1>2, <1>7, <1>9, <2>2, <2>4, <2>7 DEF Right, Arithmetic!Defined
  <2> QED BY <2>6, <2>8
<1> QED BY <1>8, <1>9

\* How far a shift may go.
LEMMA ShiftRange ==
  ASSUME NEW l, NEW r \in Arithmetic!Int64
  PROVE  /\ Arithmetic!Panics("shift range", l, r) <=> r \notin 0 .. Bits - 1
         /\ Refuses("shift right", l, r) <=> r \notin 0 .. Bits - 1
         /\ Refuses("shift left", l, r) <=>
              r \notin 0 .. Bits - 1 \/ Arithmetic!Panics("shift left", l, r)
<1>1. Arithmetic!Panics("shift range", l, r) <=> r \notin 0 .. Bits - 1
  BY HalfIs DEF Arithmetic!Panics
<1>2. Arithmetic!ChecksOf("shift right") = <<"shift range">>
      /\ Arithmetic!ChecksOf("shift left") = <<"shift range", "shift left">>
  BY DEF Arithmetic!ChecksOf
<1>3. DOMAIN <<"shift range">> = {1} /\ <<"shift range">>[1] = "shift range"
      /\ DOMAIN <<"shift range", "shift left">> = {1, 2}
      /\ <<"shift range", "shift left">>[1] = "shift range"
      /\ <<"shift range", "shift left">>[2] = "shift left"
  OBVIOUS
<1> QED BY <1>1, <1>2, <1>3 DEF Refuses

\* The factor of a shift.
LEMMA ShiftFactor ==
  ASSUME NEW r \in 0 .. Bits - 1
  PROVE  /\ Arithmetic!Power[r] \in Nat \ {0} /\ Arithmetic!Power[Bits - r] \in Nat \ {0}
         /\ Arithmetic!Power[r] * Arithmetic!Power[Bits - r] = 2 * Half
         /\ r = 0 => Arithmetic!Power[r] = 1
<1>1. r \in 0 .. Bits /\ Bits - r \in 0 .. Bits
  BY HalfIs
<1> QED BY <1>1, PowersAre, PowersSplit, HalfIs

\* A word holds an integer and its negation's complement.
LEMMA WordOf ==
  ASSUME NEW v \in Arithmetic!Int64
  PROVE  /\ Arithmetic!ToBits(v) = IF v >= 0 THEN v ELSE (2 * Half) + v
         /\ Arithmetic!FromBits(IF v >= 0 THEN v ELSE (2 * Half) + v) = v
BY HalfIs DEF Arithmetic!ToBits, Arithmetic!FromBits

LEMMA LeftShiftsRight ==
  ASSUME NEW l \in Arithmetic!Int64, NEW r \in Arithmetic!Int64
  PROVE  Right("shift left", l, r)
<1>1. CASE r \notin 0 .. Bits - 1
  <2>1. Refuses("shift left", l, r)
    BY <1>1, ShiftRange
  <2>2. Arithmetic!Meaning("shift left", l, r) = {}
    BY <1>1 DEF Arithmetic!Meaning
  <2> QED BY <2>1, <2>2 DEF Right
<1>2. CASE r \in 0 .. Bits - 1
  <2> DEFINE p == Arithmetic!Power[r]
             a == Arithmetic!Magnitude(l)
             limit == Arithmetic!Limit(l < 0)
             x == l * p
             word == 2 * Half
  <2>1. p \in Nat \ {0}
    BY <1>2, ShiftFactor
  <2>2. l \in -Half .. Half - 1 /\ Half \in Nat \ {0} /\ Arithmetic!Int64 = -Half .. Half - 1
        /\ Arithmetic!UIntMax + 1 = word /\ limit \in Nat
    BY HalfIs DEF Arithmetic!Limit
  <2>3. a \in Nat /\ (l = a \/ l = -a)
    BY <2>2 DEF Arithmetic!Magnitude
  <2>4. Arithmetic!Panics("shift left", l, r) <=> a > limit \div p
    BY DEF Arithmetic!Panics
  <2>5. Arithmetic!Meaning("shift left", l, r) = {x}
    BY <1>2 DEF Arithmetic!Meaning
  <2>6. Arithmetic!Computed("shift left", l, r) =
          {Arithmetic!FromBits((Arithmetic!ToBits(l) * p) % (Arithmetic!UIntMax + 1))}
    BY <1>2 DEF Arithmetic!Computed
  <2> HIDE DEF p, a, limit
  <2>7. a * p > limit <=> x \notin Arithmetic!Int64
    <3>1. CASE l = 0
      BY <2>1, <2>2, <2>3, <3>1
    <3>2. CASE l # 0
      <4> DEFINE negative == l < 0
      <4>1. negative \in BOOLEAN /\ (negative <=> ~ ((l < 0) <=> (p < 0)))
        BY <2>1, <2>2
      <4> HIDE DEF negative
      <4>2. a * p > Arithmetic!Limit(negative) <=> l * p \notin Arithmetic!Int64
        BY <2>1, <2>3, <3>2, <4>1, ProductBounded
      <4> QED BY <4>2 DEF negative, limit
    <3> QED BY <3>1, <3>2
  <2>8. a > limit \div p <=> a * p > limit
    BY <2>1, <2>2, <2>3, BoundDivided
  <2>9. Refuses("shift left", l, r) <=> x \notin Arithmetic!Int64
    BY <1>2, <2>4, <2>7, <2>8, ShiftRange
  <2>10. ASSUME x \in Arithmetic!Int64
         PROVE  Arithmetic!FromBits((Arithmetic!ToBits(l) * p) % word) = x
    <3> DEFINE m == IF x >= 0 THEN x ELSE word + x
               b == Arithmetic!ToBits(l)
    <3>1. b = IF l >= 0 THEN l ELSE word + l
      BY WordOf
    <3>2. x \in -Half .. Half - 1 /\ m \in 0 .. word - 1 /\ word \in Nat \ {0}
      BY <2>2, <2>10
    <3>3. l >= 0 => x >= 0 /\ b * p = (word * 0) + x
      BY <2>1, <2>2, <3>1
    <3>4. l < 0 => x < 0 /\ b * p = (word * (p - 1)) + (word + x)
      <4>1. SUFFICES ASSUME l < 0 PROVE x < 0 /\ b * p = (word * (p - 1)) + (word + x)
        OBVIOUS
      <4>2. x < 0
        BY <2>1, <2>2, <4>1
      <4>3. b = word + l
        BY <2>2, <3>1, <4>1
      <4> HIDE DEF word, b
      <4>4. (word + l) * p = (word * p) + (l * p) /\ word * (p - 1) = (word * p) - word
        BY <2>1, <2>2, <3>2
      <4>5. word * p \in Int /\ l * p \in Int
        BY <2>1, <2>2, <3>2
      <4> QED BY <2>1, <2>2, <3>2, <4>2, <4>3, <4>4, <4>5
    <3> DEFINE k == IF l >= 0 THEN 0 ELSE p - 1
    <3>5. k \in Int /\ b * p = (word * k) + m
      BY <2>1, <2>2, <3>2, <3>3, <3>4
    <3> HIDE DEF word, b, k
    <3> DEFINE w == b * p
    <3>6. w \in Int
      <4>1. word * k \in Int
        BY <3>2, <3>5
      <4> QED BY <3>2, <3>5, <4>1
    <3>7. w = (word * k) + m
      BY <3>5
    <3> HIDE DEF w
    <3>8. w % word = m
      BY <3>2, <3>5, <3>6, <3>7, OneDivision
    <3>9. Arithmetic!FromBits(m) = x
      BY <2>10, WordOf DEF word
    <3> QED BY <3>8, <3>9 DEF w, b
  <2> QED BY <2>2, <2>5, <2>6, <2>9, <2>10 DEF Right
<1> QED BY <1>1, <1>2

LEMMA RightShiftsRight ==
  ASSUME NEW l \in Arithmetic!Int64, NEW r \in Arithmetic!Int64
  PROVE  Right("shift right", l, r)
<1>1. CASE r \notin 0 .. Bits - 1
  <2>1. Refuses("shift right", l, r)
    BY <1>1, ShiftRange
  <2>2. Arithmetic!Meaning("shift right", l, r) = {}
    BY <1>1 DEF Arithmetic!Meaning
  <2> QED BY <2>1, <2>2 DEF Right
<1>2. CASE r \in 0 .. Bits - 1
  <2> DEFINE p == Arithmetic!Power[r]
             q == Arithmetic!Power[Bits - r]
             b == Arithmetic!ToBits(l)
             d == l \div p
             s == l % p
             word == 2 * Half
  <2>1. p \in Nat \ {0} /\ q \in Nat \ {0} /\ p * q = word /\ (r = 0 => p = 1)
    BY <1>2, ShiftFactor
  <2>2. l \in -Half .. Half - 1 /\ Half \in Nat \ {0} /\ Arithmetic!Int64 = -Half .. Half - 1
        /\ Arithmetic!UIntMax = word - 1
    BY HalfIs
  <2>3. b = IF l >= 0 THEN l ELSE word + l
    BY WordOf
  <2>4. Arithmetic!Meaning("shift right", l, r) = {d}
    BY <1>2 DEF Arithmetic!Meaning
  <2>5. Arithmetic!Computed("shift right", l, r) = {Arithmetic!ShiftedRight(l, r)}
    BY <1>2 DEF Arithmetic!Computed
  <2>6. ~ Refuses("shift right", l, r)
    BY <1>2, ShiftRange
  <2>7. Arithmetic!ShiftedRight(l, r) =
          IF r = 0 THEN l
          ELSE IF l < 0 THEN Arithmetic!FromBits((b \div p) + (Arithmetic!UIntMax - (q - 1)))
          ELSE Arithmetic!FromBits(b \div p)
    BY DEF Arithmetic!ShiftedRight
  <2> HIDE DEF p, q, b
  <2>8. d \in Int /\ s \in 0 .. p - 1 /\ l = (p * d) + s
    BY <2>1, <2>2
  <2> HIDE DEF d, s, word
  <2>9. word \in Nat /\ word = 2 * Half
    BY <2>2 DEF word
  <2>10. Arithmetic!ShiftedRight(l, r) = d
    <3>1. CASE r = 0
      BY <2>1, <2>2, <2>7, <2>8, <3>1
    <3>2. CASE r # 0 /\ l >= 0
      <4>1. d \in 0 .. l
        <5>1. l \in Nat
          BY <2>2, <3>2
        <5>2. l \div p \in 0 .. l
          BY ONLY <2>1, <5>1, QuotientSmaller
        <5> QED BY <5>2 DEF d
      <4>2. d \in Arithmetic!Int64 /\ d >= 0
        BY <2>2, <3>2, <4>1
      <4>3. Arithmetic!FromBits(d) = d
        BY <4>2, WordOf
      <4> QED BY <2>2, <2>3, <2>7, <3>2, <4>3 DEF d
    <3>3. CASE r # 0 /\ l < 0
      <4>1. d < 0
        BY <2>1, <2>2, <2>8, <3>3
      <4>2. d >= l
        <5>1. SUFFICES ASSUME d <= l - 1 PROVE FALSE
          BY <2>2, <2>8
        <5>2. p * d <= d
          BY <2>1, <2>8, <4>1
        <5>3. p * d <= p * (l - 1)
          BY <2>1, <2>2, <2>8, <5>1
        <5>4. p * (l - 1) = (p * l) - p /\ p * l \in Int /\ p * d \in Int
          BY <2>1, <2>2, <2>8
        <5>5. p * l <= l
          BY <2>1, <2>2, <3>3
        <5> QED BY <2>1, <2>2, <2>8, <5>3, <5>4, <5>5
      <4>3. d \in Arithmetic!Int64
        BY <2>2, <2>8, <4>1, <4>2
      <4>4. b = (p * (q + d)) + s
        <5>1. p * (q + d) = (p * q) + (p * d) /\ p * q \in Int /\ p * d \in Int
          BY <2>1, <2>8
        <5> QED BY <2>1, <2>2, <2>3, <2>8, <2>9, <3>3, <5>1
      <4> DEFINE k == q + d
      <4>5. k \in Int /\ b \in Int /\ b = (p * k) + s
        BY <2>1, <2>2, <2>3, <2>8, <2>9, <3>3, <4>4
      <4> HIDE DEF k
      <4>6. k = b \div p
        BY <2>1, <2>8, <4>5, OneDivision
      <4>7. (b \div p) + (Arithmetic!UIntMax - (q - 1)) = word + d
        BY <2>1, <2>2, <2>8, <2>9, <4>6 DEF k
      <4>8. Arithmetic!FromBits(word + d) = d
        BY <2>9, <4>1, <4>3, <2>8, WordOf
      <4> QED BY <2>7, <3>3, <4>7, <4>8
    <3> QED BY <2>2, <3>1, <3>2, <3>3
  <2> QED BY <2>4, <2>5, <2>6, <2>10 DEF Right
<1> QED BY <1>1, <1>2

\* What is refused was refused by a check; what is evaluated has passed all.
ArithmeticInv ==
  /\ operation \in Arithmetic!Operations
  /\ left \in IF operation = "index" THEN Lengths ELSE Arithmetic!Int64
  /\ right \in Arithmetic!Int64
  /\ arithmeticOutcome \in {"running", "panic", "done"}
  /\ arithmeticOutcome = "running" =>
       \/ checks = Arithmetic!ChecksOf(operation)
       \/ /\ operation = "shift left" /\ checks = <<"shift left">>
          /\ ~ Arithmetic!Panics("shift range", left, right)
       \/ checks = <<>> /\ ~ Refuses(operation, left, right)
  /\ arithmeticOutcome = "panic" => Refuses(operation, left, right)
  /\ arithmeticOutcome = "done" =>
       ~ Refuses(operation, left, right) /\ result = Arithmetic!Computed(operation, left, right)

LEMMA OperationsRight ==
  ASSUME NEW op \in Arithmetic!Operations,
         NEW l \in (IF op = "index" THEN Lengths ELSE Arithmetic!Int64), NEW r \in Arithmetic!Int64
  PROVE  Right(op, l, r)
<1>1. CASE op = "index"
  BY <1>1, IndexRight
<1>2. CASE op # "index"
  <2>1. l \in Arithmetic!Int64
    BY <1>2
  <2> QED BY <1>2, <2>1, SumsRight, ProductsRight, QuotientsRight, LeftShiftsRight, RightShiftsRight
          DEF Arithmetic!Operations
<1> QED BY <1>1, <1>2

LEMMA ArithmeticInvSuffices == ArithmeticInv => Arithmetic!CheckedExactly
<1> SUFFICES ASSUME ArithmeticInv PROVE Arithmetic!CheckedExactly
  OBVIOUS
<1>1. Right(operation, left, right)
  BY OperationsRight DEF ArithmeticInv
<1> QED BY <1>1 DEF ArithmeticInv, Right, Arithmetic!CheckedExactly

LEMMA ArithmeticInitInv == Arithmetic!Init => ArithmeticInv
BY DEF Arithmetic!Init, ArithmeticInv

\* Short lists.
LEMMA ListOfOne ==
  ASSUME NEW x
  PROVE  DOMAIN <<x>> = {1} /\ <<x>>[1] = x /\ Head(<<x>>) = x /\ Tail(<<x>>) = <<>>
<1>1. DOMAIN <<x>> = {1} /\ <<x>>[1] = x
  OBVIOUS
<1>2. <<x>> \in Seq({x}) /\ Len(<<x>>) = 1 
  OBVIOUS
<1>3. Head(<<x>>) = x
  OBVIOUS
<1>4. Tail(<<x>>) \in Seq({x}) /\ Len(Tail(<<x>>)) = 0
  BY <1>2, HeadTailProperties
<1> QED BY <1>1, <1>3, <1>4, EmptySeq

LEMMA ListOfTwo ==
  ASSUME NEW x, NEW y
  PROVE  /\ DOMAIN <<x, y>> = {1, 2} /\ <<x, y>>[1] = x /\ <<x, y>>[2] = y
         /\ Head(<<x, y>>) = x /\ Tail(<<x, y>>) = <<y>>
<1>1. DOMAIN <<x, y>> = {1, 2} /\ <<x, y>>[1] = x /\ <<x, y>>[2] = y
  OBVIOUS
<1>2. <<x, y>> \in Seq({x, y}) /\ Len(<<x, y>>) = 2
  OBVIOUS
<1>3. Head(<<x, y>>) = x
  OBVIOUS
<1>4. Tail(<<x, y>>) \in Seq({x, y}) /\ Len(Tail(<<x, y>>)) = 1 /\ Tail(<<x, y>>)[1] = y
  BY <1>2, HeadTailProperties
<1>5. Tail(<<x, y>>) = <<y>>
  BY <1>4, SeqEqual
<1> QED BY <1>1, <1>3, <1>5

\* The checks of an operation, one after the other.
LEMMA CheckKeeps ==
  ASSUME NEW op \in Arithmetic!Operations, NEW l, NEW r, NEW list1,
         \/ list1 = Arithmetic!ChecksOf(op)
         \/ /\ op = "shift left" /\ list1 = <<"shift left">>
            /\ ~ Arithmetic!Panics("shift range", l, r),
         list1 # <<>>
  PROVE  IF Arithmetic!Panics(Head(list1), l, r)
         THEN Refuses(op, l, r)
         ELSE \/ /\ op = "shift left" /\ Tail(list1) = <<"shift left">>
                 /\ ~ Arithmetic!Panics("shift range", l, r)
              \/ Tail(list1) = <<>> /\ ~ Refuses(op, l, r)
<1>1. CASE list1 = Arithmetic!ChecksOf(op)
  <2>1. CASE op \in {"add", "subtract", "multiply", "negate", "divide", "remainder", "index"}
    <3>1. list1 = <<op>>
      BY <1>1, <2>1 DEF Arithmetic!ChecksOf
    <3>2. Head(<<op>>) = op /\ Tail(<<op>>) = <<>>
      BY ListOfOne
    <3> QED BY <2>1, <3>1, <3>2, RefusesOne
  <2>2. CASE op = "shift left"
    <3>1. list1 = <<"shift range", "shift left">> /\ Arithmetic!ChecksOf(op) = list1
      BY <1>1, <2>2 DEF Arithmetic!ChecksOf
    <3>2. Head(<<"shift range", "shift left">>) = "shift range"
          /\ Tail(<<"shift range", "shift left">>) = <<"shift left">>
          /\ DOMAIN <<"shift range", "shift left">> = {1, 2}
          /\ <<"shift range", "shift left">>[1] = "shift range"
      BY ListOfTwo
    <3>3. 1 \in DOMAIN Arithmetic!ChecksOf(op) /\ Arithmetic!ChecksOf(op)[1] = "shift range"
      BY <3>1, <3>2
    <3>4. Arithmetic!Panics("shift range", l, r) => Refuses(op, l, r)
      BY <3>3 DEF Refuses
    <3> QED BY <2>2, <3>1, <3>2, <3>4
  <2>3. CASE op = "shift right"
    <3>1. list1 = <<"shift range">> /\ Arithmetic!ChecksOf(op) = list1
      BY <1>1, <2>3 DEF Arithmetic!ChecksOf
    <3>2. Head(<<"shift range">>) = "shift range" /\ Tail(<<"shift range">>) = <<>>
          /\ DOMAIN <<"shift range">> = {1} /\ <<"shift range">>[1] = "shift range"
      BY ListOfOne
    <3>3. Refuses(op, l, r) <=> Arithmetic!Panics("shift range", l, r)
      BY <3>1, <3>2 DEF Refuses
    <3> QED BY <3>1, <3>2, <3>3
  <2> QED BY <2>1, <2>2, <2>3 DEF Arithmetic!Operations
<1>2. CASE /\ op = "shift left" /\ list1 = <<"shift left">>
           /\ ~ Arithmetic!Panics("shift range", l, r)
  <2>1. Arithmetic!ChecksOf(op) = <<"shift range", "shift left">>
    BY <1>2 DEF Arithmetic!ChecksOf
  <2>2. DOMAIN <<"shift range", "shift left">> = {1, 2}
        /\ <<"shift range", "shift left">>[1] = "shift range"
        /\ <<"shift range", "shift left">>[2] = "shift left"
        /\ Head(<<"shift left">>) = "shift left" /\ Tail(<<"shift left">>) = <<>>
    BY ListOfOne, ListOfTwo
  <2> DEFINE two == <<"shift range", "shift left">>
  <2>3. DOMAIN two = {1, 2} /\ two[1] = "shift range" /\ two[2] = "shift left"
        /\ Arithmetic!ChecksOf(op) = two
    BY <2>1, <2>2
  <2> HIDE DEF two
  <2>4. Refuses(op, l, r) <=> Arithmetic!Panics("shift left", l, r)
    BY <1>2, <2>3 DEF Refuses
  <2> QED BY <1>2, <2>2, <2>4
<1> QED BY <1>1, <1>2

LEMMA ChecksThere ==
  ASSUME NEW op \in Arithmetic!Operations PROVE Arithmetic!ChecksOf(op) # <<>>
BY DEF Arithmetic!Operations, Arithmetic!ChecksOf

LEMMA ArithmeticStepInv == ArithmeticInv /\ [Arithmetic!Next]_arithmeticVars => ArithmeticInv'
<1> SUFFICES ASSUME ArithmeticInv, [Arithmetic!Next]_arithmeticVars PROVE ArithmeticInv'
  OBVIOUS
<1>1. CASE Arithmetic!Check
  <2>1. /\ arithmeticOutcome = "running" /\ checks # <<>>
        /\ IF Arithmetic!Panics(Head(checks), left, right)
           THEN arithmeticOutcome' = "panic" /\ checks' = checks
           ELSE checks' = Tail(checks) /\ arithmeticOutcome' = arithmeticOutcome
        /\ operation' = operation /\ left' = left /\ right' = right
    BY <1>1 DEF Arithmetic!Check
  <2>2. \/ checks = Arithmetic!ChecksOf(operation)
        \/ /\ operation = "shift left" /\ checks = <<"shift left">>
           /\ ~ Arithmetic!Panics("shift range", left, right)
    BY <2>1 DEF ArithmeticInv
  <2>3. operation \in Arithmetic!Operations
    BY DEF ArithmeticInv
  <2>4. IF Arithmetic!Panics(Head(checks), left, right)
        THEN Refuses(operation, left, right)
        ELSE \/ /\ operation = "shift left" /\ Tail(checks) = <<"shift left">>
                /\ ~ Arithmetic!Panics("shift range", left, right)
             \/ Tail(checks) = <<>> /\ ~ Refuses(operation, left, right)
    BY <2>1, <2>2, <2>3, CheckKeeps
  <2>5. CASE Arithmetic!Panics(Head(checks), left, right)
    BY <2>1, <2>4, <2>5 DEF ArithmeticInv
  <2>6. CASE ~ Arithmetic!Panics(Head(checks), left, right)
    BY <2>1, <2>4, <2>6 DEF ArithmeticInv
  <2> QED BY <2>5, <2>6
<1>2. CASE Arithmetic!Evaluate
  <2>1. /\ arithmeticOutcome = "running" /\ checks = <<>>
        /\ result' = Arithmetic!Computed(operation, left, right)
        /\ arithmeticOutcome' = "done"
        /\ operation' = operation /\ left' = left /\ right' = right /\ checks' = checks
    BY <1>2 DEF Arithmetic!Evaluate
  <2>2. ~ Refuses(operation, left, right)
    <3>1. operation \in Arithmetic!Operations
      BY DEF ArithmeticInv
    <3>2. Arithmetic!ChecksOf(operation) # <<>> /\ <<"shift left">> # <<>>
      BY <3>1, ChecksThere
    <3> QED BY <2>1, <3>2 DEF ArithmeticInv
  <2> QED BY <2>1, <2>2 DEF ArithmeticInv
<1>3. CASE UNCHANGED arithmeticVars
  BY <1>3 DEF ArithmeticInv, arithmeticVars
<1> QED BY <1>1, <1>2, <1>3 DEF Arithmetic!Next, arithmeticVars

-----------------------------------------------------------------------------
(* The runtime: each part goes its own way.                                  *)

allVars == <<part, mapVars, loopVars, scopedVars, traceVars, arithmeticVars, entryVars>>

LEMMA PartSteps ==
  ASSUME [RuntimeNext]_allVars
  PROVE  /\ part' = part
         /\ part = "map" => [Next]_vars
         /\ part = "loops" => [Loops!Next]_loopVars
         /\ [Scoped!Next]_scopedVars
         /\ [Trace!Next]_traceVars
         /\ part = "arithmetic" => [Arithmetic!Next]_arithmeticVars
         /\ part = "entry" => [ProgramEntry!Next]_entryVars
BY Zenon DEF RuntimeNext, allVars, mapVars

\* Lists are locked once for each active loop over them, whichever way the other
\* loops and functions were left.
THEOREM LocksMatchLoops == RuntimeSpec => []LocksExact
<1>1. RuntimeInit => (part = "loops" => LoopInv)
  BY LoopInitInv DEF RuntimeInit
<1>2. (part = "loops" => LoopInv) /\ [RuntimeNext]_allVars => (part = "loops" => LoopInv)'
  BY PartSteps, LoopStepInv
<1>3. (part = "loops" => LoopInv) => LocksExact
  BY LoopsAreThose DEF LocksExact, LoopInv, LoopProofs!IterationInv
<1> QED BY <1>1, <1>2, <1>3, PTL DEF RuntimeSpec, allVars

\* The length a loop has read stays the length of its list: what could change
\* it is refused while the list is locked.
THEOREM SnapshotsStayCurrent == RuntimeSpec => []SnapshotCurrent
<1>1. RuntimeInit => (part = "loops" => LoopInv)
  BY LoopInitInv DEF RuntimeInit
<1>2. (part = "loops" => LoopInv) /\ [RuntimeNext]_allVars => (part = "loops" => LoopInv)'
  BY PartSteps, LoopStepInv
<1>3. (part = "loops" => LoopInv) => SnapshotCurrent
  BY LoopsAreThose DEF SnapshotCurrent, LoopInv, LoopProofs!IterationInv
<1> QED BY <1>1, <1>2, <1>3, PTL DEF RuntimeSpec, allVars

\* Scoped blocks are apart.
THEOREM ScopedBlocksStayApart == RuntimeSpec => []ScopedBlocksApart
<1>1. RuntimeInit => ScopedInv
  BY ScopedInitInv DEF RuntimeInit
<1>2. ScopedInv /\ [RuntimeNext]_allVars => ScopedInv'
  BY PartSteps, ScopedStepInv
<1> QED BY <1>1, <1>2, ScopedInvSuffices, PTL DEF RuntimeSpec, allVars

\* The tracer's list holds every reference that was enqueued once, the table
\* finds it there, and a probe always ends: across every rebuild and failure.
THEOREM EveryKeyEnqueuedOnce == RuntimeSpec => []EnqueuedOnce
<1>1. RuntimeInit => TraceInv
  BY TraceInitInv DEF RuntimeInit
<1>2. TraceInv /\ [RuntimeNext]_allVars => TraceInv'
  BY PartSteps, TraceStepInv
<1> QED BY <1>1, <1>2, TraceInvSuffices, PTL DEF RuntimeSpec, allVars

\* The strings of the running program have one pointer for one text, and what
\* the entry took is given back in its order.
THEOREM StringsAreInterned == RuntimeSpec => []InternedByContents
<1>1. RuntimeInit => (part = "entry" => EntryInv)
  BY EntryInitInv DEF RuntimeInit
<1>2. (part = "entry" => EntryInv) /\ [RuntimeNext]_allVars => (part = "entry" => EntryInv)'
  BY PartSteps, EntryStepInv
<1>3. (part = "entry" => EntryInv) => InternedByContents
  BY EntryInvSuffices DEF InternedByContents
<1> QED BY <1>1, <1>2, <1>3, PTL DEF RuntimeSpec, allVars

\* An operation of the program panics exactly when what it means is no integer of
\* the language, and otherwise its C expression is defined and has that value:
\* for words of any width, the bounds are neither too early nor too late.
THEOREM ArithmeticIsChecked == RuntimeSpec => []CheckedExactly
<1>1. RuntimeInit => (part = "arithmetic" => ArithmeticInv)
  BY ArithmeticInitInv DEF RuntimeInit
<1>2. (part = "arithmetic" => ArithmeticInv) /\ [RuntimeNext]_allVars
      => (part = "arithmetic" => ArithmeticInv)'
  BY PartSteps, ArithmeticStepInv
<1>3. (part = "arithmetic" => ArithmeticInv) => CheckedExactly
  BY ArithmeticInvSuffices DEF CheckedExactly
<1> QED BY <1>1, <1>2, <1>3, PTL DEF RuntimeSpec, allVars

RuntimeInv ==
  /\ part = "map" => MapInv
  /\ part = "loops" => LoopInv
  /\ ScopedInv /\ ScopedBounds
  /\ TraceInv
  /\ part = "entry" => EntryInv

\* The variables of every part keep their types, and the controls of maps and
\* lists what their operations assert.
THEOREM RuntimeIsWellFormed == RuntimeSpec => []RuntimeWellFormed
<1>1. RuntimeInit => RuntimeInv
  BY InitEstablishes, LoopInitInv, ScopedInitInv, ScopedInitBounds, TraceInitInv, EntryInitInv
  DEF RuntimeInit, RuntimeInv
<1>2. RuntimeInv /\ [RuntimeNext]_allVars => RuntimeInv'
  BY PartSteps, NextPreserves, LoopStepInv, ScopedStepInv, ScopedStepBounds, TraceStepInv, EntryStepInv
  DEF RuntimeInv
<1>3. RuntimeInv => RuntimeWellFormed
  BY LoopsAreThose, ScopedTyped, TraceTypes, EntryTypes
  DEF RuntimeInv, RuntimeWellFormed, MapInv, LoopInv
<1> QED BY <1>1, <1>2, <1>3, PTL DEF RuntimeSpec, allVars
=============================================================================
