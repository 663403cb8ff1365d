-------------------------- MODULE IterationProofs --------------------------
(***************************************************************************)
(* Proofs about Iteration, for any lists, values, literals, indices and    *)
(* any number of nested loops and calls.                                   *)
(***************************************************************************)
EXTENDS Iteration, FiniteSetTheorems, FunctionTheorems, SequenceTheorems,
  WellFoundedInduction, TLAPS

\* The types that counting locks and elements relies on.
Typed ==
  /\ DOMAIN list = Lists
  /\ \A l \in Lists : /\ {"elements", "locks"} \subseteq DOMAIN list[l]
                      /\ list[l].elements \in Seq(Values) /\ list[l].locks \in Int
  /\ frames \in Seq(Seq(Loop)) /\ frames # <<>>

\* A loop's place, as the pair of its frame and its depth there.
Places(fs) == UNION {{<<f, n>> : n \in DOMAIN fs[f]} : f \in DOMAIN fs}

\* The places of the loops over a list.
Over(fs, l) == {p \in Places(fs) : fs[p[1]][p[2]].over = l}

\* What a sequence of loops counts for a list.
Held(loops, l) == Cardinality({n \in DOMAIN loops : loops[n].over = l})

\* A loop's snapshot is the length of its list, and its element exists.
Current(lists, loop) ==
  loop.over # NoList =>
    /\ loop.length = Len(lists[loop.over].elements)
    /\ loop.at = "body" => loop.index < loop.length

\* What the control flow does to the frames, and an operation to a list.
Entered(fs, gs, loop) == gs = [fs EXCEPT ![Len(fs)] = Append(fs[Len(fs)], loop)]
Replaced(fs, gs, loop) ==
  gs = [fs EXCEPT ![Len(fs)] = [fs[Len(fs)] EXCEPT ![Len(fs[Len(fs)])] = loop]]
LeftInner(fs, gs) == gs = [fs EXCEPT ![Len(fs)] = SubSeq(fs[Len(fs)], 1, Len(fs[Len(fs)]) - 1)]
Called(fs, gs) == gs = Append(fs, <<>>)
Returned(fs, gs) == gs = SubSeq(fs, 1, Len(fs) - 1)
Stores(l, control) == UNCHANGED frames /\ list' = [list EXCEPT ![l] = control]
Amends(l, control, e) ==
  /\ {"elements", "locks"} \subseteq DOMAIN control
  /\ control.elements = e /\ control.locks = list[l].locks

\* Of the loops, those in lost have ended; the others are where they were.
Fewer(fs, gs, lost) ==
  /\ gs \in Seq(Seq(Loop)) /\ Places(gs) \subseteq Places(fs)
  /\ \A p \in Places(gs) : gs[p[1]][p[2]] = fs[p[1]][p[2]]
  /\ \A l : Cardinality(Over(gs, l)) = Cardinality(Over(fs, l)) - Held(lost, l)

\* No loop has begun or ended; one may have got to loop.
Same(fs, gs, loop) ==
  /\ gs \in Seq(Seq(Loop)) /\ gs # <<>>
  /\ Places(gs) = Places(fs) /\ \A l : Over(gs, l) = Over(fs, l)
  /\ \A p \in Places(fs) : gs[p[1]][p[2]] = fs[p[1]][p[2]] \/ gs[p[1]][p[2]] = loop

IterationInv == Typed /\ LocksExact /\ SnapshotCurrent

-----------------------------------------------------------------------------
\* The invariant in the terms of this module, now and in the next state.
LEMMA InvariantForm ==
  /\ IterationInv <=>
       /\ Typed
       /\ \A l \in Lists : list[l].locks = Cardinality(Over(frames, l))
       /\ \A p \in Places(frames) : Current(list, frames[p[1]][p[2]])
  /\ IterationInv' <=>
       /\ Typed'
       /\ \A l \in Lists : list'[l].locks = Cardinality(Over(frames', l))
       /\ \A p \in Places(frames') : Current(list', frames'[p[1]][p[2]])
<1>1. ActiveLoops = Places(frames) /\ ActiveLoops' = Places(frames')
  BY DEF ActiveLoops, Places
<1>2. \A l : /\ {p \in ActiveLoops : LoopAt(p).over = l} = Over(frames, l)
             /\ {p \in ActiveLoops' : LoopAt(p)'.over = l} = Over(frames', l)
  BY <1>1 DEF Over, LoopAt
<1>3. LocksExact <=> \A l \in Lists : list[l].locks = Cardinality(Over(frames, l))
  BY <1>2 DEF LocksExact
<1>4. LocksExact' <=> \A l \in Lists : list'[l].locks = Cardinality(Over(frames', l))
  BY <1>2 DEF LocksExact
<1>5. SnapshotCurrent <=> \A p \in Places(frames) : Current(list, frames[p[1]][p[2]])
  BY <1>1 DEF SnapshotCurrent, Current, LoopAt
<1>6. SnapshotCurrent' <=> \A p \in Places(frames') : Current(list', frames'[p[1]][p[2]])
  BY <1>1 DEF SnapshotCurrent, Current, LoopAt
<1>7. QED BY <1>3, <1>4, <1>5, <1>6 DEF IterationInv

LEMMA PlaceFacts ==
  ASSUME NEW fs \in Seq(Seq(Loop)), NEW p
  PROVE  p \in Places(fs) <=>
           /\ p = <<p[1], p[2]>>
           /\ p[1] \in 1 .. Len(fs) /\ p[2] \in 1 .. Len(fs[p[1]])
<1>1. /\ DOMAIN fs = 1 .. Len(fs)
      /\ \A f \in 1 .. Len(fs) : fs[f] \in Seq(Loop) /\ DOMAIN fs[f] = 1 .. Len(fs[f])
  OBVIOUS
<1>2. ASSUME p \in Places(fs)
      PROVE  /\ p = <<p[1], p[2]>>
             /\ p[1] \in 1 .. Len(fs) /\ p[2] \in 1 .. Len(fs[p[1]])
  <2>1. PICK f \in DOMAIN fs : p \in {<<f, n>> : n \in DOMAIN fs[f]}
    BY <1>2 DEF Places
  <2>2. PICK n \in DOMAIN fs[f] : p = <<f, n>>
    BY <2>1
  <2>3. QED BY <1>1, <2>1, <2>2
<1>3. ASSUME p = <<p[1], p[2]>>, p[1] \in 1 .. Len(fs), p[2] \in 1 .. Len(fs[p[1]])
      PROVE  p \in Places(fs)
  BY <1>1, <1>3 DEF Places
<1>4. QED BY <1>2, <1>3

LEMMA PlacedLoops ==
  ASSUME NEW fs \in Seq(Seq(Loop)), NEW p \in Places(fs)
  PROVE  fs[p[1]][p[2]] \in Loop
<1>1. p[1] \in 1 .. Len(fs) /\ p[2] \in 1 .. Len(fs[p[1]])
  BY PlaceFacts
<1>2. PICK s \in Seq(Loop) : s = fs[p[1]]
  BY <1>1
<1>3. QED BY <1>1, <1>2

\* Finitely many loops are active, so that they can be counted.
LEMMA PlacesFinite ==
  ASSUME NEW fs \in Seq(Seq(Loop))
  PROVE  /\ IsFiniteSet(Places(fs))
         /\ \A l : IsFiniteSet(Over(fs, l)) /\ Cardinality(Over(fs, l)) \in Nat
<1> DEFINE part == [f \in DOMAIN fs |-> {<<f, n>> : n \in DOMAIN fs[f]}]
           parts == {part[f] : f \in DOMAIN fs}
<1>1. IsFiniteSet(DOMAIN fs) /\ \A f \in DOMAIN fs : IsFiniteSet(DOMAIN fs[f])
  <2>1. /\ DOMAIN fs = 1 .. Len(fs) /\ Len(fs) \in Int
        /\ \A f \in DOMAIN fs : DOMAIN fs[f] = 1 .. Len(fs[f]) /\ Len(fs[f]) \in Int
    OBVIOUS
  <2>2. QED BY <2>1, FS_Interval
<1>2. ASSUME NEW f \in DOMAIN fs
      PROVE  IsFiniteSet(part[f])
  <2> DEFINE place == [n \in DOMAIN fs[f] |-> <<f, n>>]
  <2>1. place \in Surjection(DOMAIN fs[f], part[f])
    BY DEF Surjection
  <2>2. IsFiniteSet(DOMAIN fs[f])
    BY <1>1
  <2> HIDE DEF place
  <2>3. QED BY <2>1, <2>2, FS_Surjection
<1>3. Places(fs) = UNION parts
  BY DEF Places
<1>4. part \in Surjection(DOMAIN fs, parts)
  BY DEF Surjection
<1>5. \A x \in parts : IsFiniteSet(x)
  BY <1>2
<1> HIDE DEF part
<1>6. IsFiniteSet(parts)
  BY <1>1, <1>4, FS_Surjection
<1>7. IsFiniteSet(Places(fs))
  BY <1>3, <1>5, <1>6, FS_UNION
<1>8. ASSUME NEW l
      PROVE  IsFiniteSet(Over(fs, l)) /\ Cardinality(Over(fs, l)) \in Nat
  <2>1. Over(fs, l) \subseteq Places(fs)
    BY DEF Over
  <2>2. QED BY <1>7, <2>1, FS_Subset, FS_CardinalityType
<1>9. QED BY <1>7, <1>8

\* What is then known of the places.
EnteredFacts(fs, gs, loop) ==
  /\ gs \in Seq(Seq(Loop)) /\ Len(gs) = Len(fs)
  /\ Places(gs) = Places(fs) \cup {<<Len(fs), Len(fs[Len(fs)]) + 1>>}
  /\ Places(fs) \subseteq Places(gs)
  /\ <<Len(fs), Len(fs[Len(fs)]) + 1>> \notin Places(fs)
  /\ gs[Len(fs)][Len(fs[Len(fs)]) + 1] = loop
  /\ \A p \in Places(fs) : gs[p[1]][p[2]] = fs[p[1]][p[2]]
  /\ \A p \in Places(gs) : p \in Places(fs) \/ gs[p[1]][p[2]] = loop
  /\ \A l : Cardinality(Over(gs, l)) =
             Cardinality(Over(fs, l)) + IF loop.over = l THEN 1 ELSE 0

\* A loop that is entered: the frame gets one loop more.
LEMMA EnteredPlaces ==
  ASSUME NEW fs \in Seq(Seq(Loop)), fs # <<>>, NEW loop \in Loop,
         NEW gs, Entered(fs, gs, loop)
  PROVE  EnteredFacts(fs, gs, loop)
<1> DEFINE top == Len(fs)
           new == <<top, Len(fs[top]) + 1>>
<1>1. /\ top \in 1 .. Len(fs) /\ fs[top] \in Seq(Loop)
      /\ \A f \in 1 .. Len(fs) : fs[f] \in Seq(Loop)
  OBVIOUS
<1>2. /\ gs \in Seq(Seq(Loop)) /\ Len(gs) = Len(fs)
      /\ gs[top] = Append(fs[top], loop)
      /\ \A f \in 1 .. Len(fs) : f # top => gs[f] = fs[f]
  BY <1>1 DEF Entered
<1>3. /\ Len(gs[top]) = Len(fs[top]) + 1 /\ Len(fs[top]) \in Nat
      /\ gs[top][Len(fs[top]) + 1] = loop
      /\ \A n \in 1 .. Len(fs[top]) : gs[top][n] = fs[top][n]
  <2>1. PICK s \in Seq(Loop) : s = fs[top]
    BY <1>1
  <2>2. /\ Len(Append(s, loop)) = Len(s) + 1 /\ Len(s) \in Nat
        /\ Append(s, loop)[Len(s) + 1] = loop
        /\ \A n \in 1 .. Len(s) : Append(s, loop)[n] = s[n]
    OBVIOUS
  <2>3. QED BY <1>2, <2>1, <2>2
<1>4. ASSUME NEW p
      PROVE  /\ p \in Places(gs) <=> p \in Places(fs) \/ p = new
             /\ p \in Places(fs) => gs[p[1]][p[2]] = fs[p[1]][p[2]] /\ p # new
  <2>1. p \in Places(fs) <=>
          p = <<p[1], p[2]>> /\ p[1] \in 1 .. Len(fs) /\ p[2] \in 1 .. Len(fs[p[1]])
    BY PlaceFacts
  <2>2. p \in Places(gs) <=>
          p = <<p[1], p[2]>> /\ p[1] \in 1 .. Len(gs) /\ p[2] \in 1 .. Len(gs[p[1]])
    BY <1>2, PlaceFacts
  <2>3. p = new => p[1] = top /\ p[2] = Len(fs[top]) + 1 /\ p = <<p[1], p[2]>>
    OBVIOUS
  <2>4. p = <<p[1], p[2]>> /\ p[1] = top /\ p[2] = Len(fs[top]) + 1 => p = new
    OBVIOUS
  <2> HIDE DEF new
  <2>5. CASE p[1] = top
    <3>1. Len(gs[p[1]]) = Len(fs[p[1]]) + 1 /\ Len(fs[p[1]]) \in Nat
      BY <1>3, <2>5
    <3>2. p \in Places(gs) <=> p \in Places(fs) \/ p = new
      BY <1>1, <1>2, <2>1, <2>2, <2>3, <2>4, <2>5, <3>1
    <3>3. p \in Places(fs) => gs[p[1]][p[2]] = fs[p[1]][p[2]]
      BY <1>3, <2>1, <2>5
    <3>4. p \in Places(fs) => p # new
      BY <2>1, <2>3, <2>5, <3>1
    <3>5. QED BY <3>2, <3>3, <3>4
  <2>6. CASE p[1] # top
    BY <1>1, <1>2, <2>1, <2>2, <2>3, <2>6
  <2>7. QED BY <2>5, <2>6
<1>5. Places(gs) = Places(fs) \cup {new} /\ new \notin Places(fs)
  BY <1>4
<1>6. gs[new[1]][new[2]] = loop
  BY <1>3
<1> HIDE DEF new
<1>8. ASSUME NEW l
      PROVE  Cardinality(Over(gs, l)) = Cardinality(Over(fs, l)) + IF loop.over = l THEN 1 ELSE 0
  <2>0. IsFiniteSet(Over(fs, l)) /\ Cardinality(Over(fs, l)) \in Nat
    BY PlacesFinite
  <2>1. CASE loop.over = l
    <3>1. Over(gs, l) = Over(fs, l) \cup {new} /\ new \notin Over(fs, l)
      BY <1>4, <1>5, <1>6, <2>1 DEF Over
    <3>2. Cardinality(Over(gs, l)) = Cardinality(Over(fs, l)) + 1
      BY <2>0, <3>1, FS_AddElement
    <3>3. QED BY <2>1, <3>2
  <2>2. CASE loop.over # l
    <3>1. Over(gs, l) = Over(fs, l)
      BY <1>4, <1>5, <1>6, <2>2 DEF Over
    <3>2. QED BY <2>0, <2>2, <3>1
  <2>3. QED BY <2>1, <2>2
<1>9. \A p \in Places(fs) : gs[p[1]][p[2]] = fs[p[1]][p[2]]
  BY <1>4
<1>10. \A p \in Places(gs) : p \in Places(fs) \/ gs[p[1]][p[2]] = loop
  BY <1>5, <1>6
<1>11. QED BY <1>2, <1>3, <1>5, <1>8, <1>9, <1>10 DEF new, EnteredFacts

\* A sequence and what is left of it without its last element.
LEMMA FrontFacts ==
  ASSUME NEW S, NEW s \in Seq(S), s # <<>>
  PROVE  /\ Len(s) \in Nat \ {0} /\ s[Len(s)] \in S
         /\ SubSeq(s, 1, Len(s) - 1) \in Seq(S)
         /\ Len(SubSeq(s, 1, Len(s) - 1)) = Len(s) - 1
         /\ \A i \in 1 .. Len(s) - 1 : SubSeq(s, 1, Len(s) - 1)[i] = s[i]
         /\ s = Append(SubSeq(s, 1, Len(s) - 1), s[Len(s)])
<1>1. Len(s) \in Nat \ {0} /\ s[Len(s)] \in S
  OBVIOUS
<1>2. PICK m, n : m = 1 /\ n = Len(s) - 1
  OBVIOUS
<1>3. PICK t : t = SubSeq(s, m, n)
  OBVIOUS
<1>4. /\ t \in Seq(S) /\ Len(t) = n
      /\ \A i \in 1 .. n : t[i] = s[i]
  <2>1. m \in Int /\ n \in Int /\ \A i \in m .. n : s[i] \in S
    BY <1>1, <1>2
  <2>2. /\ SubSeq(s, m, n) \in Seq(S)
        /\ Len(SubSeq(s, m, n)) = IF m <= n THEN n - m + 1 ELSE 0
        /\ \A i \in 1 .. n - m + 1 : SubSeq(s, m, n)[i] = s[m + i - 1]
    BY <2>1, SubSeqProperties
  <2>3. QED BY <1>1, <1>2, <1>3, <2>1, <2>2
<1>5. s = Append(t, s[Len(s)])
  BY <1>1, <1>2, <1>4
<1>6. QED BY <1>1, <1>2, <1>3, <1>4, <1>5

LEMMA HeldByOne ==
  ASSUME NEW loop, NEW l
  PROVE  Held(<<loop>>, l) = IF loop.over = l THEN 1 ELSE 0
<1>1. DOMAIN <<loop>> = {1} /\ <<loop>>[1] = loop
  OBVIOUS
<1>2. CASE loop.over = l
  <2>1. {n \in DOMAIN <<loop>> : <<loop>>[n].over = l} = {1}
    BY <1>1, <1>2
  <2>2. QED BY <1>2, <2>1, FS_Singleton DEF Held
<1>3. CASE loop.over # l
  <2>1. {n \in DOMAIN <<loop>> : <<loop>>[n].over = l} = {}
    BY <1>1, <1>3
  <2>2. QED BY <1>3, <2>1, FS_EmptySet DEF Held
<1>4. QED BY <1>2, <1>3

\* A loop that is left: its place is the last one of the frame.
LEMMA LeftPlaces ==
  ASSUME NEW fs \in Seq(Seq(Loop)), fs # <<>>, fs[Len(fs)] # <<>>,
         NEW gs, LeftInner(fs, gs)
  PROVE  gs # <<>> /\ Fewer(fs, gs, <<fs[Len(fs)][Len(fs[Len(fs)])]>>)
<1>0. PICK s \in Seq(Loop) : s = fs[Len(fs)]
  OBVIOUS
<1>1. PICK inner, t : inner = s[Len(s)] /\ t = SubSeq(s, 1, Len(s) - 1)
  OBVIOUS
<1>2. /\ Len(s) \in Nat \ {0} /\ inner \in Loop
      /\ t \in Seq(Loop) /\ s = Append(t, inner)
  BY <1>0, <1>1, FrontFacts
<1>3. /\ gs \in Seq(Seq(Loop)) /\ Len(gs) = Len(fs) /\ gs # <<>>
      /\ gs[Len(gs)] = t
      /\ \A f \in 1 .. Len(fs) : f # Len(fs) => gs[f] = fs[f]
  <2>1. gs = [fs EXCEPT ![Len(fs)] = t] /\ Len(fs) \in 1 .. Len(fs)
    BY <1>0, <1>1 DEF LeftInner
  <2>2. /\ gs \in Seq(Seq(Loop)) /\ Len(gs) = Len(fs)
        /\ \A f \in 1 .. Len(fs) : gs[f] = IF f = Len(fs) THEN t ELSE fs[f]
    BY <1>2, <2>1, ExceptSeq
  <2>3. gs # <<>> /\ gs[Len(gs)] = t
    BY <2>1, <2>2
  <2>4. QED BY <2>2, <2>3
<1>4. Entered(gs, fs, inner)
  <2> DEFINE hs == [gs EXCEPT ![Len(gs)] = s]
  <2>2. hs \in Seq(Seq(Loop)) /\ Len(hs) = Len(fs)
    BY <1>3
  <2>3. ASSUME NEW f \in 1 .. Len(fs)
        PROVE  fs[f] = hs[f]
    BY <1>0, <1>1, <1>3
  <2> HIDE DEF hs
  <2>4. fs = hs
    BY <2>2, <2>3, SeqEqual
  <2>5. s = Append(gs[Len(gs)], inner)
    BY <1>2, <1>3
  <2>6. QED BY <2>4, <2>5, Zenon DEF hs, Entered
<1>5. EnteredFacts(gs, fs, inner)
  <2>1. gs \in Seq(Seq(Loop)) /\ gs # <<>> /\ inner \in Loop /\ Entered(gs, fs, inner)
    BY <1>2, <1>3, <1>4
  <2>2. QED BY <2>1, EnteredPlaces
<1>6. /\ Places(gs) \subseteq Places(fs)
      /\ \A p \in Places(gs) : fs[p[1]][p[2]] = gs[p[1]][p[2]]
  BY <1>5 DEF EnteredFacts
<1>7. ASSUME NEW l
      PROVE  Cardinality(Over(gs, l)) = Cardinality(Over(fs, l)) - Held(<<inner>>, l)
  <2>1. Cardinality(Over(fs, l)) =
          Cardinality(Over(gs, l)) + IF inner.over = l THEN 1 ELSE 0
    BY <1>5 DEF EnteredFacts
  <2>2. Cardinality(Over(gs, l)) \in Nat
    BY <1>3, PlacesFinite
  <2>3. Held(<<inner>>, l) = IF inner.over = l THEN 1 ELSE 0
    BY HeldByOne
  <2>4. QED BY <2>1, <2>2, <2>3
<1>8. inner = fs[Len(fs)][Len(fs[Len(fs)])]
  BY <1>0, <1>1
<1>9. Fewer(fs, gs, <<inner>>)
  BY <1>3, <1>6, <1>7 DEF Fewer
<1>10. QED BY <1>3, <1>8, <1>9

\* A function that is left: the loops of the others stay where they are.
LEMMA ReturnedPlaces ==
  ASSUME NEW fs \in Seq(Seq(Loop)), Len(fs) > 1, NEW gs, Returned(fs, gs)
  PROVE  gs # <<>> /\ Fewer(fs, gs, fs[Len(fs)])
<1>0. fs # <<>> /\ Len(fs) \in Nat
  OBVIOUS
<1>14. SUFFICES ASSUME NEW l
               PROVE  /\ gs \in Seq(Seq(Loop)) /\ gs # <<>>
                      /\ Places(gs) \subseteq Places(fs)
                      /\ \A p \in Places(gs) : gs[p[1]][p[2]] = fs[p[1]][p[2]]
                      /\ Cardinality(Over(gs, l)) =
                           Cardinality(Over(fs, l)) - Held(fs[Len(fs)], l)
  BY DEF Fewer
<1> DEFINE top == Len(fs)
           of == {n \in DOMAIN fs[top] : fs[top][n].over = l}
           place == [n \in of |-> <<top, n>>]
           left == {<<top, n>> : n \in of}
<1>1. /\ top \in Nat \ {0} /\ fs[top] \in Seq(Loop) /\ Len(fs[top]) \in Nat
      /\ DOMAIN fs[top] = 1 .. Len(fs[top])
  BY <1>0
<1>2. /\ gs \in Seq(Seq(Loop)) /\ Len(gs) = top - 1
      /\ \A f \in 1 .. top - 1 : gs[f] = fs[f]
  BY <1>0, FrontFacts DEF Returned
<1>3. ASSUME NEW p
      PROVE  /\ p \in Places(fs) <=> p \in Places(gs) \/ \E n \in DOMAIN fs[top] : p = <<top, n>>
             /\ p \in Places(gs) => gs[p[1]][p[2]] = fs[p[1]][p[2]] /\ p[1] # top
  <2>1. p \in Places(fs) <=>
          p = <<p[1], p[2]>> /\ p[1] \in 1 .. Len(fs) /\ p[2] \in 1 .. Len(fs[p[1]])
    BY PlaceFacts
  <2>2. p \in Places(gs) <=>
          p = <<p[1], p[2]>> /\ p[1] \in 1 .. Len(gs) /\ p[2] \in 1 .. Len(gs[p[1]])
    BY <1>2, PlaceFacts
  <2>3. CASE p[1] = top
    <3>1. p \notin Places(gs)
      BY <1>1, <1>2, <2>2, <2>3
    <3>2. p \in Places(fs) <=> \E n \in DOMAIN fs[top] : p = <<top, n>>
      BY <1>1, <2>1, <2>3
    <3>3. QED BY <3>1, <3>2
  <2>4. CASE p[1] # top
    <3>1. p \in Places(fs) <=> p \in Places(gs)
      BY <1>1, <1>2, <2>1, <2>2, <2>4
    <3>2. ~ \E n \in DOMAIN fs[top] : p = <<top, n>>
      BY <2>4
    <3>3. p \in Places(gs) => gs[p[1]][p[2]] = fs[p[1]][p[2]]
      BY <1>2, <2>2
    <3>4. QED BY <2>4, <3>1, <3>2, <3>3
  <2>5. QED BY <2>3, <2>4
<1>4. ASSUME NEW p
      PROVE  /\ p \in Over(fs, l) <=> p \in Over(gs, l) \/ p \in left
             /\ ~(p \in Over(gs, l) /\ p \in left)
  <2>1. p \in Over(fs, l) <=> p \in Places(fs) /\ fs[p[1]][p[2]].over = l
    BY DEF Over
  <2>2. p \in Over(gs, l) <=> p \in Places(gs) /\ gs[p[1]][p[2]].over = l
    BY DEF Over
  <2>3. p \in left <=> \E n \in DOMAIN fs[top] : p = <<top, n>> /\ fs[top][n].over = l
    OBVIOUS
  <2>4. ASSUME NEW n, p = <<top, n>>
        PROVE  p[1] = top /\ p[2] = n
    BY <2>4
  <2> HIDE DEF left, of
  <2>5. QED BY <1>3, <2>1, <2>2, <2>3, <2>4
<1>10. Over(fs, l) = Over(gs, l) \cup left /\ Over(gs, l) \cap left = {}
  BY <1>4
<1>5. IsFiniteSet(of) /\ Cardinality(of) = Held(fs[top], l)
  <2>0. ASSUME NEW m \in Nat
        PROVE  IsFiniteSet(1 .. m)
    BY FS_Interval
  <2>1. IsFiniteSet(1 .. Len(fs[top]))
    BY <1>1, <2>0
  <2>2. QED BY <1>1, <2>1, FS_Subset DEF Held
<1>6. IsFiniteSet(left) /\ Cardinality(left) = Cardinality(of)
  <2>1. place \in Surjection(of, left) /\ place \in Injection(of, left)
    BY DEF Surjection, Injection, IsInjective
  <2> HIDE DEF place, left, of
  <2>2. QED BY <1>5, <2>1, FS_Surjection
<1>7. IsFiniteSet(Over(gs, l)) /\ Cardinality(Over(gs, l)) \in Nat /\ Cardinality(left) \in Nat
  BY <1>2, <1>6, PlacesFinite, FS_CardinalityType
<1> HIDE DEF left, of
<1>8. Cardinality(Over(fs, l)) = Cardinality(Over(gs, l)) + Cardinality(left)
  <2>1. Cardinality(Over(gs, l) \cap left) = 0
    BY <1>10, FS_EmptySet
  <2>2. Cardinality(Over(gs, l) \cup left) =
          Cardinality(Over(gs, l)) + Cardinality(left) - Cardinality(Over(gs, l) \cap left)
    BY <1>6, <1>7, FS_Union
  <2>3. QED BY <1>10, <1>7, <2>1, <2>2
<1>9. Places(gs) \subseteq Places(fs) /\ \A p \in Places(gs) : gs[p[1]][p[2]] = fs[p[1]][p[2]]
  BY <1>3
<1>11. Cardinality(Over(gs, l)) = Cardinality(Over(fs, l)) - Held(fs[top], l)
  BY <1>5, <1>6, <1>7, <1>8
<1>12. gs # <<>>
  BY <1>0, <1>2
<1>13. QED BY <1>2, <1>9, <1>11, <1>12

\* A loop that goes on: its place, and the list it is over, stay.
LEMMA ReplacedPlaces ==
  ASSUME NEW fs \in Seq(Seq(Loop)), fs # <<>>, fs[Len(fs)] # <<>>,
         NEW loop \in Loop, loop.over = fs[Len(fs)][Len(fs[Len(fs)])].over,
         NEW gs, Replaced(fs, gs, loop)
  PROVE  Same(fs, gs, loop)
<1>0. PICK s \in Seq(Loop) : s = fs[Len(fs)]
  OBVIOUS
<1>1. PICK t : s = fs[Len(fs)] /\ t = [s EXCEPT ![Len(s)] = loop]
  BY <1>0
<1>2. /\ s # <<>> /\ t \in Seq(Loop) /\ Len(t) = Len(s)
      /\ \A n \in 1 .. Len(s) : t[n] = IF n = Len(s) THEN loop ELSE s[n]
  BY <1>1
<1>3. /\ gs \in Seq(Seq(Loop)) /\ Len(gs) = Len(fs)
      /\ \A f \in 1 .. Len(fs) : gs[f] = IF f = Len(fs) THEN t ELSE fs[f]
  BY <1>1, <1>2 DEF Replaced
<1>4. ASSUME NEW p
      PROVE  /\ p \in Places(gs) <=> p \in Places(fs)
             /\ p \in Places(fs) =>
                  \/ gs[p[1]][p[2]] = fs[p[1]][p[2]]
                  \/ gs[p[1]][p[2]] = loop /\ fs[p[1]][p[2]].over = loop.over
  <2>1. p \in Places(fs) <=>
          p = <<p[1], p[2]>> /\ p[1] \in 1 .. Len(fs) /\ p[2] \in 1 .. Len(fs[p[1]])
    BY PlaceFacts
  <2>2. p \in Places(gs) <=>
          p = <<p[1], p[2]>> /\ p[1] \in 1 .. Len(gs) /\ p[2] \in 1 .. Len(gs[p[1]])
    BY <1>3, PlaceFacts
  <2>3. QED BY <1>1, <1>2, <1>3, <2>1, <2>2
<1>5. \A l : Over(gs, l) = Over(fs, l)
  BY <1>4 DEF Over
<1>6. gs # <<>>
  BY <1>3
<1>7. Places(gs) = Places(fs)
  BY <1>4
<1>8. QED BY <1>3, <1>4, <1>5, <1>6, <1>7 DEF Same

\* A function that is called: it is in no loop yet.
LEMMA CalledPlaces ==
  ASSUME NEW fs \in Seq(Seq(Loop)), NEW gs, Called(fs, gs)
  PROVE  \A loop : Same(fs, gs, loop)
<1>1. /\ gs \in Seq(Seq(Loop)) /\ Len(gs) = Len(fs) + 1 /\ Len(fs) \in Nat /\ gs # <<>>
      /\ gs[Len(fs) + 1] = <<>> /\ Len(gs[Len(fs) + 1]) = 0
      /\ \A f \in 1 .. Len(fs) : gs[f] = fs[f]
  BY DEF Called
<1>2. ASSUME NEW p
      PROVE  /\ p \in Places(gs) <=> p \in Places(fs)
             /\ p \in Places(fs) => gs[p[1]][p[2]] = fs[p[1]][p[2]]
  <2>1. p \in Places(fs) <=>
          p = <<p[1], p[2]>> /\ p[1] \in 1 .. Len(fs) /\ p[2] \in 1 .. Len(fs[p[1]])
    BY PlaceFacts
  <2>2. p \in Places(gs) <=>
          p = <<p[1], p[2]>> /\ p[1] \in 1 .. Len(gs) /\ p[2] \in 1 .. Len(gs[p[1]])
    BY <1>1, PlaceFacts
  <2>3. QED BY <1>1, <2>1, <2>2
<1>3. Places(gs) = Places(fs) /\ \A l : Over(gs, l) = Over(fs, l)
  BY <1>2 DEF Over
<1>4. QED BY <1>1, <1>2, <1>3 DEF Same

-----------------------------------------------------------------------------
(* One lemma per action. *)

\* What the steps that leave the loops alone have in common.
LEMMA ListSteps ==
  ASSUME IterationInv, NEW l \in Lists, NEW control, NEW e \in Seq(Values),
         Stores(l, control), Amends(l, control, e),
         list[l].locks = 0 \/ Len(e) = Len(list[l].elements)
  PROVE  IterationInv'
<1>1. /\ Typed
      /\ \A m \in Lists : list[m].locks = Cardinality(Over(frames, m))
      /\ \A p \in Places(frames) : Current(list, frames[p[1]][p[2]])
  BY InvariantForm
<1>2. Typed'
  BY <1>1 DEF Typed, Stores, Amends
<1>3. \A m \in Lists : list'[m].locks = list[m].locks /\ (m # l => list'[m] = list[m])
  BY <1>1 DEF Typed, Stores, Amends
<1>4. ASSUME NEW p \in Places(frames)
      PROVE  Current(list', frames[p[1]][p[2]])
  <2>2. PICK loop \in Loop : loop = frames[p[1]][p[2]]
    BY <1>1, PlacedLoops DEF Typed
  <2>3. loop.over = l => Len(e) = Len(list[l].elements)
    <3>1. ASSUME loop.over = l, list[l].locks = 0
          PROVE  FALSE
      <4>1. p \in Over(frames, l)
        BY <2>2, <3>1 DEF Over
      <4>2. IsFiniteSet(Over(frames, l)) /\ Cardinality(Over(frames, l)) = 0
        BY <1>1, <3>1, PlacesFinite DEF Typed
      <4>3. QED BY <4>1, <4>2, FS_EmptySet
    <3>2. QED BY <3>1
  <2>4. loop.over \in Lists \cup {NoList}
    BY DEF Loop
  <2>5. loop.over = l => list'[loop.over].elements = e
    BY <1>1 DEF Typed, Stores, Amends
  <2>6. Current(list, loop)
    BY <1>1, <2>2
  <2>7. QED BY <1>3, <2>2, <2>3, <2>4, <2>5, <2>6 DEF Current
<1>5. UNCHANGED frames
  BY DEF Stores
<1>6. QED BY <1>1, <1>2, <1>3, <1>4, <1>5, InvariantForm

LEMMA UnchangedKeeps ==
  ASSUME IterationInv, UNCHANGED <<list, frames>>
  PROVE  IterationInv'
BY InvariantForm DEF Typed

\* A control that gets other elements, and perhaps another capacity.
LEMMA NewElements ==
  ASSUME NEW l, {"elements", "locks"} \subseteq DOMAIN list[l], NEW e
  PROVE  /\ Amends(l, [list[l] EXCEPT !.elements = e], e)
         /\ \A c : Amends(l, [list[l] EXCEPT !.elements = e, !.capacity = c], e)
BY DEF Amends

LEMMA AppendKeeps ==
  ASSUME IterationInv, NEW l \in Lists, NEW v \in Values, ListAppend(l, v)
  PROVE  IterationInv'
<1> DEFINE e == Append(list[l].elements, v)
           inPlace == [list[l] EXCEPT !.elements = e]
           grown(c) == [list[l] EXCEPT !.elements = e, !.capacity = c]
<1>1. {"elements", "locks"} \subseteq DOMAIN list[l] /\ list[l].elements \in Seq(Values)
  BY DEF IterationInv, Typed
<1>2. e \in Seq(Values)
  <2>1. PICK s \in Seq(Values) : s = list[l].elements
    BY <1>1
  <2>2. Append(s, v) \in Seq(Values)
    OBVIOUS
  <2>3. QED BY <2>1, <2>2
<1>3. \A c : Amends(l, inPlace, e) /\ Amends(l, grown(c), e)
  BY <1>1, NewElements, Zenon
<1>4. \/ UNCHANGED <<list, frames>>
      \/ list[l].locks = 0 /\ Stores(l, inPlace)
      \/ list[l].locks = 0 /\ \E c : Stores(l, grown(c))
  <2>1. CASE list[l].locks # 0
    BY <2>1, Zenon DEF ListAppend, Panic
  <2>2. CASE list[l].locks = 0
    <3>1. \/ UNCHANGED <<list, frames>>
          \/ Stores(l, inPlace)
          \/ Stores(l, grown(Capacity(Len(list[l].elements) + 1, list[l].capacity)))
      BY <2>2 DEF ListAppend, Panic, Update, Stores
    <3> HIDE DEF e, inPlace, grown
    <3>2. QED BY <2>2, <3>1
  <2> HIDE DEF e, inPlace, grown
  <2>3. QED BY <2>1, <2>2
<1> HIDE DEF e, inPlace, grown
<1>5. CASE UNCHANGED <<list, frames>>
  BY <1>5, UnchangedKeeps
<1>6. CASE list[l].locks = 0 /\ Stores(l, inPlace)
  BY <1>2, <1>3, <1>6, ListSteps
<1>7. CASE list[l].locks = 0 /\ \E c : Stores(l, grown(c))
  BY <1>2, <1>3, <1>7, ListSteps
<1>8. QED BY <1>4, <1>5, <1>6, <1>7

LEMMA RemoveKeeps ==
  ASSUME IterationInv, NEW l \in Lists, NEW index \in Indices, ListRemoveIndex(l, index),
         ListAssumption
  PROVE  IterationInv'
<1>1. {"elements", "locks"} \subseteq DOMAIN list[l] /\ list[l].elements \in Seq(Values)
  BY DEF IterationInv, Typed
<1>2. CASE UNCHANGED <<list, frames>>
  BY <1>2, UnchangedKeeps
<1>3. PICK e : e = Without(list[l].elements, PositionOf(list[l].elements, index))
  OBVIOUS
<1>4. CASE /\ list[l].locks = 0 /\ InRange(list[l].elements, index)
           /\ Stores(l, [list[l] EXCEPT !.elements = e])
  <2>1. PICK s \in Seq(Values) : s = list[l].elements
    BY <1>1
  <2>2. Len(s) \in Nat /\ index \in Int /\ Len(s) > 0
    BY <1>4, <2>1 DEF InRange, ListAssumption
  <2>3. PositionOf(s, index) \in Int
    BY <2>2 DEF PositionOf
  <2>4. \A i \in 1 .. Len(s) - 1 : s[i] \in Values /\ s[i + 1] \in Values
    BY <2>2
  <2>5. e \in Seq(Values)
    BY <1>3, <2>1, <2>2, <2>3, <2>4 DEF Without
  <2>6. Amends(l, [list[l] EXCEPT !.elements = e], e)
    BY <1>1, NewElements, Zenon
  <2>7. QED BY <1>4, <2>5, <2>6, ListSteps
<1>5. \/ UNCHANGED <<list, frames>>
      \/ /\ list[l].locks = 0 /\ InRange(list[l].elements, index)
         /\ Stores(l, [list[l] EXCEPT !.elements =
                         Without(list[l].elements, PositionOf(list[l].elements, index))])
  BY Zenon DEF ListRemoveIndex, Panic, Update, Stores
<1>6. QED BY <1>2, <1>3, <1>4, <1>5

LEMMA StoreKeeps ==
  ASSUME IterationInv, NEW l \in Lists, NEW index \in Indices, NEW v \in Values,
         ListStore(l, index, v), ListAssumption
  PROVE  IterationInv'
<1>1. {"elements", "locks"} \subseteq DOMAIN list[l] /\ list[l].elements \in Seq(Values)
  BY DEF IterationInv, Typed
<1>2. CASE UNCHANGED <<list, frames>>
  BY <1>2, UnchangedKeeps
<1>3. PICK e : e = [list[l].elements EXCEPT ![PositionOf(list[l].elements, index) + 1] = v]
  OBVIOUS
<1>4. CASE InRange(list[l].elements, index) /\ Stores(l, [list[l] EXCEPT !.elements = e])
  <2>1. PICK s \in Seq(Values) : s = list[l].elements
    BY <1>1
  <2>2. Len(s) \in Nat /\ index \in Int /\ - Len(s) <= index /\ index < Len(s)
    BY <1>4, <2>1 DEF InRange, ListAssumption
  <2>3. PICK n \in 1 .. Len(s) : n = PositionOf(s, index) + 1
    BY <2>2 DEF PositionOf
  <2>4. e \in Seq(Values) /\ Len(e) = Len(s)
    BY <1>3, <2>1, <2>3, ExceptSeq
  <2>5. Amends(l, [list[l] EXCEPT !.elements = e], e)
    BY <1>1, NewElements, Zenon
  <2>6. QED BY <1>4, <2>1, <2>4, <2>5, ListSteps
<1>5. \/ UNCHANGED <<list, frames>>
      \/ /\ InRange(list[l].elements, index)
         /\ Stores(l, [list[l] EXCEPT !.elements =
                         [@ EXCEPT ![PositionOf(list[l].elements, index) + 1] = v]])
  BY Zenon DEF ListStore, Panic, Update, Stores
<1>6. QED BY <1>2, <1>3, <1>4, <1>5

LEMMA EnterForKeeps ==
  ASSUME IterationInv, NEW l \in Lists, EnterFor(l)
  PROVE  IterationInv'
<1>1. /\ Typed
      /\ \A m \in Lists : list[m].locks = Cardinality(Over(frames, m))
      /\ \A p \in Places(frames) : Current(list, frames[p[1]][p[2]])
  BY InvariantForm
<1> DEFINE loop == [over |-> l, length |-> Len(list[l].elements), index |-> 0, at |-> "header"]
<1>2. loop \in Loop /\ loop.over = l /\ Current(list, loop)
  BY <1>1 DEF Typed, Loop, Current
<1>3. Entered(frames, frames', loop)
  BY DEF Entered, EnterFor, SetLoops, Loops, Top
<1> HIDE DEF loop
<1>4. list' = [list EXCEPT ![l].locks = @ + 1]
  BY DEF EnterFor, BeginIteration
<1>5. \A m \in Lists : /\ list'[m].elements = list[m].elements
                       /\ list'[m].locks = list[m].locks + IF m = l THEN 1 ELSE 0
  BY <1>1, <1>4 DEF Typed
<1>6. frames \in Seq(Seq(Loop)) /\ frames # <<>>
  BY <1>1 DEF Typed
<1>7. /\ frames' \in Seq(Seq(Loop)) /\ Len(frames') = Len(frames)
      /\ \A p \in Places(frames') :
           \/ p \in Places(frames) /\ frames'[p[1]][p[2]] = frames[p[1]][p[2]]
           \/ frames'[p[1]][p[2]] = loop
      /\ \A m : Cardinality(Over(frames', m)) =
                 Cardinality(Over(frames, m)) + IF loop.over = m THEN 1 ELSE 0
  <2>1. /\ frames' \in Seq(Seq(Loop)) /\ Len(frames') = Len(frames)
        /\ \A p \in Places(frames') : p \in Places(frames) \/ frames'[p[1]][p[2]] = loop
        /\ \A p \in Places(frames) : frames'[p[1]][p[2]] = frames[p[1]][p[2]]
        /\ \A m : Cardinality(Over(frames', m)) =
                   Cardinality(Over(frames, m)) + IF loop.over = m THEN 1 ELSE 0
    <3>1. EnteredFacts(frames, frames', loop)
      BY <1>2, <1>3, <1>6, EnteredPlaces
    <3>2. QED BY <3>1 DEF EnteredFacts
  <2>2. QED BY <2>1
<1>8. Typed'
  <2>1. frames' # <<>>
    BY <1>6, <1>7
  <2>2. DOMAIN list' = Lists /\ \A m \in Lists : {"elements", "locks"} \subseteq DOMAIN list'[m]
    BY <1>1, <1>4 DEF Typed
  <2>3. ASSUME NEW m \in Lists
        PROVE  list'[m].elements \in Seq(Values) /\ list'[m].locks \in Int
    <3>1. list[m].elements \in Seq(Values) /\ list[m].locks \in Int
      BY <1>1 DEF Typed
    <3>2. QED BY <1>5, <3>1
  <2>4. QED BY <1>7, <2>1, <2>2, <2>3 DEF Typed
<1>9. \A m \in Lists : list'[m].locks = Cardinality(Over(frames', m))
  BY <1>1, <1>2, <1>5, <1>7
<1>10. ASSUME NEW x \in Loop, Current(list, x)
       PROVE  Current(list', x)
  <2>1. x.over \in Lists \cup {NoList}
    BY DEF Loop
  <2>2. QED BY <1>5, <1>10, <2>1 DEF Current
<1>11. \A p \in Places(frames') : Current(list', frames'[p[1]][p[2]])
  <2>1. \A p \in Places(frames) : frames[p[1]][p[2]] \in Loop
    BY <1>6, PlacedLoops
  <2>2. QED BY <1>1, <1>2, <1>7, <1>10, <2>1
<1>12. QED BY <1>8, <1>9, <1>11, InvariantForm

LEMMA EnterWhileKeeps ==
  ASSUME IterationInv, EnterWhile, ListAssumption
  PROVE  IterationInv'
<1>1. /\ Typed
      /\ \A m \in Lists : list[m].locks = Cardinality(Over(frames, m))
      /\ \A p \in Places(frames) : Current(list, frames[p[1]][p[2]])
  BY InvariantForm
<1> DEFINE loop == [over |-> NoList, length |-> 0, index |-> 0, at |-> "body"]
<1>2. loop \in Loop /\ loop.over = NoList /\ Current(list, loop)
  BY DEF Loop, Current
<1>3. Entered(frames, frames', loop) /\ list' = list
  BY DEF Entered, EnterWhile, SetLoops, Loops, Top
<1> HIDE DEF loop
<1>4. frames \in Seq(Seq(Loop)) /\ frames # <<>>
  BY <1>1 DEF Typed
<1>5. EnteredFacts(frames, frames', loop)
  BY <1>2, <1>3, <1>4, EnteredPlaces
<1>6. Typed'
  <2>1. frames' \in Seq(Seq(Loop)) /\ Len(frames') = Len(frames)
    BY <1>5 DEF EnteredFacts
  <2>2. frames' # <<>>
    BY <1>4, <2>1
  <2>3. QED BY <1>1, <1>3, <2>1, <2>2 DEF Typed
<1>7. \A m \in Lists : list'[m].locks = Cardinality(Over(frames', m))
  <2> SUFFICES ASSUME NEW m \in Lists
               PROVE  list[m].locks = Cardinality(Over(frames', m))
    BY <1>3
  <2>1. Cardinality(Over(frames', m)) =
          Cardinality(Over(frames, m)) + IF loop.over = m THEN 1 ELSE 0
    BY <1>5 DEF EnteredFacts
  <2>2. loop.over # m
    BY <1>2 DEF ListAssumption
  <2>3. list[m].locks \in Int /\ list[m].locks = Cardinality(Over(frames, m))
    BY <1>1 DEF Typed
  <2>4. QED BY <2>1, <2>2, <2>3
<1>8. \A p \in Places(frames') : Current(list', frames'[p[1]][p[2]])
  <2>1. /\ \A p \in Places(frames') : p \in Places(frames) \/ frames'[p[1]][p[2]] = loop
        /\ \A p \in Places(frames) : frames'[p[1]][p[2]] = frames[p[1]][p[2]]
    BY <1>5 DEF EnteredFacts
  <2>2. QED BY <1>1, <1>2, <1>3, <2>1
<1>9. QED BY <1>6, <1>7, <1>8, InvariantForm

\* What the steps inside a loop have in common, and a call.
LEMMA SameKeeps ==
  ASSUME IterationInv, UNCHANGED list, NEW loop, Same(frames, frames', loop),
         Current(list, loop)
  PROVE  IterationInv'
<1>1. /\ Typed
      /\ \A m \in Lists : list[m].locks = Cardinality(Over(frames, m))
      /\ \A p \in Places(frames) : Current(list, frames[p[1]][p[2]])
  BY InvariantForm
<1>2. /\ frames' \in Seq(Seq(Loop)) /\ frames' # <<>>
      /\ Places(frames') = Places(frames) /\ \A m : Over(frames', m) = Over(frames, m)
      /\ \A p \in Places(frames) :
           frames'[p[1]][p[2]] = frames[p[1]][p[2]] \/ frames'[p[1]][p[2]] = loop
  BY DEF Same
<1>3. Typed'
  BY <1>1, <1>2 DEF Typed
<1>4. \A m \in Lists : list'[m].locks = Cardinality(Over(frames', m))
  BY <1>1, <1>2
<1>5. \A p \in Places(frames') : Current(list', frames'[p[1]][p[2]])
  BY <1>1, <1>2
<1>6. QED BY <1>3, <1>4, <1>5, InvariantForm

LEMMA InnerFacts ==
  ASSUME IterationInv, Loops # <<>>
  PROVE  /\ frames \in Seq(Seq(Loop)) /\ frames # <<>>
         /\ Inner \in Loop /\ Current(list, Inner)
<1>1. /\ Typed
      /\ \A p \in Places(frames) : Current(list, frames[p[1]][p[2]])
  BY InvariantForm
<1>2. frames \in Seq(Seq(Loop)) /\ frames # <<>>
  BY <1>1 DEF Typed
<1>3. PICK s \in Seq(Loop) : s = frames[Len(frames)]
  BY <1>2
<1>4. /\ s # <<>> /\ Len(s) \in 1 .. Len(s) /\ Len(frames) \in 1 .. Len(frames)
      /\ Inner = s[Len(s)]
  BY <1>2, <1>3 DEF Inner, Loops, Top
<1>5. PICK p : p = <<Len(frames), Len(s)>>
  OBVIOUS
<1>6. p \in Places(frames)
  <2>1. p = <<p[1], p[2]>> /\ p[1] = Len(frames) /\ p[2] = Len(s)
    BY <1>5
  <2>2. QED BY <1>2, <1>3, <1>4, <2>1, PlaceFacts
<1>7. frames[p[1]][p[2]] = Inner
  BY <1>3, <1>4, <1>5
<1>8. Inner \in Loop
  BY <1>2, <1>6, <1>7, PlacedLoops
<1>9. QED BY <1>1, <1>2, <1>6, <1>7, <1>8

LEMMA NextElementKeeps ==
  ASSUME IterationInv, NextElement
  PROVE  IterationInv'
<1>1. Loops # <<>>
  BY DEF NextElement
<1>2. /\ frames \in Seq(Seq(Loop)) /\ frames # <<>>
      /\ Inner \in Loop /\ Current(list, Inner)
  BY <1>1, InnerFacts
<1> DEFINE loop == [Inner EXCEPT !.at = "body"]
<1>3. loop \in Loop /\ loop.over = Inner.over
  BY <1>2 DEF Loop
<1>4. Current(list, loop)
  BY <1>2 DEF NextElement, Current, Loop
<1>5. Replaced(frames, frames', loop) /\ list' = list
  BY DEF Replaced, NextElement, SetLoops, Inner, Loops, Top
<1> HIDE DEF loop
<1>6. Same(frames, frames', loop)
  BY <1>1, <1>2, <1>3, <1>5, ReplacedPlaces DEF Inner, Loops, Top
<1>7. QED BY <1>4, <1>5, <1>6, SameKeeps

LEMMA ContinueKeeps ==
  ASSUME IterationInv, Continue
  PROVE  IterationInv'
<1>1. Loops # <<>>
  BY DEF Continue
<1>2. /\ frames \in Seq(Seq(Loop)) /\ frames # <<>>
      /\ Inner \in Loop /\ Current(list, Inner)
  BY <1>1, InnerFacts
<1> DEFINE loop == [Inner EXCEPT !.at = "header", !.index = @ + 1]
<1>3. loop \in Loop /\ loop.over = Inner.over
  <2>1. PICK x \in Loop : x = Inner
    BY <1>2
  <2> DEFINE y == [x EXCEPT !.at = "header"]
  <2>2. y \in Loop /\ y.over = x.over /\ y.index = x.index
    BY <2>1 DEF Loop
  <2>3. PICK n \in Nat : n = x.index + 1
    BY <2>1 DEF Loop
  <2>4. loop = [y EXCEPT !.index = n]
    BY <2>1, <2>2, <2>3 DEF Loop
  <2> HIDE DEF y, loop
  <2>5. [y EXCEPT !.index = n] \in Loop /\ [y EXCEPT !.index = n].over = y.over
    BY <2>2, <2>3 DEF Loop
  <2>6. QED BY <2>1, <2>2, <2>4, <2>5
<1>4. Current(list, loop)
  BY <1>2 DEF Current, Loop
<1>5. Replaced(frames, frames', loop) /\ list' = list
  <2>1. PICK s \in Seq(Loop) : s = Loops /\ s # <<>>
    BY <1>1, <1>2 DEF Loops, Top
  <2>2. Len(s) \in 1 .. Len(s)
    BY <2>1
  <2> DEFINE last == [s EXCEPT ![Len(s)].at = "header"]
             both == [s EXCEPT ![Len(s)].at = "header", ![Len(s)].index = @ + 1]
             once == [s EXCEPT ![Len(s)] = [s[Len(s)] EXCEPT !.at = "header", !.index = @ + 1]]
  <2>3. both = once
    <3>1. last[Len(s)] = [s[Len(s)] EXCEPT !.at = "header"] /\ DOMAIN last = DOMAIN s
      BY <2>2
    <3>2. QED BY <2>2, <3>1
  <2>4. frames' = [frames EXCEPT ![Len(frames)] = both] /\ list' = list
    BY <2>1 DEF Continue, SetLoops, Top
  <2>5. once = [frames[Len(frames)] EXCEPT ![Len(frames[Len(frames)])] = loop]
    BY <2>1 DEF Inner, Loops, Top
  <2> HIDE DEF both, once
  <2>6. QED BY <2>3, <2>4, <2>5 DEF Replaced
<1> HIDE DEF loop
<1>6. Same(frames, frames', loop)
  BY <1>1, <1>2, <1>3, <1>5, ReplacedPlaces DEF Inner, Loops, Top
<1>7. QED BY <1>4, <1>5, <1>6, SameKeeps

LEMMA CallKeeps ==
  ASSUME IterationInv, Call, ListAssumption
  PROVE  IterationInv'
<1>1. frames \in Seq(Seq(Loop)) /\ Called(frames, frames') /\ list' = list
  BY DEF IterationInv, Typed, Call, Called
<1>2. PICK loop : loop = [over |-> NoList]
  OBVIOUS
<1>3. Current(list, loop)
  BY <1>2 DEF Current
<1>4. Same(frames, frames', loop)
  BY <1>1, CalledPlaces
<1>5. QED BY <1>1, <1>3, <1>4, SameKeeps

\* What the ways out of loops have in common: a lock less for each loop.
LEMMA FewerKeeps ==
  ASSUME IterationInv, NEW lost, EndIterations(lost),
         frames' # <<>>, Fewer(frames, frames', lost),
         \A l : Held(lost, l) \in Nat
  PROVE  IterationInv'
<1>1. /\ Typed
      /\ \A m \in Lists : list[m].locks = Cardinality(Over(frames, m))
      /\ \A p \in Places(frames) : Current(list, frames[p[1]][p[2]])
  BY InvariantForm
<1>2. /\ frames' \in Seq(Seq(Loop)) /\ Places(frames') \subseteq Places(frames)
      /\ \A p \in Places(frames') : frames'[p[1]][p[2]] = frames[p[1]][p[2]]
      /\ \A m : Cardinality(Over(frames', m)) = Cardinality(Over(frames, m)) - Held(lost, m)
  BY DEF Fewer
<1>3. list' = [m \in Lists |-> [list[m] EXCEPT !.locks = @ - Held(lost, m)]]
  BY DEF EndIterations, Held
<1>4. DOMAIN list' = Lists
  BY <1>3
<1>5. ASSUME NEW m \in Lists
      PROVE  /\ {"elements", "locks"} \subseteq DOMAIN list'[m]
             /\ list'[m].elements = list[m].elements
             /\ list'[m].elements \in Seq(Values) /\ list'[m].locks \in Int
             /\ list'[m].locks = list[m].locks - Held(lost, m)
  <2>1. /\ {"elements", "locks"} \subseteq DOMAIN list[m]
        /\ list[m].elements \in Seq(Values) /\ list[m].locks \in Int
    BY <1>1 DEF Typed
  <2>2. list'[m] = [list[m] EXCEPT !.locks = @ - Held(lost, m)]
    BY <1>3
  <2>3. QED BY <2>1, <2>2
<1>6. Typed'
  BY <1>2, <1>4, <1>5 DEF Typed
<1>7. \A m \in Lists : list'[m].locks = Cardinality(Over(frames', m))
  BY <1>1, <1>2, <1>5
<1>8. ASSUME NEW x \in Loop, Current(list, x)
      PROVE  Current(list', x)
  <2>1. x.over \in Lists \cup {NoList}
    BY DEF Loop
  <2>2. QED BY <1>5, <1>8, <2>1 DEF Current
<1>9. \A p \in Places(frames') : Current(list', frames'[p[1]][p[2]])
  <2>1. \A p \in Places(frames') : frames'[p[1]][p[2]] \in Loop
    BY <1>2, PlacedLoops
  <2>2. QED BY <1>1, <1>2, <1>8, <2>1
<1>10. QED BY <1>6, <1>7, <1>9, InvariantForm

LEMMA LeaveKeeps ==
  ASSUME IterationInv, Leave
  PROVE  IterationInv'
<1>1. Loops # <<>> /\ EndIterations(<<Inner>>) /\ LeftInner(frames, frames')
  BY DEF Leave, LeftInner, SetLoops, Outer, Loops, Top
<1>2. frames \in Seq(Seq(Loop)) /\ frames # <<>>
  BY <1>1, InnerFacts
<1>3. frames' # <<>> /\ Fewer(frames, frames', <<Inner>>)
  BY <1>1, <1>2, LeftPlaces DEF Inner, Loops, Top
<1>4. ASSUME NEW l
      PROVE  Held(<<Inner>>, l) \in Nat
  <2>1. Held(<<Inner>>, l) = IF Inner.over = l THEN 1 ELSE 0
    BY HeldByOne
  <2>2. QED BY <2>1
<1>5. QED BY <1>1, <1>3, <1>4, FewerKeeps

LEMMA HeldCounts ==
  ASSUME NEW s \in Seq(Loop), NEW l
  PROVE  Held(s, l) \in Nat
<1>1. ASSUME NEW m \in Nat
      PROVE  IsFiniteSet(1 .. m)
  BY FS_Interval
<1>2. DOMAIN s = 1 .. Len(s) /\ Len(s) \in Nat
  OBVIOUS
<1>3. IsFiniteSet({n \in DOMAIN s : s[n].over = l})
  BY <1>1, <1>2, FS_Subset
<1>4. QED BY <1>3, FS_CardinalityType DEF Held

LEMMA ReturnKeeps ==
  ASSUME IterationInv, Return
  PROVE  IterationInv'
<1>1. EndIterations(Loops) /\ Len(frames) > 1 /\ Returned(frames, frames')
  BY DEF Return, Returned, Top
<1>2. frames \in Seq(Seq(Loop)) /\ frames # <<>>
  BY DEF IterationInv, Typed
<1>3. frames' # <<>> /\ Fewer(frames, frames', Loops)
  BY <1>1, <1>2, ReturnedPlaces DEF Loops, Top
<1>4. ASSUME NEW l
      PROVE  Held(Loops, l) \in Nat
  <2>1. PICK s \in Seq(Loop) : s = Loops
    BY <1>2 DEF Loops, Top
  <2>2. QED BY <2>1, HeldCounts
<1>5. QED BY <1>1, <1>3, <1>4, FewerKeeps

-----------------------------------------------------------------------------
LEMMA InitEstablishes ==
  ASSUME ListAssumption, Init
  PROVE  IterationInv
<1>1. frames = <<<<>>>>
  BY DEF Init
<1>2. frames \in Seq(Seq(Loop)) /\ frames # <<>> /\ Len(frames) = 1 /\ Len(frames[1]) = 0
  BY <1>1
<1>3. Places(frames) = {}
  <2>1. ASSUME NEW p \in Places(frames)
        PROVE  FALSE
    <3>1. p[1] \in 1 .. Len(frames) /\ p[2] \in 1 .. Len(frames[p[1]])
      BY <1>2, PlaceFacts
    <3>2. QED BY <1>2, <3>1
  <2>2. QED BY <2>1
<1>4. \A l : Cardinality(Over(frames, l)) = 0
  BY <1>3, FS_EmptySet DEF Over
<1>5. /\ DOMAIN list = Lists
      /\ \A l \in Lists : /\ {"elements", "locks"} \subseteq DOMAIN list[l]
                          /\ list[l].elements \in Seq(Values) /\ list[l].locks = 0
  <2>1. DOMAIN list = Lists
    BY DEF Init
  <2>2. ASSUME NEW l \in Lists
        PROVE  /\ {"elements", "locks"} \subseteq DOMAIN list[l]
               /\ list[l].elements \in Seq(Values) /\ list[l].locks = 0
    <3>1. PICK e \in Constructible :
            list[l] = [elements |-> e, locks |-> 0,
                       capacity |-> IF e = <<>> THEN 0 ELSE Capacity(Len(e), 0)]
      BY DEF Init
    <3>2. e \in Seq(Values)
      BY DEF ListAssumption, Constructible
    <3>3. QED BY <3>1, <3>2
  <2>3. QED BY <2>1, <2>2
<1>6. Typed
  BY <1>2, <1>5 DEF Typed
<1>7. QED BY <1>3, <1>4, <1>5, <1>6, InvariantForm

LEMMA NextKeeps ==
  ASSUME ListAssumption
  PROVE  IterationInv /\ [Next]_vars => IterationInv'
<1> SUFFICES ASSUME IterationInv, [Next]_vars
             PROVE  IterationInv'
  OBVIOUS
<1>1. CASE UNCHANGED vars
  BY <1>1, UnchangedKeeps DEF vars
<1>2. ASSUME NEW l \in Lists, EnterFor(l)
      PROVE  IterationInv'
  BY <1>2, EnterForKeeps
<1>3. ASSUME NEW l \in Lists, NEW v \in Values, ListAppend(l, v)
      PROVE  IterationInv'
  BY <1>3, AppendKeeps
<1>4. ASSUME NEW l \in Lists, NEW i \in Indices, ListRemoveIndex(l, i)
      PROVE  IterationInv'
  BY <1>4, RemoveKeeps
<1>5. ASSUME NEW l \in Lists, NEW i \in Indices, NEW v \in Values, ListStore(l, i, v)
      PROVE  IterationInv'
  BY <1>5, StoreKeeps
<1>6. CASE EnterWhile
  BY <1>6, EnterWhileKeeps
<1>7. CASE NextElement
  BY <1>7, NextElementKeeps
<1>8. CASE Continue
  BY <1>8, ContinueKeeps
<1>9. CASE Leave
  BY <1>9, LeaveKeeps
<1>10. CASE Call
  BY <1>10, CallKeeps
<1>11. CASE Return
  BY <1>11, ReturnKeeps
<1>12. QED
  BY <1>1, <1>2, <1>3, <1>4, <1>5, <1>6, <1>7, <1>8, <1>9, <1>10, <1>11 DEF Next

-----------------------------------------------------------------------------
(* The types, which say besides that the elements of a list fit its capacity *)
(* and that the bound on calls is kept.                                      *)

\* A capacity that exists is enough.
LEMMA CapacitySuffices ==
  ASSUME ListAssumption, NEW required \in Nat, NEW current \in Nat
  PROVE  /\ Capacity(required, current) \in Nat
         /\ Capacity(required, current) # 0 => required <= Capacity(required, current)
<1> DEFINE first == IF current = 0 THEN 4 ELSE current
           capacities == {c \in first .. CapacityMax :
                            c >= required /\ \E n \in 0 .. CapacityMax : c = first * (2 ^ n)}
           least == CHOOSE c \in capacities : \A d \in capacities : c <= d
           R == OpToRel(<, Nat)
<1>1. first \in Nat /\ CapacityMax \in Nat
  BY DEF ListAssumption
<1>2. Capacity(required, current) = IF capacities = {} THEN 0 ELSE least
  BY DEF Capacity
<1> HIDE DEF first
<1>3. capacities \subseteq Nat /\ \A c \in capacities : required <= c
  BY <1>1
<1> HIDE DEF capacities
<1>4. CASE capacities # {}
  <2>1. PICK c \in capacities : \A d \in capacities : ~ (<<d, c>> \in R)
    BY <1>3, <1>4, NatLessThanWellFounded, WFMin
  <2>2. \A a, b \in Nat : a < b => <<a, b>> \in R
    BY DEF OpToRel
  <2> HIDE DEF R
  <2>3. \A d \in capacities : ~ (d < c)
    BY <1>3, <2>1, <2>2
  <2>4. \A d \in capacities : c <= d
    BY <1>3, <2>3
  <2>5. least \in capacities
    BY <2>1, <2>4
  <2> QED BY <1>2, <1>3, <1>4, <2>5
<1> QED BY <1>2, <1>4

\* What an operation on one list stores.
LEMMA UpdatedTypes ==
  ASSUME IterationTypeOK, NEW l \in Lists, NEW control \in Control,
         Len(control.elements) <= control.capacity, Update(l, control)
  PROVE  IterationTypeOK'
<1>1. list' \in [Lists -> Control] /\ UNCHANGED <<frames, outcome>>
  BY DEF IterationTypeOK, Update
<1>2. \A m \in Lists : list'[m] = IF m = l THEN control ELSE list[m]
  BY DEF IterationTypeOK, Update
<1>3. \A m \in Lists : Len(list'[m].elements) <= list'[m].capacity
  BY <1>2 DEF IterationTypeOK
<1> QED BY <1>1, <1>3 DEF IterationTypeOK, Top, Loop

LEMMA PanicTypes ==
  ASSUME IterationTypeOK, NEW reason \in Outcomes, Panic(reason)
  PROVE  IterationTypeOK'
BY DEF IterationTypeOK, Panic, Top, Loop

LEMMA AppendTypes ==
  ASSUME ListAssumption, IterationTypeOK, NEW l \in Lists, NEW v \in Values, ListAppend(l, v)
  PROVE  IterationTypeOK'
<1> DEFINE e == Append(list[l].elements, v)
           grown == Capacity(Len(list[l].elements) + 1, list[l].capacity)
           inPlace == [list[l] EXCEPT !.elements = e]
           larger == [list[l] EXCEPT !.elements = e, !.capacity = grown]
<1>1. list[l] \in Control /\ Len(list[l].elements) <= list[l].capacity
  BY DEF IterationTypeOK
<1>2. list[l].elements \in Seq(Values) /\ list[l].capacity \in Nat
  BY <1>1 DEF Control
<1>3. /\ e \in Seq(Values) /\ Len(e) = Len(list[l].elements) + 1
      /\ Len(list[l].elements) + 1 \in Nat
  BY <1>2
<1>4. grown \in Nat /\ (grown # 0 => Len(e) <= grown)
  BY <1>2, <1>3, CapacitySuffices
<1>5. \/ Panic("locked") \/ Panic("exhausted")
      \/ Len(list[l].elements) + 1 <= list[l].capacity /\ Update(l, inPlace)
      \/ grown # 0 /\ Update(l, larger)
  BY DEF ListAppend
<1> HIDE DEF e, grown
<1>6. /\ inPlace \in Control /\ inPlace.elements = e /\ inPlace.capacity = list[l].capacity
      /\ larger \in Control /\ larger.elements = e /\ larger.capacity = grown
  BY <1>1, <1>3, <1>4 DEF Control
<1> HIDE DEF inPlace, larger
<1>7. CASE Panic("locked") \/ Panic("exhausted")
  BY <1>7, PanicTypes DEF Outcomes
<1>8. CASE Len(list[l].elements) + 1 <= list[l].capacity /\ Update(l, inPlace)
  BY <1>3, <1>6, <1>8, UpdatedTypes
<1>9. CASE grown # 0 /\ Update(l, larger)
  BY <1>4, <1>6, <1>9, UpdatedTypes
<1> QED BY <1>5, <1>7, <1>8, <1>9

LEMMA RemoveTypes ==
  ASSUME ListAssumption, IterationTypeOK, NEW l \in Lists, NEW index \in Indices,
         ListRemoveIndex(l, index)
  PROVE  IterationTypeOK'
<1> DEFINE s == list[l].elements
           e == Without(s, PositionOf(s, index))
           smaller == [list[l] EXCEPT !.elements = e]
<1>1. list[l] \in Control /\ Len(s) <= list[l].capacity
  BY DEF IterationTypeOK
<1>2. s \in Seq(Values) /\ list[l].capacity \in Nat /\ index \in Int
  BY <1>1 DEF Control, ListAssumption
<1>3. \/ Panic("locked") \/ Panic("range")
      \/ InRange(s, index) /\ Update(l, smaller)
  BY DEF ListRemoveIndex
<1> HIDE DEF s
<1>4. CASE InRange(s, index) /\ Update(l, smaller)
  <2>1. Len(s) \in Nat /\ Len(s) > 0 /\ PositionOf(s, index) \in Int
    BY <1>2, <1>4 DEF InRange, PositionOf
  <2>2. \A i \in 1 .. Len(s) - 1 : s[i] \in Values /\ s[i + 1] \in Values
    BY <1>2, <2>1
  <2>3. e \in Seq(Values) /\ Len(e) = Len(s) - 1
    BY <2>1, <2>2 DEF Without
  <2> HIDE DEF e
  <2>4. smaller \in Control /\ smaller.elements = e /\ smaller.capacity = list[l].capacity
    BY <1>1, <2>3 DEF Control
  <2>5. Len(smaller.elements) <= smaller.capacity
    BY <1>1, <1>2, <2>1, <2>3, <2>4
  <2> HIDE DEF smaller
  <2> QED BY <1>4, <2>4, <2>5, UpdatedTypes
<1>5. CASE Panic("locked") \/ Panic("range")
  BY <1>5, PanicTypes DEF Outcomes
<1> QED BY <1>3, <1>4, <1>5

LEMMA StoreTypes ==
  ASSUME ListAssumption, IterationTypeOK, NEW l \in Lists, NEW index \in Indices,
         NEW v \in Values, ListStore(l, index, v)
  PROVE  IterationTypeOK'
<1> DEFINE s == list[l].elements
           e == [s EXCEPT ![PositionOf(s, index) + 1] = v]
           stored == [list[l] EXCEPT !.elements = e]
<1>1. list[l] \in Control /\ Len(s) <= list[l].capacity
  BY DEF IterationTypeOK
<1>2. s \in Seq(Values)
  BY <1>1 DEF Control
<1>3. Panic("range") \/ (InRange(s, index) /\ Update(l, stored))
  BY DEF ListStore
<1> HIDE DEF s
<1>4. CASE InRange(s, index) /\ Update(l, stored)
  <2>1. Len(s) \in Nat /\ index \in Int /\ - Len(s) <= index /\ index < Len(s)
    BY <1>2, <1>4 DEF InRange, ListAssumption
  <2>2. PICK n \in 1 .. Len(s) : n = PositionOf(s, index) + 1
    BY <2>1 DEF PositionOf
  <2>3. e \in Seq(Values) /\ Len(e) = Len(s)
    BY <1>2, <2>2, ExceptSeq
  <2> HIDE DEF e
  <2>4. stored \in Control /\ stored.elements = e /\ stored.capacity = list[l].capacity
    BY <1>1, <2>3 DEF Control
  <2> HIDE DEF stored
  <2> QED BY <1>1, <1>4, <2>3, <2>4, UpdatedTypes
<1>5. CASE Panic("range")
  BY <1>5, PanicTypes DEF Outcomes
<1> QED BY <1>3, <1>4, <1>5

\* Loops change nothing but locks, and frames keep their type with the invariant.
LEMMA LockedTypes ==
  ASSUME IterationTypeOK, IterationInv',
         list' = [l \in Lists |-> list'[l]],
         \A l \in Lists : \E n \in Int : list'[l] = [list[l] EXCEPT !.locks = n],
         Top' \in 1 .. MaxFrames, UNCHANGED outcome
  PROVE  IterationTypeOK'
<1>1. frames' \in Seq(Seq(Loop))
  <2>1. Typed'
    BY DEF IterationInv
  <2> QED BY <2>1 DEF Typed, Loop
<1>2. ASSUME NEW l \in Lists
      PROVE  list'[l] \in Control /\ Len(list'[l].elements) <= list'[l].capacity
  <2>1. list[l] \in Control /\ Len(list[l].elements) <= list[l].capacity
    BY DEF IterationTypeOK
  <2> QED BY <2>1 DEF Control
<1> QED BY <1>1, <1>2 DEF IterationTypeOK, Loop

\* Each step keeps the types.
LEMMA NextTypes ==
  ASSUME ListAssumption, IterationInv, IterationTypeOK, [Next]_vars
  PROVE  IterationTypeOK'
<1>1. IterationInv'
  BY NextKeeps
<1>2. /\ frames \in Seq(Seq(Loop)) /\ Len(frames) \in 1 .. MaxFrames /\ MaxFrames \in Nat
      /\ list \in [Lists -> Control]
  BY DEF IterationTypeOK, Top, ListAssumption
<1>3. \A l \in Lists : list[l] = [list[l] EXCEPT !.locks = list[l].locks] /\ list[l].locks \in Int
  BY <1>2 DEF Control
<1>0. \A l \in Lists : list[l].locks \in Int
  BY <1>2 DEF Control
<1>4. \A loops : Len([frames EXCEPT ![Len(frames)] = loops]) = Len(frames)
  BY <1>2
<1>5. CASE UNCHANGED vars
  BY <1>5 DEF vars, IterationTypeOK, Top, Loop
<1>6. ASSUME NEW l \in Lists, EnterFor(l)
      PROVE  IterationTypeOK'
  <2>1. /\ list' = [list EXCEPT ![l].locks = @ + 1] /\ Len(frames') = Len(frames)
        /\ UNCHANGED outcome
    BY <1>4, <1>6 DEF EnterFor, BeginIteration, SetLoops, Top
  <2>2. /\ list' = [k \in Lists |-> list'[k]]
        /\ list'[l] = [list[l] EXCEPT !.locks = list[l].locks + 1]
        /\ \A k \in Lists : k # l => list'[k] = list[k]
    BY <1>2, <2>1
  <2>3. ASSUME NEW k \in Lists
        PROVE  \E n \in Int : list'[k] = [list[k] EXCEPT !.locks = n]
    <3>1. list[l].locks + 1 \in Int
      BY <1>0
    <3>2. CASE k = l
      BY <2>2, <3>1, <3>2
    <3>3. CASE k # l
      BY <1>3, <2>2, <3>3
    <3> QED BY <3>2, <3>3
  <2> QED BY <1>1, <1>2, <2>1, <2>2, <2>3, LockedTypes DEF Top
<1>7. ASSUME UNCHANGED <<list, outcome>>, Len(frames') \in 1 .. MaxFrames
      PROVE  IterationTypeOK'
  <2>1. list' = [k \in Lists |-> list'[k]]
    BY <1>2, <1>7
  <2>2. \A k \in Lists : \E n \in Int : list'[k] = [list[k] EXCEPT !.locks = n]
    BY <1>3, <1>7
  <2> QED BY <1>1, <1>7, <2>1, <2>2, LockedTypes DEF Top
<1>8. ASSUME NEW loops, EndIterations(loops), Len(frames') \in 1 .. MaxFrames,
             \A l : Held(loops, l) \in Nat, UNCHANGED outcome
      PROVE  IterationTypeOK'
  <2>1. list' = [l \in Lists |-> [list[l] EXCEPT !.locks = @ - Held(loops, l)]]
    BY <1>8 DEF EndIterations, Held
  <2>2. list' = [k \in Lists |-> list'[k]]
    BY <2>1
  <2>3. ASSUME NEW k \in Lists
        PROVE  \E n \in Int : list'[k] = [list[k] EXCEPT !.locks = n]
    <3>1. list[k].locks - Held(loops, k) \in Int
      BY <1>0, <1>8
    <3> QED BY <2>1, <3>1
  <2> QED BY <1>1, <1>8, <2>2, <2>3, LockedTypes DEF Top
<1>9. CASE EnterWhile \/ NextElement \/ Continue
  BY <1>2, <1>4, <1>7, <1>9 DEF EnterWhile, NextElement, Continue, SetLoops, Top
<1>10. CASE Call
  BY <1>2, <1>7, <1>10 DEF Call, Top
<1>11. CASE Leave
  <2>1. /\ EndIterations(<<Inner>>) /\ Len(frames') \in 1 .. MaxFrames /\ UNCHANGED outcome
    BY <1>2, <1>4, <1>11 DEF Leave, SetLoops, Top
  <2>2. \A l : Held(<<Inner>>, l) \in Nat
    <3> SUFFICES ASSUME NEW l PROVE Held(<<Inner>>, l) \in Nat
      OBVIOUS
    <3>1. Held(<<Inner>>, l) = IF Inner.over = l THEN 1 ELSE 0
      BY HeldByOne
    <3> QED BY <3>1
  <2> QED BY <1>8, <2>1, <2>2
<1>12. CASE Return
  <2>1. EndIterations(Loops) /\ Len(frames') \in 1 .. MaxFrames /\ UNCHANGED outcome
    BY <1>2, <1>12 DEF Return, Top
  <2>2. Loops \in Seq(Loop)
    BY <1>2 DEF Loops, Top
  <2> QED BY <1>8, <2>1, <2>2, HeldCounts
<1>13. ASSUME NEW l \in Lists, NEW v \in Values, ListAppend(l, v)
       PROVE  IterationTypeOK'
  BY <1>13, AppendTypes
<1>14. ASSUME NEW l \in Lists, NEW i \in Indices, ListRemoveIndex(l, i)
       PROVE  IterationTypeOK'
  BY <1>14, RemoveTypes
<1>15. ASSUME NEW l \in Lists, NEW i \in Indices, NEW v \in Values, ListStore(l, i, v)
       PROVE  IterationTypeOK'
  BY <1>15, StoreTypes
<1> QED BY <1>5, <1>6, <1>9, <1>10, <1>11, <1>12, <1>13, <1>14, <1>15 DEF Next

LEMMA InitTypes ==
  ASSUME ListAssumption, Init
  PROVE  IterationTypeOK
<1>1. ASSUME NEW l \in Lists
      PROVE  list[l] \in Control /\ Len(list[l].elements) <= list[l].capacity
  <2>1. PICK e \in Constructible :
          list[l] = [elements |-> e, locks |-> 0,
                     capacity |-> IF e = <<>> THEN 0 ELSE Capacity(Len(e), 0)]
    BY DEF Init
  <2>2. e \in Seq(Values) /\ Len(e) \in Nat /\ (e # <<>> => Capacity(Len(e), 0) # 0)
    BY DEF ListAssumption, Constructible
  <2>3. Capacity(Len(e), 0) \in Nat /\ (e # <<>> => Len(e) <= Capacity(Len(e), 0))
    BY <2>2, CapacitySuffices
  <2> QED BY <2>1, <2>2, <2>3 DEF Control
<1>2. list \in [Lists -> Control]
  BY <1>1 DEF Init
<1>3. frames \in Seq(Seq(Loop)) /\ Top \in 1 .. MaxFrames /\ outcome \in Outcomes
  BY DEF Init, Top, ListAssumption, Outcomes
<1> QED BY <1>1, <1>2, <1>3 DEF IterationTypeOK

\* The inductive invariant: the types, exact locks and current snapshots.
THEOREM IterationInvariant ==
  ASSUME ListAssumption
  PROVE  Spec => []IterationInv
<1>1. Init => IterationInv
  BY InitEstablishes
<1>2. IterationInv /\ [Next]_vars => IterationInv'
  BY NextKeeps
<1>3. QED BY <1>1, <1>2, PTL DEF Spec

\* Every lock is that of a loop some function is still in, whatever ways the
\* loops and functions before were left (lowering.rs emit_active_cleanups).
THEOREM LocksAreExact ==
  ASSUME ListAssumption
  PROVE  Spec => []LocksExact
<1>1. IterationInv => LocksExact
  BY DEF IterationInv
<1>2. QED BY <1>1, IterationInvariant, PTL

\* No alias and no callee changes the length a loop goes by, and the element a
\* body starts with exists (c_backend.rs sao2_list_iteration_value).
THEOREM SnapshotsStayCurrent ==
  ASSUME ListAssumption
  PROVE  Spec => []SnapshotCurrent
<1>1. IterationInv => SnapshotCurrent
  BY DEF IterationInv
<1>2. QED BY <1>1, IterationInvariant, PTL

\* Lists and loops keep their types, a list's elements fit the capacity that
\* sao2_list_control asserts, and no call exceeds the bound.
THEOREM IterationTypes ==
  ASSUME ListAssumption
  PROVE  Spec => []IterationTypeOK
<1>1. Init => IterationTypeOK
  BY InitTypes
<1>2. IterationInv /\ IterationTypeOK /\ [Next]_vars => IterationTypeOK'
  BY NextTypes
<1>3. QED BY <1>1, <1>2, IterationInvariant, PTL DEF Spec
=============================================================================
