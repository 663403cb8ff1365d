------------------------- MODULE OrderedMapProofs -------------------------
(***************************************************************************)
(* The managed ordered map implements an ordered map, for any keys, values *)
(* and hash function, any lists of entries in map expressions and any      *)
(* limit on the capacities.                                                *)
(*                                                                         *)
(* The argument is about tables: Indexed says that a table leads to the    *)
(* first n of a list of items and to nothing else.  An index placed in     *)
(* such a table leaves one more item indexed, so a rebuilt table indexes   *)
(* every item; a lookup in such a table finds the item or its absence.     *)
(* Every operation rests on these three facts.                             *)
(***************************************************************************)
EXTENDS OrderedMap, FiniteSetTheorems, SequenceTheorems,
  WellFoundedInduction, TLAPS

-----------------------------------------------------------------------------
(* Numbers. *)

\* Every nonempty set of naturals has a least element.
LEMMA LeastNat ==
  ASSUME NEW T \in SUBSET Nat, T # {}
  PROVE  \E x \in T : \A y \in T : x <= y
<1> DEFINE R == OpToRel(<, Nat)
<1>1. IsWellFoundedOn(R, Nat)
  BY NatLessThanWellFounded
<1>2. \A a, b \in Nat : a < b => <<a, b>> \in R
  BY DEF OpToRel
<1> HIDE DEF R
<1>3. PICK x \in T : \A y \in T : ~ (<<y, x>> \in R)
  BY <1>1, WFMin
<1>4. \A y \in T : ~ (y < x)
  BY <1>2, <1>3
<1> QED BY <1>3, <1>4

\* A set of naturals that holds 0 and the successor of each of its elements
\* holds every natural.
LEMMA SetInduction ==
  ASSUME NEW P \in SUBSET Nat, 0 \in P, \A n \in P : n + 1 \in P
  PROVE  P = Nat
<1> SUFFICES ASSUME Nat \ P # {} PROVE FALSE
  OBVIOUS
<1>1. PICK x \in Nat \ P : \A y \in Nat \ P : x <= y
  BY LeastNat
<1>2. x # 0 /\ x - 1 \in Nat /\ x - 1 \in P
  BY <1>1
<1> QED BY <1>1, <1>2

\* A function can be defined by recursion on the naturals up to N.
LEMMA Recursion ==
  ASSUME NEW S, NEW a \in S, NEW N \in Nat, NEW step \in [1 .. N -> [S -> S]]
  PROVE  \E f \in [0 .. N -> S] :
           f[0] = a /\ \A i \in 1 .. N : f[i] = step[i][f[i - 1]]
<1> DEFINE good(f, n) == f[0] = a /\ \A i \in 1 .. n : f[i] = step[i][f[i - 1]]
           P == {n \in Nat : n <= N => \E f \in [0 .. n -> S] : good(f, n)}
<1>1. 0 \in P
  <2>1. good([i \in 0 .. 0 |-> a], 0) /\ [i \in 0 .. 0 |-> a] \in [0 .. 0 -> S]
    OBVIOUS
  <2> QED BY <2>1
<1>2. ASSUME NEW n \in P, n + 1 <= N
      PROVE  \E f \in [0 .. n + 1 -> S] : good(f, n + 1)
  <2>1. PICK f \in [0 .. n -> S] : good(f, n)
    BY <1>2
  <2> DEFINE b == step[n + 1][f[n]]
             g == [i \in 0 .. n + 1 |-> IF i = n + 1 THEN b ELSE f[i]]
  <2>2. b \in S
    <3>1. step[n + 1] \in [S -> S] /\ f[n] \in S
      BY <1>2, <2>1
    <3> QED BY <3>1
  <2>3. g \in [0 .. n + 1 -> S]
    BY <2>1, <2>2
  <2> HIDE DEF b
  <2>4. good(g, n + 1)
    BY <2>1 DEF b
  <2> QED BY <2>3, <2>4
<1>3. \A n \in P : n + 1 \in P
  <2> SUFFICES ASSUME NEW n \in P PROVE n + 1 \in P
    OBVIOUS
  <2>1. n + 1 \in Nat
    OBVIOUS
  <2>2. n + 1 <= N => \E f \in [0 .. n + 1 -> S] : good(f, n + 1)
    BY <1>2
  <2> HIDE DEF good
  <2> QED BY <2>1, <2>2
<1> HIDE DEF P
<1>4. P = Nat
  BY <1>1, <1>3, SetInduction DEF P
<1> QED BY <1>4 DEF P

\* Division with remainder.
LEMMA Remainder ==
  ASSUME NEW c \in Nat \ {0}, NEW a \in Nat
  PROVE  /\ a % c \in 0 .. c - 1 /\ a \div c \in Nat
         /\ a = (c * (a \div c)) + (a % c)
OBVIOUS

\* The remainder of a multiple of c and a little is that little.
LEMMA RemainderOfSum ==
  ASSUME NEW c \in Nat \ {0}, NEW q \in Nat, NEW r \in 0 .. c - 1
  PROVE  ((c * q) + r) % c = r
OBVIOUS

\* Beyond the end of the table counting starts anew.
LEMMA RemainderWraps ==
  ASSUME NEW c \in Nat \ {0}, NEW h \in Nat, NEW s \in 0 .. c - 1
  PROVE  (h + s) % c = IF (h % c) + s < c THEN (h % c) + s ELSE ((h % c) + s) - c
<1>1. h = (c * (h \div c)) + (h % c) /\ h \div c \in Nat /\ h % c \in 0 .. c - 1
  BY Remainder
<1>2. CASE (h % c) + s < c
  <2> DEFINE r == (h % c) + s
             q == h \div c
  <2>1. r \in 0 .. c - 1 /\ q \in Nat /\ h + s = (c * q) + r
    BY <1>1, <1>2
  <2> HIDE DEF r, q
  <2>2. ((c * q) + r) % c = r
    BY <2>1, RemainderOfSum
  <2> QED BY <1>2, <2>1, <2>2 DEF r
<1>3. CASE ~((h % c) + s < c)
  <2> DEFINE r == ((h % c) + s) - c
             q == (h \div c) + 1
  <2>1. r \in 0 .. c - 1 /\ q \in Nat /\ h + s = (c * q) + r
    BY <1>1, <1>3
  <2> HIDE DEF r, q
  <2>2. ((c * q) + r) % c = r
    BY <2>1, RemainderOfSum
  <2> QED BY <1>3, <2>1, <2>2 DEF r
<1> QED BY <1>2, <1>3

-----------------------------------------------------------------------------
(* Probing. *)

\* A probe stays in the table.
LEMMA ProbeStays ==
  ASSUME NEW c \in Nat \ {0}, NEW k \in Keys, NEW s \in Nat
  PROVE  Position(k, s, c) \in 0 .. c - 1
<1>1. Hash[k] + s \in Nat
  BY HashAssumption
<1> QED BY <1>1, Remainder DEF Position

\* As many probes as the table has slots reach every slot.
LEMMA ProbesReach ==
  ASSUME NEW c \in Nat \ {0}, NEW k \in Keys, NEW p \in 0 .. c - 1
  PROVE  \E s \in 0 .. c - 1 : Position(k, s, c) = p
<1> DEFINE home == Hash[k] % c
           s == IF home <= p THEN p - home ELSE (p - home) + c
<1>1. Hash[k] \in Nat /\ home \in 0 .. c - 1
  BY HashAssumption, Remainder
<1>2. s \in 0 .. c - 1
  BY <1>1
<1>3. (Hash[k] + s) % c = IF home + s < c THEN home + s ELSE (home + s) - c
  BY <1>1, <1>2, RemainderWraps
<1> HIDE DEF home
<1>4. (Hash[k] + s) % c = p
  BY <1>1, <1>2, <1>3
<1> QED BY <1>2, <1>4 DEF Position

\* A table leads to the first n items, and to nothing else: the parts of
\* SlotsIndexEntries that are about slots, for any table and any items.
Indexed(table, c, items, n) ==
  /\ table \in [0 .. c - 1 -> 0 .. n]
  /\ \A p, q \in 0 .. c - 1 : table[p] # 0 /\ table[p] = table[q] => p = q
  /\ \A m \in 1 .. n : \E s \in 0 .. c - 1 :
       /\ table[Position(items[m].key, s, c)] = m
       /\ \A t \in 0 .. s - 1 : table[Position(items[m].key, t, c)] # 0

\* A table of more slots than items has an empty one.
LEMMA EmptySlotLeft ==
  ASSUME NEW c \in Nat \ {0}, NEW n \in Nat, n < c,
         NEW table \in [0 .. c - 1 -> 0 .. n],
         \A p, q \in 0 .. c - 1 : table[p] # 0 /\ table[p] = table[q] => p = q
  PROVE  \E p \in 0 .. c - 1 : table[p] = 0
<1> SUFFICES ASSUME \A p \in 0 .. c - 1 : table[p] # 0
             PROVE  FALSE
  OBVIOUS
<1>1. table \in [0 .. c - 1 -> 1 .. n]
  OBVIOUS
<1>2. /\ IsFiniteSet(0 .. c - 1) /\ Cardinality(0 .. c - 1) = c
      /\ IsFiniteSet(1 .. n) /\ Cardinality(1 .. n) = n
  BY FS_Interval
<1>3. PICK p, q \in 0 .. c - 1 : p # q /\ table[p] = table[q]
  <2> DEFINE S == 0 .. c - 1
             T == 1 .. n
  <2>1. IsFiniteSet(S) /\ IsFiniteSet(T) /\ Cardinality(T) < Cardinality(S)
    BY <1>2
  <2>2. table \in [S -> T]
    BY <1>1
  <2> HIDE DEF S, T
  <2>3. \E p, q \in S : p # q /\ table[p] = table[q]
    BY <2>1, <2>2, FS_PigeonHole
  <2> QED BY <2>3 DEF S
<1> QED BY <1>3

\* What some probe meets, some probe meets first.
LEMMA FirstProbe ==
  ASSUME NEW c \in Nat, NEW Q \in SUBSET (0 .. c - 1), Q # {}
  PROVE  \E s \in Q : \A t \in 0 .. s - 1 : t \notin Q
<1>1. PICK s \in Q : \A t \in Q : s <= t
  BY LeastNat
<1> QED BY <1>1

\* A further item is placed where lookups will find it, and the others stay
\* where they were (sao2_map_insert and the loop of sao2_map_rebuild_slots).
LEMMA PlaceIndexes ==
  ASSUME NEW c \in Nat, NEW n \in Nat, n < c, NEW items,
         NEW table, Indexed(table, c, items, n),
         \A m \in 1 .. n + 1 : items[m].key \in Keys
  PROVE  Indexed(Place(table, c, items[n + 1].key, n + 1), c, items, n + 1)
<1> DEFINE k == items[n + 1].key
           at(s) == Position(k, s, c)
           Q == {s \in 0 .. c - 1 : table[at(s)] = 0}
           step == CHOOSE s \in 0 .. c - 1 :
                     table[at(s)] = 0 /\ \A t \in 0 .. s - 1 : table[at(t)] # 0
           new == [table EXCEPT ![at(step)] = n + 1]
<1>1. k \in Keys /\ c \in Nat \ {0}
  OBVIOUS
<1>2. PICK p \in 0 .. c - 1 : table[p] = 0
  <2>1. /\ table \in [0 .. c - 1 -> 0 .. n]
        /\ \A p, q \in 0 .. c - 1 : table[p] # 0 /\ table[p] = table[q] => p = q
    BY DEF Indexed
  <2> QED BY ONLY <1>1, <2>1, n \in Nat, n < c, EmptySlotLeft
<1>3. Q # {}
  <2>1. PICK s \in 0 .. c - 1 : at(s) = p
    BY <1>1, ProbesReach
  <2> QED BY <1>2, <2>1
<1>4. \E s \in 0 .. c - 1 : table[at(s)] = 0 /\ \A t \in 0 .. s - 1 : table[at(t)] # 0
  <2>1. PICK s \in Q : \A t \in 0 .. s - 1 : t \notin Q
    BY <1>3, FirstProbe
  <2> QED BY <2>1
<1>5. /\ step \in 0 .. c - 1 /\ table[at(step)] = 0
      /\ \A t \in 0 .. step - 1 : table[at(t)] # 0
  BY <1>4
<1>6. \A m \in 1 .. n + 1, s \in 0 .. c - 1 : Position(items[m].key, s, c) \in 0 .. c - 1
  BY <1>1, ProbeStays
<1>7. at(step) \in 0 .. c - 1
  BY <1>5, <1>6
<1> HIDE DEF step
<1>8. new \in [0 .. c - 1 -> 0 .. n + 1]
  BY <1>7 DEF Indexed
<1>9. \A p1, p2 \in 0 .. c - 1 : new[p1] # 0 /\ new[p1] = new[p2] => p1 = p2
  BY <1>7 DEF Indexed
<1>10. ASSUME NEW m \in 1 .. n + 1
       PROVE  \E s \in 0 .. c - 1 :
                /\ new[Position(items[m].key, s, c)] = m
                /\ \A t \in 0 .. s - 1 : new[Position(items[m].key, t, c)] # 0
  <2>1. CASE m = n + 1
    <3>1. new[at(step)] = n + 1
      BY <1>7 DEF Indexed
    <3>2. \A t \in 0 .. step - 1 : at(t) \in 0 .. c - 1
      BY <1>1, <1>5, ProbeStays
    <3>3. \A p2 \in 0 .. c - 1 : table[p2] # 0 => new[p2] # 0
      BY <1>5, <1>7 DEF Indexed
    <3>4. \A t \in 0 .. step - 1 : new[at(t)] # 0
      BY <1>5, <3>2, <3>3
    <3> QED BY <1>5, <2>1, <3>1, <3>4
  <2>2. CASE m \in 1 .. n
    <3>1. PICK s \in 0 .. c - 1 :
            /\ table[Position(items[m].key, s, c)] = m
            /\ \A t \in 0 .. s - 1 : table[Position(items[m].key, t, c)] # 0
      BY <2>2 DEF Indexed
    <3>2. \A t \in 0 .. s : Position(items[m].key, t, c) \in 0 .. c - 1
      BY <1>6
    <3>3. \A p2 \in 0 .. c - 1 : table[p2] # 0 => new[p2] = table[p2]
      BY <1>5, <1>7 DEF Indexed
    <3>4. new[Position(items[m].key, s, c)] = m
      BY <2>2, <3>1, <3>2, <3>3
    <3>5. \A t \in 0 .. s - 1 : new[Position(items[m].key, t, c)] # 0
      BY <3>1, <3>2, <3>3
    <3> QED BY <3>4, <3>5
  <2> QED BY <2>1, <2>2
<1>11. Indexed(new, c, items, n + 1)
  BY <1>8, <1>9, <1>10 DEF Indexed
<1>12. new = Place(table, c, k, n + 1)
  BY DEF Place, step
<1> QED BY <1>11, <1>12

-----------------------------------------------------------------------------
(* Tables built item by item. *)

Tables(c) == [0 .. c - 1 -> Nat]

\* The tables RebuildSlots goes through: one for each number of items placed.
LEMMA TablesExist ==
  ASSUME NEW c \in Nat, NEW items \in Seq(Entry)
  PROVE  \E placed \in [0 .. Len(items) -> Tables(c)] :
           /\ placed[0] = [p \in 0 .. c - 1 |-> 0]
           /\ \A n \in 1 .. Len(items) :
                placed[n] = Place(placed[n - 1], c, items[n].key, n)
           /\ RebuildSlots(items, c) = placed[Len(items)]
<1> DEFINE N == Len(items)
           S == Tables(c)
           none == [p \in 0 .. c - 1 |-> 0]
           step == [n \in 1 .. N |-> [table \in S |-> Place(table, c, items[n].key, n)]]
           build(f) == [n \in 0 .. N |->
                         IF n = 0 THEN none ELSE Place(f[n - 1], c, items[n].key, n)]
           placed == CHOOSE f : f = build(f)
<1>1. none \in S /\ N \in Nat
  BY DEF Tables
<1>2. step \in [1 .. N -> [S -> S]]
  <2>1. ASSUME NEW table \in S, NEW n \in 1 .. N
        PROVE  Place(table, c, items[n].key, n) \in S
    <3> DEFINE p == Position(items[n].key, CHOOSE s \in 0 .. c - 1 :
                        /\ table[Position(items[n].key, s, c)] = 0
                        /\ \A t \in 0 .. s - 1 : table[Position(items[n].key, t, c)] # 0, c)
    <3>1. Place(table, c, items[n].key, n) = [table EXCEPT ![p] = n]
      BY DEF Place
    <3>2. n \in Nat /\ table \in [0 .. c - 1 -> Nat]
      BY <1>1 DEF Tables
    <3> HIDE DEF p
    <3>3. [table EXCEPT ![p] = n] \in [0 .. c - 1 -> Nat]
      BY ONLY <3>2
    <3> QED BY <3>1, <3>3 DEF Tables
  <2> QED BY <2>1
<1> HIDE DEF S, none, step, N, build, placed
<1>3. PICK f \in [0 .. N -> S] :
        f[0] = none /\ \A n \in 1 .. N : f[n] = step[n][f[n - 1]]
  BY <1>1, <1>2, Recursion
<1> USE DEF N, build, placed
<1>4. \A n \in 1 .. N : step[n][f[n - 1]] = Place(f[n - 1], c, items[n].key, n)
  BY <1>3 DEF step
<1>5. f = build(f)
  BY <1>3, <1>4
<1>6. placed = build(placed)
  BY <1>5
<1>7. RebuildSlots(items, c) = placed[N]
  BY DEF RebuildSlots, none
<1> HIDE DEF placed
<1>8. /\ placed[0] = none
      /\ \A n \in 1 .. N : placed[n] = Place(placed[n - 1], c, items[n].key, n)
  BY <1>6
<1> DEFINE P == {n \in Nat : n <= N => placed[n] = f[n]}
<1>9. 0 \in P /\ \A n \in P : n + 1 \in P
  <2>1. 0 \in P
    BY <1>3, <1>8
  <2>2. ASSUME NEW n \in P, n + 1 <= N
        PROVE  placed[n + 1] = f[n + 1]
    <3>1. n + 1 \in 1 .. N /\ (n + 1) - 1 = n /\ placed[n] = f[n]
      BY <1>1, <2>2
    <3> QED BY <1>3, <1>4, <1>8, <3>1
  <2> QED BY <2>1, <2>2
<1> HIDE DEF P
<1>10. P = Nat
  BY <1>9, SetInduction DEF P
<1>11. placed \in [0 .. N -> S]
  <2>1. \A n \in 0 .. N : placed[n] \in S
    BY <1>3, <1>10 DEF P
  <2>2. placed = [n \in 0 .. N |-> placed[n]]
    BY <1>6
  <2> QED BY <2>1, <2>2
<1> QED BY <1>7, <1>8, <1>11 DEF S, none

\* A rebuilt table indexes every item (sao2_map_rebuild_slots).
LEMMA RebuildIndexes ==
  ASSUME NEW c \in Nat, NEW items \in Seq(Entry), Len(items) = 0 \/ Len(items) < c
  PROVE  Indexed(RebuildSlots(items, c), c, items, Len(items))
<1> DEFINE N == Len(items)
<1>1. PICK placed \in [0 .. N -> Tables(c)] :
        /\ placed[0] = [p \in 0 .. c - 1 |-> 0]
        /\ \A n \in 1 .. N : placed[n] = Place(placed[n - 1], c, items[n].key, n)
        /\ RebuildSlots(items, c) = placed[N]
  BY TablesExist
<1> DEFINE P == {n \in Nat : n <= N => Indexed(placed[n], c, items, n)}
<1>2. 0 \in P
  BY <1>1 DEF Indexed
<1>3. ASSUME NEW n \in P, n + 1 <= N
      PROVE  Indexed(placed[n + 1], c, items, n + 1)
  <2>1. n \in Nat /\ n < c /\ Indexed(placed[n], c, items, n)
    BY <1>3
  <2>2. \A m \in 1 .. n + 1 : items[m].key \in Keys
    <3>1. \A m \in 1 .. n + 1 : items[m] \in Entry
      BY <1>3, <2>1
    <3> QED BY <3>1 DEF Entry
  <2>3. Indexed(Place(placed[n], c, items[n + 1].key, n + 1), c, items, n + 1)
    BY ONLY <2>1, <2>2, c \in Nat, PlaceIndexes
  <2> QED BY <1>1, <1>3, <2>3
<1>4. \A n \in P : n + 1 \in P
  BY <1>3
<1> HIDE DEF P
<1>5. P = Nat
  BY <1>2, <1>4, SetInduction DEF P
<1> QED BY <1>1, <1>5 DEF P

-----------------------------------------------------------------------------
(* The invariant, and what a lookup finds. *)

DistinctKeys(items) ==
  \A i, j \in DOMAIN items : items[i].key = items[j].key => i = j

MapInv == MapTypeOK /\ MapControlValid /\ SlotsIndexEntries

\* SlotsIndexEntries in terms of tables.
LEMMA SlotsAreIndexed ==
  ASSUME MapTypeOK, length = Len(entries)
  PROVE  SlotsIndexEntries <=> /\ Indexed(slots, slotCapacity, entries, length)
                               /\ DistinctKeys(entries)
<1>1. /\ DOMAIN slots = 0 .. slotCapacity - 1 /\ DOMAIN entries = 1 .. length
      /\ slots \in [0 .. slotCapacity - 1 -> Nat]
  BY DEF MapTypeOK
<1>2. (\A p \in DOMAIN slots : slots[p] \in 0 .. length)
        <=> slots \in [0 .. slotCapacity - 1 -> 0 .. length]
  BY <1>1
<1> QED BY <1>1, <1>2 DEF SlotsIndexEntries, Indexed, DistinctKeys

\* A lookup finds the entry of the key, or that there is none
\* (sao2_map_find).
LEMMA Lookup ==
  ASSUME MapInv, NEW k \in Keys
  PROVE  /\ Found(k) => /\ ProbedSlot(k) \in 1 .. length
                        /\ entries[ProbedSlot(k)].key = k
         /\ ~Found(k) => \A n \in 1 .. length : entries[n].key # k
<1> DEFINE c == slotCapacity
           at(s) == Position(k, s, c)
           Q == {s \in 0 .. c - 1 : StopsAt(k, s)}
           first == CHOOSE s \in 0 .. c - 1 :
                      StopsAt(k, s) /\ \A t \in 0 .. s - 1 : ~StopsAt(k, t)
<1> SUFFICES ASSUME length # 0
             PROVE  \/ /\ ProbedSlot(k) \in 1 .. length
                       /\ entries[ProbedSlot(k)].key = k
                    \/ /\ ProbedSlot(k) = 0
                       /\ \A n \in 1 .. length : entries[n].key # k
  BY DEF Found, MapInv, MapTypeOK
<1>1. /\ c \in Nat \ {0} /\ length \in Nat /\ length < c
      /\ Indexed(slots, c, entries, length)
  BY SlotsAreIndexed DEF MapInv, MapTypeOK, MapControlValid
<1>2. Q # {}
  <2>1. PICK p \in 0 .. c - 1 : slots[p] = 0
    <3>1. /\ slots \in [0 .. c - 1 -> 0 .. length]
          /\ \A p, q \in 0 .. c - 1 : slots[p] # 0 /\ slots[p] = slots[q] => p = q
      BY <1>1 DEF Indexed
    <3> HIDE DEF c
    <3> QED BY ONLY <1>1, <3>1, EmptySlotLeft
  <2>2. PICK s \in 0 .. c - 1 : at(s) = p
    BY <1>1, ProbesReach
  <2> QED BY <2>1, <2>2 DEF StopsAt
<1>3. /\ first \in 0 .. c - 1 /\ StopsAt(k, first)
      /\ \A t \in 0 .. first - 1 : ~StopsAt(k, t)
  <2>1. PICK s \in Q : \A t \in 0 .. s - 1 : t \notin Q
    <3> HIDE DEF Q
    <3>1. Q \in SUBSET (0 .. c - 1) /\ c \in Nat
      BY <1>1 DEF Q
    <3> QED BY <1>2, <3>1, FirstProbe
  <2>2. \A t \in 0 .. s - 1 : ~StopsAt(k, t)
    BY <1>1, <2>1
  <2> QED BY <2>1, <2>2
<1>4. ProbedSlot(k) = slots[at(first)]
  BY DEF ProbedSlot
<1> HIDE DEF first
<1>5. at(first) \in 0 .. c - 1 /\ slots[at(first)] \in 0 .. length
  <2>1. at(first) \in 0 .. c - 1
    <3>1. first \in Nat
      BY <1>1, <1>3
    <3> HIDE DEF c
    <3> QED BY ONLY <1>1, <3>1, k \in Keys, ProbeStays
  <2> QED BY <1>1, <2>1 DEF Indexed
<1>6. CASE slots[at(first)] # 0
  BY <1>3, <1>4, <1>5, <1>6 DEF StopsAt
<1>7. CASE slots[at(first)] = 0
  <2>1. ASSUME NEW n \in 1 .. length, entries[n].key = k
        PROVE  FALSE
    <3>1. PICK s \in 0 .. c - 1 : slots[at(s)] = n /\ \A t \in 0 .. s - 1 : slots[at(t)] # 0
      BY <1>1, <2>1 DEF Indexed
    <3>2. StopsAt(k, s)
      BY <2>1, <3>1 DEF StopsAt
    <3>3. first <= s
      BY <1>1, <1>3, <3>2
    <3>4. first # s
      BY <1>7, <3>1
    <3> QED BY <1>1, <1>3, <1>7, <3>1, <3>3, <3>4
  <2> QED BY <1>4, <1>7, <2>1
<1> QED BY <1>6, <1>7

-----------------------------------------------------------------------------
(* The entries of a map expression. *)

\* What one more listed entry does to those already taken.
Taking(before, item) ==
  LET again == {i \in DOMAIN before : before[i].key = item.key}
  IN  IF again = {} THEN Append(before, item)
      ELSE [i \in DOMAIN before |-> IF i \in again THEN item ELSE before[i]]

LEMMA TakenExist ==
  ASSUME NEW listed \in Seq(Entry)
  PROVE  \E taken \in [0 .. Len(listed) -> Seq(Entry)] :
           /\ taken[0] = <<>>
           /\ \A n \in 1 .. Len(listed) : taken[n] = Taking(taken[n - 1], listed[n])
           /\ Unique(listed) = taken[Len(listed)]
<1> DEFINE N == Len(listed)
           S == Seq(Entry)
           step == [n \in 1 .. N |-> [before \in S |-> Taking(before, listed[n])]]
           none == <<>>
           build(f) == [n \in 0 .. N |->
                         IF n = 0 THEN <<>> ELSE Taking(f[n - 1], listed[n])]
           taken == CHOOSE f : f = build(f)
<1>1. none \in S /\ N \in Nat
  OBVIOUS
<1>2. step \in [1 .. N -> [S -> S]]
  <2>1. ASSUME NEW before \in S, NEW n \in 1 .. N
        PROVE  Taking(before, listed[n]) \in S
    <3>1. listed[n] \in Entry
      OBVIOUS
    <3> QED BY <3>1 DEF Taking
  <2> QED BY <2>1
<1> HIDE DEF S, none, step, N, build, taken
<1>3. PICK f \in [0 .. N -> S] :
        f[0] = none /\ \A n \in 1 .. N : f[n] = step[n][f[n - 1]]
  BY <1>1, <1>2, Recursion
<1> USE DEF N, none, build, taken
<1>4. \A n \in 1 .. N : step[n][f[n - 1]] = Taking(f[n - 1], listed[n])
  BY <1>3 DEF step
<1>5. f = build(f)
  BY <1>3, <1>4
<1>6. taken = build(taken)
  BY <1>5
<1>7. Unique(listed) = taken[N]
  BY DEF Unique, Taking
<1> HIDE DEF taken
<1>8. /\ taken[0] = <<>>
      /\ \A n \in 1 .. N : taken[n] = Taking(taken[n - 1], listed[n])
  BY <1>6
<1> DEFINE P == {n \in Nat : n <= N => taken[n] = f[n]}
<1>9. 0 \in P /\ \A n \in P : n + 1 \in P
  <2>1. 0 \in P
    BY <1>3, <1>8
  <2>2. ASSUME NEW n \in P, n + 1 <= N
        PROVE  taken[n + 1] = f[n + 1]
    <3>1. n + 1 \in 1 .. N /\ (n + 1) - 1 = n /\ taken[n] = f[n]
      BY <1>1, <2>2
    <3> QED BY <1>3, <1>4, <1>8, <3>1
  <2> QED BY <2>1, <2>2
<1> HIDE DEF P
<1>10. P = Nat
  BY <1>9, SetInduction DEF P
<1>11. taken \in [0 .. N -> S]
  <2>1. \A n \in 0 .. N : taken[n] \in S
    BY <1>3, <1>10 DEF P
  <2>2. taken = [n \in 0 .. N |-> taken[n]]
    BY <1>6
  <2> QED BY <2>1, <2>2
<1> QED BY <1>7, <1>8, <1>11 DEF S

\* Entry i came first with the item in place first and holds that in place last.
Origin(built, listed, n, i, first, last) ==
  /\ first \in 1 .. n /\ last \in 1 .. n
  /\ listed[first].key = built[i].key /\ listed[last] = built[i]
  /\ \A j \in 1 .. n : listed[j].key = built[i].key => first <= j /\ j <= last
  /\ \A h \in DOMAIN built : h < i =>
       \E j \in 1 .. n : j < first /\ listed[j].key = built[h].key

\* What has been taken of the first n listed entries.
TakenFrom(built, listed, n) ==
  /\ Len(built) <= n
  /\ DistinctKeys(built)
  /\ \A i \in DOMAIN built : \E first, last \in Nat : Origin(built, listed, n, i, first, last)
  /\ \A j \in 1 .. n : \E i \in DOMAIN built : built[i].key = listed[j].key

\* The next listed entry either has a key of its own and comes last, or takes
\* the place of the entry that had its key.
LEMMA TakingOneMore ==
  ASSUME NEW listed \in Seq(Entry), NEW n \in Nat, n + 1 <= Len(listed),
         NEW built \in Seq(Entry), TakenFrom(built, listed, n)
  PROVE  TakenFrom(Taking(built, listed[n + 1]), listed, n + 1)
<1> DEFINE item == listed[n + 1]
           again == {i \in DOMAIN built : built[i].key = item.key}
           new == Taking(built, item)
<1>1. item \in Entry /\ DOMAIN built = 1 .. Len(built) /\ Len(built) \in Nat
  OBVIOUS
<1>2. \A j \in 1 .. n : \E i \in DOMAIN built : built[i].key = listed[j].key
  BY DEF TakenFrom
<1>3. CASE again = {}
  <2>1. new = Append(built, item)
    BY <1>3 DEF Taking
  <2>2. /\ Len(new) = Len(built) + 1 /\ DOMAIN new = 1 .. Len(built) + 1
        /\ \A i \in DOMAIN built : new[i] = built[i]
        /\ new[Len(built) + 1] = item
    BY <1>1, <2>1
  <2>3. \A i \in DOMAIN built : built[i].key # item.key
    BY <1>3
  <2> HIDE DEF new, item, again
  <2>4. Len(new) <= n + 1 /\ DistinctKeys(new)
    <3>1. Len(built) <= n /\ DistinctKeys(built)
      BY DEF TakenFrom
    <3>2. Len(new) <= n + 1
      BY <1>1, <2>2, <3>1
    <3>3. DistinctKeys(new)
      BY <1>1, <2>2, <2>3, <3>1 DEF DistinctKeys
    <3> QED BY <3>2, <3>3
  <2>5. ASSUME NEW i \in DOMAIN new
        PROVE  \E first, last \in Nat : Origin(new, listed, n + 1, i, first, last)
    <3>1. CASE i \in DOMAIN built
      <4>1. PICK first, last \in Nat : Origin(built, listed, n, i, first, last)
        BY <3>1 DEF TakenFrom
      <4>2. \A h \in DOMAIN new : h < i => h \in DOMAIN built
        BY <1>1, <2>2, <3>1
      <4>3. \A j \in 1 .. n + 1 : j \in 1 .. n \/ listed[j] = item
        BY DEF item
      <4>4. new[i] = built[i] /\ new[i].key # item.key
        BY <2>2, <2>3, <3>1
      <4>5. first \in 1 .. n + 1 /\ last \in 1 .. n + 1
        BY <4>1 DEF Origin
      <4>6. listed[first].key = new[i].key /\ listed[last] = new[i]
        BY <4>1, <4>4 DEF Origin
      <4>7. \A j \in 1 .. n + 1 : listed[j].key = new[i].key => first <= j /\ j <= last
        BY <4>1, <4>3, <4>4 DEF Origin
      <4>8. \A h \in DOMAIN new : h < i =>
              \E j \in 1 .. n + 1 : j < first /\ listed[j].key = new[h].key
        BY <2>2, <4>1, <4>2 DEF Origin
      <4>9. Origin(new, listed, n + 1, i, first, last)
        BY <4>5, <4>6, <4>7, <4>8 DEF Origin
      <4> QED BY <4>9
    <3>2. CASE i = Len(built) + 1
      <4>1. \A j \in 1 .. n : listed[j].key # item.key
        BY <1>2, <2>3
      <4>2. \A h \in DOMAIN built : \E j \in 1 .. n : listed[j].key = built[h].key
        BY DEF TakenFrom, Origin
      <4>3. \A h \in DOMAIN new : h < i => h \in DOMAIN built
        BY <1>1, <2>2, <3>2
      <4>4. \A j \in 1 .. n + 1 : j \in 1 .. n \/ j = n + 1
        OBVIOUS
      <4>5. listed[n + 1] = item /\ new[i] = item
        BY <2>2, <3>2 DEF item
      <4>6. \A j \in 1 .. n + 1 : listed[j].key = new[i].key => n + 1 <= j /\ j <= n + 1
        BY <4>1, <4>4, <4>5
      <4>7. \A h \in DOMAIN new : h < i =>
              \E j \in 1 .. n + 1 : j < n + 1 /\ listed[j].key = new[h].key
        BY <2>2, <4>2, <4>3
      <4>8. Origin(new, listed, n + 1, i, n + 1, n + 1)
        BY <4>5, <4>6, <4>7 DEF Origin
      <4> QED BY <4>8
    <3> QED BY <1>1, <2>2, <3>1, <3>2
  <2>6. \A j \in 1 .. n + 1 : \E i \in DOMAIN new : new[i].key = listed[j].key
    <3>1. \A j \in 1 .. n + 1 : j \in 1 .. n \/ listed[j] = item
      BY DEF item
    <3>2. \A i \in DOMAIN built : i \in DOMAIN new
      BY <1>1, <2>2
    <3>3. \A j \in 1 .. n : \E i \in DOMAIN new : new[i].key = listed[j].key
      BY <1>2, <2>2, <3>2
    <3>4. Len(built) + 1 \in DOMAIN new
      BY <1>1, <2>2
    <3> QED BY <2>2, <3>1, <3>3, <3>4
  <2> QED BY <2>4, <2>5, <2>6 DEF TakenFrom, new, item
<1>4. CASE again # {}
  <2>1. new = [i \in DOMAIN built |-> IF i \in again THEN item ELSE built[i]]
    BY <1>4 DEF Taking
  <2>2. /\ DOMAIN new = DOMAIN built /\ Len(new) = Len(built)
        /\ \A i \in DOMAIN built : /\ new[i].key = built[i].key
                                   /\ new[i] = IF built[i].key = item.key
                                               THEN item ELSE built[i]
    BY <1>1, <2>1
  <2>3. \E i \in DOMAIN built : built[i].key = item.key
    BY <1>4
  <2> HIDE DEF new, item, again
  <2>4. Len(new) <= n + 1 /\ DistinctKeys(new)
    <3>1. Len(built) <= n /\ DistinctKeys(built)
      BY DEF TakenFrom
    <3>2. Len(new) <= n + 1
      BY <1>1, <2>2, <3>1
    <3>3. DistinctKeys(new)
      BY <2>2, <3>1 DEF DistinctKeys
    <3> QED BY <3>2, <3>3
  <2>5. ASSUME NEW i \in DOMAIN new
        PROVE  \E first, last \in Nat : Origin(new, listed, n + 1, i, first, last)
    <3>1. i \in DOMAIN built
      BY <2>2
    <3>2. PICK first, last \in Nat : Origin(built, listed, n, i, first, last)
      BY <3>1 DEF TakenFrom
    <3>3. \A h \in DOMAIN new : h < i =>
            \E j \in 1 .. n + 1 : j < first /\ listed[j].key = new[h].key
      BY <2>2, <3>2 DEF Origin
    <3>4. \A j \in 1 .. n + 1 : j \in 1 .. n \/ (j = n + 1 /\ listed[j] = item)
      BY DEF item
    <3>5. new[i].key = built[i].key /\ new[i] = IF built[i].key = item.key
                                              THEN item ELSE built[i]
      BY <2>2, <3>1
    <3>6. CASE built[i].key = item.key
      <4>1. listed[n + 1] = item
        BY DEF item
      <4>2. Origin(new, listed, n + 1, i, first, n + 1)
        BY <3>2, <3>3, <3>4, <3>5, <3>6, <4>1 DEF Origin
      <4> QED BY <4>2
    <3>7. CASE built[i].key # item.key
      <4>1. Origin(new, listed, n + 1, i, first, last)
        BY <3>2, <3>3, <3>4, <3>5, <3>7 DEF Origin
      <4> QED BY <4>1
    <3> QED BY <3>6, <3>7
  <2>6. \A j \in 1 .. n + 1 : \E i \in DOMAIN new : new[i].key = listed[j].key
    <3>1. \A j \in 1 .. n + 1 : j \in 1 .. n \/ listed[j] = item
      BY DEF item
    <3>2. \A j \in 1 .. n : \E i \in DOMAIN new : new[i].key = listed[j].key
      BY <1>2, <2>2
    <3>3. \E i \in DOMAIN new : new[i].key = item.key
      BY <2>2, <2>3
    <3> QED BY ONLY <3>1, <3>2, <3>3
  <2> QED BY <2>4, <2>5, <2>6 DEF TakenFrom, new, item
<1> QED BY <1>3, <1>4

\* What a map expression leaves is what an ordered map built from its list
\* holds (the loop of sao2_map_construct).
LEMMA UniqueBuilds ==
  ASSUME NEW listed \in Seq(Entry)
  PROVE  /\ Unique(listed) \in Seq(Entry) /\ Len(Unique(listed)) <= Len(listed)
         /\ DistinctKeys(Unique(listed))
         /\ Abstract!Builds(Unique(listed), listed)
<1> DEFINE N == Len(listed)
<1>1. PICK taken \in [0 .. N -> Seq(Entry)] :
        /\ taken[0] = <<>>
        /\ \A n \in 1 .. N : taken[n] = Taking(taken[n - 1], listed[n])
        /\ Unique(listed) = taken[N]
  BY TakenExist
<1> DEFINE P == {n \in Nat : n <= N => TakenFrom(taken[n], listed, n)}
<1>2. 0 \in P
  BY <1>1 DEF TakenFrom, DistinctKeys
<1>3. ASSUME NEW n \in P, n + 1 <= N
      PROVE  TakenFrom(taken[n + 1], listed, n + 1)
  <2>1. n \in Nat /\ taken[n] \in Seq(Entry) /\ TakenFrom(taken[n], listed, n)
    BY <1>1, <1>3
  <2>2. TakenFrom(Taking(taken[n], listed[n + 1]), listed, n + 1)
    BY <1>3, <2>1, TakingOneMore
  <2> QED BY <1>1, <1>3, <2>1, <2>2
<1>4. \A n \in P : n + 1 \in P
  BY <1>3
<1> HIDE DEF P
<1>5. P = Nat
  BY <1>2, <1>4, SetInduction DEF P
<1> DEFINE built == Unique(listed)
<1>6. built \in Seq(Entry) /\ TakenFrom(built, listed, N)
  BY <1>1, <1>5 DEF P
<1> HIDE DEF built
<1>7. DOMAIN listed = 1 .. N
  OBVIOUS
<1>8. Abstract!Builds(built, listed)
  <2>1. {built[i].key : i \in DOMAIN built} = {listed[j].key : j \in DOMAIN listed}
    <3>1. \A i \in DOMAIN built : \E j \in DOMAIN listed : built[i].key = listed[j].key
      BY <1>6, <1>7 DEF TakenFrom, Origin
    <3>2. \A j \in DOMAIN listed : \E i \in DOMAIN built : built[i].key = listed[j].key
      BY <1>6, <1>7 DEF TakenFrom
    <3>3. {built[i].key : i \in DOMAIN built} \subseteq {listed[j].key : j \in DOMAIN listed}
      BY ONLY <3>1
    <3>4. {listed[j].key : j \in DOMAIN listed} \subseteq {built[i].key : i \in DOMAIN built}
      BY ONLY <3>2
    <3> QED BY ONLY <3>3, <3>4
  <2>2. \A i, j \in DOMAIN built : i # j => built[i].key # built[j].key
    BY <1>6 DEF TakenFrom, DistinctKeys
  <2>3. ASSUME NEW i \in DOMAIN built
        PROVE  \E first, last \in DOMAIN listed :
                 /\ listed[first].key = built[i].key /\ listed[last] = built[i]
                 /\ \A j \in DOMAIN listed :
                      listed[j].key = built[i].key => first <= j /\ j <= last
                 /\ \A h \in DOMAIN built : h < i =>
                      \E j \in DOMAIN listed : j < first /\ listed[j].key = built[h].key
    <3>1. PICK first, last \in Nat : Origin(built, listed, N, i, first, last)
      BY <1>6 DEF TakenFrom
    <3> QED BY <1>7, <3>1 DEF Origin
  <2> QED BY <2>1, <2>2, <2>3 DEF Abstract!Builds
<1> QED BY <1>6, <1>8 DEF TakenFrom, built

-----------------------------------------------------------------------------
(* The invariant holds. *)

\* What doubling a number again and again gives.
LEMMA DoublingsAre ==
  ASSUME NEW first \in Nat
  PROVE  /\ Doublings(first)[0] = first
         /\ \A n \in 0 .. CapacityMax : Doublings(first)[n] \in Nat
         /\ \A n \in 1 .. CapacityMax : Doublings(first)[n] = 2 * Doublings(first)[n - 1]
<1> DEFINE N == CapacityMax
           S == Nat
           start == first
           twice == [x \in Nat |-> 2 * x]
           step == [n \in 1 .. N |-> twice]
           build(f) == [n \in 0 .. N |-> IF n = 0 THEN first ELSE 2 * f[n - 1]]
           doubled == CHOOSE f : f = build(f)
<1>1. N \in Nat
  BY LimitAssumption
<1>2. step \in [1 .. N -> [S -> S]] /\ start \in S
  <2>1. twice \in [Nat -> Nat]
    OBVIOUS
  <2> HIDE DEF twice
  <2> QED BY <2>1
<1> HIDE DEF N, S, start, twice, step, build, doubled
<1>3. PICK f \in [0 .. N -> S] :
        f[0] = start /\ \A n \in 1 .. N : f[n] = step[n][f[n - 1]]
  BY <1>1, <1>2, Recursion
<1> USE DEF S, start
<1>4. \A n \in 1 .. N : step[n][f[n - 1]] = 2 * f[n - 1]
  <2>1. \A n \in 1 .. N : f[n - 1] \in Nat
    BY <1>1, <1>3
  <2> QED BY <2>1 DEF step, twice
<1>5. f = build(f)
  BY <1>1, <1>3, <1>4 DEF build
<1>6. doubled = build(doubled)
  BY <1>5 DEF doubled
<1>7. Doublings(first) = doubled
  BY DEF Doublings, doubled, build, N
<1>8. /\ doubled[0] = first
      /\ \A n \in 1 .. N : doubled[n] = 2 * doubled[n - 1]
  BY <1>1, <1>6 DEF build
<1> DEFINE P == {n \in Nat : n <= N => doubled[n] \in Nat}
<1>9. 0 \in P
  BY <1>8
<1>10. ASSUME NEW n \in P PROVE n + 1 \in P
  <2>1. CASE n + 1 <= N
    <3>1. doubled[n + 1] = 2 * doubled[n] /\ doubled[n] \in Nat
      BY <1>1, <1>8, <2>1
    <3> QED BY <3>1
  <2> QED BY <1>1, <2>1
<1> HIDE DEF P
<1>11. P = Nat
  <2>1. P \in SUBSET Nat
    BY DEF P
  <2> QED BY ONLY <1>9, <1>10, <2>1, SetInduction
<1>12. \A n \in 0 .. N : doubled[n] \in Nat
  BY <1>1, <1>11 DEF P
<1> QED BY <1>7, <1>8, <1>12 DEF N

\* A power of two that is doubled remains one, as long as it is a capacity.
LEMMA DoublingsArePowers ==
  ASSUME NEW first \in Nat, PowerOfTwo(first), NEW n \in 0 .. CapacityMax,
         Doublings(first)[n] <= CapacityMax
  PROVE  PowerOfTwo(Doublings(first)[n])
<1> DEFINE N == CapacityMax
           power == Doublings(1)
           grown == Doublings(first)
<1>1. N \in Nat
  BY LimitAssumption
<1>2. /\ power[0] = 1 /\ grown[0] = first
      /\ \A m \in 0 .. N : power[m] \in Nat /\ grown[m] \in Nat
      /\ \A m \in 1 .. N : power[m] = 2 * power[m - 1] /\ grown[m] = 2 * grown[m - 1]
  BY DoublingsAre
<1>3. PowerOfTwo(first) /\ \A c : PowerOfTwo(c) <=> \E m \in 0 .. N : c = power[m]
  BY DEF PowerOfTwo
<1> HIDE DEF N, power, grown
<1> DEFINE Large == {m \in Nat : m <= N => power[m] >= m + 1}
           P == {m \in Nat : m <= N /\ grown[m] <= N => PowerOfTwo(grown[m])}
<1>4. \A m \in 0 .. N : power[m] >= m + 1
  <2>1. 0 \in Large
    BY <1>2
  <2>2. ASSUME NEW m \in Large PROVE m + 1 \in Large
    <3>1. CASE m + 1 <= N
      <4>1. power[m + 1] = 2 * power[m] /\ power[m] \in Nat /\ power[m] >= m + 1
        BY <1>1, <1>2, <3>1
      <4> QED BY <4>1
    <3> QED BY <1>1, <3>1
  <2> HIDE DEF Large
  <2>3. Large = Nat
    BY <2>1, <2>2, SetInduction DEF Large
  <2> QED BY <1>1, <2>3 DEF Large
<1>5. 0 \in P
  BY <1>2, <1>3
<1>6. ASSUME NEW m \in P PROVE m + 1 \in P
  <2> SUFFICES ASSUME m + 1 <= N, grown[m + 1] <= N
               PROVE  PowerOfTwo(grown[m + 1])
    OBVIOUS
  <2>1. grown[m + 1] = 2 * grown[m] /\ grown[m] \in Nat
    BY <1>1, <1>2
  <2>2. PowerOfTwo(grown[m])
    BY <1>1, <2>1
  <2>3. PICK p \in 0 .. N : grown[m] = power[p]
    BY <1>3, <2>2
  <2>4. grown[m] >= p + 1
    BY <1>4, <2>3
  <2>5. p + 1 \in 1 .. N
    BY <1>1, <2>1, <2>4
  <2>6. power[p + 1] = 2 * power[p]
    BY <1>1, <1>2, <2>5
  <2> QED BY <1>1, <1>3, <2>1, <2>3, <2>5, <2>6
<1> HIDE DEF P
<1>7. P = Nat
  BY <1>5, <1>6, SetInduction DEF P
<1> QED BY <1>1, <1>7 DEF P, N, grown

\* The first numbers of slots.
LEMMA EightIsPower == PowerOfTwo(8)
<1>1. CapacityMax \in Nat /\ CapacityMax >= 8
  BY LimitAssumption
<1>2. /\ Doublings(1)[0] = 1 /\ Doublings(1)[1] = 2 * Doublings(1)[0]
      /\ Doublings(1)[2] = 2 * Doublings(1)[1] /\ Doublings(1)[3] = 2 * Doublings(1)[2]
  <2>1. /\ Doublings(1)[0] = 1
        /\ \A n \in 1 .. CapacityMax : Doublings(1)[n] = 2 * Doublings(1)[n - 1]
    BY DoublingsAre
  <2>2. 1 \in 1 .. CapacityMax /\ 2 \in 1 .. CapacityMax /\ 3 \in 1 .. CapacityMax
    BY <1>1
  <2> QED BY <2>1, <2>2
<1> QED BY <1>1, <1>2 DEF PowerOfTwo

\* A capacity is large enough, unless there is none.
LEMMA DoubledSuffices ==
  ASSUME NEW first \in Nat, NEW least \in Nat
  PROVE  /\ Doubled(first, least) \in 0 .. CapacityMax
         /\ Doubled(first, least) # 0 => least <= Doubled(first, least)
         /\ Doubled(first, least) # 0 /\ PowerOfTwo(first)
              => PowerOfTwo(Doubled(first, least))
<1> DEFINE capacities == {c \in first .. CapacityMax :
                            c >= least /\ \E n \in 0 .. CapacityMax : c = Doublings(first)[n]}
           chosen == CHOOSE c \in capacities : \A d \in capacities : c <= d
<1>1. Doubled(first, least) = IF capacities = {} THEN 0 ELSE chosen
  BY DEF Doubled
<1>2. /\ CapacityMax \in Nat /\ capacities \in SUBSET Nat
      /\ \A c \in capacities : c <= CapacityMax /\ c >= least
  BY LimitAssumption
<1>3. \A c \in capacities : \E n \in 0 .. CapacityMax : c = Doublings(first)[n]
  OBVIOUS
<1> HIDE DEF capacities
<1>4. capacities # {} => chosen \in capacities
  <2>1. capacities # {} => \E c \in capacities : \A d \in capacities : c <= d
    BY <1>2, LeastNat
  <2> QED BY <2>1
<1> HIDE DEF chosen
<1>5. capacities # {} => /\ chosen \in Nat /\ least <= chosen /\ chosen <= CapacityMax
  BY <1>2, <1>4
<1>6. ASSUME capacities # {}, PowerOfTwo(first)
      PROVE  PowerOfTwo(chosen)
  <2>1. PICK n \in 0 .. CapacityMax : chosen = Doublings(first)[n]
    BY <1>3, <1>4, <1>6
  <2> QED BY <1>5, <1>6, <2>1, DoublingsArePowers
<1> QED BY <1>1, <1>2, <1>5, <1>6

LEMMA CapacitiesSuffice ==
  ASSUME NEW required \in Nat, NEW current \in Nat
  PROVE  /\ EntryCapacity(required, current) \in 0 .. CapacityMax
         /\ EntryCapacity(required, current) # 0 => required <= EntryCapacity(required, current)
         /\ SlotCapacity(required, current) \in 0 .. CapacityMax
         /\ SlotCapacity(required, current) # 0 =>
              /\ required <= SlotCapacity(required, current) \div 2
              /\ (current # 0 => PowerOfTwo(current))
                   => PowerOfTwo(SlotCapacity(required, current))
<1> DEFINE entryFirst == IF current = 0 THEN 4 ELSE current
           slotFirst == IF current = 0 THEN 8 ELSE current
           double == 2 * required
<1>1. entryFirst \in Nat /\ slotFirst \in Nat /\ double \in Nat
  OBVIOUS
<1>2. (current # 0 => PowerOfTwo(current)) => PowerOfTwo(slotFirst)
  BY EightIsPower
<1>3. /\ EntryCapacity(required, current) = Doubled(entryFirst, required)
      /\ SlotCapacity(required, current) = Doubled(slotFirst, double)
  BY DEF EntryCapacity, SlotCapacity
<1> HIDE DEF entryFirst, slotFirst
<1>4. /\ EntryCapacity(required, current) \in 0 .. CapacityMax
      /\ EntryCapacity(required, current) # 0 => required <= EntryCapacity(required, current)
  <2>1. /\ Doubled(entryFirst, required) \in 0 .. CapacityMax
        /\ Doubled(entryFirst, required) # 0 => required <= Doubled(entryFirst, required)
    BY <1>1, DoubledSuffices, Zenon
  <2> QED BY <1>3, <2>1
<1>5. /\ SlotCapacity(required, current) \in 0 .. CapacityMax
      /\ SlotCapacity(required, current) # 0 => double <= SlotCapacity(required, current)
      /\ SlotCapacity(required, current) # 0 /\ PowerOfTwo(slotFirst)
           => PowerOfTwo(SlotCapacity(required, current))
  <2> HIDE DEF double
  <2>1. /\ Doubled(slotFirst, double) \in 0 .. CapacityMax
        /\ Doubled(slotFirst, double) # 0 => double <= Doubled(slotFirst, double)
        /\ Doubled(slotFirst, double) # 0 /\ PowerOfTwo(slotFirst)
             => PowerOfTwo(Doubled(slotFirst, double))
    BY <1>1, DoubledSuffices, Zenon
  <2> QED BY <1>3, <2>1
<1>6. CapacityMax \in Nat
  BY LimitAssumption
<1> QED BY <1>2, <1>4, <1>5, <1>6

\* The cells of an indexing table.
LEMMA IndexedTyped ==
  ASSUME NEW table, NEW c, NEW n \in Nat, NEW items, Indexed(table, c, items, n)
  PROVE  /\ table \in [0 .. c - 1 -> 0 .. n] /\ table \in [0 .. c - 1 -> Nat]
         /\ DOMAIN table = 0 .. c - 1
<1>1. table \in [0 .. c - 1 -> 0 .. n]
  BY DEF Indexed
<1>2. 0 .. n \subseteq Nat
  OBVIOUS
<1> QED BY <1>1, <1>2

\* The table leads to items by their keys alone.
LEMMA IndexedByKeys ==
  ASSUME NEW table, NEW c, NEW n, NEW items, NEW others,
         Indexed(table, c, items, n),
         \A m \in 1 .. n : others[m].key = items[m].key
  PROVE  Indexed(table, c, others, n)
BY DEF Indexed

\* The invariant of the next state, for any operation.
LEMMA InvNext ==
  ASSUME entries' \in Seq(Entry), length' = Len(entries'),
         entryCapacity' \in 0 .. CapacityMax, slotCapacity' \in 0 .. CapacityMax,
         length' <= entryCapacity', length' <= slotCapacity' \div 2,
         (entryCapacity' = 0 <=> slotCapacity' = 0),
         slotCapacity' # 0 => PowerOfTwo(slotCapacity'),
         Indexed(slots', slotCapacity', entries', length'), DistinctKeys(entries'),
         lockCount' \in 0 .. MaxLocks, outcome' \in Outcomes,
         answer' \in Values \cup {"nothing", "present", "absent"}
  PROVE  MapInv'
<1>1. MapTypeOK'
  <2>1. length' \in Nat
    OBVIOUS
  <2>2. slots' \in [0 .. slotCapacity' - 1 -> Nat]
    BY <2>1, IndexedTyped
  <2> QED BY <2>1, <2>2 DEF MapTypeOK
<1>2. SlotsIndexEntries'
  <2>1. /\ DOMAIN slots' = 0 .. slotCapacity' - 1 /\ DOMAIN entries' = 1 .. length'
        /\ slots' \in [0 .. slotCapacity' - 1 -> 0 .. length']
    <3>1. length' \in Nat /\ DOMAIN entries' = 1 .. length'
      OBVIOUS
    <3> QED BY <3>1, IndexedTyped
  <2> QED BY <2>1 DEF SlotsIndexEntries, Indexed, DistinctKeys
<1> QED BY <1>1, <1>2 DEF MapInv, MapControlValid

LEMMA InitEstablishes == Init => MapInv
<1> SUFFICES ASSUME Init PROVE MapInv
  OBVIOUS
<1>1. PICK listed \in Listings : Construct(listed)
  BY DEF Init
<1>2. listed \in Seq(Entry) /\ Len(listed) \in Nat
  <2>1. Listings \subseteq Seq(Entry)
    BY ListingAssumption DEF Entry
  <2> QED BY <2>1
<1>3. entries \in Seq(Entry) /\ Len(entries) <= Len(listed) /\ DistinctKeys(entries)
  BY <1>1, <1>2, UniqueBuilds DEF Construct
<1>4. /\ entryCapacity \in 0 .. CapacityMax /\ slotCapacity \in 0 .. CapacityMax
      /\ length = Len(entries) /\ length \in Nat
      /\ length <= entryCapacity /\ length <= slotCapacity \div 2
      /\ (entryCapacity = 0 <=> slotCapacity = 0)
      /\ slotCapacity # 0 => PowerOfTwo(slotCapacity)
  <2>1. CASE listed = <<>>
    BY <1>1, <1>3, <2>1, LimitAssumption DEF Construct
  <2>2. CASE listed # <<>>
    <3>1. /\ entryCapacity = EntryCapacity(Len(listed), 0) /\ entryCapacity # 0
          /\ slotCapacity = SlotCapacity(Len(listed), 0) /\ slotCapacity # 0
          /\ length = Len(entries)
      BY <1>1, <2>2 DEF Construct
    <3>2. /\ entryCapacity \in 0 .. CapacityMax /\ Len(listed) <= entryCapacity
          /\ slotCapacity \in 0 .. CapacityMax /\ Len(listed) <= slotCapacity \div 2
          /\ PowerOfTwo(slotCapacity)
      BY <1>2, <3>1, CapacitiesSuffice
    <3> QED BY <1>2, <1>3, <3>1, <3>2, LimitAssumption
  <2> QED BY <2>1, <2>2
<1>5. Indexed(slots, slotCapacity, entries, length)
  <2>1. slotCapacity \in Nat /\ (Len(entries) = 0 \/ Len(entries) < slotCapacity)
    BY <1>3, <1>4
  <2> QED BY <1>1, <1>3, <1>4, <2>1, RebuildIndexes DEF Construct
<1>6. slots \in [0 .. slotCapacity - 1 -> Nat]
  BY <1>4, <1>5 DEF Indexed
<1>7. MapTypeOK
  BY <1>3, <1>4, <1>6, LimitAssumption DEF Init, MapTypeOK, Outcomes
<1>8. SlotsIndexEntries
  BY <1>4, <1>5, <1>3, <1>7, SlotsAreIndexed
<1>9. MapControlValid
  BY ONLY <1>4 DEF MapControlValid
<1> QED BY <1>7, <1>8, <1>9 DEF MapInv

LEMMA NextPreserves == MapInv /\ [Next]_vars => MapInv'
<1> SUFFICES ASSUME MapInv, [Next]_vars PROVE MapInv'
  OBVIOUS
<1>1. /\ entries \in Seq(Entry) /\ length = Len(entries) /\ length \in Nat
      /\ entryCapacity \in 0 .. CapacityMax /\ slotCapacity \in 0 .. CapacityMax
      /\ entryCapacity \in Nat /\ slotCapacity \in Nat
      /\ length <= entryCapacity /\ length <= slotCapacity \div 2
      /\ (entryCapacity = 0 <=> slotCapacity = 0)
      /\ slotCapacity # 0 => PowerOfTwo(slotCapacity)
      /\ lockCount \in 0 .. MaxLocks /\ outcome \in Outcomes
      /\ answer \in Values \cup {"nothing", "present", "absent"}
  BY DEF MapInv, MapTypeOK, MapControlValid
<1>2. Indexed(slots, slotCapacity, entries, length) /\ DistinctKeys(entries)
  BY SlotsAreIndexed DEF MapInv, MapControlValid
<1>3. ASSUME UNCHANGED backings, lockCount' \in 0 .. MaxLocks, outcome' \in Outcomes,
             answer' \in Values \cup {"nothing", "present", "absent"}
      PROVE  MapInv'
  BY <1>1, <1>2, <1>3, InvNext DEF backings
<1>4. ASSUME NEW k \in Keys, NEW v \in Values, Overwrite(k, v)
      PROVE  MapInv'
  <2>1. ProbedSlot(k) \in 1 .. length /\ entries[ProbedSlot(k)].key = k
    BY <1>4, Lookup DEF Overwrite
  <2>2. Pair(k, v) \in Entry /\ Pair(k, v).key = k
    BY DEF Pair, Entry
  <2>3. entries' = [entries EXCEPT ![ProbedSlot(k)] = Pair(k, v)]
    BY <1>4 DEF Overwrite
  <2>4. /\ entries' \in Seq(Entry) /\ Len(entries') = length
        /\ \A m \in 1 .. length : entries'[m].key = entries[m].key
    BY <1>1, <2>1, <2>2, <2>3
  <2>5. Indexed(slots, slotCapacity, entries', length)
    BY <1>2, <2>4, IndexedByKeys
  <2>6. DistinctKeys(entries')
    <3>1. DOMAIN entries' = 1 .. length /\ DOMAIN entries = 1 .. length
      BY <1>1, <2>4
    <3> QED BY <1>2, <2>4, <3>1 DEF DistinctKeys
  <2> QED BY <1>1, <1>4, <2>4, <2>5, <2>6, InvNext DEF Overwrite, NoAnswer
<1>5. ASSUME NEW k \in Keys, NEW v \in Values, ~Found(k),
             entries' = Append(entries, Pair(k, v))
      PROVE  /\ entries' \in Seq(Entry) /\ Len(entries') = length + 1
             /\ \A m \in 1 .. length : entries'[m].key = entries[m].key
             /\ entries'[length + 1].key = k
             /\ DistinctKeys(entries')
  <2>1. Pair(k, v) \in Entry /\ Pair(k, v).key = k
    BY DEF Pair, Entry
  <2>2. /\ entries' \in Seq(Entry) /\ Len(entries') = length + 1
        /\ \A m \in 1 .. length : entries'[m] = entries[m]
        /\ entries'[length + 1] = Pair(k, v)
    BY <1>1, <1>5, <2>1
  <2>3. \A n \in 1 .. length : entries[n].key # k
    BY <1>5, Lookup
  <2>4. DOMAIN entries' = 1 .. length + 1 /\ DOMAIN entries = 1 .. length
    BY <1>1, <2>2
  <2>5. DistinctKeys(entries')
    BY <1>1, <1>2, <2>1, <2>2, <2>3, <2>4 DEF DistinctKeys
  <2> QED BY <2>1, <2>2, <2>5
<1>6. ASSUME NEW k \in Keys, NEW v \in Values, InsertInPlace(k, v)
      PROVE  MapInv'
  <2>1. /\ entries' \in Seq(Entry) /\ Len(entries') = length + 1
        /\ \A m \in 1 .. length : entries'[m].key = entries[m].key
        /\ entries'[length + 1].key = k
        /\ DistinctKeys(entries')
    BY <1>5, <1>6 DEF InsertInPlace
  <2>2. length + 1 <= entryCapacity /\ length + 1 <= slotCapacity \div 2
    BY <1>6 DEF InsertInPlace, RoomLeft
  <2>3. Indexed(slots, slotCapacity, entries', length)
    BY <1>2, <2>1, IndexedByKeys
  <2>4. length < slotCapacity
    BY <1>1, <2>2
  <2>5. \A m \in 1 .. length + 1 : entries'[m].key \in Keys
    <3>1. \A m \in 1 .. length + 1 : entries'[m] \in Entry
      BY <1>1, <2>1
    <3> QED BY <3>1 DEF Entry
  <2>6. Indexed(Place(slots, slotCapacity, entries'[length + 1].key, length + 1),
                slotCapacity, entries', length + 1)
    BY ONLY <1>1, <2>3, <2>4, <2>5, PlaceIndexes
  <2>7. Indexed(slots', slotCapacity', entries', length')
    BY <1>6, <2>1, <2>6 DEF InsertInPlace
  <2> QED BY <1>1, <1>6, <2>1, <2>2, <2>7, InvNext DEF InsertInPlace, NoAnswer
<1>7. ASSUME NEW k \in Keys, NEW v \in Values, InsertGrowing(k, v)
      PROVE  MapInv'
  <2>1. /\ entries' \in Seq(Entry) /\ Len(entries') = length + 1
        /\ DistinctKeys(entries')
    BY <1>5, <1>7 DEF InsertGrowing
  <2>2. /\ entryCapacity' \in 0 .. CapacityMax /\ slotCapacity' \in 0 .. CapacityMax
        /\ length' = length + 1
        /\ length' <= entryCapacity' /\ length' <= slotCapacity' \div 2
        /\ (entryCapacity' = 0 <=> slotCapacity' = 0)
        /\ slotCapacity' # 0 => PowerOfTwo(slotCapacity')
    <3>1. /\ entryCapacity' = EntryCapacity(length + 1, entryCapacity) /\ entryCapacity' # 0
          /\ slotCapacity' = SlotCapacity(length + 1, slotCapacity) /\ slotCapacity' # 0
          /\ length' = length + 1
      BY <1>7 DEF InsertGrowing
    <3> DEFINE required == length + 1
    <3>2. required \in Nat
      BY <1>1
    <3> HIDE DEF required
    <3>3. /\ EntryCapacity(required, entryCapacity) \in 0 .. CapacityMax
          /\ EntryCapacity(required, entryCapacity) # 0
               => required <= EntryCapacity(required, entryCapacity)
          /\ SlotCapacity(required, slotCapacity) \in 0 .. CapacityMax
          /\ SlotCapacity(required, slotCapacity) # 0 =>
               /\ required <= SlotCapacity(required, slotCapacity) \div 2
               /\ PowerOfTwo(SlotCapacity(required, slotCapacity))
      BY <1>1, <3>2, CapacitiesSuffice
    <3> QED BY <3>1, <3>3 DEF required
  <2>3. slotCapacity' \in Nat /\ Len(entries') < slotCapacity'
    BY <1>1, <2>1, <2>2
  <2>4. Indexed(slots', slotCapacity', entries', length')
    BY <1>7, <2>1, <2>2, <2>3, RebuildIndexes DEF InsertGrowing
  <2> QED BY <1>1, <1>7, <2>1, <2>2, <2>4, InvNext DEF InsertGrowing, NoAnswer
<1>8. ASSUME NEW k \in Keys, RemoveKey(k)
      PROVE  MapInv'
  <2> DEFINE n == ProbedSlot(k)
  <2>1. n \in 1 .. length
    BY <1>8, Lookup DEF RemoveKey
  <2>2. entries' = [i \in 1 .. length - 1 |-> IF i < n THEN entries[i] ELSE entries[i + 1]]
    BY <1>8 DEF RemoveKey
  <2> HIDE DEF n
  <2>3. \A i \in 1 .. length - 1 :
          entries'[i] = IF i < n THEN entries[i] ELSE entries[i + 1]
    BY <2>2
  <2>4. entries' \in Seq(Entry) /\ Len(entries') = length - 1
    <3>1. \A i \in 1 .. length - 1 : entries'[i] \in Entry
      BY <1>1, <2>3
    <3> QED BY <1>1, <2>1, <2>2, <3>1
  <2>5. DistinctKeys(entries')
    <3>1. DOMAIN entries' = 1 .. length - 1 /\ DOMAIN entries = 1 .. length
      BY <1>1, <2>1, <2>4
    <3>2. \A i, j \in 1 .. length : entries[i].key = entries[j].key => i = j
      BY <1>2, <3>1 DEF DistinctKeys
    <3>3. \A i, j \in 1 .. length - 1 : entries'[i].key = entries'[j].key => i = j
      <4> SUFFICES ASSUME NEW i \in 1 .. length - 1, NEW j \in 1 .. length - 1,
                          entries'[i].key = entries'[j].key
                   PROVE  i = j
        OBVIOUS
      <4> DEFINE old(x) == IF x < n THEN x ELSE x + 1
      <4>1. old(i) \in 1 .. length /\ old(j) \in 1 .. length
        BY <1>1, <2>1
      <4>2. entries'[i] = entries[old(i)] /\ entries'[j] = entries[old(j)]
        BY <2>3
      <4> HIDE DEF old
      <4>3. old(i) = old(j)
        BY <3>2, <4>1, <4>2
      <4> QED BY <1>1, <2>1, <4>3 DEF old
    <3> QED BY <3>1, <3>3 DEF DistinctKeys
  <2>6. Indexed(slots', slotCapacity', entries', length')
    <3>1. Len(entries') < slotCapacity
      BY <1>1, <2>1, <2>4
    <3> QED BY <1>1, <1>8, <2>4, <3>1, RebuildIndexes DEF RemoveKey
  <2> QED BY <1>1, <1>8, <2>1, <2>4, <2>5, <2>6, InvNext DEF RemoveKey, NoAnswer
<1>9. ASSUME NEW reason \in Outcomes, Panic(reason)
      PROVE  MapInv'
  BY <1>1, <1>3, <1>9 DEF Panic, NoAnswer
<1>10. {"locked", "missing", "exhausted"} \subseteq Outcomes
  BY DEF Outcomes
<1>11. ASSUME NEW k \in Keys, Load(k)
       PROVE  MapInv'
  <2>1. CASE Found(k) /\ answer' = entries[ProbedSlot(k)].value
                     /\ UNCHANGED <<backings, lockCount, outcome>>
    <3>1. ProbedSlot(k) \in 1 .. length
      BY <2>1, Lookup
    <3>2. answer' \in Values
      <4>1. entries[ProbedSlot(k)] \in Entry
        BY <1>1, <3>1
      <4> QED BY <2>1, <4>1 DEF Entry
    <3> QED BY <1>1, <1>3, <2>1, <3>2
  <2> QED BY <1>9, <1>10, <1>11, <2>1 DEF Load
<1>12. ASSUME NEW k \in Keys, Contains(k)
       PROVE  MapInv'
  BY <1>1, <1>3, <1>12 DEF Contains
<1>13. ASSUME BeginIteration \/ EndIteration
       PROVE  MapInv'
  BY <1>1, <1>3, <1>13, LimitAssumption DEF BeginIteration, EndIteration, NoAnswer
<1>14. CASE UNCHANGED vars
  BY <1>1, <1>3, <1>14 DEF vars
<1>15. ASSUME NEW k \in Keys,
              InsertLocked(k) \/ InsertExhausted(k) \/ StoreMissing(k) \/ RemoveRefused(k)
       PROVE  MapInv'
  BY <1>9, <1>10, <1>15 DEF InsertLocked, InsertExhausted, StoreMissing, RemoveRefused
<1> QED BY <1>4, <1>6, <1>7, <1>8, <1>11, <1>12, <1>13, <1>14, <1>15 DEF Next

\* The slots lead to every entry and only to entries, and no two entries have the
\* same key, whatever is inserted, overwritten and removed.
THEOREM MapInvariance == Spec => []MapInv
<1>1. Init => MapInv
  BY InitEstablishes
<1>2. MapInv /\ [Next]_vars => MapInv'
  BY NextPreserves
<1> QED BY <1>1, <1>2, PTL DEF Spec

\* Every variable of the map keeps its type.
THEOREM MapTypeCorrect == Spec => []MapTypeOK
<1>1. MapInv => MapTypeOK
  BY DEF MapInv
<1> QED BY <1>1, MapInvariance, PTL

\* Every operation is given a control it accepts: counts that agree with the
\* backings, and a number of slots by which it can mask.
THEOREM MapControlsValid == Spec => []MapControlValid
<1>1. MapInv => MapControlValid
  BY DEF MapInv
<1> QED BY <1>1, MapInvariance, PTL

\* Probing reaches each entry before an empty slot stops it, and nothing else.
THEOREM SlotsLeadToEntries == Spec => []SlotsIndexEntries
<1>1. MapInv => SlotsIndexEntries
  BY DEF MapInv
<1> QED BY <1>1, MapInvariance, PTL

-----------------------------------------------------------------------------
(* The refinement. *)

\* A lookup answers what the entries say.
LEMMA FoundIsPresent ==
  ASSUME MapInv, NEW k \in Keys
  PROVE  /\ Found(k) <=> Abstract!Present(k)
         /\ Found(k) => /\ ProbedSlot(k) \in DOMAIN entries
                        /\ entries[ProbedSlot(k)].key = k
                        /\ \A i \in DOMAIN entries :
                             entries[i].key = k => i = ProbedSlot(k)
<1>1. DOMAIN entries = 1 .. length
  BY DEF MapInv, MapTypeOK, MapControlValid
<1>2. DistinctKeys(entries)
  BY SlotsAreIndexed DEF MapInv, MapControlValid
<1> QED BY <1>1, <1>2, Lookup DEF Abstract!Present, DistinctKeys

LEMMA InitRefines == Init => Abstract!Init
<1> SUFFICES ASSUME Init PROVE Abstract!Init
  OBVIOUS
<1>1. PICK listed \in Listings : Construct(listed)
  BY DEF Init
<1>2. listed \in Seq(Entry)
  <2>1. Listings \subseteq Seq(Entry)
    BY ListingAssumption DEF Entry
  <2> QED BY <2>1
<1>3. Abstract!Builds(entries, listed)
  BY <1>1, <1>2, UniqueBuilds DEF Construct
<1> QED BY <1>3 DEF Init, Abstract!Init

LEMMA NextRefines == MapInv /\ [Next]_vars => [Abstract!Next]_(Abstract!vars)
<1> SUFFICES ASSUME MapInv, [Next]_vars PROVE [Abstract!Next]_(Abstract!vars)
  OBVIOUS
<1>1. DOMAIN entries = 1 .. length /\ length = Len(entries) /\ length \in Nat
      /\ entries \in Seq(Entry) /\ lockCount \in Nat
  BY LimitAssumption DEF MapInv, MapTypeOK, MapControlValid
<1>2. ASSUME NEW k \in Keys, NEW v \in Values, Overwrite(k, v)
      PROVE  Abstract!Next
  <2>1. /\ Abstract!Present(k)
        /\ \A i \in DOMAIN entries : entries[i].key = k <=> i = ProbedSlot(k)
    BY <1>2, FoundIsPresent DEF Overwrite
  <2>2. entries' = [i \in DOMAIN entries |->
                     IF entries[i].key = k THEN [key |-> k, value |-> v] ELSE entries[i]]
    BY <1>2, <2>1 DEF Overwrite, Pair
  <2>3. Abstract!Put(k, v)
    BY <1>2, <2>1, <2>2 DEF Abstract!Put, Overwrite, NoAnswer, Abstract!NoAnswer
  <2> QED BY <1>2, <2>3 DEF Abstract!Next, Overwrite, Running
<1>3. ASSUME NEW k \in Keys, NEW v \in Values, InsertInPlace(k, v) \/ InsertGrowing(k, v)
      PROVE  Abstract!Next
  <2>1. /\ ~Abstract!Present(k) /\ lockCount = 0 /\ outcome = "running"
        /\ entries' = Append(entries, [key |-> k, value |-> v])
        /\ answer' = "nothing" /\ UNCHANGED <<lockCount, outcome>>
    BY <1>3, FoundIsPresent
    DEF InsertInPlace, InsertGrowing, Pair, NoAnswer, Running
  <2>2. Abstract!Put(k, v)
    BY <2>1 DEF Abstract!Put, Abstract!NoAnswer
  <2> QED BY <2>1, <2>2 DEF Abstract!Next
<1>4. ASSUME NEW reason, Panic(reason)
      PROVE  Abstract!Panic(reason)
  BY <1>4 DEF Panic, NoAnswer, Abstract!Panic, Abstract!NoAnswer, backings
<1>5. ASSUME NEW k \in Keys, NEW v \in Values, InsertLocked(k) \/ InsertExhausted(k)
      PROVE  Abstract!Next
  <2>1. Abstract!Put(k, v) /\ outcome = "running"
    BY <1>4, <1>5, FoundIsPresent DEF Abstract!Put, InsertLocked, InsertExhausted, Running
  <2> QED BY <2>1 DEF Abstract!Next
<1>6. ASSUME NEW k \in Keys, RemoveKey(k)
      PROVE  Abstract!Next
  <2> DEFINE n == ProbedSlot(k)
  <2>1. n \in 1 .. length /\ entries[n].key = k
    BY <1>1, <1>6, FoundIsPresent DEF RemoveKey
  <2>2. entries' = [i \in 1 .. length - 1 |-> IF i < n THEN entries[i] ELSE entries[i + 1]]
    BY <1>6 DEF RemoveKey
  <2> HIDE DEF n
  <2>3. entries' = SubSeq(entries, 1, n - 1) \o SubSeq(entries, n + 1, Len(entries))
    <3> DEFINE below == SubSeq(entries, 1, n - 1)
               above == SubSeq(entries, n + 1, Len(entries))
               joined == below \o above
    <3>1. /\ below \in Seq(Entry) /\ Len(below) = n - 1
          /\ \A i \in 1 .. n - 1 : below[i] = entries[i]
      BY <1>1, <2>1
    <3>2. /\ above \in Seq(Entry) /\ Len(above) = length - n
          /\ \A i \in 1 .. length - n : above[i] = entries[n + i]
      <4>1. \A i \in n + 1 .. length : entries[i] \in Entry
        BY <1>1, <2>1
      <4>2. n + 1 \in Int /\ length \in Int
        BY <1>1, <2>1
      <4> DEFINE m == n + 1
      <4>3. /\ SubSeq(entries, m, length) \in Seq(Entry)
            /\ Len(SubSeq(entries, m, length)) = IF m <= length THEN length - m + 1 ELSE 0
            /\ \A i \in 1 .. length - m + 1 : SubSeq(entries, m, length)[i] = entries[m + i - 1]
        <5> HIDE DEF m
        <5> QED BY <4>1, <4>2, SubSeqProperties DEF m
      <4>4. above = SubSeq(entries, m, length)
        BY <1>1
      <4> HIDE DEF above
      <4>5. Len(above) = length - n
        <5>1. Len(above) = IF m <= length THEN length - m + 1 ELSE 0
          BY <4>3, <4>4
        <5>2. n \in Nat /\ n <= length /\ length \in Nat
          BY <1>1, <2>1
        <5> QED BY ONLY <5>1, <5>2
      <4>6. ASSUME NEW i \in 1 .. length - n
            PROVE  above[i] = entries[n + i]
        <5>1. i \in 1 .. length - m + 1 /\ m + i - 1 = n + i
          BY <1>1, <2>1
        <5> HIDE DEF m
        <5> QED BY <4>3, <4>4, <5>1
      <4> QED BY <4>3, <4>4, <4>5, <4>6
    <3> HIDE DEF below, above
    <3>3. joined \in Seq(Entry) /\ Len(joined) = length - 1
      <4>1. joined \in Seq(Entry) /\ Len(joined) = Len(below) + Len(above)
        BY <3>1, <3>2, ConcatProperties
      <4> HIDE DEF joined
      <4> QED BY <1>1, <2>1, <3>1, <3>2, <4>1
    <3>4. \A i \in 1 .. length - 1 :
            joined[i] = IF i < n THEN below[i] ELSE above[i - (n - 1)]
      BY <1>1, <2>1, <3>1, <3>2, ConcatProperties
    <3> HIDE DEF joined
    <3>5. \A i \in 1 .. length - 1 :
            joined[i] = IF i < n THEN entries[i] ELSE entries[i + 1]
      <4> SUFFICES ASSUME NEW i \in 1 .. length - 1
                   PROVE  joined[i] = IF i < n THEN entries[i] ELSE entries[i + 1]
        OBVIOUS
      <4>1. CASE i < n
        BY <1>1, <2>1, <3>1, <3>4, <4>1
      <4>2. CASE ~(i < n)
        <5>1. /\ i - (n - 1) \in 1 .. length - n /\ n + (i - (n - 1)) = i + 1
          BY <1>1, <2>1, <4>2
        <5> QED BY <3>2, <3>4, <4>2, <5>1
      <4> QED BY <4>1, <4>2
    <3>6. joined = [i \in 1 .. length - 1 |-> joined[i]]
      BY <1>1, <2>1, <3>3
    <3> QED BY <2>2, <3>5, <3>6 DEF joined, below, above
  <2>4. Abstract!RemoveKey(k)
    BY <1>1, <1>6, <2>1, <2>3, FoundIsPresent
    DEF Abstract!RemoveKey, RemoveKey, NoAnswer, Abstract!NoAnswer
  <2> QED BY <1>6, <2>4 DEF Abstract!Next, RemoveKey, Running
<1>7. ASSUME NEW k \in Keys, RemoveRefused(k)
      PROVE  Abstract!Next
  <2>1. Abstract!RemoveKey(k)
    BY <1>4, <1>7, FoundIsPresent DEF Abstract!RemoveKey, RemoveRefused
  <2> QED BY <1>7, <2>1 DEF Abstract!Next, RemoveRefused, Running
<1>8. ASSUME NEW k \in Keys, Load(k)
      PROVE  Abstract!Next
  <2>1. CASE Found(k) /\ answer' = entries[ProbedSlot(k)].value
                      /\ UNCHANGED <<backings, lockCount, outcome>>
    <3> DEFINE held == {entries[i] : i \in DOMAIN entries}
               n == ProbedSlot(k)
    <3>1. /\ n \in DOMAIN entries /\ entries[n].key = k
          /\ \A i \in DOMAIN entries : entries[i].key = k => i = n
      BY <2>1, FoundIsPresent
    <3> HIDE DEF n
    <3>2. (CHOOSE p \in held : p.key = k) = entries[n]
      BY <3>1
    <3>3. Abstract!ValueOf(k) = entries[n].value
      BY <3>2 DEF Abstract!ValueOf
    <3>4. Abstract!Get(k)
      BY <2>1, <3>3, FoundIsPresent DEF Abstract!Get, backings, n
    <3> QED BY <1>8, <3>4 DEF Abstract!Next, Load, Running
  <2>2. CASE ~Found(k) /\ Panic("missing")
    <3>1. Abstract!Get(k)
      BY <1>4, <2>2, FoundIsPresent DEF Abstract!Get
    <3> QED BY <1>8, <3>1 DEF Abstract!Next, Load, Running
  <2> QED BY <1>8, <2>1, <2>2 DEF Load
<1>9. ASSUME NEW k \in Keys, StoreMissing(k)
      PROVE  Abstract!Next
  <2>1. Abstract!Store(k)
    BY <1>4, <1>9, FoundIsPresent DEF Abstract!Store, StoreMissing
  <2> QED BY <1>9, <2>1 DEF Abstract!Next, StoreMissing, Running
<1>10. ASSUME NEW k \in Keys, Contains(k)
       PROVE  Abstract!Next
  <2>1. Abstract!Contains(k)
    BY <1>10, FoundIsPresent DEF Abstract!Contains, Contains, backings
  <2> QED BY <1>10, <2>1 DEF Abstract!Next, Contains, Running
<1>11. ASSUME BeginIteration
       PROVE  Abstract!Next
  BY <1>11 DEF BeginIteration, Running, NoAnswer, backings, Abstract!Next, Abstract!Begin,
    Abstract!NoAnswer
<1>12. ASSUME EndIteration
       PROVE  Abstract!Next
  BY <1>12 DEF EndIteration, Running, NoAnswer, backings, Abstract!Next, Abstract!End,
    Abstract!NoAnswer
<1>13. CASE UNCHANGED vars
  BY <1>13 DEF vars, backings, Abstract!vars
<1> QED BY <1>2, <1>3, <1>5, <1>6, <1>7, <1>8, <1>9, <1>10, <1>11, <1>12, <1>13 DEF Next

\* Hashing, probing, growing and rebuilding amount to an ordered map: every
\* operation is an operation of AbstractMap.
THEOREM MapRefines == Spec => ImplementsAbstractMap
<1>1. Init => Abstract!Init
  BY InitRefines
<1>2. MapInv /\ [Next]_vars => [Abstract!Next]_(Abstract!vars)
  BY NextRefines
<1> QED BY <1>1, <1>2, MapInvariance, PTL DEF Spec, ImplementsAbstractMap, Abstract!Spec
=============================================================================
