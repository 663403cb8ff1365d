---------------------------- MODULE AbstractMap ----------------------------
(***************************************************************************)
(* What an ordered map promises (DESIGN.md, "Collections"): the entries    *)
(* keep the order in which their keys were first inserted, a key has one   *)
(* value, and while an iteration is active no key comes or goes.           *)
(***************************************************************************)
EXTENDS Integers, Sequences

CONSTANTS
  Keys, Values,
  Listings   \* the entry lists of map expressions

VARIABLES pairs, locks, outcome, answer

vars == <<pairs, locks, outcome, answer>>

Present(k) == \E i \in DOMAIN pairs : pairs[i].key = k
ValueOf(k) == (CHOOSE p \in {pairs[i] : i \in DOMAIN pairs} : p.key = k).value

\* The entries a map expression lists: a repeated key keeps its first place and
\* takes its last value.
Builds(built, listed) ==
  /\ {built[i].key : i \in DOMAIN built} = {listed[j].key : j \in DOMAIN listed}
  /\ \A i, j \in DOMAIN built : i # j => built[i].key # built[j].key
  /\ \A i \in DOMAIN built : \E first, last \in DOMAIN listed :
       /\ listed[first].key = built[i].key /\ listed[last] = built[i]
       /\ \A j \in DOMAIN listed : listed[j].key = built[i].key => first <= j /\ j <= last
       /\ \A h \in DOMAIN built : h < i =>
            \E j \in DOMAIN listed : j < first /\ listed[j].key = built[h].key

Init ==
  /\ \E listed \in Listings : Builds(pairs, listed)
  /\ locks = 0 /\ outcome = "running" /\ answer = "nothing"

NoAnswer == answer' = "nothing"
Panic(reason) == outcome' = reason /\ NoAnswer /\ UNCHANGED <<pairs, locks>>

Put(k, v) ==
  \/ /\ Present(k)
     /\ pairs' = [i \in DOMAIN pairs |->
          IF pairs[i].key = k THEN [key |-> k, value |-> v] ELSE pairs[i]]
     /\ NoAnswer /\ UNCHANGED <<locks, outcome>>
  \/ /\ ~Present(k) /\ locks = 0
     /\ pairs' = Append(pairs, [key |-> k, value |-> v])
     /\ NoAnswer /\ UNCHANGED <<locks, outcome>>
  \/ ~Present(k) /\ locks # 0 /\ Panic("locked")
  \/ ~Present(k) /\ locks = 0 /\ Panic("exhausted")

RemoveKey(k) ==
  \/ locks # 0 /\ Panic("locked")
  \/ locks = 0 /\ ~Present(k) /\ Panic("missing")
  \/ /\ locks = 0 /\ Present(k)
     /\ \E i \in DOMAIN pairs :
          /\ pairs[i].key = k
          /\ pairs' = SubSeq(pairs, 1, i - 1) \o SubSeq(pairs, i + 1, Len(pairs))
     /\ NoAnswer /\ UNCHANGED <<locks, outcome>>

Get(k) ==
  \/ Present(k) /\ answer' = ValueOf(k) /\ UNCHANGED <<pairs, locks, outcome>>
  \/ ~Present(k) /\ Panic("missing")

\* Storing in place what is not there.
Store(k) == ~Present(k) /\ Panic("missing")

Contains(k) ==
  /\ answer' = IF Present(k) THEN "present" ELSE "absent"
  /\ UNCHANGED <<pairs, locks, outcome>>

Begin == locks' = locks + 1 /\ NoAnswer /\ UNCHANGED <<pairs, outcome>>
End == locks > 0 /\ locks' = locks - 1 /\ NoAnswer /\ UNCHANGED <<pairs, outcome>>

Next ==
  /\ outcome = "running"
  /\ \/ \E k \in Keys, v \in Values : Put(k, v)
     \/ \E k \in Keys : RemoveKey(k) \/ Get(k) \/ Store(k) \/ Contains(k)
     \/ Begin \/ End

Spec == Init /\ [][Next]_vars
=============================================================================
