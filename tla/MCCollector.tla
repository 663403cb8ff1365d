---------------------------- MODULE MCCollector ----------------------------
(***************************************************************************)
(* Collector on an arena of a few blocks, three times: under pressure, with*)
(* two sizes, two locals and two frames, collections for debt, for want of *)
(* room and for wrapped epochs; collecting at every request, with          *)
(* references to inline members, in an arena that is committed in pages;   *)
(* and with such references in two frames.                                 *)
(***************************************************************************)
EXTENDS Collector

\* The references to inline members that two of the instances have are no Null.
ASSUME ScenarioAssumption == Null \notin Nat \X {"whole", "inner"}

VARIABLE scenario

Interior == INSTANCE Collector WITH
    Capacity <- 128, PageSize <- 64, Threshold <- 1, EpochLimit <- 1, DebtMax <- 1,
    BodySizes <- {0}, Members <- {"whole", "inner"}, MaxDepth <- 1,
    Slots <- {CHOOSE s \in Slots : TRUE}
Nested == INSTANCE Collector WITH
    Capacity <- 96, PageSize <- 96, Threshold <- 48, DebtMax <- 48,
    BodySizes <- {0}, Members <- {"whole", "inner"},
    Slots <- {CHOOSE s \in Slots : TRUE}

ScenarioInit ==
    \/ scenario = "pressure" /\ CollectorInit
    \/ scenario = "interior" /\ Interior!CollectorInit
    \/ scenario = "nested" /\ Nested!CollectorInit

ScenarioNext ==
    /\ \/ scenario = "pressure" /\ CollectorNext
       \/ scenario = "interior" /\ Interior!CollectorNext
       \/ scenario = "nested" /\ Nested!CollectorNext
    /\ UNCHANGED scenario

Runtime ==
    /\ \/ scenario = "pressure" /\ (Allocate \/ Collection)
       \/ scenario = "interior" /\ (Interior!Allocate \/ Interior!Collection)
       \/ scenario = "nested" /\ (Nested!Allocate \/ Nested!Collection)
    /\ UNCHANGED scenario

scenarioVars == <<scenario, collectorVars>>
ScenarioSpec == ScenarioInit /\ [][ScenarioNext]_scenarioVars /\ WF_scenarioVars(Runtime)

\* The state is well typed, and what the program can reach is allocated, at every
\* moment: also while a sweep is half done, and for the field values that wait in
\* C locals, outside every frame, for the collection to finish.
NothingReachableFreed ==
    CASE scenario = "pressure" -> CollectorInv /\ ReachableAllocated
      [] scenario = "interior" -> Interior!CollectorInv /\ Interior!ReachableAllocated
      [] scenario = "nested" -> Nested!CollectorInv /\ Nested!ReachableAllocated

\* A collection is exact: when the request that caused it resumes, the blocks
\* left are those of which the program can reach some part.
CollectionsExact ==
    CASE scenario = "pressure" -> CollectionExact
      [] scenario = "interior" -> Interior!CollectionExact
      [] scenario = "nested" -> Nested!CollectionExact

\* The runtime never touches a field of an object the program can reach, nor a
\* local other than the destination of the allocation.
NothingReachableTouched ==
    [][CASE scenario = "pressure" -> LeavesReachable
         [] scenario = "interior" -> Interior!LeavesReachable
         [] scenario = "nested" -> Nested!LeavesReachable]_scenarioVars
=============================================================================
