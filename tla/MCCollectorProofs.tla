-------------------------- MODULE MCCollectorProofs --------------------------
(***************************************************************************)
(* The properties of the run collector hold of its three scenarios whatever*)
(* the constants that the scenarios leave open.  What CollectorProofs      *)
(* proves is taken for each of them; its definitions are compared with     *)
(* those of the scenario by expanding both.                                *)
(***************************************************************************)
EXTENDS MCCollector, CollectorProofs

InteriorProofs == INSTANCE CollectorProofs WITH
    Capacity <- 128, PageSize <- 64, Threshold <- 1, EpochLimit <- 1, DebtMax <- 1,
    BodySizes <- {0}, Members <- {"whole", "inner"}, MaxDepth <- 1,
    Slots <- {CHOOSE s \in Slots : TRUE}
NestedProofs == INSTANCE CollectorProofs WITH
    Capacity <- 96, PageSize <- 96, Threshold <- 48, DebtMax <- 48,
    BodySizes <- {0}, Members <- {"whole", "inner"},
    Slots <- {CHOOSE s \in Slots : TRUE}

LEMMA InteriorAssumptions ==
  /\ InteriorProofs!CapacityAssumption
  /\ InteriorProofs!PageAssumption
  /\ InteriorProofs!PolicyAssumption
  /\ InteriorProofs!BodyAssumption
  /\ InteriorProofs!CollectorAssumption
BY ScenarioAssumption, PolicyAssumption, CollectorAssumption
   DEF InteriorProofs!CapacityAssumption, InteriorProofs!PageAssumption, InteriorProofs!PolicyAssumption,
       InteriorProofs!BodyAssumption, InteriorProofs!CollectorAssumption, InteriorProofs!InitialCursor, InteriorProofs!Align

LEMMA InteriorIsThat ==
  /\ Interior!CollectorInit <=> InteriorProofs!CollectorInit
  /\ Interior!CollectorNext <=> InteriorProofs!CollectorNext
  /\ Interior!CollectorInv <=> InteriorProofs!CollectorInv
  /\ Interior!ReachableAllocated <=> InteriorProofs!ReachableAllocated
  /\ Interior!CollectionExact <=> InteriorProofs!CollectionExact
  /\ Interior!LeavesReachable <=> InteriorProofs!LeavesReachable
BY DEF Interior!program, InteriorProofs!program, Interior!trace, InteriorProofs!trace,
        Interior!Refs, InteriorProofs!Refs, Interior!Owner, InteriorProofs!Owner, Interior!Top,
        InteriorProofs!Top, Interior!Roots, InteriorProofs!Roots, Interior!Children,
        InteriorProofs!Children, Interior!Closed, InteriorProofs!Closed, Interior!Known,
        InteriorProofs!Known, Interior!Reachable, InteriorProofs!Reachable, Interior!Running,
        InteriorProofs!Running, Interior!Visible, InteriorProofs!Visible, Interior!Assign,
        InteriorProofs!Assign, Interior!Store, InteriorProofs!Store, Interior!Call,
        InteriorProofs!Call, Interior!Return, InteriorProofs!Return, Interior!New,
        InteriorProofs!New, Interior!Publish, InteriorProofs!Publish, Interior!Allocate,
        InteriorProofs!Allocate, Interior!PrepareTrace, InteriorProofs!PrepareTrace,
        Interior!NeedsScratch, InteriorProofs!NeedsScratch, Interior!Enqueue,
        InteriorProofs!Enqueue, Interior!TraceRoots, InteriorProofs!TraceRoots, Interior!DrainItem,
        InteriorProofs!DrainItem, Interior!ScratchExhausted, InteriorProofs!ScratchExhausted,
        Interior!Drained, InteriorProofs!Drained, Interior!SweepStep, InteriorProofs!SweepStep,
        Interior!CollectorInit, InteriorProofs!CollectorInit, Interior!Program,
        InteriorProofs!Program, Interior!Collection, InteriorProofs!Collection,
        Interior!CollectorNext, InteriorProofs!CollectorNext, Interior!CollectorTypeOK,
        InteriorProofs!CollectorTypeOK, Interior!ReachableAllocated,
        InteriorProofs!ReachableAllocated, Interior!CollectionExact,
        InteriorProofs!CollectionExact, Interior!LeavesReachable, InteriorProofs!LeavesReachable,
        Interior!OperandInv, InteriorProofs!OperandInv, Interior!BodyInv, InteriorProofs!BodyInv,
        Interior!ReachableInv, InteriorProofs!ReachableInv, Interior!TraceInv,
        InteriorProofs!TraceInv, Interior!KeptInv, InteriorProofs!KeptInv, Interior!CollectorInv,
        InteriorProofs!CollectorInv, Interior!Align, InteriorProofs!Align, Interior!HeaderSize,
        InteriorProofs!HeaderSize, Interior!InitialCursor, InteriorProofs!InitialCursor,
        Interior!memory, InteriorProofs!memory, Interior!walk, InteriorProofs!walk, Interior!sweep,
        InteriorProofs!sweep, Interior!vars, InteriorProofs!vars, Interior!Phases,
        InteriorProofs!Phases, Interior!Triggers, InteriorProofs!Triggers, Interior!Results,
        InteriorProofs!Results, Interior!RoundUp, InteriorProofs!RoundUp, Interior!HeapSpan,
        InteriorProofs!HeapSpan, Interior!MinimumSpan, InteriorProofs!MinimumSpan, Interior!Header,
        InteriorProofs!Header, Interior!AllocatedHeader, InteriorProofs!AllocatedHeader,
        Interior!FreeHeader, InteriorProofs!FreeHeader, Interior!Blocks, InteriorProofs!Blocks,
        Interior!Allocated, InteriorProofs!Allocated, Interior!Free, InteriorProofs!Free,
        Interior!End, InteriorProofs!End, Interior!Required, InteriorProofs!Required,
        Interior!Init, InteriorProofs!Init, Interior!RejectRequest, InteriorProofs!RejectRequest,
        Interior!StartRequest, InteriorProofs!StartRequest, Interior!PolicyRequest,
        InteriorProofs!PolicyRequest, Interior!PlainRequest, InteriorProofs!PlainRequest,
        Interior!Finish, InteriorProofs!Finish, Interior!Charge, InteriorProofs!Charge,
        Interior!WalkNext, InteriorProofs!WalkNext, Interior!Fits, InteriorProofs!Fits,
        Interior!Overwrite, InteriorProofs!Overwrite, Interior!TakeSplit, InteriorProofs!TakeSplit,
        Interior!TakeWhole, InteriorProofs!TakeWhole, Interior!ListExhausted,
        InteriorProofs!ListExhausted, Interior!RoomAtFrontier, InteriorProofs!RoomAtFrontier,
        Interior!Bump, InteriorProofs!Bump, Interior!CommitFailure, InteriorProofs!CommitFailure,
        Interior!PressureRequest, InteriorProofs!PressureRequest, Interior!Exhausted,
        InteriorProofs!Exhausted, Interior!ErasedMarks, InteriorProofs!ErasedMarks,
        Interior!PrepareCollectionEpoch, InteriorProofs!PrepareCollectionEpoch, Interior!TraceMark,
        InteriorProofs!TraceMark, Interior!TraceFailed, InteriorProofs!TraceFailed,
        Interior!TraceDone, InteriorProofs!TraceDone, Interior!SweepAt, InteriorProofs!SweepAt,
        Interior!Live, InteriorProofs!Live, Interior!RunInterior, InteriorProofs!RunInterior,
        Interior!AppendFreeRun, InteriorProofs!AppendFreeRun, Interior!SweepLive,
        InteriorProofs!SweepLive, Interior!SweepDead, InteriorProofs!SweepDead, Interior!SweepDone,
        InteriorProofs!SweepDone, Interior!MemoryType, InteriorProofs!MemoryType,
        Interior!ControlType, InteriorProofs!ControlType, Interior!RegisterType,
        InteriorProofs!RegisterType, Interior!TypeOK, InteriorProofs!TypeOK, Interior!Tiled,
        InteriorProofs!Tiled, Interior!Follows, InteriorProofs!Follows, Interior!FreeListExact,
        InteriorProofs!FreeListExact, Interior!StorageBacked, InteriorProofs!StorageBacked,
        Interior!SweptClean, InteriorProofs!SweptClean, Interior!Link, InteriorProofs!Link,
        Interior!WalkInv, InteriorProofs!WalkInv, Interior!MarkInv, InteriorProofs!MarkInv,
        Interior!Swept, InteriorProofs!Swept, Interior!SweepInv, InteriorProofs!SweepInv,
        Interior!HeapInv, InteriorProofs!HeapInv, Interior!Cardinality, InteriorProofs!Cardinality

LEMMA InteriorFacts ==
  /\ Interior!CollectorInit => Interior!CollectorInv
  /\ Interior!CollectorInv => Interior!ReachableAllocated /\ Interior!CollectionExact
  /\ Interior!CollectorInv /\ [Interior!CollectorNext]_collectorVars =>
       Interior!CollectorInv' /\ [Interior!LeavesReachable]_collectorVars
<1>1. InteriorProofs!CollectorInit => InteriorProofs!CollectorInv
  BY InteriorAssumptions, InteriorProofs!CollectorInitInv
<1>2. InteriorProofs!CollectorInv => InteriorProofs!ReachableAllocated /\ InteriorProofs!CollectionExact
  BY InteriorAssumptions, InteriorProofs!ReachableFollows, InteriorProofs!ExactFollows
<1>3. InteriorProofs!CollectorInv /\ [InteriorProofs!CollectorNext]_collectorVars =>
        InteriorProofs!CollectorInv' /\ [InteriorProofs!LeavesReachable]_collectorVars
  BY InteriorAssumptions, InteriorProofs!CollectorStepInv, InteriorProofs!LeavesFollows
  DEF InteriorProofs!collectorVars, collectorVars, InteriorProofs!vars, vars, InteriorProofs!memory, memory, InteriorProofs!walk, walk,
      InteriorProofs!sweep, sweep, InteriorProofs!program, program, InteriorProofs!trace, trace
<1>4. Interior!CollectorInv' <=> InteriorProofs!CollectorInv'
  BY InteriorIsThat, PTL
<1> QED BY <1>1, <1>2, <1>3, <1>4, InteriorIsThat

LEMMA NestedAssumptions ==
  /\ NestedProofs!CapacityAssumption
  /\ NestedProofs!PageAssumption
  /\ NestedProofs!PolicyAssumption
  /\ NestedProofs!BodyAssumption
  /\ NestedProofs!CollectorAssumption
BY ScenarioAssumption, PolicyAssumption, CollectorAssumption
   DEF NestedProofs!CapacityAssumption, NestedProofs!PageAssumption, NestedProofs!PolicyAssumption,
       NestedProofs!BodyAssumption, NestedProofs!CollectorAssumption, NestedProofs!InitialCursor, NestedProofs!Align

LEMMA NestedIsThat ==
  /\ Nested!CollectorInit <=> NestedProofs!CollectorInit
  /\ Nested!CollectorNext <=> NestedProofs!CollectorNext
  /\ Nested!CollectorInv <=> NestedProofs!CollectorInv
  /\ Nested!ReachableAllocated <=> NestedProofs!ReachableAllocated
  /\ Nested!CollectionExact <=> NestedProofs!CollectionExact
  /\ Nested!LeavesReachable <=> NestedProofs!LeavesReachable
BY DEF Nested!program, NestedProofs!program, Nested!trace, NestedProofs!trace, Nested!Refs,
        NestedProofs!Refs, Nested!Owner, NestedProofs!Owner, Nested!Top, NestedProofs!Top,
        Nested!Roots, NestedProofs!Roots, Nested!Children, NestedProofs!Children, Nested!Closed,
        NestedProofs!Closed, Nested!Known, NestedProofs!Known, Nested!Reachable,
        NestedProofs!Reachable, Nested!Running, NestedProofs!Running, Nested!Visible,
        NestedProofs!Visible, Nested!Assign, NestedProofs!Assign, Nested!Store, NestedProofs!Store,
        Nested!Call, NestedProofs!Call, Nested!Return, NestedProofs!Return, Nested!New,
        NestedProofs!New, Nested!Publish, NestedProofs!Publish, Nested!Allocate,
        NestedProofs!Allocate, Nested!PrepareTrace, NestedProofs!PrepareTrace, Nested!NeedsScratch,
        NestedProofs!NeedsScratch, Nested!Enqueue, NestedProofs!Enqueue, Nested!TraceRoots,
        NestedProofs!TraceRoots, Nested!DrainItem, NestedProofs!DrainItem, Nested!ScratchExhausted,
        NestedProofs!ScratchExhausted, Nested!Drained, NestedProofs!Drained, Nested!SweepStep,
        NestedProofs!SweepStep, Nested!CollectorInit, NestedProofs!CollectorInit, Nested!Program,
        NestedProofs!Program, Nested!Collection, NestedProofs!Collection, Nested!CollectorNext,
        NestedProofs!CollectorNext, Nested!CollectorTypeOK, NestedProofs!CollectorTypeOK,
        Nested!ReachableAllocated, NestedProofs!ReachableAllocated, Nested!CollectionExact,
        NestedProofs!CollectionExact, Nested!LeavesReachable, NestedProofs!LeavesReachable,
        Nested!OperandInv, NestedProofs!OperandInv, Nested!BodyInv, NestedProofs!BodyInv,
        Nested!ReachableInv, NestedProofs!ReachableInv, Nested!TraceInv, NestedProofs!TraceInv,
        Nested!KeptInv, NestedProofs!KeptInv, Nested!CollectorInv, NestedProofs!CollectorInv,
        Nested!Align, NestedProofs!Align, Nested!HeaderSize, NestedProofs!HeaderSize,
        Nested!InitialCursor, NestedProofs!InitialCursor, Nested!memory, NestedProofs!memory,
        Nested!walk, NestedProofs!walk, Nested!sweep, NestedProofs!sweep, Nested!vars,
        NestedProofs!vars, Nested!Phases, NestedProofs!Phases, Nested!Triggers,
        NestedProofs!Triggers, Nested!Results, NestedProofs!Results, Nested!RoundUp,
        NestedProofs!RoundUp, Nested!HeapSpan, NestedProofs!HeapSpan, Nested!MinimumSpan,
        NestedProofs!MinimumSpan, Nested!Header, NestedProofs!Header, Nested!AllocatedHeader,
        NestedProofs!AllocatedHeader, Nested!FreeHeader, NestedProofs!FreeHeader, Nested!Blocks,
        NestedProofs!Blocks, Nested!Allocated, NestedProofs!Allocated, Nested!Free,
        NestedProofs!Free, Nested!End, NestedProofs!End, Nested!Required, NestedProofs!Required,
        Nested!Init, NestedProofs!Init, Nested!RejectRequest, NestedProofs!RejectRequest,
        Nested!StartRequest, NestedProofs!StartRequest, Nested!PolicyRequest,
        NestedProofs!PolicyRequest, Nested!PlainRequest, NestedProofs!PlainRequest, Nested!Finish,
        NestedProofs!Finish, Nested!Charge, NestedProofs!Charge, Nested!WalkNext,
        NestedProofs!WalkNext, Nested!Fits, NestedProofs!Fits, Nested!Overwrite,
        NestedProofs!Overwrite, Nested!TakeSplit, NestedProofs!TakeSplit, Nested!TakeWhole,
        NestedProofs!TakeWhole, Nested!ListExhausted, NestedProofs!ListExhausted,
        Nested!RoomAtFrontier, NestedProofs!RoomAtFrontier, Nested!Bump, NestedProofs!Bump,
        Nested!CommitFailure, NestedProofs!CommitFailure, Nested!PressureRequest,
        NestedProofs!PressureRequest, Nested!Exhausted, NestedProofs!Exhausted, Nested!ErasedMarks,
        NestedProofs!ErasedMarks, Nested!PrepareCollectionEpoch,
        NestedProofs!PrepareCollectionEpoch, Nested!TraceMark, NestedProofs!TraceMark,
        Nested!TraceFailed, NestedProofs!TraceFailed, Nested!TraceDone, NestedProofs!TraceDone,
        Nested!SweepAt, NestedProofs!SweepAt, Nested!Live, NestedProofs!Live, Nested!RunInterior,
        NestedProofs!RunInterior, Nested!AppendFreeRun, NestedProofs!AppendFreeRun,
        Nested!SweepLive, NestedProofs!SweepLive, Nested!SweepDead, NestedProofs!SweepDead,
        Nested!SweepDone, NestedProofs!SweepDone, Nested!MemoryType, NestedProofs!MemoryType,
        Nested!ControlType, NestedProofs!ControlType, Nested!RegisterType,
        NestedProofs!RegisterType, Nested!TypeOK, NestedProofs!TypeOK, Nested!Tiled,
        NestedProofs!Tiled, Nested!Follows, NestedProofs!Follows, Nested!FreeListExact,
        NestedProofs!FreeListExact, Nested!StorageBacked, NestedProofs!StorageBacked,
        Nested!SweptClean, NestedProofs!SweptClean, Nested!Link, NestedProofs!Link, Nested!WalkInv,
        NestedProofs!WalkInv, Nested!MarkInv, NestedProofs!MarkInv, Nested!Swept,
        NestedProofs!Swept, Nested!SweepInv, NestedProofs!SweepInv, Nested!HeapInv,
        NestedProofs!HeapInv, Nested!Cardinality, NestedProofs!Cardinality

LEMMA NestedFacts ==
  /\ Nested!CollectorInit => Nested!CollectorInv
  /\ Nested!CollectorInv => Nested!ReachableAllocated /\ Nested!CollectionExact
  /\ Nested!CollectorInv /\ [Nested!CollectorNext]_collectorVars =>
       Nested!CollectorInv' /\ [Nested!LeavesReachable]_collectorVars
<1>1. NestedProofs!CollectorInit => NestedProofs!CollectorInv
  BY NestedAssumptions, NestedProofs!CollectorInitInv
<1>2. NestedProofs!CollectorInv => NestedProofs!ReachableAllocated /\ NestedProofs!CollectionExact
  BY NestedAssumptions, NestedProofs!ReachableFollows, NestedProofs!ExactFollows
<1>3. NestedProofs!CollectorInv /\ [NestedProofs!CollectorNext]_collectorVars =>
        NestedProofs!CollectorInv' /\ [NestedProofs!LeavesReachable]_collectorVars
  BY NestedAssumptions, NestedProofs!CollectorStepInv, NestedProofs!LeavesFollows
  DEF NestedProofs!collectorVars, collectorVars, NestedProofs!vars, vars, NestedProofs!memory, memory, NestedProofs!walk, walk,
      NestedProofs!sweep, sweep, NestedProofs!program, program, NestedProofs!trace, trace
<1>4. Nested!CollectorInv' <=> NestedProofs!CollectorInv'
  BY NestedIsThat, PTL
<1> QED BY <1>1, <1>2, <1>3, <1>4, NestedIsThat

-----------------------------------------------------------------------------
(* The three scenarios together. *)

ScenarioInv ==
  \/ scenario = "pressure" /\ CollectorInv
  \/ scenario = "interior" /\ Interior!CollectorInv
  \/ scenario = "nested" /\ Nested!CollectorInv

LEMMA PressureFacts ==
  /\ CollectorInit => CollectorInv
  /\ CollectorInv => ReachableAllocated /\ CollectionExact
  /\ CollectorInv /\ [CollectorNext]_collectorVars =>
       CollectorInv' /\ [LeavesReachable]_collectorVars
BY CollectorInitInv, ReachableFollows, ExactFollows, CollectorStepInv, LeavesFollows

LEMMA ScenarioInitInv == ScenarioInit => ScenarioInv
BY PressureFacts, InteriorFacts, NestedFacts DEF ScenarioInit, ScenarioInv

LEMMA ScenarioStepInv == ScenarioInv /\ [ScenarioNext]_scenarioVars => ScenarioInv'
BY PressureFacts, InteriorFacts, NestedFacts DEF ScenarioNext, ScenarioInv, scenarioVars

THEOREM ScenarioInvariance == ScenarioSpec => []ScenarioInv
BY ScenarioInitInv, ScenarioStepInv, PTL DEF ScenarioSpec

\* No collection frees what the program can reach, in any of the scenarios.
THEOREM ScenariosKeepReachable == ScenarioSpec => []NothingReachableFreed
<1>1. ScenarioInv => NothingReachableFreed
  BY PressureFacts, InteriorFacts, NestedFacts DEF ScenarioInv, NothingReachableFreed
<1> QED BY <1>1, ScenarioInvariance, PTL

\* What a collection leaves is what the program can reach, in any of them.
THEOREM ScenariosAreExact == ScenarioSpec => []CollectionsExact
<1>1. ScenarioInv => CollectionsExact
  BY PressureFacts, InteriorFacts, NestedFacts DEF ScenarioInv, CollectionsExact
<1> QED BY <1>1, ScenarioInvariance, PTL

\* The runtime leaves the objects the program can reach as they are, in any of them.
THEOREM ScenariosLeaveReachable == ScenarioSpec => NothingReachableTouched
<1>1. ScenarioInv /\ [ScenarioNext]_scenarioVars =>
        [CASE scenario = "pressure" -> LeavesReachable
           [] scenario = "interior" -> Interior!LeavesReachable
           [] scenario = "nested" -> Nested!LeavesReachable]_scenarioVars
  BY PressureFacts, InteriorFacts, NestedFacts DEF ScenarioInv, ScenarioNext, scenarioVars
<1> QED BY <1>1, ScenarioInvariance, PTL DEF ScenarioSpec, NothingReachableTouched
=============================================================================
