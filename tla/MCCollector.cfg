CONSTANTS
  Capacity = 160
  PageSize = 160
  Threshold = 96
  EpochLimit = 2
  DebtMax = 96
  BodySizes = {0, 84}
  Slots = {s1, s2}
  Members = {"whole"}
  MaxDepth = 2
  InitialItems = 2
  Null = Null
SPECIFICATION ScenarioSpec
INVARIANT NothingReachableFreed
INVARIANT CollectionsExact
PROPERTY NothingReachableTouched
PROPERTY AllocationReturns
CHECK_DEADLOCK FALSE
