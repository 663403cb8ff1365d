CONSTANTS
  Capacity = 256
  PageSize = 64
  Threshold = 128
  EpochLimit = 2
  DebtMax = 150
  BodySizes = {0, 20}
SPECIFICATION Spec
INVARIANT StaleReferenceRejected
