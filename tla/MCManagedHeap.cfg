CONSTANTS
  Capacity = 288
  PageSize = 144
  Threshold = 128
  EpochLimit = 2
  DebtMax = 130
  BodySizes = {0, 20, 300}
SPECIFICATION Spec
INVARIANT HeapValid
INVARIANT SweptClean
PROPERTY LiveUndisturbed
PROPERTY NoStaleMark
PROPERTY ExhaustionIsReal
PROPERTY RequestReturns
PROPERTY ImplementsAbstractHeap
INVARIANT HeapInv
