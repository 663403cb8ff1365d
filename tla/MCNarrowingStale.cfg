CONSTANTS
  A = A
  B = B
  a1 = a1
  a2 = a2
  b1 = b1
  Alternatives = {A, B}
  ValuesOf <- MCValuesOf
  Tested = A
  Opaque = Opaque
  MaxTokens = 6
SPECIFICATION Spec
SYMMETRY MCSymmetry
INVARIANT NarrowingNeverStale
CHECK_DEADLOCK FALSE
