CONSTANTS
  t1 = t1
  t2 = t2
  b1 = b1
  b2 = b2
  b3 = b3
  Blocks = {b1, b2, b3}
  Entry = b1
  Temporaries = {t1, t2}
  other = other
  unreached = unreached
  Functions <- MCFunctions
  Containers = {c1, c2}
  MaxLocks = 2
  OuterLocks = {0, 1}
  Lengths = {0, 1}
  Positions <- MCPositions
  A = A
  B = B
  a1 = a1
  a2 = a2
  b = b
  Alternatives = {A, B}
  ValuesOf <- MCValuesOf
  Tested = A
  Opaque = Opaque
  MaxTokens = 7
  Sources = {"s", "t"}
  Lines <- MCLines
  MaxWords = 4
  MaxInvocations = 2
  Identifiers = {"x", "Error"}
  Intrinsics = {"print"}
  Heads <- MCHeads
  MaxSteps = 5
  MaxDepth = 6
SPECIFICATION CompilationSpec
SYMMETRY Symmetry
INVARIANT IterationInvariants
INVARIANT HeldAsValidated
INVARIANT ReturnsUnlocked
INVARIANT RunsOwnProgram
INVARIANT LineUnderstood
INVARIANT NamesResolved
INVARIANT LoweringFindsNarrowing
INVARIANT NarrowedReadCurrent
CHECK_DEADLOCK FALSE
