CONSTANTS
  Keys <- MCKeys
  Values = {"x", "y"}
  Hash <- MCHash
  Listings <- MCListings
  CapacityMax = 16
  MaxLocks = 2
  a = a
  Elements = {a}
  ListLiterals <- MCListLiterals
  ListCapacityMax = 8
  ListIndices <- MCListIndices
  Lists = {l1, l2}
  NoList = NoList
  MaxFrames = 2
  MaxLoops = 2
  ArenaCapacity = 48
  OffsetMax = 47
  WordMax = 79
  Page = 16
  Alignment = 8
  BodySizes = {0, 1, 8, 13, 24, 32, 76}
  MaxCalls = 3
  MaxBlocks = 3
  TraceKeys = {1, 2, 3, 4, 5, 6}
  TraceHash <- MCTraceHash
  FirstItems = 2
  FirstSlots = 4
  Bits = 4
  Lengths = {0, 1, 2, 3}
  Texts = {"", "a", "b", "c", "bytes"}
  TextHash <- MCTextHash
  NonAscii = {"bytes"}
  LiteralLists <- MCLiteralLists
  MaxArguments = 3
SPECIFICATION RuntimeSpec
SYMMETRY Symmetry
INVARIANT RuntimeWellFormed
INVARIANT SlotsIndexEntries
INVARIANT LocksExact
INVARIANT SnapshotCurrent
INVARIANT ScopedBlocksApart
INVARIANT EnqueuedOnce
INVARIANT CheckedExactly
INVARIANT InternedByContents
PROPERTY ImplementsAbstractMap
CHECK_DEADLOCK FALSE
