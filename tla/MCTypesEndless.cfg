SPECIFICATION Spec
CONSTANT Programs <- MCPrograms
CHECK_DEADLOCK FALSE
INVARIANT InfiniteIsRejected
