CONSTANT Programs <- Cutting
SPECIFICATION Spec
INVARIANT WarningsAreNotFatal
CHECK_DEADLOCK FALSE
