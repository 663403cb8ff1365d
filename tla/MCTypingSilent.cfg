CONSTANT Programs <- Silent
SPECIFICATION Spec
INVARIANT CompiledIsWellTyped
CHECK_DEADLOCK FALSE
