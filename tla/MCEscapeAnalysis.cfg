CONSTANTS
    main = main
    callee = callee
    keeper = keeper
    Functions = {main, callee, keeper}
    Main = main
    Outlines <- ChainOrRecursive
    Locals = {p, a}
    Param = p
    None = None
    MaxObjects = 2
    MaxFrames = 3
    MaxPath = 1
SPECIFICATION Spec
INVARIANT DirectlyStoredSound
INVARIANT CollectedHoldsNoScoped
CHECK_DEADLOCK FALSE
