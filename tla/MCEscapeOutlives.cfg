CONSTANTS
    main = main
    callee = callee
    keeper = keeper
    Functions = {main, callee}
    Main = main
    Outlines <- Single
    Locals = {p, a}
    Param = p
    None = None
    MaxObjects = 2
    MaxFrames = 3
    MaxPath = 2
SPECIFICATION Spec
INVARIANT ScopedDoesNotOutliveCall
CHECK_DEADLOCK FALSE
