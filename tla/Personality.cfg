SPECIFICATION Spec
CONSTANTS
    Hierarchies <- SmallHierarchies
    ThrownTypes <- SmallTypes
    HandlerTypes <- SmallHandlerTypes
    Shapes <- AllShapes
    MaxFrames = 3
    MaxThrows = 2
INVARIANTS
    HandlerIsFirstMatch
    HandlerGetsObject
    CleanupsRun
    NoStaleLandingPad
    CastsFindTheBase
\* every propagation ends
CHECK_DEADLOCK FALSE
