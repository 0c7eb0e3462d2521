CONSTANTS
    Funcs <- OneFunction
    MaxFuncs = 1
    MAX_IN_EDGES = 8
    targeting_arch64 = FALSE
    Vals = {0, 1, 200}
    LoopFuel = 3
    StepFuel = 300
SPECIFICATION Spec
INVARIANTS
    TypeOK
    BranchTargetsDefined
    InnerBlocksEndInBranch
    CFGEdgesSymmetric
    NumberingSound
    FrameLayoutSound
    IRImplementsSource
CHECK_DEADLOCK FALSE
