CONSTANTS
    Funcs <- VMFuncs
    Vals <- VMVals
    MaxFuncs = 4
    WORD_BITS = 12
    VM_LOCAL_START = 0
    VM_LOCAL_PARAM_END <- VMLocalParamEnd
    VM_STACK_ALIGN = 4
    targeting_arch64 = FALSE
    LoopFuel = 8
    StepFuel = 400
SPECIFICATION Spec
INVARIANTS
    TypeOK
    VMImplementsSource
    FrameSound
    LabelsPlacedOnce
    ResultTypesAsStandard
CHECK_DEADLOCK FALSE
