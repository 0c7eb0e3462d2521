CONSTANTS
    Funcs <- TempNamedParam
    MaxFuncs = 1
    MAX_IN_EDGES = 8
    targeting_arch64 = FALSE
    Vals = {0, 1, 200}
    LoopFuel = 3
    StepFuel = 300
SPECIFICATION Spec
INVARIANT IRImplementsSource
CHECK_DEADLOCK FALSE
