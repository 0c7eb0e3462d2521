CONSTANTS
    x = x  ab = ab  p = p
    Locals <- MC_Locals
    Params <- MC_Params
    NameLen <- MC_NameLen
    Bucket <- MC_Bucket
    FIRST_SIZE = 8
    MEMINCR_BYTES = 2
    MULTIPLE = 4
    MaxBlocks = 3
    MaxRefs = 8
    MaxFuncs = 2
SPECIFICATION Spec
\* The run ends when MaxRefs identifier nodes have been lowered.
CHECK_DEADLOCK FALSE
INVARIANT
    NidsIdentifyNames
