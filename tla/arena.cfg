CONSTANTS
    FIRST_SIZE <- MC_FIRST_SIZE
    MEMINCR_BYTES <- MC_MEMINCR_BYTES
    MULTIPLE = 4
    Sizes <- MC_Sizes
    MaxAllocs = 6
    MaxBlocks = 3
SPECIFICATION Spec
\* The run ends when MaxAllocs calls have been made or the arena is destroyed.
CHECK_DEADLOCK FALSE
INVARIANTS
    TypeOK
PROPERTIES
    ArenaRefinement
