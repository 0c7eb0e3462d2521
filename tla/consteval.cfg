CONSTANTS
    Exprs <- StoreFreeExprs
    MaxEvals = 2
    WORD_BITS = 12
    targeting_arch64 = FALSE
SPECIFICATION Spec
\* The caller stops after MaxEvals evaluations, or after a fatal one.
CHECK_DEADLOCK FALSE
INVARIANTS
    TypeOK
    FoldIdempotent
