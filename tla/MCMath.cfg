SPECIFICATION Spec
CONSTANTS
    Routines <- MCRoutines
    Quiet <- MCQuiet
    Operands <- MCOperands
    Beside <- MCBeside
    WANT_ERRNO_UFLOW = TRUE
INVARIANTS
    TypeOK
    ResultRight
    LaneIndependent
    TablesInBounds
    ErrnoRight
    SignRight
CHECK_DEADLOCK FALSE
