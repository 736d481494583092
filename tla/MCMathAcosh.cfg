SPECIFICATION Spec
CONSTANTS
    Routines <- Acoshs
    Quiet = {}
    Operands <- MCOperands
    Beside <- MCBeside
    WANT_ERRNO_UFLOW = TRUE
INVARIANTS
    ErrnoRight
CHECK_DEADLOCK FALSE
