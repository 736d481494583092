SPECIFICATION Spec
CONSTANTS
    Routines <- Sv_atan2pif
    Quiet <- MCQuiet
    Operands <- MCOperands
    Beside <- MCBeside
    WANT_ERRNO_UFLOW = TRUE
INVARIANTS
    LaneIndependent
CHECK_DEADLOCK FALSE
