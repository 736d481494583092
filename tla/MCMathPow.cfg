SPECIFICATION Spec
CONSTANTS
    Routines <- SvePows
    Quiet <- MCQuiet
    Operands <- MCOperands
    Beside <- AnyBeside
    WANT_ERRNO_UFLOW = TRUE
INVARIANTS
    LaneIndependent
CHECK_DEADLOCK FALSE
