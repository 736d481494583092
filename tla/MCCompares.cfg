CONSTANTS
    W <- MCW
    Size <- MCSize
    Calls <- MCCalls
SPECIFICATION MCSpec
INVARIANTS
    Footprint
    IInv
PROPERTIES
    Implements
CHECK_DEADLOCK FALSE
