CONSTANTS
    W <- MCW
    Size <- MCSize
    Calls <- MCCalls
SPECIFICATION HugeSpec
INVARIANTS
    ResultHasSign
CHECK_DEADLOCK FALSE
