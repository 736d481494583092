CONSTANTS
    AddrSpace <- MCAddrSpace
    Mem0 <- MCMem0
    Calls <- MCCalls
SPECIFICATION Spec
INVARIANTS
    TypeOK
    Footprint
    MovedAtRet
    IInv
PROPERTIES
    ImplementsMemMove
CHECK_DEADLOCK FALSE
