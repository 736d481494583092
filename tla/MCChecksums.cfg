CONSTANTS
    Radix <- MCRadix
    Mem <- MCMem
    Calls <- MCCalls
    MaxUnaligned <- MCMaxUnaligned
    MinAlignedAArch64 <- MCMinAlignedAArch64
    MinAlignedArm <- MCMinAlignedArm
SPECIFICATION Spec
INVARIANTS
    TypeOK
    CsumRight
    Footprint
    Assertions
    PartialSum
    IInv
PROPERTIES
    NoWrap
CHECK_DEADLOCK FALSE
