CONSTANTS
    W <- MCW
    Memories <- MCMemories
    Pointers <- MCPointers
    Counts <- MCCounts
    Chars <- MCChars
    Size <- MCSize
SPECIFICATION Spec
INVARIANTS
    Footprint
    IInv
PROPERTIES
    Implements
CHECK_DEADLOCK FALSE
