CONSTANTS
    W <- MCW
    Size <- MCSize
    FillCalls <- MCFillCalls
    StringCalls <- MCStringCalls
SPECIFICATION Spec
INVARIANTS
    EffectAtRet
    Footprint
    IInv
PROPERTIES
    Returns
CHECK_DEADLOCK FALSE
