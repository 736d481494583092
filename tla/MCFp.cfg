CONSTANTS
    Calls <- MCCalls
SPECIFICATION MCSpec
INVARIANTS
    ArithmeticRight
    ComparesRight
CHECK_DEADLOCK FALSE
