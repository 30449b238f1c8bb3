CONSTANTS
    LowBits = 8
    BitsInLong = 24
    Plans <- MCPlans
SPECIFICATION Spec
INVARIANTS
    TypeOK
    CarryHasRoom
    InStep
    RightWhileCovered
PROPERTIES
    ImplementsLossless
    FinishReturns
CHECK_DEADLOCK FALSE
