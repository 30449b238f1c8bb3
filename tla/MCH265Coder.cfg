CONSTANT
    Plans <- MCPlans
SPECIFICATION Spec
INVARIANTS
    TypeOK
    CarryHasRoom
    InStep
PROPERTIES
    ImplementsLossless
CHECK_DEADLOCK FALSE
