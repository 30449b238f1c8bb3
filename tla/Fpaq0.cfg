CONSTANTS
    Base = 4
    Scale = 4
    Hows = {0, 1, 3}
    MaxOps = 5
SPECIFICATION Spec
INVARIANTS
    TypeOK
    Interval
    InStep
PROPERTIES
    ImplementsLossless
CHECK_DEADLOCK FALSE
