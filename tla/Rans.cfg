CONSTANTS
    Scale = 4
    WordSize = 16
    STACK_SIZE = 4
    Used = {1, 2}
    MaxOps = 6
SPECIFICATION Spec
INVARIANTS
    TypeOK
    InStep
PROPERTIES
    ImplementsLossless
CHECK_DEADLOCK FALSE
