CONSTANTS
    Base = 4
    Scale = 4
    Bits = 2
    Hows = {1, 3}
    RawBytes = {2}
    MaxEncoders = 2
    MaxCalls = 5
SPECIFICATION Spec
INVARIANTS
    TypeOK
    InStep
    LoneEncoder
PROPERTIES
    ImplementsLossless
CHECK_DEADLOCK FALSE
