CONSTANTS
    Bits = 1
    Base = 2
    Scale = 4
    LANES = 2
    Hows = {1, 3}
    MaxBytes = 11
    MaxGets = 3
SPECIFICATION Spec
INVARIANTS
    TypeOK
    LanesAlike
    FailAlike
CHECK_DEADLOCK FALSE
