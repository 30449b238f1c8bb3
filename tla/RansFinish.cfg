CONSTANTS
    Scale = 4
    WordSize = 16
    STACK_SIZE = 4
    Used = {1, 2}
    MaxOps = 6
SPECIFICATION Spec
INVARIANTS
    FinishTakesNothing
CHECK_DEADLOCK FALSE
