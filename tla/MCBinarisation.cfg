CONSTANTS
    Lins = 2
    Tables <- MCTables
    WordBits = 2
    ByteBits = 2
    Bits = {1, 2}
    Widths = {0, 1, 3}
    Unaries = {0, 1, 3}
    Begins = {100, 57002}
    MaxOps = 2
SPECIFICATION Spec
INVARIANTS
    WrongContextFound
    PanicsForCause
PROPERTIES
    ImplementsLossless
CHECK_DEADLOCK FALSE
