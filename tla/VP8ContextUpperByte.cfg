SPECIFICATION ContextSpec
INVARIANTS
    UpperByteIsZero
