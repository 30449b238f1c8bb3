SPECIFICATION ContextSpec
INVARIANTS
    ContextTypeOK
    Never63
    Normalised
