SPECIFICATION ContextSpec
INVARIANTS
    ContextTypeOK
    WideAgrees
    OriginalAgrees
