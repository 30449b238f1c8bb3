CONSTANTS
    Flag = 2
    MaxEncoders = 2
    Leads = {1, 2}
    MaxSlots = 6
SPECIFICATION Spec
INVARIANTS
    TypeOK
    SlotFound
    NothingHeldBack
    CompleteWhenFinished
PROPERTIES
    ImplementsMerged
CHECK_DEADLOCK FALSE
