SPECIFICATION LiveSpec
PROPERTIES
    PushRequested
    SlotFreeUnlessHung
    LegacyRequestEnds
CHECK_DEADLOCK FALSE
