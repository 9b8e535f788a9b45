SPECIFICATION MachineSpec
CONSTANTS
    PAGE = 2
    MAXLEN = 2
    GENS = 3
    MaxWrites = 3
    Ptes <- MCPtes
INVARIANTS
    InstructionsRight
    EventsKept
    SwitchesSound
    CachesInvisible
    ProgramsAsWritten
    BytesKept
    StubAgrees
CHECK_DEADLOCK FALSE
