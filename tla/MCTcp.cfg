SPECIFICATION MCSpec
CONSTANTS
    client = client
    server = server
    Hosts <- HostSet
    Iss <- Iss0
    SeqMod = 24
    RINGSIZE = 3
    MSS = 2
    UPDATE = 2
    MAX_RETRIES = 1
    NetMax = 3
    Bytes = 4
    Loads = {"stream", "finish", "close", "both", "window", "open", "once"}
INVARIANTS
    StreamSound
    NobodyStuck
CHECK_DEADLOCK FALSE
