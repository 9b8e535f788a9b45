SPECIFICATION MCSpec
CONSTANTS
    client = client
    server = server
    Hosts <- HostSet
    Iss <- Iss0
    SeqMod = 24
    RINGSIZE = 2
    MSS = 2
    UPDATE = 1
    MAX_RETRIES = 2
    NetMax = 2
    Bytes = 1
    Loads = {"once"}
INVARIANTS OneLossSurvived
CHECK_DEADLOCK FALSE
