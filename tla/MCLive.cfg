CONSTANTS
    Parts = {"pipe", "proc"}
    NPROC = 2
    NFILE = 2
    NOFILE = 2
    NPIPE = 1
    NPDEV = 0
    PIPESIZE = 1
    CHUNK = 2
    Wrap = 2
    Values = {0}
    MaxLen = 2
    Calls = {"pipe", "dup", "dup2", "close", "fork", "exit", "exec", "read", "write", "poll", "signal", "setfl", "ctl", "attach"}
    Loads = {"ends"}
SPECIFICATION LiveSpec
PROPERTIES
    KillEnds
    CallsEnd
CHECK_DEADLOCK FALSE
