CONSTANTS
    NPROC = 3
    NFILE = 4
    NOFILE = 2
    NPIPE = 3
    NPDEV = 1
    PIPESIZE = 2
    CHUNK = 3
    Wrap = 4
    Values = {0, 1}
    MaxLen = 4
    Calls = {"pipe", "dup", "dup2", "close", "fork", "exit", "exec", "read", "write", "poll", "signal", "setfl", "ctl", "attach"}
    Loads = {"table", "queue", "wake", "signal", "ctl", "device"}
SPECIFICATION MCSpec
INVARIANTS
    RefsCounted
    EndsCounted
    SleepersWoken
PROPERTIES
    IsQueue
CHECK_DEADLOCK FALSE
