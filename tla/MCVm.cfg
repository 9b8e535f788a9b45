CONSTANTS
    NPROC = 2
    NFRAMES = 4
    Space = 10
    USER_BASE = 2
    HeapStart = 3
    MMAP_TOP = 6
    STACK_LOW = 8
    STACK_TOP = 9
    MaxMap = 3
    HeapLimit = 6
    Addrs = {4, 5}
    Touches = {3, 4, 5}
    Accesses = {"r", "w"}
    Prots <- Writable
    Shares = {TRUE, FALSE}
    Loads = {"cow", "share", "map", "pieces"}
    Failures = {"table", "region"}
    Calls = {"copyout", "fork", "exec", "exit", "sbrk", "mmap", "munmap", "fixed"}
SPECIFICATION MCSpec
INVARIANTS
    FramesCounted
    FaultsServed
    RegionsSound
PROPERTIES
    IsMemory
CHECK_DEADLOCK FALSE
