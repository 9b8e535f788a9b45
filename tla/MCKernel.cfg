SPECIFICATION KernelSpec
CONSTANTS
    P1 = p1
    P2 = p2
    P3 = p3
    NTIMER = 2
    TICKS = 6
    Waiters = {1, 2}
    Delays = {1, 3}
    KPAGE = 4
    KPAGES = 3
    NCLASS = 2
    MaxObjects = 3
    KLOG = 3
    MaxLog = 7
    Disks = {0, 1}
    NBlocks = 2
    SETS = 1
    WAYS = 3
    Datas = {0, 1}
    MaxFaults = 1
    Uids = {0, 1, 2}
    Gids = {0, 1, 2}
    NGROUPS = 2
INVARIANTS
    ProtocolSound
    NamesSound
    NotesSound
    TimersSound
    HeapSound
    CacheSound
    NothingRegained
PROPERTIES
    GroupsSound
CHECK_DEADLOCK FALSE
