SPECIFICATION MCSpec
CONSTANTS
    h1 = h1
    h2 = h2
    Hosts = {h1, h2}
    W = 4
    Ports = {1}
    Ephemeral = {4, 5}
    NSOCK = 3
    NROUTE = 3
    NARP = 1
    ARP_PENDING = 2
    ARP_RETRY = 1
    ARP_TTL = 2
    NTXQ = 2
    DGRAM_LIMIT = 2
    NECONV = 2
    EQLEN = 2
    NQ = 2
    MaxTicks = 5
    Loads = {"arp", "late", "pairs", "ask", "ports", "raw", "conv", "ifc", "ether"}
INVARIANTS
    PacketsGoOn
PROPERTIES
    RightReceiver
CHECK_DEADLOCK FALSE
