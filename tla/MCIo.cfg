SPECIFICATION IoSpec
CONSTANTS
    Users = {u1, u2}
    P1 = p1
    P2 = p2
    Procs = {p1, p2}
    NPTY = 1
    TTYBUF = 3
    M = 6
    OBUF = 3
    RXBUF = 3
    Loads = {"con", "intr", "edit", "raw", "pty", "rawpty"}
INVARIANTS
    SocketsSound
PROPERTIES
    TtySound
SYMMETRY Symmetry
CHECK_DEADLOCK FALSE
