CONSTANTS
    NPROC = 4
    PidLimit = 5
    Signals = {1, 9, 10, 12, 17, 18, 19, 20, 21}
    Calls = {"fork", "exec", "exit", "waitpid", "pause", "kill", "sigaction", "sigprocmask", "sigreturn", "setpgid", "setsid", "ctty", "pgrp", "tty", "rpc", "serve"}
    KillSigs = {9, 10, 12, 18, 19, 20}
    ActSigs = {10, 12, 17}
    Actions = {"DFL", "IGN", "CATCH", "RESTART"}
    MaskSigs = {10}
    WaitPids <- Waits
    WaitOpts <- Options
    TtySigs = {20}
    MaxFrames = 2
    Loads = {"tree", "jobs", "stop", "tty", "nest", "restart", "rpc"}
SPECIFICATION MCSpec
INVARIANTS
    KinKnown
    WaitersHear
    SessionsAgree
    KillNotDeferred
    HandlersNest
PROPERTIES
    ExitContinuesOrphans
    UncaughtNeverInterrupts
CHECK_DEADLOCK FALSE
