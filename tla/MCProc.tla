------------------------------- MODULE MCProc -------------------------------
(* Small instances of Proc for TLC.  The programs that run do one of       *)
(* several kinds of work, which the initial state chooses.                 *)
EXTENDS Proc

CONSTANT Loads    \* the kinds of work to choose from

VARIABLE load

Waits     == {-1, 0}
Options   == {{}, {"WUNTRACED", "WCONTINUED"}}

(* procs: processes at a time; kill, act and handle: the arguments of kill *)
(* and sigaction; who: the first arguments of waitpid.                     *)
Work ==
    [tree    |-> [procs |-> 3, calls |-> {"fork", "exit", "waitpid", "pause", "kill", "sigaction"},
                  kill |-> {9}, act |-> {17}, handle |-> {"DFL", "IGN"}, who |-> {-1}, opts |-> {}],
     jobs    |-> [procs |-> 4, calls |-> {"fork", "exit", "setpgid", "setsid", "kill"},
                  kill |-> {20}, act |-> {}, handle |-> {}, who |-> {}, opts |-> {}],
     stop    |-> [procs |-> 3, calls |-> {"fork", "exit", "waitpid", "kill"},
                  kill |-> {9, 18, 19}, act |-> {}, handle |-> {}, who |-> {-1, 0},
                  opts |-> {"WUNTRACED", "WCONTINUED"}],
     tty     |-> [procs |-> 3, calls |-> {"fork", "exit", "setpgid", "setsid", "ctty", "pgrp", "tty"},
                  kill |-> {}, act |-> {}, handle |-> {}, who |-> {}, opts |-> {}],
     nest    |-> [procs |-> 2, calls |-> {"fork", "pause", "kill", "sigaction", "sigreturn"},
                  kill |-> {10, 12}, act |-> {10, 12}, handle |-> {"CATCH"}, who |-> {}, opts |-> {}],
     restart |-> [procs |-> 2, calls |-> {"fork", "exec", "waitpid", "pause", "kill", "sigaction", "sigreturn"},
                  kill |-> {10, 18, 19}, act |-> {10}, handle |-> {"DFL", "CATCH", "RESTART"},
                  who |-> {-1}, opts |-> {}],
     rpc     |-> [procs |-> 2, calls |-> {"fork", "kill", "sigaction", "sigreturn", "rpc", "serve"},
                  kill |-> {9, 10, 18, 19}, act |-> {10}, handle |-> {"RESTART"}, who |-> {}, opts |-> {}],
     block   |-> [procs |-> 2, calls |-> {"fork", "exit", "waitpid", "pause", "kill", "sigprocmask"},
                  kill |-> {9, 10, 18, 19}, act |-> {}, handle |-> {}, who |-> {-1}, opts |-> {}]]

Does(c) == c \in Work[load].calls

Program(s) ==
    LET w == Work[load]
    IN  \/ /\ Does("fork") /\ Cardinality({t \in Slots : Used(t)}) < w.procs
           /\ \E nowait \in BOOLEAN : Fork(s, nowait)
        \/ Does("exec") /\ Exec(s)
        \/ Does("exit") /\ Exit(s)
        \/ Does("waitpid") /\ \E n \in w.who : Waitpid(s, n, w.opts)
        \/ Does("pause") /\ Pause(s)
        \/ Does("rpc") /\ Rpc(s)
        \/ Does("serve") /\ \E t \in Slots : Serve(s, t)
        \/ Does("kill") /\ \E T \in KillTargets(s), g \in w.kill : Kill(s, T, g)
        \/ Does("sigaction") /\ \E g \in w.act, h \in w.handle : sigaction(s, g, h)
        \/ Does("sigprocmask") /\ \E set \in SUBSET MaskSigs : sigprocmask(s, set)
        \/ Does("sigreturn") /\ sigreturn(s)
        \/ Does("setpgid") /\ \E p \in Slots, g \in Pids : setpgid(s, p, g)
        \/ Does("setsid") /\ setsid(s)
        \/ Does("ctty") /\ \E steal \in BOOLEAN : TiocsCtty(s, steal)
        \/ Does("pgrp") /\ \E g \in Pids : TiocsPgrp(s, g)
        \/ Does("tty") /\ TtyAccess(s, SIGTTIN)

MCInit == Init /\ load \in Loads
MCNext ==
    /\ \/ \E s \in Slots : Schedule(s) \/ Tick(s) \/ Program(s) \/ Kernel(s) \/ Redo(s)
       \/ Idle
       \/ Does("tty") /\ \E g \in TtySigs : TtyInput(g)
    /\ UNCHANGED load
MCSpec == MCInit /\ [][MCNext]_<<vars, load>>
=============================================================================
