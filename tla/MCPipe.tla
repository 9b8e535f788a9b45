------------------------------- MODULE MCPipe -------------------------------
(* Small instances of Pipe for TLC.  The programs that run do one of       *)
(* several kinds of work, which the initial state chooses.                 *)
EXTENDS Pipe

CONSTANT Loads    \* the kinds of work to choose from

VARIABLE load

(* procs and pipes: processes, and pipes made by sys_pipe, at a time;      *)
(* read and write: lengths; vals: bytes; events: arguments of poll.        *)
Work ==
    [table  |-> [procs |-> 2, pipes |-> 2, calls |-> {"pipe", "dup", "dup2", "close", "fork", "exit", "exec"},
                 read |-> {}, write |-> {}, vals |-> {}, events |-> {}],
     queue  |-> [procs |-> 2, pipes |-> 1, calls |-> {"pipe", "fork", "close", "setfl"},
                 read |-> {1, 2}, write |-> {3}, vals |-> Values, events |-> {}],
     wake   |-> [procs |-> 3, pipes |-> 1, calls |-> {"pipe", "fork", "close"},
                 read |-> {1}, write |-> {3}, vals |-> {0}, events |-> {{"in"}}],
     signal |-> [procs |-> 2, pipes |-> 1, calls |-> {"pipe", "fork", "close", "signal", "setfl"},
                 read |-> {1}, write |-> {4}, vals |-> {0}, events |-> {{"out"}}],
     ctl    |-> [procs |-> 2, pipes |-> 1, calls |-> {"pipe", "fork", "close", "exit", "ctl"},
                 read |-> {1}, write |-> {1, 3}, vals |-> {0}, events |-> {}],
     ends   |-> [procs |-> 2, pipes |-> 1, calls |-> {"pipe", "fork", "close", "exit", "signal"},
                 read |-> {1, 2}, write |-> {1, 2}, vals |-> {0}, events |-> SUBSET {"in", "out"}],
     device |-> [procs |-> 1, pipes |-> 1, calls |-> {"pipe", "dup", "attach", "exit"},
                 read |-> {}, write |-> {}, vals |-> {}, events |-> {}]]

Does(c) == c \in Work[load].calls

Program(p) ==
    LET w == Work[load]
    IN  \/ Does("close") /\ \E d \in FDs : Close(p, d)
        \/ Does("dup") /\ \E d \in FDs : Dup(p, d)
        \/ Does("dup2") /\ \E a, b \in FDs : Dup2(p, a, b)
        \/ Does("setfl") /\ \E d \in FDs, b \in BOOLEAN : SetFl(p, d, b)
        \/ Does("exec") /\ \E d \in FDs : SetFd(p, d)
        \/ Does("exec") /\ Exec(p)
        \/ Does("ctl") /\ \E q \in Procs, d \in FDs : CtlClose(p, q, d)
        \/ /\ Does("fork") /\ Cardinality({q \in Procs : call[q] # Unused}) < w.procs
           /\ \E c \in Procs : Fork(p, c)
        \/ Does("exit") /\ Exit(p)
        \/ /\ Does("pipe") /\ Cardinality({k \in Pipes : pipes[k].used}) < w.pipes
           /\ load = "ctl" => \A q \in Procs : call[q] \in {User, Unused}
           /\ PipeCall(p)
        \/ Does("attach") /\ Attach(p)
        \/ /\ Does("attach")
           /\ \E d \in Devs, e \in {2, 3}, m \in {<<TRUE, FALSE>>, <<FALSE, TRUE>>, <<TRUE, TRUE>>} :
                 OpenEnd(p, d, e, m[1], m[2])
        \/ \E d \in FDs, n \in w.read : Read(p, d, n)
        \/ \E d \in FDs, n \in w.write : \E src \in [1 .. n -> w.vals] : Write(p, d, src)
        \/ \E d \in FDs, ev \in w.events, t \in BOOLEAN : Poll(p, d, ev, t)
        \/ Does("signal") /\ Signal(p)

(* As long as every write blocks and no signal cuts one short, nobody      *)
(* sleeps in pipe_read or in a poll on what is already there (the wakeups  *)
(* of pipe_write, pipe_check and file_close).                              *)
BlockedReaderWoken == load \in {"wake", "ctl"} => ReaderWoken

(* Readers, writers and polls are woken for what they wait for, and by     *)
(* signals (the wakeups of pipe_read, pipe_write, pipe_check, file_close). *)
SleepersWoken == BlockedReaderWoken /\ WriterWoken

(* Pipes carry bytes as bounded queues: the ring buffer with its counters  *)
(* that wrap implements Fifo.                                              *)
Queue == INSTANCE Fifo WITH
    Chans <- Pipes, Capacity <- PIPESIZE,
    open <- {k \in Pipes : pipes[k].used}, q <- [k \in Pipes |-> IF pipes[k].used THEN Content(k) ELSE <<>>]

IsQueue == Queue!Spec

MCInit == Init /\ load \in Loads
MCNext ==
    /\ \/ \E p \in Procs : Program(p) \/ Resume(p) \/ PollTimeout(p) \/ Deliver(p)
       \/ \E d \in Devs : ReleaseDev(d)
    /\ UNCHANGED load
MCSpec == MCInit /\ [][MCNext]_<<vars, load>>
=============================================================================
