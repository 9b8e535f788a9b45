---------------------------------- MODULE Pipe ----------------------------------
(***************************************************************************)
(* The open file table, the pipes, the pipe device #| and poll:            *)
(* src/os/kernel/file.c with dev9.c, the descriptor parts of proc.c and    *)
(* the control message close of procfs.c.                                  *)
(*                                                                         *)
(* The kernel is not preemptive, so a call runs without interference from  *)
(* its start, or from the point where it is woken, to the next sleep_on or *)
(* its return: that stretch is one action.  call[p] holds the locals a     *)
(* call keeps over a sleep, asleep[p] the queue its process sleeps on.     *)
(* A file carries the pipe it reads, rp (File.pipe), and the pipe it       *)
(* writes, wp (File.pipe2, or File.pipe where pipe2 is NULL).              *)
(***************************************************************************)
EXTENDS Integers, FiniteSets, Sequences, FiniteSetsExt

CONSTANTS
    NPROC,      \* processes
    NFILE,      \* entries of the open file table
    NOFILE,     \* descriptors of a process
    NPIPE,      \* pipes
    NPDEV,      \* instances of the pipe device
    PIPESIZE,   \* bytes a pipe holds
    CHUNK,      \* bytes write_loop passes to one pipe_write
    Wrap,       \* modulus of the counters nread and nwrite, 2^32 in the code
    Values,     \* bytes
    MaxLen,     \* longest read and write
    Calls       \* the operations this instance makes

ASSUME PipeAssumption ==
    /\ {NPROC, NFILE, NOFILE, NPIPE, PIPESIZE, CHUNK, Wrap, MaxLen} \subseteq Nat \ {0}
    /\ NPDEV \in Nat
    /\ Wrap % PIPESIZE = 0 /\ Wrap > PIPESIZE

Procs == 1 .. NPROC
Files == 1 .. NFILE
FDs   == 0 .. NOFILE - 1
Pipes == 1 .. NPIPE
Devs  == 1 .. NPDEV
None  == 0

VARIABLES
    files,    \* open file table
    pipes,    \* pipe table
    devs,     \* instances of the pipe device
    fds,      \* descriptors of each process: a file or None
    cloexec,  \* descriptors of each process closed by exec
    call,     \* the call each process is in
    asleep,   \* the queue each process sleeps on, Awake for none
    pend,     \* an unblocked signal is pending
    fired     \* timer_fired, of the poll the process is in

vars == <<files, pipes, devs, fds, cloexec, call, asleep, pend, fired>>

Awake   == <<"awake", 0>>
RQ(k)   == <<"rwq", k>>
WQ(k)   == <<"wwq", k>>
PollWQ  == <<"poll_wq", 0>>

FreeFile == [ref |-> 0, rp |-> None, wp |-> None, rd |-> FALSE, wr |-> FALSE, nonblock |-> FALSE]
ZeroPipe == [used |-> FALSE, nread |-> 0, nwrite |-> 0, readers |-> 0, writers |-> 0,
             buf |-> [i \in 0 .. PIPESIZE - 1 |-> CHOOSE v \in Values : TRUE]]
FreeDev  == [used |-> FALSE, ab |-> None, ba |-> None, opened |-> {}]

User   == [op |-> "user"]
Unused == [op |-> "unused"]

(* The process runs user code: it has no call and nothing to be delivered *)
UserMode(p) == call[p] = User /\ ~pend[p]

Count(k) == (pipes[k].nwrite - pipes[k].nread) % Wrap

(* The bytes in the pipe, the oldest first *)
Content(k) == [i \in 1 .. Count(k) |-> pipes[k].buf[(pipes[k].nread + i - 1) % PIPESIZE]]

(* wakeup of every queue of Q *)
Woken(Q) == [p \in Procs |-> IF asleep[p] \in Q THEN Awake ELSE asleep[p]]

(* A slip: the last reader leaves without a word to the writers *)
PipeQueuesNoWriters(K) == {RQ(k) : k \in K} \cup {PollWQ}
PipeQueues(K) == {RQ(k) : k \in K} \cup {WQ(k) : k \in K} \cup {PollWQ}

FileFree == {f \in Files : files[f].ref = 0}
PipeFree == {k \in Pipes : ~pipes[k].used}
FdFree(p) == {d \in FDs : fds[p][d] = None}

--------------------------------------------------------------------------------
(* file_close, for gone[f] of the references to every file f: the files    *)
(* that lose their last one give up their ends, and pipe_check wakes the   *)
(* sleepers of both their pipes and frees a pipe without ends.             *)

Ended(gone) == {f \in Files : gone[f] > 0 /\ files[f].ref = gone[f]}

Touched(gone) == {k \in Pipes : \E f \in Ended(gone) : k \in {files[f].rp, files[f].wp}}

FilesAfter(gone) ==
    [f \in Files |-> IF f \in Ended(gone) THEN FreeFile
                     ELSE [files[f] EXCEPT !.ref = @ - gone[f]]]

(* A slip: the writable end is not given up *)
PipesAfterNoWriters(gone) ==
    [k \in Pipes |->
        LET r == pipes[k].readers - Cardinality({f \in Ended(gone) : files[f].rd /\ files[f].rp = k})
            w == pipes[k].writers
        IN  [pipes[k] EXCEPT !.readers = r,
                             !.used = @ /\ ~(k \in Touched(gone) /\ r <= 0 /\ w <= 0)]]

PipesAfter(gone) ==
    [k \in Pipes |->
        LET r == pipes[k].readers - Cardinality({f \in Ended(gone) : files[f].rd /\ files[f].rp = k})
            w == pipes[k].writers - Cardinality({f \in Ended(gone) : files[f].wr /\ files[f].wp = k})
        IN  [pipes[k] EXCEPT !.readers = r, !.writers = w,
                             !.used = @ /\ ~(k \in Touched(gone) /\ r <= 0 /\ w <= 0)]]

(* The process p loses the descriptors D *)
CloseFds(p, D) ==
    LET gone == [f \in Files |-> Cardinality({d \in D : fds[p][d] = f})]
    IN  /\ files' = FilesAfter(gone)
        /\ pipes' = PipesAfter(gone)
        /\ asleep' = Woken(IF Ended(gone) = {} THEN {} ELSE PipeQueues(Touched(gone)))

Close(p, d) ==
    /\ "close" \in Calls /\ UserMode(p) /\ fds[p][d] # None
    /\ CloseFds(p, {d})
    /\ fds' = [fds EXCEPT ![p][d] = None]
    /\ cloexec' = [cloexec EXCEPT ![p] = @ \ {d}]
    /\ UNCHANGED <<devs, call, pend, fired>>

Dup(p, d) ==
    /\ "dup" \in Calls /\ UserMode(p) /\ fds[p][d] # None /\ FdFree(p) # {}
    /\ LET n == Min(FdFree(p))
       IN  /\ fds' = [fds EXCEPT ![p][n] = fds[p][d]]
           /\ cloexec' = [cloexec EXCEPT ![p] = @ \ {n}]
    /\ files' = [files EXCEPT ![fds[p][d]].ref = @ + 1]
    /\ UNCHANGED <<pipes, devs, call, asleep, pend, fired>>

(* A slip: the old file of b is forgotten, not closed *)
Dup2NoClose(p, a, b) ==
    /\ "dup2" \in Calls /\ UserMode(p) /\ fds[p][a] # None /\ a # b
    /\ files' = [files EXCEPT ![fds[p][a]].ref = @ + 1]
    /\ fds' = [fds EXCEPT ![p][b] = fds[p][a]]
    /\ cloexec' = [cloexec EXCEPT ![p] = @ \ {b}]
    /\ UNCHANGED <<pipes, devs, call, asleep, pend, fired>>

(* The old file of b is closed before the reference of a is counted *)
Dup2(p, a, b) ==
    /\ "dup2" \in Calls /\ UserMode(p) /\ fds[p][a] # None /\ a # b
    /\ LET gone == [f \in Files |-> IF fds[p][b] = f THEN 1 ELSE 0]
       IN  /\ files' = [FilesAfter(gone) EXCEPT ![fds[p][a]].ref = @ + 1]
           /\ pipes' = PipesAfter(gone)
           /\ asleep' = Woken(IF Ended(gone) = {} THEN {} ELSE PipeQueues(Touched(gone)))
    /\ fds' = [fds EXCEPT ![p][b] = fds[p][a]]
    /\ cloexec' = [cloexec EXCEPT ![p] = @ \ {b}]
    /\ UNCHANGED <<devs, call, pend, fired>>

(* F_SETFL and F_SETFD *)
SetFl(p, d, b) ==
    /\ "setfl" \in Calls /\ UserMode(p) /\ fds[p][d] # None
    /\ files' = [files EXCEPT ![fds[p][d]].nonblock = b]
    /\ UNCHANGED <<pipes, devs, fds, cloexec, call, asleep, pend, fired>>

SetFd(p, d) ==
    /\ "exec" \in Calls /\ UserMode(p) /\ fds[p][d] # None
    /\ cloexec' = [cloexec EXCEPT ![p] = @ \cup {d}]
    /\ UNCHANGED <<files, pipes, devs, fds, call, asleep, pend, fired>>

(* A control message of the process q closes a descriptor of p, whatever p *)
(* is doing.                                                               *)
CtlClose(q, p, d) ==
    /\ "ctl" \in Calls /\ UserMode(q) /\ call[p] # Unused /\ fds[p][d] # None
    /\ CloseFds(p, {d})
    /\ fds' = [fds EXCEPT ![p][d] = None]
    /\ cloexec' = [cloexec EXCEPT ![p] = @ \ {d}]
    /\ UNCHANGED <<devs, call, pend, fired>>
--------------------------------------------------------------------------------
(* The descriptor table at fork, exec and exit *)

Fork(p, c) ==
    /\ "fork" \in Calls /\ UserMode(p) /\ call[c] = Unused
    /\ files' = [f \in Files |->
                    [files[f] EXCEPT !.ref = @ + Cardinality({d \in FDs : fds[p][d] = f})]]
    /\ fds' = [fds EXCEPT ![c] = fds[p]]
    /\ cloexec' = [cloexec EXCEPT ![c] = cloexec[p]]
    /\ call' = [call EXCEPT ![c] = User]
    /\ UNCHANGED <<pipes, devs, asleep, pend, fired>>

Exec(p) ==
    /\ "exec" \in Calls /\ UserMode(p) /\ cloexec[p] # {}
    /\ CloseFds(p, cloexec[p])
    /\ fds' = [fds EXCEPT ![p] = [d \in FDs |-> IF d \in cloexec[p] THEN None ELSE @[d]]]
    /\ cloexec' = [cloexec EXCEPT ![p] = {}]
    /\ UNCHANGED <<devs, call, pend, fired>>

(* A process ends by itself or when a pending signal ends it *)
Exit(p) ==
    /\ "exit" \in Calls /\ call[p] = User
    /\ CloseFds(p, FDs)
    /\ fds' = [fds EXCEPT ![p] = [d \in FDs |-> None]]
    /\ cloexec' = [cloexec EXCEPT ![p] = {}]
    /\ call' = [call EXCEPT ![p] = Unused]
    /\ pend' = [pend EXCEPT ![p] = FALSE]
    /\ UNCHANGED <<devs, fired>>

--------------------------------------------------------------------------------
(* sys_pipe: the first unused pipe, two files, two descriptors.  Without   *)
(* two files nothing changes; without two descriptors both files are       *)
(* closed again, which frees the pipe it has cleared.                      *)

PipeCall(p) ==
    /\ "pipe" \in Calls /\ UserMode(p) /\ PipeFree # {} /\ Cardinality(FileFree) >= 2
    /\ LET k  == Min(PipeFree)
           rf == Min(FileFree)
           wf == Min(FileFree \ {rf})
           rd == Min(FdFree(p))
           wd == Min(FdFree(p) \ {rd})
       IN  IF Cardinality(FdFree(p)) >= 2
           THEN /\ pipes' = [pipes EXCEPT ![k] = [ZeroPipe EXCEPT !.used = TRUE, !.readers = 1, !.writers = 1]]
                /\ files' = [files EXCEPT ![rf] = [FreeFile EXCEPT !.ref = 1, !.rp = k, !.wp = k, !.rd = TRUE],
                                          ![wf] = [FreeFile EXCEPT !.ref = 1, !.rp = k, !.wp = k, !.wr = TRUE]]
                /\ fds' = [fds EXCEPT ![p][rd] = rf, ![p][wd] = wf]
                /\ cloexec' = [cloexec EXCEPT ![p] = @ \ {rd, wd}]
                /\ UNCHANGED asleep
           ELSE /\ pipes' = [pipes EXCEPT ![k] = ZeroPipe]
                /\ asleep' = Woken(PipeQueues({k}))
                /\ UNCHANGED <<files, fds, cloexec>>
    /\ UNCHANGED <<devs, call, pend, fired>>

(* The pipe device.  An instance holds one end of each kind on both its    *)
(* pipes in place of the ends nobody has opened yet.                       *)
Attach(p) ==
    /\ "attach" \in Calls /\ UserMode(p)
    /\ Cardinality(PipeFree) >= 2
    /\ \E d \in Devs :
         /\ d = Min({e \in Devs : ~devs[e].used} \cup {NPDEV + 1})
         /\ LET a == Min(PipeFree)
                b == Min(PipeFree \ {a})
                held == [ZeroPipe EXCEPT !.used = TRUE, !.readers = 1, !.writers = 1]
            IN  /\ pipes' = [pipes EXCEPT ![a] = held, ![b] = held]
                /\ devs' = [devs EXCEPT ![d] = [used |-> TRUE, ab |-> a, ba |-> b, opened |-> {}]]
    /\ UNCHANGED <<files, fds, cloexec, call, asleep, pend, fired>>

(* pipe9_open of data, e = 2, or data1, e = 3.  The first open takes over  *)
(* the ends kept for it; without a descriptor the file is closed again.    *)
OpenEnd(p, d, e, rd, wr) ==
    /\ "attach" \in Calls /\ UserMode(p) /\ devs[d].used /\ FileFree # {}
    /\ LET f == Min(FileFree)
           in  == IF e = 2 THEN devs[d].ba ELSE devs[d].ab
           out == IF e = 2 THEN devs[d].ab ELSE devs[d].ba
           kept == IF e \in devs[d].opened THEN 0 ELSE 1
           readers == pipes[in].readers - kept
           writers == pipes[out].writers - kept
       IN  \/ /\ FdFree(p) # {}
              /\ files' = [files EXCEPT ![f] = [FreeFile EXCEPT !.ref = 1, !.rp = in, !.wp = out,
                                                                !.rd = rd, !.wr = wr]]
              /\ pipes' = [pipes EXCEPT ![in].readers = readers + (IF rd THEN 1 ELSE 0),
                                        ![out].writers = writers + (IF wr THEN 1 ELSE 0)]
              /\ fds' = [fds EXCEPT ![p][Min(FdFree(p))] = f]
              /\ cloexec' = [cloexec EXCEPT ![p] = @ \ {Min(FdFree(p))}]
              /\ UNCHANGED asleep
           \/ /\ FdFree(p) = {}
              /\ pipes' = [pipes EXCEPT
                     ![in].readers = readers, ![out].writers = writers,
                     ![in].used = @ /\ ~(readers <= 0 /\ pipes[in].writers <= 0),
                     ![out].used = @ /\ ~(pipes[out].readers <= 0 /\ writers <= 0)]
              /\ asleep' = Woken(PipeQueues({in, out}))
              /\ UNCHANGED <<files, fds, cloexec>>
    /\ devs' = [devs EXCEPT ![d].opened = @ \cup {e}]
    /\ UNCHANGED <<call, pend, fired>>

(* pp_release: the last name of the instance is gone *)
ReleaseDev(d) ==
    /\ "attach" \in Calls /\ devs[d].used
    /\ LET a == devs[d].ab
           b == devs[d].ba
           h2 == IF 2 \in devs[d].opened THEN 0 ELSE 1
           h3 == IF 3 \in devs[d].opened THEN 0 ELSE 1
           Checked(k, r, w) == [pipes[k] EXCEPT !.readers = r, !.writers = w,
                                                !.used = @ /\ ~(r <= 0 /\ w <= 0)]
       IN  /\ pipes' = [pipes EXCEPT ![a] = Checked(a, @.readers - h3, @.writers - h2),
                                     ![b] = Checked(b, @.readers - h2, @.writers - h3)]
           /\ asleep' = Woken(PipeQueues({a, b}))
    /\ devs' = [devs EXCEPT ![d].used = FALSE]
    /\ UNCHANGED <<files, fds, cloexec, call, pend, fired>>

--------------------------------------------------------------------------------
(* pipe_read, from its start or from its sleep, with the locals c *)

Return(p) == call' = [call EXCEPT ![p] = User]

ReadFrom(p, c) ==
    LET k == c.pipe
        m == Min({c.n, Count(k)})
    IN  \/ /\ Count(k) = 0 /\ pipes[k].writers > 0
           /\ pend[p] \/ c.nonblock
           /\ Return(p)
           /\ UNCHANGED <<pipes, asleep>>
        \/ /\ Count(k) = 0 /\ pipes[k].writers > 0
           /\ ~pend[p] /\ ~c.nonblock
           /\ call' = [call EXCEPT ![p] = c]
           /\ asleep' = [asleep EXCEPT ![p] = RQ(k)]
           /\ UNCHANGED pipes
        \/ /\ Count(k) > 0 \/ pipes[k].writers <= 0
           /\ pipes' = [pipes EXCEPT ![k].nread = (@ + m) % Wrap]
           /\ asleep' = Woken({WQ(k), PollWQ})
           /\ Return(p)

Read(p, d, n) ==
    /\ "read" \in Calls /\ UserMode(p)
    /\ fds[p][d] # None /\ files[fds[p][d]].rd
    /\ ReadFrom(p, [op |-> "read", pipe |-> files[fds[p][d]].rp, n |-> n,
                    nonblock |-> files[fds[p][d]].nonblock])
    /\ UNCHANGED <<files, devs, fds, cloexec, pend, fired>>

ReadOn(p) ==
    /\ call[p].op = "read" /\ asleep[p] = Awake
    /\ ReadFrom(p, call[p])
    /\ UNCHANGED <<files, devs, fds, cloexec, pend, fired>>

--------------------------------------------------------------------------------
(* write_loop and pipe_write.  c.pos bytes of c.src are in the pipe; the   *)
(* stretch adds as many as there is room for, over the chunks of           *)
(* write_loop, and wakes the readers when a chunk is complete or when it   *)
(* goes to sleep.                                                          *)

(* A slip: the bytes go one place too far *)
PouredShifted(k, src, from, to) ==
    [pipes EXCEPT ![k].nwrite = (@ + (to - from)) % Wrap,
                  ![k].buf = [i \in 0 .. PIPESIZE - 1 |->
                      LET at == {j \in from + 1 .. to : (pipes[k].nwrite + (j - from)) % PIPESIZE = i}
                      IN  IF at = {} THEN @[i] ELSE src[Max(at)]]]

Poured(k, src, from, to) ==
    [pipes EXCEPT ![k].nwrite = (@ + (to - from)) % Wrap,
                  ![k].buf = [i \in 0 .. PIPESIZE - 1 |->
                      LET at == {j \in from + 1 .. to :
                                    (pipes[k].nwrite + (j - from - 1)) % PIPESIZE = i}
                      IN  IF at = {} THEN @[i] ELSE src[Max(at)]]]

ReaderQueues(k) == {RQ(k), PollWQ}

WriteFrom(p, c) ==
    LET k     == c.pipe
        n     == Len(c.src)
        pos   == c.pos + Min({n - c.pos, PIPESIZE - Count(k)})
        chunk == pos \div CHUNK > c.pos \div CHUNK \/ pos = n
    IN  \/ /\ pipes[k].readers <= 0
           /\ Return(p)
           /\ pend' = [pend EXCEPT ![p] = @ \/ c.pos % CHUNK = 0]
           /\ UNCHANGED <<pipes, asleep>>
        \/ /\ pipes[k].readers > 0
           /\ pipes' = Poured(k, c.src, c.pos, pos)
           /\ \/ /\ pos = n \/ pend[p] \/ c.nonblock
                 /\ asleep' = Woken(IF chunk THEN ReaderQueues(k) ELSE {})
                 /\ Return(p)
              \/ /\ pos < n /\ ~pend[p] /\ ~c.nonblock
                 /\ asleep' = [Woken(ReaderQueues(k)) EXCEPT ![p] = WQ(k)]
                 /\ call' = [call EXCEPT ![p] = [c EXCEPT !.pos = pos]]
           /\ UNCHANGED pend

Write(p, d, src) ==
    /\ "write" \in Calls /\ UserMode(p)
    /\ fds[p][d] # None /\ files[fds[p][d]].wr
    /\ WriteFrom(p, [op |-> "write", pipe |-> files[fds[p][d]].wp, src |-> src, pos |-> 0,
                     nonblock |-> files[fds[p][d]].nonblock])
    /\ UNCHANGED <<files, devs, fds, cloexec, fired>>

WriteOn(p) ==
    /\ call[p].op = "write" /\ asleep[p] = Awake
    /\ WriteFrom(p, call[p])
    /\ UNCHANGED <<files, devs, fds, cloexec, fired>>
--------------------------------------------------------------------------------
(* sys_poll of one descriptor.  Its timer runs only while the call does *)

PollOne(p, d, ev) ==
    LET f == fds[p][d]
        in  == files[f].rp
        out == files[f].wp
    IN  \/ f = None
        \/ /\ f # None /\ files[f].rd
           /\ pipes[in].writers = 0 \/ ("in" \in ev /\ Count(in) > 0)
        \/ /\ f # None /\ files[f].wr
           /\ pipes[out].readers = 0 \/ ("out" \in ev /\ Count(out) < PIPESIZE)

PollFrom(p, c, timedOut) ==
    \/ /\ PollOne(p, c.fd, c.ev) \/ timedOut \/ pend[p]
       /\ Return(p)
       /\ UNCHANGED asleep
    \/ /\ ~PollOne(p, c.fd, c.ev) /\ ~timedOut /\ ~pend[p]
       /\ call' = [call EXCEPT ![p] = c]
       /\ asleep' = [asleep EXCEPT ![p] = PollWQ]

Poll(p, d, ev, timed) ==
    /\ "poll" \in Calls /\ UserMode(p)
    /\ PollFrom(p, [op |-> "poll", fd |-> d, ev |-> ev, timed |-> timed], FALSE)
    /\ fired' = [fired EXCEPT ![p] = FALSE]
    /\ UNCHANGED <<files, pipes, devs, fds, cloexec, pend>>

PollOn(p) ==
    /\ call[p].op = "poll" /\ asleep[p] = Awake
    /\ PollFrom(p, call[p], fired[p])
    /\ UNCHANGED <<files, pipes, devs, fds, cloexec, pend, fired>>

(* A slip: the timer marks the poll and does not wake it *)
PollTimeoutQuiet(p) ==
    /\ call[p].op = "poll" /\ call[p].timed /\ ~fired[p]
    /\ fired' = [fired EXCEPT ![p] = TRUE]
    /\ UNCHANGED <<files, pipes, devs, fds, cloexec, call, asleep, pend>>

(* poll_timeout; a sleeping process has all pollers look again *)
PollTimeout(p) ==
    /\ call[p].op = "poll" /\ call[p].timed /\ ~fired[p]
    /\ fired' = [fired EXCEPT ![p] = TRUE]
    /\ asleep' = IF asleep[p] = PollWQ THEN Woken({PollWQ}) ELSE asleep
    /\ UNCHANGED <<files, pipes, devs, fds, cloexec, call, pend>>

--------------------------------------------------------------------------------
(* send_signal of an unblocked signal, and its delivery to a handler *)

Signal(p) ==
    /\ "signal" \in Calls /\ call[p] # Unused /\ ~pend[p]
    /\ pend' = [pend EXCEPT ![p] = TRUE]
    /\ asleep' = [asleep EXCEPT ![p] = Awake]
    /\ UNCHANGED <<files, pipes, devs, fds, cloexec, call, fired>>

Deliver(p) ==
    /\ call[p] = User /\ pend[p]
    /\ pend' = [pend EXCEPT ![p] = FALSE]
    /\ UNCHANGED <<files, pipes, devs, fds, cloexec, call, asleep, fired>>

--------------------------------------------------------------------------------
Init ==
    /\ files = [f \in Files |-> FreeFile]
    /\ pipes = [k \in Pipes |-> ZeroPipe]
    /\ devs = [d \in Devs |-> FreeDev]
    /\ fds = [p \in Procs |-> [d \in FDs |-> None]]
    /\ cloexec = [p \in Procs |-> {}]
    /\ call = [p \in Procs |-> IF p = 1 THEN User ELSE Unused]
    /\ asleep = [p \in Procs |-> Awake]
    /\ pend = [p \in Procs |-> FALSE]
    /\ fired = [p \in Procs |-> FALSE]

Sources == UNION {[1 .. n -> Values] : n \in 1 .. MaxLen}

Table(p) ==
    \/ \E d \in FDs : Close(p, d) \/ Dup(p, d) \/ SetFd(p, d)
    \/ \E d \in FDs, b \in BOOLEAN : SetFl(p, d, b)
    \/ \E a, b \in FDs : Dup2(p, a, b)
    \/ \E q \in Procs, d \in FDs : CtlClose(p, q, d)
    \/ \E c \in Procs : Fork(p, c)
    \/ Exec(p) \/ Exit(p) \/ PipeCall(p) \/ Attach(p)
    \/ \E d \in Devs, e \in {2, 3} : \E m \in {<<TRUE, FALSE>>, <<FALSE, TRUE>>, <<TRUE, TRUE>>} :
          OpenEnd(p, d, e, m[1], m[2])

Transfer(p) ==
    \/ \E d \in FDs, n \in 1 .. MaxLen : Read(p, d, n)
    \/ \E d \in FDs, src \in Sources : Write(p, d, src)
    \/ \E d \in FDs, ev \in SUBSET {"in", "out"}, t \in BOOLEAN : Poll(p, d, ev, t)

Resume(p) == ReadOn(p) \/ WriteOn(p) \/ PollOn(p)

Next == \/ \E p \in Procs : Table(p) \/ Transfer(p) \/ Resume(p) \/ PollTimeout(p) \/ Signal(p) \/ Deliver(p)
        \/ \E d \in Devs : ReleaseDev(d)

Spec == Init /\ [][Next]_vars

--------------------------------------------------------------------------------
(* The tables hold what the declarations in kernel.h allow: counters below *)
(* their modulus, descriptors that name files, calls with their locals.    *)
TypeOK ==
    /\ files \in [Files -> [ref : Nat, rp : Pipes \cup {None}, wp : Pipes \cup {None},
                            rd : BOOLEAN, wr : BOOLEAN, nonblock : BOOLEAN]]
    /\ pipes \in [Pipes -> [used : BOOLEAN, nread : 0 .. Wrap - 1, nwrite : 0 .. Wrap - 1,
                            readers : Nat, writers : Nat, buf : [0 .. PIPESIZE - 1 -> Values]]]
    /\ devs \in [Devs -> [used : BOOLEAN, ab : Pipes \cup {None}, ba : Pipes \cup {None},
                          opened : SUBSET {2, 3}]]
    /\ fds \in [Procs -> [FDs -> Files \cup {None}]]
    /\ cloexec \in [Procs -> SUBSET FDs]
    /\ \A p \in Procs : call[p].op \in {"unused", "user", "read", "write", "poll"}
    /\ asleep \in [Procs -> {Awake, PollWQ} \cup {RQ(k) : k \in Pipes} \cup {WQ(k) : k \in Pipes}]
    /\ pend \in [Procs -> BOOLEAN] /\ fired \in [Procs -> BOOLEAN]

(* A file is counted once for every descriptor that names it, through any  *)
(* mixture of dup, dup2, fork, exec, exit, close and failed pipe calls     *)
(* (file_alloc, file_dup, file_close).                                     *)
RefsCounted ==
    \A f \in Files :
        files[f].ref = Cardinality({x \in Procs \X FDs : fds[x[1]][x[2]] = f})

(* The ends a device still keeps for data, 2, and data1, 3 *)
Kept(k, in, e) ==
    Cardinality({d \in Devs : /\ devs[d].used /\ e \notin devs[d].opened
                              /\ k = IF in THEN devs[d].ba ELSE devs[d].ab})

(* readers and writers count the open files at the two ends of a pipe, and *)
(* the ends that a pipe device keeps; a pipe with an end is in use, and    *)
(* one in use belongs to an open file or to a device                       *)
(* (sys_pipe, pipe9_open, file_close, pipe_check).                         *)
EndsCounted ==
    \A k \in Pipes :
        /\ pipes[k].readers = Cardinality({f \in Files : files[f].ref > 0 /\ files[f].rd /\ files[f].rp = k})
                              + Kept(k, TRUE, 2) + Kept(k, FALSE, 3)
        /\ pipes[k].writers = Cardinality({f \in Files : files[f].ref > 0 /\ files[f].wr /\ files[f].wp = k})
                              + Kept(k, FALSE, 2) + Kept(k, TRUE, 3)
        /\ pipes[k].readers + pipes[k].writers > 0 => pipes[k].used
        /\ pipes[k].used => \/ \E f \in Files : files[f].ref > 0 /\ k \in {files[f].rp, files[f].wp}
                            \/ \E d \in Devs : devs[d].used /\ k \in {devs[d].ab, devs[d].ba}

(* Nobody sleeps on what is already there: a reader asleep in pipe_read    *)
(* has an empty pipe and a writer to wait for, and a sleeping poll has     *)
(* nothing to report (the wakeups of pipe_write, pipe_read, pipe_check).   *)
ReaderWoken ==
    \A p \in Procs :
        /\ \A k \in Pipes : asleep[p] = RQ(k) => Count(k) = 0 /\ pipes[k].writers > 0
        /\ asleep[p] = PollWQ => ~PollOne(p, call[p].fd, call[p].ev) /\ ~fired[p]

(* A writer asleep in pipe_write has a full pipe and a reader to empty it, *)
(* and nobody sleeps over a pending signal, whichever calls were cut short *)
(* by signals or did not block.                                            *)
WriterWoken ==
    \A p \in Procs :
        /\ \A k \in Pipes : asleep[p] = WQ(k) => Count(k) = PIPESIZE /\ pipes[k].readers > 0
        /\ asleep[p] # Awake => ~pend[p]

(* A read whose pipe has data or has lost its last writer ends, a write    *)
(* whose pipe has lost its last reader ends, and a poll with a timeout or  *)
(* a pending signal ends (the loops of pipe_read, pipe_write, sys_poll).   *)
ReadEnds ==
    \A p \in Procs : (call[p].op = "read" /\ pipes[call[p].pipe].writers = 0) ~> call[p].op # "read"
WriteEnds ==
    \A p \in Procs : (call[p].op = "write" /\ pipes[call[p].pipe].readers = 0) ~> call[p].op # "write"
PollEnds ==
    \A p \in Procs : (call[p].op = "poll" /\ call[p].timed) ~> call[p].op # "poll"
================================================================================
