-------------------------------- MODULE Proc --------------------------------
(***************************************************************************)
(* Processes, signals and job control of the tortoise kernel               *)
(* (os/kernel/proc.c, signal.c and the job control half of tty.c).         *)
(*                                                                         *)
(* One CPU runs the kernel without preemption: a system call runs until it *)
(* returns, sleeps, stops or exits, and an interrupt is taken only in user *)
(* mode or in the idle loop.  cur is curproc; the actions of cur = s are   *)
(* the steps of slot s between two points where another process may run.  *)
(* A failing call that changes nothing is not an action of its own.        *)
(***************************************************************************)
EXTENDS Integers, Sequences, FiniteSets, FiniteSetsExt

CONSTANTS
    NPROC,      \* slots of the process table (64 in the kernel)
    PidLimit,   \* process numbers wrap here (32768 in the kernel)
    Signals,    \* the signal numbers in use
    Calls,      \* the system calls user programs make
    KillSigs,   \* the signals user programs send
    ActSigs,    \* the signals whose action user programs change
    Actions,    \* the actions they choose
    MaskSigs,   \* the signals user programs block
    WaitPids,   \* the first arguments they pass to waitpid
    WaitOpts,   \* the option sets they pass to waitpid
    TtySigs,    \* the signals the terminal generates from input
    MaxFrames   \* handler frames that fit on a user stack

SIGHUP  == 1
SIGKILL == 9
SIGCHLD == 17
SIGCONT == 18
SIGSTOP == 19
SIGTSTP == 20
SIGTTIN == 21
SIGTTOU == 22
UNBLOCKABLE == {SIGKILL, SIGSTOP}
STOPSIGS    == {SIGSTOP, SIGTSTP, SIGTTIN, SIGTTOU}

ASSUME ProcAssumption ==
    /\ NPROC \in Nat \ {0}
    /\ PidLimit \in Nat /\ PidLimit > 2
    /\ Signals \subseteq 1..31
    /\ {SIGHUP, SIGKILL, SIGCHLD, SIGCONT, SIGSTOP} \subseteq Signals
    /\ KillSigs \subseteq Signals /\ TtySigs \subseteq Signals
    /\ ActSigs \subseteq Signals \ UNBLOCKABLE /\ MaskSigs \subseteq Signals
    /\ Actions \subseteq {"DFL", "IGN", "CATCH", "RESTART"}
    /\ WaitPids \subseteq -PidLimit..PidLimit
    /\ WaitOpts \subseteq SUBSET {"WNOHANG", "WUNTRACED", "WCONTINUED"}
    /\ MaxFrames \in Nat

Slots    == 1..NPROC
Pids     == 1..(PidLimit - 1)
Handlers == {"DFL", "IGN", "CATCH", "RESTART"}  \* RESTART: caught with SA_RESTART
States   == {"UNUSED", "RUNNABLE", "RUNNING", "SLEEPING", "STOPPED", "ZOMBIE"}
Dead     == {"UNUSED", "ZOMBIE"}

\* The call a process is in, or that its saved registers would repeat.
NoCall  == [nr |-> "none"]
Call    == {NoCall, [nr |-> "pause"], [nr |-> "rpc"]} \cup [nr : {"tty"}, sig : STOPSIGS]
           \cup [nr : {"waitpid"}, pid : -PidLimit..PidLimit,
                 opts : SUBSET {"WNOHANG", "WUNTRACED", "WCONTINUED"}]
Frame   == [mask : SUBSET Signals, redo : BOOLEAN, call : Call]

VARIABLES
    state, pid, ppid, pgid, sid,
    handler, sigpend, sigmask,
    report,     \* "stop": stop_report, "cont": cont_report (never both)
    autoreap,
    pc,         \* where the process is: user code, the loop of deliver_signals,
                \* do_waitpid, sys_pause or a wait in rpc of a 9P mount
    call,       \* the call in the registers of the trap frame
    eintr,      \* the call returned -EINTR and no signal was delivered since
    redo,       \* user code stands on the SYSCALL instruction of call
    frames,     \* handler frames on the user stack, innermost last
    ctty,       \* the process has the terminal as its controlling terminal
    ttySid, ttyPgrp,
    cur, nextpid

ids  == <<pid, ppid, pgid, sid>>
acts == <<handler, sigmask, frames>>
ctl  == <<pc, call, eintr, redo>>
tty  == <<ctty, ttySid, ttyPgrp>>
vars == <<state, ids, acts, sigpend, report, autoreap, ctl, tty, cur, nextpid>>

Fill(S, f, v) == [s \in Slots |-> IF s \in S THEN v ELSE f[s]]

Init ==
    /\ state = [s \in Slots |-> IF s = 1 THEN "RUNNABLE" ELSE "UNUSED"]
    /\ pid  = [s \in Slots |-> IF s = 1 THEN 1 ELSE 0]
    /\ ppid = [s \in Slots |-> 0]
    /\ pgid = pid /\ sid = pid
    /\ handler = [s \in Slots |-> [g \in Signals |-> "DFL"]]
    /\ sigpend = [s \in Slots |-> {}] /\ sigmask = sigpend
    /\ report = [s \in Slots |-> "none"]
    /\ autoreap = [s \in Slots |-> FALSE]
    /\ pc = [s \in Slots |-> "user"]
    /\ call = [s \in Slots |-> NoCall]
    /\ eintr = autoreap /\ redo = autoreap /\ ctty = autoreap
    /\ frames = [s \in Slots |-> << >>]
    /\ ttySid = 0 /\ ttyPgrp = 0 /\ cur = 0 /\ nextpid = 2

-----------------------------------------------------------------------------
(* Looking things up in the process table. *)

Used(s) == state[s] # "UNUSED"
FindPid(n) == {s \in Slots : Used(s) /\ pid[s] = n}
Group(g) == {s \in Slots : state[s] \notin Dead /\ pgid[s] = g}
\* A slip: the numbers of ended processes count as free.
PidUsedAlive(n) == \E s \in Slots : state[s] \notin Dead /\ n \in {pid[s], pgid[s], sid[s]}
PidUsed(n) == \E s \in Slots : Used(s) /\ n \in {pid[s], pgid[s], sid[s]}

\* orphan_pgrp, for process states st and parent numbers par.
OrphanIn(st, par, g) ==
    LET members == {p \in Slots : st[p] \notin Dead /\ pgid[p] = g}
    IN  /\ members # {}
        /\ \A p \in members, q \in Slots :
             ~ /\ st[q] \notin Dead /\ pid[q] = par[p]
               /\ pgid[q] # g /\ sid[q] = sid[p]
orphan_pgrp(g) == OrphanIn(state, ppid, g)

\* The terminal's own version, which accepts a zombie as the linking parent.
tty_orphan(g) ==
    \A p \in Group(g) : \A q \in FindPid(ppid[p]) :
        ~(pgid[q] # g /\ sid[q] = sid[p])

default_ignored(g) == g \in {SIGCHLD, SIGCONT, 23, 28}
ignored(s, g) ==
    /\ g \notin UNBLOCKABLE
    /\ \/ handler[s][g] = "IGN"
       \/ handler[s][g] = "DFL" /\ default_ignored(g)
Ready(s) == sigpend[s] \cap ((Signals \ sigmask[s]) \cup UNBLOCKABLE)

\* The waits of a 9P call: for the channel (rpc), to send (put_all), for the
\* first bytes of the answer and for its rest (get_all), to send a Tflush
\* (flush).  nointr is set in three of them.
RpcWaits == {"busy", "put", "get", "rest", "flush"}
nointr(s) == pc[s] \in {"put", "rest", "flush"}
signal_pending(s) == ~nointr(s) /\ Ready(s) # {}

-----------------------------------------------------------------------------
(* Sending signals.  One step of the kernel may signal several processes:  *)
(* mail[s] is the set of signals slot s receives in it.  The signals of    *)
(* one step never conflict (HUP, CONT and CHLD together, or one signal).   *)

Drops(s, g) == pid[s] = 1 /\ handler[s][g] = "DFL"
Accepts(s, g) == ~Drops(s, g) /\ ~ignored(s, g)

\* What a signal takes out of the pending set when it arrives.
Cancels(s, g) ==
    (IF g = SIGCONT THEN STOPSIGS ELSE {})
    \cup (IF g \in STOPSIGS /\ ~Drops(s, g) THEN {SIGCONT} ELSE {})

Received(pend, s, got) ==
    (pend \ UNION {Cancels(s, g) : g \in got}) \cup {g \in got : Accepts(s, g)}

\* A slip: KILL leaves a stopped process stopped.
ResumesOnCont(s, got) == SIGCONT \in got

\* Does mail make a stopped, or a sleeping, process runnable?
Resumes(s, got) == SIGCONT \in got \/ (SIGKILL \in got /\ ~Drops(s, SIGKILL))
Rouses(s, got) ==
    \E g \in got : Accepts(s, g) /\ (g \notin sigmask[s] \/ g \in UNBLOCKABLE)

\* send_signal for every signal of mail, and wakeup(&child_wq) of the slots
\* in woken, from process states st, pending sets pend and reports rep.
\* A stopped process that receives CONT reports to its parent (par), which
\* gets CHLD and is woken.
Post(st, pend, rep, par, mail, woken) ==
    LET resumed == {c \in Slots : st[c] = "STOPPED" /\ SIGCONT \in mail[c]}
        told == {q \in Slots : \E c \in resumed : pid[q] = par[c]}
        got  == [s \in Slots |-> mail[s] \cup (IF s \in told THEN {SIGCHLD} ELSE {})]
        awake == woken \cup told
    IN  /\ state' = [s \in Slots |->
                       IF \/ st[s] = "STOPPED" /\ Resumes(s, got[s])
                          \/ st[s] = "SLEEPING" /\ Rouses(s, got[s])
                          \/ st[s] = "SLEEPING" /\ s \in awake /\ pc[s] = "wait"
                       THEN "RUNNABLE" ELSE st[s]]
        /\ sigpend' = [s \in Slots |-> IF st[s] \in Dead THEN pend[s]
                                       ELSE Received(pend[s], s, got[s])]
        /\ report' = Fill(resumed, rep, "cont")

To(T, S) == [s \in Slots |-> IF s \in T THEN S ELSE {}]
SendTo(T, g) == Post(state, sigpend, report, ppid, To(T, {g}), {})

-----------------------------------------------------------------------------
(* The scheduler. *)

\* release_proc: the slots of S are zeroed.  The variables named here are
\* those only a release and the call itself change.
Release(S) ==
    /\ pid' = Fill(S, pid, 0) /\ ppid' = Fill(S, ppid, 0)
    /\ pgid' = Fill(S, pgid, 0) /\ sid' = Fill(S, sid, 0)
    /\ handler' = Fill(S, handler, [g \in Signals |-> "DFL"])
    /\ sigmask' = Fill(S, sigmask, {}) /\ frames' = Fill(S, frames, << >>)
    /\ sigpend' = Fill(S, sigpend, {})
    /\ autoreap' = Fill(S, autoreap, FALSE)
    /\ ctty' = Fill(S, ctty, FALSE)

Reapable == {z \in Slots : state[z] = "ZOMBIE" /\ autoreap[z]}
NoneRunnable == \A s \in Slots : state[s] # "RUNNABLE"

\* One pass of scheduler(): reap_autoreap, then run a runnable process.  nice
\* values are left out, so any runnable process may be the one picked.
Schedule(s) ==
    /\ cur = 0 /\ state[s] = "RUNNABLE"
    /\ Release(Reapable)
    /\ state' = [Fill(Reapable, state, "UNUSED") EXCEPT ![s] = "RUNNING"]
    /\ report' = Fill(Reapable, report, "none")
    /\ cur' = s
    /\ UNCHANGED <<ctl, ttySid, ttyPgrp, nextpid>>

\* A pass that finds nothing to run ends in cpu_idle().
Idle ==
    /\ cur = 0 /\ NoneRunnable /\ Reapable # {}
    /\ Release(Reapable)
    /\ state' = Fill(Reapable, state, "UNUSED")
    /\ report' = Fill(Reapable, report, "none")
    /\ UNCHANGED <<ctl, ttySid, ttyPgrp, cur, nextpid>>

\* A timer interrupt in user mode at the end of the slice: yield() and, when
\* the process runs again, deliver_signals on the way out of trap().
Tick(s) ==
    /\ cur = s /\ pc[s] = "user"
    /\ state' = [state EXCEPT ![s] = "RUNNABLE"]
    /\ pc' = [pc EXCEPT ![s] = "deliver"]
    /\ cur' = 0
    /\ UNCHANGED <<ids, acts, sigpend, report, autoreap, call, eintr, redo, tty, nextpid>>

\* An interrupt character on the terminal: tty_input signals the foreground
\* group.  Interrupts are taken in user mode and in the idle loop only.
TtyInput(g) ==
    /\ ttyPgrp # 0
    /\ \/ cur = 0 /\ NoneRunnable /\ UNCHANGED pc
       \/ cur # 0 /\ pc[cur] = "user" /\ pc' = [pc EXCEPT ![cur] = "deliver"]
    /\ SendTo(Group(ttyPgrp), g)
    /\ UNCHANGED <<ids, acts, autoreap, call, eintr, redo, tty, cur, nextpid>>

-----------------------------------------------------------------------------
(* System calls.  Each ends in deliver_signals. *)

InUser(s, nr) == cur = s /\ pc[s] = "user" /\ ~redo[s] /\ nr \in Calls
Return(s) == /\ pc' = [pc EXCEPT ![s] = "deliver"]
             /\ call' = [call EXCEPT ![s] = NoCall]
             /\ UNCHANGED <<eintr, redo>>
ReturnEINTR(s) == /\ pc' = [pc EXCEPT ![s] = "deliver"]
                  /\ eintr' = [eintr EXCEPT ![s] = TRUE]
                  /\ UNCHANGED <<call, redo>>

Free == {s \in Slots : ~Used(s)}

\* alloc_pid: the first number from nextpid on, cyclically, that no process,
\* group or session uses.
PidAt(i) == ((nextpid - 1 + i) % (PidLimit - 1)) + 1
FreeAt   == {i \in 0..(PidLimit - 2) : ~PidUsed(PidAt(i))}
alloc_pid == PidAt(Min(FreeAt))

\* do_rfork with RFPROC; nowait is RFNOWAIT.
Fork(s, nowait) ==
    /\ InUser(s, "fork") /\ Free # {} /\ FreeAt # {}
    /\ LET c == Min(Free) IN
       /\ state' = [state EXCEPT ![c] = "RUNNABLE"]
       /\ pid'  = [pid EXCEPT ![c] = alloc_pid]
       /\ ppid' = [ppid EXCEPT ![c] = IF nowait THEN 1 ELSE pid[s]]
       /\ pgid' = [pgid EXCEPT ![c] = pgid[s]]
       /\ sid'  = [sid EXCEPT ![c] = sid[s]]
       /\ handler' = [handler EXCEPT ![c] = handler[s]]
       /\ sigmask' = [sigmask EXCEPT ![c] = sigmask[s]]
       /\ frames'  = [frames EXCEPT ![c] = frames[s]]
       /\ ctty' = [ctty EXCEPT ![c] = ctty[s]]
       /\ pc' = [pc EXCEPT ![s] = "deliver", ![c] = "user"]
       /\ nextpid' = (alloc_pid % (PidLimit - 1)) + 1
    /\ UNCHANGED <<sigpend, report, autoreap, call, eintr, redo, ttySid, ttyPgrp, cur>>

\* exec_image, as far as signals go: caught signals return to their default.
Exec(s) ==
    /\ InUser(s, "exec")
    /\ handler' = [handler EXCEPT ![s] =
                     [g \in Signals |-> IF @[g] = "IGN" THEN "IGN" ELSE "DFL"]]
    /\ frames' = [frames EXCEPT ![s] = << >>]
    /\ Return(s)
    /\ UNCHANGED <<state, ids, sigmask, sigpend, report, autoreap, tty, cur, nextpid>>

\* do_exit passes the children of slot s to init one slot after the other;
\* ReparentedTo(s, k) is the parent table when the slots up to k are done.
Children(s) == {c \in Slots : Used(c) /\ ppid[c] = pid[s]}
ReparentedTo(s, k) ==
    [c \in Slots |-> IF c \in Children(s) /\ c <= k THEN 1 ELSE ppid[c]]

HasStopped(st, g) == \E p \in Group(g) : st[p] = "STOPPED"

\* A slip: do_exit does not look at the groups of its children.
KickedNone(s) == {}

\* check_orphans on the group of each child that is in another group: the
\* children at which group g is found orphaned, and the groups that are told.
KickedAt(s, g) ==
    {c \in Children(s) : pgid[c] = g /\ OrphanIn(state, ReparentedTo(s, c), g)}
Kicked(s) ==
    {pgid[c] : c \in {k \in Children(s) : /\ pgid[k] # pgid[s]
                                          /\ KickedAt(s, pgid[k]) # {}
                                          /\ HasStopped(state, pgid[k])}}

\* tty_hangup_session finds a terminal to hang up.
HangsUp(s) == /\ pid[s] = sid[s] /\ ttySid = sid[s]
              /\ \E p \in Slots : sid[p] = sid[s] /\ ctty[p]

IgnoresChld(Q) == \E q \in Q : handler[q][SIGCHLD] = "IGN"

\* The processes whose child_wq an exit wakes: the parent, and init if it
\* inherits a zombie.
ExitWakes(s) ==
    FindPid(ppid[s])
    \cup (IF \E z \in Children(s) : state[z] = "ZOMBIE" THEN FindPid(1) ELSE {})

\* do_exit of slot s.  Its pending set and its registers are never read again.
ExitProc(s) ==
    LET par   == ReparentedTo(s, NPROC)
        st    == [state EXCEPT ![s] = "ZOMBIE"]
        mine  == OrphanIn(st, par, pgid[s]) /\ HasStopped(st, pgid[s])
        hup   == Kicked(s) \cup (IF HangsUp(s) THEN {ttyPgrp} ELSE {})
                           \cup (IF mine THEN {pgid[s]} ELSE {})
        parent == FindPid(ppid[s])
        mail  == [p \in Slots |-> (IF pgid[p] \in hup THEN {SIGHUP, SIGCONT} ELSE {})
                                  \cup (IF p \in parent THEN {SIGCHLD} ELSE {})]
        told  == [p \in Slots |-> IF pgid[p] \in Kicked(s)
                                  THEN ReparentedTo(s, Min(KickedAt(s, pgid[p])))[p]
                                  ELSE par[p]]
    IN  /\ Post(st, [sigpend EXCEPT ![s] = {}], report, told, mail, ExitWakes(s))
        /\ ppid' = par
        /\ autoreap' = [c \in Slots |->
              IF c = s THEN parent = {} \/ IgnoresChld(parent)
              ELSE \/ autoreap[c]
                   \/ c \in Children(s) /\ state[c] = "ZOMBIE" /\ IgnoresChld(FindPid(1))]
        /\ ctty' = [p \in Slots |-> ctty[p] /\ ~(pid[s] = sid[s] /\ sid[p] = sid[s])]
        /\ ttySid' = IF HangsUp(s) THEN 0 ELSE ttySid
        /\ ttyPgrp' = IF HangsUp(s) THEN 0 ELSE ttyPgrp
        /\ pc' = [pc EXCEPT ![s] = "user"] /\ call' = [call EXCEPT ![s] = NoCall]
        /\ eintr' = [eintr EXCEPT ![s] = FALSE] /\ redo' = [redo EXCEPT ![s] = FALSE]
        /\ cur' = 0
        /\ UNCHANGED <<pid, pgid, sid, acts, nextpid>>

\* The exit call.  init never exits: do_exit powers the machine off instead.
Exit(s) == InUser(s, "exit") /\ pid[s] # 1 /\ ExitProc(s)

\* child_match of do_waitpid for a call w of slot s.
child_match(s, c, w) ==
    /\ Used(c) /\ ppid[c] = pid[s] /\ ~autoreap[c]
    /\ \/ w.pid = -1
       \/ w.pid > 0 /\ pid[c] = w.pid
       \/ w.pid = 0 /\ pgid[c] = pgid[s]
       \/ w.pid < -1 /\ pgid[c] = -w.pid
Matching(s, w) == {c \in Slots : child_match(s, c, w)}
StopReport(c, w) == "WUNTRACED" \in w.opts /\ state[c] = "STOPPED" /\ report[c] = "stop"
ContReport(c, w) == "WCONTINUED" \in w.opts /\ report[c] = "cont"
Reportable(s, w) ==
    {c \in Matching(s, w) : state[c] = "ZOMBIE" \/ StopReport(c, w) \/ ContReport(c, w)}

\* Entry of waitpid.
Waitpid(s, n, opts) ==
    /\ InUser(s, "waitpid")
    /\ pc' = [pc EXCEPT ![s] = "wait"]
    /\ call' = [call EXCEPT ![s] = [nr |-> "waitpid", pid |-> n, opts |-> opts]]
    /\ UNCHANGED <<state, ids, acts, sigpend, report, autoreap, eintr, redo, tty, cur, nextpid>>

\* A scan that finds a child to report: the first in the table.
WaitReap(s) ==
    /\ cur = s /\ pc[s] = "wait"
    /\ Reportable(s, call[s]) # {}
    /\ LET c == Min(Reportable(s, call[s])) IN
         IF state[c] = "ZOMBIE"
         THEN /\ Release({c})
              /\ state' = [state EXCEPT ![c] = "UNUSED"]
              /\ report' = [report EXCEPT ![c] = "none"]
         ELSE /\ report' = [report EXCEPT ![c] = "none"]
              /\ UNCHANGED <<state, ids, acts, sigpend, autoreap, ctty>>
    /\ Return(s)
    /\ UNCHANGED <<ttySid, ttyPgrp, cur, nextpid>>

\* A scan that finds none: -ECHILD, 0 for WNOHANG, -EINTR, or sleep_on.
WaitNone(s) ==
    /\ cur = s /\ pc[s] = "wait"
    /\ Reportable(s, call[s]) = {}
    /\ IF Matching(s, call[s]) = {} \/ "WNOHANG" \in call[s].opts
       THEN Return(s) /\ UNCHANGED <<state, cur>>
       ELSE IF signal_pending(s)
       THEN ReturnEINTR(s) /\ UNCHANGED <<state, cur>>
       ELSE state' = [state EXCEPT ![s] = "SLEEPING"] /\ cur' = 0 /\ UNCHANGED ctl
    /\ UNCHANGED <<ids, acts, sigpend, report, autoreap, tty, nextpid>>

Pause(s) ==
    /\ InUser(s, "pause")
    /\ pc' = [pc EXCEPT ![s] = "pause"]
    /\ call' = [call EXCEPT ![s] = [nr |-> "pause"]]
    /\ UNCHANGED <<state, ids, acts, sigpend, report, autoreap, eintr, redo, tty, cur, nextpid>>

PauseLoop(s) ==
    /\ cur = s /\ pc[s] = "pause"
    /\ IF signal_pending(s)
       THEN ReturnEINTR(s) /\ UNCHANGED <<state, cur>>
       ELSE state' = [state EXCEPT ![s] = "SLEEPING"] /\ cur' = 0 /\ UNCHANGED ctl
    /\ UNCHANGED <<ids, acts, sigpend, report, autoreap, tty, nextpid>>

\* A call on a file of a 9P mount.
Rpc(s) ==
    /\ InUser(s, "rpc")
    /\ pc' = [pc EXCEPT ![s] = "busy"]
    /\ call' = [call EXCEPT ![s] = [nr |-> "rpc"]]
    /\ UNCHANGED <<state, ids, acts, sigpend, report, autoreap, eintr, redo, tty, cur, nextpid>>

\* What rpc does at a wait, as far as signals go (P9 has the channel and the
\* messages): a signal ends the waits for the channel and for the answer, the
\* latter after a Tflush; the call ends with its answer, because the server
\* hung up, or with the failure ignored (a close); it goes on to its next wait,
\* which may be that of its next message; or sleep_on.
RpcGoesOn(s) ==
    \/ pc[s] = "busy" /\ signal_pending(s) /\ ReturnEINTR(s) /\ UNCHANGED <<state, cur>>
    \/ pc[s] = "flush" /\ ReturnEINTR(s) /\ UNCHANGED <<state, cur>>
    \/ Return(s) /\ UNCHANGED <<state, cur>>
    \/ \E to \in RpcWaits :
          /\ <<pc[s], to>> \in {<<"busy", "put">>, <<"put", "get">>, <<"get", "rest">>, <<"rest", "get">>,
                              <<"rest", "busy">>, <<"flush", "busy">>}
             \/ (pc[s] = "get" /\ to = "flush" /\ signal_pending(s))
          /\ pc' = [pc EXCEPT ![s] = to] /\ UNCHANGED <<call, eintr, redo, state, cur>>
    \/ /\ ~signal_pending(s)
       /\ state' = [state EXCEPT ![s] = "SLEEPING"] /\ cur' = 0 /\ UNCHANGED ctl

RpcLoop(s) ==
    /\ cur = s /\ pc[s] \in RpcWaits
    /\ RpcGoesOn(s)
    /\ UNCHANGED <<ids, acts, sigpend, report, autoreap, tty, nextpid>>

\* A read, write or close by which slot s wakes slot t, asleep in rpc (the
\* server's, or chan_done of another rpc).
Serve(s, t) ==
    /\ InUser(s, "serve") /\ state[t] = "SLEEPING" /\ pc[t] \in RpcWaits
    /\ state' = [state EXCEPT ![t] = "RUNNABLE"]
    /\ Return(s)
    /\ UNCHANGED <<ids, acts, sigpend, report, autoreap, tty, cur, nextpid>>

\* sys_kill2 with a process, a group or (-1) everyone but init and the caller.
\* All processes belong to one user, so may_signal holds.
KillTargets(s) ==
    {{t} : t \in {p \in Slots : state[p] \notin Dead}}
    \cup {Group(pgid[t]) : t \in {p \in Slots : state[p] \notin Dead}}
    \cup ({{p \in Slots : state[p] \notin Dead /\ pid[p] # 1 /\ p # s}} \ {{}})
Kill(s, T, g) ==
    /\ InUser(s, "kill")
    /\ SendTo(T, g)
    /\ Return(s)
    /\ UNCHANGED <<ids, acts, autoreap, tty, cur, nextpid>>

sigaction(s, g, h) ==
    /\ InUser(s, "sigaction")
    /\ handler' = [handler EXCEPT ![s][g] = h]
    /\ sigpend' = [sigpend EXCEPT ![s] =
                     IF h = "IGN" \/ (h = "DFL" /\ default_ignored(g)) THEN @ \ {g} ELSE @]
    /\ Return(s)
    /\ UNCHANGED <<state, ids, sigmask, frames, report, autoreap, tty, cur, nextpid>>

\* sys_sigprocmask with SIG_SETMASK (the other two choose the same masks).
sigprocmask(s, set) ==
    /\ InUser(s, "sigprocmask")
    /\ sigmask' = [sigmask EXCEPT ![s] = set \ UNBLOCKABLE]
    /\ Return(s)
    /\ UNCHANGED <<state, ids, handler, frames, sigpend, report, autoreap, tty, cur, nextpid>>

\* The handler returns through __sigtramp: the frame and its mask come back.
sigreturn(s) ==
    /\ cur = s /\ pc[s] = "user" /\ ~redo[s] /\ frames[s] # << >>
    /\ LET f == frames[s][Len(frames[s])] IN
       /\ sigmask' = [sigmask EXCEPT ![s] = f.mask \ UNBLOCKABLE]
       /\ redo' = [redo EXCEPT ![s] = f.redo]
       /\ call' = [call EXCEPT ![s] = f.call]
    /\ frames' = [frames EXCEPT ![s] = SubSeq(@, 1, Len(@) - 1)]
    /\ pc' = [pc EXCEPT ![s] = "deliver"]
    /\ eintr' = [eintr EXCEPT ![s] = FALSE]
    /\ UNCHANGED <<state, ids, handler, sigpend, report, autoreap, tty, cur, nextpid>>

\* sys_setpgid on the caller or a child of it (a zombie child included).
setpgid(s, p, g) ==
    /\ InUser(s, "setpgid") /\ Used(p)
    /\ p = s \/ ppid[p] = pid[s]
    /\ sid[p] = sid[s] /\ pid[p] # sid[p]
    /\ g = pid[p] \/ \E q \in Slots : Used(q) /\ pgid[q] = g /\ sid[q] = sid[s]
    /\ pgid' = [pgid EXCEPT ![p] = g]
    /\ Return(s)
    /\ UNCHANGED <<state, pid, ppid, sid, acts, sigpend, report, autoreap, tty, cur, nextpid>>

\* A slip: setsid keeps the terminal.
setsidKeepsTty(s) ==
    /\ InUser(s, "setsid")
    /\ \A q \in Slots : Used(q) => pgid[q] # pid[s]
    /\ sid' = [sid EXCEPT ![s] = pid[s]] /\ pgid' = [pgid EXCEPT ![s] = pid[s]]
    /\ Return(s)
    /\ UNCHANGED <<state, pid, ppid, acts, sigpend, report, autoreap, tty, cur, nextpid>>

\* sys_setsid.
setsid(s) ==
    /\ InUser(s, "setsid")
    /\ \A q \in Slots : Used(q) => pgid[q] # pid[s]
    /\ sid' = [sid EXCEPT ![s] = pid[s]] /\ pgid' = [pgid EXCEPT ![s] = pid[s]]
    /\ ctty' = [ctty EXCEPT ![s] = FALSE]
    /\ Return(s)
    /\ UNCHANGED <<state, pid, ppid, acts, sigpend, report, autoreap, ttySid, ttyPgrp, cur, nextpid>>

-----------------------------------------------------------------------------
(* The terminal's part of job control. *)

\* background_check: what an access by a background process comes to.
Background(s) == ctty[s] /\ ttyPgrp # 0 /\ pgid[s] # ttyPgrp

\* TIOCSCTTY; with steal (argument 1, superuser) it takes the terminal from
\* the session that has it.
TiocsCtty(s, steal) ==
    /\ InUser(s, "ctty") /\ pid[s] = sid[s] /\ ~ctty[s]
    /\ ttySid \in {0, sid[s]} \/ steal
    /\ ctty' = [p \in Slots |-> p = s \/ (ctty[p] /\ ttySid \in {0, sid[s]})]
    /\ ttySid' = sid[s] /\ ttyPgrp' = pgid[s]
    /\ Return(s)
    /\ UNCHANGED <<state, ids, acts, sigpend, report, autoreap, cur, nextpid>>

\* TIOCSPGRP by a foreground process of the terminal's session.
TiocsPgrp(s, g) ==
    /\ InUser(s, "pgrp") /\ ctty[s] /\ ttySid = sid[s]
    /\ ~Background(s) \/ (SIGTTOU \in Signals /\ handler[s][SIGTTOU] = "IGN")
       \/ SIGTTOU \in sigmask[s]
    /\ \E q \in Group(g) : sid[q] = sid[s]
    /\ ttyPgrp' = g
    /\ Return(s)
    /\ UNCHANGED <<state, ids, acts, sigpend, report, autoreap, ctty, ttySid, cur, nextpid>>

\* An access (a read: TTIN; TCSETS or TIOCSPGRP: TTOU) by a background
\* process that neither ignores nor blocks the signal: its group is signalled
\* and the call returns -EINTR, unless the group is orphaned.  An access that
\* gets past the check, or fails with EIO, changes nothing here.
TtyAccess(s, g) ==
    /\ \/ InUser(s, "tty")
       \/ cur = s /\ pc[s] = "user" /\ redo[s] /\ call[s] = [nr |-> "tty", sig |-> g]
    /\ redo' = [redo EXCEPT ![s] = FALSE]
    /\ pc' = [pc EXCEPT ![s] = "deliver"]
    /\ IF /\ Background(s) /\ handler[s][g] # "IGN"
          /\ g \notin sigmask[s] /\ ~tty_orphan(pgid[s])
       THEN /\ SendTo(Group(pgid[s]), g)
            /\ call' = [call EXCEPT ![s] = [nr |-> "tty", sig |-> g]]
            /\ eintr' = [eintr EXCEPT ![s] = TRUE]
       ELSE /\ call' = [call EXCEPT ![s] = NoCall]
            /\ UNCHANGED <<state, sigpend, report, eintr>>
    /\ UNCHANGED <<ids, acts, autoreap, tty, cur, nextpid>>

-----------------------------------------------------------------------------
(* deliver_signals, one turn of its loop at a time, and the restart. *)

InDeliver(s) == cur = s /\ pc[s] = "deliver"
\* A slip: the highest pending signal is delivered first.
TakenHighest(s) == Max(Ready(s))
Taken(s) == Min(Ready(s))
Took(s) == [sigpend EXCEPT ![s] = @ \ {Taken(s)}]
Default(s, g) == g \in UNBLOCKABLE \/ handler[s][g] = "DFL"

\* A pending signal that turns out to do nothing.
DeliverNothing(s) ==
    /\ InDeliver(s) /\ signal_pending(s)
    /\ \/ Taken(s) \notin UNBLOCKABLE /\ handler[s][Taken(s)] = "IGN"
       \/ Default(s, Taken(s)) /\ default_ignored(Taken(s))
       \/ /\ Default(s, Taken(s)) /\ Taken(s) \in STOPSIGS \ {SIGSTOP}
          /\ orphan_pgrp(pgid[s])
    /\ sigpend' = Took(s)
    /\ UNCHANGED <<state, ids, acts, report, autoreap, ctl, tty, cur, nextpid>>

\* A slip: stop_self signals the parent but does not wake its waitpid.
DeliverStopSilent(s) ==
    /\ InDeliver(s) /\ signal_pending(s)
    /\ Default(s, Taken(s)) /\ Taken(s) \in STOPSIGS
    /\ Taken(s) = SIGSTOP \/ ~orphan_pgrp(pgid[s])
    /\ Post([state EXCEPT ![s] = "STOPPED"], Took(s), [report EXCEPT ![s] = "stop"],
            ppid, To(FindPid(ppid[s]), {SIGCHLD}), {})
    /\ cur' = 0
    /\ UNCHANGED <<ids, acts, autoreap, ctl, tty, nextpid>>

\* stop_self: the parent is told, and the loop goes on after the continue.
DeliverStop(s) ==
    /\ InDeliver(s) /\ signal_pending(s)
    /\ Default(s, Taken(s)) /\ Taken(s) \in STOPSIGS
    /\ Taken(s) = SIGSTOP \/ ~orphan_pgrp(pgid[s])
    /\ Post([state EXCEPT ![s] = "STOPPED"], Took(s), [report EXCEPT ![s] = "stop"],
            ppid, To(FindPid(ppid[s]), {SIGCHLD}), FindPid(ppid[s]))
    /\ cur' = 0
    /\ UNCHANGED <<ids, acts, autoreap, ctl, tty, nextpid>>

Fatal(s, g) == Default(s, g) /\ ~default_ignored(g) /\ g \notin STOPSIGS
Catches(s, g) == handler[s][g] \in {"CATCH", "RESTART"}

\* exit_signal, also when the frame of a handler does not fit on the stack.
DeliverExit(s) ==
    /\ InDeliver(s) /\ signal_pending(s) /\ pid[s] # 1
    /\ \/ Fatal(s, Taken(s))
       \/ Catches(s, Taken(s)) /\ Len(frames[s]) = MaxFrames
    /\ ExitProc(s)

\* A slip: the signal that is handled is not blocked.
HandlerMaskOld(s) == sigmask[s]
HandlerMask(s) == (sigmask[s] \cup {Taken(s)}) \ UNBLOCKABLE

\* push_frame: an interrupted call is repeated after the handler if it asked
\* for SA_RESTART (pause never is); otherwise it has failed with EINTR.
DeliverCaught(s) ==
    /\ InDeliver(s) /\ signal_pending(s)
    /\ Catches(s, Taken(s)) /\ Len(frames[s]) < MaxFrames
    /\ LET restarts == /\ eintr[s] /\ handler[s][Taken(s)] = "RESTART"
                       /\ call[s].nr # "pause"
           again == redo[s] \/ restarts
       IN frames' = [frames EXCEPT ![s] = Append(@, [mask |-> sigmask[s], redo |-> again,
                        call |-> IF again THEN call[s] ELSE NoCall])]
    /\ sigmask' = [sigmask EXCEPT ![s] = HandlerMask(s)]
    /\ sigpend' = Took(s)
    /\ eintr' = [eintr EXCEPT ![s] = FALSE]
    /\ redo' = [redo EXCEPT ![s] = FALSE]
    /\ call' = [call EXCEPT ![s] = NoCall]
    /\ pc' = [pc EXCEPT ![s] = "user"]
    /\ UNCHANGED <<state, ids, handler, report, autoreap, tty, cur, nextpid>>

\* A slip: the call fails although no handler ran.
DeliverDoneFails(s) ==
    /\ InDeliver(s) /\ ~signal_pending(s)
    /\ eintr' = [eintr EXCEPT ![s] = FALSE]
    /\ pc' = [pc EXCEPT ![s] = "user"]
    /\ UNCHANGED <<state, ids, acts, sigpend, report, autoreap, call, redo, tty, cur, nextpid>>

\* Nothing (left) to deliver: an interrupted call is started again.
DeliverDone(s) ==
    /\ InDeliver(s) /\ ~signal_pending(s)
    /\ redo' = [redo EXCEPT ![s] = @ \/ eintr[s]]
    /\ eintr' = [eintr EXCEPT ![s] = FALSE]
    /\ pc' = [pc EXCEPT ![s] = "user"]
    /\ UNCHANGED <<state, ids, acts, sigpend, report, autoreap, call, tty, cur, nextpid>>

\* User code executes the SYSCALL instruction the trap frame points at.
Redo(s) ==
    /\ cur = s /\ pc[s] = "user" /\ redo[s] /\ call[s].nr \in {"waitpid", "pause", "rpc"}
    /\ redo' = [redo EXCEPT ![s] = FALSE]
    /\ pc' = [pc EXCEPT ![s] = IF call[s].nr = "pause" THEN "pause"
                               ELSE IF call[s].nr = "rpc" THEN "busy" ELSE "wait"]
    /\ UNCHANGED <<state, ids, acts, sigpend, report, autoreap, call, eintr, tty, cur, nextpid>>

Syscall(s) ==
    \/ \E nowait \in BOOLEAN : Fork(s, nowait)
    \/ Exec(s)
    \/ Exit(s)
    \/ \E n \in WaitPids, opts \in WaitOpts : Waitpid(s, n, opts)
    \/ Pause(s)
    \/ Rpc(s)
    \/ \E t \in Slots : Serve(s, t)
    \/ \E T \in KillTargets(s), g \in KillSigs : Kill(s, T, g)
    \/ \E g \in ActSigs, h \in Actions : sigaction(s, g, h)
    \/ \E set \in SUBSET MaskSigs : sigprocmask(s, set)
    \/ sigreturn(s)
    \/ \E p \in Slots, g \in Pids : setpgid(s, p, g)
    \/ setsid(s)
    \/ \E steal \in BOOLEAN : TiocsCtty(s, steal)
    \/ \E g \in Pids : TiocsPgrp(s, g)
    \/ \E g \in {SIGTTIN, SIGTTOU} \cap Signals : TtyAccess(s, g)

\* The steps of a process that is in the kernel, which nothing else interrupts.
Kernel(s) ==
    \/ WaitReap(s)
    \/ WaitNone(s)
    \/ PauseLoop(s)
    \/ RpcLoop(s)
    \/ DeliverNothing(s)
    \/ DeliverStop(s)
    \/ DeliverExit(s)
    \/ DeliverCaught(s)
    \/ DeliverDone(s)

Next ==
    \/ \E s \in Slots : Schedule(s) \/ Tick(s) \/ Syscall(s) \/ Kernel(s) \/ Redo(s)
    \/ Idle
    \/ \E g \in TtySigs : TtyInput(g)

Spec == Init /\ [][Next]_vars

-----------------------------------------------------------------------------
(* Properties. *)

\* The type invariant.
TypeOK ==
    /\ state \in [Slots -> States]
    /\ pid \in [Slots -> 0..PidLimit - 1] /\ ppid \in [Slots -> 0..PidLimit - 1]
    /\ pgid \in [Slots -> 0..PidLimit - 1] /\ sid \in [Slots -> 0..PidLimit - 1]
    /\ handler \in [Slots -> [Signals -> Handlers]]
    /\ sigpend \in [Slots -> SUBSET Signals] /\ sigmask \in [Slots -> SUBSET Signals]
    /\ report \in [Slots -> {"none", "stop", "cont"}]
    /\ autoreap \in [Slots -> BOOLEAN]
    /\ pc \in [Slots -> {"user", "deliver", "wait", "pause"} \cup RpcWaits]
    /\ call \in [Slots -> Call]
    /\ eintr \in [Slots -> BOOLEAN] /\ redo \in [Slots -> BOOLEAN]
    /\ frames \in [Slots -> Seq(Frame)]
    /\ ctty \in [Slots -> BOOLEAN]
    /\ ttySid \in 0..PidLimit - 1 /\ ttyPgrp \in 0..PidLimit - 1
    /\ cur \in 0..NPROC /\ nextpid \in Pids

\* Numbers name one process: no two used slots share a process number, and the
\* numbers of a group or session are not reused while it has members.
PidsUnique ==
    \A s, t \in Slots : Used(s) /\ Used(t) /\ pid[s] = pid[t] => s = t

\* do_exit passes the children on before the process becomes a zombie, so the
\* parent number of a process always names a process that has not exited: no
\* ended child is ever without a parent to wait for it, and no recycled
\* process number makes a stranger the parent.
ParentAlive ==
    \A s \in Slots : Used(s) /\ pid[s] # 1 =>
        \E q \in Slots : state[q] \notin Dead /\ pid[q] = ppid[s]

\* All members of a process group, ended ones included, are in one session
\* whatever sequence of fork, setpgid, setsid, exit and number reuse led here.
GroupInOneSession ==
    \A s, t \in Slots : Used(s) /\ Used(t) /\ pgid[s] = pgid[t] => sid[s] = sid[t]

\* A process asleep in waitpid has nothing to be told: every event do_waitpid
\* reports has woken it.  init is not woken for stop and continue reports of
\* the children it inherits (do_exit wakes it for zombies only).
NoMissedChild ==
    \A s \in Slots : state[s] = "SLEEPING" /\ pc[s] = "wait" =>
        \A c \in Reportable(s, call[s]) : pid[s] = 1 /\ state[c] # "ZOMBIE"

\* A process asleep in waitpid still has a child that has not ended, so that
\* an exit will wake it: it never sleeps for a child it lost.
WaiterHasChild ==
    \A s \in Slots : state[s] = "SLEEPING" /\ pc[s] = "wait" =>
        \E c \in Slots : state[c] \notin Dead /\ ppid[c] = pid[s]

\* A process with KILL pending is never stopped, and it sleeps in one place
\* only, inside the uninterruptible stretches of a 9P call (nointr): every other
\* wait, the interruptible ones of that call included, is ended by KILL or not
\* begun (send_signal, sleep_on, signal_pending).
KillNotDeferred ==
    \A s \in Slots : SIGKILL \in sigpend[s] =>
        state[s] \in {"RUNNABLE", "RUNNING"} \/ (state[s] = "SLEEPING" /\ nointr(s))

\* signal.c and tty.c decide with two different functions whether a group is
\* orphaned.  They agree on every group with members: otherwise a background
\* read would be signalled, the signal discarded, and the read repeated forever.
OrphanTestsAgree ==
    \A g \in Pids : Group(g) # {} => (orphan_pgrp(g) <=> tty_orphan(g))

\* An exit that orphans a group leaves none of its members stopped, and a
\* stopped member that does not ignore HUP gets it.
ExitContinuesOrphans ==
    [][\A g \in Pids :
         /\ \E s \in Slots : state[s] \notin Dead /\ state'[s] = "ZOMBIE"
         /\ ~orphan_pgrp(g) /\ orphan_pgrp(g)'
         => \A p \in Group(g) :
              /\ state'[p] # "STOPPED"
              /\ state[p] = "STOPPED" /\ ~ignored(p, SIGHUP) /\ pid[p] # 1
                 => SIGHUP \in sigpend'[p]]_vars

\* A terminal in use belongs to a session whose leader is alive and has it as
\* its controlling terminal, and so has nobody outside that session: setsid,
\* TIOCSCTTY with stealing and the exit of a leader keep the three records
\* (the terminal's session, every process's ctty, the sessions) in step.
TerminalOwned ==
    /\ ttySid # 0 => \E l \in Slots : /\ state[l] \notin Dead /\ ctty[l]
                                      /\ pid[l] = ttySid /\ sid[l] = ttySid
    /\ \A p \in Slots : ctty[p] => ttySid # 0 /\ sid[p] = ttySid

\* Numbers and parents name what they should: a process number one process, a
\* parent number a process that is alive (alloc_pid, do_rfork, do_exit).
KinKnown == PidsUnique /\ ParentAlive

\* A process asleep in waitpid will hear: it has a child that has not ended, and
\* nothing to be told of that it was not woken for (do_waitpid, do_exit, stopped).
WaitersHear == NoMissedChild /\ WaiterHasChild

\* Groups, sessions and the terminal stay in step: a group is in one session, the
\* two orphan tests agree, and a terminal in use is its session's alone.
SessionsAgree == GroupInOneSession /\ OrphanTestsAgree /\ TerminalOwned

\* A call that was interrupted returns to user code as EINTR only with a
\* handler on the stack; if no signal was caught, the same call is repeated.
UncaughtNeverInterrupts ==
    [][\A s \in Slots :
         /\ pc[s] = "deliver" /\ eintr[s] /\ pc'[s] = "user" /\ state'[s] \notin Dead
         /\ ~redo'[s]
         => \E g \in sigpend[s] : Catches(s, g) /\ Len(frames'[s]) = Len(frames[s]) + 1]_vars

\* Without sigprocmask the handlers on a stack are of different signals: each
\* runs with its own signal blocked, and a frame holds a smaller mask than the
\* frames above it, across nesting, fork in a handler and sigreturn.
HandlersNest ==
    \A s \in Slots : \A i \in 1..Len(frames[s]) :
        LET above == IF i = Len(frames[s]) THEN sigmask[s] ELSE frames[s][i + 1].mask
        IN  frames[s][i].mask \subseteq above /\ frames[s][i].mask # above

-----------------------------------------------------------------------------
(* Liveness.  The timer preempts user code and round robin runs everyone   *)
(* of one nice value, so a runnable process is run again and again.        *)

\* A process that has been sent KILL ends, wherever it was (without 9P calls,
\* which wait for a server).
KillEnds == \A s \in Slots : SIGKILL \in sigpend[s] ~> state[s] \in Dead

\* A process waiting for any child returns once a child has ended.
WaitEnds ==
    \A s \in Slots :
        /\ pc[s] = "wait" /\ call[s].pid = -1
        /\ \E c \in Slots : state[c] = "ZOMBIE" /\ ppid[c] = pid[s]
        ~> pc[s] # "wait"

=============================================================================
