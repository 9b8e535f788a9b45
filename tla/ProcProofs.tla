----------------------------- MODULE ProcProofs -----------------------------
(***************************************************************************)
(* Proofs about Proc: for every size of the process table, every range of  *)
(* process numbers and every set of signals.                               *)
(***************************************************************************)
EXTENDS Proc, TLAPS, WellFoundedInduction

\* A non-empty set of naturals has a smallest element, which is what Min is.
\* It is the lemma behind alloc_pid, alloc_proc and "the lowest signal".
LEMMA MinInSet ==
    ASSUME NEW S, S \subseteq Nat, S # {}
    PROVE  Min(S) \in S /\ \A y \in S : Min(S) <= y
<1> DEFINE R == {ss \in Nat \X Nat : ss[1] < ss[2]}
<1>1. IsWellFoundedOn(R, Nat)
  BY NatLessThanWellFounded DEF OpToRel
<1>2. PICK x \in S : \A y \in S : ~(<<y, x>> \in R)
  <2> HIDE DEF R
  <2> QED BY Zenon, <1>1, WFMin
<1>3. \A y \in S : x <= y
  <2> SUFFICES ASSUME NEW y \in S, ~(x <= y) PROVE <<y, x>> \in R
    BY Zenon, <1>2
  <2>1. y < x /\ x \in Nat /\ y \in Nat
    OBVIOUS
  <2> QED BY <2>1
<1> QED BY Zenon, <1>3 DEF Min

\* Signal numbers are naturals.
LEMMA SignalsNat == Signals \subseteq Nat
<1>1. Signals \subseteq 1..31
  BY ProcAssumption
<1> QED BY <1>1

\* send_signal and wakeup change the state of a process only from stopped or
\* asleep to runnable, and send only signals there are.
LEMMA PostLemma ==
    ASSUME TypeOK,
           NEW st \in [Slots -> States], NEW pend \in [Slots -> SUBSET Signals],
           NEW rep \in [Slots -> {"none", "stop", "cont"}],
           NEW par, NEW mail \in [Slots -> SUBSET Signals], NEW woken,
           Post(st, pend, rep, par, mail, woken)
    PROVE  /\ state' \in [Slots -> States]
           /\ sigpend' \in [Slots -> SUBSET Signals]
           /\ report' \in [Slots -> {"none", "stop", "cont"}]
           /\ \A s \in Slots : \/ state'[s] = st[s]
                               \/ /\ st[s] \in {"STOPPED", "SLEEPING"}
                                  /\ state'[s] = "RUNNABLE"
<1>1. SIGCHLD \in Signals
  BY ProcAssumption
<1>2. \A s \in Slots : state'[s] = st[s] \/ (st[s] \in {"STOPPED", "SLEEPING"} /\ state'[s] = "RUNNABLE")
  BY DEF Post
<1>3. state' \in [Slots -> States]
  BY DEF Post, States
<1>4. report' \in [Slots -> {"none", "stop", "cont"}]
  BY DEF Post, Fill
<1>5. sigpend' \in [Slots -> SUBSET Signals]
  <2> SUFFICES ASSUME NEW p \in SUBSET Signals, NEW s \in Slots, NEW got \in SUBSET Signals
               PROVE  Received(p, s, got) \subseteq Signals
    BY <1>1 DEF Post
  <2> QED BY DEF Received
<1> QED BY <1>2, <1>3, <1>4, <1>5

\* alloc_pid returns a number of the range that nothing in the table uses.
LEMMA AllocPidFree ==
    ASSUME TypeOK, FreeAt # {}
    PROVE  /\ alloc_pid \in Pids /\ ~PidUsed(alloc_pid)
           /\ (alloc_pid % (PidLimit - 1)) + 1 \in Pids
<1>1. PidLimit \in Nat /\ PidLimit > 2
  BY ProcAssumption
<1>2. nextpid \in Nat /\ nextpid >= 1
  BY DEF TypeOK, Pids
<1>3. Min(FreeAt) \in FreeAt
  BY <1>1, MinInSet DEF FreeAt
<1>4. ~PidUsed(alloc_pid) /\ Min(FreeAt) \in Nat
  BY <1>1, <1>3 DEF FreeAt, alloc_pid
<1>5. alloc_pid \in Pids
  BY <1>1, <1>2, <1>4 DEF alloc_pid, PidAt, Pids
<1> QED BY <1>1, <1>4, <1>5 DEF Pids

\* alloc_proc takes an unused slot.
LEMMA FreeSlot ==
    ASSUME Free # {}
    PROVE  Min(Free) \in Slots /\ state[Min(Free)] = "UNUSED"
<1>1. Free \subseteq Nat
  BY ProcAssumption DEF Free, Slots
<1> QED BY <1>1, MinInSet DEF Free, Used

\* deliver_signals takes a signal that is pending.
LEMMA TakenReady ==
    ASSUME TypeOK, NEW s \in Slots, signal_pending(s)
    PROVE  Taken(s) \in Ready(s) /\ Taken(s) \in Signals /\ Took(s) \in [Slots -> SUBSET Signals]
<1>1. Ready(s) \subseteq Signals
  BY DEF Ready, TypeOK
<1>2. Ready(s) \subseteq Nat
  BY Zenon, <1>1, SignalsNat
<1>3. Taken(s) \in Ready(s)
  BY <1>2, MinInSet DEF Taken, signal_pending
<1> QED BY <1>1, <1>3 DEF Took, TypeOK

\* do_exit keeps the types.
LEMMA ExitType ==
    ASSUME TypeOK, NEW s \in Slots, ExitProc(s)
    PROVE  TypeOK'
<1> DEFINE par == ReparentedTo(s, NPROC)
           st == [state EXCEPT ![s] = "ZOMBIE"]
           mine == OrphanIn(st, par, pgid[s]) /\ HasStopped(st, pgid[s])
           hup == Kicked(s) \cup (IF HangsUp(s) THEN {ttyPgrp} ELSE {})
                            \cup (IF mine THEN {pgid[s]} ELSE {})
           parent == FindPid(ppid[s])
           mail == [p \in Slots |-> (IF pgid[p] \in hup THEN {SIGHUP, SIGCONT} ELSE {})
                                    \cup (IF p \in parent THEN {SIGCHLD} ELSE {})]
           told == [p \in Slots |-> IF pgid[p] \in Kicked(s)
                                    THEN ReparentedTo(s, Min(KickedAt(s, pgid[p])))[p]
                                    ELSE par[p]]
<1>1. Post(st, [sigpend EXCEPT ![s] = {}], report, told, mail, ExitWakes(s))
  BY DEF ExitProc
<1>2. mail \in [Slots -> SUBSET Signals]
  BY ProcAssumption
<1>3. st \in [Slots -> States] /\ [sigpend EXCEPT ![s] = {}] \in [Slots -> SUBSET Signals]
  BY DEF TypeOK, States
<1>4. report \in [Slots -> {"none", "stop", "cont"}]
  BY DEF TypeOK
<1>5. /\ state' \in [Slots -> States]
      /\ sigpend' \in [Slots -> SUBSET Signals]
      /\ report' \in [Slots -> {"none", "stop", "cont"}]
  <2> HIDE DEF st, mail, told
  <2> QED BY Zenon, <1>1, <1>2, <1>3, <1>4, PostLemma
<1>6. ppid' \in [Slots -> 0..PidLimit - 1]
  BY ProcAssumption DEF ExitProc, ReparentedTo, TypeOK
<1>7. autoreap' \in [Slots -> BOOLEAN] /\ ctty' \in [Slots -> BOOLEAN]
  BY Zenon DEF ExitProc, TypeOK, IgnoresChld
<1>8. ttySid' \in 0..PidLimit - 1 /\ ttyPgrp' \in 0..PidLimit - 1 /\ cur' \in 0..NPROC
  BY ProcAssumption DEF ExitProc, TypeOK
<1>9. /\ pc' \in [Slots -> {"user", "deliver", "wait", "pause"} \cup RpcWaits]
      /\ call' \in [Slots -> Call]
      /\ eintr' \in [Slots -> BOOLEAN] /\ redo' \in [Slots -> BOOLEAN]
  BY DEF ExitProc, TypeOK, Call
<1>10. UNCHANGED <<pid, pgid, sid, acts, nextpid>>
  BY DEF ExitProc
<1> QED BY SMTT(30), <1>5, <1>6, <1>7, <1>8, <1>9, <1>10 DEF TypeOK, acts

\* Releasing slots keeps the types.
LEMMA ReleaseType ==
    ASSUME TypeOK, NEW S, Release(S)
    PROVE  /\ pid' \in [Slots -> 0..PidLimit - 1] /\ ppid' \in [Slots -> 0..PidLimit - 1]
           /\ pgid' \in [Slots -> 0..PidLimit - 1] /\ sid' \in [Slots -> 0..PidLimit - 1]
           /\ handler' \in [Slots -> [Signals -> Handlers]]
           /\ sigpend' \in [Slots -> SUBSET Signals] /\ sigmask' \in [Slots -> SUBSET Signals]
           /\ frames' \in [Slots -> Seq(Frame)]
           /\ autoreap' \in [Slots -> BOOLEAN] /\ ctty' \in [Slots -> BOOLEAN]
<1>1. /\ pid' \in [Slots -> 0..PidLimit - 1] /\ ppid' \in [Slots -> 0..PidLimit - 1]
      /\ pgid' \in [Slots -> 0..PidLimit - 1] /\ sid' \in [Slots -> 0..PidLimit - 1]
  BY ProcAssumption DEF TypeOK, Release, Fill
<1>2. sigpend' \in [Slots -> SUBSET Signals] /\ sigmask' \in [Slots -> SUBSET Signals]
  BY DEF TypeOK, Release, Fill
<1>3. autoreap' \in [Slots -> BOOLEAN] /\ ctty' \in [Slots -> BOOLEAN]
  BY Zenon DEF TypeOK, Release, Fill
<1>4. handler' \in [Slots -> [Signals -> Handlers]]
  <2>1. [g \in Signals |-> "DFL"] \in [Signals -> Handlers]
    BY DEF Handlers
  <2> QED BY <2>1 DEF TypeOK, Release, Fill
<1>5. frames' \in [Slots -> Seq(Frame)]
  <2>1. << >> \in Seq(Frame)
    OBVIOUS
  <2> QED BY <2>1 DEF TypeOK, Release, Fill
<1> QED BY <1>1, <1>2, <1>3, <1>4, <1>5

\* What a 9P call may do at one of its waits: end, go to another wait, or sleep.
LEMMA RpcCases ==
    ASSUME NEW s \in Slots, RpcLoop(s)
    PROVE  \/ (Return(s) \/ ReturnEINTR(s)) /\ UNCHANGED <<state, cur>>
           \/ \E to \in RpcWaits : pc' = [pc EXCEPT ![s] = to] /\ UNCHANGED <<call, eintr, redo, state, cur>>
           \/ state' = [state EXCEPT ![s] = "SLEEPING"] /\ cur' = 0 /\ UNCHANGED ctl
BY ZenonT(30) DEF RpcLoop, RpcGoesOn

\* Every step of the system keeps the types.
LEMMA TypeStep ==
    TypeOK /\ [Next]_vars => TypeOK'
<1> SUFFICES ASSUME TypeOK, [Next]_vars PROVE TypeOK'
  OBVIOUS
<1> USE DEF ids, acts, ctl, tty
<1>0. /\ 0 \in 0..NPROC /\ Slots \subseteq 0..NPROC
      /\ 0 \in 0..PidLimit - 1 /\ 1 \in 0..PidLimit - 1 /\ Pids \subseteq 0..PidLimit - 1
      /\ NoCall \in Call
      /\ KillSigs \subseteq Signals /\ TtySigs \subseteq Signals /\ ActSigs \subseteq Signals
      /\ MaskSigs \subseteq Signals /\ SIGCHLD \in Signals /\ Actions \subseteq Handlers
  BY ProcAssumption DEF Slots, Pids, Call, Handlers
<1>1. ASSUME NEW s \in Slots, Schedule(s) PROVE TypeOK'
  <2>1. /\ state' \in [Slots -> States] /\ report' \in [Slots -> {"none", "stop", "cont"}]
    BY SMTT(30), <1>1 DEF Schedule, Fill, TypeOK, States
  <2> QED BY Zenon, <1>0, <1>1, <2>1, ReleaseType DEF Schedule, TypeOK
<1>2. ASSUME NEW s \in Slots, Tick(s) PROVE TypeOK'
  BY Zenon, <1>0, <1>2 DEF Tick, TypeOK, States
<1>3. ASSUME NEW s \in Slots, NEW nowait \in BOOLEAN, Fork(s, nowait) PROVE TypeOK'
  <2>1. alloc_pid \in Pids /\ (alloc_pid % (PidLimit - 1)) + 1 \in Pids
    BY <1>3, AllocPidFree DEF Fork
  <2>2. Min(Free) \in Slots
    BY <1>3, FreeSlot DEF Fork
  <2> QED BY Zenon, <1>0, <1>3, <2>1, <2>2 DEF Fork, TypeOK, States
<1>4. ASSUME NEW s \in Slots, Exec(s) PROVE TypeOK'
  <2>1. handler' \in [Slots -> [Signals -> Handlers]]
    BY <1>4 DEF Exec, TypeOK, Handlers
  <2>2. << >> \in Seq(Frame)
    OBVIOUS
  <2>3. frames' \in [Slots -> Seq(Frame)]
    BY <1>4, <2>2 DEF Exec, TypeOK
  <2> QED BY Zenon, <1>0, <1>4, <2>1, <2>3 DEF Exec, Return, TypeOK
<1>5. ASSUME NEW s \in Slots, Exit(s) PROVE TypeOK'
  BY <1>5, ExitType DEF Exit
<1>6. ASSUME NEW s \in Slots, NEW n \in WaitPids, NEW opts \in WaitOpts, Waitpid(s, n, opts)
      PROVE  TypeOK'
  <2>1. [nr |-> "waitpid", pid |-> n, opts |-> opts] \in Call
    BY ProcAssumption DEF Call
  <2> QED BY <1>6, <2>1 DEF Waitpid, TypeOK
<1>7. ASSUME NEW s \in Slots, Pause(s) PROVE TypeOK'
  BY Zenon, <1>0, <1>7 DEF Pause, TypeOK, Call
<1>7r. ASSUME NEW s \in Slots, Rpc(s) PROVE TypeOK'
  BY ZenonT(30), <1>0, <1>7r DEF Rpc, TypeOK, Call, RpcWaits
<1>7s. ASSUME NEW s \in Slots, NEW t \in Slots, Serve(s, t) PROVE TypeOK'
  BY ZenonT(30), <1>0, <1>7s DEF Serve, Return, TypeOK, States
<1>8. ASSUME NEW s \in Slots, NEW T \in KillTargets(s), NEW g \in KillSigs, Kill(s, T, g)
      PROVE  TypeOK'
  <2>1. To(T, {g}) \in [Slots -> SUBSET Signals]
    BY <1>0 DEF To
  <2>2. /\ state' \in [Slots -> States]
        /\ sigpend' \in [Slots -> SUBSET Signals]
        /\ report' \in [Slots -> {"none", "stop", "cont"}]
    BY Zenon, <1>0, <1>8, <2>1, PostLemma DEF Kill, SendTo, TypeOK
  <2> QED BY Zenon, <1>0, <1>8, <2>2 DEF Kill, Return, TypeOK
<1>9. ASSUME NEW s \in Slots, NEW g \in ActSigs, NEW h \in Actions, sigaction(s, g, h)
      PROVE  TypeOK'
  BY Zenon, <1>0, <1>9 DEF sigaction, Return, TypeOK, Handlers
<1>10. ASSUME NEW s \in Slots, NEW set \in SUBSET MaskSigs, sigprocmask(s, set) PROVE TypeOK'
  BY Zenon, <1>0, <1>10 DEF sigprocmask, Return, TypeOK
<1>11. ASSUME NEW s \in Slots, sigreturn(s) PROVE TypeOK'
  <2>1. frames[s] \in Seq(Frame) /\ frames[s] # << >>
    BY <1>11 DEF sigreturn, TypeOK
  <2>2. frames[s][Len(frames[s])] \in Frame
    BY <2>1
  <2>3. SubSeq(frames[s], 1, Len(frames[s]) - 1) \in Seq(Frame)
    BY <2>1
  <2> QED BY Zenon, <1>11, <2>2, <2>3 DEF sigreturn, TypeOK, Frame
<1>12. ASSUME NEW s \in Slots, NEW p \in Slots, NEW g \in Pids, setpgid(s, p, g) PROVE TypeOK'
  BY Zenon, <1>0, <1>12 DEF setpgid, Return, TypeOK
<1>13. ASSUME NEW s \in Slots, setsid(s) PROVE TypeOK'
  BY Zenon, <1>0, <1>13 DEF setsid, Return, TypeOK
<1>14. ASSUME NEW s \in Slots, NEW steal \in BOOLEAN, TiocsCtty(s, steal) PROVE TypeOK'
  BY Zenon, <1>0, <1>14 DEF TiocsCtty, Return, TypeOK
<1>15. ASSUME NEW s \in Slots, NEW g \in Pids, TiocsPgrp(s, g) PROVE TypeOK'
  BY Zenon, <1>0, <1>15 DEF TiocsPgrp, Return, TypeOK
<1>16. ASSUME NEW s \in Slots, NEW g \in {SIGTTIN, SIGTTOU} \cap Signals, TtyAccess(s, g)
       PROVE  TypeOK'
  <2>1. To(Group(pgid[s]), {g}) \in [Slots -> SUBSET Signals]
    BY <1>0 DEF To
  <2>2. /\ state' \in [Slots -> States]
        /\ sigpend' \in [Slots -> SUBSET Signals]
        /\ report' \in [Slots -> {"none", "stop", "cont"}]
    BY Zenon, <1>0, <1>16, <2>1, PostLemma DEF TtyAccess, SendTo, TypeOK
  <2>3. [nr |-> "tty", sig |-> g] \in Call /\ NoCall \in Call
    BY DEF Call, STOPSIGS
  <2> QED BY ZenonT(30), <1>0, <1>16, <2>2, <2>3 DEF TtyAccess, TypeOK
<1>17. ASSUME NEW s \in Slots, WaitReap(s) PROVE TypeOK'
  <2>1. /\ state' \in [Slots -> States]
        /\ report' \in [Slots -> {"none", "stop", "cont"}]
    BY Zenon, <1>17 DEF WaitReap, TypeOK, States
  <2>2. CASE state[Min(Reportable(s, call[s]))] = "ZOMBIE"
    BY Zenon, <1>0, <1>17, <2>1, <2>2, ReleaseType DEF WaitReap, Return, TypeOK
  <2>3. CASE state[Min(Reportable(s, call[s]))] # "ZOMBIE"
    BY Zenon, <1>0, <1>17, <2>1, <2>3 DEF WaitReap, Return, TypeOK
  <2> QED BY <2>2, <2>3
<1>18. ASSUME NEW s \in Slots, WaitNone(s) PROVE TypeOK'
  BY Zenon, <1>0, <1>18 DEF WaitNone, Return, ReturnEINTR, TypeOK, States
<1>19. ASSUME NEW s \in Slots, PauseLoop(s) PROVE TypeOK'
  BY ZenonT(30), <1>0, <1>19 DEF PauseLoop, ReturnEINTR, TypeOK, States
<1>19r. ASSUME NEW s \in Slots, RpcLoop(s) PROVE TypeOK'
  <2>0. UNCHANGED <<ids, acts, sigpend, report, autoreap, tty, nextpid>>
    BY <1>19r DEF RpcLoop
  <2>1. CASE (Return(s) \/ ReturnEINTR(s)) /\ UNCHANGED <<state, cur>>
    BY ZenonT(30), <1>0, <2>0, <2>1 DEF Return, ReturnEINTR, TypeOK
  <2>2. CASE \E to \in RpcWaits : pc' = [pc EXCEPT ![s] = to] /\ UNCHANGED <<call, eintr, redo, state, cur>>
    BY ZenonT(30), <1>0, <2>0, <2>2 DEF TypeOK
  <2>3. CASE state' = [state EXCEPT ![s] = "SLEEPING"] /\ cur' = 0 /\ UNCHANGED ctl
    BY ZenonT(30), <1>0, <2>0, <2>3 DEF TypeOK, States
  <2> QED BY ZenonT(30), <1>19r, <2>1, <2>2, <2>3, RpcCases
<1>20. ASSUME NEW s \in Slots, DeliverNothing(s) PROVE TypeOK'
  BY SMTT(30), <1>20, TakenReady DEF DeliverNothing, TypeOK
<1>21. ASSUME NEW s \in Slots, DeliverStop(s) PROVE TypeOK'
  <2>1. Took(s) \in [Slots -> SUBSET Signals]
    BY <1>0, <1>21, TakenReady DEF DeliverStop
  <2>2. /\ To(FindPid(ppid[s]), {SIGCHLD}) \in [Slots -> SUBSET Signals]
        /\ [state EXCEPT ![s] = "STOPPED"] \in [Slots -> States]
        /\ [report EXCEPT ![s] = "stop"] \in [Slots -> {"none", "stop", "cont"}]
    BY SMTT(30), <1>0 DEF To, TypeOK, States
  <2>3. /\ state' \in [Slots -> States]
        /\ sigpend' \in [Slots -> SUBSET Signals]
        /\ report' \in [Slots -> {"none", "stop", "cont"}]
    BY Zenon, <1>0, <1>21, <2>1, <2>2, PostLemma DEF DeliverStop
  <2> QED BY Zenon, <1>0, <1>21, <2>3 DEF DeliverStop, TypeOK
<1>22. ASSUME NEW s \in Slots, DeliverExit(s) PROVE TypeOK'
  BY <1>22, ExitType DEF DeliverExit
<1>23. ASSUME NEW s \in Slots, DeliverCaught(s) PROVE TypeOK'
  <2>1. Taken(s) \in Signals /\ Took(s) \in [Slots -> SUBSET Signals]
    BY <1>0, <1>23, TakenReady DEF DeliverCaught
  <2> DEFINE again == \/ redo[s]
                      \/ /\ eintr[s] /\ handler[s][Taken(s)] = "RESTART"
                         /\ call[s].nr # "pause"
             f == [mask |-> sigmask[s], redo |-> again, call |-> IF again THEN call[s] ELSE NoCall]
  <2>2. f \in Frame
    <3>1. again \in BOOLEAN
      BY DEF TypeOK
    <3> HIDE DEF again
    <3> QED BY <1>0, <3>1 DEF Frame, TypeOK
  <2>3. HandlerMask(s) \in SUBSET Signals
    BY <2>1 DEF HandlerMask, TypeOK
  <2>4. frames' \in [Slots -> Seq(Frame)]
    <3>1. frames' = [frames EXCEPT ![s] = Append(@, f)]
      BY Zenon, <1>23 DEF DeliverCaught
    <3> HIDE DEF f
    <3> QED BY <2>2, <3>1 DEF TypeOK
  <2> QED BY Zenon, <1>0, <1>23, <2>1, <2>2, <2>3, <2>4 DEF DeliverCaught, TypeOK
<1>24. ASSUME NEW s \in Slots, DeliverDone(s) PROVE TypeOK'
  BY SMTT(30), <1>24 DEF DeliverDone, TypeOK
<1>25. ASSUME NEW s \in Slots, Redo(s) PROVE TypeOK'
  BY ZenonT(30), <1>25 DEF Redo, TypeOK, RpcWaits
<1>26. CASE Idle
  <2>1. /\ state' \in [Slots -> States] /\ report' \in [Slots -> {"none", "stop", "cont"}]
    BY <1>26 DEF Idle, Fill, TypeOK, States
  <2> QED BY <1>26, <2>1, ReleaseType DEF Idle, TypeOK
<1>27. ASSUME NEW g \in TtySigs, TtyInput(g) PROVE TypeOK'
  <2>1. To(Group(ttyPgrp), {g}) \in [Slots -> SUBSET Signals]
    BY <1>0 DEF To
  <2>2. /\ state' \in [Slots -> States]
        /\ sigpend' \in [Slots -> SUBSET Signals]
        /\ report' \in [Slots -> {"none", "stop", "cont"}]
    BY Zenon, <1>27, <2>1, PostLemma DEF TtyInput, SendTo, TypeOK
  <2> QED BY Zenon, <1>27, <2>2 DEF TtyInput, TypeOK
<1>28. CASE UNCHANGED vars
  BY <1>28 DEF vars, TypeOK
<1> QED
  BY <1>1, <1>2, <1>3, <1>4, <1>5, <1>6, <1>7, <1>7r, <1>7s, <1>19r, <1>8, <1>9, <1>10, <1>11, <1>12, <1>13, <1>14,
     <1>15, <1>16, <1>17, <1>18, <1>19, <1>20, <1>21, <1>22, <1>23, <1>24, <1>25, <1>26, <1>27,
     <1>28 DEF Next, Syscall, Kernel

\* The initial state has the types.
LEMMA InitType == Init => TypeOK
<1> SUFFICES ASSUME Init PROVE TypeOK
  OBVIOUS
<1>1. /\ state \in [Slots -> States] /\ report \in [Slots -> {"none", "stop", "cont"}]
      /\ pc \in [Slots -> {"user", "deliver", "wait", "pause"} \cup RpcWaits]
  BY DEF Init, States
<1>2. /\ pid \in [Slots -> 0..PidLimit - 1] /\ ppid \in [Slots -> 0..PidLimit - 1]
      /\ pgid \in [Slots -> 0..PidLimit - 1] /\ sid \in [Slots -> 0..PidLimit - 1]
      /\ ttySid \in 0..PidLimit - 1 /\ ttyPgrp \in 0..PidLimit - 1
      /\ cur \in 0..NPROC /\ nextpid \in Pids
  BY ProcAssumption DEF Init, Pids
<1>3. handler \in [Slots -> [Signals -> Handlers]] /\ call \in [Slots -> Call]
  BY DEF Init, Handlers, Call
<1>4. /\ sigpend \in [Slots -> SUBSET Signals] /\ sigmask \in [Slots -> SUBSET Signals]
      /\ frames \in [Slots -> Seq(Frame)]
  BY DEF Init
<1>5. /\ autoreap \in [Slots -> BOOLEAN] /\ eintr \in [Slots -> BOOLEAN]
      /\ redo \in [Slots -> BOOLEAN] /\ ctty \in [Slots -> BOOLEAN]
  BY DEF Init
<1> QED BY <1>1, <1>2, <1>3, <1>4, <1>5 DEF TypeOK

\* Every state of the system has the types TypeOK names: the process table of
\* proc.c, the signal state of signal.c and the terminal's owner in tty.c.
THEOREM TypeCorrect == Spec => []TypeOK
<1> QED BY InitType, TypeStep, PTL DEF Spec

-----------------------------------------------------------------------------
(* The process table.  ParentAlive, GroupInOneSession and TerminalOwned are  *)
(* not inductive on their own: they rest on init being there, on numbers     *)
(* being unique, on a group that bears the number of a process lying in that *)
(* process's session, and on a session leader leading its own group.         *)

InitAlive == 1 \in Slots /\ state[1] \notin Dead /\ pid[1] = 1 /\ ppid[1] = 0
CurRuns == cur # 0 => state[cur] = "RUNNING"
Numbered == \A s \in Slots : Used(s) => pid[s] # 0
LeaderSession ==
    \A s, t \in Slots : Used(s) /\ Used(t) /\ pgid[t] = pid[s] => sid[t] = sid[s]
LeaderGroup ==
    \A s \in Slots : Used(s) /\ pid[s] = sid[s] => pgid[s] = pid[s]

TableInv ==
    /\ TypeOK /\ InitAlive /\ CurRuns /\ Numbered /\ PidsUnique
    /\ ParentAlive /\ GroupInOneSession /\ LeaderSession /\ LeaderGroup
    /\ TerminalOwned

\* What most steps leave alone: who is there, and who belongs to whom.
Steady ==
    /\ UNCHANGED <<pid, ppid, pgid, sid, ctty, ttySid>>
    /\ \A s \in Slots : /\ state'[s] = "UNUSED" <=> state[s] = "UNUSED"
                        /\ state'[s] = "ZOMBIE" <=> state[s] = "ZOMBIE"

\* A step that is steady keeps the table in order.
LEMMA SteadyStep ==
    ASSUME TableInv, TypeOK', CurRuns', Steady
    PROVE  TableInv'
<1>1. InitAlive' /\ Numbered' /\ PidsUnique' /\ GroupInOneSession' /\ LeaderSession' /\ LeaderGroup'
  BY DEF TableInv, Steady, InitAlive, Numbered, PidsUnique, GroupInOneSession, LeaderSession,
         LeaderGroup, Used, Dead
<1>2. ParentAlive'
  BY DEF TableInv, Steady, ParentAlive, Used, Dead
<1>3. TerminalOwned'
  BY DEF TableInv, Steady, TerminalOwned, Dead
<1> QED BY <1>1, <1>2, <1>3 DEF TableInv

\* Sending signals is steady, and does not disturb the running process.
LEMMA PostSteady ==
    ASSUME TypeOK,
           NEW st \in [Slots -> States], NEW pend \in [Slots -> SUBSET Signals],
           NEW rep \in [Slots -> {"none", "stop", "cont"}],
           NEW par, NEW mail \in [Slots -> SUBSET Signals], NEW woken,
           Post(st, pend, rep, par, mail, woken)
    PROVE  \A s \in Slots : /\ state'[s] = "UNUSED" <=> st[s] = "UNUSED"
                            /\ state'[s] = "ZOMBIE" <=> st[s] = "ZOMBIE"
                            /\ st[s] = "RUNNING" => state'[s] = "RUNNING"
<1>1. \A s \in Slots : \/ state'[s] = st[s]
                       \/ st[s] \in {"STOPPED", "SLEEPING"} /\ state'[s] = "RUNNABLE"
  BY ZenonT(30), PostLemma
<1> QED BY <1>1

\* Zombies that are released: nothing that is left points at them.
LEMMA ReleaseStep ==
    ASSUME TableInv, TypeOK', CurRuns', NEW S, Release(S), UNCHANGED ttySid,
           \A s \in Slots : s \in S => state[s] = "ZOMBIE",
           \A s \in Slots : s \in S => state'[s] = "UNUSED",
           \A s \in Slots : s \notin S => /\ state'[s] = "UNUSED" <=> state[s] = "UNUSED"
                                          /\ state'[s] = "ZOMBIE" <=> state[s] = "ZOMBIE"
    PROVE  TableInv'
<1>1. \A s \in Slots : /\ Used(s)' => s \notin S /\ Used(s)
                       /\ state[s] \notin Dead => s \notin S /\ state'[s] \notin Dead
  BY DEF Used, Dead
<1>2. \A s \in Slots : s \notin S =>
        /\ pid'[s] = pid[s] /\ ppid'[s] = ppid[s] /\ pgid'[s] = pgid[s] /\ sid'[s] = sid[s]
        /\ ctty'[s] = ctty[s]
  BY DEF Release, Fill
<1>3. InitAlive'
  BY <1>1, <1>2 DEF TableInv, InitAlive
<1>4. Numbered' /\ PidsUnique' /\ LeaderGroup'
  BY <1>1, <1>2 DEF TableInv, Numbered, PidsUnique, LeaderGroup
<1>5. GroupInOneSession' /\ LeaderSession'
  BY <1>1, <1>2 DEF TableInv, GroupInOneSession, LeaderSession
<1>6. ParentAlive'
  <2> SUFFICES ASSUME NEW s \in Slots, Used(s)', pid'[s] # 1
               PROVE  \E q \in Slots : state'[q] \notin Dead /\ pid'[q] = ppid'[s]
    BY DEF ParentAlive
  <2>1. s \notin S /\ Used(s) /\ pid[s] # 1 /\ ppid'[s] = ppid[s]
    BY <1>1, <1>2
  <2>2. PICK q \in Slots : state[q] \notin Dead /\ pid[q] = ppid[s]
    BY SMTT(30), <2>1 DEF TableInv, ParentAlive
  <2> QED BY <1>1, <1>2, <2>1, <2>2
<1>7. TerminalOwned'
  <2>1. \A s \in Slots : ctty'[s] => s \notin S /\ ctty[s]
    BY DEF Release, Fill
  <2> QED BY <1>1, <1>2, <2>1 DEF TableInv, TerminalOwned
<1> QED BY SMTT(30), <1>3, <1>4, <1>5, <1>6, <1>7 DEF TableInv

\* do_rfork: the child's number is new to processes, groups and sessions.
LEMMA ForkStep ==
    ASSUME TableInv, TypeOK', NEW s \in Slots, NEW nowait \in BOOLEAN, Fork(s, nowait)
    PROVE  TableInv'
<1> DEFINE c == Min(Free)
           n == alloc_pid
<1>1. c \in Slots /\ state[c] = "UNUSED"
  BY FreeSlot DEF Fork
<1>2. n # 0 /\ ~PidUsed(n)
  BY ProcAssumption, AllocPidFree DEF Fork, TableInv, Pids
<1>3. state[s] = "RUNNING" /\ cur = s /\ s # 0
  BY ProcAssumption DEF Fork, InUser, TableInv, CurRuns, Slots
<1>4. /\ state' = [state EXCEPT ![c] = "RUNNABLE"]
      /\ pid' = [pid EXCEPT ![c] = n]
      /\ ppid' = [ppid EXCEPT ![c] = IF nowait THEN 1 ELSE pid[s]]
      /\ pgid' = [pgid EXCEPT ![c] = pgid[s]]
      /\ sid' = [sid EXCEPT ![c] = sid[s]]
      /\ ctty' = [ctty EXCEPT ![c] = ctty[s]]
      /\ UNCHANGED <<cur, ttySid>>
  BY DEF Fork
<1> HIDE DEF c, n
<1>5. /\ state \in [Slots -> States] /\ pid \in [Slots -> 0..PidLimit - 1]
      /\ ppid \in [Slots -> 0..PidLimit - 1] /\ pgid \in [Slots -> 0..PidLimit - 1]
      /\ sid \in [Slots -> 0..PidLimit - 1] /\ ctty \in [Slots -> BOOLEAN]
  BY DEF TableInv, TypeOK
<1>6. /\ pid'[c] = n /\ pgid'[c] = pgid[s] /\ sid'[c] = sid[s] /\ ctty'[c] = ctty[s]
      /\ ppid'[c] = 1 \/ ppid'[c] = pid[s]
      /\ state'[c] = "RUNNABLE"
  BY <1>1, <1>4, <1>5
<1>7. \A p \in Slots : p # c =>
        /\ state'[p] = state[p] /\ pid'[p] = pid[p] /\ ppid'[p] = ppid[p] /\ pgid'[p] = pgid[p]
        /\ sid'[p] = sid[p] /\ ctty'[p] = ctty[p]
  BY <1>1, <1>4, <1>5
<1>8. \A p \in Slots : Used(p) => n # pid[p] /\ n # pgid[p] /\ n # sid[p]
  BY <1>2 DEF PidUsed
<1>9. Used(s) /\ s # c
  BY <1>1, <1>3 DEF Used
<1>10. \A p \in Slots : Used(p)' => p = c \/ Used(p)
  BY <1>7 DEF Used
<1>11. InitAlive'
  BY <1>1, <1>7 DEF TableInv, InitAlive, Dead
<1>12. CurRuns'
  BY <1>3, <1>4, <1>7, <1>9 DEF CurRuns
<1>13. Numbered' /\ PidsUnique'
  BY SMTT(30), <1>2, <1>6, <1>7, <1>8, <1>10 DEF TableInv, Numbered, PidsUnique
<1>14. LeaderGroup'
  BY <1>6, <1>7, <1>8, <1>9, <1>10 DEF TableInv, LeaderGroup
<1>15. GroupInOneSession'
  BY <1>6, <1>7, <1>9, <1>10 DEF TableInv, GroupInOneSession
<1>16. LeaderSession'
  BY <1>6, <1>7, <1>8, <1>9, <1>10 DEF TableInv, LeaderSession
<1>17. ParentAlive'
  <2> SUFFICES ASSUME NEW p \in Slots, Used(p)', pid'[p] # 1
               PROVE  \E q \in Slots : state'[q] \notin Dead /\ pid'[q] = ppid'[p]
    BY DEF ParentAlive
  <2>1. CASE p = c
    <3>1. state'[s] \notin Dead /\ pid'[s] = pid[s] /\ 1 \in Slots /\ state'[1] \notin Dead /\ pid'[1] = 1
      BY <1>3, <1>7, <1>9, <1>11 DEF InitAlive, Dead
    <3> QED BY <1>6, <2>1, <3>1
  <2>2. CASE p # c
    <3>1. PICK q \in Slots : state[q] \notin Dead /\ pid[q] = ppid[p]
      BY <1>7, <1>10, <2>2 DEF TableInv, ParentAlive
    <3> QED BY <1>1, <1>7, <2>2, <3>1 DEF Dead
  <2> QED BY <2>1, <2>2
<1>18. TerminalOwned'
  <2>1. ASSUME ttySid' # 0
        PROVE  \E l \in Slots : /\ state'[l] \notin Dead /\ ctty'[l]
                                /\ pid'[l] = ttySid' /\ sid'[l] = ttySid'
    <3>1. PICK l \in Slots : state[l] \notin Dead /\ ctty[l] /\ pid[l] = ttySid /\ sid[l] = ttySid
      BY <1>4, <2>1 DEF TableInv, TerminalOwned
    <3> QED BY <1>1, <1>4, <1>7, <3>1 DEF Dead
  <2>2. \A p \in Slots : ctty'[p] => ttySid' # 0 /\ sid'[p] = ttySid'
    BY SMTT(30), <1>4, <1>6, <1>7 DEF TableInv, TerminalOwned
  <2> QED BY <2>1, <2>2 DEF TerminalOwned
<1> QED BY <1>11, <1>12, <1>13, <1>14, <1>15, <1>16, <1>17, <1>18 DEF TableInv

\* do_exit: the children go to init before the slot becomes a zombie, and a
\* session leader gives the terminal up.
LEMMA ExitStep ==
    ASSUME TableInv, TypeOK', NEW s \in Slots, pid[s] # 1, state[s] = "RUNNING", ExitProc(s)
    PROVE  TableInv'
<1> DEFINE par == ReparentedTo(s, NPROC)
           st == [state EXCEPT ![s] = "ZOMBIE"]
           mine == OrphanIn(st, par, pgid[s]) /\ HasStopped(st, pgid[s])
           hup == Kicked(s) \cup (IF HangsUp(s) THEN {ttyPgrp} ELSE {})
                            \cup (IF mine THEN {pgid[s]} ELSE {})
           parent == FindPid(ppid[s])
           mail == [p \in Slots |-> (IF pgid[p] \in hup THEN {SIGHUP, SIGCONT} ELSE {})
                                    \cup (IF p \in parent THEN {SIGCHLD} ELSE {})]
           told == [p \in Slots |-> IF pgid[p] \in Kicked(s)
                                    THEN ReparentedTo(s, Min(KickedAt(s, pgid[p])))[p]
                                    ELSE par[p]]
<1>1. \A p \in Slots : /\ state'[p] = "UNUSED" <=> st[p] = "UNUSED"
                       /\ state'[p] = "ZOMBIE" <=> st[p] = "ZOMBIE"
  <2>1. Post(st, [sigpend EXCEPT ![s] = {}], report, told, mail, ExitWakes(s))
    BY Zenon DEF ExitProc
  <2>2. mail \in [Slots -> SUBSET Signals]
    BY ZenonT(30), ProcAssumption
  <2>3. TypeOK /\ st \in [Slots -> States] /\ [sigpend EXCEPT ![s] = {}] \in [Slots -> SUBSET Signals]
    BY DEF TableInv, TypeOK, States
  <2>4. report \in [Slots -> {"none", "stop", "cont"}]
    BY <2>3 DEF TypeOK
  <2> HIDE DEF st, mail, told
  <2> QED BY Zenon, <2>1, <2>2, <2>3, <2>4, PostSteady
<1>2. /\ \A p \in Slots : Used(p)' <=> Used(p)
      /\ \A p \in Slots : p # s /\ state[p] \notin Dead => state'[p] \notin Dead
  BY <1>1 DEF Used, Dead, TableInv, TypeOK
<1>3. UNCHANGED <<pid, pgid, sid>> /\ cur' = 0
  BY ZenonT(30) DEF ExitProc
<1>4. \A c \in Slots : ppid'[c] = IF Used(c) /\ ppid[c] = pid[s] THEN 1 ELSE ppid[c]
  <2>1. \A c \in Slots : c <= NPROC
    BY ProcAssumption DEF Slots
  <2> QED BY <2>1 DEF ExitProc, ReparentedTo, Children
<1>5. InitAlive'
  BY <1>2, <1>3, <1>4 DEF TableInv, InitAlive, Numbered, Used
<1>6. Numbered' /\ PidsUnique' /\ GroupInOneSession' /\ LeaderSession' /\ LeaderGroup' /\ CurRuns'
  BY SMTT(30), <1>2, <1>3 DEF TableInv, Numbered, PidsUnique, GroupInOneSession, LeaderSession, LeaderGroup,
                    CurRuns
<1>7. ParentAlive'
  <2> SUFFICES ASSUME NEW p \in Slots, Used(p)', pid'[p] # 1
               PROVE  \E q \in Slots : state'[q] \notin Dead /\ pid'[q] = ppid'[p]
    BY DEF ParentAlive
  <2>1. CASE ppid[p] = pid[s]
    BY SMTT(30), <1>2, <1>4, <1>5, <2>1 DEF InitAlive
  <2>2. CASE ppid[p] # pid[s]
    <3>1. PICK q \in Slots : state[q] \notin Dead /\ pid[q] = ppid[p]
      BY <1>2, <1>3 DEF TableInv, ParentAlive
    <3> QED BY <1>2, <1>3, <1>4, <2>2, <3>1
  <2> QED BY <2>1, <2>2
<1>8. TerminalOwned'
  <2>1. \A p \in Slots : ctty'[p] <=> ctty[p] /\ ~(pid[s] = sid[s] /\ sid[p] = sid[s])
    BY Zenon DEF ExitProc
  <2>2. /\ HangsUp(s) => ttySid' = 0
        /\ ~HangsUp(s) => ttySid' = ttySid
    BY ZenonT(30) DEF ExitProc
  <2>3. /\ \A p \in Slots : ctty[p] => ttySid # 0 /\ sid[p] = ttySid
        /\ ttySid # 0 => \E l \in Slots : /\ state[l] \notin Dead /\ ctty[l]
                                          /\ pid[l] = ttySid /\ sid[l] = ttySid
    BY SMTT(30) DEF TableInv, TerminalOwned
  <2>4. CASE HangsUp(s)
    BY <1>3, <2>1, <2>2, <2>3, <2>4 DEF TerminalOwned, HangsUp
  <2>5. CASE ~HangsUp(s)
    <3>1. \A p \in Slots : ctty'[p] => ttySid' # 0 /\ sid'[p] = ttySid'
      BY <1>3, <2>1, <2>2, <2>3, <2>5
    <3>2. ASSUME ttySid # 0
          PROVE  \E l \in Slots : /\ state'[l] \notin Dead /\ ctty'[l]
                                  /\ pid'[l] = ttySid /\ sid'[l] = ttySid
      <4>1. PICK l \in Slots : state[l] \notin Dead /\ ctty[l] /\ pid[l] = ttySid /\ sid[l] = ttySid
        BY <2>3, <3>2
      <4>2. ~(pid[s] = sid[s] /\ ttySid = sid[s])
        BY <2>5, <4>1 DEF HangsUp
      <4> QED BY <1>2, <1>3, <2>1, <4>1, <4>2
    <3> QED BY <1>3, <2>2, <2>5, <3>1, <3>2 DEF TerminalOwned
  <2> QED BY <2>4, <2>5
<1> QED BY SMTT(30), <1>5, <1>6, <1>7, <1>8 DEF TableInv

\* sys_setpgid: the group it joins is its own or one of its session.
LEMMA SetpgidStep ==
    ASSUME TableInv, TypeOK', CurRuns', NEW s \in Slots, NEW p \in Slots, NEW g \in Pids,
           setpgid(s, p, g)
    PROVE  TableInv'
<1>1. /\ UNCHANGED <<state, pid, ppid, sid, ctty, ttySid>>
      /\ sid[p] = sid[s] /\ pid[p] # sid[p] /\ Used(p)
      /\ g = pid[p] \/ \E q \in Slots : Used(q) /\ pgid[q] = g /\ sid[q] = sid[s]
  BY SMTT(30) DEF setpgid, tty
<1>2. pgid'[p] = g /\ \A t \in Slots : t # p => pgid'[t] = pgid[t]
  BY DEF setpgid, TableInv, TypeOK
<1>3. InitAlive' /\ Numbered' /\ PidsUnique' /\ ParentAlive' /\ TerminalOwned'
  BY <1>1 DEF TableInv, InitAlive, Numbered, PidsUnique, ParentAlive, TerminalOwned, Used
<1>4. LeaderGroup'
  BY SMTT(30), <1>1, <1>2 DEF TableInv, LeaderGroup, Used
<1>5. \A t \in Slots : Used(t) /\ pgid[t] = g => sid[t] = sid[p]
  BY <1>1 DEF TableInv, GroupInOneSession, LeaderSession
<1>6. GroupInOneSession'
  BY SMTT(30), <1>1, <1>2, <1>5 DEF TableInv, GroupInOneSession, Used
<1>7. \A u \in Slots : Used(u) /\ g = pid[u] => sid[u] = sid[p]
  BY <1>1 DEF TableInv, PidsUnique, LeaderSession
<1>8. LeaderSession'
  BY <1>1, <1>2, <1>7 DEF TableInv, LeaderSession, Used
<1> QED BY SMTT(30), <1>3, <1>4, <1>6, <1>8 DEF TableInv

\* sys_setsid: no group has the caller's number, so the new group is its own.
LEMMA SetsidStep ==
    ASSUME TableInv, TypeOK', CurRuns', NEW s \in Slots, state[s] = "RUNNING", setsid(s)
    PROVE  TableInv'
<1>1. /\ UNCHANGED <<state, pid, ppid, ttySid>>
      /\ \A q \in Slots : Used(q) => pgid[q] # pid[s]
  BY Zenon DEF setsid
<1>2. /\ pgid'[s] = pid[s] /\ sid'[s] = pid[s] /\ ~ctty'[s]
      /\ \A t \in Slots : t # s => pgid'[t] = pgid[t] /\ sid'[t] = sid[t] /\ ctty'[t] = ctty[t]
  BY Zenon DEF setsid, TableInv, TypeOK
<1>3. Used(s) /\ pid[s] # sid[s]
  BY Zenon, <1>1 DEF TableInv, LeaderGroup, Used
<1>4. InitAlive' /\ Numbered' /\ PidsUnique' /\ ParentAlive'
  BY <1>1 DEF TableInv, InitAlive, Numbered, PidsUnique, ParentAlive, Used
<1>5. LeaderGroup' /\ GroupInOneSession'
  BY SMTT(30), <1>1, <1>2, <1>3 DEF TableInv, LeaderGroup, GroupInOneSession, Used
<1>6. LeaderSession'
  BY SMTT(30), <1>1, <1>2, <1>3 DEF TableInv, LeaderSession, PidsUnique, Used
<1>7. TerminalOwned'
  BY SMTT(30), <1>1, <1>2, <1>3 DEF TableInv, TerminalOwned
<1> QED BY <1>4, <1>5, <1>6, <1>7 DEF TableInv

\* Sending a signal from the state as it is.
LEMMA SendSteady ==
    ASSUME TableInv, NEW T, NEW g \in Signals, SendTo(T, g), UNCHANGED <<ids, tty, cur>>
    PROVE  Steady /\ CurRuns'
<1>1. To(T, {g}) \in [Slots -> SUBSET Signals]
  BY DEF To
<1>2. /\ TypeOK /\ state \in [Slots -> States] /\ sigpend \in [Slots -> SUBSET Signals]
      /\ report \in [Slots -> {"none", "stop", "cont"}] /\ cur \in 0..NPROC
  BY SMTT(30) DEF TableInv, TypeOK
<1>3. \A s \in Slots : /\ state'[s] = "UNUSED" <=> state[s] = "UNUSED"
                       /\ state'[s] = "ZOMBIE" <=> state[s] = "ZOMBIE"
                       /\ state[s] = "RUNNING" => state'[s] = "RUNNING"
  BY Zenon, <1>1, <1>2, PostSteady DEF SendTo
<1>4. cur # 0 => cur \in Slots
  BY <1>2, ProcAssumption DEF Slots
<1>5. CurRuns'
  BY <1>3, <1>4 DEF CurRuns, TableInv
<1> QED BY <1>3, <1>5 DEF Steady, ids, tty

\* Every step keeps the table in order.
LEMMA TableStep ==
    TableInv /\ [Next]_vars => TableInv'
<1> SUFFICES ASSUME TableInv, [Next]_vars PROVE TableInv'
  OBVIOUS
<1>1. TypeOK /\ TypeOK'
  BY SMTT(30), TypeStep DEF TableInv
<1>2. /\ state \in [Slots -> States] /\ cur \in 0..NPROC
      /\ KillSigs \subseteq Signals /\ TtySigs \subseteq Signals /\ SIGCHLD \in Signals
  BY <1>1, ProcAssumption DEF TypeOK
<1>3. \A s \in Slots : cur = s => s # 0 /\ state[s] = "RUNNING"
  BY ProcAssumption DEF TableInv, CurRuns, Slots
<1> USE DEF ids, acts, ctl, tty
\* The steps that leave state and cur alone, and only those two matter to CurRuns.
<1>4. ASSUME UNCHANGED <<state, ids, ctty, ttySid>>, cur' = cur PROVE TableInv'
  <2>1. CurRuns' /\ Steady
    BY <1>4 DEF Steady, CurRuns, TableInv
  <2> QED BY <1>1, <2>1, SteadyStep
\* The steps by which the running process gives the CPU up.
<1>5. ASSUME NEW s \in Slots, state[s] = "RUNNING", cur' = 0, UNCHANGED <<ids, ctty, ttySid>>,
             state' = [state EXCEPT ![s] = "RUNNABLE"] \/ state' = [state EXCEPT ![s] = "SLEEPING"]
      PROVE  TableInv'
  <2>1. CurRuns' /\ Steady
    BY <1>2, <1>5 DEF Steady, CurRuns
  <2> QED BY <1>1, <2>1, SteadyStep
<1>6. ASSUME NEW s \in Slots, Schedule(s) PROVE TableInv'
  <2>1. /\ Release(Reapable) /\ UNCHANGED ttySid /\ cur' = s /\ state[s] = "RUNNABLE"
        /\ state' = [p \in Slots |-> IF p = s THEN "RUNNING"
                                     ELSE IF p \in Reapable THEN "UNUSED" ELSE state[p]]
    BY Zenon, <1>6 DEF Schedule, Fill
  <2>2. CurRuns'
    BY <2>1 DEF CurRuns
  <2>3. \A p \in Slots : p \in Reapable => state[p] = "ZOMBIE" /\ p # s
    BY <2>1 DEF Reapable
  <2> QED BY <1>1, <2>1, <2>2, <2>3, ReleaseStep
<1>7. ASSUME NEW s \in Slots, Tick(s) PROVE TableInv'
  BY Zenon, <1>3, <1>5, <1>7 DEF Tick
<1>8. ASSUME NEW s \in Slots, NEW nowait \in BOOLEAN, Fork(s, nowait) PROVE TableInv'
  BY <1>1, <1>8, ForkStep
<1>9. ASSUME NEW s \in Slots, Exec(s) PROVE TableInv'
  BY <1>4, <1>9 DEF Exec
<1>10. ASSUME NEW s \in Slots, Exit(s) PROVE TableInv'
  BY <1>1, <1>3, <1>10, ExitStep DEF Exit, InUser
<1>11. ASSUME NEW s \in Slots, NEW n \in WaitPids, NEW opts \in WaitOpts, Waitpid(s, n, opts)
       PROVE  TableInv'
  BY <1>4, <1>11 DEF Waitpid
<1>12. ASSUME NEW s \in Slots, Pause(s) PROVE TableInv'
  BY <1>4, <1>12 DEF Pause
<1>12r. ASSUME NEW s \in Slots, Rpc(s) PROVE TableInv'
  BY <1>4, <1>12r DEF Rpc
<1>12s. ASSUME NEW s \in Slots, NEW t \in Slots, Serve(s, t) PROVE TableInv'
  <2>1. /\ state[t] = "SLEEPING" /\ state' = [state EXCEPT ![t] = "RUNNABLE"] /\ cur' = cur
        /\ UNCHANGED <<ids, ctty, ttySid>> /\ cur = s
    BY Zenon, <1>12s DEF Serve, InUser
  <2>2. CurRuns' /\ Steady
    BY <1>2, <1>3, <2>1 DEF Steady, CurRuns
  <2> QED BY <1>1, <2>2, SteadyStep
<1>13. ASSUME NEW s \in Slots, NEW T \in KillTargets(s), NEW g \in KillSigs, Kill(s, T, g)
       PROVE  TableInv'
  BY <1>1, <1>2, <1>13, SendSteady, SteadyStep DEF Kill
<1>14. ASSUME NEW s \in Slots, NEW g \in ActSigs, NEW h \in Actions, sigaction(s, g, h)
       PROVE  TableInv'
  BY <1>4, <1>14 DEF sigaction
<1>15. ASSUME NEW s \in Slots, NEW set \in SUBSET MaskSigs, sigprocmask(s, set) PROVE TableInv'
  BY SMTT(30), <1>4, <1>15 DEF sigprocmask
<1>16. ASSUME NEW s \in Slots, sigreturn(s) PROVE TableInv'
  BY <1>4, <1>16 DEF sigreturn
<1>17. ASSUME NEW s \in Slots, NEW p \in Slots, NEW g \in Pids, setpgid(s, p, g) PROVE TableInv'
  <2>1. CurRuns'
    BY Zenon, <1>17 DEF setpgid, CurRuns, TableInv
  <2> QED BY <1>1, <1>17, <2>1, SetpgidStep
<1>18. ASSUME NEW s \in Slots, setsid(s) PROVE TableInv'
  <2>1. CurRuns' /\ state[s] = "RUNNING"
    BY <1>3, <1>18 DEF setsid, InUser, CurRuns, TableInv
  <2> QED BY <1>1, <1>18, <2>1, SetsidStep
<1>19. ASSUME NEW s \in Slots, NEW steal \in BOOLEAN, TiocsCtty(s, steal) PROVE TableInv'
  <2>1. /\ UNCHANGED <<state, ids, cur>> /\ ttySid' = sid[s] /\ pid[s] = sid[s]
        /\ \A p \in Slots : ctty'[p] <=> p = s \/ (ctty[p] /\ ttySid \in {0, sid[s]})
    BY ZenonT(30), <1>19 DEF TiocsCtty
  <2>2. state[s] = "RUNNING" /\ Used(s) /\ pid[s] # 0
    BY <1>3, <1>19 DEF TiocsCtty, InUser, Used, TableInv, Numbered
  <2>3. /\ CurRuns' /\ InitAlive' /\ Numbered' /\ PidsUnique' /\ ParentAlive'
        /\ GroupInOneSession' /\ LeaderSession' /\ LeaderGroup'
    BY SMTT(30), <2>1 DEF TableInv, CurRuns, InitAlive, Numbered, PidsUnique, ParentAlive, GroupInOneSession,
                LeaderSession, LeaderGroup, Used
  <2>4. TerminalOwned'
    BY Zenon, <2>1, <2>2 DEF TableInv, TerminalOwned, Dead
  <2> QED BY <1>1, <2>3, <2>4 DEF TableInv
<1>20. ASSUME NEW s \in Slots, NEW g \in Pids, TiocsPgrp(s, g) PROVE TableInv'
  BY <1>4, <1>20 DEF TiocsPgrp
<1>21. ASSUME NEW s \in Slots, NEW g \in {SIGTTIN, SIGTTOU} \cap Signals, TtyAccess(s, g)
       PROVE  TableInv'
  <2>1. UNCHANGED <<ids, tty, cur>> /\ (SendTo(Group(pgid[s]), g) \/ UNCHANGED state)
    BY <1>21 DEF TtyAccess
  <2>2. CASE SendTo(Group(pgid[s]), g)
    BY <1>1, <2>1, <2>2, SendSteady, SteadyStep
  <2>3. CASE UNCHANGED state
    BY <1>4, <2>1, <2>3
  <2> QED BY SMTT(30), <2>1, <2>2, <2>3
<1>22. ASSUME NEW s \in Slots, WaitReap(s) PROVE TableInv'
  <2> DEFINE c == Min(Reportable(s, call[s]))
  <2>1. CASE state[c] = "ZOMBIE"
    <3>1. c \in Slots
      <4>1. Reportable(s, call[s]) \subseteq Nat /\ Reportable(s, call[s]) \subseteq Slots
        BY SMTT(30), ProcAssumption DEF Reportable, Matching, Slots
      <4> QED BY SMTT(30), <1>22, <4>1, MinInSet DEF WaitReap
    <3>2. /\ Release({c}) /\ UNCHANGED <<ttySid, cur>>
          /\ state' = [state EXCEPT ![c] = "UNUSED"]
      BY <1>22, <2>1 DEF WaitReap
    <3>3. cur # c
      BY <1>3, <2>1, <3>1
    <3> HIDE DEF c
    <3>4. CurRuns'
      <4>1. cur # 0 => cur \in Slots
        BY SMTT(30), <1>2, ProcAssumption DEF Slots
      <4> QED BY <1>2, <3>2, <3>3, <4>1 DEF CurRuns, TableInv
    <3> QED BY <1>1, <1>2, <2>1, <3>1, <3>2, <3>4, ReleaseStep
  <2>2. CASE state[c] # "ZOMBIE"
    BY SMTT(30), <1>4, <1>22, <2>2 DEF WaitReap
  <2> QED BY <2>1, <2>2
<1>23. ASSUME NEW s \in Slots, WaitNone(s) PROVE TableInv'
  BY <1>3, <1>4, <1>5, <1>23 DEF WaitNone
<1>24. ASSUME NEW s \in Slots, PauseLoop(s) PROVE TableInv'
  BY SMTT(30), <1>3, <1>4, <1>5, <1>24 DEF PauseLoop
<1>24r. ASSUME NEW s \in Slots, RpcLoop(s) PROVE TableInv'
  <2>1. /\ UNCHANGED <<ids, ctty, ttySid>> /\ cur = s
        /\ \/ UNCHANGED <<state, cur>>
           \/ state' = [state EXCEPT ![s] = "SLEEPING"] /\ cur' = 0
    BY ZenonT(30), <1>24r DEF RpcLoop, RpcGoesOn
  <2> QED BY <1>3, <1>4, <1>5, <2>1
<1>25. ASSUME NEW s \in Slots, DeliverNothing(s) PROVE TableInv'
  BY <1>4, <1>25 DEF DeliverNothing
<1>26. ASSUME NEW s \in Slots, DeliverStop(s) PROVE TableInv'
  <2>1. Took(s) \in [Slots -> SUBSET Signals] /\ state[s] = "RUNNING"
    BY SMTT(30), <1>1, <1>3, <1>26, TakenReady DEF DeliverStop, InDeliver
  <2>2. /\ To(FindPid(ppid[s]), {SIGCHLD}) \in [Slots -> SUBSET Signals]
        /\ [state EXCEPT ![s] = "STOPPED"] \in [Slots -> States]
        /\ [report EXCEPT ![s] = "stop"] \in [Slots -> {"none", "stop", "cont"}]
    BY Zenon, <1>1, <1>2 DEF To, TypeOK, States
  <2> DEFINE st == [state EXCEPT ![s] = "STOPPED"]
  <2>3. \A p \in Slots : /\ state'[p] = "UNUSED" <=> st[p] = "UNUSED"
                         /\ state'[p] = "ZOMBIE" <=> st[p] = "ZOMBIE"
    <3>1. Post(st, Took(s), [report EXCEPT ![s] = "stop"], ppid,
               To(FindPid(ppid[s]), {SIGCHLD}), FindPid(ppid[s]))
      BY ZenonT(30), <1>26 DEF DeliverStop
    <3> HIDE DEF st
    <3> QED BY Zenon, <1>1, <2>1, <2>2, <3>1, PostSteady DEF st
  <2>4. cur' = 0 /\ UNCHANGED <<ids, ctty, ttySid>>
    BY Zenon, <1>26 DEF DeliverStop
  <2>5. Steady /\ CurRuns'
    BY <1>2, <2>1, <2>3, <2>4 DEF Steady, CurRuns
  <2> QED BY <1>1, <2>5, SteadyStep
<1>27. ASSUME NEW s \in Slots, DeliverExit(s) PROVE TableInv'
  BY <1>1, <1>3, <1>27, ExitStep DEF DeliverExit, InDeliver
<1>28. ASSUME NEW s \in Slots, DeliverCaught(s) PROVE TableInv'
  BY <1>4, <1>28 DEF DeliverCaught
<1>29. ASSUME NEW s \in Slots, DeliverDone(s) PROVE TableInv'
  BY <1>4, <1>29 DEF DeliverDone
<1>30. ASSUME NEW s \in Slots, Redo(s) PROVE TableInv'
  BY <1>4, <1>30 DEF Redo
<1>31. CASE Idle
  <2>1. /\ Release(Reapable) /\ UNCHANGED <<ttySid, cur>> /\ cur = 0
        /\ state' = [p \in Slots |-> IF p \in Reapable THEN "UNUSED" ELSE state[p]]
    BY <1>31 DEF Idle, Fill
  <2>2. CurRuns' /\ \A p \in Slots : p \in Reapable => state[p] = "ZOMBIE"
    BY <2>1 DEF CurRuns, Reapable
  <2> QED BY <1>1, <2>1, <2>2, ReleaseStep
<1>32. ASSUME NEW g \in TtySigs, TtyInput(g) PROVE TableInv'
  BY <1>1, <1>2, <1>32, SendSteady, SteadyStep DEF TtyInput
<1>33. CASE UNCHANGED vars
  BY <1>4, <1>33 DEF vars
<1> QED
  BY <1>6, <1>7, <1>8, <1>9, <1>10, <1>11, <1>12, <1>12r, <1>12s, <1>24r, <1>13, <1>14, <1>15, <1>16, <1>17, <1>18, <1>19,
     <1>20, <1>21, <1>22, <1>23, <1>24, <1>25, <1>26, <1>27, <1>28, <1>29, <1>30, <1>31, <1>32,
     <1>33 DEF Next, Syscall, Kernel

\* From start to finish the process table of proc.c keeps numbers unique, every
\* process under a parent that has not exited, every group in one session and
\* the terminal with a living session leader, for tables and number ranges of
\* any size.
THEOREM TableInOrder == Spec => []TableInv
<1>1. Init => TableInv
  <2> SUFFICES ASSUME Init PROVE TableInv
    OBVIOUS
  <2>1. TypeOK
    BY InitType
  <2>2. 1 \in Slots
    BY ProcAssumption DEF Slots
  <2>3. \A s \in Slots : /\ Used(s) => s = 1
                         /\ pid[s] = IF s = 1 THEN 1 ELSE 0
                         /\ pgid[s] = pid[s] /\ sid[s] = pid[s] /\ ~ctty[s] /\ ppid[s] = 0
    BY DEF Init, Used
  <2>4. state[1] = "RUNNABLE" /\ cur = 0 /\ ttySid = 0
    BY <2>2 DEF Init
  <2> QED BY <2>1, <2>2, <2>3, <2>4
          DEF TableInv, InitAlive, CurRuns, Numbered, PidsUnique, ParentAlive, GroupInOneSession,
              LeaderSession, LeaderGroup, TerminalOwned, Dead
<1> QED BY <1>1, TableStep, PTL DEF Spec

\* No two processes of the table ever share a number, although numbers wrap and
\* are used again (alloc_pid, do_rfork), and the parent number of a process
\* always names a process that has not exited (do_exit reparents before it
\* turns into a zombie).
THEOREM KinStaysKnown == Spec => []KinKnown
<1>1. TableInv => KinKnown
  BY DEF TableInv, KinKnown
<1> QED BY <1>1, TableInOrder, PTL

\* orphan_pgrp of signal.c, which asks for a live parent, and orphan of tty.c,
\* which also takes a zombie, give the same answer on every group.
THEOREM OrphanTestsEqual == Spec => []OrphanTestsAgree
<1>1. TableInv => OrphanTestsAgree
  <2> SUFFICES ASSUME TableInv, NEW g \in Pids, Group(g) # {}
               PROVE  orphan_pgrp(g) <=> tty_orphan(g)
    BY DEF OrphanTestsAgree
  <2>1. \A p \in Group(g), q \in Slots : Used(q) /\ pid[q] = ppid[p] => state[q] \notin Dead
    <3> SUFFICES ASSUME NEW p \in Group(g), NEW q \in Slots, Used(q), pid[q] = ppid[p]
                 PROVE  state[q] \notin Dead
      OBVIOUS
    <3>1. p \in Slots /\ Used(p)
      BY DEF Group, Used, Dead
    <3>2. pid[p] # 1
      BY <3>1 DEF TableInv, InitAlive, Numbered, PidsUnique, Used, Dead
    <3> QED BY <3>1, <3>2 DEF TableInv, ParentAlive, PidsUnique, Used, Dead
  <2>2. \A q \in Slots : state[q] \notin Dead => Used(q)
    BY DEF Used, Dead
  <2>3. tty_orphan(g) <=> \A p \in Group(g), q \in Slots :
                            Used(q) /\ pid[q] = ppid[p] => ~(pgid[q] # g /\ sid[q] = sid[p])
    BY DEF tty_orphan, FindPid
  <2>4. orphan_pgrp(g) <=> \A p \in Group(g), q \in Slots :
                             ~(state[q] \notin Dead /\ pid[q] = ppid[p] /\ pgid[q] # g /\ sid[q] = sid[p])
    BY DEF orphan_pgrp, OrphanIn, Group
  <2> QED BY <2>1, <2>2, <2>3, <2>4
<1> QED BY <1>1, TableInOrder, PTL

\* setpgid, setsid, fork, exit and the reuse of numbers never leave a process
\* group spread over two sessions; a terminal in use has a living session leader
\* for its owner, and nobody outside that session has it (tty_ioctl,
\* tty_hangup_session, do_exit); and the two tests for an orphaned group agree.
THEOREM SessionsStayWhole == Spec => []SessionsAgree
<1>1. TableInv => GroupInOneSession /\ TerminalOwned
  BY DEF TableInv
<1>2. GroupInOneSession /\ OrphanTestsAgree /\ TerminalOwned => SessionsAgree
  BY DEF SessionsAgree
<1> QED BY <1>1, <1>2, TableInOrder, OrphanTestsEqual, PTL

-----------------------------------------------------------------------------
(* KILL.  The invariant is inductive with the types and with the fact that  *)
(* the process at the CPU runs: then a process that sleeps stays where it is. *)

Undeferred(st, p) == st[p] \in {"RUNNABLE", "RUNNING"} \/ (st[p] = "SLEEPING" /\ nointr(p))

\* Only the process that runs moves within its call.
LEMMA SleepersStay ==
    ASSUME TypeOK, CurRuns, Next
    PROVE  \A p \in Slots : state[p] = "SLEEPING" => pc'[p] = pc[p]
<1> SUFFICES ASSUME NEW p \in Slots, state[p] = "SLEEPING" PROVE pc'[p] = pc[p]
  OBVIOUS
<1> USE DEF ids, acts, ctl, tty
<1>0. p # cur /\ cur \in 0..NPROC /\ Slots \subseteq Nat \ {0}
  BY ProcAssumption DEF CurRuns, TypeOK, Slots
<1>1. pc \in [Slots -> {"user", "deliver", "wait", "pause"} \cup RpcWaits]
  BY DEF TypeOK
<1>2. ASSUME NEW s \in Slots, cur = s, UNCHANGED pc \/ \E q : pc' = [pc EXCEPT ![s] = q]
      PROVE  pc'[p] = pc[p]
  BY <1>0, <1>1, <1>2
<1>3. ASSUME NEW s \in Slots, Return(s) \/ ReturnEINTR(s), cur = s PROVE pc'[p] = pc[p]
  BY <1>2, <1>3 DEF Return, ReturnEINTR
<1>4. ASSUME NEW s \in Slots, Schedule(s) PROVE pc'[p] = pc[p]
  BY <1>4 DEF Schedule
<1>5. ASSUME NEW s \in Slots, Tick(s) PROVE pc'[p] = pc[p]
  BY <1>2, <1>5 DEF Tick
<1>6. ASSUME NEW s \in Slots, NEW nowait \in BOOLEAN, Fork(s, nowait) PROVE pc'[p] = pc[p]
  <2>1. state[Min(Free)] = "UNUSED"
    BY <1>6, FreeSlot DEF Fork
  <2>2. p # Min(Free) /\ p # s
    BY <1>0, <1>6, <2>1 DEF Fork, InUser
  <2> QED BY Zenon, <1>1, <1>6, <2>2 DEF Fork
<1>7. ASSUME NEW s \in Slots, ExitProc(s), cur = s PROVE pc'[p] = pc[p]
  <2>1. pc' = [pc EXCEPT ![s] = "user"]
    BY Zenon, <1>7 DEF ExitProc
  <2> QED BY <1>2, <1>7, <2>1
<1>8. ASSUME NEW s \in Slots, Syscall(s) PROVE pc'[p] = pc[p]
  <2>1. CASE Exec(s) \/ (\E T \in KillTargets(s), g \in KillSigs : Kill(s, T, g))
             \/ (\E g \in ActSigs, h \in Actions : sigaction(s, g, h))
             \/ (\E set \in SUBSET MaskSigs : sigprocmask(s, set))
             \/ (\E q \in Slots, g \in Pids : setpgid(s, q, g)) \/ setsid(s)
             \/ (\E steal \in BOOLEAN : TiocsCtty(s, steal)) \/ (\E g \in Pids : TiocsPgrp(s, g))
             \/ (\E t \in Slots : Serve(s, t))
    BY ZenonT(30), <1>3, <2>1 DEF Exec, Kill, sigaction, sigprocmask, setpgid, setsid, TiocsCtty, TiocsPgrp,
       Serve, InUser
  <2>2. CASE (\E n \in WaitPids, opts \in WaitOpts : Waitpid(s, n, opts)) \/ Pause(s) \/ Rpc(s)
             \/ sigreturn(s) \/ (\E g \in {SIGTTIN, SIGTTOU} \cap Signals : TtyAccess(s, g))
    BY ZenonT(30), <1>2, <2>2 DEF Waitpid, Pause, Rpc, sigreturn, TtyAccess, InUser
  <2>3. CASE Exit(s)
    BY <1>7, <2>3 DEF Exit, InUser
  <2> QED BY ZenonT(30), <1>6, <1>8, <2>1, <2>2, <2>3 DEF Syscall
<1>9. ASSUME NEW s \in Slots, Kernel(s) PROVE pc'[p] = pc[p]
  <2>1. CASE WaitReap(s) \/ WaitNone(s) \/ PauseLoop(s)
    BY ZenonT(30), <1>2, <1>3, <2>1 DEF WaitReap, WaitNone, PauseLoop
  <2>2. CASE RpcLoop(s)
    BY ZenonT(30), <1>2, <1>3, <2>2 DEF RpcLoop, RpcGoesOn
  <2>3. CASE DeliverNothing(s) \/ DeliverStop(s) \/ DeliverCaught(s) \/ DeliverDone(s)
    BY ZenonT(30), <1>2, <2>3 DEF DeliverNothing, DeliverStop, DeliverCaught, DeliverDone, InDeliver
  <2>4. CASE DeliverExit(s)
    BY <1>7, <2>4 DEF DeliverExit, InDeliver
  <2> QED BY <1>9, <2>1, <2>2, <2>3, <2>4 DEF Kernel
<1>10. ASSUME NEW s \in Slots, Redo(s) PROVE pc'[p] = pc[p]
  BY ZenonT(30), <1>2, <1>10 DEF Redo
<1>11. CASE Idle
  BY <1>11 DEF Idle
<1>12. ASSUME NEW g \in TtySigs, TtyInput(g) PROVE pc'[p] = pc[p]
  <2>1. UNCHANGED pc \/ pc' = [pc EXCEPT ![cur] = "deliver"]
    BY <1>12 DEF TtyInput
  <2> QED BY <1>0, <1>1, <2>1
<1> QED BY <1>4, <1>5, <1>8, <1>9, <1>10, <1>11, <1>12 DEF Next

\* send_signal makes whoever receives KILL runnable.
LEMMA PostKill ==
    ASSUME TypeOK,
           NEW st \in [Slots -> States], NEW pend, NEW rep, NEW par, NEW mail, NEW woken,
           \A s \in Slots : SIGKILL \in pend[s] => Undeferred(st, s),
           \A s \in Slots : st[s] = "SLEEPING" => pc'[s] = pc[s],
           Post(st, pend, rep, par, mail, woken)
    PROVE  KillNotDeferred'
<1> SUFFICES ASSUME NEW s \in Slots, SIGKILL \in sigpend'[s]
             PROVE  state'[s] \in {"RUNNABLE", "RUNNING"} \/ (state'[s] = "SLEEPING" /\ nointr(s)')
  BY DEF KillNotDeferred
<1>1. PICK got : /\ sigpend'[s] = IF st[s] \in Dead THEN pend[s] ELSE Received(pend[s], s, got)
                 /\ st[s] = "STOPPED" /\ Resumes(s, got) => state'[s] = "RUNNABLE"
                 /\ st[s] = "SLEEPING" /\ Rouses(s, got) => state'[s] = "RUNNABLE"
                 /\ state'[s] # "RUNNABLE" => state'[s] = st[s]
  BY Zenon DEF Post
<1>2. CASE SIGKILL \in pend[s]
  BY ZenonT(30), <1>1, <1>2 DEF Undeferred, nointr
<1>3. CASE SIGKILL \notin pend[s]
  <2>1. st[s] \notin Dead /\ SIGKILL \in got /\ Accepts(s, SIGKILL)
    BY <1>1, <1>3 DEF Received
  <2>2. Resumes(s, got) /\ Rouses(s, got)
    BY ZenonT(30), <2>1 DEF Resumes, Rouses, Accepts, UNBLOCKABLE
  <2>3. st[s] \in {"STOPPED", "SLEEPING", "RUNNABLE", "RUNNING"}
    BY <2>1 DEF States, Dead
  <2> QED BY SMTT(30), <1>1, <2>2, <2>3
<1> QED BY <1>2, <1>3

\* A process that sleeps where it can be interrupted has no KILL pending:
\* signal_pending was false.
LEMMA PendingKill ==
    ASSUME TypeOK, NEW s \in Slots, SIGKILL \in sigpend[s]
    PROVE  (nointr(s) \/ signal_pending(s)) /\ Taken(s) <= SIGKILL
<1>1. SIGKILL \in Ready(s)
  BY DEF Ready, UNBLOCKABLE
<1>2. Ready(s) \subseteq Signals
  BY DEF Ready, TypeOK
<1>3. Ready(s) \subseteq Nat
  BY SMTT(30), <1>2, SignalsNat
<1> QED BY <1>1, <1>3, MinInSet DEF signal_pending, Taken

\* Every step keeps the holders of a pending KILL runnable.
LEMMA KillStep ==
    TypeOK /\ CurRuns /\ KillNotDeferred /\ [Next]_vars => KillNotDeferred'
<1> SUFFICES ASSUME TypeOK, CurRuns, KillNotDeferred, [Next]_vars PROVE KillNotDeferred'
  OBVIOUS
<1> USE DEF ids, acts, ctl, tty
<1>1. state \in [Slots -> States] /\ sigpend \in [Slots -> SUBSET Signals]
  BY DEF TypeOK
<1>0. \A p \in Slots : state[p] = "SLEEPING" => pc'[p] = pc[p]
  BY SleepersStay DEF vars
<1>k. \A p \in Slots : SIGKILL \in sigpend[p] => Undeferred(state, p)
  BY DEF KillNotDeferred, Undeferred
\* It is enough to look at who is not runnable afterwards.
<1>d. ASSUME \A p \in Slots : SIGKILL \in sigpend'[p] =>
               \/ state'[p] \in {"RUNNABLE", "RUNNING"}
               \/ state'[p] = "SLEEPING" /\ state[p] = "SLEEPING" /\ SIGKILL \in sigpend[p]
      PROVE  KillNotDeferred'
  BY ZenonT(30), <1>0, <1>k, <1>d DEF KillNotDeferred, Undeferred, nointr
\* Steps that take signals away at most, and leave the states alone.
<1>2. ASSUME UNCHANGED state, \A s \in Slots : sigpend'[s] \subseteq sigpend[s]
      PROVE  KillNotDeferred'
  BY ZenonT(30), <1>2, <1>d, <1>k DEF Undeferred
<1>3. ASSUME NEW T, NEW g, SendTo(T, g) PROVE KillNotDeferred'
  BY ZenonT(30), <1>0, <1>1, <1>3, <1>k, PostKill DEF SendTo
<1>4. ASSUME NEW s \in Slots, ExitProc(s) PROVE KillNotDeferred'
  <2> DEFINE st == [state EXCEPT ![s] = "ZOMBIE"]
             pend == [sigpend EXCEPT ![s] = {}]
  <2>1. \E par, mail : Post(st, pend, report, par, mail, ExitWakes(s))
    BY Zenon, <1>4 DEF ExitProc
  <2>2. \A p \in Slots : /\ SIGKILL \in pend[p] => Undeferred(st, p)
                         /\ st[p] = "SLEEPING" => pc'[p] = pc[p]
    BY <1>0, <1>1, <1>k DEF Undeferred
  <2>3. st \in [Slots -> States]
    BY <1>1 DEF States
  <2> HIDE DEF st, pend
  <2> QED BY <2>1, <2>2, <2>3, PostKill
<1>5. ASSUME NEW s \in Slots, Schedule(s) PROVE KillNotDeferred'
  BY ZenonT(30), <1>1, <1>5, <1>d, <1>k DEF Schedule, Release, Fill, Reapable, Undeferred
<1>6. ASSUME NEW s \in Slots, Tick(s) PROVE KillNotDeferred'
  BY <1>1, <1>6, <1>d, <1>k DEF Tick, Undeferred
<1>7. ASSUME NEW s \in Slots, NEW nowait \in BOOLEAN, Fork(s, nowait) PROVE KillNotDeferred'
  <2>1. UNCHANGED sigpend /\ state' = [state EXCEPT ![Min(Free)] = "RUNNABLE"]
    BY Zenon, <1>7 DEF Fork
  <2> QED BY <1>1, <1>d, <1>k, <2>1 DEF Undeferred
<1>8. ASSUME NEW s \in Slots, Exec(s) PROVE KillNotDeferred'
  BY <1>2, <1>8 DEF Exec
<1>9. ASSUME NEW s \in Slots, Exit(s) PROVE KillNotDeferred'
  BY <1>4, <1>9 DEF Exit
<1>10. ASSUME NEW s \in Slots, NEW n \in WaitPids, NEW opts \in WaitOpts, Waitpid(s, n, opts)
       PROVE  KillNotDeferred'
  BY Zenon, <1>2, <1>10 DEF Waitpid
<1>11. ASSUME NEW s \in Slots, Pause(s) PROVE KillNotDeferred'
  BY Zenon, <1>2, <1>11 DEF Pause
<1>11r. ASSUME NEW s \in Slots, Rpc(s) PROVE KillNotDeferred'
  BY Zenon, <1>2, <1>11r DEF Rpc
<1>11s. ASSUME NEW s \in Slots, NEW t \in Slots, Serve(s, t) PROVE KillNotDeferred'
  BY <1>1, <1>11s, <1>d, <1>k DEF Serve, Undeferred
<1>12. ASSUME NEW s \in Slots, NEW T \in KillTargets(s), NEW g \in KillSigs, Kill(s, T, g)
       PROVE  KillNotDeferred'
  BY <1>3, <1>12 DEF Kill
<1>13. ASSUME NEW s \in Slots, NEW g \in ActSigs, NEW h \in Actions, sigaction(s, g, h)
       PROVE  KillNotDeferred'
  BY <1>1, <1>2, <1>13 DEF sigaction
<1>14. ASSUME NEW s \in Slots, NEW set \in SUBSET MaskSigs, sigprocmask(s, set)
       PROVE  KillNotDeferred'
  BY SMTT(30), <1>2, <1>14 DEF sigprocmask
<1>15. ASSUME NEW s \in Slots, sigreturn(s) PROVE KillNotDeferred'
  BY SMTT(30), <1>2, <1>15 DEF sigreturn
<1>16. ASSUME NEW s \in Slots, NEW p \in Slots, NEW g \in Pids, setpgid(s, p, g)
       PROVE  KillNotDeferred'
  BY SMTT(30), <1>2, <1>16 DEF setpgid
<1>17. ASSUME NEW s \in Slots, setsid(s) PROVE KillNotDeferred'
  BY <1>2, <1>17 DEF setsid
<1>18. ASSUME NEW s \in Slots, NEW steal \in BOOLEAN, TiocsCtty(s, steal) PROVE KillNotDeferred'
  BY ZenonT(30), <1>2, <1>18 DEF TiocsCtty
<1>19. ASSUME NEW s \in Slots, NEW g \in Pids, TiocsPgrp(s, g) PROVE KillNotDeferred'
  BY Zenon, <1>2, <1>19 DEF TiocsPgrp
<1>20. ASSUME NEW s \in Slots, NEW g \in {SIGTTIN, SIGTTOU} \cap Signals, TtyAccess(s, g)
       PROVE  KillNotDeferred'
  <2>1. SendTo(Group(pgid[s]), g) \/ UNCHANGED <<state, sigpend>>
    BY <1>20 DEF TtyAccess
  <2> QED BY SMTT(30), <1>2, <1>3, <2>1
<1>21. ASSUME NEW s \in Slots, WaitReap(s) PROVE KillNotDeferred'
  <2> DEFINE c == Min(Reportable(s, call[s]))
  <2>1. CASE state[c] = "ZOMBIE"
    <3>1. sigpend' = Fill({c}, sigpend, {}) /\ state' = [state EXCEPT ![c] = "UNUSED"]
      BY ZenonT(30), <1>21, <2>1 DEF WaitReap, Release
    <3> HIDE DEF c
    <3> QED BY <1>1, <1>d, <1>k, <3>1 DEF Undeferred, Fill
  <2>2. CASE state[c] # "ZOMBIE"
    BY <1>2, <1>21, <2>2 DEF WaitReap
  <2> QED BY <2>1, <2>2
<1>22. ASSUME NEW s \in Slots, WaitNone(s) PROVE KillNotDeferred'
  <2>1. /\ UNCHANGED sigpend
        /\ \/ UNCHANGED state
           \/ ~signal_pending(s) /\ state' = [state EXCEPT ![s] = "SLEEPING"]
    BY <1>22 DEF WaitNone
  <2>2. ~signal_pending(s) => SIGKILL \notin sigpend[s]
    BY <1>22, PendingKill DEF WaitNone, nointr
  <2> QED BY <1>1, <1>d, <1>k, <2>1, <2>2 DEF Undeferred
<1>23. ASSUME NEW s \in Slots, PauseLoop(s) PROVE KillNotDeferred'
  <2>1. /\ UNCHANGED sigpend
        /\ \/ UNCHANGED state
           \/ ~signal_pending(s) /\ state' = [state EXCEPT ![s] = "SLEEPING"]
    BY <1>23 DEF PauseLoop
  <2>2. ~signal_pending(s) => SIGKILL \notin sigpend[s]
    BY <1>23, PendingKill DEF PauseLoop, nointr
  <2> QED BY <1>1, <1>d, <1>k, <2>1, <2>2 DEF Undeferred
<1>23r. ASSUME NEW s \in Slots, RpcLoop(s) PROVE KillNotDeferred'
  <2>1. /\ UNCHANGED sigpend
        /\ \/ UNCHANGED state
           \/ ~signal_pending(s) /\ state' = [state EXCEPT ![s] = "SLEEPING"] /\ UNCHANGED pc
    BY ZenonT(30), <1>23r DEF RpcLoop, RpcGoesOn
  <2>2. CASE UNCHANGED state
    BY <1>2, <2>1, <2>2
  <2>3. CASE ~signal_pending(s) /\ state' = [state EXCEPT ![s] = "SLEEPING"] /\ UNCHANGED pc
    <3>1. SIGKILL \in sigpend[s] => nointr(s)'
      BY <2>3, PendingKill DEF nointr
    <3>2. \A p \in Slots : p # s => state'[p] = state[p] /\ (nointr(p)' <=> nointr(p))
      BY <1>1, <2>3 DEF nointr
    <3>3. state'[s] = "SLEEPING"
      BY <1>1, <2>3
    <3> QED BY ZenonT(30), <1>k, <2>1, <3>1, <3>2, <3>3 DEF KillNotDeferred, Undeferred
  <2> QED BY <2>1, <2>2, <2>3
<1>24. ASSUME NEW s \in Slots, DeliverNothing(s) PROVE KillNotDeferred'
  BY ZenonT(30), <1>1, <1>2, <1>24 DEF DeliverNothing, Took
<1>25. ASSUME NEW s \in Slots, DeliverStop(s) PROVE KillNotDeferred'
  <2> DEFINE st == [state EXCEPT ![s] = "STOPPED"]
  <2>1. SIGKILL \notin sigpend[s]
    <3>1. Taken(s) \in STOPSIGS
      BY Zenon, <1>25 DEF DeliverStop
    <3>2. ~(Taken(s) <= SIGKILL)
      BY <3>1 DEF STOPSIGS, SIGSTOP, SIGTSTP, SIGTTIN, SIGTTOU, SIGKILL
    <3> QED BY <3>2, PendingKill
  <2>2. \A p \in Slots : /\ SIGKILL \in Took(s)[p] => Undeferred(st, p)
                         /\ st[p] = "SLEEPING" => pc'[p] = pc[p]
    BY <1>0, <1>1, <1>k, <2>1 DEF Undeferred, Took
  <2>3. st \in [Slots -> States]
    BY <1>1 DEF States
  <2>4. \E rep, mail : Post(st, Took(s), rep, ppid, mail, FindPid(ppid[s]))
    BY Zenon, <1>25 DEF DeliverStop
  <2> HIDE DEF st
  <2> QED BY <2>2, <2>3, <2>4, PostKill
<1>26. ASSUME NEW s \in Slots, DeliverExit(s) PROVE KillNotDeferred'
  BY <1>4, <1>26 DEF DeliverExit
<1>27. ASSUME NEW s \in Slots, DeliverCaught(s) PROVE KillNotDeferred'
  BY SMTT(30), <1>1, <1>2, <1>27 DEF DeliverCaught, Took
<1>28. ASSUME NEW s \in Slots, DeliverDone(s) PROVE KillNotDeferred'
  BY SMTT(30), <1>2, <1>28 DEF DeliverDone
<1>29. ASSUME NEW s \in Slots, Redo(s) PROVE KillNotDeferred'
  BY <1>2, <1>29 DEF Redo
<1>30. CASE Idle
  BY ZenonT(30), <1>1, <1>30, <1>d, <1>k DEF Idle, Release, Fill, Reapable, Undeferred
<1>31. ASSUME NEW g \in TtySigs, TtyInput(g) PROVE KillNotDeferred'
  BY <1>3, <1>31 DEF TtyInput
<1>32. CASE UNCHANGED vars
  BY <1>2, <1>32 DEF vars
<1> QED
  BY <1>5, <1>6, <1>7, <1>8, <1>9, <1>10, <1>11, <1>11r, <1>11s, <1>23r, <1>12, <1>13, <1>14, <1>15, <1>16, <1>17, <1>18,
     <1>19, <1>20, <1>21, <1>22, <1>23, <1>24, <1>25, <1>26, <1>27, <1>28, <1>29, <1>30, <1>31,
     <1>32 DEF Next, Syscall, Kernel

\* A process that was sent KILL is runnable until it dies of it, except where a
\* 9P call has nointr set: nowhere else can it sleep (sleep_on after
\* signal_pending), and never stay stopped (send_signal).
THEOREM KillUndeferred == Spec => []KillNotDeferred
<1>1. Init => KillNotDeferred
  BY DEF Init, KillNotDeferred
<1>2. TableInv => TypeOK /\ CurRuns
  BY DEF TableInv
<1> QED BY <1>1, <1>2, KillStep, TableInOrder, PTL DEF Spec
=============================================================================
