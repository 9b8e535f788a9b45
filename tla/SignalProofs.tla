----------------------------- MODULE SignalProofs -----------------------------
(***************************************************************************)
(* Proofs about the signals of Proc and about wait: calls that are         *)
(* repeated or broken off, groups left without a parent, handlers that     *)
(* nest, and that whoever sleeps in sys_wait has nothing to report, so     *)
(* that no ended, stopped or continued child is missed.                    *)
(***************************************************************************)
EXTENDS ProcProofs

-----------------------------------------------------------------------------
(* Interrupted calls.  The action property needs to know that a slot that    *)
(* fork takes has no failed call left in it from the process before.         *)

DeadQuiet == \A s \in Slots : state[s] \in Dead => ~eintr[s]

\* What UncaughtNeverInterrupts says of one step.
OnlyCaught ==
    \A s \in Slots :
        /\ pc[s] = "deliver" /\ eintr[s] /\ pc'[s] = "user" /\ state'[s] \notin Dead
        /\ ~redo'[s]
        => \E g \in sigpend[s] : Catches(s, g) /\ Len(frames'[s]) = Len(frames[s]) + 1

\* A step by which nobody enters user code and no call fails or dies.
LEMMA CallsGoOn ==
    ASSUME DeadQuiet, UNCHANGED eintr,
           \A p \in Slots : state'[p] \in Dead => state[p] \in Dead,
           \A p \in Slots : pc'[p] = "user" => pc[p] = "user"
    PROVE  DeadQuiet' /\ OnlyCaught
<1>1. \A p \in Slots : pc[p] = "deliver" => pc'[p] # "user"
  OBVIOUS
<1> QED BY <1>1 DEF DeadQuiet, OnlyCaught

\* Every step keeps dead slots quiet and fails no call without a handler.
LEMMA CaughtStep ==
    TableInv /\ DeadQuiet /\ [Next]_vars => DeadQuiet' /\ OnlyCaught
<1> SUFFICES ASSUME TableInv, DeadQuiet, [Next]_vars PROVE DeadQuiet' /\ OnlyCaught
  OBVIOUS
<1> DEFINE Good == DeadQuiet' /\ OnlyCaught
<1>1. TypeOK
  BY DEF TableInv
<1>2. /\ state \in [Slots -> States] /\ sigpend \in [Slots -> SUBSET Signals]
      /\ pc \in [Slots -> {"user", "deliver", "wait", "pause"} \cup RpcWaits]
      /\ eintr \in [Slots -> BOOLEAN] /\ redo \in [Slots -> BOOLEAN]
      /\ frames \in [Slots -> Seq(Frame)] /\ report \in [Slots -> {"none", "stop", "cont"}]
      /\ KillSigs \subseteq Signals /\ TtySigs \subseteq Signals /\ SIGCHLD \in Signals
  BY <1>1, ProcAssumption DEF TypeOK
<1>3. \A s \in Slots : cur = s => s # 0 /\ state[s] = "RUNNING" /\ state[s] \notin Dead
  BY ProcAssumption DEF TableInv, CurRuns, Slots, Dead
<1> USE DEF ids, acts, ctl, tty
\* The calls that return, and those that are entered.
<1>4. ASSUME NEW s \in Slots, Return(s), UNCHANGED state PROVE Good
  <2>1. \A p \in Slots : pc'[p] = "user" => pc[p] = "user"
    BY <1>2, <1>4 DEF Return
  <2> QED BY <1>4, <2>1, CallsGoOn DEF Return
<1>5. ASSUME NEW s \in Slots, cur = s, ReturnEINTR(s), UNCHANGED state PROVE Good
  <2>1. \A p \in Slots : /\ pc'[p] = "user" => pc[p] = "user"
                         /\ eintr'[p] => eintr[p] \/ p = s
    BY <1>2, <1>5 DEF ReturnEINTR
  <2> QED BY <1>3, <1>5, <2>1 DEF DeadQuiet, OnlyCaught
<1>6. ASSUME NEW s \in Slots, state' = [state EXCEPT ![s] = "SLEEPING"], UNCHANGED ctl PROVE Good
  <2>1. \A p \in Slots : state'[p] \in Dead => state[p] \in Dead
    BY <1>2, <1>6 DEF Dead
  <2> QED BY <1>6, <2>1, CallsGoOn
<1>7. ASSUME NEW T, NEW g \in Signals, SendTo(T, g)
      PROVE  \A p \in Slots : state'[p] \in Dead <=> state[p] \in Dead
  <2>1. To(T, {g}) \in [Slots -> SUBSET Signals]
    BY <1>7 DEF To
  <2>2. \A p \in Slots : /\ state'[p] = "UNUSED" <=> state[p] = "UNUSED"
                         /\ state'[p] = "ZOMBIE" <=> state[p] = "ZOMBIE"
    BY Zenon, <1>1, <1>2, <1>7, <2>1, PostSteady DEF SendTo
  <2> QED BY <2>2 DEF Dead
<1>8. ASSUME NEW s \in Slots, cur = s, ExitProc(s) PROVE Good
  <2> DEFINE st == [state EXCEPT ![s] = "ZOMBIE"]
  <2>1. PICK par, mail : Post(st, [sigpend EXCEPT ![s] = {}], report, par, mail, ExitWakes(s))
    BY Zenon, <1>8 DEF ExitProc
  <2>2. \A p \in Slots : \/ state'[p] = st[p]
                         \/ state'[p] = "RUNNABLE" /\ st[p] \in {"STOPPED", "SLEEPING"}
    BY <2>1 DEF Post
  <2>3. \A p \in Slots : /\ p = s => state'[p] \in Dead
                         /\ p # s => (state'[p] \in Dead => state[p] \in Dead)
    BY ZenonT(30), <1>2, <2>2 DEF Dead
  <2>4. \A p \in Slots : /\ p = s => ~eintr'[p]
                         /\ p # s => pc'[p] = pc[p] /\ eintr'[p] = eintr[p]
    BY ZenonT(30), <1>2, <1>8 DEF ExitProc
  <2> QED BY <2>3, <2>4 DEF DeadQuiet, OnlyCaught
<1>9. ASSUME NEW s \in Slots, Schedule(s) PROVE Good
  <2>1. \A p \in Slots : state'[p] \in Dead => state[p] \in Dead
    BY <1>2, <1>9 DEF Schedule, Fill, Reapable, Dead
  <2> QED BY <1>9, <2>1, CallsGoOn DEF Schedule
<1>10. ASSUME NEW s \in Slots, Tick(s) PROVE Good
  <2>1. \A p \in Slots : state'[p] \in Dead => state[p] \in Dead
    BY <1>2, <1>10 DEF Tick, Dead
  <2>2. \A p \in Slots : pc'[p] = "user" => pc[p] = "user"
    BY <1>2, <1>10 DEF Tick
  <2> QED BY <1>10, <2>1, <2>2, CallsGoOn DEF Tick
<1>11. ASSUME NEW s \in Slots, NEW nowait \in BOOLEAN, Fork(s, nowait) PROVE Good
  <2> DEFINE c == Min(Free)
  <2>1. c \in Slots /\ state[c] = "UNUSED"
    BY <1>11, FreeSlot DEF Fork
  <2>2. /\ state' = [state EXCEPT ![c] = "RUNNABLE"]
        /\ pc' = [pc EXCEPT ![s] = "deliver", ![c] = "user"] /\ UNCHANGED eintr
    BY <1>11 DEF Fork
  <2> HIDE DEF c
  <2>3. ~eintr[c]
    BY <2>1 DEF DeadQuiet, Dead
  <2>4. \A p \in Slots : /\ state'[p] \in Dead => state[p] \in Dead
                         /\ pc'[p] = "user" => pc[p] = "user" \/ p = c
    BY <1>2, <2>1, <2>2 DEF Dead
  <2> QED BY ZenonT(30), <2>2, <2>3, <2>4 DEF DeadQuiet, OnlyCaught
<1>12. ASSUME NEW s \in Slots, Exec(s) PROVE Good
  BY <1>4, <1>12 DEF Exec
<1>13. ASSUME NEW s \in Slots, Exit(s) PROVE Good
  BY <1>8, <1>13 DEF Exit, InUser
<1>14. ASSUME NEW s \in Slots, NEW n \in WaitPids, NEW opts \in WaitOpts, Waitpid(s, n, opts)
       PROVE  Good
  <2>1. \A p \in Slots : pc'[p] = "user" => pc[p] = "user"
    BY <1>2, <1>14 DEF Waitpid
  <2> QED BY <1>14, <2>1, CallsGoOn DEF Waitpid
<1>15. ASSUME NEW s \in Slots, Pause(s) PROVE Good
  <2>1. \A p \in Slots : pc'[p] = "user" => pc[p] = "user"
    BY <1>2, <1>15 DEF Pause
  <2> QED BY <1>15, <2>1, CallsGoOn DEF Pause
<1>15r. ASSUME NEW s \in Slots, Rpc(s) PROVE Good
  <2>1. \A p \in Slots : pc'[p] = "user" => pc[p] = "user"
    BY <1>2, <1>15r DEF Rpc
  <2> QED BY <1>15r, <2>1, CallsGoOn DEF Rpc
<1>15s. ASSUME NEW s \in Slots, NEW t \in Slots, Serve(s, t) PROVE Good
  <2>1. \A p \in Slots : state'[p] \in Dead => state[p] \in Dead
    BY <1>2, <1>15s DEF Serve, Dead
  <2>2. \A p \in Slots : pc'[p] = "user" => pc[p] = "user"
    BY <1>2, <1>15s DEF Serve, Return
  <2> QED BY <1>15s, <2>1, <2>2, CallsGoOn DEF Serve, Return
<1>16. ASSUME NEW s \in Slots, NEW T \in KillTargets(s), NEW g \in KillSigs, Kill(s, T, g)
       PROVE  Good
  <2>1. \A p \in Slots : pc'[p] = "user" => pc[p] = "user"
    BY <1>2, <1>16 DEF Kill, Return
  <2>2. \A p \in Slots : state'[p] \in Dead <=> state[p] \in Dead
    BY <1>2, <1>7, <1>16 DEF Kill
  <2> QED BY <1>16, <2>1, <2>2, CallsGoOn DEF Kill, Return
<1>17. ASSUME NEW s \in Slots, NEW g \in ActSigs, NEW h \in Actions, sigaction(s, g, h)
       PROVE  Good
  BY <1>4, <1>17 DEF sigaction
<1>18. ASSUME NEW s \in Slots, NEW set \in SUBSET MaskSigs, sigprocmask(s, set) PROVE Good
  BY <1>4, <1>18 DEF sigprocmask
<1>19. ASSUME NEW s \in Slots, sigreturn(s) PROVE Good
  <2>1. \A p \in Slots : /\ pc'[p] = "user" => pc[p] = "user"
                         /\ eintr'[p] => eintr[p]
    BY <1>2, <1>19 DEF sigreturn
  <2>2. UNCHANGED state
    BY <1>19 DEF sigreturn
  <2> QED BY <2>1, <2>2 DEF DeadQuiet, OnlyCaught
<1>20. ASSUME NEW s \in Slots, NEW p \in Slots, NEW g \in Pids, setpgid(s, p, g) PROVE Good
  BY <1>4, <1>20 DEF setpgid
<1>21. ASSUME NEW s \in Slots, setsid(s) PROVE Good
  BY <1>4, <1>21 DEF setsid
<1>22. ASSUME NEW s \in Slots, NEW steal \in BOOLEAN, TiocsCtty(s, steal) PROVE Good
  BY <1>4, <1>22 DEF TiocsCtty
<1>23. ASSUME NEW s \in Slots, NEW g \in Pids, TiocsPgrp(s, g) PROVE Good
  BY <1>4, <1>23 DEF TiocsPgrp
<1>24. ASSUME NEW s \in Slots, NEW g \in {SIGTTIN, SIGTTOU} \cap Signals, TtyAccess(s, g)
       PROVE  Good
  <2>1. \A p \in Slots : /\ pc'[p] = "user" => pc[p] = "user"
                         /\ eintr'[p] => eintr[p] \/ p = s
    BY <1>2, <1>24 DEF TtyAccess
  <2>2. cur = s /\ (SendTo(Group(pgid[s]), g) \/ UNCHANGED state)
    BY <1>24 DEF TtyAccess, InUser
  <2>3. \A p \in Slots : state'[p] \in Dead <=> state[p] \in Dead
    BY <1>7, <2>2
  <2> QED BY <1>3, <2>1, <2>2, <2>3 DEF DeadQuiet, OnlyCaught
<1>25. ASSUME NEW s \in Slots, WaitReap(s) PROVE Good
  <2> DEFINE c == Min(Reportable(s, call[s]))
  <2>1. /\ Return(s)
        /\ \/ UNCHANGED state
           \/ state[c] = "ZOMBIE" /\ state' = [state EXCEPT ![c] = "UNUSED"]
    BY <1>25 DEF WaitReap
  <2> HIDE DEF c
  <2>2. \A p \in Slots : state'[p] \in Dead => state[p] \in Dead
    BY <1>2, <2>1 DEF Dead
  <2>3. \A p \in Slots : pc'[p] = "user" => pc[p] = "user"
    BY <1>2, <2>1 DEF Return
  <2> QED BY <2>1, <2>2, <2>3, CallsGoOn DEF Return
<1>26. ASSUME NEW s \in Slots, WaitNone(s) PROVE Good
  BY <1>4, <1>5, <1>6, <1>26 DEF WaitNone
<1>27. ASSUME NEW s \in Slots, PauseLoop(s) PROVE Good
  BY <1>5, <1>6, <1>27 DEF PauseLoop
<1>27r. ASSUME NEW s \in Slots, RpcLoop(s) PROVE Good
  <2>1. CASE \E to \in RpcWaits : pc' = [pc EXCEPT ![s] = to] /\ UNCHANGED <<call, eintr, redo, state, cur>>
    <3>1. \A p \in Slots : pc'[p] = "user" => pc[p] = "user"
      BY <1>2, <2>1 DEF RpcWaits
    <3> QED BY <2>1, <3>1, CallsGoOn
  <2>2. cur = s
    BY <1>27r DEF RpcLoop
  <2> QED BY <1>4, <1>5, <1>6, <1>27r, <2>1, <2>2, RpcCases
<1>28. ASSUME NEW s \in Slots, DeliverNothing(s) PROVE Good
  BY <1>28, CallsGoOn DEF DeliverNothing
<1>29. ASSUME NEW s \in Slots, DeliverStop(s) PROVE Good
  <2> DEFINE st == [state EXCEPT ![s] = "STOPPED"]
  <2>1. PICK rep, mail : Post(st, Took(s), rep, ppid, mail, FindPid(ppid[s]))
    BY Zenon, <1>29 DEF DeliverStop
  <2>2. \A p \in Slots : state'[p] = st[p] \/ state'[p] = "RUNNABLE"
    BY <2>1 DEF Post
  <2>3. \A p \in Slots : state'[p] \in Dead => state[p] \in Dead
    BY ZenonT(30), <1>2, <2>2 DEF Dead
  <2> QED BY <1>29, <2>3, CallsGoOn DEF DeliverStop
<1>30. ASSUME NEW s \in Slots, DeliverExit(s) PROVE Good
  BY <1>8, <1>30 DEF DeliverExit, InDeliver
<1>31. ASSUME NEW s \in Slots, DeliverCaught(s) PROVE Good
  <2>1. Taken(s) \in sigpend[s] /\ Catches(s, Taken(s)) /\ Len(frames'[s]) = Len(frames[s]) + 1
    <3>1. Taken(s) \in sigpend[s] /\ Catches(s, Taken(s))
      BY <1>1, <1>31, TakenReady DEF DeliverCaught, Ready
    <3>2. PICK f : frames' = [frames EXCEPT ![s] = Append(@, f)]
      BY ZenonT(30), <1>31 DEF DeliverCaught
    <3> QED BY <1>2, <3>1, <3>2
  <2>2. \A p \in Slots : /\ p # s => pc'[p] = pc[p]
                         /\ eintr'[p] => eintr[p]
    BY <1>2, <1>31 DEF DeliverCaught
  <2>3. UNCHANGED state
    BY <1>31 DEF DeliverCaught
  <2> QED BY <2>1, <2>2, <2>3 DEF DeadQuiet, OnlyCaught
<1>32. ASSUME NEW s \in Slots, DeliverDone(s) PROVE Good
  <2>1. \A p \in Slots : /\ p # s => pc'[p] = pc[p]
                         /\ eintr'[p] => eintr[p]
                         /\ eintr[s] => redo'[s]
    BY <1>2, <1>32 DEF DeliverDone
  <2>2. UNCHANGED state
    BY <1>32 DEF DeliverDone
  <2> QED BY <2>1, <2>2 DEF DeadQuiet, OnlyCaught
<1>33. ASSUME NEW s \in Slots, Redo(s) PROVE Good
  <2>1. \A p \in Slots : pc'[p] = "user" => pc[p] = "user"
    BY <1>2, <1>33 DEF Redo
  <2> QED BY <1>33, <2>1, CallsGoOn DEF Redo
<1>34. CASE Idle
  <2>1. \A p \in Slots : state'[p] \in Dead => state[p] \in Dead
    BY <1>2, <1>34 DEF Idle, Fill, Reapable, Dead
  <2> QED BY <1>34, <2>1, CallsGoOn DEF Idle
<1>35. ASSUME NEW g \in TtySigs, TtyInput(g) PROVE Good
  <2>1. \A p \in Slots : pc'[p] = "user" => pc[p] = "user"
    BY <1>2, <1>35 DEF TtyInput
  <2>2. \A p \in Slots : state'[p] \in Dead <=> state[p] \in Dead
    BY <1>2, <1>7, <1>35 DEF TtyInput
  <2> QED BY <1>35, <2>1, <2>2, CallsGoOn DEF TtyInput
<1>36. CASE UNCHANGED vars
  BY <1>36, CallsGoOn DEF vars
<1> QED
  BY <1>9, <1>10, <1>11, <1>12, <1>13, <1>14, <1>15, <1>15r, <1>15s, <1>16, <1>17, <1>18, <1>19, <1>20, <1>21, <1>22,
     <1>23, <1>24, <1>25, <1>26, <1>27, <1>27r, <1>28, <1>29, <1>30, <1>31, <1>32, <1>33, <1>34, <1>35,
     <1>36 DEF Next, Syscall, Kernel

\* A call that a signal interrupted fails with EINTR only if a handler was
\* entered for it; otherwise the process finds itself back at the same call,
\* also after a stop and a continue (deliver_signals, restart_call).
THEOREM UncaughtRepeats == Spec => UncaughtNeverInterrupts
<1>1. Init => DeadQuiet
  BY DEF Init, DeadQuiet
<1>2. OnlyCaught => [OnlyCaught]_vars
  OBVIOUS
<1> QED BY <1>1, TableInOrder, CaughtStep, PTL DEF Spec, UncaughtNeverInterrupts, OnlyCaught

-----------------------------------------------------------------------------
(* Orphaned groups. *)

\* Only do_exit makes a zombie, of the process that runs.
LEMMA ZombieByExit ==
    ASSUME TableInv, [Next]_vars, NEW z \in Slots, state[z] # "ZOMBIE", state'[z] = "ZOMBIE"
    PROVE  state[z] = "RUNNING" /\ pid[z] # 1 /\ ExitProc(z)
<1> DEFINE Good == state[z] = "RUNNING" /\ pid[z] # 1 /\ ExitProc(z)
<1>1. TypeOK
  BY DEF TableInv
<1>2. /\ state \in [Slots -> States] /\ sigpend \in [Slots -> SUBSET Signals]
      /\ report \in [Slots -> {"none", "stop", "cont"}]
      /\ KillSigs \subseteq Signals /\ TtySigs \subseteq Signals /\ SIGCHLD \in Signals
  BY <1>1, ProcAssumption DEF TypeOK
<1>3. \A s \in Slots : cur = s => state[s] = "RUNNING"
  BY ProcAssumption DEF TableInv, CurRuns, Slots
<1>4. ASSUME NEW T, NEW g, SendTo(T, g) PROVE FALSE
  BY <1>2, <1>4 DEF SendTo, Post
<1>5. ASSUME NEW s \in Slots, pid[s] # 1, state[s] = "RUNNING", ExitProc(s) PROVE Good
  <2> DEFINE st == [state EXCEPT ![s] = "ZOMBIE"]
  <2>1. PICK par, mail : Post(st, [sigpend EXCEPT ![s] = {}], report, par, mail, ExitWakes(s))
    BY Zenon, <1>5 DEF ExitProc
  <2>2. st[z] = "ZOMBIE"
    BY <2>1 DEF Post
  <2> QED BY <1>2, <1>5, <2>2
<1>6. ASSUME NEW s \in Slots, \/ state' = [state EXCEPT ![s] = "SLEEPING"]
                              \/ state' = [state EXCEPT ![s] = "RUNNABLE"]
                              \/ state' = [state EXCEPT ![s] = "UNUSED"]
      PROVE FALSE
  BY <1>2, <1>6
<1>7. ASSUME NEW s \in Slots, Schedule(s) PROVE FALSE
  BY <1>2, <1>7 DEF Schedule, Fill
<1>8. ASSUME NEW s \in Slots, Fork(s, TRUE) \/ Fork(s, FALSE) PROVE FALSE
  <2>1. Min(Free) \in Slots /\ state' = [state EXCEPT ![Min(Free)] = "RUNNABLE"]
    BY <1>8, FreeSlot DEF Fork
  <2> QED BY <1>6, <2>1
<1>9. ASSUME NEW s \in Slots, WaitReap(s) PROVE FALSE
  BY <1>2, <1>9 DEF WaitReap
<1>10. ASSUME NEW s \in Slots, WaitNone(s) \/ PauseLoop(s) PROVE FALSE
  BY <1>6, <1>10 DEF WaitNone, PauseLoop
<1>10r. ASSUME NEW s \in Slots, RpcLoop(s) PROVE FALSE
  BY <1>6, <1>10r, RpcCases
<1>10s. ASSUME NEW s \in Slots, NEW t \in Slots, Serve(s, t) PROVE FALSE
  BY <1>6, <1>10s DEF Serve
<1>11. ASSUME NEW s \in Slots, DeliverStop(s) PROVE FALSE
  <2> DEFINE st == [state EXCEPT ![s] = "STOPPED"]
  <2>1. PICK rep, mail : Post(st, Took(s), rep, ppid, mail, FindPid(ppid[s]))
    BY Zenon, <1>11 DEF DeliverStop
  <2>2. st[z] = "ZOMBIE"
    BY <2>1 DEF Post
  <2> QED BY <1>2, <2>2
<1>12. CASE Idle
  BY <1>2, <1>12 DEF Idle, Fill
<1>13. ASSUME NEW s \in Slots, \E g \in {SIGTTIN, SIGTTOU} \cap Signals : TtyAccess(s, g) PROVE FALSE
  BY ZenonT(30), <1>4, <1>13 DEF TtyAccess
<1>14. ASSUME NEW s \in Slots, Syscall(s) PROVE Good
  <2>1. ASSUME UNCHANGED state PROVE FALSE
    BY <2>1
  <2>2. \/ Fork(s, TRUE) \/ Fork(s, FALSE)
        \/ Exit(s)
        \/ \E T \in KillTargets(s), g \in KillSigs : Kill(s, T, g)
        \/ \E t \in Slots : Serve(s, t)
        \/ \E g \in {SIGTTIN, SIGTTOU} \cap Signals : TtyAccess(s, g)
    BY Zenon, <1>14, <2>1 DEF Syscall, Exec, Waitpid, Pause, Rpc, sigaction, sigprocmask, sigreturn, setpgid,
                       setsid, TiocsCtty, TiocsPgrp
  <2>3. CASE Exit(s)
    BY <1>3, <1>5, <2>3 DEF Exit, InUser
  <2>4. CASE \E T \in KillTargets(s), g \in KillSigs : Kill(s, T, g)
    BY <1>4, <2>4 DEF Kill
  <2> QED BY ZenonT(30), <1>8, <1>10s, <1>13, <2>2, <2>3, <2>4
<1>15. ASSUME NEW s \in Slots, Kernel(s) PROVE Good
  <2>1. ASSUME UNCHANGED state PROVE FALSE
    BY <2>1
  <2>2. WaitReap(s) \/ WaitNone(s) \/ PauseLoop(s) \/ RpcLoop(s) \/ DeliverStop(s) \/ DeliverExit(s)
    BY Zenon, <1>15, <2>1 DEF Kernel, DeliverNothing, DeliverCaught, DeliverDone
  <2>3. CASE DeliverExit(s)
    BY <1>3, <1>5, <2>3 DEF DeliverExit, InDeliver
  <2> QED BY <1>9, <1>10, <1>10r, <1>11, <2>2, <2>3
<1>16. ASSUME NEW s \in Slots, Tick(s) \/ Redo(s) PROVE FALSE
  BY <1>6, <1>16 DEF Tick, Redo
<1>17. ASSUME NEW g \in TtySigs, TtyInput(g) PROVE FALSE
  BY <1>4, <1>17 DEF TtyInput
<1>18. CASE UNCHANGED vars
  BY <1>18 DEF vars
<1> QED BY <1>7, <1>12, <1>14, <1>15, <1>16, <1>17, <1>18 DEF Next

\* A set of slots has a last member.
LEMMA LastSlot ==
    ASSUME NEW S, S \subseteq Slots, S # {}
    PROVE  \E m \in S : \A c \in S : c <= m
<1> DEFINE D == {NPROC - c : c \in S}
<1>1. NPROC \in Nat /\ \A c \in S : c \in 1..NPROC
  BY ProcAssumption DEF Slots
<1>2. D \subseteq Nat /\ D # {}
  BY <1>1
<1>3. Min(D) \in D /\ \A y \in D : Min(D) <= y
  <2> HIDE DEF D
  <2> QED BY ZenonT(30), <1>2, MinInSet
<1>4. PICK m \in S : Min(D) = NPROC - m
  BY <1>3
<1>5. \A c \in S : NPROC - m <= NPROC - c
  BY <1>3, <1>4
<1> QED BY <1>1, <1>5

\* What send_signal does to a stopped process that gets HUP and CONT.
LEMMA HangupContinues ==
    ASSUME NEW st \in [Slots -> States], NEW pend, NEW rep, NEW par, NEW mail, NEW woken,
           Post(st, pend, rep, par, mail, woken),
           NEW p \in Slots, st[p] = "STOPPED", SIGHUP \in mail[p], SIGCONT \in mail[p]
    PROVE  /\ state'[p] = "RUNNABLE"
           /\ ~ignored(p, SIGHUP) /\ pid[p] # 1 => SIGHUP \in sigpend'[p]
<1>1. PICK got : /\ mail[p] \subseteq got
                 /\ Resumes(p, got) => state'[p] = "RUNNABLE"
                 /\ sigpend'[p] = Received(pend[p], p, got)
  BY ZenonT(30) DEF Post, Dead
<1>2. Resumes(p, got)
  BY <1>1 DEF Resumes
<1>3. ~ignored(p, SIGHUP) /\ pid[p] # 1 => SIGHUP \in Received(pend[p], p, got)
  BY <1>1 DEF Received, Accepts, Drops
<1> QED BY <1>1, <1>2, <1>3

\* do_exit tells every group that the exit orphans: the group of a child at the
\* last child it passes to init, its own group at the end.
LEMMA ExitOrphans ==
    ASSUME TableInv, NEW s \in Slots, state[s] = "RUNNING", pid[s] # 1, ExitProc(s),
           NEW g \in Pids, ~orphan_pgrp(g), orphan_pgrp(g)', NEW p \in Group(g)
    PROVE  /\ state'[p] # "STOPPED"
           /\ state[p] = "STOPPED" /\ ~ignored(p, SIGHUP) /\ pid[p] # 1 => SIGHUP \in sigpend'[p]
<1> DEFINE par == ReparentedTo(s, NPROC)
           st == [state EXCEPT ![s] = "ZOMBIE"]
           mine == OrphanIn(st, par, pgid[s]) /\ HasStopped(st, pgid[s])
           hup == Kicked(s) \cup (IF HangsUp(s) THEN {ttyPgrp} ELSE {})
                            \cup (IF mine THEN {pgid[s]} ELSE {})
           parent == FindPid(ppid[s])
           mail == [x \in Slots |-> (IF pgid[x] \in hup THEN {SIGHUP, SIGCONT} ELSE {})
                                    \cup (IF x \in parent THEN {SIGCHLD} ELSE {})]
<1>1. PICK told : Post(st, [sigpend EXCEPT ![s] = {}], report, told, mail, ExitWakes(s))
  BY Zenon DEF ExitProc
<1>2. state \in [Slots -> States] /\ st \in [Slots -> States] /\ p \in Slots
  BY ZenonT(30) DEF TableInv, TypeOK, States, Group
<1>3. \A x \in Slots : st[x] = IF x = s THEN "ZOMBIE" ELSE state[x]
  BY <1>2
<1>4. \A x \in Slots : \/ state'[x] = st[x]
                       \/ st[x] \in {"STOPPED", "SLEEPING"} /\ state'[x] = "RUNNABLE"
  BY ZenonT(30), <1>1 DEF Post
<1>5. /\ \A x \in Slots : state'[x] \in Dead <=> st[x] \in Dead
      /\ \A x \in Slots : st[x] \in Dead <=> x = s \/ state[x] \in Dead
  BY ZenonT(30), <1>3, <1>4 DEF Dead
<1>6. UNCHANGED <<pid, pgid, sid>> /\ ppid' = par
  BY ZenonT(30) DEF ExitProc
<1>7. NPROC \in Nat /\ \A x \in Slots : x \in 1..NPROC
  BY ProcAssumption DEF Slots
<1>8. \A x \in Slots : par[x] = IF x \in Children(s) THEN 1 ELSE ppid[x]
  BY <1>7 DEF ReparentedTo
<1>9. state[s] \notin Dead /\ Used(s)
  BY DEF Dead, Used
\* It is enough that the group is told, if p was stopped.
<1>10. SUFFICES ASSUME state[p] = "STOPPED" PROVE g \in hup
  <2>1. CASE state[p] = "STOPPED"
    <3>1. g \in hup
      BY <1>10, <2>1
    <3>2. SIGHUP \in mail[p] /\ SIGCONT \in mail[p] /\ st[p] = "STOPPED"
      BY ZenonT(30), <1>2, <1>3, <2>1, <3>1 DEF Group
    <3> HIDE DEF mail, st
    <3> QED BY <1>1, <1>2, <3>2, HangupContinues
  <2>2. CASE state[p] # "STOPPED"
    BY ZenonT(30), <1>2, <1>3, <1>4, <2>2
  <2> QED BY <2>1, <2>2
\* No link is left.
<1>11. \A x \in Slots, y \in Slots :
         ~ /\ x # s /\ state[x] \notin Dead /\ pgid[x] = g
           /\ y # s /\ state[y] \notin Dead /\ pid[y] = par[x] /\ pgid[y] # g /\ sid[y] = sid[x]
  <2>1. \A x \in Slots, y \in Slots :
         ~ /\ state'[x] \notin Dead /\ pgid'[x] = g
           /\ state'[y] \notin Dead /\ pid'[y] = ppid'[x] /\ pgid'[y] # g /\ sid'[y] = sid'[x]
    BY DEF orphan_pgrp, OrphanIn
  <2> HIDE DEF par, st
  <2> QED BY <1>5, <1>6, <2>1
<1>12. PICK m \in Slots, q \in Slots :
         /\ state[m] \notin Dead /\ pgid[m] = g
         /\ state[q] \notin Dead /\ pid[q] = ppid[m] /\ pgid[q] # g /\ sid[q] = sid[m]
  BY <1>2 DEF orphan_pgrp, OrphanIn, Group
<1>13. CASE q = s
  <2> DEFINE Own == {c \in Children(s) : pgid[c] = g}
  <2>1. m \in Own /\ m # s /\ pgid[m] # pgid[s]
    BY <1>12, <1>13 DEF Children, Used, Dead
  <2>2. PICK c \in Own : \A x \in Own : x <= c
    <3>1. Own \subseteq Slots
      BY DEF Children
    <3> HIDE DEF Own
    <3> QED BY <2>1, <3>1, LastSlot
  <2>3. \A x \in Slots : pgid[x] = g => ReparentedTo(s, c)[x] = par[x]
    BY <1>8, <2>2 DEF ReparentedTo
  <2>4. \A x \in Slots : state[x] \notin Dead => par[x] # pid[s]
    BY <1>8 DEF Children, Used, Dead
  <2>5. OrphanIn(state, ReparentedTo(s, c), g)
    <3>1. \A x \in Slots, y \in Slots :
            ~ /\ state[x] \notin Dead /\ pgid[x] = g
              /\ state[y] \notin Dead /\ pid[y] = ReparentedTo(s, c)[x] /\ pgid[y] # g /\ sid[y] = sid[x]
      BY <1>11, <1>12, <1>13, <2>3, <2>4
    <3> QED BY <1>12, <3>1 DEF OrphanIn
  <2>6. HasStopped(state, g)
    BY <1>10 DEF HasStopped
  <2>7. KickedAt(s, g) # {}
    BY <2>2, <2>5 DEF KickedAt
  <2> QED BY <2>1, <2>6, <2>7 DEF Kicked
<1>14. CASE q # s
  <2>1. m = s
    <3>1. SUFFICES ASSUME m # s PROVE FALSE
      OBVIOUS
    <3>2. m \notin Children(s)
      BY <1>9, <1>12, <1>14 DEF Children, TableInv, PidsUnique, Used, Dead
    <3> QED BY <1>8, <1>11, <1>12, <1>14, <3>1, <3>2
  <2>2. pgid[s] = g /\ p # s
    BY <1>10, <1>12, <2>1
  <2>3. HasStopped(st, g)
    BY <1>2, <1>3, <1>10, <2>2 DEF HasStopped
  <2>4. OrphanIn(st, par, g)
    <3>1. st[p] \notin Dead /\ pgid[p] = g
      BY <1>2, <1>3, <1>10, <2>2 DEF Dead, Group
    <3>2. \A x \in Slots, y \in Slots :
            ~ /\ st[x] \notin Dead /\ pgid[x] = g
              /\ st[y] \notin Dead /\ pid[y] = par[x] /\ pgid[y] # g /\ sid[y] = sid[x]
      BY <1>5, <1>11
    <3> HIDE DEF par, st
    <3> QED BY <1>2, <3>1, <3>2 DEF OrphanIn
  <2> QED BY <2>2, <2>3, <2>4
<1> QED BY <1>13, <1>14

\* When an exit leaves a process group without a parent outside it that could
\* continue it (orphan_pgrp), do_exit and check_orphans continue every stopped
\* member and send it HUP, whichever of the two ends of the link went away and
\* in whatever order the children lie in the table.
THEOREM OrphansContinue == Spec => ExitContinuesOrphans
<1> DEFINE Told ==
      \A g \in Pids :
         /\ \E s \in Slots : state[s] \notin Dead /\ state'[s] = "ZOMBIE"
         /\ ~orphan_pgrp(g) /\ orphan_pgrp(g)'
         => \A p \in Group(g) :
              /\ state'[p] # "STOPPED"
              /\ state[p] = "STOPPED" /\ ~ignored(p, SIGHUP) /\ pid[p] # 1
                 => SIGHUP \in sigpend'[p]
<1>1. TableInv /\ [Next]_vars => Told
  <2> SUFFICES ASSUME TableInv, [Next]_vars, NEW g \in Pids,
                      NEW s \in Slots, state[s] \notin Dead, state'[s] = "ZOMBIE",
                      ~orphan_pgrp(g), orphan_pgrp(g)', NEW p \in Group(g)
               PROVE  /\ state'[p] # "STOPPED"
                      /\ state[p] = "STOPPED" /\ ~ignored(p, SIGHUP) /\ pid[p] # 1
                         => SIGHUP \in sigpend'[p]
    OBVIOUS
  <2>1. state[s] = "RUNNING" /\ pid[s] # 1 /\ ExitProc(s)
    BY ZombieByExit DEF Dead
  <2> QED BY <2>1, ExitOrphans
<1> QED BY <1>1, TableInOrder, PTL DEF Spec, ExitContinuesOrphans

-----------------------------------------------------------------------------
(* Nested handlers.  KILL and STOP are never caught and never in a mask, so  *)
(* the mask a frame saves is the mask sigreturn puts back.                   *)

\* The frames fr of a stack, below the mask m that is in force.
Nested(fr, m) ==
    \A i \in 1..Len(fr) :
        LET above == IF i = Len(fr) THEN m ELSE fr[i + 1].mask
        IN  fr[i].mask \subseteq above /\ fr[i].mask # above
Plain(fr, m) == m \cap UNBLOCKABLE = {} /\ \A i \in 1..Len(fr) : fr[i].mask \cap UNBLOCKABLE = {}

\* push_frame keeps a stack nested if the new mask is larger.
LEMMA PushNests ==
    ASSUME NEW fr \in Seq(Frame), NEW m, NEW f \in Frame, f.mask = m, NEW above,
           Nested(fr, m), Plain(fr, m), m \subseteq above, m # above, above \cap UNBLOCKABLE = {}
    PROVE  Nested(Append(fr, f), above) /\ Plain(Append(fr, f), above)
<1> DEFINE new == Append(fr, f)
<1>1. Len(fr) \in Nat /\ Len(new) = Len(fr) + 1 /\ new[Len(fr) + 1] = f
  OBVIOUS
<1>2. \A i \in 1..Len(fr) : new[i] = fr[i]
  OBVIOUS
<1> HIDE DEF new
<1>3. \A i \in 1..Len(new) : i \in 1..Len(fr) \/ i = Len(fr) + 1
  BY <1>1
<1>4. Plain(new, above)
  BY <1>1, <1>2, <1>3 DEF Plain
<1>5. ASSUME NEW i \in 1..Len(new)
      PROVE  LET up == IF i = Len(new) THEN above ELSE new[i + 1].mask
             IN  new[i].mask \subseteq up /\ new[i].mask # up
  <2>1. CASE i = Len(fr) + 1
    BY <1>1, <2>1
  <2>2. CASE i = Len(fr) /\ i \in 1..Len(fr)
    BY <1>1, <1>2, <2>2 DEF Nested
  <2>3. CASE i # Len(fr) /\ i \in 1..Len(fr)
    <3>1. i + 1 \in 1..Len(fr) /\ i # Len(new)
      BY <1>1, <2>3
    <3> QED BY <1>2, <2>3, <3>1 DEF Nested
  <2> QED BY <1>3, <2>1, <2>2, <2>3
<1> QED BY <1>4, <1>5 DEF Nested, new

\* sigreturn takes the innermost frame off and its mask back.
LEMMA PopNests ==
    ASSUME NEW fr \in Seq(Frame), fr # << >>, NEW m, Nested(fr, m), Plain(fr, m)
    PROVE  LET f == fr[Len(fr)]
               rest == SubSeq(fr, 1, Len(fr) - 1)
           IN  Nested(rest, f.mask \ UNBLOCKABLE) /\ Plain(rest, f.mask \ UNBLOCKABLE)
<1> DEFINE f == fr[Len(fr)]
           rest == SubSeq(fr, 1, Len(fr) - 1)
<1>1. Len(fr) \in Nat \ {0} /\ Len(rest) = Len(fr) - 1
  <2>1. Len(fr) \in Nat /\ Len(fr) # 0
    OBVIOUS
  <2>2. PICK n \in Nat : n = Len(fr) - 1
    BY <2>1
  <2>3. CASE n = 0
    BY <2>1, <2>2, <2>3
  <2>4. CASE n # 0
    BY <2>1, <2>2, <2>4
  <2> QED BY <2>1, <2>3, <2>4
<1>2. \A i \in 1..Len(rest) : rest[i] = fr[i] /\ i \in 1..Len(fr) /\ i # Len(fr)
  <2>1. \A i \in 1..Len(fr) - 1 : rest[i] = fr[i]
    BY <1>1
  <2> HIDE DEF rest
  <2> QED BY <1>1, <2>1
<1>3. f.mask \ UNBLOCKABLE = f.mask
  BY <1>1 DEF Plain
<1> HIDE DEF rest
<1>4. Plain(rest, f.mask)
  BY <1>1, <1>2 DEF Plain
<1>5. ASSUME NEW i \in 1..Len(rest)
      PROVE  LET up == IF i = Len(rest) THEN f.mask ELSE rest[i + 1].mask
             IN  rest[i].mask \subseteq up /\ rest[i].mask # up
  <2>1. CASE i = Len(rest)
    BY <1>1, <1>2, <2>1 DEF Nested
  <2>2. CASE i # Len(rest)
    <3>1. i + 1 \in 1..Len(rest)
      BY <1>1, <2>2
    <3> QED BY <1>2, <2>2, <3>1 DEF Nested
  <2> QED BY <2>1, <2>2
<1> QED BY ZenonT(30), <1>3, <1>4, <1>5 DEF Nested, rest

NestInv ==
    /\ \A s \in Slots : \A g \in UNBLOCKABLE : handler[s][g] = "DFL"
    /\ \A s \in Slots : Nested(frames[s], sigmask[s]) /\ Plain(frames[s], sigmask[s])

\* A signal saves the mask it adds to, the return from its handler takes that
\* mask back, and nothing else changes masks or frames of a living process.
LEMMA NestStep ==
    ASSUME "sigprocmask" \notin Calls
    PROVE  TypeOK /\ NestInv /\ [Next]_vars => NestInv'
<1> SUFFICES ASSUME TypeOK, NestInv, [Next]_vars PROVE NestInv'
  OBVIOUS
<1> USE DEF ids, acts
<1>1. /\ handler \in [Slots -> [Signals -> Handlers]] /\ sigmask \in [Slots -> SUBSET Signals]
      /\ frames \in [Slots -> Seq(Frame)] /\ UNBLOCKABLE \subseteq Signals
  BY ProcAssumption DEF TypeOK, UNBLOCKABLE
<1>2. \A m : Nested(<< >>, m) /\ (m \cap UNBLOCKABLE = {} => Plain(<< >>, m))
  BY DEF Nested, Plain
<1>3. \A fr, m : Plain(fr, m) => m \cap UNBLOCKABLE = {}
  BY DEF Plain
<1>4. ASSUME UNCHANGED acts PROVE NestInv'
  BY <1>4 DEF NestInv
<1>5. ASSUME NEW S, Release(S) PROVE NestInv'
  <2>1. \A g \in UNBLOCKABLE : [h \in Signals |-> "DFL"][g] = "DFL"
    BY <1>1
  <2> QED BY <1>2, <1>5, <2>1 DEF NestInv, Release, Fill
<1>6. ASSUME NEW s \in Slots, Fork(s, TRUE) \/ Fork(s, FALSE) PROVE NestInv'
  <2> DEFINE c == Min(Free)
  <2>1. /\ handler' = [handler EXCEPT ![c] = handler[s]]
        /\ sigmask' = [sigmask EXCEPT ![c] = sigmask[s]]
        /\ frames' = [frames EXCEPT ![c] = frames[s]]
    BY <1>6 DEF Fork
  <2> HIDE DEF c
  <2> QED BY <1>1, <2>1 DEF NestInv
<1>7. ASSUME NEW s \in Slots, Exec(s) PROVE NestInv'
  <2>1. \A p \in Slots : \A g \in UNBLOCKABLE : handler'[p][g] = "DFL"
    BY <1>1, <1>7 DEF Exec, NestInv
  <2>2. \A p \in Slots : sigmask'[p] = sigmask[p] /\ frames'[p] = IF p = s THEN << >> ELSE frames[p]
    BY <1>1, <1>7 DEF Exec
  <2> QED BY <1>2, <1>3, <2>1, <2>2 DEF NestInv
<1>8. ASSUME NEW s \in Slots, NEW g \in ActSigs, NEW h \in Actions, sigaction(s, g, h) PROVE NestInv'
  <2>1. g \in Signals /\ g \notin UNBLOCKABLE
    BY ProcAssumption
  <2>2. \A p \in Slots : \A k \in UNBLOCKABLE : handler'[p][k] = "DFL"
    BY <1>1, <1>8, <2>1 DEF sigaction, NestInv
  <2> QED BY <1>8, <2>2 DEF sigaction, NestInv
<1>9. ASSUME NEW s \in Slots, sigreturn(s) PROVE NestInv'
  <2> DEFINE f == frames[s][Len(frames[s])]
             rest == SubSeq(frames[s], 1, Len(frames[s]) - 1)
  <2>1. /\ sigmask' = [sigmask EXCEPT ![s] = f.mask \ UNBLOCKABLE]
        /\ frames' = [frames EXCEPT ![s] = rest] /\ UNCHANGED handler /\ frames[s] # << >>
    BY ZenonT(30), <1>9 DEF sigreturn
  <2>2. Nested(rest, f.mask \ UNBLOCKABLE) /\ Plain(rest, f.mask \ UNBLOCKABLE)
    BY <1>1, <2>1, PopNests DEF NestInv
  <2> HIDE DEF f, rest
  <2> QED BY <1>1, <2>1, <2>2 DEF NestInv
<1>10. ASSUME NEW s \in Slots, DeliverCaught(s) PROVE NestInv'
  <2> DEFINE again == \/ redo[s]
                      \/ /\ eintr[s] /\ handler[s][Taken(s)] = "RESTART"
                         /\ call[s].nr # "pause"
             f == [mask |-> sigmask[s], redo |-> again, call |-> IF again THEN call[s] ELSE NoCall]
  <2>1. f \in Frame /\ f.mask = sigmask[s]
    <3>1. again \in BOOLEAN
      BY DEF TypeOK
    <3> HIDE DEF again
    <3> QED BY <3>1 DEF Frame, Call, TypeOK
  <2>2. /\ frames' = [frames EXCEPT ![s] = Append(@, f)] /\ UNCHANGED handler
        /\ sigmask' = [sigmask EXCEPT ![s] = HandlerMask(s)]
    BY Zenon, <1>10 DEF DeliverCaught
  <2> HIDE DEF f
  <2>3. Taken(s) \notin UNBLOCKABLE /\ Taken(s) \notin sigmask[s]
    <3>1. Taken(s) \in Ready(s) /\ Catches(s, Taken(s))
      BY <1>10, TakenReady DEF DeliverCaught
    <3>2. Taken(s) \notin UNBLOCKABLE
      BY <3>1 DEF Catches, NestInv
    <3> QED BY <3>1, <3>2 DEF Ready
  <2>4. /\ sigmask[s] \subseteq HandlerMask(s) /\ sigmask[s] # HandlerMask(s)
        /\ HandlerMask(s) \cap UNBLOCKABLE = {}
    BY <1>3, <2>3 DEF HandlerMask, NestInv
  <2>5. Nested(Append(frames[s], f), HandlerMask(s)) /\ Plain(Append(frames[s], f), HandlerMask(s))
    BY <1>1, <2>1, <2>4, PushNests DEF NestInv
  <2> QED BY <1>1, <2>2, <2>5 DEF NestInv
<1>11. ASSUME NEW s \in Slots, Syscall(s) PROVE NestInv'
  <2>1. \/ UNCHANGED acts
        \/ \E nowait \in BOOLEAN : Fork(s, nowait)
        \/ Exec(s) \/ Exit(s) \/ sigreturn(s)
        \/ \E g \in ActSigs, h \in Actions : sigaction(s, g, h)
        \/ \E set \in SUBSET MaskSigs : sigprocmask(s, set)
    BY Zenon, <1>11 DEF Syscall, Waitpid, Pause, Rpc, Serve, Kill, setpgid, setsid, TiocsCtty, TiocsPgrp, TtyAccess
  <2>2. CASE Exit(s)
    BY ZenonT(30), <1>4, <2>2 DEF Exit, ExitProc
  <2>3. ASSUME NEW set, sigprocmask(s, set) PROVE FALSE
    BY ZenonT(30), <2>3 DEF sigprocmask, InUser
  <2> QED BY ZenonT(30), <1>4, <1>6, <1>7, <1>8, <1>9, <2>1, <2>2, <2>3
<1>12. ASSUME NEW s \in Slots, Kernel(s) PROVE NestInv'
  <2>1. UNCHANGED acts \/ WaitReap(s) \/ DeliverExit(s) \/ DeliverCaught(s)
    BY Zenon, <1>12 DEF Kernel, WaitNone, PauseLoop, RpcLoop, DeliverNothing, DeliverStop, DeliverDone
  <2>2. CASE WaitReap(s)
    BY <1>4, <1>5, <2>2 DEF WaitReap
  <2>3. CASE DeliverExit(s)
    BY ZenonT(30), <1>4, <2>3 DEF DeliverExit, ExitProc
  <2> QED BY <1>4, <1>10, <2>1, <2>2, <2>3
<1>13. ASSUME NEW s \in Slots, Schedule(s) \/ Tick(s) \/ Redo(s) PROVE NestInv'
  BY <1>4, <1>5, <1>13 DEF Schedule, Tick, Redo
<1>14. CASE Idle
  BY <1>5, <1>14 DEF Idle
<1>15. ASSUME NEW g \in TtySigs, TtyInput(g) PROVE NestInv'
  BY <1>4, <1>15 DEF TtyInput
<1>16. CASE UNCHANGED vars
  BY <1>4, <1>16 DEF vars
<1> QED BY <1>11, <1>12, <1>13, <1>14, <1>15, <1>16 DEF Next

\* In programs that do not set their masks themselves each handler runs with its
\* own signal blocked until it returns, across nesting, fork inside a handler,
\* exec and sigreturn (push_frame, sys_sigreturn): a stack holds at most one
\* frame for each signal.
THEOREM HandlersStayNested ==
    ASSUME "sigprocmask" \notin Calls
    PROVE  Spec => []HandlersNest
<1>1. Init => NestInv
  <2> SUFFICES ASSUME Init PROVE NestInv
    OBVIOUS
  <2>1. UNBLOCKABLE \subseteq Signals
    BY ProcAssumption DEF UNBLOCKABLE
  <2> QED BY <2>1 DEF Init, NestInv, Nested, Plain
<1>2. NestInv => HandlersNest
  BY DEF NestInv, HandlersNest, Nested
<1>3. TypeOK /\ NestInv /\ [Next]_vars => NestInv'
  BY NestStep
<1> QED BY <1>1, <1>2, <1>3, TypeCorrect, PTL DEF Spec


-----------------------------------------------------------------------------
(* Waiting.  What waitpid sleeps on is tied to what wakes it by three more   *)
(* facts: a process is not its own parent, a slot that fork takes has no     *)
(* report left in it, and a process in waitpid still has the arguments it    *)
(* came with, also when a handler's frame held them in between.              *)

NotOwn == \A s \in Slots : Used(s) => ppid[s] # pid[s]
FreeSilent == \A s \in Slots : state[s] = "UNUSED" => report[s] = "none"

KnownCall  == {c \in Call : c.nr = "waitpid" => c.pid \in WaitPids}
KnownFrame == [mask : SUBSET Signals, redo : BOOLEAN, call : KnownCall]
CallsKnown ==
    /\ call \in [Slots -> KnownCall]
    /\ frames \in [Slots -> Seq(KnownFrame)]
    /\ \A s \in Slots : pc[s] = "wait" => call[s].nr = "waitpid"

\* The call in the registers, or in a frame, is one that was made.
LEMMA CallsStep ==
    TypeOK /\ CallsKnown /\ [Next]_vars => CallsKnown'
<1> SUFFICES ASSUME TypeOK, CallsKnown, [Next]_vars PROVE CallsKnown'
  OBVIOUS
<1> USE DEF ids, acts, ctl, tty
<1>1. /\ call \in [Slots -> KnownCall] /\ frames \in [Slots -> Seq(KnownFrame)]
      /\ \A s \in Slots : pc[s] = "wait" => call[s].nr = "waitpid"
      /\ pc \in [Slots -> {"user", "deliver", "wait", "pause"} \cup RpcWaits]
      /\ sigmask \in [Slots -> SUBSET Signals] /\ redo \in [Slots -> BOOLEAN]
  BY DEF TypeOK, CallsKnown
<1>2. NoCall \in KnownCall /\ [nr |-> "pause"] \in KnownCall /\ [nr |-> "rpc"] \in KnownCall /\ << >> \in Seq(KnownFrame)
  BY DEF KnownCall, Call, NoCall
\* Most steps put a process where it is not in waitpid.
<1>3. ASSUME NEW s \in Slots, UNCHANGED frames,
             UNCHANGED pc \/ pc' = [pc EXCEPT ![s] = "deliver"] \/ pc' = [pc EXCEPT ![s] = "user"],
             UNCHANGED call \/ (pc'[s] \in {"deliver", "user"} /\ call' = [call EXCEPT ![s] = NoCall])
      PROVE  CallsKnown'
  <2>1. call' \in [Slots -> KnownCall]
    BY <1>1, <1>2, <1>3
  <2>2. \A p \in Slots : pc'[p] = "wait" => pc[p] = "wait" /\ call'[p] = call[p]
    BY <1>1, <1>3
  <2> QED BY <1>1, <1>3, <2>1, <2>2 DEF CallsKnown
<1>4. ASSUME NEW s \in Slots, UNCHANGED frames, Return(s) PROVE CallsKnown'
  BY ZenonT(30), <1>1, <1>3, <1>4 DEF Return
<1>5. ASSUME NEW S, Release(S), \/ UNCHANGED ctl
                                \/ \E s \in Slots : Return(s) PROVE CallsKnown'
  <2>1. frames' \in [Slots -> Seq(KnownFrame)]
    BY <1>1, <1>2, <1>5 DEF Release, Fill
  <2>2. call' \in [Slots -> KnownCall]
    BY ZenonT(30), <1>1, <1>2, <1>5 DEF Return
  <2>3. \A p \in Slots : pc'[p] = "wait" => pc[p] = "wait" /\ call'[p] = call[p]
    BY <1>1, <1>5 DEF Return
  <2> QED BY <1>1, <2>1, <2>2, <2>3 DEF CallsKnown
<1>6. ASSUME NEW s \in Slots, ExitProc(s) PROVE CallsKnown'
  <2>1. /\ pc' = [pc EXCEPT ![s] = "user"] /\ call' = [call EXCEPT ![s] = NoCall]
        /\ UNCHANGED frames
    BY ZenonT(30), <1>6 DEF ExitProc
  <2> QED BY ZenonT(30), <1>1, <1>3, <2>1
<1>7. ASSUME NEW s \in Slots, Schedule(s) PROVE CallsKnown'
  BY <1>5, <1>7 DEF Schedule
<1>8. ASSUME NEW s \in Slots, Tick(s) PROVE CallsKnown'
  BY ZenonT(30), <1>3, <1>8 DEF Tick
<1>9. ASSUME NEW s \in Slots, NEW nowait \in BOOLEAN, Fork(s, nowait) PROVE CallsKnown'
  <2> DEFINE c == Min(Free)
  <2>1. c \in Slots
    BY <1>9, FreeSlot DEF Fork
  <2>2. /\ frames' = [frames EXCEPT ![c] = frames[s]] /\ UNCHANGED call
        /\ pc' = [pc EXCEPT ![s] = "deliver", ![c] = "user"]
    BY <1>9 DEF Fork
  <2> HIDE DEF c
  <2> QED BY <1>1, <2>1, <2>2 DEF CallsKnown
<1>10. ASSUME NEW s \in Slots, Exec(s) PROVE CallsKnown'
  <2>1. frames' \in [Slots -> Seq(KnownFrame)] /\ call' \in [Slots -> KnownCall]
    BY <1>1, <1>2, <1>10 DEF Exec, Return
  <2>2. \A p \in Slots : pc'[p] = "wait" => pc[p] = "wait" /\ call'[p] = call[p]
    BY <1>1, <1>10 DEF Exec, Return
  <2> QED BY <1>1, <2>1, <2>2 DEF CallsKnown
<1>11. ASSUME NEW s \in Slots, Exit(s) PROVE CallsKnown'
  BY <1>6, <1>11 DEF Exit
<1>12. ASSUME NEW s \in Slots, NEW n \in WaitPids, NEW opts \in WaitOpts, Waitpid(s, n, opts)
       PROVE  CallsKnown'
  <2> DEFINE w == [nr |-> "waitpid", pid |-> n, opts |-> opts]
  <2>1. w \in KnownCall /\ w.nr = "waitpid"
    BY ProcAssumption DEF Call, KnownCall
  <2>2. call' = [call EXCEPT ![s] = w] /\ pc' = [pc EXCEPT ![s] = "wait"] /\ UNCHANGED frames
    BY <1>12 DEF Waitpid
  <2> HIDE DEF w
  <2> QED BY <1>1, <2>1, <2>2 DEF CallsKnown
<1>13. ASSUME NEW s \in Slots, Pause(s) PROVE CallsKnown'
  <2>1. call' \in [Slots -> KnownCall] /\ UNCHANGED frames
    BY <1>1, <1>2, <1>13 DEF Pause
  <2>2. \A p \in Slots : pc'[p] = "wait" => pc[p] = "wait" /\ call'[p] = call[p]
    BY <1>1, <1>13 DEF Pause
  <2> QED BY <1>1, <2>1, <2>2 DEF CallsKnown
<1>13r. ASSUME NEW s \in Slots, Rpc(s) PROVE CallsKnown'
  <2>1. call' \in [Slots -> KnownCall] /\ UNCHANGED frames
    BY <1>1, <1>2, <1>13r DEF Rpc
  <2>2. \A p \in Slots : pc'[p] = "wait" => pc[p] = "wait" /\ call'[p] = call[p]
    BY <1>1, <1>13r DEF Rpc
  <2> QED BY <1>1, <2>1, <2>2 DEF CallsKnown
<1>13s. ASSUME NEW s \in Slots, NEW t \in Slots, Serve(s, t) PROVE CallsKnown'
  BY <1>4, <1>13s DEF Serve
<1>14. ASSUME NEW s \in Slots, NEW T \in KillTargets(s), NEW g \in KillSigs, Kill(s, T, g)
       PROVE  CallsKnown'
  BY <1>4, <1>14 DEF Kill
<1>15. ASSUME NEW s \in Slots, NEW g \in ActSigs, NEW h \in Actions, sigaction(s, g, h)
       PROVE  CallsKnown'
  BY <1>4, <1>15 DEF sigaction
<1>16. ASSUME NEW s \in Slots, NEW set \in SUBSET MaskSigs, sigprocmask(s, set) PROVE CallsKnown'
  BY <1>4, <1>16 DEF sigprocmask
<1>17. ASSUME NEW s \in Slots, sigreturn(s) PROVE CallsKnown'
  <2>1. frames[s] \in Seq(KnownFrame) /\ frames[s] # << >>
    BY <1>1, <1>17 DEF sigreturn
  <2>2. frames[s][Len(frames[s])] \in KnownFrame /\ SubSeq(frames[s], 1, Len(frames[s]) - 1) \in Seq(KnownFrame)
    BY <2>1
  <2>3. frames' \in [Slots -> Seq(KnownFrame)]
    BY Zenon, <1>1, <1>17, <2>2 DEF sigreturn
  <2>4. call' \in [Slots -> KnownCall]
    <3>1. frames[s][Len(frames[s])].call \in KnownCall
      BY <2>2 DEF KnownFrame
    <3> QED BY Zenon, <1>1, <1>17, <3>1 DEF sigreturn
  <2>5. \A p \in Slots : pc'[p] = "wait" => pc[p] = "wait" /\ call'[p] = call[p]
    BY <1>1, <1>17 DEF sigreturn
  <2> QED BY <1>1, <2>3, <2>4, <2>5 DEF CallsKnown
<1>18. ASSUME NEW s \in Slots, NEW p \in Slots, NEW g \in Pids, setpgid(s, p, g) PROVE CallsKnown'
  BY <1>4, <1>18 DEF setpgid
<1>19. ASSUME NEW s \in Slots, setsid(s) PROVE CallsKnown'
  BY <1>4, <1>19 DEF setsid
<1>20. ASSUME NEW s \in Slots, NEW steal \in BOOLEAN, TiocsCtty(s, steal) PROVE CallsKnown'
  BY <1>4, <1>20 DEF TiocsCtty
<1>21. ASSUME NEW s \in Slots, NEW g \in Pids, TiocsPgrp(s, g) PROVE CallsKnown'
  BY <1>4, <1>21 DEF TiocsPgrp
<1>22. ASSUME NEW s \in Slots, NEW g \in {SIGTTIN, SIGTTOU} \cap Signals, TtyAccess(s, g)
       PROVE  CallsKnown'
  <2> DEFINE w == [nr |-> "tty", sig |-> g]
  <2>1. w \in KnownCall
    BY DEF KnownCall, Call, STOPSIGS
  <2>2. /\ call' = [call EXCEPT ![s] = w] \/ call' = [call EXCEPT ![s] = NoCall]
        /\ pc' = [pc EXCEPT ![s] = "deliver"] /\ UNCHANGED frames
    BY <1>22 DEF TtyAccess
  <2> HIDE DEF w
  <2>3. call' \in [Slots -> KnownCall]
    BY SMTT(30), <1>1, <1>2, <2>1, <2>2
  <2>4. \A p \in Slots : pc'[p] = "wait" => pc[p] = "wait" /\ call'[p] = call[p]
    BY <1>1, <2>2
  <2> QED BY <1>1, <2>2, <2>3, <2>4 DEF CallsKnown
<1>23. ASSUME NEW s \in Slots, WaitReap(s) PROVE CallsKnown'
  <2>1. Return(s) /\ (UNCHANGED frames \/ \E S : Release(S))
    BY <1>23 DEF WaitReap
  <2> QED BY <1>4, <1>5, <2>1
<1>24. ASSUME NEW s \in Slots, WaitNone(s) \/ PauseLoop(s) PROVE CallsKnown'
  BY <1>3, <1>4, <1>24 DEF WaitNone, PauseLoop, ReturnEINTR
<1>24r. ASSUME NEW s \in Slots, RpcLoop(s) PROVE CallsKnown'
  <2>1. UNCHANGED frames
    BY <1>24r DEF RpcLoop
  <2>2. CASE \E to \in RpcWaits : pc' = [pc EXCEPT ![s] = to] /\ UNCHANGED <<call, eintr, redo, state, cur>>
    <3>1. \A p \in Slots : pc'[p] = "wait" => pc[p] = "wait"
      BY <1>1, <2>2 DEF RpcWaits
    <3> QED BY <1>1, <2>1, <2>2, <3>1 DEF CallsKnown
  <2> QED BY <1>3, <1>4, <1>24r, <2>1, <2>2, RpcCases DEF ReturnEINTR
<1>25. ASSUME NEW s \in Slots, DeliverNothing(s) PROVE CallsKnown'
  BY <1>3, <1>25 DEF DeliverNothing
<1>26. ASSUME NEW s \in Slots, DeliverStop(s) PROVE CallsKnown'
  BY <1>3, <1>26 DEF DeliverStop
<1>27. ASSUME NEW s \in Slots, DeliverExit(s) PROVE CallsKnown'
  BY <1>6, <1>27 DEF DeliverExit
<1>28. ASSUME NEW s \in Slots, DeliverCaught(s) PROVE CallsKnown'
  <2> DEFINE again == \/ redo[s]
                      \/ /\ eintr[s] /\ handler[s][Taken(s)] = "RESTART"
                         /\ call[s].nr # "pause"
             f == [mask |-> sigmask[s], redo |-> again, call |-> IF again THEN call[s] ELSE NoCall]
  <2>1. f \in KnownFrame
    <3>1. again \in BOOLEAN
      BY DEF TypeOK
    <3> HIDE DEF again
    <3> QED BY <1>1, <1>2, <3>1 DEF KnownFrame
  <2>2. frames' = [frames EXCEPT ![s] = Append(@, f)]
    BY Zenon, <1>28 DEF DeliverCaught
  <2>3. pc' = [pc EXCEPT ![s] = "user"] /\ call' = [call EXCEPT ![s] = NoCall]
    BY <1>28 DEF DeliverCaught
  <2> HIDE DEF f
  <2>4. frames' \in [Slots -> Seq(KnownFrame)]
    BY <1>1, <2>1, <2>2
  <2>5. call' \in [Slots -> KnownCall]
    BY <1>1, <1>2, <2>3
  <2>6. \A p \in Slots : pc'[p] = "wait" => pc[p] = "wait" /\ call'[p] = call[p]
    BY <1>1, <2>3
  <2> QED BY <1>1, <2>4, <2>5, <2>6 DEF CallsKnown
<1>29. ASSUME NEW s \in Slots, DeliverDone(s) PROVE CallsKnown'
  BY ZenonT(30), <1>3, <1>29 DEF DeliverDone
<1>30. ASSUME NEW s \in Slots, Redo(s) PROVE CallsKnown'
  BY <1>1, <1>30 DEF Redo, CallsKnown
<1>31. CASE Idle
  BY <1>5, <1>31 DEF Idle
<1>32. ASSUME NEW g \in TtySigs, TtyInput(g) PROVE CallsKnown'
  <2>1. UNCHANGED <<call, frames>> /\ \A p \in Slots : pc'[p] = "wait" => pc[p] = "wait"
    BY <1>1, <1>32 DEF TtyInput
  <2> QED BY <1>1, <2>1 DEF CallsKnown
<1>33. CASE UNCHANGED vars
  BY <1>33 DEF vars, CallsKnown
<1> QED
  BY <1>7, <1>8, <1>9, <1>10, <1>11, <1>12, <1>13, <1>13r, <1>13s, <1>14, <1>15, <1>16, <1>17, <1>18, <1>19, <1>20,
     <1>21, <1>22, <1>23, <1>24, <1>24r, <1>25, <1>26, <1>27, <1>28, <1>29, <1>30, <1>31, <1>32,
     <1>33 DEF Next, Syscall, Kernel

\* A process is not its own child, and a free slot has nothing to report.
LEMMA QuietStep ==
    TableInv /\ NotOwn /\ FreeSilent /\ [Next]_vars => NotOwn' /\ FreeSilent'
<1> SUFFICES ASSUME TableInv, NotOwn, FreeSilent, [Next]_vars PROVE NotOwn' /\ FreeSilent'
  OBVIOUS
<1> DEFINE Good == NotOwn' /\ FreeSilent'
<1> USE DEF ids, acts, ctl, tty
<1>1. TypeOK
  BY DEF TableInv
<1>2. /\ state \in [Slots -> States] /\ report \in [Slots -> {"none", "stop", "cont"}]
      /\ pid \in [Slots -> 0..PidLimit - 1] /\ ppid \in [Slots -> 0..PidLimit - 1]
  BY <1>1 DEF TypeOK
<1>3. \A s \in Slots : cur = s => state[s] = "RUNNING"
  BY ProcAssumption DEF TableInv, CurRuns, Slots
\* Steps that free nothing and leave the reports alone.
<1>4. ASSUME UNCHANGED <<pid, ppid, report>>,
             \A s \in Slots : state'[s] = "UNUSED" <=> state[s] = "UNUSED" PROVE Good
  BY <1>4 DEF NotOwn, FreeSilent, Used
<1>5. ASSUME NEW S, Release(S), report' = Fill(S, report, "none"),
             \A s \in Slots : s \in S => state'[s] = "UNUSED",
             \A s \in Slots : s \notin S => (state'[s] = "UNUSED" <=> state[s] = "UNUSED")
      PROVE  Good
  BY <1>5 DEF NotOwn, FreeSilent, Used, Release, Fill
<1>6. ASSUME NEW st \in [Slots -> States], NEW pend, NEW rep, NEW par, NEW mail, NEW woken,
             Post(st, pend, rep, par, mail, woken),
             \A p \in Slots : st[p] = "UNUSED" <=> state[p] = "UNUSED",
             \A p \in Slots : state[p] = "UNUSED" => rep[p] = "none"
      PROVE  FreeSilent' /\ \A p \in Slots : Used(p)' <=> Used(p)
  <2>1. \A p \in Slots : /\ state'[p] = "UNUSED" <=> st[p] = "UNUSED"
                         /\ st[p] = "UNUSED" => report'[p] = rep[p]
    BY <1>6 DEF Post, Fill
  <2> QED BY <1>6, <2>1 DEF FreeSilent, Used
<1>7. ASSUME NEW T, NEW g, SendTo(T, g), UNCHANGED <<pid, ppid>> PROVE Good
  <2>1. FreeSilent' /\ \A p \in Slots : Used(p)' <=> Used(p)
    BY <1>2, <1>6, <1>7 DEF SendTo, FreeSilent
  <2> QED BY <1>7, <2>1 DEF NotOwn
<1>8. ASSUME NEW s \in Slots, state[s] = "RUNNING", ExitProc(s) PROVE Good
  <2> DEFINE st == [state EXCEPT ![s] = "ZOMBIE"]
  <2>1. PICK par, mail : Post(st, [sigpend EXCEPT ![s] = {}], report, par, mail, ExitWakes(s))
    BY Zenon, <1>8 DEF ExitProc
  <2>2. st \in [Slots -> States] /\ \A p \in Slots : st[p] = "UNUSED" <=> state[p] = "UNUSED"
    BY <1>2, <1>8 DEF States
  <2>3. FreeSilent' /\ \A p \in Slots : Used(p)' <=> Used(p)
    <3> HIDE DEF st
    <3> QED BY <1>6, <2>1, <2>2 DEF FreeSilent
  <2>4. UNCHANGED pid /\ \A c \in Slots : ppid'[c] = ppid[c] \/ (c \in Children(s) /\ ppid'[c] = 1)
    BY Zenon, <1>8 DEF ExitProc, ReparentedTo
  <2>5. \A c \in Slots : c \in Children(s) => pid[c] # 1
    BY <1>8 DEF Children, TableInv, InitAlive, Numbered, PidsUnique, Used, Dead
  <2> QED BY <2>3, <2>4, <2>5 DEF NotOwn
<1>9. ASSUME NEW s \in Slots, Schedule(s) PROVE Good
  BY <1>2, <1>5, <1>9 DEF Schedule, Fill, Reapable
<1>10. ASSUME NEW s \in Slots, cur = s, UNCHANGED <<pid, ppid, report>>,
              state' = [state EXCEPT ![s] = "RUNNABLE"] \/ state' = [state EXCEPT ![s] = "SLEEPING"]
       PROVE  Good
  BY <1>2, <1>3, <1>4, <1>10
<1>10r. ASSUME NEW s \in Slots, RpcLoop(s) PROVE Good
  <2>1. cur = s /\ UNCHANGED <<pid, ppid, report>>
    BY <1>10r DEF RpcLoop
  <2> QED BY <1>4, <1>10, <1>10r, <2>1, RpcCases
<1>10s. ASSUME NEW s \in Slots, NEW t \in Slots, Serve(s, t) PROVE Good
  BY <1>2, <1>4, <1>10s DEF Serve
<1>11. ASSUME NEW s \in Slots, NEW nowait \in BOOLEAN, Fork(s, nowait) PROVE Good
  <2> DEFINE c == Min(Free)
             n == alloc_pid
  <2>1. c \in Slots /\ state[c] = "UNUSED"
    BY <1>11, FreeSlot DEF Fork
  <2>2. /\ state' = [state EXCEPT ![c] = "RUNNABLE"]
        /\ pid' = [pid EXCEPT ![c] = n]
        /\ ppid' = [ppid EXCEPT ![c] = IF nowait THEN 1 ELSE pid[s]]
        /\ UNCHANGED report
    BY <1>11 DEF Fork
  <2>3. n # pid[s] /\ n # 1
    <3>1. ~PidUsed(n)
      BY <1>1, <1>11, AllocPidFree DEF Fork
    <3>2. Used(s) /\ Used(1) /\ pid[1] = 1 /\ 1 \in Slots
      BY <1>3, <1>11 DEF Fork, InUser, Used, TableInv, InitAlive, Dead
    <3> QED BY <3>1, <3>2 DEF PidUsed
  <2> HIDE DEF c, n
  <2> QED BY <1>2, <2>1, <2>2, <2>3 DEF NotOwn, FreeSilent, Used
<1>12. ASSUME NEW s \in Slots, \E g \in {SIGTTIN, SIGTTOU} \cap Signals : TtyAccess(s, g) PROVE Good
  BY <1>4, <1>7, <1>12 DEF TtyAccess
<1>13. ASSUME NEW s \in Slots, Syscall(s) PROVE Good
  <2>1. ASSUME UNCHANGED <<state, pid, ppid, report>> PROVE Good
    BY <1>4, <2>1
  <2>2. \/ UNCHANGED <<state, pid, ppid, report>>
        \/ \E nowait \in BOOLEAN : Fork(s, nowait)
        \/ Exit(s)
        \/ \E T \in KillTargets(s), g \in KillSigs : Kill(s, T, g)
        \/ \E t \in Slots : Serve(s, t)
        \/ \E g \in {SIGTTIN, SIGTTOU} \cap Signals : TtyAccess(s, g)
    BY Zenon, <1>13 DEF Syscall, Exec, Waitpid, Pause, Rpc, sigaction, sigprocmask, sigreturn, setpgid,
                 setsid, TiocsCtty, TiocsPgrp
  <2>3. CASE Exit(s)
    BY <1>3, <1>8, <2>3 DEF Exit, InUser
  <2>4. CASE \E T \in KillTargets(s), g \in KillSigs : Kill(s, T, g)
    BY <1>7, <2>4 DEF Kill
  <2> QED BY <1>10s, <1>11, <1>12, <2>1, <2>2, <2>3, <2>4
<1>14. ASSUME NEW s \in Slots, WaitReap(s) PROVE Good
  <2> DEFINE c == Min(Reportable(s, call[s]))
  <2>1. CASE state[c] = "ZOMBIE"
    <3>1. Release({c}) /\ state' = [state EXCEPT ![c] = "UNUSED"] /\ report' = [report EXCEPT ![c] = "none"]
      BY <1>14, <2>1 DEF WaitReap
    <3> HIDE DEF c
    <3>2. report' = Fill({c}, report, "none")
      BY ZenonT(30), <1>2, <3>1 DEF Fill
    <3> QED BY ZenonT(30), <1>2, <1>5, <3>1, <3>2
  <2>2. CASE state[c] # "ZOMBIE"
    <3>1. UNCHANGED <<state, pid, ppid>> /\ report' = [report EXCEPT ![c] = "none"]
      BY <1>14, <2>2 DEF WaitReap
    <3> QED BY <1>2, <3>1 DEF NotOwn, FreeSilent, Used
  <2> QED BY <2>1, <2>2
<1>15. ASSUME NEW s \in Slots, DeliverStop(s) PROVE Good
  <2> DEFINE st == [state EXCEPT ![s] = "STOPPED"]
             rep == [report EXCEPT ![s] = "stop"]
  <2>1. PICK mail : Post(st, Took(s), rep, ppid, mail, FindPid(ppid[s]))
    BY Zenon, <1>15 DEF DeliverStop
  <2>2. state[s] = "RUNNING" /\ UNCHANGED <<pid, ppid>>
    BY <1>3, <1>15 DEF DeliverStop, InDeliver
  <2>3. /\ st \in [Slots -> States]
        /\ \A p \in Slots : st[p] = "UNUSED" <=> state[p] = "UNUSED"
        /\ \A p \in Slots : state[p] = "UNUSED" => rep[p] = "none"
    BY <1>2, <2>2 DEF States, FreeSilent
  <2>4. FreeSilent' /\ \A p \in Slots : Used(p)' <=> Used(p)
    <3> HIDE DEF st, rep
    <3> QED BY <1>6, <2>1, <2>3
  <2> QED BY <2>2, <2>4 DEF NotOwn
<1>16. ASSUME NEW s \in Slots, Kernel(s) PROVE Good
  <2>1. \/ UNCHANGED <<state, pid, ppid, report>>
        \/ WaitReap(s) \/ WaitNone(s) \/ PauseLoop(s) \/ RpcLoop(s) \/ DeliverStop(s) \/ DeliverExit(s)
    BY Zenon, <1>16 DEF Kernel, DeliverNothing, DeliverCaught, DeliverDone
  <2>2. CASE WaitNone(s) \/ PauseLoop(s)
    BY <1>4, <1>10, <2>2 DEF WaitNone, PauseLoop
  <2>3. CASE DeliverExit(s)
    BY <1>3, <1>8, <2>3 DEF DeliverExit, InDeliver
  <2> QED BY <1>4, <1>10r, <1>14, <1>15, <2>1, <2>2, <2>3
<1>17. ASSUME NEW s \in Slots, Tick(s) \/ Redo(s) PROVE Good
  BY <1>4, <1>10, <1>17 DEF Tick, Redo
<1>18. CASE Idle
  BY <1>2, <1>5, <1>18 DEF Idle, Fill, Reapable
<1>19. ASSUME NEW g \in TtySigs, TtyInput(g) PROVE Good
  BY <1>7, <1>19 DEF TtyInput
<1>20. CASE UNCHANGED vars
  BY <1>4, <1>20 DEF vars
<1> QED BY <1>9, <1>13, <1>16, <1>17, <1>18, <1>19, <1>20 DEF Next

\* Programs that wait for a group do not change groups at the same time: a wait
\* is for any child or for one process, or nobody calls setpgid and setsid.
\* (A child that changes its group wakes nobody.)
GroupsSettled ==
    \/ {"setpgid", "setsid"} \cap Calls = {}
    \/ \A n \in WaitPids : n = -1 \/ n > 0

Asleep(s) == state[s] = "SLEEPING" /\ pc[s] = "wait"
\* Nothing a wait could look at changes its group.
SameGroups(s, c) ==
    \/ pgid'[s] = pgid[s] /\ pgid'[c] = pgid[c]
    \/ call[s].pid = -1 \/ call[s].pid > 0
\* The step gives the waiter s nothing new to hear of c.
NoNews(s, c) ==
    \/ state'[c] = "UNUSED"
    \/ report'[c] = "none" /\ state'[c] # "ZOMBIE"
    \/ /\ Used(c) /\ pid'[c] = pid[c] /\ ppid'[c] = ppid[c] /\ SameGroups(s, c)
       /\ autoreap[c] => autoreap'[c]
       /\ state'[c] = "ZOMBIE" => state[c] = "ZOMBIE"
       /\ state'[c] = "STOPPED" => state[c] = "STOPPED"
       /\ report'[c] \in {"none", report[c]}
\* Whoever sleeps in waitpid after the step did so before.
SleptBefore == \A s \in Slots : Asleep(s)' => Asleep(s) /\ call'[s] = call[s] /\ pid'[s] = pid[s]
LivesOn == \A c \in Slots : state[c] \notin Dead => state'[c] \notin Dead /\ ppid'[c] = ppid[c]

WaitInv == TableInv /\ NotOwn /\ FreeSilent /\ CallsKnown /\ WaitersHear

\* Without news a report to be had was there before.
LEMMA NoNewsNoReport ==
    ASSUME WaitInv, NEW s \in Slots, NEW c \in Slots, Asleep(s), call'[s] = call[s], pid'[s] = pid[s],
           NoNews(s, c), c \in Reportable(s, call[s])'
    PROVE  /\ c \in Reportable(s, call[s])
           /\ state'[c] = "ZOMBIE" => state[c] = "ZOMBIE"
<1> DEFINE w == call[s]
<1>1. w.nr = "waitpid" /\ w \in KnownCall
  BY DEF WaitInv, CallsKnown, Asleep
<1>2. w.pid \in Int
  <2>1. WaitPids \subseteq Int
    BY ProcAssumption
  <2> QED BY ZenonT(30), <1>1, <2>1 DEF KnownCall
<1>3. /\ state'[c] # "UNUSED" /\ ppid'[c] = pid'[s] /\ ~autoreap'[c]
      /\ \/ w.pid = -1
         \/ w.pid > 0 /\ pid'[c] = w.pid
         \/ w.pid = 0 /\ pgid'[c] = pgid'[s]
         \/ w.pid < -1 /\ pgid'[c] = -w.pid
  BY DEF Reportable, Matching, child_match, Used
<1>4. \/ state'[c] = "ZOMBIE"
      \/ "WUNTRACED" \in w.opts /\ state'[c] = "STOPPED" /\ report'[c] = "stop"
      \/ "WCONTINUED" \in w.opts /\ report'[c] = "cont"
  BY DEF Reportable, StopReport, ContReport
<1> HIDE DEF w
<1>5. /\ Used(c) /\ pid'[c] = pid[c] /\ ppid'[c] = ppid[c] /\ SameGroups(s, c)
      /\ autoreap[c] => autoreap'[c]
      /\ state'[c] = "ZOMBIE" => state[c] = "ZOMBIE"
      /\ state'[c] = "STOPPED" => state[c] = "STOPPED"
      /\ report'[c] \in {"none", report[c]}
  BY <1>3, <1>4 DEF NoNews
<1>6. \/ state[c] = "ZOMBIE"
      \/ "WUNTRACED" \in w.opts /\ state[c] = "STOPPED" /\ report[c] = "stop"
      \/ "WCONTINUED" \in w.opts /\ report[c] = "cont"
  BY <1>4, <1>5
<1>7. \/ w.pid = -1
      \/ w.pid > 0 /\ pid[c] = w.pid
      \/ w.pid = 0 /\ pgid[c] = pgid[s]
      \/ w.pid < -1 /\ pgid[c] = -w.pid
  BY <1>2, <1>3, <1>5 DEF SameGroups, w
<1>8. child_match(s, c, w)
  BY <1>3, <1>5, <1>7 DEF child_match
<1> QED BY <1>5, <1>6, <1>8 DEF Reportable, Matching, StopReport, ContReport, w

\* A step that brings no news and ends no process.
LEMMA HearsOn ==
    ASSUME WaitInv, SleptBefore, LivesOn,
           \A s \in Slots, c \in Slots : Asleep(s)' /\ ppid'[c] = pid'[s] => NoNews(s, c)
    PROVE  WaitersHear'
<1>1. ASSUME NEW s \in Slots, Asleep(s)', NEW c \in Reportable(s, call[s])'
      PROVE  pid'[s] = 1 /\ state'[c] # "ZOMBIE"
  <2>1. c \in Slots /\ ppid'[c] = pid'[s]
    BY DEF Reportable, Matching, child_match
  <2>2. Asleep(s) /\ call'[s] = call[s] /\ pid'[s] = pid[s]
    BY <1>1 DEF SleptBefore
  <2>3. c \in Reportable(s, call[s]) /\ (state'[c] = "ZOMBIE" => state[c] = "ZOMBIE")
    BY <1>1, <2>1, <2>2, NoNewsNoReport
  <2> QED BY <2>2, <2>3 DEF WaitInv, WaitersHear, NoMissedChild, Asleep
<1>2. ASSUME NEW s \in Slots, Asleep(s)' PROVE \E c \in Slots : state'[c] \notin Dead /\ ppid'[c] = pid'[s]
  <2>1. Asleep(s) /\ pid'[s] = pid[s]
    BY <1>2 DEF SleptBefore
  <2>2. PICK c \in Slots : state[c] \notin Dead /\ ppid[c] = pid[s]
    BY <2>1 DEF WaitInv, WaitersHear, WaiterHasChild, Asleep
  <2> QED BY <2>1, <2>2 DEF LivesOn
<1> QED BY <1>1, <1>2 DEF WaitersHear, NoMissedChild, WaiterHasChild, Asleep

\* The running process does something that concerns nobody's wait.
LEMMA OwnStep ==
    ASSUME WaitInv, NEW x \in Slots, state[x] = "RUNNING",
           UNCHANGED <<pid, ppid, pgid, autoreap, report>>,
           UNCHANGED state \/ state' = [state EXCEPT ![x] = "RUNNABLE"]
             \/ (state' = [state EXCEPT ![x] = "SLEEPING"] /\ pc'[x] # "wait"),
           \A s \in Slots : s # x => pc'[s] = pc[s] /\ call'[s] = call[s]
    PROVE  WaitersHear'
<1>1. state \in [Slots -> States] /\ report \in [Slots -> {"none", "stop", "cont"}]
  BY DEF WaitInv, TableInv, TypeOK
<1>2. SleptBefore
  BY <1>1 DEF SleptBefore, Asleep
<1>3. LivesOn
  BY <1>1 DEF LivesOn, Dead
<1>4. \A s \in Slots, c \in Slots : NoNews(s, c)
  BY <1>1 DEF NoNews, SameGroups, Used
<1> QED BY <1>2, <1>3, <1>4, HearsOn

\* send_signal wakes the parent of whoever it makes report.
LEMMA SendHears ==
    ASSUME WaitInv, NEW T, NEW g \in Signals, SendTo(T, g), UNCHANGED <<pid, ppid, pgid, autoreap>>,
           \A s \in Slots : state[s] = "SLEEPING" => pc'[s] = pc[s] /\ call'[s] = call[s]
    PROVE  WaitersHear'
<1> DEFINE resumed == {c \in Slots : state[c] = "STOPPED" /\ SIGCONT \in To(T, {g})[c]}
           told == {q \in Slots : \E c \in resumed : pid[q] = ppid[c]}
<1>1. state \in [Slots -> States] /\ report \in [Slots -> {"none", "stop", "cont"}]
  BY DEF WaitInv, TableInv, TypeOK
<1>2. \A s \in Slots : /\ state'[s] = state[s] \/ (state[s] \in {"STOPPED", "SLEEPING"} /\ state'[s] = "RUNNABLE")
                       /\ state[s] = "SLEEPING" /\ s \in told /\ pc[s] = "wait" => state'[s] = "RUNNABLE"
                       /\ s \notin resumed => report'[s] = report[s]
  BY Zenon DEF SendTo, Post, Fill
<1> HIDE DEF resumed
<1>3. SleptBefore
  BY <1>2 DEF SleptBefore, Asleep
<1>4. LivesOn
  BY <1>2 DEF LivesOn, Dead
<1>5. ASSUME NEW s \in Slots, NEW c \in Slots, Asleep(s)', ppid'[c] = pid'[s] PROVE NoNews(s, c)
  <2>1. c \notin resumed
    BY <1>2, <1>3, <1>5 DEF SleptBefore, Asleep
  <2> QED BY <1>1, <1>2, <2>1 DEF NoNews, SameGroups, Used
<1> QED BY <1>3, <1>4, <1>5, HearsOn

\* stop_self wakes the parent.
LEMMA StopHears ==
    ASSUME WaitInv, NEW x \in Slots, state[x] = "RUNNING", DeliverStop(x)
    PROVE  WaitersHear'
<1> DEFINE st == [state EXCEPT ![x] = "STOPPED"]
           rep == [report EXCEPT ![x] = "stop"]
           mail == To(FindPid(ppid[x]), {SIGCHLD})
<1>1. state \in [Slots -> States] /\ report \in [Slots -> {"none", "stop", "cont"}]
  BY DEF WaitInv, TableInv, TypeOK
<1>2. /\ Post(st, Took(x), rep, ppid, mail, FindPid(ppid[x]))
      /\ UNCHANGED <<pid, ppid, pgid, autoreap, pc, call>>
  BY Zenon DEF DeliverStop, ids, ctl
<1>3. {c \in Slots : st[c] = "STOPPED" /\ SIGCONT \in mail[c]} = {}
  BY DEF To, SIGCONT, SIGCHLD
<1>4. \A s \in Slots :
        /\ state'[s] = st[s] \/ (st[s] \in {"STOPPED", "SLEEPING"} /\ state'[s] = "RUNNABLE")
        /\ st[s] = "SLEEPING" /\ s \in FindPid(ppid[x]) /\ pc[s] = "wait" => state'[s] = "RUNNABLE"
        /\ report'[s] = rep[s]
  <2> HIDE DEF st, rep, mail
  <2> QED BY Zenon, <1>2, <1>3 DEF Post, Fill
<1>5. \A s \in Slots : /\ s # x => st[s] = state[s] /\ rep[s] = report[s]
                       /\ s = x => st[s] = "STOPPED"
  BY <1>1
<1> HIDE DEF st, rep
<1>6. SleptBefore
  BY <1>2, <1>4, <1>5 DEF SleptBefore, Asleep
<1>7. LivesOn
  BY <1>2, <1>4, <1>5 DEF LivesOn, Dead
<1>8. ASSUME NEW s \in Slots, NEW c \in Slots, Asleep(s)', ppid'[c] = pid'[s] PROVE NoNews(s, c)
  <2>1. Asleep(s) /\ s # x
    BY <1>4, <1>5, <1>6, <1>8 DEF SleptBefore, Asleep
  <2>2. c # x
    BY <1>2, <1>4, <1>5, <1>8, <2>1 DEF FindPid, Used, Asleep
  <2> QED BY <1>1, <1>2, <1>4, <1>5, <2>2 DEF NoNews, SameGroups, Used
<1> QED BY <1>6, <1>7, <1>8, HearsOn

\* do_exit wakes the parent, and init when it inherits a zombie.
LEMMA ExitHears ==
    ASSUME WaitInv, NEW x \in Slots, state[x] = "RUNNING", pid[x] # 1, ExitProc(x)
    PROVE  WaitersHear'
<1> DEFINE par == ReparentedTo(x, NPROC)
           st == [state EXCEPT ![x] = "ZOMBIE"]
           told == [p \in Slots |-> IF pgid[p] \in Kicked(x)
                                    THEN ReparentedTo(x, Min(KickedAt(x, pgid[p])))[p]
                                    ELSE par[p]]
<1>1. state \in [Slots -> States] /\ report \in [Slots -> {"none", "stop", "cont"}]
  BY DEF WaitInv, TableInv, TypeOK
<1>2. PICK mail : Post(st, [sigpend EXCEPT ![x] = {}], report, told, mail, ExitWakes(x))
  BY Zenon DEF ExitProc
<1>3. /\ UNCHANGED <<pid, pgid>> /\ ppid' = par
      /\ pc' = [pc EXCEPT ![x] = "user"] /\ call' = [call EXCEPT ![x] = NoCall]
      /\ \A c \in Slots : c # x /\ autoreap[c] => autoreap'[c]
  BY ZenonT(30) DEF ExitProc
<1>4. \A c \in Slots : /\ c \in Children(x) => par[c] = 1
                       /\ c \notin Children(x) => par[c] = ppid[c] /\ told[c] = ppid[c]
  <2>1. \A c \in Slots : c <= NPROC
    BY ProcAssumption DEF Slots
  <2> QED BY <2>1 DEF ReparentedTo
<1> DEFINE resumed == {c \in Slots : st[c] = "STOPPED" /\ SIGCONT \in mail[c]}
<1>5. \A s \in Slots :
        /\ state'[s] = st[s] \/ (st[s] \in {"STOPPED", "SLEEPING"} /\ state'[s] = "RUNNABLE")
        /\ st[s] = "SLEEPING" /\ s \in ExitWakes(x) /\ pc[s] = "wait" => state'[s] = "RUNNABLE"
        /\ st[s] = "SLEEPING" /\ pc[s] = "wait" /\ (\E c \in resumed : pid[s] = told[c]) => state'[s] = "RUNNABLE"
        /\ s \notin resumed => report'[s] = report[s]
  <2> HIDE DEF st, told
  <2> QED BY Zenon, <1>2 DEF Post, Fill
<1>6. \A s \in Slots : /\ s # x => st[s] = state[s]
                       /\ s = x => st[s] = "ZOMBIE"
  BY <1>1
<1> HIDE DEF par, st, told, resumed
<1>7. /\ pc \in [Slots -> {"user", "deliver", "wait", "pause"} \cup RpcWaits] /\ call \in [Slots -> Call]
      /\ \A s \in Slots : Used(s) /\ pid[s] = pid[x] => s = x
      /\ x \notin Children(x)
      /\ Used(x)
  BY DEF WaitInv, TableInv, TypeOK, PidsUnique, NotOwn, Children, Used
<1>8. SleptBefore
  BY <1>3, <1>5, <1>6, <1>7 DEF SleptBefore, Asleep
\* A child of a waiter that is not init did not change parents.
<1>9. ASSUME NEW s \in Slots, NEW c \in Slots, Asleep(s)', ppid'[c] = pid'[s]
      PROVE  /\ Asleep(s) /\ s # x /\ c # x
             /\ c \in Children(x) => pid[s] = 1 /\ state[c] # "ZOMBIE"
             /\ c \notin Children(x) => c \notin resumed
  <2>1. Asleep(s) /\ s # x /\ Used(s) /\ pid'[s] = pid[s]
    BY <1>5, <1>6, <1>8, <1>9 DEF SleptBefore, Asleep, Used
  <2>2. s \notin ExitWakes(x) /\ ~(\E y \in resumed : pid[s] = told[y])
    BY <1>5, <1>6, <1>9, <2>1 DEF Asleep
  <2>3. s \notin FindPid(ppid[x])
    BY <2>2 DEF ExitWakes
  <2>4. c # x
    BY <1>3, <1>4, <1>7, <1>9, <2>1, <2>3 DEF FindPid
  <2>5. c \in Children(x) => pid[s] = 1 /\ state[c] # "ZOMBIE"
    BY <1>3, <1>4, <1>9, <2>1, <2>2 DEF ExitWakes, FindPid
  <2>6. c \notin Children(x) => c \notin resumed
    BY <1>3, <1>4, <1>9, <2>1, <2>2
  <2> QED BY <2>1, <2>4, <2>5, <2>6
<1>10. ASSUME NEW s \in Slots, Asleep(s)', NEW c \in Reportable(s, call[s])'
       PROVE  pid'[s] = 1 /\ state'[c] # "ZOMBIE"
  <2>1. c \in Slots /\ ppid'[c] = pid'[s] /\ state'[c] # "UNUSED"
    BY DEF Reportable, Matching, child_match, Used
  <2>2. Asleep(s) /\ call'[s] = call[s] /\ pid'[s] = pid[s]
    BY <1>8, <1>10 DEF SleptBefore
  <2>3. CASE c \in Children(x)
    BY <1>5, <1>6, <1>9, <1>10, <2>1, <2>2, <2>3
  <2>4. CASE c \notin Children(x)
    <3>1. NoNews(s, c)
      BY ZenonT(30), <1>1, <1>3, <1>4, <1>5, <1>6, <1>9, <1>10, <2>1, <2>4 DEF NoNews, SameGroups, Used
    <3>2. c \in Reportable(s, call[s]) /\ (state'[c] = "ZOMBIE" => state[c] = "ZOMBIE")
      BY <1>10, <2>1, <2>2, <3>1, NoNewsNoReport
    <3> QED BY <2>2, <3>2 DEF WaitInv, WaitersHear, NoMissedChild, Asleep
  <2> QED BY <2>3, <2>4
<1>11. ASSUME NEW s \in Slots, Asleep(s)' PROVE \E c \in Slots : state'[c] \notin Dead /\ ppid'[c] = pid'[s]
  <2>1. Asleep(s) /\ pid'[s] = pid[s]
    BY <1>8, <1>11 DEF SleptBefore
  <2>2. PICK c \in Slots : state[c] \notin Dead /\ ppid[c] = pid[s]
    BY <2>1 DEF WaitInv, WaitersHear, WaiterHasChild, Asleep
  <2>3. c \notin Children(x)
    BY <1>7, <1>8, <1>11, <2>1, <2>2 DEF Children, Asleep, Used
  <2>4. ppid'[c] = pid'[s]
    BY <1>3, <1>4, <2>1, <2>2, <2>3
  <2>5. c # x
    BY <1>9, <1>11, <2>4
  <2> QED BY ZenonT(30), <1>5, <1>6, <2>2, <2>4, <2>5 DEF Dead
<1> QED BY <1>10, <1>11 DEF WaitersHear, NoMissedChild, WaiterHasChild, Asleep

\* Releasing zombies takes nothing from a waiter but what it cannot hear.
LEMMA ReleaseHears ==
    ASSUME WaitInv, NEW S, Release(S),
           \A s \in Slots : s \in S => state[s] = "ZOMBIE" /\ state'[s] = "UNUSED",
           \A s \in Slots : s \notin S => state'[s] = state[s] \/ (state[s] = "RUNNABLE" /\ state'[s] = "RUNNING"),
           \A s \in Slots : report'[s] \in {"none", report[s]},
           \A s \in Slots : state[s] = "SLEEPING" => pc'[s] = pc[s] /\ call'[s] = call[s]
    PROVE  WaitersHear'
<1>1. \A s \in Slots : s \notin S => /\ pid'[s] = pid[s] /\ ppid'[s] = ppid[s] /\ pgid'[s] = pgid[s]
                                     /\ autoreap'[s] = autoreap[s]
  BY DEF Release, Fill
<1>2. SleptBefore
  BY <1>1 DEF SleptBefore, Asleep
<1>3. LivesOn
  BY <1>1 DEF LivesOn, Dead
<1>4. ASSUME NEW s \in Slots, NEW c \in Slots, Asleep(s)' PROVE NoNews(s, c)
  <2>1. s \notin S
    BY <1>4 DEF Asleep
  <2>2. CASE c \in S
    BY <2>2 DEF NoNews
  <2>3. CASE c \notin S
    BY <1>1, <2>1, <2>3 DEF NoNews, SameGroups, Used
  <2> QED BY <2>2, <2>3
<1> QED BY <1>2, <1>3, <1>4, HearsOn

\* Every step leaves the processes asleep in waitpid with something to come and
\* nothing missed.
LEMMA WaitStep ==
    ASSUME GroupsSettled
    PROVE  WaitInv /\ [Next]_vars => WaitersHear'
<1> SUFFICES ASSUME WaitInv, [Next]_vars PROVE WaitersHear'
  OBVIOUS
<1> USE DEF ids, acts, ctl, tty
<1>1. TypeOK /\ TableInv
  BY DEF WaitInv, TableInv
<1>2. /\ state \in [Slots -> States] /\ report \in [Slots -> {"none", "stop", "cont"}]
      /\ pc \in [Slots -> {"user", "deliver", "wait", "pause"} \cup RpcWaits] /\ call \in [Slots -> Call]
      /\ KillSigs \subseteq Signals /\ TtySigs \subseteq Signals
      /\ pgid \in [Slots -> 0..PidLimit - 1]
  BY <1>1, ProcAssumption DEF TypeOK
<1>3. \A s \in Slots : cur = s => state[s] = "RUNNING"
  BY <1>1, ProcAssumption DEF TableInv, CurRuns, Slots
<1>4. ASSUME NEW x \in Slots, Return(x) \/ ReturnEINTR(x)
      PROVE  \A s \in Slots : s # x => pc'[s] = pc[s] /\ call'[s] = call[s]
  BY <1>2, <1>4 DEF Return, ReturnEINTR
<1>5. ASSUME NEW x \in Slots, cur = x, Return(x) \/ ReturnEINTR(x), UNCHANGED state,
             UNCHANGED <<pid, ppid, pgid, autoreap, report>>
      PROVE  WaitersHear'
  BY <1>3, <1>4, <1>5, OwnStep
<1>6. ASSUME NEW x \in Slots, Schedule(x) PROVE WaitersHear'
  <2>1. /\ Release(Reapable) /\ UNCHANGED <<pc, call>> /\ report' = Fill(Reapable, report, "none")
        /\ \A s \in Slots : s \in Reapable => state[s] = "ZOMBIE" /\ state'[s] = "UNUSED"
        /\ \A s \in Slots : s \notin Reapable =>
             state'[s] = state[s] \/ (state[s] = "RUNNABLE" /\ state'[s] = "RUNNING")
    BY <1>2, <1>6 DEF Schedule, Reapable, Fill
  <2> QED BY <2>1, ReleaseHears DEF Fill
<1>7. CASE Idle
  <2>1. /\ Release(Reapable) /\ UNCHANGED <<pc, call>> /\ report' = Fill(Reapable, report, "none")
        /\ \A s \in Slots : s \in Reapable => state[s] = "ZOMBIE" /\ state'[s] = "UNUSED"
        /\ \A s \in Slots : s \notin Reapable => state'[s] = state[s]
    BY <1>2, <1>7 DEF Idle, Reapable, Fill
  <2> QED BY <2>1, ReleaseHears DEF Fill
<1>8. ASSUME NEW x \in Slots, WaitReap(x) PROVE WaitersHear'
  <2> DEFINE c == Min(Reportable(x, call[x]))
  <2>1. \A s \in Slots : state[s] = "SLEEPING" => pc'[s] = pc[s] /\ call'[s] = call[s]
    BY <1>3, <1>4, <1>8 DEF WaitReap
  <2>2. CASE state[c] = "ZOMBIE"
    <3>1. Release({c}) /\ state' = [state EXCEPT ![c] = "UNUSED"] /\ report' = [report EXCEPT ![c] = "none"]
      BY ZenonT(30), <1>8, <2>2 DEF WaitReap
    <3> HIDE DEF c
    <3>2. /\ \A s \in Slots : s \in {c} => state[s] = "ZOMBIE" /\ state'[s] = "UNUSED"
          /\ \A s \in Slots : s \notin {c} => state'[s] = state[s]
          /\ \A s \in Slots : report'[s] \in {"none", report[s]}
      BY <1>2, <2>2, <3>1
    <3> QED BY <2>1, <3>1, <3>2, ReleaseHears
  <2>3. CASE state[c] # "ZOMBIE"
    <3>1. UNCHANGED <<state, pid, ppid, pgid, autoreap>> /\ report' = [report EXCEPT ![c] = "none"]
      BY ZenonT(30), <1>8, <2>3 DEF WaitReap
    <3> HIDE DEF c
    <3>2. \A s \in Slots : report'[s] \in {"none", report[s]}
      BY <1>2, <3>1
    <3>3. SleptBefore /\ LivesOn
      BY <2>1, <3>1 DEF SleptBefore, Asleep, LivesOn
    <3>4. \A s \in Slots, k \in Slots : NoNews(s, k)
      BY <3>1, <3>2 DEF NoNews, SameGroups, Used
    <3> QED BY <3>3, <3>4, HearsOn
  <2> QED BY <2>2, <2>3
<1>9. ASSUME NEW x \in Slots, Fork(x, TRUE) \/ Fork(x, FALSE) PROVE WaitersHear'
  <2> DEFINE k == Min(Free)
  <2>1. k \in Slots /\ state[k] = "UNUSED" /\ report[k] = "none"
    BY <1>9, FreeSlot DEF Fork, WaitInv, FreeSilent
  <2>2. /\ state' = [state EXCEPT ![k] = "RUNNABLE"]
        /\ pc' = [pc EXCEPT ![x] = "deliver", ![k] = "user"]
        /\ UNCHANGED <<report, autoreap, call>>
    BY <1>9 DEF Fork
  <2>3. \A c \in Slots : c # k => pid'[c] = pid[c] /\ ppid'[c] = ppid[c] /\ pgid'[c] = pgid[c]
    BY <1>1, <1>9, <2>1 DEF Fork, TypeOK
  <2>4. state[x] = "RUNNING"
    BY <1>3, <1>9 DEF Fork, InUser
  <2> HIDE DEF k
  <2>5. SleptBefore
    BY <1>2, <2>1, <2>2, <2>3, <2>4 DEF SleptBefore, Asleep
  <2>6. LivesOn
    BY <1>2, <2>1, <2>2, <2>3 DEF LivesOn, Dead
  <2>7. ASSUME NEW s \in Slots, NEW c \in Slots, Asleep(s)' PROVE NoNews(s, c)
    <3>1. s # k
      BY <1>2, <2>1, <2>2, <2>7 DEF Asleep
    <3>2. CASE c = k
      BY <1>2, <2>1, <2>2, <3>2 DEF NoNews
    <3>3. CASE c # k
      <4>1. state'[c] = state[c]
        BY <1>2, <2>1, <2>2, <3>3
      <4> QED BY <2>2, <2>3, <3>1, <3>3, <4>1 DEF NoNews, SameGroups, Used
    <3> QED BY <3>2, <3>3
  <2> QED BY <2>5, <2>6, <2>7, HearsOn
<1>10. ASSUME NEW x \in Slots, WaitNone(x) PROVE WaitersHear'
  <2>1. CASE Return(x) \/ ReturnEINTR(x)
    <3>1. UNCHANGED <<state, pid, ppid, pgid, autoreap, report>> /\ cur = x
      <4>1. state[x] # "SLEEPING" /\ pc[x] = "wait" /\ cur = x
        BY <1>3, <1>10 DEF WaitNone
      <4>2. pc'[x] = "deliver"
        BY <1>2, <2>1 DEF Return, ReturnEINTR
      <4> QED BY <1>10, <4>1, <4>2 DEF WaitNone
    <3> QED BY <1>5, <2>1, <3>1
  <2>2. CASE ~(Return(x) \/ ReturnEINTR(x))
    <3>1. /\ state' = [state EXCEPT ![x] = "SLEEPING"]
          /\ UNCHANGED <<pid, ppid, pgid, autoreap, report, pc, call>>
          /\ Reportable(x, call[x]) = {} /\ Matching(x, call[x]) # {}
      BY <1>10, <2>2 DEF WaitNone
    <3>2. \A c \in Slots : /\ c # x => state'[c] = state[c]
                           /\ c = x => state[c] = "RUNNING" /\ state'[c] = "SLEEPING"
      BY <1>2, <1>3, <1>10, <3>1 DEF WaitNone
    <3>3. \A s \in Slots : Reportable(s, call[s])' = Reportable(s, call[s])
      <4>1. \A c \in Slots : /\ Used(c)' <=> Used(c)
                             /\ state'[c] = "ZOMBIE" <=> state[c] = "ZOMBIE"
                             /\ state'[c] = "STOPPED" <=> state[c] = "STOPPED"
        BY <3>2 DEF Used
      <4>2. \A s, c \in Slots : child_match(s, c, call[s])' <=> child_match(s, c, call[s])
        BY <3>1, <4>1, Zenon DEF child_match
      <4>3. \A s \in Slots : Matching(s, call[s])' = Matching(s, call[s])
        BY <4>2, Zenon DEF Matching
      <4>4. \A s, c \in Slots : /\ StopReport(c, call[s])' <=> StopReport(c, call[s])
                                /\ ContReport(c, call[s])' <=> ContReport(c, call[s])
        BY <3>1, <4>1, Zenon DEF StopReport, ContReport
      <4>5. \A s \in Slots : \A c \in Matching(s, call[s]) : c \in Slots
        BY DEF Matching
      <4> QED BY <4>1, <4>3, <4>4, <4>5, Zenon DEF Reportable
    <3>4. ASSUME NEW s \in Slots, Asleep(s)', NEW c \in Reportable(s, call[s])'
          PROVE  pid'[s] = 1 /\ state'[c] # "ZOMBIE"
      <4>1. c \in Reportable(s, call[s]) /\ c \in Slots
        BY <3>3, <3>4 DEF Reportable, Matching
      <4>2. s # x
        BY <3>1, <4>1
      <4>3. pid[s] = 1 /\ state[c] # "ZOMBIE"
        BY <3>1, <3>2, <3>4, <4>1, <4>2 DEF WaitInv, WaitersHear, NoMissedChild, Asleep
      <4> QED BY <3>1, <3>2, <4>1, <4>3
    <3>5. ASSUME NEW s \in Slots, Asleep(s)'
          PROVE  \E c \in Slots : state'[c] \notin Dead /\ ppid'[c] = pid'[s]
      <4>1. \A c \in Slots : state[c] \notin Dead => state'[c] \notin Dead
        BY <3>2 DEF Dead
      <4>2. CASE s = x
        <5>1. PICK c \in Matching(x, call[x]) : TRUE
          BY <3>1
        <5>2. c \in Slots /\ ppid[c] = pid[x] /\ Used(c) /\ state[c] # "ZOMBIE"
          BY <3>1, <5>1 DEF Reportable, Matching, child_match
        <5> QED BY <3>1, <4>1, <4>2, <5>2 DEF Used, Dead
      <4>3. CASE s # x
        <5>1. PICK c \in Slots : state[c] \notin Dead /\ ppid[c] = pid[s]
          BY <3>1, <3>2, <3>5, <4>3 DEF WaitInv, WaitersHear, WaiterHasChild, Asleep
        <5> QED BY <3>1, <4>1, <5>1
      <4> QED BY <4>2, <4>3
    <3> QED BY <3>4, <3>5 DEF WaitersHear, NoMissedChild, WaiterHasChild, Asleep
  <2> QED BY <2>1, <2>2
<1>11. ASSUME NEW x \in Slots, cur = x, {"setpgid", "setsid"} \cap Calls # {}, Return(x),
              UNCHANGED <<state, pid, ppid, autoreap, report>>
       PROVE  WaitersHear'
  <2>1. \A n \in WaitPids : n = -1 \/ n > 0
    BY <1>11 DEF GroupsSettled
  <2>2. SleptBefore /\ LivesOn
    BY <1>3, <1>4, <1>11 DEF SleptBefore, Asleep, LivesOn
  <2>3. ASSUME NEW s \in Slots, NEW c \in Slots, Asleep(s)' PROVE NoNews(s, c)
    <3>1. call[s] \in KnownCall /\ call[s].nr = "waitpid"
      BY <2>2, <2>3 DEF SleptBefore, Asleep, WaitInv, CallsKnown
    <3>2. call[s].pid = -1 \/ call[s].pid > 0
      BY <2>1, <3>1 DEF KnownCall
    <3> QED BY <1>11, <3>2 DEF NoNews, SameGroups, Used
  <2> QED BY <2>2, <2>3, HearsOn
<1>12. ASSUME NEW x \in Slots, NEW g \in {SIGTTIN, SIGTTOU} \cap Signals, TtyAccess(x, g)
       PROVE  WaitersHear'
  <2>1. /\ cur = x /\ UNCHANGED <<pid, ppid, pgid, autoreap>>
        /\ SendTo(Group(pgid[x]), g) \/ UNCHANGED <<state, report>>
    BY <1>12 DEF TtyAccess, InUser
  <2>2. \A s \in Slots : s # x => pc'[s] = pc[s] /\ call'[s] = call[s]
    BY <1>2, <1>12 DEF TtyAccess
  <2>3. \A s \in Slots : state[s] = "SLEEPING" => pc'[s] = pc[s] /\ call'[s] = call[s]
    BY <1>3, <2>1, <2>2
  <2>4. CASE SendTo(Group(pgid[x]), g)
    BY <2>1, <2>3, <2>4, SendHears
  <2>5. CASE UNCHANGED <<state, report>>
    BY <1>3, <2>1, <2>2, <2>5, OwnStep
  <2> QED BY <2>1, <2>4, <2>5
<1>13. ASSUME NEW x \in Slots, NEW T \in KillTargets(x), NEW g \in KillSigs, Kill(x, T, g)
       PROVE  WaitersHear'
  <2>1. \A s \in Slots : state[s] = "SLEEPING" => pc'[s] = pc[s] /\ call'[s] = call[s]
    BY <1>3, <1>4, <1>13 DEF Kill, InUser
  <2> QED BY <1>2, <1>13, <2>1, SendHears DEF Kill
<1>14. ASSUME NEW g \in TtySigs, TtyInput(g) PROVE WaitersHear'
  <2>1. \A s \in Slots : state[s] = "SLEEPING" => pc'[s] = pc[s] /\ call'[s] = call[s]
    BY <1>2, <1>3, <1>14 DEF TtyInput
  <2> QED BY <1>2, <1>14, <2>1, SendHears DEF TtyInput
<1>15. ASSUME NEW x \in Slots, cur = x, UNCHANGED <<state, pid, ppid, pgid, autoreap, report>>,
              \A s \in Slots : s # x => pc'[s] = pc[s] /\ call'[s] = call[s]
       PROVE  WaitersHear'
  BY <1>3, <1>15, OwnStep
<1>16. ASSUME NEW x \in Slots, Syscall(x) PROVE WaitersHear'
  <2>1. CASE \E nowait \in BOOLEAN : Fork(x, nowait)
    BY ZenonT(30), <1>9, <2>1
  <2>2. CASE Exec(x)
    BY <1>5, <2>2 DEF Exec, InUser
  <2>3. CASE Exit(x)
    BY <1>3, <2>3, ExitHears DEF Exit, InUser
  <2>4. CASE \E n \in WaitPids, opts \in WaitOpts : Waitpid(x, n, opts)
    BY <1>2, <1>15, <2>4 DEF Waitpid, InUser
  <2>5. CASE Pause(x)
    BY <1>2, <1>15, <2>5 DEF Pause, InUser
  <2>5r. CASE Rpc(x)
    BY <1>2, <1>15, <2>5r DEF Rpc, InUser
  <2>5s. ASSUME NEW t \in Slots, Serve(x, t) PROVE WaitersHear'
    <3>1. /\ cur = x /\ state[t] = "SLEEPING" /\ state' = [state EXCEPT ![t] = "RUNNABLE"] /\ Return(x)
          /\ UNCHANGED <<pid, ppid, pgid, autoreap, report>>
      BY <2>5s DEF Serve, InUser
    <3>2. SleptBefore /\ LivesOn
      BY <1>2, <1>3, <1>4, <3>1 DEF SleptBefore, LivesOn, Asleep, Dead
    <3>3. \A s \in Slots, c \in Slots : NoNews(s, c)
      BY <1>2, <3>1 DEF NoNews, SameGroups, Used
    <3> QED BY <3>2, <3>3, HearsOn
  <2>6. CASE \E g \in ActSigs, h \in Actions : sigaction(x, g, h)
    BY <1>5, <2>6 DEF sigaction, InUser
  <2>7. CASE \E set \in SUBSET MaskSigs : sigprocmask(x, set)
    BY <1>5, <2>7 DEF sigprocmask, InUser
  <2>8. CASE sigreturn(x)
    BY <1>2, <1>15, <2>8 DEF sigreturn
  <2>9. CASE \E p \in Slots, g \in Pids : setpgid(x, p, g)
    BY <1>11, <2>9 DEF setpgid, InUser
  <2>10. CASE setsid(x)
    BY <1>11, <2>10 DEF setsid, InUser
  <2>11. CASE \E steal \in BOOLEAN : TiocsCtty(x, steal)
    BY <1>5, <2>11 DEF TiocsCtty, InUser
  <2>12. CASE \E g \in Pids : TiocsPgrp(x, g)
    BY <1>5, <2>12 DEF TiocsPgrp, InUser
  <2> QED BY <1>12, <1>13, <1>16, <2>1, <2>2, <2>3, <2>4, <2>5, <2>5r, <2>5s, <2>6, <2>7, <2>8, <2>9, <2>10,
             <2>11, <2>12
          DEF Syscall
<1>17. ASSUME NEW x \in Slots, PauseLoop(x) PROVE WaitersHear'
  <2>1. CASE ReturnEINTR(x) /\ UNCHANGED <<state, cur>>
    BY <1>5, <1>17, <2>1 DEF PauseLoop
  <2>2. CASE ~(ReturnEINTR(x) /\ UNCHANGED <<state, cur>>)
    <3>1. /\ state' = [state EXCEPT ![x] = "SLEEPING"] /\ pc'[x] # "wait" /\ cur = x
          /\ UNCHANGED <<pid, ppid, pgid, autoreap, report, pc, call>>
      BY <1>17, <2>2 DEF PauseLoop
    <3> QED BY ZenonT(30), <1>3, <3>1, OwnStep
  <2> QED BY <2>1, <2>2
<1>17r. ASSUME NEW x \in Slots, RpcLoop(x) PROVE WaitersHear'
  <2>0. /\ cur = x /\ pc[x] \in RpcWaits /\ state[x] = "RUNNING"
        /\ UNCHANGED <<pid, ppid, pgid, autoreap, report>>
    BY <1>3, <1>17r DEF RpcLoop
  <2>1. CASE (Return(x) \/ ReturnEINTR(x)) /\ UNCHANGED <<state, cur>>
    BY <1>5, <2>0, <2>1
  <2>2. CASE \E to \in RpcWaits : pc' = [pc EXCEPT ![x] = to] /\ UNCHANGED <<call, eintr, redo, state, cur>>
    <3>1. \A s \in Slots : s # x => pc'[s] = pc[s] /\ call'[s] = call[s]
      BY <1>2, <2>2
    <3> QED BY <1>15, <2>0, <2>2, <3>1
  <2>3. CASE state' = [state EXCEPT ![x] = "SLEEPING"] /\ cur' = 0 /\ UNCHANGED ctl
    <3>1. pc'[x] # "wait" /\ UNCHANGED <<pc, call>>
      BY <2>0, <2>3 DEF RpcWaits
    <3> QED BY ZenonT(30), <2>0, <2>3, <3>1, OwnStep
  <2> QED BY <1>17r, <2>1, <2>2, <2>3, RpcCases
<1>18. ASSUME NEW x \in Slots, DeliverNothing(x) \/ DeliverCaught(x) \/ DeliverDone(x) PROVE WaitersHear'
  <2>1. /\ cur = x /\ UNCHANGED <<state, pid, ppid, pgid, autoreap, report>>
        /\ \A s \in Slots : s # x => pc'[s] = pc[s] /\ call'[s] = call[s]
    BY ZenonT(30), <1>2, <1>18 DEF DeliverNothing, DeliverCaught, DeliverDone, InDeliver
  <2> QED BY <1>15, <2>1
<1>19. ASSUME NEW x \in Slots, DeliverStop(x) PROVE WaitersHear'
  BY ZenonT(30), <1>3, <1>19, StopHears DEF DeliverStop, InDeliver
<1>20. ASSUME NEW x \in Slots, DeliverExit(x) PROVE WaitersHear'
  BY ZenonT(30), <1>3, <1>20, ExitHears DEF DeliverExit, InDeliver
<1>21. ASSUME NEW x \in Slots, Redo(x) PROVE WaitersHear'
  BY <1>2, <1>15, <1>21 DEF Redo
<1>22. ASSUME NEW x \in Slots, Tick(x) PROVE WaitersHear'
  <2>1. /\ cur = x /\ UNCHANGED <<pid, ppid, pgid, autoreap, report>>
        /\ state' = [state EXCEPT ![x] = "RUNNABLE"]
        /\ \A s \in Slots : s # x => pc'[s] = pc[s] /\ call'[s] = call[s]
    BY <1>2, <1>22 DEF Tick
  <2> QED BY ZenonT(30), <1>3, <2>1, OwnStep
<1>23. CASE UNCHANGED vars
  <2>1. UNCHANGED <<state, pid, ppid, pgid, autoreap, report, pc, call>>
    BY <1>23 DEF vars
  <2>2. SleptBefore /\ LivesOn
    BY <2>1 DEF SleptBefore, LivesOn, Asleep
  <2>3. \A s \in Slots, c \in Slots : NoNews(s, c)
    BY <2>1 DEF NoNews, SameGroups, Used
  <2> QED BY <2>2, <2>3, HearsOn
<1> QED BY <1>6, <1>7, <1>8, <1>10, <1>14, <1>16, <1>17, <1>17r, <1>18, <1>19, <1>20, <1>21, <1>22, <1>23
        DEF Next, Kernel

\* A process asleep in waitpid is never forgotten: it has a child that has not
\* ended, and every end, stop or continue of a child that its arguments ask for
\* has woken it, in every order of exits, reparenting, signals and number reuse
\* (do_waitpid, do_exit, stop_self, send_signal).
THEOREM WaitersAlwaysHear ==
    ASSUME GroupsSettled
    PROVE  Spec => []WaitersHear
<1>1. Init => NotOwn /\ FreeSilent /\ CallsKnown /\ WaitersHear
  <2> SUFFICES ASSUME Init PROVE NotOwn /\ FreeSilent /\ CallsKnown /\ WaitersHear
    OBVIOUS
  <2>1. NotOwn /\ FreeSilent
    BY DEF Init, NotOwn, FreeSilent, Used
  <2>2. CallsKnown
    BY DEF Init, CallsKnown, KnownCall, KnownFrame, Call, NoCall
  <2>3. WaitersHear
    BY DEF Init, WaitersHear, NoMissedChild, WaiterHasChild
  <2> QED BY <2>1, <2>2, <2>3
<1>2. TableInv /\ NotOwn /\ FreeSilent /\ CallsKnown /\ WaitersHear <=> WaitInv
  BY DEF WaitInv
<1>3. WaitInv /\ [Next]_vars => NotOwn' /\ FreeSilent' /\ CallsKnown'
  BY QuietStep, CallsStep DEF WaitInv, TableInv
<1>4. WaitInv /\ [Next]_vars => WaitersHear'
  BY WaitStep
<1> QED BY <1>1, <1>2, <1>3, <1>4, TableInOrder, PTL DEF Spec
=============================================================================
