------------------------------- MODULE MCLive --------------------------------
(***************************************************************************)
(* What must happen in the end, of pipes and of processes.  The two do not *)
(* meet here: part says which one a behaviour is of, and the other stays   *)
(* as it is at the start.  The variables of Proc are p1 to p20.            *)
(***************************************************************************)
EXTENDS MCPipe

CONSTANT Parts

VARIABLES part, kind, p1, p2, p3, p4, p5, p6, p7, p8, p9, p10,
          p11, p12, p13, p14, p15, p16, p17, p18, p19, p20

P == INSTANCE MCProc WITH state <- p1, pid <- p2, ppid <- p3, pgid <- p4, sid <- p5, handler <- p6, sigpend <- p7,
         sigmask <- p8, report <- p9, autoreap <- p10, pc <- p11, call <- p12, eintr <- p13, redo <- p14,
         frames <- p15, ctty <- p16, ttySid <- p17, ttyPgrp <- p18, cur <- p19, nextpid <- p20, load <- kind,
         NPROC <- 2, PidLimit <- 4, Signals <- {1, 9, 10, 12, 17, 18, 19, 20},
         Calls <- {"fork", "exit", "waitpid", "pause", "kill", "sigprocmask"}, KillSigs <- {9, 10, 18, 19},
         ActSigs <- {}, Actions <- {"DFL"}, MaskSigs <- {9, 10}, WaitPids <- {-1}, WaitOpts <- {{}}, TtySigs <- {},
         MaxFrames <- 0, Loads <- {"block"}

pvars == <<p1, p2, p3, p4, p5, p6, p7, p8, p9, p10, p11, p12, p13, p14, p15, p16, p17, p18, p19, p20>>

LiveInit == part \in Parts /\ MCInit /\ P!MCInit

LiveNext ==
    /\ UNCHANGED part
    /\ \/ part = "pipe" /\ MCNext /\ UNCHANGED <<pvars, kind>>
       \/ part = "proc" /\ P!MCNext /\ UNCHANGED <<vars, load>>

(* The scheduler takes up every process that stays ready, one that is in   *)
(* the kernel goes on, and the timer of a poll runs out; each part has its *)
(* own behaviours                                                          *)
LiveSpec ==
    /\ LiveInit /\ [][LiveNext]_<<part, vars, load, pvars, kind>>
    /\ \A p \in Procs : /\ WF_vars(part = "pipe" /\ Resume(p)) /\ WF_vars(part = "pipe" /\ Deliver(p))
                        /\ WF_vars(part = "pipe" /\ PollTimeout(p))
    /\ \A s \in P!Slots :
           /\ SF_pvars(part = "proc" /\ P!Schedule(s)) /\ SF_pvars(part = "proc" /\ P!Tick(s))
           /\ WF_pvars(part = "proc" /\ P!Kernel(s)) /\ WF_pvars(part = "proc" /\ P!Redo(s))

(* A process that has been sent KILL ends, wherever it was: stopped,       *)
(* asleep in waitpid or pause, or with signals blocked (proc_signal,       *)
(* deliver_signals, the scheduler).                                        *)
KillEnds == P!KillEnds

(* A process waiting for any child returns once a child has ended: the     *)
(* wakeup of do_exit is not lost (do_waitpid).                             *)
WaitEnds == P!WaitEnds

(* Calls that have what they wait for end: a waitpid with an ended child,  *)
(* a read without writers, a write without readers, a poll whose time is   *)
(* over (do_waitpid, pipe_read, pipe_write, do_poll).                      *)
CallsEnd == WaitEnds /\ ReadEnds /\ WriteEnds /\ PollEnds
=============================================================================
