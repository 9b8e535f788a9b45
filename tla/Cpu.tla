--------------------------------- MODULE Cpu ---------------------------------
(***************************************************************************)
(* Traps and switches: how the processor enters the supervisor and leaves  *)
(* it (src/cpu.c), the assembly that saves and restores a context          *)
(* (os/kernel/entry.s), the trap dispatcher (os/kernel/trap.c) and the     *)
(* scheduler with its idle loop (os/kernel/proc.c), on the stacks they use.*)
(*                                                                         *)
(* Stack 0 is the boot stack, stack p the kernel stack of process p; each  *)
(* is the sequence of the words below the stack pointer.  R0 stands for    *)
(* the registers a C function may change, R4 for those swtch keeps.  The   *)
(* body of the kernel's C functions is a choice of what they may do.       *)
(***************************************************************************)
EXTENDS Integers, Sequences, FiniteSets

CONSTANTS Slots, Lines, Values, Context

(* cp: the processor.  slots: state, saved stack pointer and the context   *)
(* the program of the slot must find in user mode.  lost: delivery cannot  *)
(* reach the supervisor's stack or vectors (a broken system).              *)
VARIABLES cp, stk, slots, cur, pend, lost

SYSCALL == 48
IRQ(n) == 32 + n
FAULT == 14
User0 == [r0 |-> 0, r4 |-> 0, fl |-> 0, pc |-> 0, sp |-> 0]
Kernel(p) == <<"kernel", p>>
User(k) == <<"user", k>>

(* What alloc_proc leaves on a new kernel stack under swtch's registers    *)
NewStack(ctx) == <<User(ctx.sp), <<ctx.fl, TRUE, TRUE>>, User(ctx.pc), ctx.r0, ctx.r4, <<"forkret">>, 0>>

PInit ==
    /\ cp = [user |-> FALSE, ie |-> FALSE, r0 |-> 0, r4 |-> Kernel(0), fl |-> 0, pc |-> <<"scheduler">>,
             s |-> 0, usp |-> 0, ksp |-> 0, pt |-> 0, cause |-> 0, halted |-> FALSE]
    /\ slots = [p \in Slots |-> IF p = 1 THEN [st |-> "runnable", ctx |-> User0] ELSE [st |-> "unused", ctx |-> User0]]
    /\ stk = [p \in Slots \cup {0} |-> IF p = 1 THEN NewStack(User0) ELSE <<>>]
    /\ cur = 0 /\ pend = {} /\ lost \in BOOLEAN

(***************************************************************************)
(* The processor                                                           *)
(***************************************************************************)
cpu_get_flags == <<cp.fl, cp.ie, cp.user>>

closed == FALSE

enter_stack == IF cp.user THEN cp.ksp ELSE cp.s

(* From user mode the stack starts again at KSP with the program's pointer *)
enter(vec, savepc) ==
    LET s    == enter_stack
        base == IF cp.user THEN <<User(cp.usp)>> ELSE stk[s]
    IN  /\ stk' = [stk EXCEPT ![s] = base \o <<cpu_get_flags, savepc>>]
        /\ cp' = [cp EXCEPT !.s = s, !.user = FALSE, !.ie = closed, !.pc = <<"alltraps">>, !.cause = vec]

(* A delivery that faults becomes a double fault, and that one a stop      *)
Deliver(vec, savepc) ==
    \/ ~lost /\ enter(vec, savepc)
    \/ lost /\ cp' = [cp EXCEPT !.halted = TRUE] /\ stk' = stk

(* Pending lines are looked at before every instruction                    *)
irq_wanted == cp.ie /\ pend # {}
Lowest == CHOOSE n \in pend : \A m \in pend : n <= m

(* pc, flags and, for user mode, the stack pointer come off the stack      *)
ext_iret(s, c) ==
    LET k  == Len(s)
        fl == s[k - 1]
    IN  [stack |-> SubSeq(s, 1, k - IF fl[3] THEN 3 ELSE 2),
         cp |-> [c EXCEPT !.pc = s[k], !.fl = fl[1], !.ie = fl[2], !.user = fl[3],
                          !.usp = IF fl[3] THEN s[k - 2][2] ELSE @]]

Instr == ~cp.halted /\ ~irq_wanted
At(label) == Instr /\ ~cp.user /\ cp.pc = label
Running == slots[cur]

step_irq == /\ ~cp.halted /\ irq_wanted
            /\ Deliver(IRQ(Lowest), cp.pc) /\ UNCHANGED <<slots, cur, pend, lost>>

(***************************************************************************)
(* The program in user mode: its context is also what it must find again   *)
(***************************************************************************)
UserStep == \E c \in Context :
    /\ Instr /\ cp.user
    /\ cp' = [cp EXCEPT !.r0 = c.r0, !.r4 = c.r4, !.fl = c.fl, !.pc = User(c.pc), !.usp = c.sp]
    /\ slots' = [slots EXCEPT ![cur].ctx = c]
    /\ UNCHANGED <<stk, cur, pend, lost>>

after(pc) == User((pc[2] + 1) % 2)

UserSyscall == /\ Instr /\ cp.user
               /\ Deliver(SYSCALL, after(cp.pc))
               /\ slots' = IF lost THEN slots ELSE [slots EXCEPT ![cur].ctx.pc = (cp.pc[2] + 1) % 2]
               /\ UNCHANGED <<cur, pend, lost>>

(* A fault, also for a privileged instruction, saves the instruction's     *)
UserFault == Instr /\ cp.user /\ Deliver(FAULT, cp.pc) /\ UNCHANGED <<slots, cur, pend, lost>>

Raise == \E n \in Lines \ pend : pend' = pend \cup {n} /\ ~cp.halted /\ UNCHANGED <<cp, stk, slots, cur, lost>>

(***************************************************************************)
(* Entry and exit of the kernel; in between C code has used the registers  *)
(***************************************************************************)
alltraps == /\ At(<<"alltraps">>)
            /\ stk' = [stk EXCEPT ![cp.s] = @ \o <<cp.r0, cp.r4>>]
            /\ cp' = [cp EXCEPT !.pc = <<"trap", cp.cause>>, !.r0 = 0, !.r4 = Kernel(IF cur = 0 THEN -1 ELSE cur)]
            /\ UNCHANGED <<slots, cur, pend, lost>>

popped(s) == <<s[Len(s) - 1], s[Len(s)]>>

trapret ==
    /\ At(<<"trapret">>) \/ At(<<"forkret">>)
    /\ LET s == stk[cp.s]
           x == ext_iret(SubSeq(s, 1, Len(s) - 2), [cp EXCEPT !.r0 = popped(s)[1], !.r4 = popped(s)[2]])
       IN  cp' = x.cp /\ stk' = [stk EXCEPT ![cp.s] = x.stack]
    /\ UNCHANGED <<slots, cur, pend, lost>>

(***************************************************************************)
(* swtch(from, to): a return address and R4 under each stack pointer       *)
(***************************************************************************)
saved_r4(s) == s[Len(s)]

swtch(from, ret, to, c) ==
    LET s == stk[to]
    IN  /\ stk' = [stk EXCEPT ![from] = @ \o <<ret, c.r4>>, ![to] = SubSeq(s, 1, Len(s) - 2)]
        /\ cp' = [c EXCEPT !.s = to, !.pc = s[Len(s) - 1], !.r4 = saved_r4(s)]

(* sched(): the process goes to state st and runs on at ret when resumed   *)
sched(st, ret) == swtch(cur, ret, 0, cp) /\ slots' = [slots EXCEPT ![cur].st = st] /\ UNCHANGED <<cur, pend, lost>>

kernel_table == 0

sched_back == /\ At(<<"back">>)
              /\ cp' = [cp EXCEPT !.pt = kernel_table, !.pc = <<"scheduler">>]
              /\ cur' = 0 /\ UNCHANGED <<stk, slots, pend, lost>>

In(st) == {p \in Slots : slots[p].st = st}

set_ksp(p) == p

(* Zombies nobody waits for are released; then a process or the idle loop  *)
Reaped(z) == [p \in Slots |-> IF p \in z THEN [st |-> "unused", ctx |-> User0] ELSE slots[p]]

scheduler_run == \E z \in SUBSET In("zombie"), p \in In("runnable") :
    /\ At(<<"scheduler">>)
    /\ slots' = [Reaped(z) EXCEPT ![p].st = "running"]
    /\ cur' = p
    /\ swtch(0, <<"back">>, p, [cp EXCEPT !.ksp = set_ksp(p), !.pt = p])
    /\ UNCHANGED <<pend, lost>>

scheduler_idle == \E z \in SUBSET In("zombie") :
    /\ At(<<"scheduler">>) /\ In("runnable") = {}
    /\ slots' = Reaped(z) /\ cp' = [cp EXCEPT !.pc = <<"idle", 1>>]
    /\ UNCHANGED <<stk, cur, pend, lost>>

(* Slip: interrupts are let in before the wait                             *)
stiFirst == <<"sti", "wfi", "nop", "cli">>

cpu_idle == <<"wfi", "sti", "nop", "cli">>

idle_step == \E i \in 1 .. 4 :
    /\ At(<<"idle", i>>)
    /\ cpu_idle[i] = "wfi" => pend # {}
    /\ cp' = [cp EXCEPT !.pc = IF i < 4 THEN <<"idle", i + 1>> ELSE <<"scheduler">>,
                        !.ie = (cpu_idle[i] = "sti") \/ (@ /\ cpu_idle[i] # "cli")]
    /\ UNCHANGED <<stk, slots, cur, pend, lost>>

(***************************************************************************)
(* trap(): the whole dispatcher, with the sleeps of a call in between      *)
(***************************************************************************)
FromUser == stk[cp.s][Len(stk[cp.s]) - 3][3]
Woken(w) == [p \in Slots |-> IF p \in w THEN [slots[p] EXCEPT !.st = "runnable"] ELSE slots[p]]

(* Acknowledge, wake whom the device or the timers free; a tick may yield  *)
trap_irq == \E n \in Lines, w \in SUBSET In("sleeping") :
    /\ At(<<"trap", IRQ(n)>>)
    /\ pend' = pend \ {n}
    /\ \/ slots' = Woken(w) /\ cp' = [cp EXCEPT !.pc = <<"trapret">>] /\ stk' = stk
       \/ /\ n = 0 /\ FromUser
          /\ slots' = [Woken(w) EXCEPT ![cur].st = "runnable"]
          /\ swtch(cur, <<"trapret">>, 0, cp)
    /\ UNCHANGED <<cur, lost>>

InCall == At(<<"trap", SYSCALL>>) /\ cur # 0

trap_sleep == InCall /\ sched("sleeping", <<"trap", SYSCALL>>)

trap_wake == \E p \in In("sleeping") : InCall /\ slots' = Woken({p}) /\ UNCHANGED <<cp, stk, cur, pend, lost>>

trap_wait == \E p \in In("zombie") : InCall /\ slots' = Reaped({p}) /\ UNCHANGED <<cp, stk, cur, pend, lost>>

(* The child's frame is the parent's with a zero in R0                     *)
trap_fork == \E p \in In("unused") :
    /\ InCall
    /\ stk' = [stk EXCEPT ![p] = [stk[cur] EXCEPT ![4] = 0] \o <<<<"forkret">>, 0>>]
    /\ slots' = [slots EXCEPT ![p] = [st |-> "runnable", ctx |-> [Running.ctx EXCEPT !.r0 = 0]]]
    /\ UNCHANGED <<cp, cur, pend, lost>>

(* The result goes into the frame's R0                                     *)
trap_result == \E v \in Values :
    /\ InCall
    /\ stk' = [stk EXCEPT ![cur][4] = v]
    /\ slots' = [slots EXCEPT ![cur].ctx.r0 = v]
    /\ cp' = [cp EXCEPT !.pc = <<"trapret">>]
    /\ UNCHANGED <<cur, pend, lost>>

(* The page is brought in and the instruction runs again                   *)
trap_fault == /\ At(<<"trap", FAULT>>)
              /\ cp' = [cp EXCEPT !.pc = <<"trapret">>] /\ UNCHANGED <<stk, slots, cur, pend, lost>>

(* A call or a fault may be the last; process 1 does not end               *)
trap_exit == (InCall \/ At(<<"trap", FAULT>>)) /\ cur > 1 /\ sched("zombie", <<"zombie returned">>)

PNext ==
    \/ step_irq \/ UserStep \/ UserSyscall \/ UserFault \/ Raise
    \/ alltraps \/ trapret \/ sched_back \/ scheduler_run \/ scheduler_idle \/ idle_step
    \/ trap_irq \/ trap_sleep \/ trap_wake \/ trap_wait \/ trap_fork \/ trap_result \/ trap_fault \/ trap_exit

(***************************************************************************)
(* Properties                                                              *)
(***************************************************************************)
(* A program in user mode has the registers, flags, address and stack it   *)
(* left with, changed only by its own instructions and by the result of    *)
(* its call, whatever interrupts, faults, switches and forks came between  *)
(* (alltraps, trapret, enter, ext_iret, do_rfork), and so it has when the  *)
(* machine stops because a fault could not be delivered.                   *)
UserUndisturbed == cp.user =>
    /\ cur # 0 /\ cp.ie
    /\ [r0 |-> cp.r0, r4 |-> cp.r4, fl |-> cp.fl, pc |-> cp.pc[2], sp |-> cp.usp] = Running.ctx

(* In user mode the next entry starts an empty stack of the running        *)
(* process under its page table: entering at KSP overwrites no word that a *)
(* sleeping call still needs (scheduler, enter).                           *)
EntersEmpty == cp.user => cp.ksp = cur /\ cp.pt = cur /\ stk[cur] = <<>>

(* R4 to R7 of kernel code are what they were before it gave the processor *)
(* away or was interrupted in the idle loop (swtch, alltraps).             *)
SwitchKeeps ==
    /\ cp.pc[1] \in {"scheduler", "back", "idle"} => cp.r4 = Kernel(0)
    /\ cp.pc[1] = "trap" /\ cur # 0 => cp.r4 = Kernel(cur)

(* The processor never waits while a process could run: a wakeup between   *)
(* the scan and WFI is not lost (scheduler, cpu_idle).                     *)
WaitsOnlyIdle == cp.pc[1] = "idle" /\ ~cp.user /\ pend = {} /\ cpu_idle[cp.pc[2]] = "wfi" => In("runnable") = {}

(* The stack and the page table in use belong to a slot in use: a process  *)
(* is released only after the processor has left both (reap_autoreap).     *)
InUseNotFreed == cp.pt \notin In("unused") /\ cp.s \notin In("unused")

(* The kernel runs with interrupts closed but for the idle loop, so no     *)
(* stack holds more than one trap frame and one switch frame.              *)
OneFrame == /\ cp.ie => (cp.user \/ cp.pc[1] = "idle")
            /\ \A p \in Slots : Len(stk[p]) <= 7
            /\ Len(stk[0]) <= 4

(* Traps, switches and idling disturb nobody: a program finds what it      *)
(* left, kernel code what swtch must keep, an entry an empty stack; the    *)
(* processor waits only when nobody can run and uses nothing that was      *)
(* freed (entry.s, trap.c, scheduler, cpu_idle).                           *)
SwitchesSound ==
    /\ UserUndisturbed /\ EntersEmpty /\ SwitchKeeps
    /\ WaitsOnlyIdle /\ InUseNotFreed /\ OneFrame
=============================================================================
