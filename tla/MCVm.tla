---------------------------------- MODULE MCVm ----------------------------------
(* Small instances of Vm for TLC.  The programs that run do one of several *)
(* kinds of work, which the initial state chooses.                         *)
EXTENDS Vm

CONSTANT Loads    \* the kinds of work to choose from

VARIABLE load

Writable == {{"w"}}

\* heap: where the heap ends at most; regs: mmap is called with at most as many
\* regions.  In load map munmap cuts the heap behind its first page, in
\* load pieces in two; there mappings have one page.
Work ==
    [cow    |-> [calls |-> {"copyout", "fork", "exec", "exit", "sbrk", "mmap", "munmap"},
                 touch |-> {3}, lens |-> {1}, at |-> {5}, kinds |-> Accesses, heap |-> 4, regs |-> 3],
     share  |-> [calls |-> {"fork", "exec", "exit", "sbrk", "mmap", "munmap", "fixed"},
                 touch |-> {5}, lens |-> {1}, at |-> {5}, kinds |-> {"w"}, heap |-> 5, regs |-> 3],
     map    |-> [calls |-> {"sbrk", "mmap", "munmap", "fixed"},
                 touch |-> {3, 4, 5}, lens |-> 1 .. MaxMap, at |-> {4, 5}, kinds |-> {"w"}, heap |-> 5, regs |-> 6],
     pieces |-> [calls |-> {"sbrk", "mmap", "munmap", "fixed"},
                 touch |-> {3, 5}, lens |-> {1}, at |-> {4, 5}, kinds |-> {"w"}, heap |-> 6, regs |-> 6]]

Does(c) == c \in Work[load].calls

Program(p) ==
    LET w == Work[load]
    IN  \/ \E a \in w.touch, acc \in w.kinds : Access(p, a, acc, 2) \/ Fault(p, a, acc)
        \/ Does("copyout") /\ \E a \in w.touch : UserOk(p, a)
        \/ \E a \in w.touch : CopyOut(p, a, 2)
        \/ Does("fork") /\ \E c \in Procs : Fork(p, c)
        \/ Does("fork") /\ \E a \in w.touch : ForkFails(p, a)
        \/ Does("exec") /\ Exec(p)
        \/ Does("exit") /\ Exit(p)
        \/ Does("sbrk") /\ \E n \in {-1, 1} : Sbrk(p, n) /\ brk'[p] <= w.heap
        \/ Does("munmap") /\ \E a \in w.at, len \in w.lens : Munmap(p, a, len)
        \/ Does("mmap") /\ Len(regions[p]) <= w.regs
             /\ \E len \in w.lens, prot \in Prots, s \in Shares : Mmap(p, len, prot, s)
        \/ Does("fixed") /\ \E a \in w.at, len \in w.lens, prot \in Prots, s \in Shares :
                               MmapFixed(p, a, len, prot, s)

(* The region of a page, where there is one, is shared *)
InShared(p, a) == \E i \in DOMAIN regions[p] : regions[p][i].shared /\ Within(regions[p][i], a)
InAny(p, a)    == \E i \in DOMAIN regions[p] : Within(regions[p][i], a)

(* The page as the process sees it *)
View(p, a) ==
    LET f == pt[p][a].f
    IN  CASE f # None -> IF InShared(p, a) THEN <<"shared", f>> ELSE <<"private", data[f]>>
          [] f = None -> IF InAny(p, a) THEN <<"private", Zero>> ELSE <<"absent">>

Abstract == INSTANCE Memory WITH
    Objects <- Frames, Pages <- USER_BASE .. STACK_TOP - 1,
    page <- [p \in Procs |->
                [a \in USER_BASE .. STACK_TOP - 1 |-> IF state[p] = "live" THEN View(p, a) ELSE <<"absent">>]],
    store <- [f \in Frames |->
                IF \E p \in Procs, a \in USER_BASE .. STACK_TOP - 1 :
                      pt[p][a].f = f /\ state[p] = "live" /\ InShared(p, a)
                THEN data[f] ELSE Zero]

(* Private pages stay private and shared ones shared: with copy on write   *)
(* and counted frames, the memory of the processes behaves as Memory does  *)
(* (fault_in, fork_space, do_mmap, unmap_range, exec_image).               *)
IsMemory == [][Abstract!Next]_(Abstract!vars)

MCInit == Init /\ load \in Loads
MCNext == (\E p \in Procs : Program(p) \/ Switch(p) \/ Reap(p)) /\ UNCHANGED load
MCSpec == MCInit /\ [][MCNext]_<<vars, load>>
================================================================================
