--------------------------------- MODULE Memory ---------------------------------
(***************************************************************************)
(* What the kernel promises of process memory.  Every process has pages:   *)
(* absent, private with a value of its own, or shared, naming an object    *)
(* whose value all its sharers see.  A store changes one private page or   *)
(* one object; fork gives the child a copy of every private page and the   *)
(* same objects; new pages hold zero, or the program's image after exec.   *)
(***************************************************************************)
CONSTANTS Procs, Pages, Objects, Values, Zero, Image

VARIABLES page, store

vars == <<page, store>>

Absent     == <<"absent">>
Private(v) == <<"private", v>>
Shared(o)  == <<"shared", o>>

Live(pg) == {o \in Objects : \E p \in Procs, a \in Pages : pg[p][a] = Shared(o)}

Init == /\ page = [p \in Procs |-> [a \in Pages |-> Absent]]
        /\ store = [o \in Objects |-> Zero]

(* The steps, from the pages pg and values st to the pages qg and rt *)
Store(pg, st, qg, rt) ==
    \/ /\ rt = st
       /\ \E p \in Procs : \E a \in Pages :
             /\ pg[p][a] # qg[p][a] /\ pg[p][a][1] = "private" /\ qg[p][a] \in {Private(v) : v \in Values}
             /\ qg = [pg EXCEPT ![p][a] = qg[p][a]]
    \/ /\ qg = pg
       /\ \E o \in Live(pg), v \in Values : rt = [st EXCEPT ![o] = v]

(* Only page a of process p maps its object *)
Alone(qg, p, a) == \A q \in Procs, b \in Pages : qg[q][b] = qg[p][a] => q = p /\ b = a

(* sbrk, mmap, munmap, exec and the end of a process.  Objects keep their  *)
(* values while somebody maps them.  A shared page that is made anew has   *)
(* an object of its own, which holds zero.                                 *)
Remap(pg, st, qg, rt) ==
    LET before == Live(pg)
        after  == Live(qg)
    IN  \E p \in Procs :
            /\ \A q \in Procs \ {p} : qg[q] = pg[q]
            /\ \A a \in Pages :
                  \/ qg[p][a] = pg[p][a]
                  \/ qg[p][a] \in {Absent, Private(Zero), Private(Image)}
                  \/ qg[p][a][1] = "shared" /\ rt[qg[p][a][2]] = Zero /\ Alone(qg, p, a)
            /\ \A o \in Objects :
                  \/ rt[o] = st[o] /\ o \in before \cap after
                  \/ rt[o] = Zero /\ o \notin after
                  \/ rt[o] = Zero /\ \E a \in Pages : qg[p][a] = Shared(o) /\ Alone(qg, p, a)

Fork(pg, st, qg, rt) ==
    \E p, c \in Procs :
        /\ \A a \in Pages : pg[c][a] = Absent
        /\ qg = [pg EXCEPT ![c] = pg[p]]
        /\ rt = st

Step(pg, st, qg, rt) == Store(pg, st, qg, rt) \/ Remap(pg, st, qg, rt) \/ Fork(pg, st, qg, rt)

Next == Step(page, store, page', store')

Spec == Init /\ [][Next]_vars
================================================================================
