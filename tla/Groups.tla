------------------------------- MODULE Groups --------------------------------
(***************************************************************************)
(* Environment groups (os/kernel/env.c) and posted files (srv.c): what     *)
(* processes that share, copy or clean their group see in #e, and the      *)
(* files that stay open in #s after the process that posted them is gone.  *)
(* The values lie in the kernel's heap, which may be full.  The last close *)
(* of a file of a 9P mount sleeps until the server answers.  Left out:     *)
(* owners, modes and times, reading the directories, seeks.                *)
(***************************************************************************)
EXTENDS Integers, Sequences, FiniteSets, TLC

CONSTANTS Procs, Init1,     \* the processes; the first one
          Names,            \* of variables and of posts
          NEVAR, NSRV,      \* variables of a group, posts
          NFILE, NFD,       \* open files, descriptors of a process
          HEAP, MAXEVAL,    \* blocks of the heap, longest value
          MaxIds            \* bound: groups ever made

VARIABLES grp,    \* the groups by id: ref, v
          eg,     \* the group of each process that runs, else 0
          fd,     \* the descriptors of each process: a file or 0
          file,   \* the open files: ref, what they are open on
          srv,    \* the posts: used, name, f
          heap,   \* the blocks in use: the bytes
          next,   \* the id of the next group
          closing,\* the processes that sleep in a close: the file, the post that is removed or 0
          spoilt  \* history: the files that were touched while a close of theirs slept

vars == <<grp, eg, fd, file, srv, heap, next, closing, spoilt>>

NoVar  == [used |-> FALSE, name |-> "", val |-> 0, len |-> 0]
NoPost == [used |-> FALSE, name |-> "", f |-> 0]
Empty(x) == [ref |-> x, v |-> [i \in 1 .. NEVAR |-> NoVar]]
NoFile == [ref |-> 0, on |-> <<>>]
Boot == 1
Far  == <<"far">>
Runs(p)  == eg[p] # 0
Awake(p) == Runs(p) /\ p \notin DOMAIN closing

Init ==
    /\ grp = Boot :> Empty(2)
    /\ eg = [p \in Procs |-> IF p = Init1 THEN Boot ELSE 0]
    /\ fd = [p \in Procs |-> [d \in 1 .. NFD |-> 0]]
    /\ file = [f \in 1 .. NFILE |-> NoFile]
    /\ srv = [i \in 1 .. NSRV |-> NoPost]
    /\ heap = <<>>
    /\ next = 2
    /\ closing = <<>> /\ spoilt = {}

Lowest(S) == CHOOSE x \in S : \A y \in S : x <= y
Without(h, S) == [a \in DOMAIN h \ S |-> h[a]]
Owned(g) == {g.v[i].val : i \in {j \in 1 .. NEVAR : g.v[j].used}}

(***************************************************************************)
(* Groups                                                                  *)
(***************************************************************************)
egrp_hold(G, i) == [G EXCEPT ![i].ref = @ + 1]

(* The variables one after the other; one there is no memory for is lost *)
egrp_copy(g, h) ==
    LET C[i \in 0 .. NEVAR] ==
            IF i = 0 THEN [g |-> Empty(1), h |-> h]
            ELSE LET c    == C[i - 1]
                     e    == g.v[i]
                     room == 1 .. HEAP \ DOMAIN c.h
                     a    == Lowest(room)
                 IN  CASE ~e.used -> c
                       [] e.used /\ e.len = 0 -> [c EXCEPT !.g.v[i] = [e EXCEPT !.val = 0]]
                       [] e.used /\ e.len > 0 /\ room = {} -> c
                       [] OTHER -> [g |-> [c.g EXCEPT !.v[i] = [e EXCEPT !.val = a]],
                                    h |-> c.h @@ a :> h[e.val]]
    IN  C[NEVAR]

freed(G, h, i) == Without(h, Owned(G[i]))

egrp_put(G, h, i) ==
    IF G[i].ref > 1 \/ i = Boot THEN [G |-> [G EXCEPT ![i].ref = @ - 1], h |-> h]
    ELSE [G |-> Without(G, {i}), h |-> freed(G, h, i)]

(* how.env: "share", "copy" or "clean"; how.fds: "share" or "clean" *)
NewGroup(p, how) == IF how.env = "clean" THEN [g |-> Empty(1), h |-> heap] ELSE egrp_copy(grp[eg[p]], heap)

(* A file after n references went.  The slot of the last one is free while *)
(* a close of a far file sleeps.                                           *)
file_close(x, n) == IF n = 0 \/ x.ref > n THEN [x EXCEPT !.ref = @ - n] ELSE [ref |-> x.ref - n, on |-> IF x.on = Far THEN Far ELSE <<>>]
Sleeps(x, n) == n > 0 /\ x.ref <= n /\ x.on = Far

Times(p, f) == Cardinality({d \in 1 .. NFD : fd[p][d] = f})

(* All descriptors of p are closed; bound: none of these closes sleeps *)
CloseAll(p) ==
    /\ \A f \in 1 .. NFILE : ~Sleeps(file[f], Times(p, f))
    /\ file' = [f \in 1 .. NFILE |-> file_close(file[f], Times(p, f))]
    /\ fd' = [fd EXCEPT ![p] = [d \in 1 .. NFD |-> 0]]

rfork_self(p, how) ==
    /\ Awake(p) /\ how.env # "share" /\ next <= MaxIds
    /\ LET n == NewGroup(p, how)
           u == egrp_put(grp @@ next :> n.g, n.h, eg[p])
       IN  grp' = u.G /\ heap' = u.h
    /\ eg' = [eg EXCEPT ![p] = next]
    /\ IF how.fds = "clean" THEN CloseAll(p) ELSE UNCHANGED <<file, fd>>
    /\ next' = next + 1
    /\ UNCHANGED <<srv, closing, spoilt>>

do_rfork(p, c, how) ==
    /\ Awake(p) /\ ~Runs(c) /\ (how.env # "share" => next <= MaxIds)
    /\ IF how.env = "share"
       THEN /\ grp' = egrp_hold(grp, eg[p])
            /\ eg' = [eg EXCEPT ![c] = eg[p]]
            /\ UNCHANGED <<heap, next>>
       ELSE /\ grp' = grp @@ next :> NewGroup(p, how).g
            /\ heap' = NewGroup(p, how).h
            /\ eg' = [eg EXCEPT ![c] = next]
            /\ next' = next + 1
    /\ IF how.fds = "clean" THEN UNCHANGED <<fd, file>>
       ELSE /\ fd' = [fd EXCEPT ![c] = fd[p]]
            /\ file' = [f \in 1 .. NFILE |-> [file[f] EXCEPT !.ref = @ + Times(p, f)]]
    /\ UNCHANGED <<srv, closing, spoilt>>

do_exit(p) ==
    /\ Awake(p) /\ p # Init1
    /\ CloseAll(p)
    /\ grp' = egrp_put(grp, heap, eg[p]).G
    /\ heap' = egrp_put(grp, heap, eg[p]).h
    /\ eg' = [eg EXCEPT ![p] = 0]
    /\ UNCHANGED <<srv, next, closing, spoilt>>

(***************************************************************************)
(* Variables.  An open file is on <<"env", id, slot>>                      *)
(***************************************************************************)
FreeFd(p) == {d \in 1 .. NFD : fd[p][d] = 0}
FreeFile  == {f \in 1 .. NFILE : file[f].ref = 0}
Asleep    == {closing[q].f : q \in DOMAIN closing}
Touch(S)  == spoilt' = spoilt \cup (S \cap Asleep)

(* Without a descriptor the file is closed again; without a file nothing   *)
(* is opened, and what a create made stays                                 *)
opened(p, on) ==
    IF FreeFile = {} THEN UNCHANGED <<file, fd, spoilt>>
    ELSE LET f == Lowest(FreeFile)
         IN  /\ Touch({f})
             /\ IF FreeFd(p) = {} THEN file' = [file EXCEPT ![f] = NoFile] /\ UNCHANGED fd
                ELSE /\ file' = [file EXCEPT ![f] = [ref |-> 1, on |-> on]]
                     /\ fd' = [fd EXCEPT ![p][Lowest(FreeFd(p))] = f]

(* Slip: the variable is looked for in the group of the caller *)
looksInOwn(p, on) == eg[p]

(* 0 when the group is gone *)
grp_of(p, on) == IF on[2] \in DOMAIN grp THEN on[2] ELSE 0

var_of(p, on) == IF grp_of(p, on) = 0 THEN NoVar ELSE grp[grp_of(p, on)].v[on[3]]

Slots(p, name) == {i \in 1 .. NEVAR : grp[eg[p]].v[i].used /\ grp[eg[p]].v[i].name = name}
Opens(p, name) == \E i \in Slots(p, name) : opened(p, <<"env", eg[p], i>>)

e_lookup(p, name) == Awake(p) /\ Opens(p, name) /\ UNCHANGED <<grp, eg, srv, heap, next, closing>>

e_create(p, name) ==
    LET room == {i \in 1 .. NEVAR : ~grp[eg[p]].v[i].used}
    IN  /\ Awake(p) /\ Slots(p, name) = {} /\ room # {}
        /\ grp' = [grp EXCEPT ![eg[p]].v[Lowest(room)] = [NoVar EXCEPT !.used = TRUE, !.name = name]]
        /\ opened(p, <<"env", eg[p], Lowest(room)>>)
        /\ UNCHANGED <<eg, srv, heap, next, closing>>

e_unlink(p, name) ==
    /\ Awake(p)
    /\ \E i \in Slots(p, name) :
          /\ grp' = [grp EXCEPT ![eg[p]].v[i] = NoVar]
          /\ heap' = Without(heap, {grp[eg[p]].v[i].val})
    /\ UNCHANGED <<eg, fd, file, srv, next, closing, spoilt>>

moved(h, e, a, len) ==
    LET new == [k \in 1 .. len |-> IF k <= e.len THEN h[e.val][k] ELSE 0]
    IN  IF len = 0 THEN Without(h, {e.val}) ELSE Without(h, {e.val}) @@ a :> new

(* The variable and the heap after resize; the new block is taken first *)
Fits(e, len) == len = e.len \/ (len <= MAXEVAL /\ (len = 0 \/ 1 .. HEAP \ DOMAIN heap # {}))
resize(e, len) ==
    LET a == Lowest(1 .. HEAP \ DOMAIN heap)
    IN  IF len = e.len THEN [e |-> e, h |-> heap]
        ELSE [e |-> [e EXCEPT !.val = IF len = 0 THEN 0 ELSE a, !.len = len], h |-> moved(heap, e, a, len)]

On(p, d, dev) == Awake(p) /\ fd[p][d] # 0 /\ file[fd[p][d]].on # <<>> /\ file[fd[p][d]].on[1] = dev
Store(p, on, u) == grp' = [grp EXCEPT ![grp_of(p, on)].v[on[3]] = u.e]

e_write(p, d, off, b) ==
    LET on == file[fd[p][d]].on
        e  == var_of(p, on)
        u  == resize(e, IF off + 1 > e.len THEN off + 1 ELSE e.len)
    IN  /\ On(p, d, "env") /\ e.used /\ Fits(e, IF off + 1 > e.len THEN off + 1 ELSE e.len)
        /\ Store(p, on, u) /\ heap' = [u.h EXCEPT ![u.e.val][off + 1] = b]
        /\ UNCHANGED <<eg, fd, file, srv, next, closing, spoilt>>

e_truncate(p, d, len) ==
    LET on == file[fd[p][d]].on
        e  == var_of(p, on)
    IN  /\ On(p, d, "env") /\ e.used /\ Fits(e, len)
        /\ Store(p, on, resize(e, len)) /\ heap' = resize(e, len).h
        /\ UNCHANGED <<eg, fd, file, srv, next, closing, spoilt>>

(* A file of a 9P mount *)
mnt_open(p) == Awake(p) /\ opened(p, Far) /\ UNCHANGED <<grp, eg, srv, heap, next, closing>>

SleepsIn(p, f, post) == closing' = closing @@ p :> [f |-> f, post |-> post]

sys_close(p, d) ==
    LET f == fd[p][d]
    IN  /\ Awake(p) /\ f # 0
        /\ fd' = [fd EXCEPT ![p][d] = 0]
        /\ file' = [file EXCEPT ![f] = file_close(@, 1)]
        /\ IF Sleeps(file[f], 1) THEN SleepsIn(p, f, 0) ELSE UNCHANGED closing
        /\ UNCHANGED <<grp, eg, srv, heap, next, spoilt>>

(* The server answered: the rest of file_close, on whatever the slot holds *)
(* now, and the rest of s_unlink                                           *)
Closed(p) ==
    /\ p \in DOMAIN closing
    /\ file' = [file EXCEPT ![closing[p].f].on = <<>>]
    /\ srv' = IF closing[p].post = 0 THEN srv ELSE [srv EXCEPT ![closing[p].post] = NoPost]
    /\ closing' = Without(closing, {p})
    /\ UNCHANGED <<grp, eg, fd, heap, next, spoilt>>

(***************************************************************************)
(* Posts                                                                   *)
(***************************************************************************)
Posts(name) == {i \in 1 .. NSRV : srv[i].used /\ srv[i].name = name}

s_create(p, name) ==
    LET room == {i \in 1 .. NSRV : ~srv[i].used}
    IN  /\ Awake(p) /\ Posts(name) = {} /\ room # {}
        /\ srv' = [srv EXCEPT ![Lowest(room)] = [used |-> TRUE, name |-> name, f |-> 0]]
        /\ opened(p, <<"srv", Lowest(room)>>)
        /\ UNCHANGED <<grp, eg, heap, next, closing>>

posted(F, f) == [F EXCEPT ![f].ref = @ + 1]

Removed == {closing[q].post : q \in DOMAIN closing} \ {0}

(* The number of descriptor d2 is written to the post that d is open on *)
s_write(p, d, d2) ==
    /\ On(p, d, "srv") /\ fd[p][d2] # 0
    /\ LET on == file[fd[p][d]].on
       IN  /\ srv[on[2]].used /\ srv[on[2]].f = 0
           /\ file[fd[p][d2]].on # on
           /\ srv' = [srv EXCEPT ![on[2]].f = fd[p][d2]]
           /\ file' = posted(file, fd[p][d2])
           /\ spoilt' = IF on[2] \in Removed THEN spoilt \cup {fd[p][d2]} ELSE spoilt
    /\ UNCHANGED <<grp, eg, fd, heap, next, closing>>

(* open of a post opens the post and then gives the posted file instead,   *)
(* if there is one; bound: a descriptor is free                            *)
srv_open(p, name) ==
    /\ Awake(p) /\ FreeFd(p) # {}
    /\ \E i \in Posts(name) :
          IF srv[i].f \in {0, Lowest(FreeFile \cup {NFILE + 1})} \/ FreeFile = {}
          THEN opened(p, <<"srv", i>>)
          ELSE /\ file' = posted([file EXCEPT ![Lowest(FreeFile)] = NoFile], srv[i].f)
               /\ fd' = [fd EXCEPT ![p][Lowest(FreeFd(p))] = srv[i].f]
               /\ Touch({Lowest(FreeFile), srv[i].f})
    /\ UNCHANGED <<grp, eg, srv, heap, next, closing>>

(* The post stands until its file is closed *)
s_unlink(p, name) ==
    /\ Awake(p)
    /\ \E i \in Posts(name) :
          LET f == srv[i].f
          IN  IF f = 0 THEN srv' = [srv EXCEPT ![i] = NoPost] /\ UNCHANGED <<file, closing, spoilt>>
              ELSE /\ file' = [file EXCEPT ![f] = file_close(@, 1)]
                   /\ IF Sleeps(file[f], 1) THEN SleepsIn(p, f, i) /\ UNCHANGED srv
                      ELSE srv' = [srv EXCEPT ![i] = NoPost] /\ UNCHANGED closing
                   /\ Touch({f})
    /\ UNCHANGED <<grp, eg, fd, heap, next>>

(***************************************************************************)
(* Properties                                                              *)
(***************************************************************************)
GroupsTypeOK ==
    /\ \A i \in DOMAIN grp : grp[i].ref \in 0 .. Cardinality(Procs) + 1
    /\ \A p \in Procs : eg[p] \in DOMAIN grp \cup {0}
    /\ DOMAIN heap \subseteq 1 .. HEAP
    /\ \A i \in 1 .. NSRV : srv[i].f # 0 => srv[i].used
    /\ DOMAIN closing \subseteq {p \in Procs : Runs(p)} /\ spoilt \subseteq 1 .. NFILE

(* A group is there as long as a process uses it (egrp_hold, egrp_put).    *)
GroupsCounted ==
    \A i \in DOMAIN grp : grp[i].ref = Cardinality({p \in Procs : eg[p] = i}) + (IF i = Boot THEN 1 ELSE 0)

(* Every block of the heap holds the value of exactly one variable, of     *)
(* that length, whichever groups were copied and dropped and whichever     *)
(* allocation failed (egrp_copy, egrp_put, resize, e_unlink).              *)
ValuesOwned ==
    LET vs == {<<i, j>> \in (DOMAIN grp) \X (1 .. NEVAR) : grp[i].v[j].used /\ grp[i].v[j].len > 0}
        val(x) == grp[x[1]].v[x[2]].val
    IN  /\ \A x \in vs : val(x) \in DOMAIN heap /\ Len(heap[val(x)]) = grp[x[1]].v[x[2]].len
        /\ \A a \in DOMAIN heap : Cardinality({x \in vs : val(x) = a}) = 1

(* An open file has as many references as descriptors and posts, and no    *)
(* descriptor or post stands for a closed file (file_dup, file_close,      *)
(* s_write, s_unlink).  Excepted are the files that somebody touched while *)
(* their last close slept in a 9P clunk: file_close has given up the slot  *)
(* before it sleeps (file.c:33), and s_unlink the post only afterwards     *)
(* (srv.c:66), so that an open may then take the slot or the closed file,  *)
(* and a second s_unlink closes it twice.                                  *)
PostsCounted ==
    \A f \in 1 .. NFILE \ spoilt :
        /\ file[f].ref = Cardinality({x \in Procs \X (1 .. NFD) : fd[x[1]][x[2]] = f})
                         + Cardinality({i \in 1 .. NSRV \ Removed : srv[i].f = f})
        /\ file[f].ref > 0 => file[f].on # <<>>

(* Groups, values and posted files are counted as said above.              *)
Counted == GroupsTypeOK /\ GroupsCounted /\ ValuesOwned /\ PostsCounted

Value(G, h, i, j) == [k \in 1 .. G[i].v[j].len |-> h[G[i].v[j].val][k]]

(* A value changes only through a file that was opened on its slot in its  *)
(* group: what a process of another group writes or copies, and files on   *)
(* other slots or on groups that are gone, never reach it (grp_of, var_of, *)
(* resize).  A file stands for the slot and not for the variable: one that *)
(* is open on a variable that was removed reaches whichever variable has   *)
(* the slot now (env.c:108).                                               *)
WritesReach ==
    \A i \in DOMAIN grp \cap DOMAIN grp' : \A j \in 1 .. NEVAR :
        grp[i].v[j].used /\ grp'[i].v[j].used /\ Value(grp, heap, i, j) # Value(grp', heap', i, j) =>
            \E f \in 1 .. NFILE : file[f].ref > 0 /\ file[f].on = <<"env", i, j>>

------------------------------------------------------------------------------
(***************************************************************************)
(* Small instances of Groups.                                              *)
(***************************************************************************)

CONSTANTS Loads

VARIABLE load

How(env, fds) == [env |-> env, fds |-> fds]
Hows == {How("share", "share")} \cup IF load \in {"far", "posts"} THEN {} ELSE {How("copy", "share"), How("clean", "clean")}
Few  == IF load \in {"groups", "far"} THEN {CHOOSE x \in Names : TRUE} ELSE Names

(* Loads: two groups with two variables each, more groups with one, posts  *)
(* whose file is of a 9P mount, and two posts                              *)
EnvNext ==
    \E p \in {q \in Procs : Runs(q)} :
        \/ \E how \in Hows : rfork_self(p, how) /\ (load = "env" => next = 2)
        \/ \E how \in Hows, c \in Procs : do_rfork(p, c, how) /\ (load = "env" => next' \in {2, 3})
        \/ do_exit(p)
        \/ \E d \in 1 .. NFD : sys_close(p, d)
        \/ /\ load \in {"env", "groups"}
           /\ \/ \E name \in Few : (fd[p][1] = 0 /\ (e_lookup(p, name) \/ e_create(p, name))) \/ e_unlink(p, name)
              \/ \E d \in 1 .. NFD, n \in 0 .. MAXEVAL : e_truncate(p, d, n) \/ e_write(p, d, n, 1)
        \/ /\ load \in {"far", "posts"}
           /\ \/ \E name \in Few : s_create(p, name) \/ srv_open(p, name) \/ s_unlink(p, name)
              \/ \E d, e \in 1 .. NFD : s_write(p, d, e)
        \/ load = "far" /\ (mnt_open(p) \/ Closed(p))

MCInit == Init /\ load \in Loads
MCNext == EnvNext /\ UNCHANGED load
MCSpec == MCInit /\ [][MCNext]_<<vars, load>>
==============================================================================
