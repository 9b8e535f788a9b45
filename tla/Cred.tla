-------------------------------- MODULE Cred ---------------------------------
(***************************************************************************)
(* The user and group ids of a process (os/kernel/cred.c) and what exec    *)
(* makes of them (proc.c).                                                 *)
(***************************************************************************)
EXTENDS Integers, FiniteSets

CONSTANTS Uids, Gids, NGROUPS

VARIABLES id, groups, mayhold

NOCHANGE == -1

(* mayhold: the user ids and the group ids the process is left with since  *)
(* it last gave up being root, or was last replaced by exec; everything    *)
(* while it is root                                                        *)
CrInit ==
    /\ id = [uid |-> 0, euid |-> 0, suid |-> 0, gid |-> 0, egid |-> 0, sgid |-> 0]
    /\ groups = {}
    /\ mayhold = [u |-> Uids, g |-> Gids]

Root == id.euid = 0
UsersOf(i) == {i.uid, i.euid, i.suid}
GroupsOf(i) == {i.gid, i.egid, i.sgid}

(* What is left after a call that gave the ids i: everything to root, u    *)
(* and g to a process that was root until now, else what was left before   *)
Left(i, u, g) ==
    IF i.euid = 0 THEN [u |-> Uids, g |-> Gids]
    ELSE IF Root THEN [u |-> u, g |-> g] ELSE mayhold

(* Slip: root's setuid leaves the saved id as it is                        *)
keepsSaved(u) == [id EXCEPT !.uid = u, !.euid = u]

all_uids(u) == [id EXCEPT !.uid = u, !.euid = u, !.suid = u]

sys_setuid == \E u \in Uids :
    /\ Root \/ u \in {id.uid, id.suid}
    /\ id' = IF Root THEN all_uids(u) ELSE [id EXCEPT !.euid = u]
    /\ mayhold' = Left(id', {u}, GroupsOf(id))
    /\ UNCHANGED groups

sys_setgid == \E g \in Gids :
    /\ Root \/ g \in {id.gid, id.sgid}
    /\ id' = IF Root THEN [id EXCEPT !.gid = g, !.egid = g, !.sgid = g] ELSE [id EXCEPT !.egid = g]
    /\ UNCHANGED <<groups, mayhold>>

permitted(r, e, or, oe, os) == r \in {NOCHANGE, or, oe} /\ e \in {NOCHANGE, or, oe, os}

saves(r, e, or) == r # NOCHANGE \/ (e # NOCHANGE /\ e # or)

Set(x, old) == IF x = NOCHANGE THEN old ELSE x

sys_setreuid == \E r, e \in Uids \cup {NOCHANGE} :
    /\ Root \/ permitted(r, e, id.uid, id.euid, id.suid)
    /\ LET eu == Set(e, id.euid)
       IN  id' = [id EXCEPT !.uid = Set(r, @), !.euid = eu, !.suid = IF saves(r, e, id.uid) THEN eu ELSE @]
    /\ mayhold' = Left(id', IF r = NOCHANGE THEN UsersOf(id') ELSE {id'.uid, id'.euid}, GroupsOf(id))
    /\ UNCHANGED groups

sys_setregid == \E r, e \in Gids \cup {NOCHANGE} :
    /\ Root \/ permitted(r, e, id.gid, id.egid, id.sgid)
    /\ LET eg == Set(e, id.egid)
       IN  id' = [id EXCEPT !.gid = Set(r, @), !.egid = eg, !.sgid = IF saves(r, e, id.gid) THEN eg ELSE @]
    /\ UNCHANGED <<groups, mayhold>>

sys_setgroups == \E g \in SUBSET Gids :
    /\ Root /\ Cardinality(g) <= NGROUPS
    /\ groups' = g /\ UNCHANGED <<id, mayhold>>

(* exec of a program with the owner's id, its group's, both or neither     *)
exec == \E u \in Uids \cup {NOCHANGE}, g \in Gids \cup {NOCHANGE} :
    LET eu == Set(u, id.euid)  eg == Set(g, id.egid)
    IN  /\ id' = [id EXCEPT !.euid = eu, !.suid = eu, !.egid = eg, !.sgid = eg]
        /\ mayhold' = IF eu = 0 THEN [u |-> Uids, g |-> Gids] ELSE [u |-> {id.uid, eu}, g |-> {id.gid, eg}]
        /\ UNCHANGED groups

CrNext == sys_setuid \/ sys_setgid \/ sys_setreuid \/ sys_setregid \/ sys_setgroups \/ exec

CrSpec == CrInit /\ [][CrNext]_<<id, groups, mayhold>>

(***************************************************************************)
(* Properties                                                              *)
(***************************************************************************)
(* What a process gave up it cannot take again: after root's setuid it     *)
(* holds that one id, after a setreuid that sets the real id those two,    *)
(* whatever calls follow, until exec; and a process that is not root only  *)
(* moves among the ids and groups it has (sys_setuid, sys_setreuid,        *)
(* sys_setgid, sys_setregid, exec).                                        *)
NothingRegained == UsersOf(id) \subseteq mayhold.u /\ GroupsOf(id) \subseteq mayhold.g
=============================================================================
