------------------------------- MODULE MCKernel ------------------------------
(***************************************************************************)
(* The kernel's tables: timers, the kernel heap with its log, the block    *)
(* cache and credentials, each with its own variables, and the 9P client   *)
(* with its server, namespaces over the memory file system, the groups     *)
(* that processes share, notes and the messages of 9P, which share the     *)
(* variables v1, v2 and so on.  The parts do not meet here: part says      *)
(* which one a behaviour is of, and the others stay as they are at the     *)
(* start.                                                                  *)
(***************************************************************************)
EXTENDS Kmem, Blocks, Cred, TLC

CONSTANTS P1, P2, P3

VARIABLES part, v1, v2, v3, v4, v5, v6, v7, v8, v9, v10, v11, v12

tvars  == <<ticks, ktimers, calls>>
kvars  == <<low_used, pclass, plen, freelist, objects, klog>>
bvars  == <<disk, cache, faults, behind>>
crvars == <<id, groups, mayhold>>
own    == <<tvars, kvars, bvars, crvars>>
shared == <<v1, v2, v3, v4, v5, v6, v7, v8, v9, v10, v11, v12>>
all    == <<part, own, shared>>

M == INSTANCE P9 WITH chan <- v1, vn <- v2, files <- v3, fd <- v4, call <- v5, sig <- v6, up <- v7, down <- v8, fids
         <- v9, nodes <- v10, srv <- v11, load <- v12, Procs <- {P1, P2, P3}, NOTAG <- 40, NFID <- 4, NNODE <- 6,
         NFILE <- 2, Loads <- {"files", "many", "deep", "rename", "signal", "three", "dies"}
N == INSTANCE Names WITH k <- v1, load <- v2, Procs <- {P1, P2}, Init1 <- P1, PAGE <- 2, LIMIT <- 3, NMNT <- 2, NMEMB
         <- 3, NFS <- 3, Loads <- {"bind", "mount", "move", "link", "data", "full"}
G == INSTANCE Groups WITH grp <- v1, eg <- v2, fd <- v3, file <- v4, srv <- v5, heap <- v6, next <- v7, load <- v8,
         closing <- v9, spoilt <- v10, Procs <- {P1, P2}, Init1 <- P1, Names <- {"a", "b"}, NEVAR <- 2, NSRV <- 2, NFILE <- 2, NFD <- 2, HEAP <- 2,
         MAXEVAL <- 1, MaxIds <- 4, Loads <- {"env", "groups", "far", "posts"}
O == INSTANCE Notes WITH nt <- v1, sg <- v2, frame <- v3, ustack <- v4, told <- v5, NNOTE <- 2, MaxNotes <- 3,
         MaxSteps <- 1
W == INSTANCE Conv WITH sent <- v1, wire <- v2, given <- v3, changed <- v4, got <- v5, BYTE <- 128, BASE <- 4194304,
         MAXWELEM <- 2, Texts <- {<<>>, <<65, 66>>}, Tags <- {5, 16383}, Words <- {0, 268435455}

KernelInit ==
    /\ TInit /\ KInit /\ BInit /\ CrInit
    /\ \/ part = "p9" /\ M!MCInit
       \/ part = "names" /\ N!MCInit /\ v3 = 0 /\ v4 = 0 /\ v5 = 0 /\ v6 = 0 /\ v7 = 0 /\ v8 = 0 /\ v9 = 0 /\ v10 = 0
          /\ v11 = 0 /\ v12 = 0
       \/ part = "groups" /\ G!MCInit /\ v11 = 0 /\ v12 = 0
       \/ part = "notes" /\ O!NInit /\ v6 = 0 /\ v7 = 0 /\ v8 = 0 /\ v9 = 0 /\ v10 = 0 /\ v11 = 0 /\ v12 = 0
       \/ part = "conv" /\ W!WInit /\ v6 = 0 /\ v7 = 0 /\ v8 = 0 /\ v9 = 0 /\ v10 = 0 /\ v11 = 0 /\ v12 = 0
       \/ part \in {"timers", "heap", "log", "blocks", "cred"} /\ v1 = 0 /\ v2 = 0 /\ v3 = 0 /\ v4 = 0 /\ v5 = 0
          /\ v6 = 0 /\ v7 = 0 /\ v8 = 0 /\ v9 = 0 /\ v10 = 0 /\ v11 = 0 /\ v12 = 0

KernelNext ==
    /\ UNCHANGED part
    /\ \/ part = "p9" /\ M!MCNext /\ UNCHANGED own
       \/ part = "names" /\ N!MCNext /\ UNCHANGED <<own, v3, v4, v5, v6, v7, v8, v9, v10, v11, v12>>
       \/ part = "groups" /\ G!MCNext /\ UNCHANGED <<own, v11, v12>>
       \/ part = "notes" /\ O!NNext /\ UNCHANGED <<own, v6, v7, v8, v9, v10, v11, v12>>
       \/ part = "conv" /\ W!WNext /\ UNCHANGED <<own, v6, v7, v8, v9, v10, v11, v12>>
       \/ part = "timers" /\ TNext /\ UNCHANGED <<kvars, bvars, crvars, shared>>
       \/ part = "heap" /\ KNext /\ UNCHANGED <<tvars, bvars, crvars, shared>>
       \/ part = "log" /\ LogNext /\ UNCHANGED <<tvars, bvars, crvars, shared>>
       \/ part = "blocks" /\ BNext /\ UNCHANGED <<tvars, kvars, crvars, shared>>
       \/ part = "cred" /\ CrNext /\ UNCHANGED <<tvars, kvars, bvars, shared>>

KernelSpec == KernelInit /\ [][KernelNext]_all

(* 9P.  Calls over the channel that all processes share, interrupted,      *)
(* flushed and answered late as they are, get the answers to their own     *)
(* requests; the driver keeps no fid that the server does not know, and    *)
(* the server none that the driver forgot, save where a signal broke off a *)
(* walk or a clunk (mnt.c, lib/9p.c); a message arrives as it was packed   *)
(* or is refused (lib/9pconv.c).                                           *)
ProtocolSound == (part = "p9" => M!MountSound) /\ (part = "conv" => W!PacksSound)

(* Names lead where they should: what is referred to is counted exactly, a *)
(* directory's parent holds it, a place with an entry stays, a canonical   *)
(* name leads back, a list shows what is found, and a file reads as it was *)
(* written (ns.c, vfs.c, ramfs.c).                                         *)
NamesSound == part = "names" => N!NamesSound

(* The groups that processes share: a variable's value changes only        *)
(* through a file opened on its slot in its group, whatever groups were    *)
(* copied, left and made meanwhile, and groups, values and posted files    *)
(* are counted exactly, save the files that were touched while their last  *)
(* close slept (env.c var_of, egrp_copy, egrp_put; srv.c s_unlink).        *)
GroupsSound == [](part = "groups" => G!Counted) /\ [][part = "groups" => G!WritesReach]_all

(* Notes come out one at a time, in order, and return where they came from *)
(* (post_note, deliver_note, sys_noted).                                   *)
NotesSound == part = "notes" => O!NotesSound
=============================================================================
