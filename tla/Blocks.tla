------------------------------- MODULE Blocks --------------------------------
(***************************************************************************)
(* The block cache of the disk file system (os/kernel/tfs.c) and the raw   *)
(* disk device beside it (devfs.c disk_io).  A block is cached in one of   *)
(* WAYS lines of its set; writes go through.  Any transfer may fail, and a *)
(* write that fails may have reached the disk.                             *)
(***************************************************************************)
EXTENDS Integers, FiniteSets

CONSTANTS Disks, NBlocks, SETS, WAYS, Datas, MaxFaults

VARIABLES disk, cache, faults, behind

BlockNos == 0 .. NBlocks - 1
Lines == (0 .. SETS - 1) \X (1 .. WAYS)

(* used: the line's rank among those of its set, 1 the one used longest    *)
(* ago (the code keeps the count of uses)                                  *)
NoLine == [valid |-> FALSE, disk |-> 0, blk |-> 0, data |-> 0, used |-> 0]

(* behind: the disks of which the raw device wrote a part and then failed  *)
BInit ==
    /\ disk = [x \in Disks \X BlockNos |-> 0]
    /\ cache = [l \in Lines |-> NoLine]
    /\ faults = 0
    /\ behind = {}

set(d, b) == ((b * 2) + d) % SETS
Ways(d, b) == {l \in Lines : l[1] = set(d, b)}

(* Slip: the search ends at the first line that is free                    *)
stopsAtFree(d, b) ==
    {l \in Ways(d, b) : cache[l].valid /\ cache[l].blk = b /\ cache[l].disk = d /\
                        \A k \in Ways(d, b) : k[2] < l[2] => cache[k].valid}

found(d, b) == {l \in Ways(d, b) : cache[l].valid /\ cache[l].blk = b /\ cache[l].disk = d}

(* The last free line of the set, or else the one used longest ago         *)
victim(d, b) ==
    LET free == {l \in Ways(d, b) : ~cache[l].valid}
    IN  IF free # {} THEN CHOOSE l \in free : \A k \in free : k[2] <= l[2]
        ELSE CHOOSE l \in Ways(d, b) : \A k \in Ways(d, b) : cache[l].used <= cache[k].used

(* A line becomes the youngest of its set                                  *)
Touched(c, l, rec) ==
    LET new == [c EXCEPT ![l] = [rec EXCEPT !.used = WAYS + 1]]
        Older(k) == {j \in Lines : j[1] = k[1] /\ new[j].valid /\ new[j].used < new[k].used}
    IN  [k \in Lines |-> IF new[k].valid THEN [new[k] EXCEPT !.used = Cardinality(Older(k)) + 1] ELSE new[k]]

Fails == faults < MaxFaults /\ faults' = faults + 1

(* A read finds the line or loads it; a load that fails leaves it free     *)
bread == \E d \in Disks, b \in BlockNos :
    /\ UNCHANGED <<disk, behind>>
    /\ IF found(d, b) # {}
       THEN LET l == CHOOSE k \in found(d, b) : TRUE
            IN  cache' = Touched(cache, l, cache[l]) /\ UNCHANGED faults
       ELSE LET v == victim(d, b)
            IN  \/ /\ cache' = Touched(cache, v, [valid |-> TRUE, disk |-> d, blk |-> b, data |-> disk[<<d, b>>], used |-> 0])
                   /\ UNCHANGED faults
                \/ Fails /\ cache' = [cache EXCEPT ![v] = NoLine]

dropped(c, l) == [c EXCEPT ![l] = NoLine]

(* A write takes the line without a load and goes through to the disk      *)
bwrite == \E d \in Disks, b \in BlockNos, x \in Datas :
    LET l == IF found(d, b) # {} THEN CHOOSE k \in found(d, b) : TRUE ELSE victim(d, b)
        c == Touched(cache, l, [valid |-> TRUE, disk |-> d, blk |-> b, data |-> x, used |-> 0])
    IN  /\ \/ cache' = c /\ disk' = [disk EXCEPT ![<<d, b>>] = x] /\ UNCHANGED faults
           \/ Fails /\ cache' = dropped(c, l) /\ disk' \in {disk, [disk EXCEPT ![<<d, b>>] = x]}
        /\ UNCHANGED behind

tfs_invalidate(c, d) == [l \in Lines |-> IF c[l].disk = d THEN NoLine ELSE c[l]]

(* The raw device writes blocks a to b one by one.  The cache is emptied   *)
(* of the disk when all are written; a failure returns before that.        *)
disk_io == \E d \in Disks, a \in BlockNos, n \in 1 .. NBlocks, x \in Datas :
    /\ a + n <= NBlocks
    /\ \/ /\ disk' = [y \in DOMAIN disk |-> IF y[1] = d /\ y[2] \in a .. a + n - 1 THEN x ELSE disk[y]]
          /\ cache' = tfs_invalidate(cache, d)
          /\ behind' = behind \ {d}
          /\ UNCHANGED faults
       \/ /\ Fails
          /\ \E k \in 0 .. n - 1 : \E last \in {k - 1, k} :
                 disk' = [y \in DOMAIN disk |-> IF y[1] = d /\ y[2] \in a .. a + last THEN x ELSE disk[y]]
          /\ behind' = behind \cup {d}
          /\ UNCHANGED cache

(* A raw read empties the cache of the disk, too, and so does unmounting   *)
Drop == \E d \in Disks :
    /\ cache' = tfs_invalidate(cache, d) /\ behind' = behind \ {d} /\ UNCHANGED <<disk, faults>>

BNext == bread \/ bwrite \/ disk_io \/ Drop

BSpec == BInit /\ [][BNext]_<<disk, cache, faults, behind>>

(***************************************************************************)
(* Properties                                                              *)
(***************************************************************************)
(* What a line holds is what the disk holds, after every failed load,      *)
(* every failed write and every whole transfer of the raw device (bread,   *)
(* bwrite, disk_io).  After a raw transfer that failed half way it need    *)
(* not be.                                                                 *)
CacheIsDisk == \A l \in Lines : cache[l].valid /\ cache[l].disk \notin behind =>
    cache[l].data = disk[<<cache[l].disk, cache[l].blk>>]

(* A block is in one line at most, so that no write leaves an older copy   *)
(* to be found later (cache_get).                                          *)
OneLine == \A k, l \in Lines : cache[k].valid /\ cache[l].valid /\ cache[k].disk = cache[l].disk
                               /\ cache[k].blk = cache[l].blk => k = l

(* The cache shows the disk: a block is in one line at most, and that line *)
(* holds what the disk holds, whichever transfers failed and whatever the  *)
(* raw device did beside it (cache_get, bread, bwrite, disk_io).           *)
CacheSound == OneLine /\ CacheIsDisk
=============================================================================
