--------------------------------- MODULE Fs ----------------------------------
(***************************************************************************)
(* The layout of a disk and the host program that makes one (tdisk.c).     *)
(* A disk d holds the bitmap bm as the set of blocks in use, the counts fb *)
(* and fi of the superblock, the inodes ino and the data blocks blk.  A    *)
(* block holds BSIZE cells.  A cell is a byte of a file, an entry of a     *)
(* directory or a pointer of an index block.  Triple indirect blocks are   *)
(* one more turn of what single and double ones do and are left out, as    *)
(* are modes, owners, times, the boot sectors and the old version 1.       *)
(* tdisk keeps its counts in memory until its end; nobody sees the image   *)
(* before.  An argument that does not fit or whose name is taken ends      *)
(* tdisk without an image.                                                 *)
(***************************************************************************)
EXTENDS Integers, Sequences, FiniteSets, SequencesExt

CONSTANTS Names,     \* file names
          NBlocks,   \* data blocks of the disk
          NInodes,   \* inodes; number 1 is the root
          BSIZE,     \* cells of a block
          NDIRECT    \* direct blocks of an inode

Blocks == 1 .. NBlocks
Inodes == 1 .. NInodes
Root   == 1
NIND   == BSIZE
MAXFB  == NDIRECT + NIND + NIND * NIND    \* blocks of the largest file

Nil         == <<"", 0>>                  \* a cleared cell
Byte(v)     == <<"byte", v>>
Pointer(b)  == <<"block", b>>
Entry(n, i) == <<n, i>>
ZeroBlock   == [k \in 1 .. BSIZE |-> Nil]

NoInode == [type |-> "none", nlink |-> 0, size |-> 0,
            direct |-> [k \in 1 .. NDIRECT |-> 0], ind |-> 0, dind |-> 0]

Least(S)      == CHOOSE x \in S : \A y \in S : x <= y
Larger(a, b)  == IF a > b THEN a ELSE b
Smaller(a, b) == IF a < b THEN a ELSE b

(* f of the value x *)
With(x, f(_)) == f(x)

(* The sequence s with src in place of what follows its first o members *)
splice(s, o, src) == SubSeq(s, 1, o) \o src \o SubSeq(s, o + Len(src) + 1, Len(s))

(***************************************************************************)
(* Blocks of a file.  x is an image with what a routine returns.           *)
(***************************************************************************)
tdBalloc(d) ==
    LET b == Least(Blocks \ d.bm)
    IN  [d |-> [d EXCEPT !.bm = @ \cup {b}, !.fb = @ - 1, !.blk[b] = ZeroBlock], b |-> b]

tdInd(d, slot, idx, alloc) ==
    With(IF slot # 0 \/ ~alloc THEN [d |-> d, b |-> slot] ELSE tdBalloc(d), LAMBDA a :
        CASE a.b = 0 -> [d |-> d, slot |-> 0, b |-> 0]
          [] a.b # 0 /\ (a.d.blk[a.b][idx + 1][2] # 0 \/ ~alloc) -> [d |-> a.d, slot |-> a.b, b |-> a.d.blk[a.b][idx + 1][2]]
          [] OTHER -> With(tdBalloc(a.d), LAMBDA n :
                [d |-> [n.d EXCEPT !.blk[a.b][idx + 1] = Pointer(n.b)], slot |-> a.b, b |-> n.b]))

tdBmap(d, ip, fb, alloc) ==
    LET k == fb - NDIRECT - NIND
    IN  CASE fb < NDIRECT ->
               With(IF ip.direct[fb + 1] # 0 \/ ~alloc THEN [d |-> d, b |-> ip.direct[fb + 1]] ELSE tdBalloc(d), LAMBDA a :
                   [d |-> a.d, ip |-> [ip EXCEPT !.direct[fb + 1] = a.b], b |-> a.b])
          [] fb >= NDIRECT /\ k < 0 ->
               With(tdInd(d, ip.ind, fb - NDIRECT, alloc), LAMBDA e : [d |-> e.d, ip |-> [ip EXCEPT !.ind = e.slot], b |-> e.b])
          [] OTHER ->
               With(tdInd(d, ip.dind, k \div NIND, alloc), LAMBDA mid :
                   With(IF mid.b = 0 THEN mid ELSE tdInd(mid.d, mid.b, k % NIND, alloc), LAMBDA e :
                       [d |-> e.d, ip |-> [ip EXCEPT !.dind = mid.slot], b |-> e.b]))

RECURSIVE tdWriteLoop(_, _, _, _)
tdWriteLoop(d, ip, data, off) ==
    LET o == off % BSIZE
        k == Smaller(BSIZE - o, Len(data))
    IN  IF data = <<>> THEN [d |-> d, ip |-> [ip EXCEPT !.size = Larger(@, off)]]
        ELSE With(tdBmap(d, ip, off \div BSIZE, TRUE), LAMBDA m :
                tdWriteLoop([m.d EXCEPT !.blk[m.b] = splice(@, o, SubSeq(data, 1, k))], m.ip,
                            SubSeq(data, k + 1, Len(data)), off + k))

iwrite(d, n, data, off) == With(tdWriteLoop(d, d.ino[n], data, off), LAMBDA w : [w.d EXCEPT !.ino[n] = w.ip])

(* The cells of file n, a hole as zero *)
iread(d, n) ==
    LET cell(b, k) == IF b = 0 THEN Nil ELSE d.blk[b][((k - 1) % BSIZE) + 1]
    IN  [k \in 1 .. d.ino[n].size |-> cell(tdBmap(d, d.ino[n], (k - 1) \div BSIZE, FALSE).b, k)]

tdIalloc(d, type) ==
    LET n == Least({i \in Inodes : d.ino[i].type = "none"})
    IN  [d |-> [d EXCEPT !.ino[n] = [NoInode EXCEPT !.type = type, !.nlink = 1], !.fi = @ - 1], n |-> n]

(***************************************************************************)
(* Names                                                                   *)
(***************************************************************************)
(* Where a directory with these cells has an entry n *)
called(cells, n) == {k \in DOMAIN cells : cells[k][1] = n}

lookup(d, dir, n) ==
    With(iread(d, dir), LAMBDA cells : IF called(cells, n) = {} THEN 0 ELSE cells[Least(called(cells, n))][2])

link_name(d, dir, name, n) ==
    LET place(cells) == IF called(cells, Nil[1]) = {} THEN Len(cells) ELSE Least(called(cells, Nil[1])) - 1
    IN  iwrite(d, dir, <<Entry(name, n)>>, place(iread(d, dir)))

(* The entry in the parent and the link that ".." is *)
intoParent(d, parent, name, n) ==
    [link_name(d, parent, name, n) EXCEPT !.ino[parent].nlink = @ + 1]

(* name is "" for the root *)
mkdir_in(d, parent, name) ==
    With(tdIalloc(d, "dir"), LAMBDA a :
        With(link_name(link_name(a.d, a.n, ".", a.n), a.n, "..", IF parent = 0 THEN a.n ELSE parent), LAMBDA e :
            With([e EXCEPT !.ino[a.n].nlink = 2], LAMBDA f :
                [d |-> IF name = "" THEN f ELSE intoParent(f, parent, name, a.n), n |-> a.n])))

(* The directory that all of path but its last name leads to, made where   *)
(* it is not there                                                         *)
RECURSIVE resolve(_, _, _)
resolve(d, cur, path) ==
    IF Len(path) = 1 THEN [d |-> d, n |-> cur]
    ELSE With(lookup(d, cur, Head(path)), LAMBDA next :
            With(IF next # 0 THEN [d |-> d, n |-> next] ELSE mkdir_in(d, cur, Head(path)), LAMBDA x :
                resolve(x.d, x.n, Tail(path))))

(* A file, or a link with its target as the data *)
addNode(d, path, type, data) ==
    With(resolve(d, Root, path), LAMBDA r :
        With(tdIalloc(r.d, type), LAMBDA a : iwrite(link_name(a.d, r.n, Last(path), a.n), a.n, data, 0)))

add_file(d, path, data) == addNode(d, path, "file", data)

add_dir(d, path) ==
    With(resolve(d, Root, path), LAMBDA r :
        IF lookup(r.d, r.n, Last(path)) # 0 THEN r.d ELSE mkdir_in(r.d, r.n, Last(path)).d)

add_link(d, path, target) == addNode(d, path, "link", target)

create ==
    mkdir_in([bm  |-> {}, fb |-> NBlocks, fi |-> NInodes,
              ino |-> [i \in Inodes |-> NoInode], blk |-> [b \in Blocks |-> ZeroBlock]], 0, "").d

(* The image that the arguments after the options make, in their order *)
RECURSIVE image(_, _)
image(d, args) ==
    LET a == Head(args)
    IN  IF args = <<>> THEN d
        ELSE image(CASE a.kind = "file" -> add_file(d, a.path, a.data)
                     [] a.kind = "dir"  -> add_dir(d, a.path)
                     [] a.kind = "link" -> add_link(d, a.path, a.data), Tail(args))

(* What tdisk -x writes for the file at path, <<>> for no file *)
RECURSIVE extract(_, _, _)
extract(d, cur, path) ==
    IF cur = 0 THEN <<>>
    ELSE IF path = <<>> THEN IF d.ino[cur].type = "file" THEN iread(d, cur) ELSE <<>>
    ELSE extract(d, lookup(d, cur, Head(path)), Tail(path))

------------------------------------------------------------------------------
(***************************************************************************)
(* The disk file system (tfs.c), its vnodes (vfs.c) and the system calls   *)
(* that reach it (file.c), for one file system mounted on a directory of   *)
(* another.  No call sleeps, so that a call is one step of its process;    *)
(* but a call is many sector writes, and the machine may stop after any of *)
(* them.  Every operator below takes the state t of a call that is under   *)
(* way and returns it changed: t.d is the disk, t.c the counts and hints   *)
(* kept in memory, t.v the vnodes, and t.log the disk after each write of   *)
(* the call so far.                                                        *)
(*                                                                         *)
(* Left out besides what Image leaves out: disk errors and a kernel heap   *)
(* that is full.                                                           *)
(***************************************************************************)

CONSTANTS Procs,     \* processes
          Bytes,     \* what programs write
          Made       \* the argument lists with which tdisk made the disk

VARIABLES disk,      \* what the sectors hold
          core,      \* Tfs: free counts and allocation hints
          vn,        \* the vnode of an inode; ref 0 when it has none
          cwd, fd,   \* what a process is in and has open; 0 when elsewhere
          mounted,   \* the file system is mounted
          torn,      \* the machine stopped in a call, which was to leave the
                     \* inodes kept their names
          fragile,   \* the machine may stop in a call
          files      \* auxiliary: the files the disk stands for

vars == <<disk, core, vn, cwd, fd, mounted, torn, fragile, files>>

NoVnode == [ref |-> 0, type |-> "none", nlink_zero |-> FALSE]
Whole   == [is |-> FALSE, kept |-> {}]

(***************************************************************************)
(* Sectors: bwrite goes through the cache to the disk                      *)
(***************************************************************************)
bwrite(t, d) == [t EXCEPT !.d = d, !.log = Append(@, d)]

writeBlock(t, b, cells) == bwrite(t, [t.d EXCEPT !.blk[b] = cells])

sb_sync(t) == bwrite(t, [t.d EXCEPT !.fb = t.c.fb, !.fi = t.c.fi])

iget(t, i) == t.d.ino[i]

iput(t, i, ip) == bwrite(t, [t.d EXCEPT !.ino[i] = ip])

(* The first member of S at or after hint h, else the first of all *)
fromHint(S, h) == IF \E x \in S : x >= h THEN Least({x \in S : x >= h}) ELSE Least(S)

balloc(t) ==
    LET free == Blocks \ t.d.bm
    IN  IF t.c.fb = 0 \/ free = {}
        THEN [t |-> t, b |-> 0]
        ELSE With(fromHint(free, t.c.bhint), LAMBDA b :
                With(writeBlock(bwrite(t, [t.d EXCEPT !.bm = @ \cup {b}]), b, ZeroBlock), LAMBDA u :
                    [t |-> [sb_sync([u EXCEPT !.c.fb = @ - 1]) EXCEPT !.c.bhint = b + 1], b |-> b]))

bfree(t, b) ==
    IF b \notin t.d.bm THEN t
    ELSE LET t1 == bwrite(t, [t.d EXCEPT !.bm = @ \ {b}])
         IN  sb_sync([t1 EXCEPT !.c.fb = @ + 1])

(***************************************************************************)
(* The blocks of a file                                                    *)
(***************************************************************************)
(* Entry idx of the index block *slot, both allocated if asked for *)
ind_entry(t, slot, idx, alloc) ==
    With(IF slot # 0 \/ ~alloc THEN [t |-> t, b |-> slot] ELSE balloc(t), LAMBDA a :
        CASE a.b = 0 -> [t |-> a.t, slot |-> 0, b |-> 0]
          [] a.b # 0 /\ (a.t.d.blk[a.b][idx + 1][2] # 0 \/ ~alloc) ->
               [t |-> a.t, slot |-> a.b, b |-> a.t.d.blk[a.b][idx + 1][2]]
          [] OTHER -> With(balloc(a.t), LAMBDA n :
               [t |-> IF n.b = 0 THEN n.t ELSE writeBlock(n.t, a.b, [n.t.d.blk[a.b] EXCEPT ![idx + 1] = Pointer(n.b)]),
                slot |-> a.b, b |-> n.b]))

(* Block number fb of inode i, whose copy in memory is ip *)
bmap(t, i, ip, fb, alloc) ==
    LET k == fb - NDIRECT - NIND
        Changed(u, jp, b) == [t |-> IF jp = ip THEN u ELSE iput(u, i, jp), ip |-> jp, b |-> b]
    IN  CASE fb < NDIRECT ->
               With(IF ip.direct[fb + 1] # 0 \/ ~alloc THEN [t |-> t, b |-> ip.direct[fb + 1]] ELSE balloc(t), LAMBDA a :
                   Changed(a.t, [ip EXCEPT !.direct[fb + 1] = a.b], a.b))
          [] fb \in NDIRECT .. NDIRECT + NIND - 1 ->
               With(ind_entry(t, ip.ind, fb - NDIRECT, alloc), LAMBDA e : Changed(e.t, [ip EXCEPT !.ind = e.slot], e.b))
          [] fb \in NDIRECT + NIND .. MAXFB - 1 ->
               With(ind_entry(t, ip.dind, k \div NIND, alloc), LAMBDA mid :
                   With(IF mid.b = 0 THEN mid ELSE ind_entry(mid.t, mid.b, k % NIND, alloc), LAMBDA e :
                       Changed(e.t, [ip EXCEPT !.dind = mid.slot], e.b)))
          [] OTHER -> Changed(t, ip, 0)

RECURSIVE readLoop(_, _, _, _)
readLoop(d, i, ip, fb) ==
    LET cells(b) == IF b = 0 THEN ZeroBlock ELSE d.blk[b]
    IN  IF fb * BSIZE >= ip.size THEN <<>>
        ELSE cells(bmap([d |-> d], i, ip, fb, FALSE).b) \o readLoop(d, i, ip, fb + 1)

(* All of inode i; a hole reads as zero *)
readi(d, i) == SubSeq(readLoop(d, i, d.ino[i], 0), 1, d.ino[i].size)

RECURSIVE writeLoop(_, _, _, _, _)
writeLoop(t, i, ip, src, off) ==
    LET o == off % BSIZE
        k == Smaller(BSIZE - o, Len(src))
    IN  IF src = <<>> THEN [t |-> t, ip |-> ip, off |-> off, left |-> src]
        ELSE With(bmap(t, i, ip, off \div BSIZE, TRUE), LAMBDA m :
                IF m.b = 0 THEN [t |-> m.t, ip |-> m.ip, off |-> off, left |-> src]
                ELSE writeLoop(writeBlock(m.t, m.b, splice(m.t.d.blk[m.b], o, SubSeq(src, 1, k))),
                               i, m.ip, SubSeq(src, k + 1, Len(src)), off + k))

writei(t, i, src, off) ==
    With(writeLoop(t, i, iget(t, i), src, off), LAMBDA w :
        [t |-> iput(w.t, i, [w.ip EXCEPT !.size = Larger(@, w.off)]), done |-> Len(src) - Len(w.left)])

(* Frees the blocks from number first on below index block b *)
RECURSIVE free_tree(_, _, _, _)
free_tree(t, b, level, first) ==
    LET span == NIND ^ (level - 1)
        Step(a, i) ==
            LET e  == a.buf[i][2]
                lo == (i - 1) * span
            IN  CASE e = 0                    -> a
                  [] e # 0 /\ lo + span <= first -> [a EXCEPT !.keep = TRUE]
                  [] e # 0 /\ lo + span > first /\ level > 1 ->
                       With(free_tree(a.t, e, level - 1, Larger(first - lo, 0)), LAMBDA s :
                           IF s.keep THEN [a EXCEPT !.t = s.t, !.keep = TRUE] ELSE [a EXCEPT !.t = s.t, !.buf[i] = Nil])
                  [] OTHER -> [a EXCEPT !.t = bfree(a.t, e), !.buf[i] = Nil]
    IN  IF b = 0 THEN [t |-> t, keep |-> FALSE]
        ELSE With(FoldLeft(Step, [t |-> t, buf |-> t.d.blk[b], keep |-> FALSE], [i \in 1 .. NIND |-> i]), LAMBDA r :
                IF r.keep THEN [t |-> writeBlock(r.t, b, r.buf), keep |-> TRUE] ELSE [t |-> bfree(r.t, b), keep |-> FALSE])

(* Slip: the rest of the last block keeps its old bytes *)
keepsTail(t, i, ip, len) == t

(* The end of the last block that stays is cleared *)
clearTail(t, i, ip, len) ==
    IF len % BSIZE = 0 THEN t
    ELSE With(bmap(t, i, ip, len \div BSIZE, FALSE).b, LAMBDA b :
            IF b = 0 THEN t ELSE writeBlock(t, b, splice(ZeroBlock, 0, SubSeq(t.d.blk[b], 1, len % BSIZE))))

(* The inode without the blocks from number first on *)
forget(ip, first, ind, dind) ==
    [ip EXCEPT !.direct = splice(NoInode.direct, 0, SubSeq(@, 1, Smaller(first, NDIRECT))),
               !.ind = IF ind THEN @ ELSE 0, !.dind = IF dind THEN @ ELSE 0]

itrunc(t, i, len) ==
    LET ip    == iget(t, i)
        first == (len + BSIZE - 1) \div BSIZE
        t1    == FoldLeft(LAMBDA a, k : IF k <= first \/ ip.direct[k] = 0 THEN a ELSE bfree(a, ip.direct[k]),
                          t, [k \in 1 .. NDIRECT |-> k])
    IN  IF len >= ip.size THEN iput(t, i, [ip EXCEPT !.size = len])
        ELSE With(free_tree(t1, ip.ind, 1, Larger(first - NDIRECT, 0)), LAMBDA f :
                With(free_tree(f.t, ip.dind, 2, Larger(first - NDIRECT - NIND, 0)), LAMBDA g :
                    With(forget(ip, first, f.keep, g.keep), LAMBDA jp :
                        iput(clearTail(g.t, i, jp, len), i, [jp EXCEPT !.size = len]))))

(***************************************************************************)
(* Inodes and directories                                                  *)
(***************************************************************************)
taken(c, i) == [c EXCEPT !.fi = @ - 1, !.ihint = i + 1]

ialloc(t, type) ==
    LET free == {i \in Inodes : t.d.ino[i].type = "none"}
        take(i) == [t |-> sb_sync([iput(t, i, [NoInode EXCEPT !.type = type, !.nlink = 1]) EXCEPT !.c = taken(@, i)]), i |-> i]
    IN  IF t.c.fi = 0 \/ free = {} THEN [t |-> t, i |-> 0] ELSE take(fromHint(free, t.c.ihint))

ifree(t, i) == sb_sync([iput(itrunc(t, i, 0), i, NoInode) EXCEPT !.c.fi = @ + 1])

(* Where directory dir has an entry n *)
slotsOf(d, dir, n) == called(readi(d, dir), n)

(* The inode that directory dir calls n, 0 for none *)
dirlookup(t, dir, n) ==
    IF t.d.ino[dir].type # "dir" THEN 0
    ELSE With(readi(t.d, dir), LAMBDA cells : IF called(cells, n) = {} THEN 0 ELSE cells[Least(called(cells, n))][2])

dirlink(t, dir, n, i) ==
    LET place(free) == IF free = {} THEN iget(t, dir).size ELSE Least(free) - 1
    IN  With(writei(t, dir, <<Entry(n, i)>>, place(slotsOf(t.d, dir, Nil[1]))), LAMBDA w : [t |-> w.t, ok |-> w.done = 1])

dirclear(t, dir, n) == writei(t, dir, <<Nil>>, Least(slotsOf(t.d, dir, n)) - 1).t

dir_empty(t, dir) == \A e \in ToSet(readi(t.d, dir)) : e[1] \in {Nil[1], ".", ".."}

addLinks(t, i, k) == iput(t, i, [iget(t, i) EXCEPT !.nlink = @ + k])

(***************************************************************************)
(* Vnodes                                                                  *)
(***************************************************************************)
vget(t, i, type) ==
    [t EXCEPT !.v[i] = IF @.ref > 0 THEN [@ EXCEPT !.ref = @ + 1]
                       ELSE [ref |-> 1, type |-> type, nlink_zero |-> FALSE]]

(* t_release: a file without names goes with its last reference *)
vput(t, i) ==
    IF i = 0 THEN t
    ELSE With([t EXCEPT !.v[i].ref = @ - 1], LAMBDA u :
            IF u.v[i].ref > 0 THEN u ELSE [IF u.v[i].nlink_zero THEN ifree(u, i) ELSE u EXCEPT !.v[i] = NoVnode])

(***************************************************************************)
(* The operations of tfs_ops.  ok is FALSE when the caller gets an error.  *)
(***************************************************************************)
t_make(t, dir, n, type) ==
    IF dirlookup(t, dir, n) # 0 THEN [t |-> t, i |-> 0]
    ELSE With(ialloc(t, type), LAMBDA a :
            IF a.i = 0 THEN a
            ELSE With(dirlink(a.t, dir, n, a.i), LAMBDA l :
                    IF l.ok THEN [t |-> l.t, i |-> a.i] ELSE [t |-> ifree(l.t, a.i), i |-> 0]))

t_mkdir(t, dir, n) ==
    With(t_make(t, dir, n, "dir"), LAMBDA m :
        IF m.i = 0 THEN m.t
        ELSE With(dirlink(m.t, m.i, ".", m.i), LAMBDA l :
                IF ~l.ok THEN l.t
                ELSE With(dirlink(l.t, m.i, "..", dir), LAMBDA k :
                        IF ~k.ok THEN k.t
                        ELSE addLinks(iput(k.t, m.i, [iget(k.t, m.i) EXCEPT !.nlink = 2]), dir, 1))))

(* The last name of inode i is gone *)
lastLink(t, i) ==
    With(vget(t, i, iget(t, i).type), LAMBDA u :
        IF u.v[i].ref > 1
        THEN vput([u EXCEPT !.v[i].nlink_zero = TRUE], i)
        ELSE ifree(vput([u EXCEPT !.v[i].nlink_zero = FALSE], i), i))

drop_link(t, i) ==
    With(IF iget(t, i).nlink > 0 THEN addLinks(t, i, -1) ELSE t, LAMBDA u :
        IF iget(u, i).nlink > 0 THEN u ELSE lastLink(u, i))

(* Slip: the inode goes before the entry that names it *)
dropsFirst(t, dir, n, i) == dirclear(drop_link(t, i), dir, n)

clearAndDrop(t, dir, n, i) == drop_link(dirclear(t, dir, n), i)

t_unlink(t, dir, n) ==
    With(dirlookup(t, dir, n), LAMBDA i :
        IF i = 0 \/ iget(t, i).type = "dir" THEN [t |-> t, ok |-> FALSE]
        ELSE [t |-> clearAndDrop(t, dir, n, i), ok |-> TRUE])

t_rmdir(t, dir, n) ==
    With(dirlookup(t, dir, n), LAMBDA i :
        IF i = 0 \/ iget(t, i).type # "dir" \/ ~dir_empty(t, i) THEN [t |-> t, ok |-> FALSE]
        ELSE With(addLinks(dirclear(t, dir, n), dir, -1), LAMBDA u :
                [t |-> drop_link(iput(u, i, [iget(u, i) EXCEPT !.nlink = 1]), i), ok |-> TRUE]))

(* The new name is there before the old one goes *)
moveName(t, odir, on, ndir, nn, i) ==
    With(dirlink(t, ndir, nn, i), LAMBDA l : IF l.ok THEN [t |-> dirclear(l.t, odir, on), ok |-> TRUE] ELSE l)

(* A directory that moves has another parent *)
reparent(t, i, odir, ndir) ==
    addLinks(addLinks(dirlink(IF dirlookup(t, i, "..") = 0 THEN t ELSE dirclear(t, i, ".."), i, "..", ndir).t, odir, -1), ndir, 1)

t_rename(t, odir, on, ndir, nn) ==
    LET isdir(i) == iget(t, i).type = "dir"
    IN  With(dirlookup(t, odir, on), LAMBDA s :
            With(dirlookup(t, ndir, nn), LAMBDA o :
                IF s = 0 \/ s = o \/ (o # 0 /\ isdir(s) # isdir(o)) THEN t
                ELSE With(IF o = 0 THEN [t |-> t, ok |-> TRUE]
                          ELSE IF isdir(o) THEN t_rmdir(t, ndir, nn) ELSE t_unlink(t, ndir, nn), LAMBDA r :
                        IF ~r.ok THEN t
                        ELSE With(moveName(r.t, odir, on, ndir, nn, s), LAMBDA m :
                                IF m.ok /\ isdir(s) /\ odir # ndir THEN reparent(m.t, s, odir, ndir) ELSE m.t))))

t_link(t, dir, n, i) ==
    IF dirlookup(t, dir, n) # 0 THEN t
    ELSE With(dirlink(t, dir, n, i), LAMBDA l : IF l.ok THEN addLinks(l.t, i, 1) ELSE l.t)

t_symlink(t, dir, n, target) ==
    With(t_make(t, dir, n, "link"), LAMBDA m : IF m.i = 0 THEN m.t ELSE writei(m.t, m.i, target, 0).t)

(***************************************************************************)
(* What the disk stands for                                                *)
(***************************************************************************)
Entries(d, i) == IF d.ino[i].type # "dir" THEN {} ELSE {e \in ToSet(readi(d, i)) : e # Nil}
Children(d, i) == {e \in Entries(d, i) : e[1] \notin {".", ".."}}

(* The directories and files that a path from the root leads to *)
Reach(d) ==
    FoldLeft(LAMBDA R, k : R \cup {e[2] : e \in UNION {Children(d, i) : i \in R}}, {Root}, [k \in 1 .. NInodes |-> k])
Named(d) == {e[2] : e \in UNION {Children(d, i) : i \in Reach(d)}}

Node(d, i) ==
    [kind |-> d.ino[i].type,
     data |-> IF d.ino[i].type = "dir" THEN <<>> ELSE readi(d, i),
     up   |-> IF d.ino[i].type = "dir" THEN dirlookup([d |-> d], i, "..") ELSE 0,
     ents |-> Children(d, i)]
TreeOf(d) == [i \in {j \in Inodes : d.ino[j].type # "none"} |-> Node(d, i)]
Nothing   == [i \in {} |-> 0]

(***************************************************************************)
(* The system calls.  A path is one name in the root of the file system or *)
(* in the current directory.  The references that a call takes and gives   *)
(* back itself are left out: none is held on an inode it may free.         *)
(***************************************************************************)
Now == [d |-> disk, c |-> core, v |-> vn, log |-> <<>>]

Finish(t, cw, f, victims) ==
    /\ disk' = t.d /\ core' = t.c /\ vn' = t.v /\ cwd' = cw /\ fd' = f
    /\ files' = IF torn.is THEN Nothing ELSE TreeOf(t.d)
    /\ torn' = [torn EXCEPT !.kept = @ \ victims]
    /\ UNCHANGED <<mounted, fragile>>

NoCore == [fb |-> 0, fi |-> 0, bhint |-> 0, ihint |-> 0]
Nobody == [p \in Procs |-> 0]

(* The machine stops after one of the writes of a call: the emulator is    *)
(* ended or the kernel faults.                                             *)
Crash(t, victims) ==
    /\ fragile /\ UNCHANGED fragile
    /\ core' = NoCore /\ vn' = [i \in Inodes |-> NoVnode]
    /\ cwd' = Nobody /\ fd' = Nobody /\ mounted' = FALSE
    /\ torn' = [is |-> TRUE, kept |-> Named(disk) \ victims]
    /\ disk' \in ToSet(t.log) /\ files' = Nothing

Call(t, cw, f, victims) == \E u \in {t} : Finish(u, cw, f, victims) \/ Crash(u, victims)

InPath(p, dir) == mounted /\ dir \in {Root, cwd[p]} \ {0}

Open(p, dir, n, creat, trunc) ==
    /\ InPath(p, dir) /\ fd[p] = 0
    /\ \E old \in {dirlookup(Now, dir, n)} :
         /\ old # 0 => iget(Now, old).type = "file"
         /\ old # 0 \/ creat
         /\ \E m \in {IF old # 0 THEN [t |-> Now, i |-> old] ELSE t_make(Now, dir, n, "file")} :
              Call(IF m.i = 0 THEN m.t
                   ELSE With(vget(m.t, m.i, iget(m.t, m.i).type), LAMBDA u : IF trunc THEN itrunc(u, m.i, 0) ELSE u),
                   cwd, IF m.i = 0 THEN fd ELSE [fd EXCEPT ![p] = m.i], {})

Close(p) == fd[p] # 0 /\ Call(vput(Now, fd[p]), cwd, [fd EXCEPT ![p] = 0], {})

(* f->off is where an lseek has left it *)
Write(p, off, src) == fd[p] # 0 /\ Call(writei(Now, fd[p], src, off).t, cwd, fd, {})

Ftruncate(p, len) == fd[p] # 0 /\ Call(itrunc(Now, fd[p], len), cwd, fd, {})

Mkdir(p, dir, n) ==
    /\ InPath(p, dir) /\ dirlookup(Now, dir, n) = 0
    /\ Call(t_mkdir(Now, dir, n), cwd, fd, {})

(* sys_unlink removes directories too, sys_rmdir nothing else *)
Unlink(p, dir, n, rmdir) ==
    /\ InPath(p, dir)
    /\ \E i \in {dirlookup(Now, dir, n)} \ {0} :
         LET isdir == iget(Now, i).type = "dir"
         IN  /\ rmdir => isdir
             /\ Call(IF isdir THEN t_rmdir(Now, dir, n).t ELSE t_unlink(Now, dir, n).t, cwd, fd, {i})

RECURSIVE climb(_, _, _)
climb(a, d, depth) ==
    IF d = a THEN TRUE
    ELSE IF d \in {0, Root} \/ depth = 0 THEN FALSE ELSE climb(a, dirlookup(Now, d, ".."), depth - 1)

is_ancestor(a, d) == climb(a, d, NInodes)

Rename(p, od, on, nd, nn) ==
    /\ InPath(p, od) /\ InPath(p, nd)
    /\ \E s \in {dirlookup(Now, od, on)} : s # 0 /\ (iget(Now, s).type = "dir" => ~is_ancestor(s, nd))
    /\ Call(t_rename(Now, od, on, nd, nn), cwd, fd, {dirlookup(Now, nd, nn)} \ {0})

Link(p, od, on, nd, nn) ==
    /\ InPath(p, od) /\ InPath(p, nd)
    /\ \E s \in {dirlookup(Now, od, on)} \ {0} :
         iget(Now, s).type # "dir" /\ Call(t_link(Now, nd, nn, s), cwd, fd, {})

Symlink(p, dir, n, target) ==
    /\ InPath(p, dir) /\ dirlookup(Now, dir, n) = 0
    /\ Call(t_symlink(Now, dir, n, target), cwd, fd, {})

(* The new directory is taken before the old one is given back; "." in the *)
(* root of the file system is the way in                                   *)
Chdir(p, dir, n) ==
    /\ InPath(p, dir)
    /\ \E i \in {IF n = "." THEN dir ELSE dirlookup(Now, dir, n)} \ {0} :
         /\ iget(Now, i).type = "dir"
         /\ Call(vput(vget(Now, i, "dir"), cwd[p]), [cwd EXCEPT ![p] = i], fd, {})

(* chdir to another file system *)
Leave(p) == cwd[p] # 0 /\ Call(vput(Now, cwd[p]), [cwd EXCEPT ![p] = 0], fd, {})

(* A vnode has references besides the mount's own of the root *)
fs_busy(v) == \E i \in Inodes : v[i].ref > (IF i = Root THEN 1 ELSE 0)

Mount ==
    /\ ~mounted
    /\ mounted' = TRUE
    /\ core' = [fb |-> disk.fb, fi |-> disk.fi, bhint |-> 0, ihint |-> 0]
    /\ vn' = [vn EXCEPT ![Root] = [ref |-> 1, type |-> "dir", nlink_zero |-> FALSE]]
    /\ UNCHANGED <<disk, cwd, fd, torn, fragile, files>>

Umount ==
    /\ mounted /\ ~fs_busy(vn)
    /\ mounted' = FALSE /\ core' = NoCore
    /\ vn' = [vn EXCEPT ![Root] = NoVnode]
    /\ UNCHANGED <<disk, cwd, fd, torn, fragile, files>>

Init ==
    /\ disk \in {image(create, args) : args \in Made} /\ core = NoCore /\ vn = [i \in Inodes |-> NoVnode]
    /\ cwd = Nobody /\ fd = Nobody /\ mounted = FALSE /\ torn = Whole /\ fragile \in BOOLEAN
    /\ files = TreeOf(disk)

(***************************************************************************)
(* What holds                                                              *)
(***************************************************************************)
TypeOK ==
    /\ disk.bm \subseteq Blocks /\ disk.fb \in 0 .. NBlocks /\ disk.fi \in 0 .. NInodes - 1
    /\ \A i \in Inodes : disk.ino[i].type \in {"none", "file", "dir", "link"} /\ disk.ino[i].nlink \in 0 .. 2 * NInodes
    /\ core.fb \in 0 .. NBlocks /\ core.fi \in 0 .. NInodes - 1
    /\ \A i \in Inodes : vn[i].ref \in 0 .. 2 * Cardinality(Procs) + 1
    /\ cwd \in [Procs -> {0} \cup Inodes] /\ fd \in [Procs -> {0} \cup Inodes]
    /\ mounted \in BOOLEAN /\ torn.is \in BOOLEAN /\ torn.kept \subseteq Inodes
    /\ files = IF torn.is THEN Nothing ELSE TreeOf(disk)

(* Where inodes I refer to blocks: <<place, block>> *)
Uses(d, I) ==
    LET At(b, i, l, j) == IF b = 0 THEN {} ELSE {<<<<i, l, j, k>>, d.blk[b][k][2]>> : k \in 1 .. NIND}
        Of(i) == LET ip == d.ino[i]
                 IN  {<<<<i, 0, 0, k>>, ip.direct[k]>> : k \in 1 .. NDIRECT}
                       \cup {<<<<i, 1, 0, 0>>, ip.ind>>, <<<<i, 2, 0, 0>>, ip.dind>>}
                       \cup At(ip.ind, i, 3, 0) \cup At(ip.dind, i, 4, 0)
                       \cup UNION {At(u[2], i, 5, u[1][4]) : u \in At(ip.dind, i, 4, 0)}
    IN  {u \in UNION {Of(i) : i \in I} : u[2] # 0}

(* No block belongs to two files or twice to one, and no block in use can  *)
(* be allocated again: for what paths lead to and processes have open, and *)
(* also on a disk on which a call was cut short (balloc marks a block      *)
(* before bmap points to it, t_unlink takes the name before the blocks).   *)
BlocksSafe ==
    LET U == Uses(disk, Reach(disk) \cup (({cwd[p] : p \in Procs} \cup {fd[p] : p \in Procs}) \ {0}))
    IN  /\ \A u, w \in U : u[2] = w[2] => u = w
        /\ \A u \in U : u[2] \in disk.bm

(* Nothing is lost between calls: a block is marked exactly when an inode  *)
(* refers to it, and the counts of the superblock, and those in memory,    *)
(* are right (balloc, bfree, ialloc, ifree on every path of every call).   *)
SpaceCounted ==
    ~torn.is =>
        /\ disk.bm = {u[2] : u \in Uses(disk, Inodes)}
        /\ disk.fb = NBlocks - Cardinality(disk.bm)
        /\ disk.fi = Cardinality({i \in Inodes : disk.ino[i].type = "none"})
        /\ mounted => core.fb = disk.fb /\ core.fi = disk.fi

(* The link count of a file is the number of its names, that of a          *)
(* directory two more than its directories, none once it is removed.       *)
LinksCounted ==
    LET names(i) == {<<d, n>> \in Inodes \X Names : Entry(n, i) \in Entries(disk, d)}
        subs(i)  == {e \in Children(disk, i) : disk.ino[e[2]].type = "dir"}
    IN  ~torn.is =>
          \A i \in Inodes :
             disk.ino[i].nlink =
                CASE disk.ino[i].type = "none" -> 0
                  [] disk.ino[i].type = "dir"  -> IF i = Root \/ names(i) # {} THEN 2 + Cardinality(subs(i)) ELSE 0
                  [] OTHER -> Cardinality(names(i))

(* The vnode of an inode counts its holders, has the type the inode has,   *)
(* and knows whether the inode has names; an inode without names is there  *)
(* only while somebody holds it (drop_link, t_release).                    *)
VnodesAgree ==
    mounted =>
        \A i \in Inodes :
            /\ vn[i].ref = Cardinality({p \in Procs : cwd[p] = i}) + Cardinality({p \in Procs : fd[p] = i})
                             + (IF i = Root THEN 1 ELSE 0)
            /\ vn[i].ref > 0 => vn[i].type = disk.ino[i].type /\ (vn[i].nlink_zero <=> disk.ino[i].nlink = 0)
            /\ ~torn.is /\ disk.ino[i].type # "none" /\ disk.ino[i].nlink = 0 => vn[i].ref > 0

(* Nobody has a file of a file system open that is not mounted *)
BusyStays == ~mounted => \A p \in Procs : cwd[p] = 0 /\ fd[p] = 0

(* Whatever a path leads to is an inode in use, also on a disk on which a  *)
(* call was cut short (t_make writes the inode before the entry, t_unlink  *)
(* and t_rmdir clear the entry before they free the inode).                *)
EntriesAlive == \A i \in Reach(disk) : \A e \in Entries(disk, i) : disk.ino[e[2]].type # "none"

(* A stop in a call takes the name of no file that the call was not to      *)
(* remove: a file that is being renamed has one of its names at any time.  *)
NamesSurvive == torn.kept \subseteq Named(disk)

(* What has a name can be reached from the root: no rename puts a          *)
(* directory below itself (is_ancestor).                                   *)
NothingAdrift ==
    ~torn.is => {i \in Inodes : disk.ino[i].nlink > 0} \subseteq Reach(disk)

(* tdisk finds in the image what the kernel finds: the two follow paths,   *)
(* pointers and holes with code of their own (iread, bmap of tdisk.c).     *)
HostAgrees ==
    ~torn.is => \A n, k \in Names :
        \E i \in {dirlookup(Now, Root, n)} : \E j \in {IF i = 0 THEN 0 ELSE dirlookup(Now, i, k)} :
            /\ i # 0 /\ iget(Now, i).type = "file" => extract(disk, Root, <<n>>) = readi(disk, i)
            /\ j # 0 /\ iget(Now, j).type = "file" => extract(disk, Root, <<n, k>>) = readi(disk, j)

Files == INSTANCE Tree WITH tree <- files, Cells <- {Byte(v) : v \in Bytes}

(* The calls on blocks and entries do to the files what their names say,   *)
(* for every length, hole, full disk and order of removal and close: bytes *)
(* stay as written, a cut and regrown file reads zero, a removed file      *)
(* keeps its contents until the last close, a new file is empty.           *)
IsTree == Files!Spec

(* Whether or not the machine stopped between two sector writes, and also  *)
(* while a disk with such a half-done call is used further: no block has   *)
(* two owners, an entry names an inode in use, vnodes agree with inodes,   *)
(* and a renamed file keeps a name.  Only where no call was cut short:     *)
(* blocks, inodes and links are counted, nothing hangs off the tree, and   *)
(* the host's tool reads what the kernel reads (tfs.c, tools/tdisk.c).     *)
DiskSound ==
    /\ TypeOK /\ BlocksSafe /\ SpaceCounted /\ LinksCounted /\ VnodesAgree /\ BusyStays
    /\ EntriesAlive /\ NamesSurvive /\ NothingAdrift /\ HostAgrees
==============================================================================
