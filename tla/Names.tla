-------------------------------- MODULE Names --------------------------------
(***************************************************************************)
(* Namespaces (os/kernel/ns.c), the table of vnodes and the mounting of    *)
(* file systems (vfs.c), the file system in memory (ramfs.c) and the calls *)
(* of file.c and proc.c that go through them.  Every file system is a      *)
(* ramfs, so no call sleeps; the calls over a 9P server are in P9.  The    *)
(* operations take the record t of the kernel's state and give the next.   *)
(*   t.ns    the namespaces: ref, m (the entries: key, old, mem)           *)
(*   t.p     the processes that run: ns, cwd, key, path, file              *)
(*   t.file  the open files: ref, v, un                                    *)
(*   t.v     the vnodes there are: ref, zero (nlink_zero), mounted         *)
(*   t.node  the nodes there are: type, nlink, ents (names in order), up,  *)
(*           size, at (the pages that are there), target (of a link)       *)
(*   t.fs    the file systems: covered, next (ino), used (pages)           *)
(*   t.says  what each file should hold, by byte                           *)
(* A vnode is <<fs, ino>>, a path [abs, names].  Left out: the device      *)
(* names #c, times, owners and permissions (the callers are the super      *)
(* user), an exhausted kernel heap, mknod and the limits of name and path  *)
(* lengths.                                                                *)
(***************************************************************************)
EXTENDS Integers, Sequences, FiniteSets, SequencesExt, TLC

CONSTANTS PAGE,           \* bytes of a page
          LIMIT,          \* pages a file system may use
          Procs, Init1,   \* the processes; the first one
          NMNT, NMEMB,    \* entries of a namespace, members of an entry
          NFS             \* file systems at a time

NoVnode == <<0, 0>>

(* The error of a call is recorded; "" is success *)
Err(t, e) == [t EXCEPT !.r = e]
With(x, f(_)) == f(x)
Without(f, x) == [y \in DOMAIN f \ {x} |-> f[y]]

(***************************************************************************)
(* Vnodes                                                                  *)
(***************************************************************************)
vref(t, v) == [t EXCEPT !.v[v].ref = @ + 1]

vget(t, v) ==
    IF v \in DOMAIN t.v THEN vref(t, v)
    ELSE [t EXCEPT !.v = @ @@ v :> [ref |-> 1, zero |-> FALSE, mounted |-> 0]]

(* free_data and the node itself *)
free(t, v) ==
    [t EXCEPT !.fs[v[1]].used = @ - Cardinality(DOMAIN t.node[v].at),
              !.node = Without(@, v), !.says = Without(@, v)]

r_release(t, v) == IF t.v[v].zero THEN free(t, v) ELSE t

vput(t, v) ==
    IF t.v[v].ref > 1 THEN [t EXCEPT !.v[v].ref = @ - 1]
    ELSE [r_release(t, v) EXCEPT !.v = Without(@, v)]

vputAll(t, s) == FoldSeq(LAMBDA v, u : vput(u, v), t, s)

Type(t, v) == t.node[v].type

(***************************************************************************)
(* Directories                                                             *)
(***************************************************************************)
Entry(name, v) == [name |-> name, v |-> v]
NewNode(type, up) == [type |-> type, nlink |-> IF type = "dir" THEN 2 ELSE 1, ents |-> <<>>, up |-> up,
                      size |-> 0, at |-> <<>>, target |-> <<>>]

(* NoVnode when there is none *)
find_ent(t, d, name) ==
    LET s == SelectSeq(t.node[d].ents, LAMBDA e : e.name = name) IN IF s = <<>> THEN NoVnode ELSE s[1].v

Has(t, d, name) == find_ent(t, d, name) # NoVnode

add_ent(t, d, name, v) == [t EXCEPT !.node[d].ents = Append(@, Entry(name, v))]
del_ent(t, d, name)    == [t EXCEPT !.node[d].ents = SelectSeq(@, LAMBDA e : e.name # name)]

maybe_free(t, v) ==
    IF t.node[v].nlink > 0 THEN t
    ELSE IF v \in DOMAIN t.v THEN [t EXCEPT !.v[v].zero = TRUE]
    ELSE free(t, v)

r_up(t, d) == IF t.node[d].up = NoVnode THEN d ELSE t.node[d].up

make(t, d, name, type) ==
    LET f == d[1]
        v == <<f, t.fs[f].next>>
    IN  IF Has(t, d, name) THEN Err(t, "EEXIST")
        ELSE add_ent([t EXCEPT !.fs[f].next = @ + 1, !.node = @ @@ v :> NewNode(type, d),
                               !.says = @ @@ v :> <<>>], d, name, v)

r_mkdir(t, d, name) ==
    With(make(t, d, name, "dir"), LAMBDA u : IF u.r # "" THEN u ELSE [u EXCEPT !.node[d].nlink = @ + 1])

unlinkUp(t, d) == [t EXCEPT !.node[d].nlink = @ - 1]

remove_ent(t, d, name, wantdir) ==
    With(find_ent(t, d, name), LAMBDA v :
        CASE v = NoVnode -> Err(t, "ENOENT")
          [] wantdir /\ Type(t, v) # "dir" -> Err(t, "ENOTDIR")
          [] ~wantdir /\ Type(t, v) = "dir" -> Err(t, "EISDIR")
          [] wantdir /\ t.node[v].ents # <<>> -> Err(t, "ENOTEMPTY")
          [] OTHER -> With(del_ent(t, d, name), LAMBDA u :
                maybe_free(IF wantdir THEN [unlinkUp(u, d) EXCEPT !.node[v].nlink = 0]
                           ELSE [u EXCEPT !.node[v].nlink = @ - 1], v)))

moved(t, od, nd, v) ==
    IF Type(t, v) # "dir" \/ od = nd THEN t
    ELSE [unlinkUp(t, od) EXCEPT !.node[nd].nlink = @ + 1, !.node[v].up = nd]

r_rename(t, od, on, nd, nn) ==
    LET replaced(v, o) == IF o = NoVnode THEN t
                          ELSE IF Type(t, v) = "dir" /\ Type(t, o) # "dir" THEN Err(t, "ENOTDIR")
                          ELSE IF Type(t, v) # "dir" /\ Type(t, o) = "dir" THEN Err(t, "EISDIR")
                          ELSE remove_ent(t, nd, nn, Type(t, o) = "dir")
    IN  With(find_ent(t, od, on), LAMBDA v :
            CASE v = NoVnode -> Err(t, "ENOENT")
              [] find_ent(t, nd, nn) = v -> t
              [] OTHER -> With(replaced(v, find_ent(t, nd, nn)), LAMBDA u :
                    IF u.r # "" THEN u ELSE moved(add_ent(del_ent(u, od, on), nd, nn, v), od, nd, v)))

r_link(t, d, name, v) ==
    IF Has(t, d, name) THEN Err(t, "EEXIST")
    ELSE [add_ent(t, d, name, v) EXCEPT !.node[v].nlink = @ + 1]

(* r_write of the target, which needs a page *)
r_symlink(t, d, name, target) ==
    With(make(t, d, name, "lnk"), LAMBDA u :
        CASE u.r # "" -> u
          [] u.r = "" /\ u.fs[d[1]].used >= LIMIT -> Err(u, "ENOSPC")
          [] OTHER -> [u EXCEPT !.node[find_ent(u, d, name)] =
                                   [@ EXCEPT !.target = target, !.at = 0 :> [o \in 0 .. PAGE - 1 |-> 0], !.size = 1],
                                !.fs[d[1]].used = @ + 1])

(***************************************************************************)
(* Data                                                                    *)
(***************************************************************************)
Upper(a, b) == IF a > b THEN a ELSE b
Least(S)    == CHOOSE x \in S : \A y \in S : x <= y

r_read(t, v) ==
    LET x == t.node[v]
    IN  [k \in 1 .. x.size |-> LET q == (k - 1) \div PAGE
                               IN  IF q \in DOMAIN x.at THEN x.at[q][(k - 1) % PAGE] ELSE 0]

(* src from off on, up to the first page there is no room for *)
r_write(t, v, src, off) ==
    LET x    == t.node[v]
        n    == Len(src)
        need == {q \in off \div PAGE .. (off + n - 1) \div PAGE : n > 0 /\ q \notin DOMAIN x.at}
        room == LIMIT - t.fs[v[1]].used
        late == {q \in need : Cardinality({q2 \in need : q2 < q}) >= room}
        end  == IF late = {} THEN off + n ELSE Upper(off, Least(late) * PAGE)
        new  == need \ late
        page(q) == [o \in 0 .. PAGE - 1 |->
                       IF q * PAGE + o \in off .. end - 1 THEN src[q * PAGE + o - off + 1]
                       ELSE IF q \in DOMAIN x.at THEN x.at[q][o] ELSE 0]
        was  == t.says[v]
    IN  [t EXCEPT !.node[v].at   = [q \in DOMAIN x.at \cup new |-> page(q)],
                  !.node[v].size = Upper(@, end),
                  !.fs[v[1]].used = @ + Cardinality(new),
                  !.says[v] = [k \in 1 .. Upper(Len(was), end) |->
                                  IF k \in off + 1 .. end THEN src[k - off] ELSE IF k <= Len(was) THEN was[k] ELSE 0],
                  !.r = IF end = off /\ n > 0 THEN "ENOSPC" ELSE ""]

cut(x, len) ==
    [q \in {q \in DOMAIN x.at : q * PAGE < len} |->
        [o \in 0 .. PAGE - 1 |-> IF q * PAGE + o < len THEN x.at[q][o] ELSE 0]]

r_truncate(t, v, len) ==
    LET x  == t.node[v]
        at == IF len < x.size THEN cut(x, len) ELSE x.at
        was == t.says[v]
    IN  [t EXCEPT !.node[v].at = at, !.node[v].size = len,
                  !.fs[v[1]].used = @ - Cardinality(DOMAIN x.at \ DOMAIN at),
                  !.says[v] = [k \in 1 .. len |-> IF k <= Len(was) THEN was[k] ELSE 0]]

(***************************************************************************)
(* ramfs_mount, ramfs_umount                                               *)
(***************************************************************************)
NoFs == [covered |-> NoVnode, next |-> 2, used |-> 0]

ramfs_mount(t, f) ==
    [vget(t, <<f, 1>>) EXCEPT !.fs = @ @@ f :> NoFs, !.node = @ @@ <<f, 1>> :> NewNode("dir", NoVnode),
                              !.says = @ @@ <<f, 1>> :> <<>>]

(* free_tree reaches the nodes that have names; the others stay *)
RECURSIVE below(_, _)
below(t, d) == {d} \cup UNION {IF Type(t, e.v) = "dir" THEN below(t, e.v) ELSE {e.v} : e \in Range(t.node[d].ents)}

ramfs_umount(t, f) ==
    LET keep == DOMAIN t.node \ below(t, <<f, 1>>)
    IN  [t EXCEPT !.node = [v \in keep |-> @[v]], !.says = [v \in keep |-> @[v]], !.fs = Without(@, f)]

(***************************************************************************)
(* The state at the start                                                  *)
(***************************************************************************)
VARIABLE k

rootvn == <<1, 1>>
Boot == 1
Member(v, name, create, mfs) == [v |-> v, name |-> name, create |-> create, mfs |-> mfs]

Init ==
    k = [r |-> "", ns |-> Boot :> [ref |-> 2, m |-> <<>>], file |-> <<>>,
         p |-> Init1 :> [ns |-> Boot, cwd |-> rootvn, key |-> rootvn, path |-> <<>>, file |-> 0],
         v |-> rootvn :> [ref |-> 4, zero |-> FALSE, mounted |-> 0],
         node |-> rootvn :> NewNode("dir", NoVnode), says |-> rootvn :> <<>>, fs |-> 1 :> NoFs]

(***************************************************************************)
(* The table of a namespace                                                *)
(***************************************************************************)
find(t, n, key) ==
    LET S == {i \in DOMAIN t.ns[n].m : t.ns[n].m[i].key = key} IN IF S = {} THEN 0 ELSE Least(S)

vnodesOf(e) == Append([j \in DOMAIN e.mem |-> e.mem[j].v], e.key)

remove_entry(t, n, i) == [vputAll(t, vnodesOf(t.ns[n].m[i])) EXCEPT !.ns[n].m = RemoveAt(@, i)]

RECURSIVE remove_all(_, _)
remove_all(t, n) == IF t.ns[n].m = <<>> THEN t ELSE remove_all(remove_entry(t, n, Len(t.ns[n].m)), n)

NewNs(t) == Least((1 .. Cardinality(Procs) + 2) \ DOMAIN t.ns)

ns_clean(t, n) == [t EXCEPT !.ns = @ @@ n :> [ref |-> 1, m |-> <<>>]]

ns_copy(t, n, src) ==
    FoldSeq(LAMBDA e, u : FoldSeq(LAMBDA v, w : vref(w, v), u, vnodesOf(e)),
            [t EXCEPT !.ns = @ @@ n :> [ref |-> 1, m |-> t.ns[src].m]], t.ns[src].m)

ns_put(t, n) ==
    IF t.ns[n].ref > 1 \/ n = Boot THEN [t EXCEPT !.ns[n].ref = @ - 1]
    ELSE [remove_all(t, n) EXCEPT !.ns = Without(@, n)]

(* how: "replace", "before" or "after" *)
emptied(t, n, i) == [vputAll(t, [j \in DOMAIN t.ns[n].m[i].mem |-> t.ns[n].m[i].mem[j].v]) EXCEPT !.ns[n].m[i].mem = <<>>]
entered(t, n, key, old, how) ==
    With([vref(t, key) EXCEPT !.ns[n].m = Append(@, [key |-> key, old |-> old, mem |-> <<>>])], LAMBDA u :
        IF how = "replace" THEN u
        ELSE [vref(u, key) EXCEPT !.ns[n].m[Len(u.ns[n].m)].mem = <<Member(key, old, FALSE, FALSE)>>])

addMember(t, n, i, mem, how) ==
    IF Len(t.ns[n].m[i].mem) >= NMEMB THEN Err(t, "ENOSPC")
    ELSE [vref(t, mem.v) EXCEPT !.ns[n].m[i].mem = IF how = "before" THEN <<mem>> \o @ ELSE Append(@, mem)]

ns_add(t, n, key, old, mem, how) ==
    With(find(t, n, key), LAMBDA i :
        IF i = 0 /\ Len(t.ns[n].m) >= NMNT THEN Err(t, "ENOSPC")
        ELSE addMember(IF i = 0 THEN entered(t, n, key, old, how) ELSE IF how = "replace" THEN emptied(t, n, i) ELSE t,
                       n, IF i = 0 THEN Len(t.ns[n].m) + 1 ELSE i, mem, how))

(* Entries and members of file system f leave every namespace *)
RECURSIVE dropMembers(_, _, _, _, _)
dropMembers(t, n, i, j, f) ==
    IF j = 0 THEN t
    ELSE LET v == t.ns[n].m[i].mem[j].v
         IN  dropMembers(IF v[1] = f THEN [vput(t, v) EXCEPT !.ns[n].m[i].mem = RemoveAt(@, j)] ELSE t, n, i, j - 1, f)

RECURSIVE dropEntries(_, _, _, _)
dropEntries(t, n, i, f) ==
    IF i = 0 THEN t
    ELSE With(IF t.ns[n].m[i].key[1] = f THEN t ELSE dropMembers(t, n, i, Len(t.ns[n].m[i].mem), f), LAMBDA u :
            dropEntries(IF u.ns[n].m[i].key[1] = f \/ u.ns[n].m[i].mem = <<>> THEN remove_entry(u, n, i) ELSE u, n, i - 1, f))

ns_drop_fs(t, f) == FoldSeq(LAMBDA n, u : dropEntries(u, n, Len(u.ns[n].m), f), t, SetToSeq(DOMAIN t.ns))

ns_fs_refs(t, v) ==
    LET refs(e) == Cardinality({j \in DOMAIN e.mem : e.mem[j].v = v}) + (IF e.key = v THEN 1 ELSE 0)
    IN  FoldSeq(LAMBDA n, a : FoldSeq(LAMBDA e, b : b + refs(e), a, t.ns[n].m), 0, SetToSeq(DOMAIN t.ns))

(***************************************************************************)
(* vfs_walk.  The walk w keeps the places (keys) and what they show (vs)   *)
(* on the way, both referred to; path is the name of the last.             *)
(***************************************************************************)
apply(t, n, v) == With(find(t, n, v), LAMBDA i : IF i > 0 THEN t.ns[n].m[i].mem[1].v ELSE v)

(* The first member of a union that has the name *)
lookup_in(t, n, key, v, name) ==
    LET first(ms) == IF ms = <<>> THEN NoVnode ELSE find_ent(t, ms[1].v, name)
    IN  With(find(t, n, key), LAMBDA i :
            IF i > 0 /\ Len(t.ns[n].m[i].mem) > 1
            THEN first(SelectSeq(t.ns[n].m[i].mem, LAMBDA m : Type(t, m.v) = "dir" /\ Has(t, m.v, name)))
            ELSE find_ent(t, v, name))

Follow == [follow |-> TRUE, parent |-> FALSE, nomnt |-> FALSE]
NoMnt  == [Follow EXCEPT !.nomnt = TRUE]
Parent == [Follow EXCEPT !.parent = TRUE]
NoLink == [Follow EXCEPT !.follow = FALSE]

Fail(w, e) == [w EXCEPT !.r = e, !.p = <<>>]
atRoot(w, n) == With(apply(w.t, n, rootvn), LAMBDA v :
                    [w EXCEPT !.t = vref(vref(w.t, rootvn), v), !.keys = <<rootvn>>, !.vs = <<v>>, !.path = <<>>])
dropped(w)   == [w EXCEPT !.t = vputAll(vputAll(w.t, w.keys), w.vs), !.keys = <<>>, !.vs = <<>>]

(* Slip: the name of the directory left stays in the path *)
popsPlaces(w) == [w EXCEPT !.t = vput(vput(w.t, Last(w.keys)), Last(w.vs)), !.keys = Front(@), !.vs = Front(@)]

pop(w) == [w EXCEPT !.t = vput(vput(w.t, Last(w.keys)), Last(w.vs)), !.keys = Front(@), !.vs = Front(@), !.path = Front(@)]

push(w, n, name, v, nomnt) ==
    With(IF nomnt THEN v ELSE apply(w.t, n, v), LAMBDA u :
        [w EXCEPT !.t = vref(vget(w.t, v), u), !.keys = Append(@, v), !.vs = Append(@, u), !.path = Append(@, name)])

linked(w, n, v) ==
    LET l == w.t.node[v].target
        x == [w EXCEPT !.links = @ + 1, !.p = l.names \o @]
    IN  IF w.links >= 8 THEN Fail(w, "ELOOP")
        ELSE IF l.names = <<>> /\ ~l.abs THEN Fail(w, "ENOENT")
        ELSE IF l.abs THEN atRoot(dropped(x), n) ELSE x

RECURSIVE walkOn(_, _, _)
walkOn(w, n, fl) ==
    IF w.p = <<>> THEN (IF fl.parent /\ w.r = "" /\ w.name = "" THEN Fail(w, "EINVAL") ELSE w)
    ELSE
    LET c    == Head(w.p)
        last == Len(w.p) = 1
        x    == [w EXCEPT !.p = Tail(@)]
        cur  == Last(w.vs)
    IN  CASE Type(w.t, cur) # "dir" -> Fail(w, "ENOTDIR")
          [] last /\ fl.parent -> [x EXCEPT !.name = c]
          [] c = "." \/ (c = ".." /\ w.path = <<>>) -> walkOn(x, n, fl)
          [] c = ".." /\ Len(w.vs) > 1 -> walkOn(pop(x), n, fl)
          [] c = ".." ->
               With(walkOn([atRoot([x EXCEPT !.keys = <<>>, !.vs = <<>>], n) EXCEPT !.p = Front(w.path), !.links = 0], n, Follow), LAMBDA up :
                   IF up.r # "" THEN Fail([x EXCEPT !.t = dropped(up).t], up.r)
                   ELSE walkOn([x EXCEPT !.t = vputAll(vputAll(up.t, Front(up.keys)), Front(up.vs) \o w.keys \o w.vs),
                                         !.keys = <<Last(up.keys)>>, !.vs = <<Last(up.vs)>>, !.path = up.path], n, fl))
          [] OTHER ->
               With(lookup_in(w.t, n, Last(w.keys), cur, c), LAMBDA v :
                   CASE v = NoVnode -> Fail(w, "ENOENT")
                     [] v # NoVnode /\ Type(w.t, v) = "lnk" /\ (~last \/ fl.follow) -> walkOn(linked(x, n, v), n, fl)
                     [] OTHER -> walkOn(push(x, n, c, v, last /\ fl.nomnt), n, fl))

(* The result: r, and on success key and v, referred to, path and name *)
vfs_walk(t, p, path, fl) ==
    LET me == t.p[p]
        w0 == [t |-> t, keys |-> <<>>, vs |-> <<>>, path |-> <<>>, p |-> path.names, links |-> 0, r |-> "", name |-> ""]
        here == [w0 EXCEPT !.t = vref(vref(t, me.key), me.cwd), !.keys = <<me.key>>, !.vs = <<me.cwd>>, !.path = me.path]
    IN  With(walkOn(IF path.abs THEN atRoot(w0, me.ns) ELSE here, me.ns, fl), LAMBDA w :
            IF w.r # "" THEN [t |-> dropped(w).t, r |-> w.r]
            ELSE [t |-> vputAll(vputAll(w.t, Front(w.keys)), Front(w.vs)), r |-> "",
                  key |-> Last(w.keys), v |-> Last(w.vs), path |-> w.path, name |-> w.name])

walk_done(t, w) == vput(vput(t, w.key), w.v)
vfs_resolve(t, p, path, fl) ==
    With(vfs_walk(t, p, path, fl), LAMBDA w : IF w.r # "" THEN w ELSE [w EXCEPT !.t = vput(w.t, w.key)])

(* The directory that holds the name: of a union, the member that has it,  *)
(* else the first one bound with MCREATE                                   *)
Wanted(t, ms, name) ==
    LET dirs == SelectSeq(ms, LAMBDA m : Type(t, m.v) = "dir")
    IN  SelectSeq(dirs, LAMBDA m : Has(t, m.v, name)) \o SelectSeq(dirs, LAMBDA m : m.create \/ m.mfs)

vfs_parent(t, p, path) ==
    LET ns == t.ns[t.p[p].ns].m
    IN  With(vfs_walk(t, p, path, Parent), LAMBDA w :
            IF w.r # "" THEN w
            ELSE With(find(t, t.p[p].ns, w.key), LAMBDA i :
                    IF i > 0 /\ (Len(ns[i].mem) > 1 \/ ~(ns[i].mem[1].create \/ ns[i].mem[1].mfs))
                    THEN With(Wanted(t, ns[i].mem, w.name), LAMBDA ms :
                            IF ms = <<>> THEN [t |-> walk_done(w.t, w), r |-> "EROFS"]
                            ELSE [w EXCEPT !.t = walk_done(vref(w.t, ms[1].v), w), !.v = ms[1].v])
                    ELSE [w EXCEPT !.t = vput(w.t, w.key)]))

(***************************************************************************)
(* Open files                                                              *)
(***************************************************************************)
(* file_set_path: the members of a union are those at the time of the open *)
ns_union(t, n, key) ==
    LET i == find(t, n, key)
    IN  IF i > 0 /\ Len(t.ns[n].m[i].mem) > 1 THEN [j \in DOMAIN t.ns[n].m[i].mem |-> t.ns[n].m[i].mem[j].v] ELSE <<>>

file_set_path(t, p, f, path) ==
    With(vfs_walk(t, p, path, Follow), LAMBDA w :
        IF w.r # "" THEN w.t
        ELSE With(IF w.v = t.file[f].v /\ Type(t, w.v) = "dir" THEN ns_union(t, t.p[p].ns, w.key) ELSE <<>>, LAMBDA un :
                walk_done([FoldSeq(LAMBDA v, u : vref(u, v), w.t, un) EXCEPT !.file[f].un = un], w)))

open_vnode(t, p, v, path) ==
    With(Least((1 .. Cardinality(Procs) + 1) \ DOMAIN t.file), LAMBDA f :
        file_set_path([t EXCEPT !.file = @ @@ f :> [ref |-> 1, v |-> v, un |-> <<>>], !.p[p].file = f], p, f, path))

file_close(t, f) ==
    IF t.file[f].ref > 1 THEN [t EXCEPT !.file[f].ref = @ - 1]
    ELSE [vputAll(vput(t, t.file[f].v), t.file[f].un) EXCEPT !.file = Without(@, f)]

sys_open(t, p, path) ==
    With(vfs_resolve(t, p, path, Follow), LAMBDA w :
        IF w.r # "" THEN Err(w.t, w.r) ELSE open_vnode(w.t, p, w.v, path))

sys_creat(t, p, path) ==
    With(vfs_parent(t, p, path), LAMBDA d :
        CASE d.r # "" -> Err(d.t, d.r)
          [] d.r = "" /\ Has(t, d.v, d.name) ->
               With(vfs_resolve(vput(d.t, d.v), p, path, Follow), LAMBDA w :
                   IF w.r # "" THEN Err(w.t, w.r)
                   ELSE IF Type(t, w.v) = "dir" THEN Err(vput(w.t, w.v), "EISDIR")
                   ELSE open_vnode(r_truncate(w.t, w.v, 0), p, w.v, path))
          [] OTHER ->
               With(make(d.t, d.v, d.name, "reg"), LAMBDA u :
                   With(find_ent(u, d.v, d.name), LAMBDA v : open_vnode(vput(vget(u, v), d.v), p, v, path))))

sys_close(t, p)            == [file_close(t, t.p[p].file) EXCEPT !.p[p].file = 0]
sys_write(t, p, src, off)  == r_write(t, t.file[t.p[p].file].v, src, off)
sys_ftruncate(t, p, len)   == r_truncate(t, t.file[t.p[p].file].v, len)

(* What readdir gives, one call after the other: a name of a later member  *)
(* only if no earlier one has it                                           *)
Listing(t, f) ==
    LET ms == IF t.file[f].un = <<>> THEN <<t.file[f].v>> ELSE t.file[f].un
        new(j) == SelectSeq(t.node[ms[j]].ents, LAMBDA e : \A i \in 1 .. j - 1 : ~Has(t, ms[i], e.name))
    IN  FlattenSeq([j \in DOMAIN ms |-> new(j)])

(***************************************************************************)
(* The calls that change directories                                       *)
(***************************************************************************)
sys_chdir(t, p, path) ==
    With(vfs_walk(t, p, path, Follow), LAMBDA w :
        IF w.r # "" THEN Err(w.t, w.r)
        ELSE IF Type(t, w.v) # "dir" THEN Err(walk_done(w.t, w), "ENOTDIR")
        ELSE [vput(vput(w.t, t.p[p].cwd), t.p[p].key) EXCEPT !.p[p].cwd = w.v, !.p[p].key = w.key, !.p[p].path = w.path])

sys_mkdir(t, p, path) ==
    With(vfs_parent(t, p, path), LAMBDA d : IF d.r # "" THEN Err(d.t, d.r) ELSE vput(r_mkdir(d.t, d.v, d.name), d.v))

sys_symlink(t, p, target, path) ==
    With(vfs_parent(t, p, path), LAMBDA d :
        IF d.r # "" THEN Err(d.t, d.r) ELSE vput(r_symlink(d.t, d.v, d.name, target), d.v))

inUse(t, p, v) == find(t, t.p[p].ns, v) > 0 \/ (v \in DOMAIN t.v /\ t.v[v].mounted # 0)

remove_common(t, p, path) ==
    With(vfs_parent(t, p, path), LAMBDA d :
        IF d.r # "" THEN Err(d.t, d.r)
        ELSE vput(With(find_ent(t, d.v, d.name), LAMBDA v :
                      IF d.name \in {".", ".."} THEN Err(d.t, "EINVAL")
                      ELSE IF v = NoVnode THEN Err(d.t, "ENOENT")
                      ELSE IF inUse(t, p, v) THEN Err(d.t, "EBUSY")
                      ELSE remove_ent(d.t, d.v, d.name, Type(t, v) = "dir")), d.v))

RECURSIVE is_ancestor(_, _, _)
is_ancestor(t, a, d) == a = d \/ (d[2] # 1 /\ is_ancestor(t, a, r_up(t, d)))

within(t, a, d) == is_ancestor(t, a, d)

renamed(t, p, x, y, v, o) ==
    CASE x.v[1] # y.v[1] -> Err(y.t, "EXDEV")
      [] {x.name, y.name} \cap {".", ".."} # {} -> Err(y.t, "EINVAL")
      [] v = NoVnode -> Err(y.t, "ENOENT")
      [] inUse(t, p, v) -> Err(y.t, "EBUSY")
      [] Type(t, v) = "dir" /\ within(t, v, y.v) -> Err(y.t, "EINVAL")
      [] o # NoVnode /\ inUse(t, p, o) -> Err(y.t, "EBUSY")
      [] OTHER -> r_rename(y.t, x.v, x.name, y.v, y.name)

sys_rename(t, p, a, b) ==
    With(vfs_parent(t, p, a), LAMBDA x :
        IF x.r # "" THEN Err(x.t, x.r)
        ELSE With(vfs_parent(x.t, p, b), LAMBDA y :
                IF y.r # "" THEN Err(vput(y.t, x.v), y.r)
                ELSE vput(vput(renamed(t, p, x, y, find_ent(t, x.v, x.name), find_ent(t, y.v, y.name)), x.v), y.v)))

sys_link(t, p, a, b) ==
    With(vfs_resolve(t, p, a, NoLink), LAMBDA w :
        IF w.r # "" THEN Err(w.t, w.r)
        ELSE With(vfs_parent(w.t, p, b), LAMBDA d :
                IF d.r # "" THEN Err(vput(d.t, w.v), d.r)
                ELSE vput(vput(IF Type(t, w.v) = "dir" THEN Err(d.t, "EPERM")
                               ELSE IF w.v[1] # d.v[1] THEN Err(d.t, "EXDEV") ELSE r_link(d.t, d.v, d.name, w.v), w.v), d.v)))

(***************************************************************************)
(* bind, unmount, mount and umount                                         *)
(***************************************************************************)
sys_bind9(t, p, new, old, how, create) ==
    With(vfs_walk(t, p, new, Follow), LAMBDA a :
        IF a.r # "" THEN Err(a.t, a.r)
        ELSE With(vfs_walk(a.t, p, old, NoMnt), LAMBDA b :
                IF b.r # "" THEN Err(walk_done(b.t, a), b.r)
                ELSE walk_done(walk_done(
                        IF (Type(t, b.key) = "dir") # (Type(t, a.v) = "dir") THEN Err(b.t, "ENOTDIR")
                        ELSE ns_add(b.t, t.p[p].ns, b.key, b.path, Member(a.v, a.path, create, FALSE), how), b), a)))

(* new is NoPath for the whole entry *)
NoPath == [abs |-> FALSE, names |-> <<>>]

(* The last of the members js goes, and the entry with its only member *)
dropMember(t, n, i, js) ==
    LET j == CHOOSE x \in js : \A y \in js : y <= x
    IN  With([vput(t, t.ns[n].m[i].mem[j].v) EXCEPT !.ns[n].m[i].mem = RemoveAt(@, j)], LAMBDA u :
            IF u.ns[n].m[i].mem = <<>> THEN remove_entry(u, n, i) ELSE u)

sys_unmount(t, p, new, old) ==
    LET n  == t.p[p].ns
        same(m, a, b) == m.v = a.v \/ (m.v = a.key /\ m.v = b.key)
    IN  With(vfs_walk(t, p, old, NoMnt), LAMBDA b :
            IF b.r # "" THEN Err(b.t, b.r)
            ELSE With(find(t, n, b.key), LAMBDA i :
                    IF i = 0 THEN Err(walk_done(b.t, b), "EINVAL")
                    ELSE IF new = NoPath THEN walk_done(remove_entry(b.t, n, i), b)
                    ELSE With(vfs_walk(b.t, p, new, Follow), LAMBDA a :
                            IF a.r # "" THEN Err(walk_done(a.t, b), a.r)
                            ELSE With({j \in DOMAIN t.ns[n].m[i].mem : same(t.ns[n].m[i].mem[j], a, b)}, LAMBDA js :
                                    IF js = {} THEN Err(walk_done(walk_done(a.t, a), b), "EINVAL")
                                    ELSE walk_done(walk_done(dropMember(a.t, n, i, js), a), b)))))

(* vfs_mount_fs does not look at what ns_add says *)
vfs_mount_fs(t, p, f, target, path) ==
    Err(ns_add([vref(t, target) EXCEPT !.fs[f].covered = target, !.v[target].mounted = IF @ = 0 THEN f ELSE @],
               t.p[p].ns, target, path, Member(<<f, 1>>, path, TRUE, TRUE), "replace"), "")

vfs_mount(t, p, path) ==
    With(vfs_walk(t, p, path, NoMnt), LAMBDA w :
        IF w.r # "" THEN Err(w.t, w.r)
        ELSE With(vput(w.t, w.v), LAMBDA u :
                IF Type(t, w.key) # "dir" THEN Err(vput(u, w.key), "ENOTDIR")
                ELSE IF find(t, t.p[p].ns, w.key) > 0 THEN Err(vput(u, w.key), "EBUSY")
                ELSE With(Least((1 .. NFS) \ DOMAIN t.fs), LAMBDA f :
                        vput(vfs_mount_fs(ramfs_mount(u, f), p, f, w.key, w.path), w.key))))

fs_busy(t, f) ==
    \E v \in DOMAIN t.v : v[1] = f /\ t.v[v].ref > (IF v[2] = 1 THEN 2 ELSE 0) + ns_fs_refs(t, v)

(* v is a member of the entry of the place c *)
shownAt(t, n, c, v) ==
    c # NoVnode /\ \E i \in {find(t, n, c)} \ {0} : \E j \in DOMAIN t.ns[n].m[i].mem : t.ns[n].m[i].mem[j].v = v

uncover(t, c, f) == IF t.v[c].mounted = f THEN [t EXCEPT !.v[c].mounted = 0] ELSE t

vfs_umount(t, p, path) ==
    With(vfs_resolve(t, p, path, Follow), LAMBDA w :
        IF w.r # "" THEN Err(w.t, w.r)
        ELSE LET f == w.v[1]
                 c == t.fs[f].covered
             IN  IF w.v[2] # 1 \/ ~shownAt(t, t.p[p].ns, c, w.v) THEN Err(vput(w.t, w.v), "EINVAL")
                 ELSE IF fs_busy(w.t, f) THEN Err(vput(w.t, w.v), "EBUSY")
                 ELSE ramfs_umount(vput(vput(uncover(ns_drop_fs(vput(w.t, w.v), f), c, f), c), <<f, 1>>), f))

(***************************************************************************)
(* Processes                                                               *)
(***************************************************************************)
set_root_cwd(t, p) ==
    [vref(vref(vput(vput(t, t.p[p].cwd), t.p[p].key), rootvn), rootvn)
        EXCEPT !.p[p].cwd = rootvn, !.p[p].key = rootvn, !.p[p].path = <<>>]

(* names: "share", "copy" (RFNAMEG) or "clean" (RFCNAMEG) *)
NewNames(t, src, names) == IF names = "clean" THEN ns_clean(t, NewNs(t)) ELSE ns_copy(t, NewNs(t), src)

rfork_self(t, p, names) ==
    IF names = "share" THEN t
    ELSE With([ns_put(NewNames(t, t.p[p].ns, names), t.p[p].ns) EXCEPT !.p[p].ns = NewNs(t)], LAMBDA u :
            IF names = "clean" THEN set_root_cwd(u, p) ELSE u)

do_rfork(t, p, c, names) ==
    LET me == t.p[p]
    IN  With([vref(vref(t, me.cwd), me.key) EXCEPT !.p = @ @@ c :> me], LAMBDA u :
            With(IF me.file = 0 THEN u ELSE [u EXCEPT !.file[me.file].ref = @ + 1], LAMBDA x :
                With(IF names = "share" THEN [x EXCEPT !.ns[me.ns].ref = @ + 1]
                     ELSE [NewNames(x, me.ns, names) EXCEPT !.p[c].ns = NewNs(t)], LAMBDA y :
                    IF names = "clean" THEN set_root_cwd(y, c) ELSE y)))

do_exit(t, p) ==
    LET me == t.p[p]
        u  == IF me.file = 0 THEN t ELSE file_close(t, me.file)
    IN  [ns_put(vput(vput(u, me.cwd), me.key), me.ns) EXCEPT !.p = Without(@, p)]

(* exec of a program with a set user id bit *)
ns_enter_boot(t, p) ==
    LET me == t.p[p]
        u  == [ns_put(t, me.ns) EXCEPT !.p[p].ns = Boot, !.ns[Boot].ref = @ + 1]
    IN  IF me.ns = Boot THEN t
        ELSE With(vfs_walk(u, p, [abs |-> TRUE, names |-> me.path], Follow), LAMBDA w :
                IF w.r = "" THEN [vput(vput(w.t, me.cwd), me.key) EXCEPT !.p[p].cwd = w.v, !.p[p].key = w.key, !.p[p].path = w.path]
                ELSE set_root_cwd(w.t, p))

(***************************************************************************)
(* The calls of a process                                                  *)
(***************************************************************************)
Result(t, p, w) ==
    CASE w.op = "open"     -> sys_open(t, p, w.a)
      [] w.op = "creat"    -> sys_creat(t, p, w.a)
      [] w.op = "close"    -> sys_close(t, p)
      [] w.op = "write"    -> sys_write(t, p, w.src, w.n)
      [] w.op = "trunc"    -> sys_ftruncate(t, p, w.n)
      [] w.op = "chdir"    -> sys_chdir(t, p, w.a)
      [] w.op = "mkdir"    -> sys_mkdir(t, p, w.a)
      [] w.op = "symlink"  -> sys_symlink(t, p, w.b, w.a)
      [] w.op = "remove"   -> remove_common(t, p, w.a)
      [] w.op = "rename"   -> sys_rename(t, p, w.a, w.b)
      [] w.op = "link"     -> sys_link(t, p, w.a, w.b)
      [] w.op = "bind"     -> sys_bind9(t, p, w.a, w.b, w.how, w.create)
      [] w.op = "unmount"  -> sys_unmount(t, p, w.a, w.b)
      [] w.op = "mount"    -> vfs_mount(t, p, w.a)
      [] w.op = "umount"   -> vfs_umount(t, p, w.a)
      [] w.op = "rfork"    -> rfork_self(t, p, w.how)
      [] w.op = "fork"     -> do_rfork(t, p, w.c, w.how)
      [] w.op = "exit"     -> do_exit(t, p)
      [] w.op = "setid"    -> ns_enter_boot(t, p)

(* A call is made where it makes sense: a file is open, or none is         *)
Makes(t, p, w) ==
    /\ p \in DOMAIN t.p
    /\ w.op \in {"open", "creat"} => t.p[p].file = 0
    /\ w.op \in {"close", "write", "trunc"} => t.p[p].file # 0
    /\ w.op \in {"write", "trunc"} => Type(t, t.file[t.p[p].file].v) = "reg"
    /\ w.op = "fork" => w.c \notin DOMAIN t.p
    /\ w.op = "mount" => Cardinality(DOMAIN t.fs) < NFS

Do(p, w) == Makes(k, p, w) /\ k' = Result([k EXCEPT !.r = ""], p, w)

(***************************************************************************)
(* Properties                                                              *)
(***************************************************************************)
Count(t, v) ==
    Cardinality({p \in DOMAIN t.p : t.p[p].cwd = v}) + Cardinality({p \in DOMAIN t.p : t.p[p].key = v})
    + Cardinality({f \in DOMAIN t.file : t.file[f].v = v})
    + Cardinality(UNION {{<<f, j>> : j \in {i \in DOMAIN t.file[f].un : t.file[f].un[i] = v}} : f \in DOMAIN t.file})
    + ns_fs_refs(t, v)
    + Cardinality({f \in DOMAIN t.fs : v = <<f, 1>>}) + Cardinality({f \in DOMAIN t.fs : t.fs[f].covered = v})
    + (IF v = rootvn THEN 1 ELSE 0)

(* Nothing is referred to that is not there: the vnodes of processes,      *)
(* files and namespaces have their node and their file system.             *)
NamesTypeOK ==
    /\ \A p \in DOMAIN k.p : {k.p[p].cwd, k.p[p].key} \subseteq DOMAIN k.v /\ k.p[p].ns \in DOMAIN k.ns
    /\ \A f \in DOMAIN k.file : k.file[f].v \in DOMAIN k.v /\ Range(k.file[f].un) \subseteq DOMAIN k.v
    /\ \A n \in DOMAIN k.ns : \A i \in DOMAIN k.ns[n].m :
          Range(vnodesOf(k.ns[n].m[i])) \subseteq DOMAIN k.v /\ Len(k.ns[n].m[i].mem) \in 1 .. NMEMB
    /\ \A v \in DOMAIN k.v : v \in DOMAIN k.node
    /\ \A v \in DOMAIN k.node : v[1] \in DOMAIN k.fs

(* Whatever is bound, mounted, opened, forked or given up, and however a   *)
(* walk or a call fails, the references of every vnode are exactly those   *)
(* of the processes, files, namespaces and mounts (vref, vput, vfs_walk).  *)
RefsCounted == \A v \in DOMAIN k.v : k.v[v].ref = Count(k, v)

(* A namespace is there as long as a process uses it (ns_put).             *)
NsCounted == \A n \in DOMAIN k.ns :
    k.ns[n].ref = Cardinality({p \in DOMAIN k.p : k.p[p].ns = n}) + (IF n = Boot THEN 1 ELSE 0)

(* A node has as many links as names, and stays exactly as long as it has  *)
(* a name or is referred to (maybe_free, r_release, r_rename).             *)
LinksCounted ==
    \A v \in DOMAIN k.node :
        LET x == k.node[v]
            in(w) == Cardinality({j \in DOMAIN k.node[w].ents : k.node[w].ents[j].v = v})
            names == FoldSeq(LAMBDA w, a : a + in(w), 0, SetToSeq({w \in DOMAIN k.node : in(w) > 0}))
            subs  == Cardinality({j \in DOMAIN x.ents : Type(k, x.ents[j].v) = "dir"})
        IN  /\ x.nlink = 0 => names = 0 /\ v \in DOMAIN k.v /\ k.v[v].zero
            /\ x.nlink > 0 => IF x.type = "dir" THEN x.nlink = 2 + subs /\ (v[2] # 1 => names = 1) ELSE x.nlink = names

(* Every directory with a name is below the root of its file system, and   *)
(* its parent is the directory that holds the name (sys_rename, moved).    *)
UpIsRight ==
    \A v \in DOMAIN k.node : v[2] # 1 /\ k.node[v].type = "dir" /\ k.node[v].nlink > 0 =>
        /\ \E j \in DOMAIN k.node[k.node[v].up].ents : k.node[k.node[v].up].ents[j].v = v
        /\ v \in below(k, <<v[1], 1>>)

(* A file system is charged for the pages its files have, and no more than *)
(* it may have (r_write, r_truncate, free_data).                           *)
PagesCounted ==
    \A f \in DOMAIN k.fs :
        LET has == UNION {{<<v, q>> : q \in DOMAIN k.node[v].at} : v \in {w \in DOMAIN k.node : w[1] = f}}
        IN  k.fs[f].used = Cardinality(has) /\ k.fs[f].used <= LIMIT

(* A file reads as what was written to it, zero where nothing was, however *)
(* it was cut and grown in between (r_read, r_write, r_truncate).          *)
ReadsBack == \A v \in DOMAIN k.node : k.node[v].type = "reg" => r_read(k, v) = k.says[v]

(* A place with an entry stays: it is not removed or replaced, by a        *)
(* process that shares the namespace (remove_common, sys_rename).          *)
PlacesStay == \A n \in DOMAIN k.ns : \A i \in DOMAIN k.ns[n].m : k.node[k.ns[n].m[i].key].nlink > 0

------------------------------------------------------------------------------
(***************************************************************************)
(* Small instances of Names: processes that share or copy a namespace      *)
(* mount, bind, rename and remove.                                         *)
(***************************************************************************)

CONSTANTS P1, P2, Loads

VARIABLE load

At(s)  == [abs |-> TRUE, names |-> s]
Rel(s) == [abs |-> FALSE, names |-> s]
Call(op, a) == [op |-> op, a |-> a, b |-> NoPath, how |-> "", create |-> FALSE, c |-> P2, src |-> <<>>, n |-> 0]
Call2(op, a, b) == [Call(op, a) EXCEPT !.b = b]
Bind(a, b, how, c) == [Call2("bind", a, b) EXCEPT !.how = how, !.create = c]
Fork(how)  == [Call("fork", NoPath) EXCEPT !.how = how]
Rfork(how) == [Call("rfork", NoPath) EXCEPT !.how = how]
Write(src, off) == [Call("write", NoPath) EXCEPT !.src = src, !.n = off]
Trunc(n)  == [Call("trunc", NoPath) EXCEPT !.n = n]
Close     == Call("close", NoPath)
Exit      == Call("exit", NoPath)
Setid     == Call("setid", NoPath)

A  == At(<<"a">>)
B  == At(<<"b">>)
AB == At(<<"a", "b">>)
BB == At(<<"b", "b">>)
Up == Rel(<<"..">>)

Tree == <<{Call("mkdir", A)}, {Call("mkdir", B)}>>
Make == Tree \o <<{Call("mkdir", AB)}>>

(* What the processes do, a call of each set after the other *)
Work(name) ==
    CASE name = "bind" -> (P1 :> Make \o <<{Fork("share"), Fork("copy")}, {Bind(A, B, "before", TRUE), Bind(A, B, "replace", FALSE), Bind(A, B, "after", TRUE)},
                                 {Call("open", B), Call("chdir", B), Call("chdir", BB)}, {Call2("unmount", NoPath, B), Call2("unmount", A, B), Call2("unmount", B, B), Exit},
                                 {Call("remove", B), Call2("rename", B, At(<<"c">>)), Call2("rename", AB, B)}>>
              @@ P2 :> <<{Call("chdir", B), Call("creat", At(<<"b", "a">>)), Rfork("clean")}, {Call("open", BB), Call("chdir", Up), Setid}, {Exit, Setid}>>)
      [] name = "mount" -> (P1 :> Tree \o <<{Call("mount", A)}, {Fork("share"), Fork("copy")}, {Call("mkdir", AB)}, {Bind(AB, B, "before", TRUE), Bind(AB, B, "replace", FALSE), Call("mount", AB)},
                                 {Call("umount", A), Call("umount", AB)}, {Call("umount", A)}>>
              @@ P2 :> <<{Call("chdir", A), Call("chdir", AB), Call("creat", At(<<"a", "a">>))}, {Call("umount", A), Exit, Setid, Call("remove", A)}, {Call("umount", A), Close, Call("chdir", Up)}>>)
      [] name = "move" -> (P1 :> Make \o <<{Fork("share")}, {Call2("rename", AB, BB), Call2("rename", A, BB), Call2("rename", B, AB), Call2("rename", A, At(<<"a", "b", "a">>))},
                                 {Call("remove", AB), Call("remove", BB), Call2("rename", BB, A)}, {Call("remove", B), Call2("rename", B, A)}>>
              @@ P2 :> <<{Call("chdir", AB)}, {Call2("rename", Rel(<<"..">>), A), Call("open", Up), Call2("symlink", A, At(<<"c">>)) }, {Call("chdir", Up), Call("chdir", At(<<"c", "b">>))}>>)
      [] name = "link" -> (P1 :> Make \o <<{[Call2("symlink", At(<<"c">>), Up) EXCEPT !.b = Up], Call2("symlink", At(<<"c">>), At(<<"c">>)), Call2("symlink", At(<<"c">>), Rel(<<"a", "b">>))},
                                 {Call("chdir", At(<<"c">>)), Call("chdir", At(<<"a", "b", "..", "..", "c">>)), Call("creat", At(<<"c">>))}, {Call("remove", At(<<"c">>)), Call2("link", At(<<"c">>), AB), Call2("link", At(<<"c">>), At(<<"a", "c">>))},
                                 {Call("remove", At(<<"a", "c">>)), Call("remove", At(<<"c">>))}>>
              @@ P2 :> <<>>)
      [] name = "data" -> (P1 :> <<{Call("creat", A)}, {Fork("share")}, {Write(<<1, 2, 3>>, 0), Write(<<1>>, 3)}, {Trunc(1), Trunc(3), Call2("link", A, B)}, {Write(<<2>>, 3), Trunc(5)}, {Call("remove", A)}, {Close}>>
              @@ P2 :> <<{Write(<<3, 3, 3>>, 2), Trunc(0)}, {Close}, {Call("creat", B), Call("remove", B), Call("creat", A)}, {Write(<<1, 1, 1, 1, 1>>, 1)}>>)
      [] name = "full" -> (P1 :> Make \o <<{Bind(A, B, "replace", FALSE), Bind(A, A, "after", FALSE)}, {Bind(AB, AB, "after", TRUE)}, {Bind(A, AB, "before", FALSE), Call("mount", B)},
                                 {Bind(A, AB, "after", FALSE), Call("creat", BB)}>>
              @@ P2 :> <<>>)

MCInit == Init /\ load \in [name : Loads, at : {[p \in Procs |-> 1]}]

MCNext ==
    \E p \in DOMAIN k.p :
        LET ops == Work(load.name)[p]
        IN  /\ load.at[p] <= Len(ops)
            /\ \E w \in ops[load.at[p]] : Do(p, w) \/ (~Makes(k, p, w) /\ UNCHANGED k)
            /\ load' = [load EXCEPT !.at[p] = @ + 1]

MCSpec == MCInit /\ [][MCNext]_<<k, load>>

Paths == UNION {[1 .. n -> {"a", "b", "c", ".."}] : n \in 1 .. 3}

(* The canonical name of a walk that succeeds leads to the same place and  *)
(* shows the same file, whatever links, binds and .. it went through       *)
(* (vfs_walk).                                                             *)
NameLeadsBack ==
    \A p \in DOMAIN k.p : \A s \in Paths :
        LET w == vfs_walk(k, p, At(s), Follow)
            u == vfs_walk(k, p, At(w.path), Follow)
        IN  w.r = "" => u.r = "" /\ u.key = w.key /\ u.v = w.v

(* A directory lists every name once, and a name leads to what the list    *)
(* shows, in a union as well (sys_readdir, lookup_in).                     *)
ListsWhatIsFound ==
    \A f \in DOMAIN k.file : Type(k, k.file[f].v) = "dir" =>
        LET l == Listing(k, f)
        IN  \A i \in DOMAIN l :
              /\ \A j \in DOMAIN l : l[i].name = l[j].name => i = j
              /\ \A n \in DOMAIN k.ns : \A key \in {e.key : e \in Range(k.ns[n].m)} :
                    ns_union(k, n, key) # <<>> /\ ns_union(k, n, key) = k.file[f].un => lookup_in(k, n, key, k.file[f].v, l[i].name) = l[i].v

(* Names lead where they should and nothing is lost on the way: what is    *)
(* referred to is counted exactly, a directory's parent holds it, a place  *)
(* with an entry stays, a canonical name leads back, a list shows what is  *)
(* found, and a file reads as it was written (ns.c, vfs.c, ramfs.c).       *)
NamesSound ==
    /\ NamesTypeOK /\ RefsCounted /\ NsCounted /\ LinksCounted /\ PagesCounted
    /\ UpIsRight /\ PlacesStay /\ NameLeadsBack /\ ListsWhatIsFound /\ ReadsBack
==============================================================================
