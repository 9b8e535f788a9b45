--------------------------------- MODULE P9 ----------------------------------
(***************************************************************************)
(* The mount driver (os/kernel/mnt.c) below the calls of file.c that reach *)
(* it, over a 9P server: the loop and the fid table of lib/9p.c with the   *)
(* file system of os/bin/ramfs9.c.  The processes share one channel; each  *)
(* waits for it, sends one message and waits for the answer, and may be    *)
(* interrupted at both waits.  A message is a record; its id, which no     *)
(* code sees, numbers the requests.                                        *)
(***************************************************************************)
EXTENDS Integers, Sequences, FiniteSets, SequencesExt, TLC

CONSTANTS Procs,
          NOTAG,     \* tags are below it, 65535 in the code
          NFID,      \* NFID9: fids of the server
          NNODE,     \* nodes of the server
          NFILE      \* open files of the system

VARIABLES chan,     \* Chan9, the walk_depth of ns.c and whether the mount is in the name space
          vn,       \* the vnodes of the mount: path |-> [ref, fid, dir, list]
          files,    \* the file table: [ref, v, fid, mopen]
          fd,       \* the open file of each process, 0 for none
          call,     \* the call of each process
          sig,      \* who has a signal pending, how many came so far, and the fids
                    \* whose walk or clunk a signal broke off (history)
          up, down, \* messages to the server and to the client
          fids,     \* the server's fids: fid |-> [node, omode, index]
          nodes,    \* the server's nodes
          srv       \* [alive, nextpath]

client == <<chan, vn, files, fd, call, sig, down>>
vars   == <<client, up, fids, nodes, srv>>

NoNode == [used |-> FALSE, parent |-> 0, refs |-> 0, removed |-> FALSE, name |-> "", path |-> 0, dir |-> FALSE, val |-> 0]
Root   == [NoNode EXCEPT !.used = TRUE, !.dir = TRUE, !.refs = 1]
NoMsg  == [type |-> "", tag |-> 0, id |-> 0, fid |-> 0, newfid |-> 0, name |-> "", mode |-> "r", val |-> 0]
NoAns  == [type |-> "", tag |-> 0, id |-> 0, e |-> "ok", a |-> <<>>, q |-> [path |-> 0, dir |-> FALSE]]

(* The call under way: op on path, to (the new name), mode and val; todo,  *)
(* the steps that are left; own, the vnodes it holds; base, i and n of a   *)
(* walk; fid and slot it works on; e, what it returns; r, the last answer; *)
(* st: "run", "want" (sleeps for the channel) or "wait" (for the answer)   *)
Idle   == [op |-> "", path |-> <<>>, to |-> "", mode |-> "r", val |-> 0, todo |-> <<>>, own |-> <<>>, base |-> 0, i |-> 0,
           n |-> 0, fid |-> 0, slot |-> 0, e |-> "ok", r |-> NoAns, st |-> "", woken |-> FALSE, req |-> NoMsg]
NoFile == [ref |-> 0, v |-> -1, fid |-> 0, mopen |-> FALSE]

(* The files that the server has from an earlier session: /b, /d and /d/c  *)
Seed ==
    LET n(d, name, path, dir) == [NoNode EXCEPT !.used = TRUE, !.parent = d, !.name = name, !.path = path, !.dir = dir]
    IN  <<n(0, "b", 1, FALSE), n(0, "d", 2, TRUE), n(2, "c", 3, FALSE)>>

Init ==
    /\ chan = [open |-> FALSE, dead |-> FALSE, busy |-> FALSE, tag |-> 0, nextfid |-> 1, id |-> 0, depth |-> 0, mounted |-> FALSE]
    /\ vn = <<>> /\ files = [s \in 1 .. NFILE |-> NoFile] /\ fd = [p \in Procs |-> 0]
    /\ call = [p \in Procs |-> Idle] /\ sig = [on |-> {}, sent |-> 0, left |-> {}]
    /\ up = <<>> /\ down = <<>> /\ fids = <<>>
    /\ nodes = [i \in 0 .. NNODE - 1 |-> IF i = 0 THEN Root ELSE IF i \in DOMAIN Seed THEN Seed[i] ELSE NoNode]
    /\ srv = [alive |-> TRUE, nextpath |-> Len(Seed) + 1]

Put(f, k, x) == [y \in DOMAIN f \cup {k} |-> IF y = k THEN x ELSE f[y]]
Drop(f, k)   == [y \in DOMAIN f \ {k} |-> f[y]]
Least(S)     == CHOOSE i \in S : \A j \in S : i <= j

(* The kernel is left only to sleep or to return *)
Quiet == \A p \in Procs : call[p].st # "run"

(***************************************************************************)
(* The server's nodes (ramfs9.c); x is [f |-> fids, n |-> nodes, ...]      *)
(***************************************************************************)
hold(x, fid, i) == [x EXCEPT !.f = Put(@, fid, [node |-> i, omode |-> "", index |-> 0]), !.n[i].refs = @ + 1]

release(n, i) ==
    IF n[i].refs = 1 /\ n[i].removed THEN [n EXCEPT ![i] = NoNode] ELSE [n EXCEPT ![i].refs = @ - 1]

kids(n, d)        == {i \in 1 .. NNODE - 1 : n[i].used /\ ~n[i].removed /\ n[i].parent = d}
child(n, d, name) == {i \in kids(n, d) : n[i].name = name}
free(n)           == {i \in 1 .. NNODE - 1 : ~n[i].used}

fs_walk1(n, i, name) == child(n, i, name)

(* x with the answer a, or the error e *)
Says(x, a)  == [x EXCEPT !.a = a]
Fails(x, e) == [x EXCEPT !.e = e]

new_node(x, d, m) ==
    [x EXCEPT !.n[Least(free(x.n))] = [NoNode EXCEPT !.used = TRUE, !.parent = d, !.name = m.name, !.path = x.path,
                                                     !.dir = m.mode = "dir"],
              !.path = @ + 1]

fs_create(x, m) ==
    LET d == x.f[m.fid].node
        y == hold([new_node(x, d, m) EXCEPT !.n = release(@, d)], m.fid, Least(free(x.n)))
    IN  IF child(x.n, d, m.name) # {} THEN Fails(x, "EEXIST")
        ELSE IF free(x.n) = {} THEN Fails(x, "ENOSPC")
        ELSE [y EXCEPT !.f[m.fid].omode = "r"]

fs_remove(x, i) ==
    IF i = 0 THEN Fails(x, "EACCES")
    ELSE IF x.n[i].dir /\ kids(x.n, i) # {} THEN Fails(x, "ENOTEMPTY")
    ELSE [x EXCEPT !.n[i].removed = TRUE]

(* A new name, or a new length with none *)
fs_wstat(x, m) ==
    LET i     == x.f[m.fid].node
        taken == m.name # x.n[i].name /\ (i = 0 \/ child(x.n, x.n[i].parent, m.name) # {})
    IN  IF m.name # "" THEN IF taken THEN Fails(x, "EEXIST") ELSE [x EXCEPT !.n[i].name = m.name]
        ELSE IF x.n[i].dir THEN Fails(x, "EISDIR") ELSE [x EXCEPT !.n[i].val = m.val]

fs_dirent(n, d) == SetToSortSeq(kids(n, d), LAMBDA i, j : i < j)

(***************************************************************************)
(* The server's loop (9p.c)                                                *)
(***************************************************************************)
drop_fid(x, fid) == [x EXCEPT !.n = release(@, x.f[fid].node), !.f = Drop(@, fid)]

full(x) == Cardinality(DOMAIN x.f) >= NFID

walked(x, m, to) ==
    IF to = {} THEN Fails(x, "ENOENT") ELSE IF full(x) THEN Fails(x, "EIO") ELSE hold(x, m.newfid, CHOOSE k \in to : TRUE)

(* A walk of no name clones the fid *)
do_walk(x, m) ==
    LET i == x.f[m.fid].node
    IN  IF m.fid \notin DOMAIN x.f \/ x.f[m.fid].omode # "" \/ m.newfid \in DOMAIN x.f THEN Fails(x, "EIO")
        ELSE IF m.name = "" THEN walked(x, m, {i})
        ELSE IF ~x.n[i].dir THEN Fails(x, "ENOTDIR")
        ELSE walked(x, m, fs_walk1(x.n, i, m.name))

(* The entries not read so far *)
read_dir(x, m) ==
    LET f == x.f[m.fid]
        s == fs_dirent(x.n, f.node)
    IN  Says([x EXCEPT !.f[m.fid].index = Len(s)], SubSeq(s, f.index + 1, Len(s)))

tread(x, m) ==
    LET f == x.f[m.fid]
    IN  IF f.omode \notin {"r", "rw"} THEN Fails(x, "EIO")
        ELSE IF x.n[f.node].dir THEN read_dir(x, m) ELSE Says(x, <<x.n[f.node].val>>)

twrite(x, m) ==
    LET f == x.f[m.fid]
    IN  IF f.omode \notin {"w", "rw"} THEN Fails(x, "EIO") ELSE [x EXCEPT !.n[f.node].val = m.val]

topen(x, m) ==
    LET f == x.f[m.fid]
    IN  IF f.omode # "" THEN Fails(x, "EIO")
        ELSE IF x.n[f.node].dir /\ m.mode # "r" THEN Fails(x, "EISDIR")
        ELSE [x EXCEPT !.f[m.fid].omode = m.mode]

tcreate(x, m) ==
    LET f == x.f[m.fid]
    IN  IF f.omode # "" THEN Fails(x, "EIO") ELSE IF ~x.n[f.node].dir THEN Fails(x, "ENOTDIR") ELSE fs_create(x, m)

tremove(x, m) == drop_fid(fs_remove(x, x.f[m.fid].node), m.fid)

tversion(x) == [x EXCEPT !.f = <<>>, !.n = FoldLeft(LAMBDA n, k : release(n, x.f[k].node), x.n, SetToSeq(DOMAIN x.f))]

dispatch(x, m) ==
    CASE m.type = "Tversion" -> tversion(x)
      [] m.type = "Tattach"  -> IF m.fid \in DOMAIN x.f \/ full(x) THEN Fails(x, "EIO") ELSE hold(x, m.fid, 0)
      [] m.type = "Tflush"   -> x
      [] m.type = "Twalk"    -> do_walk(x, m)
      [] OTHER -> IF m.fid \notin DOMAIN x.f THEN Fails(x, "EIO")
                  ELSE CASE m.type = "Topen"   -> topen(x, m)
                         [] m.type = "Tcreate" -> tcreate(x, m)
                         [] m.type = "Tread"   -> tread(x, m)
                         [] m.type = "Twrite"  -> twrite(x, m)
                         [] m.type = "Tclunk"  -> drop_fid(x, m.fid)
                         [] m.type = "Tremove" -> tremove(x, m)
                         [] m.type = "Tstat"   -> Says(x, <<x.n[x.f[m.fid].node].val>>)
                         [] m.type = "Twstat"  -> fs_wstat(x, m)

(* The qid of the fid that a walk or an attach makes *)
qid_of(x, m) ==
    LET k == IF m.type = "Twalk" THEN m.newfid ELSE m.fid
        n == x.n[x.f[k].node]
    IN  IF m.type \in {"Twalk", "Tattach"} /\ x.e = "ok" THEN [path |-> n.path, dir |-> n.dir] ELSE NoAns.q

answerTag(x, m) == m.tag

Answer(x, m) == [type |-> m.type, tag |-> answerTag(x, m), id |-> m.id, e |-> x.e, a |-> x.a, q |-> qid_of(x, m)]

(* serve9 takes the next request and answers it *)
Serve ==
    /\ Quiet /\ srv.alive /\ up # <<>>
    /\ \E x \in {dispatch([f |-> fids, n |-> nodes, a |-> <<>>, e |-> "ok", path |-> srv.nextpath], Head(up))} :
         /\ fids' = x.f /\ nodes' = x.n /\ srv' = [srv EXCEPT !.nextpath = x.path]
         /\ down' = IF chan.open THEN Append(down, Answer(x, Head(up))) ELSE down
    /\ up' = Tail(up)
    /\ UNCHANGED <<chan, vn, files, fd, call, sig>>

(* The server ends when the client has closed the channel *)
HangUp ==
    /\ Quiet /\ srv.alive /\ up = <<>> /\ chan.id > 0 /\ ~chan.open
    /\ srv' = [srv EXCEPT !.alive = FALSE] /\ fids' = <<>>
    /\ UNCHANGED <<client, up, nodes>>

(* The server's process is killed *)
Die ==
    /\ Quiet /\ srv.alive
    /\ srv' = [srv EXCEPT !.alive = FALSE] /\ up' = <<>> /\ fids' = <<>>
    /\ UNCHANGED <<client, nodes>>

(***************************************************************************)
(* The channel (mnt.c); t is the client's state while a call runs          *)
(***************************************************************************)
Now == [ch |-> chan, vn |-> vn, fl |-> files, fd |-> fd, c |-> call, s |-> sig, up |-> up, down |-> down]
Become(t) ==
    /\ chan' = t.ch /\ vn' = t.vn /\ files' = t.fl /\ fd' = t.fd /\ call' = t.c /\ sig' = t.s /\ up' = t.up /\ down' = t.down
    /\ UNCHANGED <<fids, nodes, srv>>

Return(t, p) == [t EXCEPT !.c[p] = Idle, !.s.on = @ \ {p}]

(* The call goes on with the next of its steps, or is over *)
Go(t, p, c) == IF c.todo = <<>> THEN Return(t, p) ELSE [t EXCEPT !.c[p] = [c EXCEPT !.st = "run"]]

chan_done(t) ==
    [t EXCEPT !.ch.busy = FALSE,
              !.c = [p \in Procs |-> IF @[p].st = "want" THEN [@[p] EXCEPT !.woken = TRUE] ELSE @[p]]]

(* Slip: a tag is used again *)
sameTag(t) == [t EXCEPT !.ch.id = @ + 1]

nextTag(t) == [t EXCEPT !.ch.tag = (@ + 1) % NOTAG, !.ch.id = @ + 1]

(* Tversion has the tag NOTAG *)
tagged(t, m) == [m EXCEPT !.tag = IF m.type = "Tversion" THEN NOTAG ELSE t.ch.tag, !.id = t.ch.id]
taken(t, m)  == IF m.type = "Tversion" THEN [t EXCEPT !.ch.id = @ + 1] ELSE nextTag(t)

put_all(t, m) == IF srv.alive THEN [t EXCEPT !.up = Append(@, m)] ELSE [t EXCEPT !.ch.dead = TRUE]

flush(t) ==
    LET m == [NoMsg EXCEPT !.type = "Tflush"]
    IN  put_all(taken(t, m), tagged(t, m))

(* The end of an rpc: the answer goes to the steps that are left *)
Answered(t, p, c, r) == Go(t, p, [c EXCEPT !.r = r, !.st = "", !.req = NoMsg])
Failed(t, p, c, e)   == Answered(t, p, c, [NoAns EXCEPT !.e = e])

Left(t, fs) == [t EXCEPT !.s.left = @ \cup fs]

(* A signal while the call waits for its answer, and while it waits to ask *)
interrupted(t, p, c) ==
    Left(Failed(chan_done(flush(t)), p, c, "EINTR"), IF c.req.type = "Twalk" THEN {c.req.newfid} ELSE {})
unasked(t, p, c, m) ==
    Left(Failed(t, p, c, "EINTR"), IF m.type \in {"Tclunk", "Tremove"} THEN {m.fid} ELSE {})

mine(r, c) == r.tag = c.req.tag

(* The loop of rpc: answers with other tags are dropped *)
receive(t, p, c) ==
    LET ks == {k \in DOMAIN t.down : mine(t.down[k], c)}
        k  == Least(ks)
        u  == [t EXCEPT !.down = <<>>]
    IN  IF ks # {} THEN Answered(chan_done([t EXCEPT !.down = SubSeq(@, k + 1, Len(@))]), p, c, t.down[k])
        ELSE IF ~srv.alive THEN Failed(chan_done([u EXCEPT !.ch.dead = TRUE]), p, c, "EIO")
        ELSE IF p \in t.s.on THEN interrupted(u, p, c)
        ELSE [u EXCEPT !.c[p] = c]

rpc(t, p, c, m) ==
    LET u == put_all([taken(t, m) EXCEPT !.ch.busy = TRUE], tagged(t, m))
    IN  IF t.ch.busy THEN IF p \in t.s.on THEN unasked(t, p, c, m)
                          ELSE [t EXCEPT !.c[p] = [c EXCEPT !.st = "want", !.woken = FALSE, !.req = m]]
        ELSE IF t.ch.dead THEN Failed(t, p, c, "EIO")
        ELSE IF u.ch.dead THEN Failed(chan_done(u), p, c, "EIO")
        ELSE receive(u, p, [c EXCEPT !.st = "wait", !.req = tagged(t, m)])

(***************************************************************************)
(* The operations of the mount driver; next are the steps put before the   *)
(* ones that are left                                                      *)
(***************************************************************************)
Ask(t, p, c, next, m) == rpc(t, p, [c EXCEPT !.todo = next \o @], m)
Do(t, p, c, next)     == Go(t, p, [c EXCEPT !.todo = next \o @])
Msg(type, fid)        == [NoMsg EXCEPT !.type = type, !.fid = fid]
Top(c)                == Last(c.own)
fid_of(t, v)          == t.vn[v].fid
Ok(c)                 == c.r.e = "ok"
Puts(vs)              == [k \in DOMAIN vs |-> <<"put", vs[k]>>]

clunk(t, p, c, next, fid) == Ask(t, p, c, next, Msg("Tclunk", fid))
getattr(t, p, c, v)       == Ask(t, p, c, <<>>, Msg("Tstat", fid_of(t, v)))

mwalk(t, p, c, next, fid, name) ==
    Ask([t EXCEPT !.ch.nextfid = @ + 1], p, [c EXCEPT !.fid = t.ch.nextfid], next,
        [Msg("Twalk", fid) EXCEPT !.newfid = t.ch.nextfid, !.name = name])

m_lookup(t, p, c, next, v, name) == mwalk(t, p, c, <<<<"mvnode">>>> \o next, fid_of(t, v), name)

(* vget finds the vnode: its own fid is kept *)
found(t, p, c, v) == clunk([t EXCEPT !.vn[v].ref = @ + 1], p, [c EXCEPT !.own = Append(@, v)], <<<<"ok">>>>, c.fid)

made(t, p, c, q) ==
    Go([t EXCEPT !.vn = Put(@, q.path, [ref |-> 1, fid |-> c.fid, dir |-> q.dir, list |-> <<>>])], p, [c EXCEPT !.own = Append(@, q.path)])

mvnode(t, p, c) ==
    IF ~Ok(c) THEN Go(t, p, c) ELSE IF c.r.q.path \in DOMAIN t.vn THEN found(t, p, c, c.r.q.path) ELSE made(t, p, c, c.r.q)

m_release(t, p, c, v) == IF t.ch.dead THEN Do(t, p, c, <<<<"gone", v>>>>) ELSE clunk(t, p, c, <<<<"gone", v>>>>, fid_of(t, v))

vput(t, p, c, v) ==
    LET k == Max({i \in DOMAIN c.own : c.own[i] = v})
        u == [t EXCEPT !.vn[v].ref = @ - 1]
        d == [c EXCEPT !.own = RemoveAt(@, k)]
    IN  IF u.vn[v].ref > 0 THEN Go(u, p, d) ELSE m_release(u, p, d, v)

(* The vnode leaves the table; with the last one the channel is closed *)
gone(t, p, c, v) ==
    LET left == Drop(t.vn, v)
    IN  Go([t EXCEPT !.vn = left, !.ch.open = @ /\ left # <<>>, !.down = IF left = <<>> THEN <<>> ELSE @], p, c)

(* The call fails with e: what it holds goes *)
Fail(t, p, c, e) == Go(t, p, [c EXCEPT !.e = e, !.todo = Puts(c.own)])

(***************************************************************************)
(* vfs_walk (ns.c), from the root of the mount over the first n names      *)
(***************************************************************************)
leaveWalk(t) == [t EXCEPT !.ch.depth = @ - 1]

enterWalk(t, p, c, n) ==
    IF t.ch.depth > 2 THEN Do(t, p, [c EXCEPT !.e = "ELOOP"], <<<<"fail">>>>)
    ELSE IF ~t.ch.mounted THEN Do(t, p, [c EXCEPT !.e = "ENOENT"], <<<<"fail">>>>)
    ELSE Do([t EXCEPT !.ch.depth = @ + 1, !.vn[0].ref = @ + 1], p,
            [c EXCEPT !.base = Len(c.own), !.i = 1, !.n = n, !.own = Append(@, 0)], <<<<"walk">>>>)

walk(t, p, c) ==
    LET held == SubSeq(c.own, c.base + 1, Len(c.own))
    IN  IF c.i > c.n THEN Do(t, p, c, Puts(Front(held)) \o <<<<"up">>>>)
        ELSE IF ~t.vn[Top(c)].dir THEN Do(t, p, [c EXCEPT !.e = "ENOTDIR"], Puts(held) \o <<<<"up">>, <<"fail">>>>)
        ELSE getattr(t, p, [c EXCEPT !.todo = <<<<"lookup">>>> \o @], Top(c))

walked1(t, p, c) ==
    LET held == SubSeq(c.own, c.base + 1, Len(c.own))
    IN  IF Ok(c) THEN Do(t, p, [c EXCEPT !.i = @ + 1], <<<<"walk">>>>)
        ELSE Do(t, p, [c EXCEPT !.e = c.r.e], Puts(held) \o <<<<"up">>, <<"fail">>>>)

(***************************************************************************)
(* The open file (file.c, mnt_open, mnt_close)                             *)
(***************************************************************************)
open_vnode(t, p, c) ==
    LET s == Least({k \in DOMAIN t.fl : t.fl[k].ref = 0})
    IN  IF \A k \in DOMAIN t.fl : t.fl[k].ref > 0 THEN Fail(t, p, c, "EMFILE")
        ELSE Go([t EXCEPT !.fl[s] = [NoFile EXCEPT !.ref = 1, !.v = Top(c)]], p, [c EXCEPT !.own = Front(@), !.slot = s])

unopened(t, p, c) == clunk(t, p, [c EXCEPT !.e = c.r.e, !.todo = <<>>], <<<<"file_close">>>>, c.fid)

mnt_open(t, p, c) ==
    IF Ok(c) THEN Return([t EXCEPT !.fl[c.slot].fid = c.fid, !.fl[c.slot].mopen = TRUE, !.fd[p] = c.slot], p)
    ELSE unopened(t, p, c)

file_close(t, p, c) ==
    LET u == [t EXCEPT !.fl[c.slot].ref = @ - 1]
    IN  IF t.fl[c.slot].mopen /\ ~t.ch.dead THEN clunk(u, p, c, <<<<"closed">>>>, t.fl[c.slot].fid)
        ELSE Do(u, p, c, <<<<"closed">>>>)

closed(t, p, c) ==
    LET v == t.fl[c.slot].v
    IN  Do([t EXCEPT !.fl[c.slot].mopen = FALSE], p, [c EXCEPT !.own = Append(@, v)], <<<<"put", v>>, <<"cleared_file">>>>)

(***************************************************************************)
(* The calls: what each step of one does                                   *)
(***************************************************************************)
Name(c)  == Last(c.path)
Dir(c)   == c.own[1]
L(ls)    == [k \in DOMAIN ls |-> <<ls[k]>>]

Opening      == L(<<"check", "getattr", "trunc", "getattr", "open_vnode", "resolve", "set_path", "clone", "topen", "mnt_open">>)
Creating     == L(<<"getattr", "mcreate", "tcreate", "created">>)
sys_stat     == L(<<"resolve", "getattr", "done">>)
sys_truncate == L(<<"resolve", "getattr", "wstat", "done">>)
sys_open     == L(<<"resolve">>) \o Opening
sys_creat    == L(<<"parent", "lookname", "creat">>)
sys_mkdir    == L(<<"parent", "lookname", "mkdir">>)
sys_unlink   == L(<<"parent", "lookname", "getattr_dir", "unlink", "m_remove", "tremove", "done">>)
m_rename     == L(<<"again", "target", "retire", "trename">>)
sys_rename   == L(<<"parent", "parent", "lookname", "getattr_dir", "getattr_dir", "looknew", "putnew">>) \o m_rename \o L(<<"done">>)
fetch        == L(<<"resolve", "clone_v", "read_open", "read", "read_end", "done">>)
load_dir     == L(<<"load_dir", "read_open", "read", "ld_got">>)
sys_mount9   == L(<<"version", "attach", "attached">>)
Steps(op) ==
    [stat |-> sys_stat, truncate |-> sys_truncate, open |-> sys_open, creat |-> sys_creat, mkdir |-> sys_mkdir,
     unlink |-> sys_unlink, rename |-> sys_rename, close |-> L(<<"file_close">>), io |-> L(<<"io", "done">>), fetch |-> fetch,
     readdir |-> load_dir, mount |-> sys_mount9, unmount |-> L(<<"unmount">>)][op]

WalkStep(t, p, c, l) ==
    CASE l = "resolve" -> enterWalk(t, p, c, Len(c.path))
      [] l = "parent"  -> enterWalk(t, p, c, Len(c.path) - 1)
      [] l = "walk"    -> walk(t, p, c)
      [] l = "lookup"  -> m_lookup(t, p, c, L(<<"walked">>), Top(c), c.path[c.i])
      [] l = "walked"  -> walked1(t, p, c)
      [] l = "up"      -> Go(leaveWalk(t), p, c)

(* sys_open; truncation is for O_TRUNC, which creat has *)
OpenStep(t, p, c, l) ==
    CASE l = "check"      -> IF t.vn[Top(c)].dir /\ c.mode # "r" THEN Fail(t, p, c, "EISDIR") ELSE Go(t, p, c)
      [] l = "trunc"      -> IF c.op = "creat" THEN Ask(t, p, c, <<>>, Msg("Twstat", fid_of(t, Top(c)))) ELSE Go(t, p, c)
      [] l = "open_vnode" -> open_vnode(t, p, c)
      [] l = "set_path"   -> IF c.e = "ok" THEN Do(t, p, c, <<<<"put", Top(c)>>>>) ELSE Go(t, p, [c EXCEPT !.e = "ok"])
      [] l = "clone"      -> mwalk(t, p, c, <<>>, fid_of(t, t.fl[c.slot].v), "")
      [] l = "topen"      -> IF Ok(c) THEN Ask(t, p, c, <<>>, [Msg("Topen", c.fid) EXCEPT !.mode = c.mode])
                             ELSE Go(t, p, [c EXCEPT !.e = c.r.e, !.todo = L(<<"file_close">>)])
      [] l = "mnt_open"   -> mnt_open(t, p, c)
      [] l = "creat"      -> IF Ok(c) THEN Do(t, p, c, Puts(Reverse(c.own)) \o L(<<"resolve">>) \o Opening)
                             ELSE IF c.r.e = "ENOENT" THEN Do(t, p, c, Creating \o L(<<"made", "putdir">>) \o Opening)
                             ELSE Fail(t, p, c, c.r.e)
      [] l = "putdir"     -> IF Ok(c) THEN Do(t, p, c, <<<<"put", Dir(c)>>>>) ELSE Fail(t, p, c, c.r.e)

(* mcreate; the fid that the server opened goes back *)
CreateStep(t, p, c, l) ==
    CASE l = "mcreate" -> mwalk(t, p, c, <<>>, fid_of(t, Dir(c)), "")
      [] l = "tcreate" -> IF ~Ok(c) THEN Fail(t, p, c, c.r.e)
                          ELSE Ask(t, p, c, <<>>, [Msg("Tcreate", c.fid) EXCEPT !.name = Name(c), !.mode = IF c.op = "mkdir" THEN "dir" ELSE "r"])
      [] l = "created" -> clunk(t, p, [c EXCEPT !.e = c.r.e], L(<<"ok">>), c.fid)
      [] l = "made"    -> IF c.e # "ok" THEN Fail(t, p, c, c.e) ELSE m_lookup(t, p, c, <<>>, Dir(c), Name(c))
      [] l = "mkdir"   -> IF Ok(c) THEN Fail(t, p, c, "EEXIST") ELSE Do(t, p, c, Creating \o L(<<"done">>))

RemoveStep(t, p, c, l) ==
    CASE l = "unlink"   -> Do(t, p, c, <<<<"put", Top(c)>>>>)
      [] l = "m_remove" -> mwalk(t, p, c, <<>>, fid_of(t, Dir(c)), Name(c))
      [] l = "tremove"  -> IF Ok(c) THEN Ask(t, p, c, <<>>, Msg("Tremove", c.fid)) ELSE Go(t, p, c)

(* m_rename: the file that has the new name goes first *)
RenameStep(t, p, c, l) ==
    CASE l = "looknew"  -> m_lookup(t, p, c, <<>>, Dir(c), c.to)
      [] l = "putnew"   -> IF Ok(c) THEN Do(t, p, c, <<<<"put", Top(c)>>>>) ELSE Go(t, p, c)
      [] l = "again"    -> m_lookup(t, p, c, <<>>, Dir(c), Name(c))
      [] l = "target"   -> IF Ok(c) THEN m_lookup(t, p, c, <<>>, Dir(c), c.to) ELSE Fail(t, p, c, c.r.e)
      [] l = "retire"   -> IF ~Ok(c) THEN Go(t, p, c)
                           ELSE Do(t, p, c, <<<<"put", Top(c)>>>> \o (IF t.vn[Top(c)].dir # t.vn[c.own[4]].dir THEN L(<<"mismatch">>)
                                                                    ELSE L(<<"clear", "tremove", "cleared">>)))
      [] l = "mismatch" -> Fail(t, p, c, IF t.vn[Top(c)].dir THEN "ENOTDIR" ELSE "EISDIR")
      [] l = "clear"    -> mwalk(t, p, c, <<>>, fid_of(t, Dir(c)), c.to)
      [] l = "cleared"  -> IF Ok(c) THEN Go(t, p, c) ELSE Fail(t, p, c, c.r.e)
      [] l = "trename"  -> Ask(t, p, c, <<>>, [Msg("Twstat", fid_of(t, Top(c))) EXCEPT !.name = c.to])

(* io, with the fid of the open file or one for the time being *)
IoStep(t, p, c, l) ==
    CASE l = "io"        -> Ask(t, p, c, <<>>, [Msg(IF c.mode = "w" THEN "Twrite" ELSE "Tread", t.fl[c.slot].fid) EXCEPT !.val = c.val])
      [] l = "clone_v"   -> mwalk(t, p, c, <<>>, fid_of(t, Top(c)), "")
      [] l = "read_open" -> IF Ok(c) THEN Ask(t, p, c, <<>>, Msg("Topen", c.fid)) ELSE Fail(t, p, c, c.r.e)
      [] l = "read"      -> IF Ok(c) THEN Ask(t, p, c, <<>>, Msg("Tread", c.fid)) ELSE Go(t, p, c)
      [] l = "read_end"  -> clunk(t, p, [c EXCEPT !.e = c.r.e], <<>>, c.fid)

(* load_dir reads until nothing comes *)
ListStep(t, p, c, l) ==
    LET v == t.fl[c.slot].v
    IN  CASE l = "load_dir" -> mwalk([t EXCEPT !.vn[v].list = <<>>], p, c, <<>>, fid_of(t, v), "")
          [] l = "ld_got"   -> IF ~Ok(c) \/ c.r.a = <<>> THEN clunk(t, p, [c EXCEPT !.e = c.r.e], L(<<"done">>), c.fid)
                               ELSE Ask([t EXCEPT !.vn[v].list = @ \o c.r.a], p, c, L(<<"ld_got">>), Msg("Tread", c.fid))

MountStep(t, p, c, l) ==
    CASE l = "version"  -> Ask([t EXCEPT !.ch.open = TRUE], p, c, <<>>, Msg("Tversion", 0))
      [] l = "attach"   -> IF ~Ok(c) THEN Return([t EXCEPT !.ch.open = FALSE], p)
                           ELSE Ask([t EXCEPT !.ch.nextfid = @ + 1], p, [c EXCEPT !.fid = t.ch.nextfid], <<>>, Msg("Tattach", t.ch.nextfid))
      [] l = "attached" -> IF ~Ok(c) THEN Return([t EXCEPT !.ch.open = FALSE], p)
                           ELSE made([t EXCEPT !.ch.mounted = TRUE], p, c, c.r.q)
      [] l = "unmount"  -> Do([t EXCEPT !.ch.mounted = FALSE], p, [c EXCEPT !.own = <<0>>], <<<<"put", 0>>>>)

Step(t, p, c, l) ==
    CASE l = "ok"           -> Go(t, p, [c EXCEPT !.r.e = "ok"])
      [] l = "mvnode"       -> mvnode(t, p, c)
      [] l = "done"         -> Fail(t, p, c, IF c.e = "ok" THEN c.r.e ELSE c.e)
      [] l = "fail"         -> IF c.slot = 0 THEN Fail(t, p, c, c.e) ELSE Go(t, p, c)
      [] l = "lookname"     -> m_lookup(t, p, c, <<>>, Top(c), Name(c))
      [] l = "getattr"      -> getattr(t, p, c, Top(c))
      [] l = "getattr_dir"  -> IF Len(c.own) = (IF c.op = "rename" THEN 2 ELSE 1) THEN Fail(t, p, c, c.r.e) ELSE getattr(t, p, c, Dir(c))
      [] l = "wstat"        -> IF t.vn[Top(c)].dir THEN Fail(t, p, c, "EISDIR")
                               ELSE Ask(t, p, c, <<>>, [Msg("Twstat", fid_of(t, Top(c))) EXCEPT !.val = c.val])
      [] l = "file_close"   -> file_close(t, p, c)
      [] l = "closed"       -> closed(t, p, c)
      [] l = "cleared_file" -> Return([t EXCEPT !.fl[c.slot].v = -1], p)
      [] l \in {"resolve", "parent", "walk", "lookup", "walked", "up"} -> WalkStep(t, p, c, l)
      [] l \in {"check", "trunc", "open_vnode", "set_path", "clone", "topen", "mnt_open", "creat", "putdir"} -> OpenStep(t, p, c, l)
      [] l \in {"mcreate", "tcreate", "created", "made", "mkdir"} -> CreateStep(t, p, c, l)
      [] l \in {"unlink", "m_remove", "tremove"} -> RemoveStep(t, p, c, l)
      [] l \in {"looknew", "putnew", "again", "target", "retire", "mismatch", "clear", "cleared", "trename"} -> RenameStep(t, p, c, l)
      [] l \in {"io", "clone_v", "read_open", "read", "read_end"} -> IoStep(t, p, c, l)
      [] l \in {"load_dir", "ld_got"} -> ListStep(t, p, c, l)
      [] l \in {"version", "attach", "attached", "unmount"} -> MountStep(t, p, c, l)

Resume(t, p, c, l) ==
    CASE l[1] = "put"  -> vput(t, p, c, l[2])
      [] l[1] = "gone" -> gone(t, p, c, l[2])
      [] OTHER         -> Step(t, p, c, l[1])

(***************************************************************************)
(* The processes                                                           *)
(***************************************************************************)
Run(t) == \E u \in {t} : Become(u)

Continue(p) ==
    /\ call[p].st = "run"
    /\ Run(Resume(Now, p, [call[p] EXCEPT !.todo = Tail(@), !.st = ""], Head(call[p].todo)))

(* A call begins: w is [op, path, to, mode, val] *)
Begin(p, w) ==
    LET c == [Idle EXCEPT !.op = w.op, !.path = w.path, !.to = w.to, !.mode = w.mode, !.val = w.val, !.slot = 0,
                          !.todo = Steps(w.op)]
    IN  /\ Quiet /\ call[p].op = ""
        /\ CASE w.op = "mount" -> ~chan.open /\ chan.id = 0 /\ Run(Go(Now, p, c))
             [] w.op \in {"close", "io", "readdir"} ->
                  /\ fd[p] # 0
                  /\ w.op = "readdir" => vn[files[fd[p]].v].dir
                  /\ Run(Go([Now EXCEPT !.fd[p] = IF w.op = "close" THEN 0 ELSE @], p, [c EXCEPT !.slot = fd[p]]))
             [] OTHER -> chan.mounted /\ (w.op \in {"open", "creat"} => fd[p] = 0) /\ Run(Go(Now, p, c))

(* The channel is free, or a signal came *)
Woken(p) ==
    /\ Quiet /\ call[p].st = "want" /\ (call[p].woken \/ p \in sig.on)
    /\ Run(IF p \in sig.on THEN unasked(Now, p, call[p], call[p].req) ELSE rpc(Now, p, [call[p] EXCEPT !.st = ""], call[p].req))

(* An answer came, or the server is gone, or a signal came *)
Hears(p) ==
    /\ Quiet /\ call[p].st = "wait" /\ (down # <<>> \/ ~srv.alive \/ p \in sig.on)
    /\ Run(IF p \in sig.on THEN interrupted(Now, p, call[p]) ELSE receive(Now, p, call[p]))

Interrupt(p) ==
    /\ Quiet /\ call[p].st # "" /\ p \notin sig.on
    /\ sig' = [sig EXCEPT !.on = @ \cup {p}, !.sent = @ + 1]
    /\ UNCHANGED <<chan, vn, files, fd, call, up, down, fids, nodes, srv>>

(***************************************************************************)
(* Properties                                                              *)
(***************************************************************************)
OpenFiles   == {s \in DOMAIN files : files[s].mopen}
Active      == {p \in Procs : call[p].op # ""}

(* The variables have their types.                                         *)
TypeOK ==
    /\ chan.depth \in 0 .. 3 /\ chan.tag \in 0 .. NOTAG - 1
    /\ \A v \in DOMAIN vn : vn[v].ref \in 0 .. 9 /\ vn[v].fid \in 1 .. chan.nextfid
    /\ \A s \in DOMAIN files : files[s].ref \in 0 .. 1
    /\ \A p \in Procs : call[p].st \in {"", "run", "want", "wait"} /\ fd[p] \in 0 .. NFILE
    /\ Cardinality(DOMAIN fids) <= NFID
    /\ \A i \in DOMAIN nodes : nodes[i].refs \in 0 .. NFID + 1

(* The channel is busy exactly while one process waits for an answer: rpc  *)
(* takes it before it sends and every way out, an error of the server, a   *)
(* signal or a hang up, gives it back.                                     *)
BusyHeld ==
    /\ chan.busy = (\E p \in Procs : call[p].st = "wait")
    /\ \A p, q \in Procs : call[p].st = "wait" /\ call[q].st = "wait" => p = q

(* Whoever sleeps for the channel was woken when it became free.           *)
SleepersWait == \A p \in Procs : call[p].st = "want" /\ ~call[p].woken => chan.busy

(* An answer that bears the tag of the request somebody waits for answers  *)
(* that request, however many interrupted ones are answered late.          *)
TagsTell == \A p \in Procs : call[p].st = "wait" => \A k \in DOMAIN down : down[k].tag = call[p].req.tag => down[k].id = call[p].req.id

(* A fid that the mount driver keeps is one the server knows, and stands   *)
(* for the file of the vnode: signals and other processes' calls between   *)
(* its messages do not confuse the two tables.                             *)
FidsAgree ==
    srv.alive =>
        /\ \A v \in DOMAIN vn : vn[v].ref > 0 => vn[v].fid \in DOMAIN fids /\ nodes[fids[vn[v].fid].node].path = v
        /\ \A s \in OpenFiles : files[s].ref > 0 => files[s].fid \in DOMAIN fids /\ nodes[fids[files[s].fid].node].path = files[s].v

(* When no call is under way, the server has the fids of the vnodes and of *)
(* the open files and no other, save those whose walk was broken off by a  *)
(* signal after it was sent and those whose clunk or remove was before:    *)
(* every other fid that a walk made for the time being was clunked, on the *)
(* error paths too.  The excepted ones stay until the server ends          *)
(* (mnt.c:143, 163: nobody keeps their numbers).                           *)
FidsReturned ==
    srv.alive /\ chan.open /\ Active = {} /\ up = <<>> =>
        LET kept == {vn[v].fid : v \in DOMAIN vn} \cup {files[s].fid : s \in OpenFiles}
        IN  kept \subseteq DOMAIN fids /\ DOMAIN fids \ kept \subseteq sig.left

Held(v) == (IF v = 0 /\ chan.mounted THEN 1 ELSE 0)
           + Cardinality({s \in DOMAIN files : files[s].v = v /\ files[s].ref > 0})
           + Cardinality({x \in Procs \X (1 .. 9) : x[2] <= Len(call[x[1]].own) /\ call[x[1]].own[x[2]] = v})
           + Cardinality({p \in Procs : \E k \in DOMAIN call[p].todo : call[p].todo[k] = <<"closed">> /\ files[call[p].slot].v = v})

(* An open file refers to a vnode that is there, whoever closes another    *)
(* file meanwhile.                                                         *)
FilesRefer == \A s \in DOMAIN files : files[s].ref > 0 => files[s].v \in DOMAIN vn

(* A vnode's count is the number of its holders: the mount, open files and *)
(* calls that walk or work on it; what they hold is in the table.          *)
RefsCounted ==
    /\ \A v \in DOMAIN vn : vn[v].ref = Held(v)
    /\ FilesRefer
    /\ \A p \in Procs : Range(call[p].own) \subseteq DOMAIN vn

(* The server keeps a removed file as long as a fid stands for it and not  *)
(* longer, live names are unique, and a live file is in a live directory.  *)
NodesKept ==
    LET on(i) == Cardinality({k \in DOMAIN fids : fids[k].node = i})
        live  == {i \in DOMAIN nodes : nodes[i].used /\ ~nodes[i].removed}
    IN  srv.alive =>
        /\ \A k \in DOMAIN fids : nodes[fids[k].node].used
        /\ \A i \in DOMAIN nodes : nodes[i].used => nodes[i].refs = on(i) + (IF i = 0 THEN 1 ELSE 0) /\ (nodes[i].removed => on(i) > 0)
        /\ \A i \in live : nodes[i].parent \in live /\ nodes[nodes[i].parent].dir
        /\ \A i, j \in live \ {0} : nodes[i].parent = nodes[j].parent /\ nodes[i].name = nodes[j].name => i = j

(* walk_depth counts the walks under way, so that none is left over to     *)
(* make later ones fail.                                                   *)
DepthCounted == Active = {} => chan.depth = 0

(* Whoever waits for an answer gets one: the request is under way or the   *)
(* answer is, or the server is gone, which ends the call too.              *)
AnswersCome ==
    \A p \in Procs : call[p].st = "wait" /\ srv.alive =>
        \/ \E k \in DOMAIN up : up[k].id = call[p].req.id
        \/ \E k \in DOMAIN down : down[k].id = call[p].req.id

(* Calls over the channel that all processes share, interrupted, flushed   *)
(* and answered late as they are, get the answers to their own requests,   *)
(* the mount driver keeps no fid that the server does not know for the     *)
(* same file, and the server none that the driver forgot, save where a     *)
(* signal broke off a walk or a clunk (mnt.c rpc and its callers,          *)
(* lib/9p.c, os/bin/ramfs9.c).                                             *)
MountSound ==
    /\ TypeOK /\ BusyHeld /\ SleepersWait /\ TagsTell /\ AnswersCome /\ DepthCounted
    /\ FidsAgree /\ FidsReturned /\ RefsCounted /\ NodesKept

------------------------------------------------------------------------------
(***************************************************************************)
(* Small instances of P9: two processes that work on files of their own,   *)
(* one that opens and closes, with signals, a server that dies, and the    *)
(* end of the mount.                                                       *)
(***************************************************************************)

CONSTANTS P1, P2, P3,
          Loads      \* names of the workloads the run goes through

VARIABLE load

(* What each process does, one of a set of calls after the other; how many *)
(* signals come and whether the server may die                             *)
Op(op, path, to, mode, val) == [op |-> op, path |-> path, to |-> to, mode |-> mode, val |-> val]
Stat(path)   == Op("stat", path, "", "r", 0)
Creat(path)  == Op("creat", path, "", "w", 0)
Open(path, mode) == Op("open", path, "", mode, 0)
Unlink(path) == Op("unlink", path, "", "r", 0)
Mkdir(path)  == Op("mkdir", path, "", "r", 0)
Fetch(path)  == Op("fetch", path, "", "r", 0)
Write        == Op("io", <<>>, "", "w", 1)
Read         == Op("io", <<>>, "", "r", 0)
Close        == Op("close", <<>>, "", "r", 0)
Readdir      == Op("readdir", <<>>, "", "r", 0)
Rename(path, to) == Op("rename", path, to, "r", 0)
Truncate(path)   == Op("truncate", path, "", "w", 0)
Mount        == Op("mount", <<>>, "", "r", 0)
Unmount      == Op("unmount", <<>>, "", "r", 0)

Base == [ops |-> (P3 :> <<>> @@ P1 :> <<{Mount}, {Creat(<<"a">>)}, {Write, Unlink(<<"a">>)}, {Close}, {Stat(<<"a">>), Unlink(<<"a">>)}>>
                 @@ P2 :> <<{Stat(<<"b">>), Truncate(<<"b">>)}, {Unlink(<<"b">>)}, {Mkdir(<<"b">>)}>>),
         sigs |-> 0, die |-> FALSE]
Work(name) ==
    CASE name = "files" -> Base
      [] name = "many" -> [Base EXCEPT !.ops = P3 :> <<>> @@ P1 :> <<{Mount}, {Open(<<>>, "r"), Open(<<"d">>, "w")}, {Readdir, Stat(<<"d">>)}, {Close}>>
                                      @@ P2 :> <<{Mkdir(<<"e">>)}, {Unlink(<<"e">>), Mkdir(<<"e">>)}, {Mkdir(<<"f">>)}, {Mkdir(<<"g">>)}>>]
      [] name = "deep" -> [Base EXCEPT !.ops = P3 :> <<>> @@ P1 :> <<{Mount}, {Open(<<"d", "c">>, "rw")}, {Unlink(<<"d", "c">>), Unlink(<<"d">>)}, {Read},
                                              {Unlink(<<"d">>), Stat(<<"d", "c", "x">>)}, {Close}>>
                                      @@ P2 :> <<{Fetch(<<"b">>)}, {Truncate(<<"b">>)}>>]
      [] name = "rename" -> [Base EXCEPT !.ops = P3 :> <<>> @@ P1 :> <<{Mount}, {Rename(<<"b">>, "x"), Rename(<<"b">>, "d")}, {Creat(<<"b">>)}, {Rename(<<"b">>, "x")}, {Close}>>
                                      @@ P2 :> <<{Fetch(<<"y">>)}, {Mkdir(<<"y">>)}>>]
      [] name = "signal" -> [Base EXCEPT !.ops = P3 :> <<>> @@ P1 :> <<{Mount}, {Open(<<"b">>, "r")}, {Read, Readdir}, {Close}>> @@ P2 :> <<{Stat(<<"d">>), Rename(<<"c">>, "d")}>>, !.sigs = 2]
      [] name = "three" -> [Base EXCEPT !.ops = P1 :> <<{Mount}, {Stat(<<"b">>)}, {Fetch(<<"b">>)}>> @@ P2 :> <<{Stat(<<"d", "c">>)}>>
                                      @@ P3 :> <<{Mkdir(<<"e">>)}>>, !.sigs = 1]
      [] name = "dies" -> [Base EXCEPT !.ops = P3 :> <<>> @@ P1 :> <<{Mount}, {Open(<<"b">>, "r")}, {Close}>> @@ P2 :> <<{Stat(<<"d">>), Unmount}, {Unmount}>>, !.sigs = 1, !.die = TRUE]

MCInit == Init /\ load \in [name : Loads, at : {[p \in Procs |-> 1]}]

MCBegin(p) ==
    LET ops == Work(load.name).ops[p]
    IN  /\ load.at[p] <= Len(ops)
        /\ \E w \in ops[load.at[p]] :
             \/ Begin(p, w)
             \/ w.op \in {"io", "readdir", "close"} /\ Quiet /\ call[p].op = "" /\ fd[p] = 0 /\ chan.id > 0 /\ UNCHANGED vars
        /\ load' = [load EXCEPT !.at[p] = @ + 1]

MCNext ==
    \/ \E p \in Procs : MCBegin(p)
    \/ UNCHANGED load /\ \E p \in Procs : Continue(p)
    \/ UNCHANGED load /\ \E p \in Procs : Woken(p)
    \/ UNCHANGED load /\ \E p \in Procs : Hears(p)
    \/ UNCHANGED load /\ Serve
    \/ UNCHANGED load /\ HangUp
    \/ UNCHANGED load /\ Work(load.name).die /\ Die
    \/ UNCHANGED load /\ sig.sent < Work(load.name).sigs /\ \E p \in Procs : Interrupt(p)

MCSpec == MCInit /\ [][MCNext]_<<vars, load>>
==============================================================================
