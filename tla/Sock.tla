-------------------------------- MODULE Sock ---------------------------------
(***************************************************************************)
(* Unix sockets (sock.c): streams and datagrams, sockets bound to a path,  *)
(* the queue of a listening socket, pairs, shutdown, close and poll.       *)
(* The kernel is not preempted: what a call does until it returns or       *)
(* sleeps is one step.  A slot of socks[] that is freed is used again by   *)
(* the next socket, whatever still points to it.                           *)
(*                                                                         *)
(* Bytes are numbered by their sender, so that a reader's bytes can be     *)
(* told apart: the ring of a stream holds <<id of the sender, number>>.    *)
(* Left out: a kernel heap that is full, permissions on paths, the options *)
(* that Unix sockets ignore, and Internet sockets (Tcp, Inet).             *)
(***************************************************************************)
EXTENDS Integers, Sequences, FiniteSets, SequencesExt

CONSTANTS Procs,        \* processes
          Paths,        \* names that sockets may be bound to
          NSOCK,        \* slots of socks[]
          NFILE,        \* slots of the open file table
          NOFILE,       \* descriptors of a process
          RINGSIZE,     \* bytes in the buffer of a stream
          DGRAM_LIMIT,  \* bytes in the queue of a datagram socket
          ACCEPTMAX,    \* connections in the queue of a listener
          MaxSocks,     \* bound: sockets made in all
          MaxOut        \* bound: bytes sent by one socket

VARIABLES socks,        \* the socket table
          file,         \* the open file table: socket and references
          fds,          \* the descriptors of the processes
          node,         \* what a path names: nothing, a dead socket file, or
                        \* the slot of the socket that is bound to it
          call,         \* the call that a process sleeps in
          next_sock_id

vars == <<socks, file, fds, node, call, next_sock_id>>

Slots == 1 .. NSOCK
Files == 1 .. NFILE
FDs   == 1 .. NOFILE

NoSock == [used |-> FALSE, id |-> 0, type |-> "none", state |-> "FREE", shut_rd |-> FALSE, shut_wr |-> FALSE,
           timeo |-> FALSE, files |-> 0, rx |-> <<>>, dq |-> <<>>, bound |-> FALSE, peer_path |-> "none",
           peer |-> 0, acceptq |-> <<>>, backlog |-> 0, out |-> 0, got |-> 0]
NoFile == [sock |-> 0, ref |-> 0]
Idle   == [op |-> "none", s |-> 0, on |-> 0, n |-> 0, woken |-> FALSE, to |-> 0]

Lowest(S)  == CHOOSE x \in S : \A y \in S : x <= y
Least(a, b) == IF a < b THEN a ELSE b
Sum(q)     == FoldLeft(LAMBDA a, g : a + g.len, 0, q)

(***************************************************************************)
(* The table.  t is the state of a call that is under way: t.s the sockets,*)
(* t.c the sleeping calls, t.f the files, t.d the descriptors, t.n the     *)
(* names, t.id the next identifier.                                        *)
(***************************************************************************)
Now == [s |-> socks, f |-> file, d |-> fds, n |-> node, c |-> call, id |-> next_sock_id]

Become(t) ==
    /\ socks' = t.s /\ file' = t.f /\ fds' = t.d /\ node' = t.n /\ call' = t.c /\ next_sock_id' = t.id

(* Everyone on the queue of socket i, and everyone in poll *)
sock_wake(t, i) ==
    [t EXCEPT !.c = [p \in Procs |-> IF t.c[p].on = i \/ t.c[p].op = "poll"
                                     THEN [t.c[p] EXCEPT !.woken = TRUE] ELSE t.c[p]]]

FreeSlots(t) == {i \in Slots : ~t.s[i].used}

sock_alloc(t, type) ==
    LET i == Lowest(FreeSlots(t))
    IN  [t |-> [t EXCEPT !.s[i] = [NoSock EXCEPT !.used = TRUE, !.id = t.id, !.type = type, !.state = "UNCONN"],
                         !.id = @ + 1],
         i |-> i]

(* The file of a bound socket stays, with nobody behind it *)
sock_free(t, i) ==
    [t EXCEPT !.s[i] = NoSock, !.n = [q \in Paths |-> IF t.n[q] = i THEN -1 ELSE t.n[q]]]

(* Slip: the peer of a socket that was closed keeps its pointer *)
keepsPeer(t, i) == t

(* The other end of socket i is told that i goes *)
leavePeer(t, i) ==
    LET p == t.s[i].peer
    IN  IF p = 0 THEN t ELSE sock_wake([t EXCEPT !.s[p].peer = 0, !.s[p].state = "CONNECTED"], p)

(* The connections that were not accepted go with the listener *)
dropQueue(t, i) ==
    IF t.s[i].state # "LISTEN" THEN t
    ELSE FoldLeft(LAMBDA u, n : sock_free(leavePeer(u, n), n), t, t.s[i].acceptq)

sock_close(t, i) ==
    IF t.s[i].files > 1 THEN [t EXCEPT !.s[i].files = @ - 1]
    ELSE sock_free(leavePeer(dropQueue(t, i), i), i)

file_close(t, f) ==
    IF t.f[f].ref > 1 THEN [t EXCEPT !.f[f].ref = @ - 1]
    ELSE sock_close([t EXCEPT !.f[f] = NoFile], t.f[f].sock)

FreeFiles(t)  == {f \in Files : t.f[f].ref = 0}
FreeFds(t, p) == {k \in FDs : t.d[p][k] = 0}

(* A descriptor for socket i.  fd is 0 when the process has none left (the *)
(* file that was taken is closed, and the socket with it) and -1 when the  *)
(* file table is full.                                                     *)
sock_fd(t, p, i) ==
    LET f == Lowest(FreeFiles(t))
        k == Lowest(FreeFds(t, p))
        u == [t EXCEPT !.f[f] = [sock |-> i, ref |-> 1], !.s[i].files = @ + 1]
    IN  IF FreeFiles(t) = {} THEN [t |-> t, fd |-> -1]
        ELSE IF FreeFds(t, p) = {} THEN [t |-> file_close(u, f), fd |-> 0]
        ELSE [t |-> [u EXCEPT !.d[p][k] = f], fd |-> k]

Running(p) == call[p].op = "none"
Of(p, k)   == file[fds[p][k]].sock
Has(p, k)  == Running(p) /\ fds[p][k] # 0

(***************************************************************************)
(* Making, naming and closing sockets                                      *)
(***************************************************************************)
Socket(p, type) ==
    /\ Running(p) /\ FreeSlots(Now) # {} /\ next_sock_id <= MaxSocks
    /\ LET a == sock_alloc(Now, type) IN Become(sock_fd(a.t, p, a.i).t)

(* Both sockets are streams, whatever type was asked for *)
Socketpair(p) ==
    /\ Running(p) /\ Cardinality(FreeSlots(Now)) > 1 /\ next_sock_id < MaxSocks
    /\ LET a == sock_alloc(Now, "stream")
           b == sock_alloc(a.t, "stream")
           t == [b.t EXCEPT !.s[a.i].peer = b.i, !.s[b.i].peer = a.i,
                            !.s[a.i].state = "CONNECTED", !.s[b.i].state = "CONNECTED"]
           x == sock_fd(t, p, a.i)
           y == sock_fd(x.t, p, b.i)
       IN  Become(IF x.fd <= 0 THEN sock_free(sock_free(x.t, a.i), b.i)
                  ELSE IF y.fd > 0 THEN y.t
                  ELSE sock_free(file_close([y.t EXCEPT !.d[p][x.fd] = 0], x.t.d[p][x.fd]), b.i))

Bind(p, k, path) ==
    /\ Has(p, k) /\ ~socks[Of(p, k)].bound /\ node[path] = 0
    /\ Become([Now EXCEPT !.s[Of(p, k)].bound = TRUE, !.n[path] = Of(p, k)])

Unlink(path) ==
    /\ node[path] # 0
    /\ node' = [node EXCEPT ![path] = 0] /\ UNCHANGED <<socks, file, fds, call, next_sock_id>>

Listen(p, k, backlog) ==
    /\ Has(p, k) /\ socks[Of(p, k)].type = "stream" /\ socks[Of(p, k)].bound
    /\ Become([Now EXCEPT !.s[Of(p, k)].state = "LISTEN", !.s[Of(p, k)].backlog = Least(backlog, ACCEPTMAX)])

Close(p, k) ==
    /\ Has(p, k)
    /\ Become(file_close([Now EXCEPT !.d[p][k] = 0], fds[p][k]))

(* fork gives the child the parent's files *)
Share(p, q, k) ==
    /\ Has(p, k) /\ Running(q) /\ fds[q][k] = 0 /\ p # q
    /\ Become([Now EXCEPT !.d[q][k] = fds[p][k], !.f[fds[p][k]].ref = @ + 1])

Shutdown(p, k, rd, wr) ==
    LET i == Of(p, k)
        t == [Now EXCEPT !.s[i].shut_rd = @ \/ rd, !.s[i].shut_wr = @ \/ wr]
        u == IF socks[i].peer = 0 THEN t ELSE sock_wake(t, socks[i].peer)
    IN  /\ Has(p, k) /\ (socks[i].type = "stream" => socks[i].state = "CONNECTED")
        /\ Become(sock_wake(u, i))

SetTimeout(p, k) ==
    /\ Has(p, k) /\ ~socks[Of(p, k)].timeo
    /\ Become([Now EXCEPT !.s[Of(p, k)].timeo = TRUE])

(***************************************************************************)
(* Connecting                                                              *)
(***************************************************************************)
(* The socket of the given type that is bound to path, 0 for none *)
unix_lookup(path, type) ==
    LET i == node[path] IN IF i > 0 /\ socks[i].type = type THEN i ELSE 0

(* A listener takes another connection *)
Accepts(l) == Len(socks[l].acceptq) < socks[l].backlog

Connect(p, k, path) ==
    LET i == Of(p, k)
        l == unix_lookup(path, "stream")
        a == sock_alloc(Now, "stream")
        t == [a.t EXCEPT !.s[a.i].state = "CONNECTED", !.s[i].state = "CONNECTED",
                         !.s[a.i].peer = i, !.s[i].peer = a.i, !.s[l].acceptq = Append(@, a.i)]
    IN  /\ Has(p, k) /\ socks[i].type = "stream" /\ l # 0
        /\ socks[l].state = "LISTEN" /\ Accepts(l) /\ socks[i].state # "CONNECTED"
        /\ FreeSlots(Now) # {} /\ next_sock_id <= MaxSocks
        /\ Become(sock_wake(t, l))

ConnectDgram(p, k, path) ==
    /\ Has(p, k) /\ socks[Of(p, k)].type = "dgram" /\ unix_lookup(path, "dgram") # 0
    /\ Become([Now EXCEPT !.s[Of(p, k)].peer_path = path, !.s[Of(p, k)].state = "CONNECTED"])

(***************************************************************************)
(* Calls that may sleep.  c is the call: op, socket s, the queue on that   *)
(* it sleeps on, and what is left to do.  Each operator below is the body  *)
(* of the loop, entered when the call starts and whenever it is woken.     *)
(***************************************************************************)
Return(t, p)       == [t EXCEPT !.c[p] = Idle]
sock_wait(t, p, c, i, nb) == IF nb THEN Return(t, p) ELSE [t EXCEPT !.c[p] = [c EXCEPT !.on = i, !.woken = FALSE]]

AcceptOn(t, p, c, nb) ==
    LET l == t.s[c.s]
        n == Head(l.acceptq)
        u == [t EXCEPT !.s[c.s].acceptq = Tail(@)]
        x == sock_fd(u, p, n)
    IN  IF l.acceptq = <<>> THEN sock_wait(t, p, c, c.s, nb)
        ELSE Return(IF x.fd < 0 THEN sock_free(x.t, n) ELSE x.t, p)

(* Room in the ring of socket i, which it has once it is connected *)
ring_space(t, i) == IF t.s[i].state = "CONNECTED" \/ t.s[i].peer # 0 THEN RINGSIZE - Len(t.s[i].rx) ELSE 0

SendOn(t, p, c, nb) ==
    LET s    == t.s[c.s]
        peer == s.peer
        k    == Least(ring_space(t, peer), c.n)
        new  == [j \in 1 .. k |-> <<s.id, s.out + j>>]
        u    == IF k = 0 THEN t
                ELSE sock_wake([t EXCEPT !.s[peer].rx = @ \o new, !.s[c.s].out = @ + k], peer)
    IN  IF peer = 0 \/ t.s[peer].shut_rd THEN Return(t, p)
        ELSE IF k = c.n THEN Return(u, p)
        ELSE sock_wait(u, p, [c EXCEPT !.n = @ - k], c.s, nb)

enqueue(dq, g) == Append(dq, g)

(* c.s is the sender; c.to the socket that was found at the path *)
SendDgramOn(t, p, c, nb) ==
    LET s == t.s[c.s]
        g == [len |-> c.n, from |-> s.id, to |-> t.s[c.to].id, number |-> s.out + 1]
    IN  IF Sum(t.s[c.to].dq) + c.n > DGRAM_LIMIT THEN sock_wait(t, p, c, c.to, nb)
        ELSE Return(sock_wake([t EXCEPT !.s[c.to].dq = enqueue(@, g), !.s[c.s].out = @ + 1], c.to), p)

roomCame(t, i) == IF t.s[i].peer = 0 THEN t ELSE sock_wake(t, t.s[i].peer)

ring_drop(rx, k) == SubSeq(rx, k + 1, Len(rx))

RecvOn(t, p, c, nb) ==
    LET s == t.s[c.s]
        k == Least(c.n, Len(s.rx))
        u == [t EXCEPT !.s[c.s].rx = ring_drop(@, k), !.s[c.s].got = @ + k]
    IN  CASE s.rx # <<>> -> Return(roomCame(u, c.s), p)
          [] s.rx = <<>> /\ s.state # "CONNECTED" -> Return(t, p)
          [] s.rx = <<>> /\ s.state = "CONNECTED" ->
               IF s.peer = 0 \/ s.shut_rd \/ t.s[s.peer].shut_wr THEN Return(t, p)
               ELSE sock_wait(t, p, c, c.s, nb)

RecvDgramOn(t, p, c, nb) ==
    LET s == t.s[c.s]
    IN  IF s.dq # <<>> THEN Return(sock_wake([t EXCEPT !.s[c.s].dq = Tail(@)], c.s), p)
        ELSE IF s.shut_rd THEN Return(t, p)
        ELSE sock_wait(t, p, c, c.s, nb)

(* What poll reports of socket i *)
sock_poll(t, i) ==
    LET s == t.s[i]
    IN  CASE s.state = "LISTEN" -> IF s.acceptq # <<>> THEN {"in"} ELSE {}
          [] s.state # "LISTEN" /\ s.type = "dgram" -> {"out"} \cup IF s.dq # <<>> THEN {"in"} ELSE {}
          [] OTHER ->
               (IF s.rx # <<>> THEN {"in"} ELSE {})
                 \cup (IF s.state = "CONNECTED" /\ (s.peer = 0 \/ t.s[s.peer].shut_wr) THEN {"in", "hup"} ELSE {})
                 \cup (IF s.peer # 0 /\ ring_space(t, s.peer) > 0 THEN {"out"} ELSE {})
                 \cup (IF s.peer = 0 /\ s.state = "CONNECTED" THEN {"out"} ELSE {})

(* c.n is 1 to wait for input and 2 to wait for output *)
Ready(t, c) == sock_poll(t, c.s) \cap {"hup", IF c.n = 1 THEN "in" ELSE "out"} # {}

PollOn(t, p, c, nb) ==
    IF nb \/ Ready(t, c) THEN Return(t, p) ELSE [t EXCEPT !.c[p] = [c EXCEPT !.woken = FALSE]]

Body(t, p, c, nb) ==
    CASE c.op = "accept" -> AcceptOn(t, p, c, nb)
      [] c.op = "send"   -> SendOn(t, p, c, nb)
      [] c.op = "sendto" -> SendDgramOn(t, p, c, nb)
      [] c.op = "recv"   -> RecvOn(t, p, c, nb)
      [] c.op = "recvd"  -> RecvDgramOn(t, p, c, nb)
      [] c.op = "poll"   -> PollOn(t, p, c, nb)

Call(op, s, n, to) == [Idle EXCEPT !.op = op, !.s = s, !.n = n, !.to = to]

Accept(p, k, nb) ==
    /\ Has(p, k) /\ socks[Of(p, k)].type = "stream" /\ socks[Of(p, k)].state = "LISTEN"
    /\ Become(AcceptOn(Now, p, Call("accept", Of(p, k), 0, 0), nb))

Send(p, k, n, nb) ==
    LET s == socks[Of(p, k)]
    IN  /\ Has(p, k) /\ s.type = "stream" /\ ~s.shut_wr /\ s.state = "CONNECTED" /\ s.out + n <= MaxOut
        /\ Become(SendOn(Now, p, Call("send", Of(p, k), n, 0), nb))

(* path is "none" for send and write, which go to the path of connect *)
SendTo(p, k, path, n, nb) ==
    LET s == socks[Of(p, k)]
        q == IF path = "none" THEN s.peer_path ELSE path
    IN  /\ Has(p, k) /\ s.type = "dgram" /\ ~s.shut_wr /\ q # "none" /\ s.out < MaxOut
        /\ n <= DGRAM_LIMIT /\ unix_lookup(q, "dgram") # 0
        /\ Become(SendDgramOn(Now, p, Call("sendto", Of(p, k), n, unix_lookup(q, "dgram")), nb))

Recv(p, k, n, nb) ==
    /\ Has(p, k)
    /\ Become(IF socks[Of(p, k)].type = "dgram"
              THEN RecvDgramOn(Now, p, Call("recvd", Of(p, k), n, 0), nb)
              ELSE RecvOn(Now, p, Call("recv", Of(p, k), n, 0), nb))

Poll(p, k, ev) ==
    /\ Has(p, k)
    /\ Become(PollOn(Now, p, Call("poll", Of(p, k), ev, 0), FALSE))

Resume(p) ==
    /\ ~Running(p) /\ call[p].woken
    /\ Become(Body(Now, p, call[p], FALSE))

(* The timer of sock_wait or a signal; the call returns with what it has *)
Timeout(p)   == ~Running(p) /\ call[p].op # "poll" /\ socks[call[p].on].timeo /\ Become(Return(Now, p))
Interrupt(p) == ~Running(p) /\ Become(Return(Now, p))

Init ==
    /\ socks = [i \in Slots |-> NoSock] /\ file = [f \in Files |-> NoFile]
    /\ fds = [p \in Procs |-> [k \in FDs |-> 0]] /\ node = [q \in Paths |-> 0]
    /\ call = [p \in Procs |-> Idle] /\ next_sock_id = 1

(***************************************************************************)
(* What holds                                                              *)
(***************************************************************************)
(* Every slot, file and sleeping call is well formed: a queue of          *)
(* connections within its backlog, rings and queues within their size.     *)
TypeOK ==
    /\ \A i \in Slots :
         /\ socks[i].state \in {"FREE", "UNCONN", "LISTEN", "CONNECTED"}
         /\ socks[i].used <=> socks[i].state # "FREE"
         /\ Len(socks[i].rx) <= RINGSIZE /\ Sum(socks[i].dq) <= DGRAM_LIMIT
         /\ socks[i].peer \in 0 .. NSOCK /\ Len(socks[i].acceptq) <= socks[i].backlog
    /\ \A f \in Files : file[f].sock \in 0 .. NSOCK
    /\ \A p \in Procs : fds[p] \in [FDs -> 0 .. NFILE]
    /\ \A q \in Paths : node[q] \in -1 .. NSOCK

(* A connected socket and its peer point to each other or the peer is      *)
(* gone: no pointer leads to a slot that was freed or given to another.    *)
PeersMutual ==
    \A i \in Slots : socks[i].peer # 0 =>
        /\ socks[i].used /\ socks[socks[i].peer].used
        /\ socks[socks[i].peer].peer = i

(* Every socket is held by the files that it counts, or waits in the queue *)
(* of one listener that is held; so it can be closed, and its slot comes   *)
(* back (sock_close, sock_fd, the error paths of accept and socketpair).   *)
SocketsHeld ==
    \A i \in Slots :
        LET held   == {f \in Files : file[f].sock = i}
            queues == {<<l, k>> \in Slots \X (1 .. ACCEPTMAX) :
                          k <= Len(socks[l].acceptq) /\ socks[l].acceptq[k] = i}
        IN  /\ socks[i].files = Cardinality(held)
            /\ socks[i].used =>
                 \/ held # {} /\ queues = {}
                 \/ held = {} /\ Cardinality(queues) = 1
                      /\ \A x \in queues : socks[x[1]].state = "LISTEN" /\ socks[x[1]].files > 0

(* What a reader gets are the bytes its peer sent, in their order, none    *)
(* lost, repeated or from another connection, although slots are reused    *)
(* and several processes read and write.                                   *)
StreamInOrder ==
    \A i \in Slots : \A j \in DOMAIN socks[i].rx :
        /\ socks[i].rx[j][2] = socks[i].got + j
        /\ socks[i].peer # 0 => socks[i].rx[j][1] = socks[socks[i].peer].id
        /\ socks[i].peer # 0 => socks[socks[i].peer].out = socks[i].got + Len(socks[i].rx)

(* A datagram is in the queue of the socket that its sender found at the   *)
(* path, and the datagrams of one sender are in their order.               *)
DgramsRight ==
    \A i \in Slots : \A j \in DOMAIN socks[i].dq :
        /\ socks[i].dq[j].to = socks[i].id
        /\ \A m \in 1 .. j - 1 : socks[i].dq[m].from = socks[i].dq[j].from
                                    => socks[i].dq[m].number < socks[i].dq[j].number

(* Nobody sleeps in a call that could go on: whoever changes what a call   *)
(* waits for wakes it, on the socket and in poll.                          *)
SleepersWait ==
    \A p \in Procs : call[p].op # "none" /\ ~call[p].woken =>
        LET c == call[p]
            s == socks[c.s]
        IN  CASE c.op = "accept" -> s.acceptq = <<>>
              [] c.op = "recv"   -> s.rx = <<>> /\ s.peer # 0 /\ ~s.shut_rd /\ ~socks[s.peer].shut_wr
              [] c.op = "recvd"  -> s.dq = <<>> /\ ~s.shut_rd
              [] c.op = "sendto" -> socks[c.to].used /\ Sum(socks[c.to].dq) + c.n > DGRAM_LIMIT
              [] c.op = "poll"   -> ~Ready(Now, c)
              [] c.op = "send"   -> /\ s.peer # 0 /\ ~socks[s.peer].shut_rd
                                    /\ Len(socks[s.peer].rx) = RINGSIZE

(* Sockets come and go without a trace: pointers are mutual, every socket  *)
(* can be closed, bytes and datagrams arrive in order at the one they were *)
(* sent to, and nobody sleeps in a call that could go on (sock.c).         *)
SocketsSound == TypeOK /\ PeersMutual /\ SocketsHeld /\ StreamInOrder /\ DgramsRight /\ SleepersWait

------------------------------------------------------------------------------
(* Small instances of Sock for TLC.  The programs do one of several kinds  *)
(* of work, which the initial state chooses.                               *)

CONSTANT Loads    \* the kinds of work to choose from

VARIABLE load

(* calls: what the programs call; types: of the sockets they make; max:    *)
(* sockets made in all; out: bytes sent by one socket; n: sizes of         *)
(* transfers                                                               *)
Work(name) ==
    CASE name = "stream" -> [calls |-> {"pair", "send", "recv", "close", "share", "shutdown", "poll"},
                             types |-> {}, max |-> 2, out |-> 3, n |-> {1, 2}]
      [] name = "pairs"  -> [calls |-> {"pair", "send", "recv", "close", "share", "timeout"},
                             types |-> {}, max |-> 4, out |-> 1, n |-> {1}]
      [] name = "listen" -> [calls |-> {"socket", "bind", "listen", "connect", "accept", "send", "recv", "close", "unlink"},
                             types |-> {"stream"}, max |-> 4, out |-> 1, n |-> {1}]
      [] name = "dgram"  -> [calls |-> {"socket", "bind", "connect", "sendto", "recv", "close", "shutdown"},
                             types |-> {"dgram"}, max |-> 2, out |-> 2, n |-> {1, 2}]
      [] name = "queue"  -> [calls |-> {"socket", "bind", "listen", "connect", "accept", "close"},
                             types |-> {"stream"}, max |-> 5, out |-> 0, n |-> {}]

Does(c) == c \in Work(load).calls

(* Nobody closes a datagram socket that a sender waits for: the sender     *)
(* would sleep on, on a slot that another socket may get.                  *)
NotAwaited(p, k) == Has(p, k) /\ \A q \in Procs : ~(call[q].op = "sendto" /\ call[q].to = Of(p, k))

(* A socket that listens is not connected: its queue would be out of reach *)
Connectable(p, k) == Has(p, k) /\ socks[Of(p, k)].state # "LISTEN"

More(n)           == next_sock_id + n <= Work(load).max + 1
MayWrite(p, k, n) == Has(p, k) /\ socks[Of(p, k)].out + n <= Work(load).out

Program(p) ==
    \/ Does("pair") /\ More(2) /\ Socketpair(p)
    \/ \E type \in Work(load).types : Does("socket") /\ More(1) /\ Socket(p, type)
    \/ \E k \in FDs :
         \/ Does("close") /\ NotAwaited(p, k) /\ Close(p, k)
         \/ Does("shutdown") /\ \E rd, wr \in BOOLEAN : (rd \/ wr) /\ Shutdown(p, k, rd, wr)
         \/ Does("share") /\ \E q \in Procs : Share(p, q, k)
         \/ Does("accept") /\ Accept(p, k, FALSE)
         \/ Does("listen") /\ Listen(p, k, 1)
         \/ Does("timeout") /\ SetTimeout(p, k)
         \/ Does("poll") /\ \E ev \in {1, 2} : Poll(p, k, ev)
         \/ \E nb \in BOOLEAN, n \in Work(load).n :
              \/ Does("send") /\ MayWrite(p, k, n) /\ Send(p, k, n, nb)
              \/ Does("recv") /\ Recv(p, k, n, nb)
              \/ Does("sendto") /\ MayWrite(p, k, 1) /\ \E path \in Paths \cup {"none"} : SendTo(p, k, path, n, nb)
         \/ \E path \in Paths :
              \/ Does("bind") /\ Bind(p, k, path)
              \/ Does("connect") /\ More(1) /\ Connectable(p, k) /\ Connect(p, k, path)
              \/ Does("connect") /\ ConnectDgram(p, k, path)
    \/ Resume(p) \/ Timeout(p) \/ Interrupt(p)

MCInit == Init /\ load \in Loads
MCNext ==
    /\ \/ \E p \in Procs : Program(p)
       \/ \E path \in Paths : Does("unlink") /\ Unlink(path)
    /\ UNCHANGED load

MCSpec == MCInit /\ [][MCNext]_<<vars, load>>

Symmetry == Permutations(Procs)
==============================================================================
