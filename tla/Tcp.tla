---------------------------------- MODULE Tcp ----------------------------------
(***************************************************************************)
(* The TCP of os/kernel/tcp.c: two hosts run it against each other over an *)
(* IP network that loses, repeats and reorders segments.  Each host has    *)
(* one connection (a Tcb and its Sock), at most one listening socket and   *)
(* one process that uses them.  The kernel is not preemptive: the stretch  *)
(* of a system call up to its sleep, the arrival of a segment and a tick   *)
(* of the clock are one step each.                                         *)
(*                                                                         *)
(* The n-th byte that a program writes is the number n, so that the order  *)
(* of delivery shows.  Time is left out: a running timer may go off at any *)
(* step.  Memory for buffers does not run out.                             *)
(***************************************************************************)
EXTENDS Integers, Sequences, FiniteSets, FiniteSetsExt

CONSTANTS
    Hosts,         \* the two hosts
    SeqMod,        \* sequence numbers count modulo this (2^32 in the code)
    Iss,           \* the initial sequence number of each host (kernel_random)
    RINGSIZE,      \* room in a send or receive buffer
    MSS,           \* bytes in a segment
    UPDATE,        \* room at which a reader announces the window (4096)
    MAX_RETRIES,   \* retransmissions before giving up
    NetMax,        \* bound: segments in the network at a time
    Bytes          \* bound: bytes a program writes

ASSUME HostsTwo == Cardinality(Hosts) = 2
ASSUME SizesPositive == {RINGSIZE, MSS, UPDATE, NetMax} \subseteq Nat \ {0}
ASSUME SeqRoom == SeqMod > 4 * (RINGSIZE + 2) /\ Iss \in [Hosts -> 0 .. SeqMod - 1]

VARIABLES
    tcb,      \* the connection of each host
    sock,     \* the socket of that connection
    lis,      \* the listening socket: none, listen or closed
    born,     \* has the listener made its connection (one for each host)
    call,     \* the system call the host's process is in
    net,      \* the segments under way
    wrote,    \* number of bytes put into the send buffer so far
    acc,      \* number of bytes taken from the network so far
    read      \* number of bytes given to the program so far

vars == <<tcb, sock, lis, born, call, net, wrote, acc, read>>

Peer(e) == CHOOSE f \in Hosts : f # e

--------------------------------------------------------------------------------
(* Sequence numbers: SEQ_LT and SEQ_LE look at the sign of the difference. *)

Add(a, n) == (a + n) % SeqMod
Sub(a, b) == (a - b) % SeqMod
SEQ_LT(a, b) == Sub(a, b) >= SeqMod \div 2
SEQ_LE(a, b) == a = b \/ SEQ_LT(a, b)

NoTcb == [st |-> "NONE", una |-> 0, nxt |-> 0, max |-> 0, wnd |-> 0, rcv |-> 0,
          fin_sent |-> FALSE, fin_acked |-> FALSE, fin_rcvd |-> FALSE,
          retries |-> 0, armed |-> FALSE, orphan |-> FALSE]

(* held: who has the socket: the half-open connection of a listener, the   *)
(* listener's queue, or the program.                                       *)
NoSock == [state |-> "FREE", held |-> "app", error |-> "", shut_rd |-> FALSE,
           shut_wr |-> FALSE, rx |-> <<>>, tx |-> <<>>]

User == [op |-> "user", left |-> 0, nb |-> FALSE, asleep |-> FALSE]

Space(ring) == RINGSIZE - Len(ring)

(* tcb_seg: a segment of connection t, with its acknowledgement and the    *)
(* free space of the receive buffer.                                       *)
Seg(e, t, s, seq, fl, data) ==
    [to |-> Peer(e), seq |-> seq, ack |-> t.rcv, fl |-> fl, win |-> Space(s.rx), data |-> data]

SynAck(e, t, s) == Seg(e, t, s, Iss[e], {"SYN", "ACK"}, <<>>)

(* send_reset: the answer to segment m, which belongs to no connection.    *)
Reset(e, m) ==
    IF "RST" \in m.fl THEN {}
    ELSE IF "ACK" \in m.fl
    THEN {[to |-> Peer(e), seq |-> m.ack, ack |-> 0, fl |-> {"RST"}, win |-> 0, data |-> <<>>]}
    ELSE {[to |-> Peer(e), seq |-> 0,
           ack |-> Add(m.seq, Len(m.data) + Cardinality(m.fl \cap {"SYN", "FIN"})),
           fl |-> {"RST", "ACK"}, win |-> 0, data |-> <<>>]}

(* What a handler leaves: the connection, its socket, the segments it      *)
(* sends, the sockets whose sleepers it wakes ("s" this one, "l" the       *)
(* listener) and the number of bytes it takes in.                          *)
Result(t, s, out, wake, got) == [t |-> t, s |-> s, out |-> out, wake |-> wake, got |-> got]

(* tcb_free: the socket goes too when no program holds it any more.        *)
Freed(t, s, out) ==
    IF t.orphan THEN Result(NoTcb, NoSock, out, {}, 0)
    ELSE Result(NoTcb, [s EXCEPT !.state = "CLOSED"], out, {"s"}, 0)

tcp_fail(t, s, err, out) == Freed(t, [s EXCEPT !.error = err], out)

FinDue(t, s, nxt) == ~t.fin_sent /\ s.shut_wr /\ Sub(nxt, t.una) = Len(s.tx)

(* Slip: no timer for a closed window.                                     *)
neverProbes(t, s, last) == FALSE

ProbeDue(t, s, last) == Len(s.tx) > Sub(last, t.una) /\ t.wnd = 0

(* tcp_output: send what the window allows, then the FIN when the program  *)
(* has shut its side down and all data went out; or else an acknowledgement*)
(* when one is due (ack_now).                                              *)
Output(e, t, s, ack_now) ==
    LET off  == Sub(t.nxt, t.una)
        left == IF Len(s.tx) > off THEN Len(s.tx) - off ELSE 0
        room == Sub(Add(t.una, t.wnd), t.nxt)
        n    == IF t.fin_sent \/ room >= SeqMod \div 2 THEN 0 ELSE Min({left, room})
        nxt  == Add(t.nxt, n)
        fin  == FinDue(t, s, nxt)
        last == IF fin THEN Add(nxt, 1) ELSE nxt
        datasegs == {Seg(e, t, s, Add(t.nxt, MSS * k), {"ACK"},
                         SubSeq(s.tx, off + MSS * k + 1, off + Min({MSS * (k + 1), n}))) :
                        k \in {i \in 0 .. n : MSS * i < n}}
        finseg   == IF fin THEN {Seg(e, t, s, nxt, {"FIN", "ACK"}, <<>>)} ELSE {}
        ackseg   == IF ack_now /\ n = 0 /\ ~fin THEN {Seg(e, t, s, last, {"ACK"}, <<>>)} ELSE {}
    IN  IF t.st \in {"SYN_SENT", "SYN_RECEIVED"}
        THEN [t |-> t, out |-> IF ack_now /\ t.st = "SYN_RECEIVED" THEN {SynAck(e, t, s)} ELSE {}]
        ELSE [t   |-> [t EXCEPT !.nxt = last,
                                !.max = IF SEQ_LT(@, last) THEN last ELSE @,
                                !.fin_sent = @ \/ fin,
                                !.armed = @ \/ n > 0 \/ fin \/ ProbeDue(t, s, last),
                                !.st = CASE fin /\ @ = "ESTABLISHED" -> "FIN_WAIT_1"
                                         [] fin /\ @ = "CLOSE_WAIT" -> "LAST_ACK"
                                         [] OTHER -> @],
              out |-> datasegs \cup finseg \cup ackseg]

Sent(e, t, s, ack_now, wake, got) ==
    LET o == Output(e, t, s, ack_now) IN Result(o.t, s, o.out, wake, got)

--------------------------------------------------------------------------------
(* tcp_input, in the order of its tests.                                   *)

NewTcb(e, st) == [NoTcb EXCEPT !.st = st, !.una = Iss[e], !.nxt = Add(Iss[e], 1),
                               !.max = Add(Iss[e], 1), !.armed = TRUE]

(* No connection: a SYN for a listener makes one.                          *)
MakesChild(e, m) == tcb[e].st = "NONE" /\ lis[e] = "listen" /\ m.fl \cap {"SYN", "ACK", "RST"} = {"SYN"}

InputUnknown(e, s, m) ==
    LET t == [NewTcb(e, "SYN_RECEIVED") EXCEPT !.rcv = Add(m.seq, 1), !.wnd = m.win]
        c == [NoSock EXCEPT !.state = "CONNECTING", !.held = "child"]
    IN  IF MakesChild(e, m)
        THEN Result(t, c, {SynAck(e, t, c)}, {}, 0)
        ELSE Result(NoTcb, s, IF lis[e] = "listen" /\ m.fl \cap {"SYN", "ACK"} = {} THEN {} ELSE Reset(e, m), {}, 0)

(* established, with the timer stopped as both of its callers do.          *)
Established(t) == [t EXCEPT !.st = "ESTABLISHED", !.armed = FALSE, !.retries = 0]
Connected(s) == [s EXCEPT !.state = "CONNECTED", !.held = IF @ = "child" THEN "queued" ELSE @]

InputSynSent(e, t, s, m) ==
    LET t1 == [t EXCEPT !.rcv = Add(m.seq, 1), !.wnd = m.win]
    IN  IF "ACK" \in m.fl /\ (SEQ_LE(m.ack, Iss[e]) \/ SEQ_LT(t.nxt, m.ack))
        THEN Result(t, s, Reset(e, m), {}, 0)
        ELSE IF "RST" \in m.fl
        THEN IF "ACK" \in m.fl THEN tcp_fail(t, s, "REFUSED", {}) ELSE Result(t, s, {}, {}, 0)
        ELSE IF "SYN" \notin m.fl THEN Result(t, s, {}, {}, 0)
        ELSE IF "ACK" \in m.fl
        THEN Sent(e, Established([t1 EXCEPT !.una = m.ack]), Connected(s), TRUE, {"s"}, 0)
        ELSE LET t2 == [t1 EXCEPT !.st = "SYN_RECEIVED"]
             IN  Result(t2, s, {SynAck(e, t2, s)}, {}, 0)

(* Data and FIN, the last part.                                            *)
TakesData(t) == t.st \in {"ESTABLISHED", "FIN_WAIT_1", "FIN_WAIT_2"}

AfterFin(t) ==
    [t EXCEPT !.rcv = Add(@, 1), !.fin_rcvd = TRUE,
              !.st = CASE @ = "ESTABLISHED" -> "CLOSE_WAIT"
                       [] @ = "FIN_WAIT_1" -> IF t.fin_acked THEN "TIME_WAIT" ELSE "CLOSING"
                       [] @ = "FIN_WAIT_2" -> "TIME_WAIT"
                       [] OTHER -> @]

InputData(e, t, s, fin, data, wake) ==
    LET k   == IF ~TakesData(t) THEN 0
               ELSE IF s.shut_rd THEN Len(data) ELSE Min({Len(data), Space(s.rx)})
        s1  == IF s.shut_rd THEN s ELSE [s EXCEPT !.rx = @ \o SubSeq(data, 1, k)]
        t1  == [t EXCEPT !.rcv = Add(@, k)]
        eof == fin /\ k = Len(data)
    IN  Sent(e, IF eof THEN AfterFin(t1) ELSE t1, s1, data # <<>> \/ eof,
             wake \cup (IF eof \/ (data # <<>> /\ TakesData(t)) THEN {"s"} ELSE {}), k)

CoversFin(t, m) == t.fin_sent /\ m.ack = t.max

AckedBytes(t, m) == Sub(m.ack, t.una) - (IF CoversFin(t, m) THEN 1 ELSE 0)

(* The acknowledgement of new data.                                        *)
Acked(t, s, m) ==
    LET n == AckedBytes(t, m)
    IN  [t |-> [t EXCEPT !.una = m.ack, !.nxt = IF SEQ_LT(@, m.ack) THEN m.ack ELSE @,
                         !.retries = 0, !.armed = m.ack # t.max, !.fin_acked = @ \/ CoversFin(t, m)],
         s |-> [s EXCEPT !.tx = SubSeq(@, Min({n, Len(@)}) + 1, Len(@))]]

InputAck(e, t, s, m, fl, data, wake) ==
    LET new == SEQ_LT(t.una, m.ack) /\ SEQ_LE(m.ack, t.max)
        a   == IF new THEN Acked(t, s, m) ELSE [t |-> t, s |-> s]
        t1  == [a.t EXCEPT !.wnd = IF SEQ_LE(a.t.una, m.ack) THEN m.win ELSE @]
        t2  == [t1 EXCEPT !.st = CASE t1.fin_acked /\ @ = "FIN_WAIT_1" -> "FIN_WAIT_2"
                                   [] t1.fin_acked /\ @ = "CLOSING" -> "TIME_WAIT"
                                   [] OTHER -> @]
        wk  == wake \cup (IF new THEN {"s"} ELSE {})
        rst == [to |-> Peer(e), seq |-> m.ack, ack |-> 0, fl |-> {"RST"}, win |-> 0, data |-> <<>>]
    IN  IF ~new /\ SEQ_LT(t.max, m.ack) THEN Sent(e, t, s, TRUE, wake, 0)
        ELSE IF t1.fin_acked /\ t1.st = "LAST_ACK" THEN Freed(t1, a.s, {})
        ELSE IF data # <<>> /\ t.orphan THEN Freed(t2, a.s, {rst})
        ELSE InputData(e, t2, a.s, "FIN" \in fl, data, wk)

InputReset(t, s) ==
    IF t.st = "SYN_RECEIVED" /\ s.held = "child" THEN Freed([t EXCEPT !.orphan = TRUE], s, {})
    ELSE IF t.st \in {"TIME_WAIT", "LAST_ACK", "CLOSING"} THEN Freed(t, s, {})
    ELSE tcp_fail(t, s, "RESET", {})

InputInOrder(e, t, s, m, fl, data) ==
    LET up == [Established(t) EXCEPT !.una = m.ack, !.wnd = m.win]
    IN  IF "RST" \in fl THEN InputReset(t, s)
        ELSE IF "SYN" \in fl THEN tcp_fail(t, s, "RESET", {Seg(e, t, s, t.nxt, {"RST"}, <<>>)})
        ELSE IF "ACK" \notin fl THEN Result(t, s, {}, {}, 0)
        ELSE IF t.st # "SYN_RECEIVED" THEN InputAck(e, t, s, m, fl, data, {})
        ELSE IF SEQ_LT(t.una, m.ack) /\ SEQ_LE(m.ack, t.nxt)
        THEN InputAck(e, up, Connected(s), m, fl, data, {"s", "l"})
        ELSE Result(t, s, Reset(e, m), {}, 0)

(* Slip: the numbers are compared as if they did not wrap.                 *)
skipsUnwrapped(t, m) == IF m.seq < t.rcv THEN Sub(t.rcv, m.seq) - (IF "SYN" \in m.fl THEN 1 ELSE 0) ELSE 0

Skip(t, m) == IF SEQ_LT(m.seq, t.rcv) THEN Sub(t.rcv, m.seq) - (IF "SYN" \in m.fl THEN 1 ELSE 0) ELSE 0

(* The part of the segment that was received before is cut off; a segment  *)
(* that is wholly old, or that leaves a gap, is only acknowledged.         *)
InputSequence(e, t, s, m) ==
    LET seglen == Len(m.data) + (IF "FIN" \in m.fl THEN 1 ELSE 0)
        past   == SEQ_LT(m.seq, t.rcv)
        skip   == Skip(t, m)
        old    == past /\ skip >= seglen /\ ~(seglen = 0 /\ skip = 0)
    IN  IF old \/ (~past /\ m.seq # t.rcv)
        THEN IF "RST" \in m.fl THEN Result(t, s, {}, {}, 0) ELSE Sent(e, t, s, TRUE, {}, 0)
        ELSE InputInOrder(e, t, s, m, IF past THEN m.fl \ {"SYN"} ELSE m.fl,
                          SubSeq(m.data, skip + 1, Len(m.data)))

tcp_input(e, m) ==
    IF tcb[e].st = "NONE" THEN InputUnknown(e, sock[e], m)
    ELSE IF tcb[e].st = "SYN_SENT" THEN InputSynSent(e, tcb[e], sock[e], m)
    ELSE InputSequence(e, tcb[e], sock[e], m)

--------------------------------------------------------------------------------
(* Steps.  A segment may stay in the network when it is delivered.         *)

Emit(base, out) == net' = base \cup out /\ Cardinality(net') <= NetMax

WaitsOn == [connect |-> "s", send |-> "s", recv |-> "s", accept |-> "l", user |-> ""]

(* sock_wake on this socket or on the listener.                            *)
Woken(c, wake) == [c EXCEPT !.asleep = @ /\ WaitsOn[c.op] \notin wake]

Apply(e, r) ==
    /\ tcb' = [tcb EXCEPT ![e] = r.t]
    /\ sock' = [sock EXCEPT ![e] = r.s]

Deliver(e, m, keep) ==
    /\ m \in net /\ m.to = e
    /\ MakesChild(e, m) => ~born[e] /\ sock[e] = NoSock
    /\ LET r == tcp_input(e, m)
       IN  /\ Apply(e, r)
           /\ Emit(IF keep THEN net ELSE net \ {m}, r.out)
           /\ call' = [call EXCEPT ![e] = Woken(@, r.wake)]
           /\ acc' = [acc EXCEPT ![e] = @ + r.got]
    /\ born' = [born EXCEPT ![e] = @ \/ MakesChild(e, m)]
    /\ UNCHANGED <<lis, wrote, read>>

Lose(m) == /\ m \in net
           /\ net' = net \ {m}
           /\ UNCHANGED <<tcb, sock, lis, born, call, wrote, acc, read>>

GivesUp(t) == t.retries >= MAX_RETRIES

(* tcp_tick for a connection whose timer goes off.                         *)
Ticked(e, t0, s) ==
    LET t == [t0 EXCEPT !.armed = FALSE]
        more == [t EXCEPT !.retries = @ + 1, !.armed = TRUE]
        back == [t EXCEPT !.retries = @ + 1, !.nxt = t.una, !.fin_sent = @ /\ t.fin_acked]
        again == Output(e, back, s, FALSE)
    IN  IF t.st = "TIME_WAIT" THEN Freed(t, s, {})
        ELSE IF t.una = t.max /\ t.wnd = 0 /\ s.tx # <<>>
        THEN Result(t0, s, {Seg(e, t, s, t.una, {"ACK"}, <<Head(s.tx)>>)}, {}, 0)
        ELSE IF t.una = t.max THEN Result(t, s, {}, {}, 0)
        ELSE IF GivesUp(t)
        THEN tcp_fail(t, s, "TIMEDOUT", {Seg(e, t, s, t.nxt, {"RST", "ACK"}, <<>>)})
        ELSE CASE t.st = "SYN_SENT" -> Result(more, s, {Seg(e, t, s, Iss[e], {"SYN"}, <<>>)}, {}, 0)
               [] t.st = "SYN_RECEIVED" -> Result(more, s, {SynAck(e, t, s)}, {}, 0)
               [] OTHER -> Result([again.t EXCEPT !.armed = TRUE], s, again.out, {}, 0)

Tick(e) ==
    /\ tcb[e].st = "TIME_WAIT" \/ tcb[e].armed
    /\ LET r == Ticked(e, tcb[e], sock[e])
       IN  /\ Apply(e, r)
           /\ Emit(net, r.out)
           /\ call' = [call EXCEPT ![e] = Woken(@, r.wake)]
    /\ UNCHANGED <<lis, born, wrote, acc, read>>

(* tcp_icmp_error: an unreachable message for a connection being opened.   *)
IcmpError(e) ==
    /\ tcb[e].st = "SYN_SENT"
    /\ LET r == tcp_fail(tcb[e], sock[e], "UNREACH", {})
       IN  Apply(e, r) /\ call' = [call EXCEPT ![e] = Woken(@, r.wake)]
    /\ UNCHANGED <<lis, born, net, wrote, acc, read>>

--------------------------------------------------------------------------------
(* System calls.  A call that has to wait leaves the process asleep on the *)
(* socket's wait queue (sock_wait); Resume goes through its loop again.    *)

Sleep(c) == [c EXCEPT !.asleep = TRUE]

Returns(e, c) == call' = [call EXCEPT ![e] = c]

Idle(e) == call[e] = User

(* sys_socket and tcp_connect up to the SYN.                               *)
Connect(e, nb) ==
    /\ Idle(e) /\ sock[e] = NoSock /\ ~born[e] /\ lis[e] = "none"
    /\ LET s == [NoSock EXCEPT !.state = "CONNECTING"]
           t == NewTcb(e, "SYN_SENT")
       IN  /\ tcb' = [tcb EXCEPT ![e] = t]
           /\ sock' = [sock EXCEPT ![e] = s]
           /\ Emit(net, {Seg(e, t, s, Iss[e], {"SYN"}, <<>>)})
    /\ born' = [born EXCEPT ![e] = TRUE]
    /\ Returns(e, IF nb THEN User ELSE [User EXCEPT !.op = "connect", !.asleep = TRUE])
    /\ UNCHANGED <<lis, wrote, acc, read>>

(* The loop of tcp_connect after a wakeup; the error is taken when the     *)
(* call fails.                                                             *)
ConnectOn(e) ==
    /\ IF tcb[e].st = "SYN_SENT"
       THEN Returns(e, Sleep(call[e])) /\ UNCHANGED sock
       ELSE /\ Returns(e, User)
            /\ sock' = [sock EXCEPT ![e].error = IF sock[e].state = "CONNECTED" THEN @ ELSE ""]
    /\ UNCHANGED <<tcb, lis, born, net, wrote, acc, read>>

Listen(e) ==
    /\ Idle(e) /\ lis[e] = "none" /\ sock[e] = NoSock /\ ~born[e]
    /\ lis' = [lis EXCEPT ![e] = "listen"]
    /\ UNCHANGED <<tcb, sock, born, call, net, wrote, acc, read>>

(* sock_accept.                                                            *)
AcceptOn(e, c) ==
    /\ IF sock[e].held = "queued"
       THEN sock' = [sock EXCEPT ![e].held = "app"] /\ Returns(e, User)
       ELSE Returns(e, Sleep(c)) /\ UNCHANGED sock
    /\ UNCHANGED <<tcb, lis, born, net, wrote, acc, read>>

Accept(e) == Idle(e) /\ lis[e] = "listen" /\ AcceptOn(e, [User EXCEPT !.op = "accept"])

HasSock(e) == sock[e].state # "FREE" /\ sock[e].held = "app"

(* tcp_send: the loop until it sleeps or returns.                          *)
MaySend(t, s) == t.st \in {"ESTABLISHED", "CLOSE_WAIT"} /\ ~s.shut_wr

SendOn(e, c) ==
    LET s == sock[e]
        k == Min({c.left, Space(s.tx)})
        s1 == [s EXCEPT !.error = "", !.tx = @ \o [i \in 1 .. k |-> wrote[e] + i]]
        o == Output(e, tcb[e], s1, FALSE)
        blocked == IF c.nb THEN User ELSE Sleep(c)
    IN  /\ \/ /\ tcb[e].st = "SYN_SENT"
              /\ Returns(e, blocked)
              /\ UNCHANGED <<tcb, sock, net, wrote>>
           \/ /\ tcb[e].st # "SYN_SENT"
              /\ s.error \in {"RESET", "TIMEDOUT"} \/ ~MaySend(tcb[e], s)
              /\ sock' = [sock EXCEPT ![e].error = ""]
              /\ Returns(e, User)
              /\ UNCHANGED <<tcb, net, wrote>>
           \/ /\ s.error \notin {"RESET", "TIMEDOUT"} /\ MaySend(tcb[e], s)
              /\ sock' = [sock EXCEPT ![e] = s1]
              /\ tcb' = [tcb EXCEPT ![e] = o.t]
              /\ Emit(net, o.out)
              /\ wrote' = [wrote EXCEPT ![e] = @ + k]
              /\ Returns(e, IF k = c.left THEN User ELSE [blocked EXCEPT !.left = IF c.nb THEN 0 ELSE c.left - k])
        /\ UNCHANGED <<lis, born, acc, read>>

Send(e, n, nb) == /\ Idle(e) /\ HasSock(e) /\ wrote[e] + n <= Bytes
                  /\ SendOn(e, [User EXCEPT !.op = "send", !.left = n, !.nb = nb])

(* tcp_recv, with the window update of tcp_after_read.                     *)
RecvOn(e, c) ==
    LET s == sock[e]
        k == Min({c.left, Len(s.rx)})
        s1 == [s EXCEPT !.rx = SubSeq(@, k + 1, Len(@))]
        update == Space(s.rx) < UPDATE /\ Space(s1.rx) >= UPDATE /\ TakesData(tcb[e])
        o == Output(e, tcb[e], s1, TRUE)
        over == s.error # "" \/ s.shut_rd \/ tcb[e].st = "NONE" \/ tcb[e].fin_rcvd
    IN  /\ \/ /\ s.rx # <<>>
              /\ sock' = [sock EXCEPT ![e] = s1]
              /\ tcb' = [tcb EXCEPT ![e] = IF update THEN o.t ELSE @]
              /\ Emit(net, IF update THEN o.out ELSE {})
              /\ read' = [read EXCEPT ![e] = @ + k]
              /\ Returns(e, User)
           \/ /\ s.rx = <<>> /\ over
              /\ sock' = [sock EXCEPT ![e].error = ""]
              /\ Returns(e, User)
              /\ UNCHANGED <<tcb, net, read>>
           \/ /\ s.rx = <<>> /\ ~over
              /\ Returns(e, IF c.nb THEN User ELSE Sleep(c))
              /\ UNCHANGED <<tcb, sock, net, read>>
        /\ UNCHANGED <<lis, born, wrote, acc>>

Recv(e, n, nb) == /\ Idle(e) /\ HasSock(e)
                  /\ RecvOn(e, [User EXCEPT !.op = "recv", !.left = n, !.nb = nb])

(* A sleeper that was woken goes on; a signal ends the call with EINTR.    *)
Resume(e) ==
    /\ call[e] # User /\ ~call[e].asleep
    /\ \/ call[e].op = "connect" /\ ConnectOn(e)
       \/ call[e].op = "accept" /\ AcceptOn(e, call[e])
       \/ call[e].op = "send" /\ SendOn(e, call[e])
       \/ call[e].op = "recv" /\ RecvOn(e, call[e])

Interrupt(e) ==
    /\ call[e].asleep
    /\ Returns(e, User)
    /\ UNCHANGED <<tcb, sock, lis, born, net, wrote, acc, read>>

(* sock_shutdown and tcp_shutdown: how is a set of sides to shut.          *)
Shutdown(e, how) ==
    /\ Idle(e) /\ HasSock(e)
    /\ sock[e].state = "CONNECTED" \/ tcb[e].st # "NONE"
    /\ LET s == [sock[e] EXCEPT !.shut_rd = @ \/ "rd" \in how, !.shut_wr = @ \/ "wr" \in how]
           r == CASE tcb[e].st = "NONE" -> Result(NoTcb, s, {}, {}, 0)
                  [] tcb[e].st = "SYN_SENT" -> Freed(tcb[e], s, {})
                  [] OTHER -> Sent(e, tcb[e], s, FALSE, {}, 0)
       IN  Apply(e, r) /\ Emit(net, r.out)
    /\ UNCHANGED <<lis, born, call, wrote, acc, read>>

(* tcp_close of the connection's socket.                                   *)
Closed(e, t, s) ==
    IF t.st = "NONE" THEN Result(NoTcb, NoSock, {}, {}, 0)
    ELSE IF t.st = "SYN_SENT" THEN Freed(t, s, {})
    ELSE IF s.rx # <<>> /\ t.st # "TIME_WAIT"
    THEN Freed(t, s, {Seg(e, t, s, t.nxt, {"RST", "ACK"}, <<>>)})
    ELSE Sent(e, t, [s EXCEPT !.shut_wr = TRUE], FALSE, {}, 0)

Close(e) ==
    /\ Idle(e) /\ HasSock(e) /\ ~tcb[e].orphan
    /\ LET r == Closed(e, [tcb[e] EXCEPT !.orphan = @ \/ tcb[e].st # "NONE"], [sock[e] EXCEPT !.held = "none"])
       IN  Apply(e, r) /\ Emit(net, r.out)
    /\ UNCHANGED <<lis, born, call, wrote, acc, read>>

(* tcp_close of the listener: what it has not handed out goes with it.     *)
CloseListener(e) ==
    /\ Idle(e) /\ lis[e] = "listen"
    /\ lis' = [lis EXCEPT ![e] = "closed"]
    /\ LET t == tcb[e]
           rst == Seg(e, t, sock[e], t.nxt, {"RST", "ACK"}, <<>>)
           drop == sock[e].held = "queued" \/ (sock[e].held = "child" /\ t.st # "NONE")
       IN  /\ tcb' = [tcb EXCEPT ![e] = IF drop THEN NoTcb ELSE @]
           /\ sock' = [sock EXCEPT ![e] = IF drop THEN NoSock ELSE @]
           /\ Emit(net, IF sock[e].held = "queued" /\ t.st # "NONE" THEN {rst} ELSE {})
    /\ UNCHANGED <<born, call, wrote, acc, read>>

--------------------------------------------------------------------------------
Init ==
    /\ tcb = [e \in Hosts |-> NoTcb]
    /\ sock = [e \in Hosts |-> NoSock]
    /\ lis = [e \in Hosts |-> "none"]
    /\ born = [e \in Hosts |-> FALSE]
    /\ call = [e \in Hosts |-> User]
    /\ net = {}
    /\ wrote = [e \in Hosts |-> 0]
    /\ acc = [e \in Hosts |-> 0]
    /\ read = [e \in Hosts |-> 0]

Program(e) ==
    \/ \E nb \in BOOLEAN : Connect(e, nb)
    \/ Listen(e) \/ Accept(e) \/ Close(e) \/ CloseListener(e)
    \/ \E n \in 1 .. Bytes, nb \in BOOLEAN : Send(e, n, nb) \/ Recv(e, n, nb)
    \/ \E how \in {{"rd"}, {"wr"}, {"rd", "wr"}} : Shutdown(e, how)

Kernel(e) ==
    \/ \E m \in net, keep \in BOOLEAN : Deliver(e, m, keep)
    \/ Tick(e) \/ IcmpError(e) \/ Resume(e) \/ Interrupt(e)

Next == (\E e \in Hosts : Program(e) \/ Kernel(e)) \/ (\E m \in net : Lose(m))

Spec == Init /\ [][Next]_vars

--------------------------------------------------------------------------------
TcpStates == {"NONE", "SYN_SENT", "SYN_RECEIVED", "ESTABLISHED", "FIN_WAIT_1", "FIN_WAIT_2",
              "CLOSE_WAIT", "CLOSING", "LAST_ACK", "TIME_WAIT"}

Seqs == 0 .. SeqMod - 1

Segments == [to : Hosts, seq : Seqs, ack : Seqs, fl : SUBSET {"SYN", "ACK", "FIN", "RST"},
             win : 0 .. RINGSIZE, data : UNION {[1 .. n -> 1 .. Bytes] : n \in 0 .. MSS}]

Rings == UNION {[1 .. n -> 1 .. Bytes] : n \in 0 .. RINGSIZE}

(* Types: the fields of Tcb and Sock, and segments no longer than MSS.     *)
TypeOK ==
    /\ \A e \in Hosts :
          /\ tcb[e].st \in TcpStates
          /\ {tcb[e].una, tcb[e].nxt, tcb[e].max, tcb[e].rcv} \subseteq Seqs
          /\ tcb[e].wnd \in 0 .. RINGSIZE /\ tcb[e].retries \in 0 .. MAX_RETRIES
          /\ sock[e].rx \in Rings /\ sock[e].tx \in Rings
          /\ sock[e].error \in {"", "REFUSED", "RESET", "TIMEDOUT", "UNREACH"}
    /\ net \subseteq Segments

(* What a program reads is what the other one wrote, in order, without a   *)
(* gap, a repetition or an invented byte, whatever the network does with   *)
(* the segments (the trimming of tcp_input, the retransmissions and the    *)
(* zero-window probe of tcp_tick).                                         *)
StreamInOrder ==
    \A e \in Hosts : /\ sock[e].rx = [i \in 1 .. Len(sock[e].rx) |-> read[e] + i]
                     /\ acc[e] <= wrote[Peer(e)]

(* The end of the stream is seen only behind the last byte that was        *)
(* written (fin_rcvd, against the FIN that tcp_output sends).              *)
EofAfterAll == \A e \in Hosts : tcb[e].fin_rcvd => acc[e] = wrote[Peer(e)]

(* A byte leaves the send buffer only when the other host has it           *)
(* (ring_drop in tcp_input).                                               *)
AckedArrived ==
    \A e \in Hosts : sock[e].state # "FREE" => wrote[e] - Len(sock[e].tx) <= acc[Peer(e)]

(* As long as data or the FIN are not acknowledged, the retransmission     *)
(* timer runs, so that what is lost is sent again and a closed window is   *)
(* probed (arm in tcp_output and tcp_tick).                                *)
TimerRuns ==
    \A e \in Hosts :
        LET t == tcb[e]
        IN  \/ t.st = "SYN_SENT"
            \/ t.st = "SYN_RECEIVED"
            \/ t.st # "NONE" /\ (sock[e].tx # <<>> \/ (sock[e].shut_wr /\ ~t.fin_acked))
            => t.armed

(* Nobody sleeps in a call that could go on (the sock_wake calls).         *)
SleepersWait ==
    \A e \in Hosts : call[e].asleep =>
        CASE call[e].op = "connect" -> tcb[e].st \in {"SYN_SENT", "SYN_RECEIVED"}
          [] call[e].op = "accept" -> sock[e].held # "queued"
          [] call[e].op = "send" -> \/ tcb[e].st \in {"SYN_SENT", "SYN_RECEIVED"}
                                    \/ MaySend(tcb[e], sock[e]) /\ Space(sock[e].tx) = 0 /\ sock[e].error = ""
          [] call[e].op = "recv" -> /\ sock[e].rx = <<>> /\ sock[e].error = ""
                                    /\ tcb[e].st # "NONE" /\ ~tcb[e].fin_rcvd

(* A host that has seen its FIN acknowledged knows that the other one read *)
(* the stream to its end, or is gone.                                      *)
FinAckedMeansSeen ==
    \A e \in Hosts : LET p == tcb[Peer(e)]
                     IN  tcb[e].fin_acked => p.st = "NONE" \/ p.fin_rcvd

(* Each side reads exactly what the other wrote, up to its end: bytes in   *)
(* order, the end behind the last of them, and what is acknowledged, the   *)
(* end included, has arrived (tcp_input, accept_data, tcp_output).         *)
StreamSound == TypeOK /\ StreamInOrder /\ EofAfterAll /\ AckedArrived /\ FinAckedMeansSeen
================================================================================
