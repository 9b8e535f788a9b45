-------------------------------- MODULE Inet --------------------------------
(***************************************************************************)
(* IP, ARP, ICMP and UDP (inet.c), datagram and raw sockets (sock.c), the  *)
(* connections and Ethernet conversations below /net (netfs.c), for the    *)
(* hosts on one Ethernet that may lose frames.  A call, an interrupt or a  *)
(* clock tick is one step, with all that net_run does of the loopback      *)
(* queue; the controller (net.c) takes steps of its own.  TCP is in module *)
(* Tcp.                                                                    *)
(*                                                                         *)
(* An address has W bits: 0 is unset, the addresses that begin with 10 are *)
(* those of lo, the last one is the broadcast.  A mask is its length.      *)
(* Checksums, lengths and the formats of the files are left out, as are    *)
(* permissions and a kernel heap that is full.                             *)
(***************************************************************************)
EXTENDS Integers, Sequences, FiniteSets, SequencesExt

CONSTANTS Hosts,         \* a host is also its Ethernet address
          W,             \* bits of an address
          Ports,         \* ports that programs bind
          Ephemeral,     \* ports that are given to unbound sockets
          NSOCK,         \* sockets of a host
          NROUTE,        \* routes of a host
          NARP,          \* entries of the ARP table
          ARP_PENDING,   \* packets that wait for an entry
          ARP_RETRY,     \* ticks until a request is repeated
          ARP_TTL,       \* ticks until an entry is forgotten
          NTXQ,          \* frames that wait for the controller
          DGRAM_LIMIT,   \* datagrams in the queue of a socket
          NECONV,        \* conversations of ether0
          EQLEN,         \* frames in the queue of a conversation
          NQ,            \* frames in the queue of the controller
          MaxTicks       \* bound: ticks of the clock

VARIABLES net,           \* interface, routes, ARP table and queues of a host
          socks,         \* the datagram and raw sockets of a host
          open,          \* the files on them: <<socket, kind>>
          econv, eopen,  \* conversations of ether0 and the files on them
          call,          \* what the process of a host sleeps in
          dev,           \* the network controller of a host
          ticks

vars == <<net, socks, open, econv, eopen, call, dev, ticks>>

Addrs     == 0 .. 2 ^ W - 1
Everyone  == 2 ^ W - 1
LoAddr    == 2 ^ (W - 1)
IsLo(a)   == a \div 2 ^ (W - 2) = 2
Prefix(a, len) == (a \div 2 ^ (W - len)) * 2 ^ (W - len)
All       == "all"

NoRoute == [used |-> FALSE, dst |-> 0, len |-> 0, gw |-> 0, nif |-> "none", auto |-> FALSE]
NoArp   == [used |-> FALSE, resolved |-> FALSE, tries |-> 0, ip |-> 0, mac |-> All, expire |-> 0, retry_at |-> 0,
            pending |-> <<>>]
NoSock  == [used |-> FALSE, type |-> "none", state |-> "FREE", laddr |-> 0, lport |-> 0, faddr |-> 0, fport |-> 0,
            dq |-> <<>>, error |-> "none", shut_rd |-> FALSE, files |-> 0]
NoConv  == [used |-> FALSE, type |-> "none", q |-> <<>>, files |-> 0]
NoFrame == [to |-> All, from |-> All, type |-> "none", p |-> 0]
Idle    == [op |-> "none", i |-> 0, woken |-> FALSE]

Least(S) == CHOOSE x \in S : \A y \in S : x <= y

(***************************************************************************)
(* t is the state of host t.h in a step that is under way: n, s, c, e, d   *)
(* as the variables, and loq the packets on the loopback.                  *)
(***************************************************************************)
On(h) == [h |-> h, n |-> net[h], s |-> socks[h], c |-> call[h], e |-> econv[h], d |-> dev[h], loq |-> <<>>]

Become(t) ==
    /\ net' = [net EXCEPT ![t.h] = t.n] /\ socks' = [socks EXCEPT ![t.h] = t.s]
    /\ call' = [call EXCEPT ![t.h] = t.c] /\ econv' = [econv EXCEPT ![t.h] = t.e]
    /\ dev' = [dev EXCEPT ![t.h] = t.d]

Running(h) == call[h].op = "none"

Wake(t, op, i) == IF t.c.op = op /\ t.c.i = i THEN [t EXCEPT !.c.woken = TRUE] ELSE t

(***************************************************************************)
(* The Ethernet.  The controller sends the frame d.out, holds d.rx for the *)
(* kernel and queues d.q behind it; n.busy is what the kernel believes of  *)
(* d.out.                                                                  *)
(***************************************************************************)
eth_start(t) ==
    IF t.n.busy \/ t.n.txq = <<>> THEN t
    ELSE [t EXCEPT !.n.busy = TRUE, !.d.out = Head(t.n.txq), !.n.txq = Tail(@)]

sendFrame(t, f) == eth_start([t EXCEPT !.n.txq = Append(@, f)])

eth_frame(t, to, type, p) ==
    IF Len(t.n.txq) >= NTXQ THEN t
    ELSE sendFrame(t, [to |-> to, from |-> t.h, type |-> type, p |-> p])

arp_send(t, op, tip, to) == eth_frame(t, to, "arp", [op |-> op, sip |-> t.n.addr, tip |-> tip])

(***************************************************************************)
(* ARP                                                                     *)
(***************************************************************************)
(* Slip: the count stays when packets are dropped *)
dropsUncounted(t, k) == [t EXCEPT !.n.arps[k].pending = <<>>]

arp_drop_pending(t, k) ==
    [t EXCEPT !.n.nwait = IF t.n.arps[k].pending # <<>> THEN @ - 1 ELSE @, !.n.arps[k].pending = <<>>]

arp_find(t, ip) ==
    LET at == {k \in 1 .. NARP : t.n.arps[k].used /\ t.n.arps[k].ip = ip} IN IF at = {} THEN 0 ELSE Least(at)

(* The entry of ip, else a free one, else the oldest *)
arp_slot(t, ip) ==
    LET free == {k \in 1 .. NARP : ~t.n.arps[k].used}
        old  == CHOOSE k \in 1 .. NARP : \A j \in 1 .. NARP :
                   \/ t.n.arps[k].expire < t.n.arps[j].expire
                   \/ t.n.arps[k].expire = t.n.arps[j].expire /\ k <= j
        k    == IF arp_find(t, ip) # 0 THEN arp_find(t, ip) ELSE IF free # {} THEN Least(free) ELSE old
    IN  IF arp_find(t, ip) # 0 THEN [t |-> t, k |-> k]
        ELSE [t |-> [arp_drop_pending(t, k) EXCEPT !.n.arps[k] = [NoArp EXCEPT !.used = TRUE, !.ip = ip]], k |-> k]

(* The packets that wait for entry k go to its address *)
flush(t, k) ==
    LET a == t.n.arps[k]
        u == FoldLeft(LAMBDA v, p : eth_frame(v, a.mac, "ip", p), t, a.pending)
    IN  arp_drop_pending(u, k)

arp_learn(t, ip, mac, make) ==
    LET x == arp_slot(t, ip)
    IN  IF arp_find(t, ip) = 0 /\ ~make THEN t
        ELSE flush([x.t EXCEPT !.n.arps[x.k].mac = mac, !.n.arps[x.k].resolved = TRUE,
                               !.n.arps[x.k].expire = ticks + ARP_TTL], x.k)

(* An entry gets its first waiting packet *)
countsFirst(t, k) == IF t.n.arps[k].pending = <<>> THEN [t EXCEPT !.n.nwait = @ + 1] ELSE t

eth_xmit(t, hop, p) ==
    LET k   == arp_find(t, hop)
        x   == arp_slot(t, hop)
        ask(u, j, exp) == arp_send([u EXCEPT !.n.arps[j].resolved = FALSE, !.n.arps[j].tries = 1,
                                        !.n.arps[j].retry_at = ticks + ARP_RETRY, !.n.arps[j].expire = exp],
                              "request", hop, All)
        v   == IF k = 0 THEN ask(x.t, x.k, ticks + ARP_TTL)
               ELSE IF t.n.arps[k].resolved THEN ask(t, k, t.n.arps[k].expire) ELSE t
        j   == IF k = 0 THEN x.k ELSE k
    IN  CASE ~t.n.up -> t
          [] t.n.up /\ hop \in {Everyone, Prefix(t.n.addr, t.n.len) + 2 ^ (W - t.n.len) - 1} ->
               eth_frame(t, All, "ip", p)
          [] OTHER ->
               IF k # 0 /\ t.n.arps[k].resolved /\ t.n.arps[k].expire > ticks
               THEN eth_frame(t, t.n.arps[k].mac, "ip", p)
               ELSE IF Len(v.n.arps[j].pending) >= ARP_PENDING THEN v
               ELSE [countsFirst(v, j) EXCEPT !.n.arps[j].pending = Append(@, p)]

learns(a) == a.sip

arp_input(t, from, a) ==
    LET u == arp_learn(t, learns(a), from, a.tip = t.n.addr)
    IN  IF from = t.h \/ t.n.addr = 0 THEN t
        ELSE IF a.op = "request" /\ a.tip = t.n.addr THEN arp_send(u, "reply", a.sip, from) ELSE u

(***************************************************************************)
(* Routes and output                                                       *)
(***************************************************************************)
is_local_addr(t, a) == IsLo(a) \/ (a # 0 /\ a = t.n.addr /\ t.n.up)

nifUp(t, nif) == nif = "lo" \/ t.n.up

(* Route r is taken rather than b, which was found before *)
better(r, b) == r.len > b.len \/ (r.len = b.len /\ r.auto)

route_lookup(t, dst) ==
    FoldLeft(LAMBDA b, r : IF ~r.used \/ Prefix(dst, r.len) # r.dst \/ ~nifUp(t, r.nif) THEN b
                           ELSE IF ~b.used \/ better(r, b) THEN r ELSE b,
             NoRoute, t.n.routes)

nifAddr(t, nif) == IF nif = "lo" THEN LoAddr ELSE t.n.addr

ip_source_for(t, dst) ==
    LET r == route_lookup(t, dst)
    IN  CASE dst = Everyone -> IF t.n.up THEN t.n.addr ELSE 0
          [] dst # Everyone /\ is_local_addr(t, dst) -> IF IsLo(dst) THEN LoAddr ELSE dst
          [] OTHER -> IF r.used THEN nifAddr(t, r.nif) ELSE 0

lo_xmit(t, p) == [t EXCEPT !.loq = Append(@, p)]

(* The packet p with source src, 0 for that of the interface *)
ip_output(t, src, p) ==
    LET r   == route_lookup(t, p.dst)
        via == IF r.used THEN r.nif ELSE "eth0"
        From(nif) == [p EXCEPT !.src = IF src # 0 THEN src ELSE nifAddr(t, nif)]
    IN  IF is_local_addr(t, p.dst)
        THEN lo_xmit(t, [p EXCEPT !.src = IF src # 0 THEN src ELSE IF IsLo(p.dst) THEN LoAddr ELSE p.dst])
        ELSE IF ~r.used /\ ~(p.dst = Everyone /\ t.n.up) THEN t
        ELSE IF via = "lo" THEN lo_xmit(t, From("lo"))
        ELSE eth_xmit(t, IF r.used /\ r.gw # 0 THEN r.gw ELSE p.dst, From("eth0"))

(***************************************************************************)
(* Ports                                                                   *)
(***************************************************************************)
(* Slip: a socket that is bound to all addresses is not looked at *)
exactOnly(s, addr) == s.laddr = addr

overlaps(s, addr) == addr = 0 \/ s.laddr = 0 \/ s.laddr = addr

inet_port_used(t, type, addr, port, but) ==
    \E i \in 1 .. NSOCK : /\ i # but /\ t.s[i].used /\ t.s[i].type = type /\ t.s[i].lport = port
                          /\ overlaps(t.s[i], addr)

(* The next port that is free, and the one to try after it; 0 for none *)
RECURSIVE inet_ephemeral(_, _, _)
inet_ephemeral(t, type, tries) ==
    LET p    == t.n.nextport
        next == IF p + 1 \in Ephemeral THEN p + 1 ELSE Least(Ephemeral)
        u    == [t EXCEPT !.n.nextport = next]
    IN  IF tries = 0 THEN [t |-> t, port |-> 0]
        ELSE IF ~inet_port_used(t, type, 0, p, 0) THEN [t |-> u, port |-> p]
        ELSE inet_ephemeral(u, type, tries - 1)

(* ok is FALSE when the caller gets an error *)
inet_bind(t, i, addr, port) ==
    LET s == t.s[i]
        e == inet_ephemeral(t, s.type, Cardinality(Ephemeral))
        k == IF port = 0 THEN e.port ELSE port
        u == IF port = 0 THEN e.t ELSE t
    IN  CASE s.lport # 0 \/ (addr # 0 /\ ~is_local_addr(t, addr)) -> [t |-> t, ok |-> FALSE]
          [] s.lport = 0 /\ (addr = 0 \/ is_local_addr(t, addr)) /\ s.type = "raw" ->
               [t |-> [t EXCEPT !.s[i].laddr = addr], ok |-> TRUE]
          [] OTHER ->
               IF k = 0 \/ (port # 0 /\ inet_port_used(t, s.type, addr, port, i)) THEN [t |-> u, ok |-> FALSE]
               ELSE [t |-> [u EXCEPT !.s[i].laddr = addr, !.s[i].lport = k], ok |-> TRUE]

(***************************************************************************)
(* UDP and ICMP                                                            *)
(***************************************************************************)
takes(s, p) ==
    /\ s.lport = p.dport
    /\ s.laddr = 0 \/ s.laddr = p.dst \/ p.dst = Everyone
    /\ s.state = "CONNECTED" => s.faddr = p.src /\ s.fport = p.sport

(* A connected socket comes before one that takes datagrams from anybody *)
udp_find(t, p) ==
    LET S == {i \in 1 .. NSOCK : t.s[i].used /\ t.s[i].type = "dgram" /\ takes(t.s[i], p)}
        C == {i \in S : t.s[i].state = "CONNECTED"}
    IN  CASE S = {} -> 0
          [] S # {} /\ C = {} -> Least(S)
          [] OTHER -> CHOOSE i \in C : \A j \in C : i >= j

dgram_queue(t, i, p) ==
    IF Len(t.s[i].dq) >= DGRAM_LIMIT THEN t ELSE Wake([t EXCEPT !.s[i].dq = Append(@, p)], "recv", i)

icmp_unreachable(t, p) ==
    ip_output(t, IF is_local_addr(t, p.dst) THEN p.dst ELSE 0,
              [proto |-> "icmp", kind |-> "unreach", src |-> 0, dst |-> p.src,
               sport |-> p.sport, dport |-> p.dport, idst |-> p.dst])

udp_input(t, p) ==
    LET i == udp_find(t, p)
    IN  IF i # 0 THEN dgram_queue(t, i, p)
        ELSE IF p.dst = Everyone THEN t ELSE icmp_unreachable(t, p)

refuse(t, i) == Wake([t EXCEPT !.s[i].error = "ECONNREFUSED"], "recv", i)

icmp_input(t, p) ==
    LET raw == FoldLeft(LAMBDA u, i : IF u.s[i].used /\ u.s[i].type = "raw" THEN dgram_queue(u, i, p) ELSE u,
                        t, [i \in 1 .. NSOCK |-> i])
        Meant(s) == /\ s.used /\ s.type = "dgram" /\ s.lport = p.sport
                    /\ s.state = "CONNECTED" => s.faddr = p.idst /\ s.fport = p.dport
    IN  CASE p.kind = "echo" ->
               ip_output(raw, IF p.dst = Everyone THEN 0 ELSE p.dst, [p EXCEPT !.kind = "reply", !.dst = p.src])
          [] p.kind = "unreach" ->
               FoldLeft(LAMBDA u, i : IF Meant(u.s[i]) THEN refuse(u, i) ELSE u, raw, [i \in 1 .. NSOCK |-> i])
          [] OTHER -> raw

ip_input(t, nif, p) ==
    LET bcast == nif = "eth0" /\ t.n.addr # 0 /\ p.dst = Prefix(t.n.addr, t.n.len) + 2 ^ (W - t.n.len) - 1
    IN  IF ~is_local_addr(t, p.dst) /\ p.dst # Everyone /\ ~bcast THEN t
        ELSE IF p.proto = "icmp" THEN icmp_input(t, p) ELSE udp_input(t, p)

RECURSIVE net_run(_)
net_run(t) == IF t.loq = <<>> THEN t ELSE net_run(ip_input([t EXCEPT !.loq = Tail(@)], "lo", Head(t.loq)))

udp_send(t, i, dst, dport) ==
    LET b   == IF t.s[i].lport # 0 THEN [t |-> t, ok |-> TRUE] ELSE inet_bind(t, i, 0, 0)
        s   == b.t.s[i]
        src == IF s.laddr # 0 THEN s.laddr ELSE ip_source_for(b.t, dst)
    IN  IF dport = 0 THEN t
        ELSE IF ~b.ok \/ (src = 0 /\ dst # Everyone) THEN b.t
        ELSE ip_output(b.t, src, [proto |-> "udp", kind |-> "data", src |-> src, dst |-> dst,
                                  sport |-> s.lport, dport |-> dport, idst |-> 0])

(***************************************************************************)
(* Interrupts and the clock                                                *)
(***************************************************************************)
Wants(e, type) == e.used /\ (e.type = "any" \/ e.type = type) /\ Len(e.q) < EQLEN

ether_deliver(t, f) ==
    FoldLeft(LAMBDA u, k : IF Wants(u.e[k], f.type) THEN Wake([u EXCEPT !.e[k].q = Append(@, f)], "lread", k) ELSE u,
             t, [k \in 1 .. NECONV |-> k])

frameIn(t, f) ==
    LET u == ether_deliver(t, f)
    IN  CASE f.type = "arp" -> arp_input(u, f.from, f.p)
          [] f.type = "ip" /\ t.n.up -> ip_input(u, "eth0", f.p)
          [] OTHER -> u

(* The next frame comes into the buffer once the last was acknowledged *)
try_deliver(d) ==
    IF d.rx # NoFrame \/ d.q = <<>> THEN d ELSE [d EXCEPT !.rx = Head(d.q), !.q = Tail(@), !.irq = TRUE]

receive(h, d, f) ==
    IF (~net[h].promisc /\ f.to \notin {h, All}) \/ Len(d.q) = NQ THEN d ELSE try_deliver([d EXCEPT !.q = Append(@, f)])

done(d) == [d EXCEPT !.out = NoFrame, !.irq = TRUE]

(* The frame reaches the other hosts, the sender itself (loop), or is lost *)
net_events(h, way) ==
    LET R == CASE way = "wire" -> Hosts \ {h} [] way = "loop" -> {h} [] OTHER -> {}
        d == [dev EXCEPT ![h] = done(@)]
    IN  /\ dev[h].out # NoFrame
        /\ dev' = [g \in Hosts |-> IF g \in R THEN receive(g, d[g], dev[h].out) ELSE d[g]]
        /\ UNCHANGED <<net, socks, open, econv, eopen, call, ticks>>

(* The frames that the controller holds, one after the other *)
RECURSIVE receiveAll(_)
receiveAll(t) ==
    IF t.d.rx = NoFrame THEN t ELSE receiveAll(frameIn([t EXCEPT !.d = try_deliver([@ EXCEPT !.rx = NoFrame])], t.d.rx))

(* The interrupt is acknowledged first *)
eth_intr(h) ==
    LET u == [On(h) EXCEPT !.d.irq = FALSE]
        t == IF u.d.out = NoFrame /\ u.n.busy THEN eth_start([u EXCEPT !.n.busy = FALSE]) ELSE u
    IN  /\ dev[h].irq
        /\ Become(net_run(receiveAll(t))) /\ UNCHANGED <<open, eopen, ticks>>

arpTick(t, k) ==
    LET a == t.n.arps[k]
    IN  CASE a.used /\ ~a.resolved /\ a.pending # <<>> /\ ticks + 1 >= a.retry_at ->
               IF a.tries >= 3 THEN [arp_drop_pending(t, k) EXCEPT !.n.arps[k] = NoArp]
               ELSE arp_send([t EXCEPT !.n.arps[k].tries = @ + 1, !.n.arps[k].retry_at = ticks + 1 + ARP_RETRY],
                             "request", a.ip, All)
          [] a.used /\ a.resolved /\ ticks + 1 >= a.expire -> [t EXCEPT !.n.arps[k] = NoArp]
          [] OTHER -> t

(* Nothing is done while nothing waits; tcp: there are TCP connections *)
arp_waiting(t, tcp) == tcp \/ t.n.nwait # 0

net_tick(h, tcp) == IF arp_waiting(On(h), tcp) THEN FoldLeft(arpTick, On(h), [k \in 1 .. NARP |-> k]) ELSE On(h)

Tick(tcp) ==
    /\ ticks < MaxTicks /\ ticks' = ticks + 1
    /\ net' = [h \in Hosts |-> net_tick(h, tcp).n] /\ dev' = [h \in Hosts |-> net_tick(h, tcp).d]
    /\ UNCHANGED <<socks, open, econv, eopen, call>>

(***************************************************************************)
(* Configuration                                                           *)
(***************************************************************************)
withoutAuto(t) == [k \in 1 .. NROUTE |-> IF t.n.routes[k].auto THEN NoRoute ELSE t.n.routes[k]]

route_auto(t) ==
    LET rs   == withoutAuto(t)
        free == {k \in 1 .. NROUTE : ~rs[k].used}
        r    == [used |-> TRUE, dst |-> Prefix(t.n.addr, t.n.len), len |-> t.n.len, gw |-> 0, nif |-> "eth0", auto |-> TRUE]
    IN  [t EXCEPT !.n.routes = IF ~t.n.up \/ t.n.addr = 0 \/ free = {} THEN rs ELSE [rs EXCEPT ![Least(free)] = r]]

(* nif is "none" when no interface is named: that of the gateway is taken *)
route_set(t, del, dst, len, gw, nif) ==
    LET r    == route_lookup(t, gw)
        via  == IF nif # "none" THEN nif ELSE IF gw # 0 /\ r.used THEN r.nif ELSE "none"
        at   == {k \in 1 .. NROUTE : t.n.routes[k].used /\ t.n.routes[k].dst = dst /\ t.n.routes[k].len = len}
        free == {k \in 1 .. NROUTE : ~t.n.routes[k].used}
    IN  IF del THEN IF at = {} THEN t ELSE [t EXCEPT !.n.routes[Least(at)] = NoRoute]
        ELSE IF via = "none" \/ free = {} THEN t
        ELSE [t EXCEPT !.n.routes[Least(free)] = [used |-> TRUE, dst |-> Prefix(dst, len), len |-> len, gw |-> gw,
                                                  nif |-> via, auto |-> FALSE]]

(* The mask of the class of an address *)
ClassLen(a) == IF a < 2 ^ (W - 1) THEN 1 ELSE 2

(* req is flags, with <<up, promiscuous>>, addr or mask of eth0 *)
netif_set(t, req, v) ==
    LET u == CASE req = "flags" -> [t EXCEPT !.n.up = v[1], !.n.promisc = v[2]]
               [] req = "addr"  -> [t EXCEPT !.n.addr = v, !.n.len = IF @ = 0 THEN ClassLen(v) ELSE @]
               [] req = "mask"  -> [t EXCEPT !.n.len = v]
        w == route_auto(u)
    IN  IF w.n.up /\ w.n.addr # 0 THEN arp_send(w, "request", w.n.addr, All) ELSE w

Ioctl(h, req, v) == Running(h) /\ Become(netif_set(On(h), req, v)) /\ UNCHANGED <<open, eopen, ticks>>

(* add and remove, written to the ctl file of the interface *)
ifc_ctl(h, add, addr, len) ==
    /\ Running(h) /\ (add \/ (net[h].addr = addr /\ net[h].len = len))
    /\ Become(netif_set(netif_set(On(h), "addr", IF add THEN addr ELSE 0), "mask", IF add THEN len ELSE 0))
    /\ UNCHANGED <<open, eopen, ticks>>

route_ctl(h, del, dst, len, gw, nif) ==
    Running(h) /\ Become(route_set(On(h), del, dst, len, gw, nif)) /\ UNCHANGED <<open, eopen, ticks>>

(***************************************************************************)
(* Sockets, also as the connections below /net                             *)
(***************************************************************************)
FreeSock(h) == {i \in 1 .. NSOCK : ~socks[h][i].used}

(* kind "fd" is a descriptor of socket(), "ctl" the file that clone became *)
sock_new(h, type, kind) ==
    LET i == Least(FreeSock(h))
    IN  /\ Running(h) /\ FreeSock(h) # {}
        /\ socks' = [socks EXCEPT ![h][i] = [NoSock EXCEPT !.used = TRUE, !.type = type, !.state = "UNCONN", !.files = 1]]
        /\ open' = [open EXCEPT ![h] = @ \cup {<<i, kind>>}]
        /\ UNCHANGED <<net, econv, eopen, call, dev, ticks>>

(* ctl and data hold the connection; the other files only read it *)
Holds(kind) == kind \in {"fd", "ctl", "data"}

ip_open(h, i, kind) ==
    /\ Running(h) /\ socks[h][i].used /\ kind \in {"ctl", "data", "status"} /\ <<i, kind>> \notin open[h]
    /\ open' = [open EXCEPT ![h] = @ \cup {<<i, kind>>}]
    /\ socks' = [socks EXCEPT ![h][i].files = IF Holds(kind) THEN @ + 1 ELSE @]
    /\ UNCHANGED <<net, econv, eopen, call, dev, ticks>>

released(s, kind) == IF ~Holds(kind) THEN s ELSE IF s.files > 1 THEN [s EXCEPT !.files = @ - 1] ELSE NoSock

Close(h, i, kind) ==
    /\ Running(h) /\ <<i, kind>> \in open[h]
    /\ open' = [open EXCEPT ![h] = @ \ {<<i, kind>>}]
    /\ socks' = [socks EXCEPT ![h][i] = released(@, kind)]
    /\ UNCHANGED <<net, econv, eopen, call, dev, ticks>>

MayUse(h, i) == Running(h) /\ \E kind \in {"fd", "ctl", "data"} : <<i, kind>> \in open[h]

Bind(h, i, addr, port) ==
    /\ MayUse(h, i) /\ Become(inet_bind(On(h), i, addr, port).t) /\ UNCHANGED <<open, eopen, ticks>>

(* lport is the local port of a connect message, 0 without one *)
Connect(h, i, addr, port, lport) ==
    LET a == IF lport = 0 THEN [t |-> On(h), ok |-> TRUE] ELSE inet_bind(On(h), i, 0, lport)
        b == IF ~a.ok \/ a.t.s[i].lport # 0 THEN a ELSE inet_bind(a.t, i, 0, 0)
    IN  /\ MayUse(h, i)
        /\ Become(IF b.ok THEN [b.t EXCEPT !.s[i].faddr = addr, !.s[i].fport = port, !.s[i].state = "CONNECTED"]
                  ELSE b.t)
        /\ UNCHANGED <<open, eopen, ticks>>

Echo(dst) == [proto |-> "icmp", kind |-> "echo", src |-> 0, dst |-> dst, sport |-> 0, dport |-> 0, idst |-> 0]

(* to is empty, or the address and port of sendto *)
do_send(h, i, to) ==
    LET s    == socks[h][i]
        addr == IF to = <<>> THEN s.faddr ELSE to[1]
        port == IF to = <<>> THEN s.fport ELSE to[2]
    IN  /\ MayUse(h, i) /\ (to = <<>> => s.state = "CONNECTED")
        /\ Become(net_run(IF s.type = "raw" THEN ip_output(On(h), s.laddr, Echo(addr)) ELSE udp_send(On(h), i, addr, port)))
        /\ UNCHANGED <<open, eopen, ticks>>

dgram_recv(t, i, nonblock) ==
    LET s == t.s[i]
    IN  CASE s.dq # <<>> -> [t EXCEPT !.s[i].dq = Tail(@), !.c = Idle]
          [] s.dq = <<>> /\ s.error # "none" -> [t EXCEPT !.s[i].error = "none", !.c = Idle]
          [] OTHER -> [t EXCEPT !.c = IF s.shut_rd \/ nonblock THEN Idle ELSE [op |-> "recv", i |-> i, woken |-> FALSE]]

Recv(h, i, nonblock) == MayUse(h, i) /\ Become(dgram_recv(On(h), i, nonblock)) /\ UNCHANGED <<open, eopen, ticks>>

(* hangup, or shutdown of both directions *)
sock_shutdown(h, i) ==
    MayUse(h, i) /\ Become(Wake([On(h) EXCEPT !.s[i].shut_rd = TRUE], "recv", i)) /\ UNCHANGED <<open, eopen, ticks>>

(***************************************************************************)
(* Conversations of ether0: every frame of a type                          *)
(***************************************************************************)
l_clone(h) ==
    LET free == {k \in 1 .. NECONV : ~econv[h][k].used}
    IN  /\ Running(h) /\ free # {}
        /\ econv' = [econv EXCEPT ![h][Least(free)] = [NoConv EXCEPT !.used = TRUE, !.files = 1]]
        /\ eopen' = [eopen EXCEPT ![h] = @ \cup {<<Least(free), "ctl">>}]
        /\ UNCHANGED <<net, socks, open, call, dev, ticks>>

l_open(h, k, kind) ==
    /\ Running(h) /\ econv[h][k].used /\ <<k, kind>> \notin eopen[h]
    /\ econv' = [econv EXCEPT ![h][k].files = @ + 1]
    /\ eopen' = [eopen EXCEPT ![h] = @ \cup {<<k, kind>>}]
    /\ UNCHANGED <<net, socks, open, call, dev, ticks>>

net9_close(h, k, kind) ==
    /\ Running(h) /\ <<k, kind>> \in eopen[h]
    /\ econv' = [econv EXCEPT ![h][k] = IF @.files > 1 THEN [@ EXCEPT !.files = @ - 1] ELSE NoConv]
    /\ eopen' = [eopen EXCEPT ![h] = @ \ {<<k, kind>>}]
    /\ UNCHANGED <<net, socks, open, call, dev, ticks>>

(* connect T chooses the type of the frames *)
l_ctl(h, k, type) ==
    /\ Running(h) /\ <<k, "ctl">> \in eopen[h]
    /\ econv' = [econv EXCEPT ![h][k].type = type]
    /\ UNCHANGED <<net, socks, open, eopen, call, dev, ticks>>

ether_send(h, k, to) ==
    /\ Running(h) /\ <<k, "data">> \in eopen[h]
    /\ Become(net_run(eth_frame(On(h), to, "other", 0))) /\ UNCHANGED <<open, eopen, ticks>>

l_read(t, k, nonblock) ==
    IF t.e[k].q # <<>> THEN [t EXCEPT !.e[k].q = Tail(@), !.c = Idle]
    ELSE [t EXCEPT !.c = IF nonblock THEN Idle ELSE [op |-> "lread", i |-> k, woken |-> FALSE]]

Read(h, k, nonblock) ==
    /\ Running(h) /\ <<k, "data">> \in eopen[h]
    /\ Become(l_read(On(h), k, nonblock)) /\ UNCHANGED <<open, eopen, ticks>>

Resume(h) ==
    /\ call[h].woken
    /\ Become(IF call[h].op = "recv" THEN dgram_recv(On(h), call[h].i, FALSE) ELSE l_read(On(h), call[h].i, FALSE))
    /\ UNCHANGED <<open, eopen, ticks>>

Interrupt(h) == ~Running(h) /\ Become([On(h) EXCEPT !.c = Idle]) /\ UNCHANGED <<open, eopen, ticks>>

LoRoute == [used |-> TRUE, dst |-> LoAddr, len |-> 2, gw |-> 0, nif |-> "lo", auto |-> FALSE]
NetInit ==
    [up |-> FALSE, promisc |-> FALSE, addr |-> 0, len |-> 0,
     routes |-> [k \in 1 .. NROUTE |-> IF k = 1 THEN LoRoute ELSE NoRoute],
     arps |-> [k \in 1 .. NARP |-> NoArp], nwait |-> 0, txq |-> <<>>, busy |-> FALSE, nextport |-> Least(Ephemeral)]

Boot ==
    /\ socks = [h \in Hosts |-> [i \in 1 .. NSOCK |-> NoSock]]
    /\ open = [h \in Hosts |-> {}] /\ econv = [h \in Hosts |-> [k \in 1 .. NECONV |-> NoConv]]
    /\ eopen = [h \in Hosts |-> {}] /\ call = [h \in Hosts |-> Idle] 
    /\ dev = [h \in Hosts |-> [out |-> NoFrame, rx |-> NoFrame, q |-> <<>>, irq |-> FALSE]] /\ ticks = 0

(***************************************************************************)
(* Properties                                                              *)
(***************************************************************************)
(* Every queue keeps its limit: packets that wait for ARP, frames that     *)
(* wait for the controller or a reader, and datagrams that wait in a       *)
(* socket (inet.c, netfs.c, net.c).                                        *)
TypeOK ==
    \A h \in Hosts :
       /\ Len(net[h].txq) <= NTXQ /\ net[h].nwait \in Nat /\ Len(dev[h].q) <= NQ
       /\ net[h].addr \in Addrs /\ net[h].len \in 0 .. W /\ net[h].nextport \in Ephemeral
       /\ \A k \in 1 .. NARP : Len(net[h].arps[k].pending) <= ARP_PENDING
       /\ \A i \in 1 .. NSOCK : Len(socks[h][i].dq) <= DGRAM_LIMIT
       /\ \A k \in 1 .. NECONV : Len(econv[h][k].q) <= EQLEN

(* net_tick does nothing while arp_nwait is zero: the count is that of the *)
(* entries with packets, whichever way these came and went (arp_slot,      *)
(* arp_learn, eth_xmit, the last retry).                                   *)
WaitersCounted ==
    \A h \in Hosts : net[h].nwait = Cardinality({k \in 1 .. NARP : net[h].arps[k].pending # <<>>})

(* A packet never waits for an address that nobody asks for: an entry      *)
(* without address has packets, was asked for at most three times and is   *)
(* asked for again, or given up, within ARP_RETRY ticks.                   *)
AskedAgain ==
    \A h \in Hosts, k \in 1 .. NARP :
       LET a == net[h].arps[k]
       IN  IF a.used /\ ~a.resolved
           THEN a.pending # <<>> /\ a.tries \in 1 .. 3 /\ ticks < a.retry_at /\ a.retry_at <= ticks + ARP_RETRY
           ELSE a.pending = <<>>

(* The Ethernet does not stall: frames wait only while the controller is   *)
(* busy, and whatever the controller has for the kernel, a frame or the    *)
(* end of a transmission, its interrupt is pending (eth_start, eth_intr).  *)
NothingStalls ==
    \A h \in Hosts :
       /\ net[h].txq # <<>> => net[h].busy
       /\ dev[h].rx # NoFrame \/ (net[h].busy /\ dev[h].out = NoFrame) => dev[h].irq
       /\ dev[h].q # <<>> => dev[h].rx # NoFrame

(* No two sockets of a type can claim the same datagram by their port:     *)
(* inet_bind and inet_ephemeral keep local addresses apart.                *)
PortsApart ==
    \A h \in Hosts, i, j \in 1 .. NSOCK :
       LET a == socks[h][i]
           b == socks[h][j]
       IN  i # j /\ a.used /\ b.used /\ a.type = b.type /\ a.lport = b.lport /\ a.lport # 0
             => a.laddr # b.laddr /\ a.laddr # 0 /\ b.laddr # 0

(* A process that sleeps in recv or in a read of raw frames has nothing to *)
(* take: no datagram, no error of ICMP, no frame came without waking it.   *)
SleepersWait ==
    \A h \in Hosts :
       LET c == call[h]
       IN  /\ c.op = "recv" /\ ~c.woken =>
                socks[h][c.i].dq = <<>> /\ socks[h][c.i].error = "none" /\ ~socks[h][c.i].shut_rd
           /\ c.op = "lread" /\ ~c.woken => econv[h][c.i].q = <<>>

(* A socket or conversation is in use exactly while a file holds it, and   *)
(* its count is that of these files (ip_open, become_ctl, sock_close,      *)
(* net9_close).                                                            *)
FilesCounted ==
    \A h \in Hosts :
       /\ \A i \in 1 .. NSOCK :
             /\ socks[h][i].files = Cardinality({f \in open[h] : f[1] = i /\ Holds(f[2])})
             /\ socks[h][i].used <=> socks[h][i].files > 0
       /\ \A k \in 1 .. NECONV :
             /\ econv[h][k].files = Cardinality({f \in eopen[h] : f[1] = k})
             /\ econv[h][k].used <=> econv[h][k].files > 0

(* Up to eight routes are kept and the longest matching prefix wins; of    *)
(* two that are as long, the one that follows the address of eth0.         *)
LongestWins ==
    \A h \in Hosts, dst \in Addrs :
       LET r == route_lookup(On(h), dst)
           M == {q \in Range(net[h].routes) : q.used /\ Prefix(dst, q.len) = q.dst /\ nifUp(On(h), q.nif)}
       IN  IF M = {} THEN r = NoRoute
           ELSE r \in M /\ \A q \in M : q.len <= r.len /\ (q.len = r.len /\ q.auto => r.auto)

(* The route to eth0's own network follows its address and mask: no route  *)
(* of an address it had before remains (route_auto).                       *)
AutoFollows ==
    \A h \in Hosts :
       LET A == {k \in 1 .. NROUTE : net[h].routes[k].auto}
       IN  /\ Cardinality(A) <= 1
           /\ \A k \in A : /\ net[h].up /\ net[h].addr # 0
                           /\ net[h].routes[k].dst = Prefix(net[h].addr, net[h].len) /\ net[h].routes[k].len = net[h].len

(* Nothing waits for good: packets that wait for an address are counted    *)
(* and asked for again, frames leave and arrive, and no call sleeps on     *)
(* what has come (inet.c arp and eth functions, net_tick).                 *)
PacketsGoOn == TypeOK /\ WaitersCounted /\ AskedAgain /\ NothingStalls /\ SleepersWait

(* A socket gets a datagram only that was sent to its port and address, or *)
(* to everyone, and a connected one nothing but what its peer sends        *)
(* (udp_find).                                                             *)
OnlyPeer ==
    [][\A h \in Hosts, i \in 1 .. NSOCK :
          LET s == socks[h][i]
              u == socks'[h][i]
              p == u.dq[Len(u.dq)]
          IN  s.used /\ s.type = "dgram" /\ Len(u.dq) > Len(s.dq)
                => /\ p.dport = u.lport /\ (u.laddr # 0 => p.dst \in {u.laddr, Everyone})
                   /\ s.state = "CONNECTED" => p.src = s.faddr /\ p.sport = s.fport]_vars

=============================================================================
