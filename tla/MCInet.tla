------------------------------- MODULE MCInet -------------------------------
(***************************************************************************)
(* Small instances of Inet.  Addresses have four bits: hosts h1 and h2 are *)
(* 1 and 2 on the network 0/1, whose broadcast is 7; 3 is nobody, 8 to 11  *)
(* are lo, 12 is beyond the gateway 2.                                     *)
(***************************************************************************)
EXTENDS Inet, TLC

CONSTANTS Loads, h1, h2

VARIABLES load, sent,     \* calls that send, so far
          owned           \* the addresses that each host has had

mcvars == <<vars, load, sent, owned>>

None == {}

(* A load: who makes sockets and sends, how often, what the sockets are    *)
(* used for, and what the wire and the clock do                            *)
Quiet == [up |-> TRUE, by |-> {h1}, sends |-> {h1}, n |-> 0, types |-> None, socks |-> 0, kinds |-> None, closes |-> FALSE,
          dsts |-> None, binds |-> None, conns |-> None, recv |-> None, cfg |-> FALSE, ether |-> FALSE,
          ways |-> {"wire"}, ticks |-> 0]
Work ==
    [arp   |-> [Quiet EXCEPT !.n = 3, !.types = {"dgram"}, !.socks = 1, !.dsts = {2, 3}, !.ways = {"wire", "lost"}, !.ticks = 2],
     late  |-> [Quiet EXCEPT !.n = 2, !.types = {"dgram"}, !.socks = 1, !.dsts = {2}, !.ways = {"wire", "lost"}, !.ticks = 4],
     ask   |-> [Quiet EXCEPT !.by = {h1, h2}, !.n = 2, !.types = {"dgram"}, !.socks = 1, !.dsts = {2, 7, 12}, !.binds = {<<0, 1>>},
                             !.recv = {FALSE}],
     ports |-> [Quiet EXCEPT !.up = FALSE, !.n = 1, !.types = {"dgram"}, !.socks = 3, !.closes = TRUE, !.dsts = {8},
                             !.binds = {<<0, 0>>, <<0, 1>>, <<8, 1>>}, !.conns = {<<8, 1, 0>>}, !.recv = {FALSE}],
     pairs |-> [Quiet EXCEPT !.up = FALSE, !.n = 3, !.types = {"dgram"}, !.socks = 2, !.dsts = {8},
                             !.binds = {<<8, 1>>, <<9, 1>>}, !.conns = {<<8, 1, 0>>, <<8, 3, 2>>}, !.recv = {TRUE, FALSE}],
     raw   |-> [Quiet EXCEPT !.n = 2, !.types = {"raw"}, !.socks = 1, !.dsts = {2, 8, 15}, !.binds = {<<8, 0>>},
                             !.conns = {<<2, 1, 0>>}, !.recv = {TRUE}],
     conv  |-> [Quiet EXCEPT !.up = FALSE, !.n = 1, !.types = {"dgram"}, !.socks = 2, !.closes = TRUE, !.kinds = {"ctl", "data"},
                             !.dsts = {8}, !.binds = {<<0, 1>>}],
     info  |-> [Quiet EXCEPT !.up = FALSE, !.types = {"dgram"}, !.socks = 1, !.closes = TRUE, !.kinds = {"data", "status"}],
     ifc   |-> [Quiet EXCEPT !.up = FALSE, !.n = 4, !.cfg = TRUE, !.ways = {"loop"}],
     ether |-> [Quiet EXCEPT !.n = 3, !.ether = TRUE, !.ways = {"wire", "loop"}]]

W0 == Work[load]
Addr0 == h1 :> 1 @@ h2 :> 2

(* Hosts that are up have their address and the route to their network *)
UpNet(h) == [NetInit EXCEPT !.up = TRUE, !.addr = Addr0[h], !.len = 1,
                !.routes[2] = [used |-> TRUE, dst |-> 0, len |-> 1, gw |-> 0, nif |-> "eth0", auto |-> TRUE],
                !.routes[3] = IF h = h1 THEN [used |-> TRUE, dst |-> 0, len |-> 0, gw |-> 2, nif |-> "eth0", auto |-> FALSE] ELSE NoRoute]

MCInit ==
    /\ Boot /\ load \in Loads /\ sent = 0
    /\ net = [h \in Hosts |-> IF Work[load].up THEN UpNet(h) ELSE NetInit]
    /\ owned = [h \in Hosts |-> {net[h].addr}]

(* A socket is used only once it has been made as the load says *)
Sockets(h) ==
    \/ \E type \in W0.types : /\ Cardinality({i \in 1 .. NSOCK : socks[h][i].used}) < W0.socks
                              /\ sock_new(h, type, IF W0.kinds = None THEN "fd" ELSE "ctl")
    \/ \E i \in 1 .. W0.socks, kind \in {"fd", "ctl", "data", "status"} : W0.closes /\ Close(h, i, kind)
    \/ \E i \in 1 .. W0.socks, kind \in W0.kinds : ip_open(h, i, kind)
    \/ \E i \in 1 .. W0.socks : \E b \in W0.binds : Bind(h, i, b[1], b[2])
    \/ \E i \in 1 .. W0.socks : \E c \in W0.conns : Connect(h, i, c[1], c[2], c[3])
    \/ \E i \in 1 .. W0.socks, nonblock \in W0.recv : Recv(h, i, nonblock)
    \/ \E i \in 1 .. W0.socks : W0.conns # None /\ sock_shutdown(h, i)

Sends(h) ==
    \/ \E i \in 1 .. W0.socks, dst \in W0.dsts : do_send(h, i, <<dst, 1>>)
    \/ \E i \in 1 .. W0.socks : W0.conns # None /\ do_send(h, i, <<>>)

Configures(h) ==
    \/ \E up, promisc \in BOOLEAN : Ioctl(h, "flags", <<up, promisc>>)
    \/ \E v \in {0, 1, 13} : Ioctl(h, "addr", v)
    \/ Ioctl(h, "mask", 2)
    \/ \E add \in BOOLEAN, a \in {1, 13} : ifc_ctl(h, add, a, 1)
    \/ \E del \in BOOLEAN, dst \in {0, 1}, len \in {0, 1}, gw \in {0, 2}, nif \in {"none", "eth0", "lo"} :
          route_ctl(h, del, dst, len, gw, nif)

Ether(h) ==
    \/ l_clone(h)
    \/ \E k \in 1 .. NECONV : l_open(h, k, "data") \/ l_open(h, k, "ctl")
    \/ \E k \in 1 .. NECONV : net9_close(h, k, "data") \/ net9_close(h, k, "ctl")
    \/ \E k \in 1 .. NECONV, type \in {"any", "arp"} : l_ctl(h, k, type)
    \/ \E k \in 1 .. NECONV, nonblock \in BOOLEAN : Read(h, k, nonblock)

Machine ==
    \/ \E h \in Hosts, way \in W0.ways : net_events(h, way)
    \/ \E h \in Hosts : eth_intr(h)
    \/ \E h \in Hosts : Resume(h)
    \/ \E h \in Hosts : Interrupt(h)
    \/ \E tcp \in BOOLEAN : ticks < W0.ticks /\ Tick(tcp)

MCNext ==
    /\ \/ sent' = sent /\ (Machine \/ \E h \in W0.by : Sockets(h) \/ (W0.ether /\ Ether(h)))
       \/ /\ sent < W0.n /\ sent' = sent + 1
          /\ \E h \in W0.sends : \/ Sends(h)
                                 \/ W0.cfg /\ Configures(h)
                                 \/ W0.ether /\ \E k \in 1 .. NECONV, to \in {h2, All} : ether_send(h, k, to)
    /\ owned' = [h \in Hosts |-> owned[h] \cup {net'[h].addr}]
    /\ UNCHANGED load

MCSpec == MCInit /\ [][MCNext]_mcvars

(* A host has never learnt a wrong address: whoever an entry of the ARP    *)
(* table names has had that address (arp_learn, arp_input).                *)
LearntRight ==
    \A h \in Hosts, k \in 1 .. NARP : net[h].arps[k].resolved => net[h].arps[k].ip \in owned[net[h].arps[k].mac]

(* Packets reach whom they are for: local addresses are apart, a socket    *)
(* gets what was sent to its address and port, a connected one from its    *)
(* peer alone, sockets are in use while a file holds them, the longest     *)
(* route wins and follows the interface's address, and the ARP table holds *)
(* no address that was never its owner's.                                  *)
RightReceiver ==
    /\ [](PortsApart /\ FilesCounted /\ LongestWins /\ AutoFollows /\ LearntRight)
    /\ OnlyPeer
=============================================================================
