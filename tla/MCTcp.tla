-------------------------------- MODULE MCTcp --------------------------------
(* Small instances of Tcp for TLC.  The programs on the two hosts do one   *)
(* of several kinds of work, which the initial state chooses.              *)
EXTENDS Tcp, TLC

CONSTANTS Loads,            \* the kinds of work to choose from
          client, server    \* the two hosts

VARIABLES load,
          lost    \* load once: has the network lost its one segment

HostSet == {client, server}
\* The client's numbers wrap inside its data, the server's behind its SYN.
Iss0 == (client :> 21) @@ (server :> 23)

(* calls of each host; send and recv: lengths; how: arguments of shutdown; *)
(* bytes: how many a program writes; inflight: segments in the network;    *)
(* net: what the network and the kernel do beside delivering.              *)
Work ==
    [stream |-> [calls |-> (client :> {"connect", "send"}) @@ (server :> {"listen", "recv"}),
                 send |-> {2, 3}, recv |-> {1, 2}, how |-> {}, inflight |-> NetMax, bytes |-> Bytes, net |-> {"lose", "keep"}],
     finish |-> [calls |-> (client :> {"connect", "send", "close"}) @@ (server :> {"listen", "recv"}),
                 send |-> {2}, recv |-> {2}, how |-> {{"rd"}}, inflight |-> 2, bytes |-> Bytes, net |-> {"lose"}],
     close  |-> [calls |-> (client :> {"connect", "send", "recv", "close"}) @@ (server :> {"listen", "recv", "close"}),
                 send |-> {1}, recv |-> {1}, how |-> {{"wr"}}, inflight |-> 2, bytes |-> 1, net |-> {"lose", "keep"}],
     both   |-> [calls |-> (client :> {"connect", "send", "recv"}) @@ (server :> {"listen", "send", "recv"}),
                 send |-> {1}, recv |-> {1}, how |-> {}, inflight |-> 2, bytes |-> 1, net |-> {"lose"}],
     window |-> [calls |-> (client :> {"connect", "send"}) @@ (server :> {"listen", "recv"}),
                 send |-> {1, 2}, recv |-> {1, 2}, how |-> {}, inflight |-> 2, bytes |-> Bytes, net |-> {"calm"}],
     open   |-> [calls |-> [e \in HostSet |-> {"connect", "connect_nb", "listen", "unlisten", "send", "close"}],
                 send |-> {1}, recv |-> {}, how |-> {{"rd", "wr"}}, inflight |-> 2, bytes |-> 1, net |-> {"icmp", "interrupt"}],
     once   |-> [calls |-> (client :> {"connect"}) @@ (server :> {"listen"}),
                 send |-> {}, recv |-> {}, how |-> {}, inflight |-> 2, bytes |-> 0, net |-> {"once"}]]

Does(e, x) == x \in Work[load].calls[e]
Can(x) == x \in Work[load].net

Programs(e) ==
    LET w == Work[load]
    IN  \/ Does(e, "connect") /\ (Can("once") => lis[server] = "listen") /\ Connect(e, FALSE)
        \/ Does(e, "connect_nb") /\ Connect(e, TRUE)
        \/ Does(e, "listen") /\ (Listen(e) \/ Accept(e))
        \/ Does(e, "unlisten") /\ CloseListener(e)
        \/ Does(e, "close") /\ Close(e)
        \/ Does(e, "send") /\ \E n \in w.send : wrote[e] + n <= w.bytes /\ Send(e, n, FALSE)
        \/ Does(e, "recv") /\ \E n \in w.recv : Recv(e, n, FALSE)
        \/ \E how \in w.how : Shutdown(e, how)

(* In load once the network is faster than the timers, and of two timers   *)
(* that double at each retry the one with fewer retries goes off first.    *)
Due(e) == net = {} /\ (tcb[Peer(e)].armed => tcb[e].retries <= tcb[Peer(e)].retries)

To(e, segs) == {m \in segs : m.to = e}

(* In load window, where segments arrive in order and before a timer goes  *)
(* off: a sender that waits with nothing under way behind a window it      *)
(* thinks closed waits because there is not yet room to announce           *)
(* (tcp_after_read).  The exception is a probe whose byte was taken: its   *)
(* acknowledgement, and every later one, is refused with the window it     *)
(* brings (tcp.c:419, 680), and such a connection does not go on.          *)
WindowTold ==
    load = "window" =>
        \A e \in Hosts :
            LET t == tcb[e]
                p == Peer(e)
            IN  t.st = "ESTABLISHED" /\ tcb[p].st = "ESTABLISHED" /\ To(e, net) = {}
                /\ t.una = t.max /\ t.wnd = 0 /\ sock[e].tx # <<>>
                => Space(sock[p].rx) < UPDATE \/ tcb[p].rcv = Add(t.max, 1)

(* No call sleeps on what is already there, and a timer runs while         *)
(* anything is unacknowledged, so that what was lost is sent again.  Where *)
(* a window is closed the timer goes on probing; that the answer is heard  *)
(* is not claimed, only that the window's opening is announced             *)
(* (WindowTold).                                                           *)
NobodyStuck == TimerRuns /\ SleepersWait /\ WindowTold

(* When the network loses one segment and delivers all the others before a *)
(* timer goes off, no connection fails (the retransmissions of tcp_tick).  *)
OneLossSurvived == load = "once" => \A e \in Hosts : sock[e].error = ""

MCInit == Init /\ load \in Loads /\ lost = FALSE
MCNext ==
    /\ \/ \E e \in Hosts :
             \/ Programs(e)
             \/ \E m \in net, keep \in BOOLEAN : (keep => Can("keep")) /\ Deliver(e, m, keep)
             \/ (Can("once") => Due(e)) /\ (Can("calm") => net = {}) /\ Tick(e)
             \/ Resume(e)
             \/ Can("icmp") /\ IcmpError(e)
             \/ Can("interrupt") /\ Interrupt(e)
       \/ Can("lose") /\ \E m \in net : Lose(m)
    /\ Can("calm") => \A e \in Hosts : Cardinality(To(e, net')) <= 1
    /\ Cardinality(net') <= Work[load].inflight
    /\ UNCHANGED <<load, lost>>
MCOnce == /\ Can("once") /\ ~lost
          /\ \E m \in net : Lose(m)
          /\ lost' = TRUE
          /\ UNCHANGED load
MCSpec == MCInit /\ [][MCNext \/ MCOnce]_<<vars, load, lost>>
==============================================================================
