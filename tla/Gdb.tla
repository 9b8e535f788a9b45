-------------------------------- MODULE Gdb ----------------------------------
(***************************************************************************)
(* The emulator's stub for a remote debugger (src/gdb.c): packets with     *)
(* their acknowledgements, the table of breakpoints, and a machine that    *)
(* runs until a breakpoint, the end of the program or the debugger's       *)
(* interrupt character, which the stub looks for only once in POLL steps.  *)
(*                                                                         *)
(* The characters to the stub are "$", the packet p, its sum and "+" or    *)
(* "^C"; what comes back is an acknowledgement or a reply.  A packet       *)
(* carries the number no of the request it is, so that a reply can be told *)
(* to belong to it.  Hexadecimal digits are left out.                      *)
(***************************************************************************)
EXTENDS Integers, Sequences, SequencesExt, FiniteSets

CONSTANTS MAXBP, POLL, ADDRS, MaxRequests, MaxBreaks

(* toStub, toClient: the connection; stub: what it reads and answers;      *)
(* bps, mem, cpu: the machine; passed: a step was taken from a breakpoint  *)
(* the run came to; dbg: the debugger, with the breakpoints it wants and   *)
(* the part of the memory it knows                                         *)
VARIABLES toStub, toClient, stub, bps, mem, cpu, passed, dbg

Addr    == 0 .. ADDRS - 1
HALT    == ADDRS - 1
Req(c, a, l) == [c |-> c, a |-> a, l |-> l]
NoReq   == Req("none", 0, 0)

(* Memory ends with address 1: the others are not mapped.  The debugger    *)
(* writes TOLD, the program STORED.  l is how many bytes m and M are       *)
(* about, and 1 when c or s name an address                                *)
Mapped   == {0, 1}
TOLD     == 1
STORED   == 2
Requests == {Req(c, 0, 0) : c \in {"?", "g", "c", "s", "q", "H", "k", "D"}}
            \cup {Req(c, a, 0) : c \in {"Z", "z"}, a \in Addr \ {HALT}} \cup {Req("Z1", 0, 0), Req("G", 1, 0)}
            \cup {Req(c, a, 1) : c \in {"c", "s"}, a \in {HALT - 1}}
            \cup {Req(c, a, l) : c \in {"m", "M"}, a \in {0, 1}, l \in {1, 2}}
Span(q)  == q.a .. q.a + q.l - 1

Ack(x)  == [k |-> x, no |-> 0, r |-> "", v |-> 0]
put_packet(x, v) == [k |-> "reply", no |-> stub.no, r |-> x, v |-> v]
Say(x)  == toClient' = Append(toClient, x)

GInit ==
    /\ toStub = <<>> /\ toClient = <<>> /\ bps = <<>> /\ passed = FALSE
    /\ stub = [at |-> "head", req |-> NoReq, no |-> 0, n |-> 0]
    /\ mem = [a \in Mapped |-> 0]
    /\ cpu = [pc |-> 0, halted |-> FALSE]
    /\ dbg = [no |-> 0, asked |-> NoReq, wants |-> {}, mem |-> <<>>, breaks |-> 0, broke |-> FALSE]

(***************************************************************************)
(* The debugger (external): it asks one thing at a time, sends again what  *)
(* was refused, and may interrupt the program while it runs                *)
(***************************************************************************)
Wire(r, no, good) == <<[k |-> "$"], [k |-> "p", req |-> r, no |-> no], [k |-> "sum", good |-> good]>>

Ask(r) ==
    /\ dbg.asked = NoReq /\ dbg.no < MaxRequests /\ stub.at # "gone"
    /\ dbg' = [dbg EXCEPT !.no = @ + 1, !.asked = r, !.broke = FALSE]
    /\ \E good \in BOOLEAN : toStub' = toStub \o Wire(r, dbg.no + 1, good)
    /\ UNCHANGED <<toClient, stub, bps, mem, cpu, passed>>

Interrupt ==
    /\ dbg.asked.c = "c" /\ dbg.breaks < MaxBreaks
    /\ dbg' = [dbg EXCEPT !.breaks = @ + 1, !.broke = TRUE]
    /\ toStub' = Append(toStub, [k |-> "^C"])
    /\ UNCHANGED <<toClient, stub, bps, mem, cpu, passed>>

(* What the debugger takes as the breakpoints and the memory.  It no       *)
(* longer knows what a run may have changed, nor the bytes of a write that *)
(* failed.                                                                 *)
Learn(x) ==
    LET q == dbg.asked
    IN  [dbg EXCEPT !.asked = NoReq,
                    !.wants = IF x.r # "OK" THEN @ ELSE IF q.c = "Z" THEN @ \cup {q.a} ELSE IF q.c = "z" THEN @ \ {q.a} ELSE @,
                    !.mem   = CASE q.c = "m" /\ x.r = "mem" -> x.v @@ @
                                [] q.c = "M" /\ x.r = "OK" -> [a \in Span(q) |-> TOLD] @@ @
                                [] q.c = "M" /\ x.r # "OK" -> Restrict(@, DOMAIN @ \ Span(q))
                                [] q.c \in {"c", "s", "D"} -> <<>>
                                [] OTHER -> @]

Hear ==
    /\ toClient # <<>>
    /\ LET x == Head(toClient)
       IN  \/ x.k = "+" /\ UNCHANGED <<toStub, dbg>>
           \/ x.k = "-" /\ toStub' = toStub \o Wire(dbg.asked, dbg.no, TRUE) /\ UNCHANGED dbg
           \/ x.k = "reply" /\ toStub' = Append(toStub, [k |-> "+"]) /\ dbg' = Learn(x)
    /\ toClient' = Tail(toClient)
    /\ UNCHANGED <<stub, bps, mem, cpu, passed>>

(***************************************************************************)
(* The stub.  get_ch takes a character.                                    *)
(***************************************************************************)
Turn(x) == stub' = [stub EXCEPT !.at = x]

is_bp(a) == \E i \in 1 .. Len(bps) : bps[i] = a

(* The last breakpoint takes the place of the one removed                  *)
removed(a) == IF is_bp(a) THEN LET i == CHOOSE j \in DOMAIN bps : bps[j] = a IN Front([bps EXCEPT ![i] = Last(bps)]) ELSE bps

stop_reply(sig, c) == Say(put_packet(IF c.halted THEN "W" ELSE sig, 0))

(* The machine executes an instruction, which may be a jump or a store     *)
cpu_step(c, m) ==
    IF c.pc = HALT THEN {<<[c EXCEPT !.halted = TRUE], m>>}
    ELSE {<<[c EXCEPT !.pc = q], m>> : q \in Addr}
         \cup {<<[c EXCEPT !.pc = @ + 1], [m EXCEPT ![1] = STORED]>>}

(* M writes byte by byte until one cannot be written                       *)
poked(q) == {a \in Span(q) : q.a .. a \subseteq Mapped}

At(q, c) == IF q.l = 1 THEN [c EXCEPT !.pc = q.a] ELSE c

(* gdb_serve ends when the program does, after a run or a step             *)
Served(c) == Turn(IF c.halted THEN "gone" ELSE "head")

get_packet ==
    /\ stub.at \in {"head", "body", "sum"} /\ toStub # <<>>
    /\ LET c == Head(toStub)
       IN  /\ toStub' = Tail(toStub)
           /\ \/ stub.at = "head" /\ c.k = "$" /\ Turn("body") /\ UNCHANGED toClient
              \/ stub.at = "head" /\ c.k # "$" /\ UNCHANGED <<stub, toClient>>
              \/ stub.at = "body" /\ stub' = [stub EXCEPT !.at = "sum", !.req = c.req, !.no = c.no] /\ UNCHANGED toClient
              \/ stub.at = "sum" /\ c.good /\ Turn("handle") /\ Say(Ack("+"))
              \/ stub.at = "sum" /\ ~c.good /\ Turn("head") /\ Say(Ack("-"))
    /\ UNCHANGED <<bps, mem, cpu, passed, dbg>>

(* A packet that is answered at once                                       *)
handle ==
    LET q == stub.req
    IN  /\ stub.at = "handle" /\ q.c \in {"?", "g", "G", "m", "M", "Z", "z", "Z1", "q", "H"}
        /\ CASE q.c = "?" -> stop_reply("S05", cpu) /\ UNCHANGED <<bps, mem, cpu>>
             [] q.c = "g" -> Say(put_packet("regs", cpu.pc)) /\ UNCHANGED <<bps, mem, cpu>>
             [] q.c = "G" -> cpu' = [cpu EXCEPT !.pc = q.a] /\ Say(put_packet("OK", 0)) /\ UNCHANGED <<bps, mem>>
             [] q.c = "m" -> /\ Say(IF Span(q) \subseteq Mapped THEN put_packet("mem", Restrict(mem, Span(q))) ELSE put_packet("E01", 0))
                             /\ UNCHANGED <<bps, mem, cpu>>
             [] q.c = "M" -> /\ mem' = [a \in poked(q) |-> TOLD] @@ mem
                             /\ Say(put_packet(IF poked(q) = Span(q) THEN "OK" ELSE "E01", 0))
                             /\ UNCHANGED <<bps, cpu>>
             [] q.c = "Z" -> /\ bps' = IF is_bp(q.a) \/ Len(bps) = MAXBP THEN bps ELSE Append(bps, q.a)
                             /\ Say(put_packet(IF ~is_bp(q.a) /\ Len(bps) = MAXBP THEN "E01" ELSE "OK", 0))
                             /\ UNCHANGED <<mem, cpu>>
             [] q.c = "z" -> bps' = removed(q.a) /\ Say(put_packet("OK", 0)) /\ UNCHANGED <<mem, cpu>>
             [] q.c = "H" -> Say(put_packet("OK", 0)) /\ UNCHANGED <<bps, mem, cpu>>
             [] OTHER     -> Say(put_packet("", 0)) /\ UNCHANGED <<bps, mem, cpu>>
        /\ Turn("head")
        /\ UNCHANGED <<toStub, passed, dbg>>

(* s: a step.  c: the first step of a run is taken whatever is set where   *)
(* it begins.                                                              *)
StepOnce ==
    /\ stub.at = "handle" /\ stub.req.c = "s"
    /\ \E x \in cpu_step(At(stub.req, cpu), mem) : cpu' = x[1] /\ mem' = x[2] /\ stop_reply("S05", x[1]) /\ Served(x[1])
    /\ UNCHANGED <<toStub, bps, passed, dbg>>

Continue ==
    /\ stub.at = "handle" /\ stub.req.c = "c"
    /\ \E x \in cpu_step(At(stub.req, cpu), mem) : cpu' = x[1] /\ mem' = x[2]
    /\ stub' = [stub EXCEPT !.at = "run", !.n = 0] /\ passed' = FALSE
    /\ UNCHANGED <<toStub, toClient, bps, dbg>>

(* A character that waits is taken, and is an interrupt or lost            *)
interrupted == toStub # <<>> /\ Head(toStub).k = "^C"

(* Slip: the run goes on after it was interrupted                          *)
goesOn == "run"

afterInterrupt == "head"

(* One turn of the loop of run_cont                                        *)
run_cont ==
    /\ stub.at = "run"
    /\ LET looks == (stub.n + 1) % POLL = 0
       IN  \/ /\ cpu.halted \/ is_bp(cpu.pc)
              /\ stop_reply("S05", cpu) /\ Served(cpu)
              /\ UNCHANGED <<toStub, mem, cpu, passed>>
           \/ /\ ~cpu.halted /\ ~is_bp(cpu.pc) /\ looks /\ interrupted
              /\ stop_reply("S02", cpu) /\ Turn(afterInterrupt) /\ toStub' = Tail(toStub)
              /\ UNCHANGED <<mem, cpu, passed>>
           \/ /\ ~cpu.halted /\ ~is_bp(cpu.pc) /\ ~(looks /\ interrupted)
              /\ \E x \in cpu_step(cpu, mem) : cpu' = x[1] /\ mem' = x[2]
              /\ passed' = (passed \/ cpu.pc \in Range(bps))
              /\ stub' = [stub EXCEPT !.n = (@ + 1) % POLL]
              /\ toStub' = IF looks /\ toStub # <<>> THEN Tail(toStub) ELSE toStub
              /\ UNCHANGED toClient
    /\ UNCHANGED <<bps, dbg>>

(* gdb_serve: k ends the machine, D lets it run by itself to its end       *)
Leave ==
    /\ stub.at = "handle" /\ stub.req.c \in {"k", "D"}
    /\ Turn("gone")
    /\ toClient' = IF stub.req.c = "D" THEN Append(toClient, put_packet("OK", 0)) ELSE toClient
    /\ cpu' = [pc |-> IF stub.req.c = "D" THEN HALT ELSE cpu.pc, halted |-> TRUE]
    /\ mem' \in IF stub.req.c = "D" THEN [Mapped -> {0, TOLD, STORED}] ELSE {mem}
    /\ UNCHANGED <<toStub, bps, passed, dbg>>

GNext ==
    \/ \E r \in Requests : Ask(r)
    \/ Interrupt \/ Hear
    \/ get_packet \/ handle \/ StepOnce \/ Continue \/ run_cont \/ Leave

(***************************************************************************)
(* Properties                                                              *)
(***************************************************************************)
(* A request is in one place: on its way to the stub, being read, being    *)
(* answered, refused, or answered; so it has one answer, and that is the   *)
(* answer the debugger takes it for, even when the interrupt character     *)
(* comes as the program stops by itself (get_packet, run_cont, gdb_serve). *)
OneAnswer ==
    LET asked    == {i \in DOMAIN toStub : toStub[i].k = "$"}
        working  == stub.at \in {"body", "sum", "handle", "run"}
        refused  == {i \in DOMAIN toClient : toClient[i].k = "-"}
        answered == {i \in DOMAIN toClient : toClient[i].k = "reply"}
        places   == Cardinality(asked) + Cardinality(refused) + Cardinality(answered) + (IF working THEN 1 ELSE 0)
    IN  /\ \A i \in answered : toClient[i].no = dbg.no /\ dbg.asked # NoReq
        /\ stub.at # "gone" => places = IF dbg.asked = NoReq THEN 0 ELSE 1

(* A run stops at the first breakpoint it comes to: a reply that the       *)
(* program stopped by itself finds it at one, none was passed on the way,  *)
(* and an interrupt meant for one run does not stop a later one (run_cont, *)
(* interrupted, get_packet).                                               *)
StopsAtFirst ==
    /\ ~passed
    /\ \A i \in DOMAIN toClient :
          toClient[i].k = "reply" /\ dbg.asked.c = "c" =>
              \/ toClient[i].r = "S05" /\ cpu.pc \in dbg.wants
              \/ toClient[i].r = "W" /\ cpu.halted
              \/ toClient[i].r = "S02" /\ dbg.broke

(* Between two requests the table holds the breakpoints the debugger was   *)
(* told are set, each once, also after one was refused because the table   *)
(* is full; and the memory is what the debugger read or was told is        *)
(* written since the program last ran.  Of a write that was refused the    *)
(* first bytes may be written and E01 says nothing of them (gdb.c:188):    *)
(* those it named are excepted, no others change (handle Z, z, m and M).   *)
BreakpointsAgree ==
    dbg.asked = NoReq => /\ Range(bps) = dbg.wants /\ Len(bps) = Cardinality(dbg.wants)
                         /\ \A a \in DOMAIN dbg.mem : mem[a] = dbg.mem[a]

(* The debugger and the stub agree: every request has its one answer, a    *)
(* run stops where it should, and breakpoints and memory are what the      *)
(* debugger was told, but for the bytes of a write that failed             *)
(* (src/gdb.c).                                                            *)
StubAgrees == OneAnswer /\ StopsAtFirst /\ BreakpointsAgree
=============================================================================
