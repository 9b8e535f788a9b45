------------------------------- MODULE Devices -------------------------------
(***************************************************************************)
(* The devices of the emulated machine that keep time or raise interrupts  *)
(* (src/dev.c, the transmitter of src/net.c) as the processor and the      *)
(* kernel use them: the interrupt controller, the timer, the serial line   *)
(* with its ring, two disks and the transmitter.  Time is the number of    *)
(* instructions executed.  Devices do nothing by themselves: the processor *)
(* calls dev_events when the count reaches dev_next, and WFI moves the     *)
(* count forward.                                                          *)
(*                                                                         *)
(* dv is the state of the devices, md what the processor does with them,   *)
(* ideal a timer that is advanced at every instruction, for comparison.    *)
(* late and raises in the timer are for the properties as well.            *)
(***************************************************************************)
EXTENDS Integers, Sequences, FiniteSets, FiniteSetsExt

CONSTANTS POLL_INTERVAL, RXBUF, DISK_DELAY, NSEC, ILIMIT, TXTIME

VARIABLES dv, md, ideal

dvars == <<dv, md, ideal>>

TIMER == 0
UART_RX == 1
IRQ_DISK(u) == IF u = 0 THEN 3 ELSE 6
NET == 5
Never == ILIMIT * 10

Timer0 == [count |-> 0, period |-> 0, on |-> FALSE, pre |-> 2, frac |-> 0, phase |-> 0, last |-> 0, raises |-> 0, late |-> 0]
Disk0  == [sector |-> 0, count |-> 0, cmd |-> 0, busy |-> FALSE, res |-> "none", done |-> 0]
Ideal0 == [count |-> 0, frac |-> 0, phase |-> 0, periods |-> 0]

Dv0(typed) ==
    [ic |-> 0, next |-> 0, pend |-> {}, mask |-> {}, t |-> Timer0, uc |-> FALSE,
     rxbuf |-> [i \in 0 .. RXBUF - 1 |-> 0], head |-> 0, tail |-> 0, later |-> typed, host |-> <<>>, eof |-> FALSE, heard |-> 0,
     disk |-> [u \in {0, 1} |-> Disk0], tx |-> [pending |-> FALSE, done |-> 0, irq |-> TRUE],
     poll_at |-> POLL_INTERVAL, halted |-> "no"]

(***************************************************************************)
(* The interrupt controller and the timer                                  *)
(***************************************************************************)
pic_raise(d, line) == [d EXCEPT !.pend = @ \cup {line}]
Enabled(d) == d.pend \cap d.mask

frac_of(tot, pre) == tot % pre

timer_sync(d) ==
    LET t    == d.t
        tot  == t.frac + d.ic - t.last
        tk   == tot \div t.pre
        ph   == t.phase + tk
        runs == t.on /\ t.period > 0
        raise(e) == pic_raise([e EXCEPT !.t.raises = @ + 1, !.t.late = e.t.phase * t.pre + e.t.frac], TIMER)
        e    == [d EXCEPT !.t = [t EXCEPT !.last = d.ic, !.frac = frac_of(tot, t.pre), !.count = @ + tk,
                                          !.phase = IF runs THEN ph % t.period ELSE @]]
    IN  IF runs /\ ph >= t.period THEN raise(e) ELSE e

timer_next(d) ==
    IF ~d.t.on \/ d.t.period = 0 THEN Never ELSE d.ic + ((d.t.period - d.t.phase) * d.t.pre) - d.t.frac

timer_wr(d, reg, v) ==
    LET set(e) == CASE reg = "period" -> [e EXCEPT !.t.period = v, !.t.phase = 0]
                    [] reg = "ctrl"   -> [e EXCEPT !.t.on = v = 1, !.t.phase = 0]
                    [] reg = "prescale" -> [e EXCEPT !.t.pre = IF v = 0 THEN 1 ELSE v]
    IN  set([timer_sync(d) EXCEPT !.next = d.ic])

(***************************************************************************)
(* The serial line: bytes are numbered in the order they are typed         *)
(***************************************************************************)
room(d) == (d.tail + 1) % RXBUF # d.head

advance(i) == (i + 1) % RXBUF

con_avail(d) == d.head # d.tail

uart_rx_check(d) == IF d.uc /\ con_avail(d) THEN pic_raise(d, UART_RX) ELSE d

RECURSIVE takeBytes(_)
takeBytes(d) ==
    IF ~room(d) THEN d
    ELSE IF d.host = <<>> THEN d
    ELSE IF Head(d.host) = 0 THEN [d EXCEPT !.eof = TRUE]
    ELSE takeBytes([d EXCEPT !.rxbuf[d.tail] = Head(d.host), !.tail = advance(@), !.host = Tail(@)])

stdin_poll(d) ==
    IF d.eof THEN d
    ELSE LET check(e) == IF e.tail # d.tail THEN uart_rx_check(e) ELSE e IN check(takeBytes(d))

con_getc(d) ==
    IF ~con_avail(d) THEN d
    ELSE uart_rx_check([d EXCEPT !.heard = d.rxbuf[d.head], !.head = advance(@)])

uart_ctrl(d, on) == uart_rx_check([d EXCEPT !.uc = on])

(***************************************************************************)
(* The disks and the transmitter                                           *)
(***************************************************************************)
disk_complete(d, u) ==
    LET k == d.disk[u]
    IN  pic_raise([d EXCEPT !.disk[u] = [k EXCEPT !.busy = FALSE, !.cmd = 0,
                                         !.res = IF k.sector + k.count > NSEC THEN "error" ELSE "done"]], IRQ_DISK(u))

disk_cmd(d, u, v) ==
    LET k == d.disk[u] IN
    IF k.busy THEN d
    ELSE [d EXCEPT !.disk[u] = [k EXCEPT !.cmd = v, !.busy = TRUE, !.res = "none", !.done = d.ic + (DISK_DELAY * k.count)],
                   !.next = d.ic]

net_next(d) == IF d.tx.pending THEN d.tx.done ELSE Never

net_events(d) ==
    IF d.tx.pending /\ d.ic >= d.tx.done
    THEN LET e == [d EXCEPT !.tx.pending = FALSE] IN IF d.tx.irq THEN pic_raise(e, NET) ELSE e
    ELSE d

(***************************************************************************)
(* The schedule of the devices                                             *)
(***************************************************************************)
(* Slip: the second disk is forgotten                                      *)
oneDisk(d) ==
    [d EXCEPT !.next = Min({d.poll_at, ILIMIT, timer_next(d), net_next(d)} \cup {d.disk[u].done : u \in {x \in {0} : d.disk[x].busy}})]

schedule(d) ==
    [d EXCEPT !.next = Min({d.poll_at, ILIMIT, timer_next(d), net_next(d)}
                           \cup {d.disk[u].done : u \in {x \in {0, 1} : d.disk[x].busy}})]

net_send(d) ==
    IF d.tx.pending THEN d ELSE schedule([d EXCEPT !.tx.pending = TRUE, !.tx.done = d.ic + TXTIME])

dev_events(d) ==
    IF d.ic >= ILIMIT THEN [d EXCEPT !.halted = "limit"]
    ELSE LET disk(e, u) == IF e.disk[u].busy /\ e.ic >= e.disk[u].done THEN disk_complete(e, u) ELSE e
             poll(e) == IF e.ic >= e.poll_at THEN [stdin_poll(e) EXCEPT !.poll_at = e.ic + POLL_INTERVAL] ELSE e
         IN  schedule(poll(disk(disk(net_events(timer_sync(d)), 0), 1)))

input_wait_possible(d) == ~d.eof /\ d.uc /\ UART_RX \in d.mask

wfi_until(d) ==
    Min({Never} \cup (IF TIMER \in d.mask THEN {timer_next(d)} ELSE {})
        \cup {d.disk[u].done : u \in {x \in {0, 1} : d.disk[x].busy /\ IRQ_DISK(x) \in d.mask}}
        \cup (IF NET \in d.mask THEN {net_next(d)} ELSE {}))

(***************************************************************************)
(* An instruction, with what it does to a register; the ideal timer sees   *)
(* the same registers                                                      *)
(***************************************************************************)
OneTick(g, t) ==
    LET tk == (g.frac + 1) \div t.pre
        ph == g.phase + tk
        runs == t.on /\ t.period > 0
    IN  [count |-> g.count + tk, frac |-> (g.frac + 1) % t.pre, phase |-> IF runs THEN ph % t.period ELSE g.phase,
         periods |-> g.periods + IF runs THEN ph \div t.period ELSE 0]

RECURSIVE Elapse(_, _, _)
Elapse(g, t, n) == IF n = 0 THEN g ELSE Elapse(OneTick(g, t), t, n - 1)

Current == IF dv.ic >= dv.next THEN dev_events(dv) ELSE dv

step_one(e, x) ==
    IF e.halted # "no" THEN dv' = e /\ UNCHANGED ideal
    ELSE /\ dv' = [x EXCEPT !.ic = @ + 1]
         /\ ideal' = Elapse(IF x.t.period # e.t.period \/ x.t.on # e.t.on THEN [ideal EXCEPT !.phase = 0] ELSE ideal, x.t, 1)

Runs == md = "run" /\ dv.halted = "no"

Compute == Runs /\ UNCHANGED md /\ \E e \in {Current} : step_one(e, e)

TimerRead == Runs /\ UNCHANGED md /\ \E e \in {Current} : step_one(e, timer_sync(e))

TimerWrite ==
    /\ Runs /\ UNCHANGED md
    /\ \E e \in {Current}, p \in {<<"period", 2>>, <<"ctrl", 1>>, <<"ctrl", 0>>, <<"prescale", 0>>, <<"prescale", 2>>} :
          dv.t.on = (p = <<"ctrl", 0>>) /\ step_one(e, timer_wr(e, p[1], p[2]))

PicMask ==
    /\ Runs /\ dv.mask = {} /\ UNCHANGED md
    /\ \E e \in {Current}, m \in {{TIMER, UART_RX, NET}, {TIMER, UART_RX, NET, 3, 6}, {UART_RX}} :
          step_one(e, [e EXCEPT !.mask = m])

UartCtrl == Runs /\ UNCHANGED md /\ \E e \in {Current}, on \in BOOLEAN : dv.uc # on /\ step_one(e, uart_ctrl(e, on))

DiskStart ==
    /\ Runs /\ UNCHANGED md
    /\ \E e \in {Current}, u \in {0, 1}, n \in 0 .. NSEC + 1 :
          step_one(e, disk_cmd([e EXCEPT !.disk[u].count = IF @ = 0 THEN n ELSE @], u, 1))

DiskClear ==
    /\ Runs /\ UNCHANGED md
    /\ \E e \in {Current}, u \in {0, 1} :
          dv.disk[u].res # "none" /\ step_one(e, [e EXCEPT !.disk[u].res = "none", !.disk[u].count = 0])

NetSend == Runs /\ UNCHANGED md /\ \E e \in {Current} : step_one(e, net_send(e))

(* The kernel acknowledges first; on the serial line it then reads until   *)
(* nothing waits, or stops the interrupt and leaves the rest               *)
RECURSIVE console_intr(_, _)
console_intr(d, n) ==
    IF ~con_avail(d) THEN d ELSE IF n = 0 THEN uart_ctrl(d, FALSE) ELSE console_intr(con_getc(d), n - 1)

Interrupt ==
    /\ Runs /\ Enabled(dv) # {} /\ UNCHANGED md
    /\ \E e \in {Current}, line \in {Min(Enabled(dv))}, n \in 0 .. RXBUF :
          LET ack == [e EXCEPT !.pend = @ \ {line}]
          IN  (n > 0 => line = UART_RX) /\ step_one(e, IF line = UART_RX THEN console_intr(ack, n) ELSE ack)

(* Somebody types; a zero is the end of the input                          *)
Type == /\ dv.later # <<>>
        /\ dv' = [dv EXCEPT !.host = Append(@, Head(dv.later)), !.later = Tail(@)]
        /\ UNCHANGED <<md, ideal>>

(* A reader takes a byte without waiting for the interrupt                 *)
Pull == Runs /\ con_avail(dv) /\ UNCHANGED md /\ \E e \in {Current} : step_one(e, con_getc(e))

WfiBegin ==
    /\ Runs
    /\ LET wait(e) == dv' = e /\ md' = (IF e.halted = "no" THEN "wfi" ELSE md) /\ UNCHANGED ideal IN wait(Current)

WfiStep ==
    /\ md = "wfi" /\ dv.halted = "no"
    /\ IF Enabled(dv) # {} THEN /\ md' = "run" /\ dv' = [dv EXCEPT !.ic = @ + 1]
                                /\ ideal' = Elapse(ideal, dv.t, 1)
       ELSE LET inp == input_wait_possible(dv)
                reach(b) == dv' = dev_events(b) /\ ideal' = Elapse(ideal, dv.t, b.ic - dv.ic)
                wait(a, t) == IF Enabled(a) # {} \/ t = Never THEN dv' = a /\ UNCHANGED ideal
                              ELSE IF t >= ILIMIT THEN /\ dv' = [a EXCEPT !.ic = ILIMIT - 1, !.halted = "limit"]
                                                       /\ ideal' = Elapse(ideal, dv.t, ILIMIT - 1 - dv.ic)
                              ELSE reach([a EXCEPT !.ic = IF t > @ THEN t ELSE @])
                until(t) == IF t = Never /\ ~inp THEN dv' = [dv EXCEPT !.halted = "deadlock"] /\ UNCHANGED <<md, ideal>>
                            ELSE /\ inp /\ t = Never => dv.host # <<>>
                                 /\ md' = md
                                 /\ wait(IF inp THEN stdin_poll(dv) ELSE dv, t)
            IN  until(wfi_until(dv))

------------------------------------------------------------------------------
(***************************************************************************)
(* A guest that uses some of the devices in any order for ILIMIT           *)
(* instructions while somebody types.                                      *)
(***************************************************************************)

CONSTANTS Uses

VARIABLE uses

DevInit == /\ uses \in Uses
           /\ \E h \in IF "uart" \in uses THEN {<<1, 2, 3, 4>>, <<1, 0>>} ELSE {<<>>} : dv = Dv0(h)
           /\ md = "run" /\ ideal = Ideal0
DevNext == /\ \/ Compute \/ PicMask \/ Interrupt \/ WfiBegin \/ WfiStep
              \/ "timer" \in uses /\ (TimerRead \/ TimerWrite)
              \/ "uart" \in uses /\ (UartCtrl \/ Pull \/ Type)
              \/ "disk" \in uses /\ (DiskStart \/ DiskClear)
              \/ "net" \in uses /\ NetSend
           /\ UNCHANGED uses
DevSpec == DevInit /\ [][DevNext]_<<dvars, uses>>

Ring(d) == {d.rxbuf[(d.head + i) % RXBUF] : i \in 0 .. ((d.tail - d.head) % RXBUF) - 1}

(***************************************************************************)
(* Properties                                                              *)
(***************************************************************************)
(* The fields have their ranges and the phase is within a period.          *)
DevTypeOK ==
    /\ dv.ic \in 0 .. ILIMIT /\ dv.pend \subseteq {0, 1, 3, 5, 6} /\ dv.head \in 0 .. RXBUF - 1 /\ dv.tail \in 0 .. RXBUF - 1
    /\ dv.t.period > 0 => dv.t.phase < dv.t.period
    /\ dv.halted \in {"no", "limit", "deadlock"} /\ md \in {"run", "wfi"}

(* No event of a disk or of the transmitter, no poll of the host and not   *)
(* the limit is passed: dev_next is no later than any of them unless it is *)
(* due already (schedule after every change; a command and a register set  *)
(* dev_next to now).                                                       *)
NothingLate ==
    \A t \in {dv.poll_at, ILIMIT, net_next(dv)} \cup {dv.disk[u].done : u \in {x \in {0, 1} : dv.disk[x].busy}} :
        dv.next <= t \/ dv.next <= dv.ic

(* The timer is brought up to date now and then, by an event, a read or a  *)
(* write; it then is what a timer that counts every instruction is: its    *)
(* count, its fraction of a tick and its phase (timer_sync).               *)
LazyTimer ==
    LET same(s) == s.count = ideal.count /\ s.frac = ideal.frac /\ (s.on => s.phase = ideal.phase) IN same(timer_sync(dv).t)

(* No tick is lost where the kernel keeps the timer's line enabled and a   *)
(* period is longer than the poll of the host: whenever the timer has been *)
(* brought up to date it has raised its line once for every period that    *)
(* ended, however WFI moved the count (the kernel counts its ticks by the  *)
(* interrupts), and never later than a poll interval after the end.        *)
TicksRaised == (dv.t.last = dv.ic => dv.t.raises = ideal.periods) /\ dv.t.late <= POLL_INTERVAL

(* What is typed is heard: bytes are read in the order they were typed,    *)
(* each once, and while a byte waits with the receive interrupt on, the    *)
(* line is pending; nobody waits for input that is there (stdin_poll,      *)
(* con_getc and uart_wr raise it again after an acknowledgement).          *)
ConsoleHeard ==
    /\ dv.uc /\ con_avail(dv) => UART_RX \in dv.pend
    /\ Ring(dv) = dv.heard + 1 .. dv.heard + ((dv.tail - dv.head) % RXBUF)
    /\ dv.host # <<>> /\ Head(dv.host) # 0 => Head(dv.host) = dv.heard + ((dv.tail - dv.head) % RXBUF) + 1

(* Device time kept lazily is device time: no event is passed, the timer   *)
(* counts as if it counted every instruction and loses no tick, and keys   *)
(* are heard in order (dev.c schedule, timer_sync, dev_poll, dev_wfi).     *)
EventsKept == DevTypeOK /\ NothingLate /\ LazyTimer /\ TicksRaised /\ ConsoleHeard

(* Every PERIOD ticks the timer raises its line, not later                 *)
(* (readme.md: "raises line 0 every PERIOD ticks"): when it is raised no   *)
(* instruction has been counted since the end of the period.               *)
TimerOnTime == dv.t.late = 0
==============================================================================
