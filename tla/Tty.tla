--------------------------------- MODULE Tty ---------------------------------
(***************************************************************************)
(* The terminals of os/kernel: the line discipline of tty.c under the      *)
(* console, whose keys come through the UART of src/dev.c, and under the   *)
(* pseudo terminals of pty.c.  A stretch of a call between two sleeps is   *)
(* one step.  Keys are "a", "b" (ordinary), "nl", "eof", "erase", "kill"   *)
(* and "intr".  queue, line and held are history: the input as a user      *)
(* thinks of it, finished lines and the line being typed; and whether an   *)
(* interrupt key came after which nobody turned the keyboard on again.     *)
(***************************************************************************)
EXTENDS Integers, Sequences, FiniteSets, FiniteSetsExt, TLC

CONSTANTS Procs,
          NPTY,        \* pairs
          TTYBUF,      \* size of an input ring
          M,           \* 2^32, the range of r, w and e: a multiple of TTYBUF
          OBUF,        \* size of a master's ring
          RXBUF        \* bound: keys that wait in the UART

ASSUME TtyAssumption == M % TTYBUF = 0 /\ M > TTYBUF + 1

VARIABLES term,    \* Tty and Pty of each terminal; 0 is the console
          uart,    \* [rx, ctrl, irq]
          call,    \* what each process does
          sig,     \* processes with a signal pending
          open,    \* ends that each process has open
          who      \* the processes of the session: group, ctty, the signals each
                   \* ignores or blocks (deaf), leader, groups that are orphans

vars == <<term, uart, call, sig, open, who>>

Con   == 0
Ptys  == 1 .. NPTY
Terms == 0 .. NPTY
NoTty == -1

Fresh == [canon |-> TRUE, echo |-> TRUE, isig |-> TRUE, vmin |-> 1, vtime |-> 0,
          buf |-> [i \in 0 .. TTYBUF - 1 |-> "none"], r |-> 0, w |-> 0, e |-> 0,
          pgrp |-> 0, pollers |-> 0, want |-> 0, hold |-> FALSE, hup |-> FALSE,
          used |-> TRUE, master |-> TRUE, slaves |-> 0, opened |-> FALSE, out |-> <<>>,
          queue |-> <<>>, line |-> <<>>, held |-> FALSE]
Unused == [Fresh EXCEPT !.used = FALSE, !.master = FALSE]

(* op: "read", "mread" (of a master) or "poll"; side: "s" or "m"; phase of *)
(* a read: "canon", "wait0" (VMIN 0), "first", "rest"; timer: "none",      *)
(* "set" or "fired"                                                        *)
Idle == [op |-> "none", t |-> 0, side |-> "s", n |-> 0, nb |-> FALSE, phase |-> "canon", min |-> 0,
         have |-> 0, timer |-> "none", asleep |-> FALSE]

(* A session of processes h with foreground group g, 0 for none *)
Begin(g, h) ==
    /\ term = [x \in Terms |-> IF x = Con THEN [Fresh EXCEPT !.pgrp = g] ELSE Unused]
    /\ uart = [rx |-> <<>>, ctrl |-> FALSE, irq |-> FALSE]
    /\ call = [p \in Procs |-> Idle] /\ sig = [p \in Procs |-> FALSE] /\ open = [p \in Procs |-> {}]
    /\ who = h

(* The state of the call under way: m terminals, u UART, c calls, s signals *)
Now == [m |-> term, u |-> uart, c |-> call, s |-> sig]
Become(t) == term' = t.m /\ uart' = t.u /\ call' = t.c /\ sig' = t.s

Least(a, b)     == Min({a, b})
Running(p)      == call[p].op = "none"
Return(t, p)    == [t EXCEPT !.c[p] = Idle, !.s[p] = FALSE]
Diff(a, b)      == (a - b) % M
Ready(m)        == Diff(m.w, m.r)
Range0(m, a, b) == [i \in 1 .. Diff(b, a) |-> m.buf[((a + i - 1) % M) % TTYBUF]]

(***************************************************************************)
(* Sleeping and waking                                                     *)
(***************************************************************************)
(* A sleeper that a signal woke stays on its queue until it runs.          *)
wake(t, op, x) ==
    [t EXCEPT !.c = [p \in Procs |-> IF t.c[p].op = op /\ (op = "poll" \/ t.c[p].t = x) /\ ~t.s[p]
                                     THEN [t.c[p] EXCEPT !.asleep = FALSE] ELSE t.c[p]]]
wakePoll(t)   == wake(t, "poll", Con)
waiters(t, x) == Cardinality({p \in Procs : t.c[p].op = "read" /\ t.c[p].t = x /\ t.c[p].asleep})

(* A signal ends the sleep of a call; a process outside one takes it there *)
signal_group(t, g, s) ==
    [t EXCEPT !.s = [p \in Procs |-> \/ t.s[p]
                                     \/ g # 0 /\ who.group[p] = g /\ s \notin who.deaf[p] /\ t.c[p].op # "none"]]

(***************************************************************************)
(* The UART                                                                *)
(***************************************************************************)
uart_rx_check(u) == IF u.ctrl /\ u.rx # <<>> THEN [u EXCEPT !.irq = TRUE] ELSE u
uart_ctrl(u, on) == uart_rx_check([u EXCEPT !.ctrl = on])
con_getc(u)      == uart_rx_check([u EXCEPT !.rx = Tail(@)])

(* A key is typed on the host *)
Key(c) ==
    /\ Len(uart.rx) < RXBUF
    /\ Become([Now EXCEPT !.u = uart_rx_check([uart EXCEPT !.rx = Append(@, c)])])
    /\ UNCHANGED <<open, who>>

(***************************************************************************)
(* Output and echo                                                         *)
(***************************************************************************)
pty_out(t, x, c) ==
    IF ~t.m[x].master \/ Len(t.m[x].out) >= OBUF THEN t
    ELSE wakePoll(wake([t EXCEPT !.m[x].out = Append(@, c)], "mread", x))

(* What the console prints is not recorded *)
out(t, x, c) == IF x = Con THEN t ELSE pty_out(t, x, c)
echo(t, x, c) == IF t.m[x].echo THEN out(t, x, c) ELSE t

(***************************************************************************)
(* Input                                                                   *)
(***************************************************************************)
commit(t, x) == wakePoll(wake([t EXCEPT !.m[x].w = t.m[x].e], "read", x))

erase_one(t, x) ==
    LET m == t.m[x]
        u == [t EXCEPT !.m[x].e = Diff(@, 1)]
    IN  IF m.e = m.w THEN t
        ELSE IF m.echo THEN out(out(out(u, x, "bs"), x, "sp"), x, "bs") ELSE u

(* The kill character *)
RECURSIVE eraseAll(_, _)
eraseAll(t, x) == IF t.m[x].e = t.m[x].w THEN t ELSE eraseAll(erase_one(t, x), x)

put(t, x, c) == [t EXCEPT !.m[x].buf[t.m[x].e % TTYBUF] = c, !.m[x].e = (@ + 1) % M]

(* No room for an ordinary key of a line *)
lineFull(m, c) == Diff(m.e, m.r) >= TTYBUF - 1 /\ c # "nl"

interrupt(t, x) ==
    wake(signal_group([t EXCEPT !.m[x].hold = TRUE, !.m[x].held = TRUE, !.m[x].e = t.m[x].w], t.m[x].pgrp, "INT"), "read", x)

(* The same input as the user sees it *)
Typed(m, c) ==
    LET n == Len(m.queue) + Len(m.line)
    IN  IF m.isig /\ c = "intr" THEN [m EXCEPT !.line = <<>>]
        ELSE IF ~m.canon THEN IF n >= TTYBUF THEN m ELSE [m EXCEPT !.queue = @ \o m.line \o <<c>>, !.line = <<>>]
        ELSE CASE c = "erase" -> [m EXCEPT !.line = SubSeq(@, 1, Len(@) - 1)]
               [] c = "kill"  -> [m EXCEPT !.line = <<>>]
               [] c \in {"nl", "eof"} -> [m EXCEPT !.queue = @ \o m.line \o <<c>>, !.line = <<>>]
               [] OTHER -> IF n >= TTYBUF - 1 THEN m ELSE [m EXCEPT !.line = Append(@, c)]

tty_input(t0, x, c) ==
    LET m == t0.m[x]
        t == [t0 EXCEPT !.m[x] = Typed(m, c)]
    IN  IF m.isig /\ c = "intr" THEN interrupt(t, x)
        ELSE IF ~m.canon THEN IF Diff(m.e, m.r) >= TTYBUF THEN t ELSE commit(echo(put(t, x, c), x, c), x)
        ELSE CASE c = "erase" -> erase_one(t, x)
               [] c = "kill"  -> eraseAll(t, x)
               [] c = "eof"   -> commit(put(t, x, c), x)
               [] OTHER -> IF lineFull(m, c) THEN t
                           ELSE IF c = "nl" THEN commit(echo(put(t, x, c), x, c), x)
                           ELSE echo(put(t, x, c), x, c)

(***************************************************************************)
(* The console's interrupt                                                 *)
(***************************************************************************)
RECURSIVE console_intr(_)

accepting(t) ==
    LET m == t.m[Con]
    IN  /\ waiters(t, Con) > 0 \/ m.pollers > 0
        /\ ~m.hold
        /\ IF m.canon THEN m.w = m.r ELSE Ready(m) < Max({m.want, 1})

console_intr(t) ==
    IF t.u.rx = <<>> THEN t
    ELSE IF ~accepting(t) THEN [t EXCEPT !.u = uart_ctrl(@, FALSE)]
    ELSE console_intr(tty_input([t EXCEPT !.u = con_getc(@)], Con, Head(t.u.rx)))

(* trap acknowledges the interrupt, then handles it *)
ConsoleIntr ==
    /\ uart.irq
    /\ \E t \in {console_intr([Now EXCEPT !.u.irq = FALSE])} : Become(t)
    /\ UNCHANGED <<open, who>>

RECURSIVE con_pull(_)
con_pull(t) ==
    IF t.u.rx # <<>> /\ Ready(t.m[Con]) < t.m[Con].want
    THEN con_pull(tty_input([t EXCEPT !.u = con_getc(@)], Con, Head(t.u.rx)))
    ELSE t

(***************************************************************************)
(* Reading                                                                 *)
(***************************************************************************)
done_reading(t, x) ==
    LET u == [t EXCEPT !.m[x].want = 0]
    IN  IF x = Con /\ waiters(u, x) = 0 /\ u.m[x].pollers = 0 THEN [u EXCEPT !.u = uart_ctrl(@, FALSE)] ELSE u

finish(t, p, x) == done_reading(Return(t, p), x)

(* Slip: the UART stays off while a reader sleeps *)
sleepsDeaf(t, p, c, ticks) ==
    [t EXCEPT !.c[p] = [c EXCEPT !.asleep = TRUE, !.timer = IF ticks > 0 THEN "set" ELSE "none"],
              !.m[c.t].held = @ /\ t.m[c.t].hold]

(* The sleep of wait_input: enable, then sleep_on *)
sleepOn(t, p, c, ticks) ==
    [t EXCEPT !.c[p] = [c EXCEPT !.asleep = TRUE, !.timer = IF ticks > 0 THEN "set" ELSE "none"],
              !.m[c.t].held = @ /\ t.m[c.t].hold,
              !.u = IF c.t = Con THEN uart_ctrl(@, TRUE) ELSE @]

wait_input(t, p, c, ticks) == IF c.nb THEN finish(t, p, c.t) ELSE sleepOn(t, p, c, ticks)

(* What a read takes: up to the end of a line, or whatever is there *)
upto(m, n, canon) ==
    LET q == Range0(m, m.r, m.w)
        ends == {i \in 1 .. Least(Len(q), n) : q[i] \in {"nl", "eof"}}
    IN  IF canon /\ ends # {} THEN Min(ends) ELSE Least(Len(q), n)

take(t, p, c, canon) ==
    LET k == upto(t.m[c.t], c.n, canon)
    IN  finish([t EXCEPT !.m[c.t].r = (@ + k) % M, !.m[c.t].queue = SubSeq(@, k + 1, Len(@))], p, c.t)

(* The loop of canon_read or raw_read, entered or gone on with *)
RECURSIVE readOn(_, _, _)
readOn(t, p, c) ==
    LET m    == t.m[c.t]
        none == m.r = m.w
        time == c.timer = "fired"
    IN  CASE c.phase = "canon" ->
               IF ~none THEN take(t, p, c, TRUE)
               ELSE IF m.hup THEN finish(t, p, c.t) ELSE wait_input(t, p, c, 0)
          [] c.phase = "wait0" -> IF none /\ ~time THEN wait_input(t, p, c, m.vtime) ELSE take(t, p, c, FALSE)
          [] c.phase = "first" ->
               IF none THEN wait_input(t, p, c, 0)
               ELSE readOn(t, p, [c EXCEPT !.phase = "rest", !.timer = "none"])
          [] c.phase = "rest" ->
               IF Ready(m) >= c.min \/ (time /\ Ready(m) = c.have) \/ c.nb THEN take(t, p, c, FALSE)
               ELSE wait_input(t, p, [c EXCEPT !.have = Ready(m)], m.vtime)

raw_read(t, p, c) ==
    LET m   == t.m[c.t]
        min == Least(m.vmin, c.n)
        u   == [t EXCEPT !.m[c.t].want = IF min > 0 THEN min ELSE 1]
    IN  IF min > 0 THEN readOn(u, p, [c EXCEPT !.phase = "first", !.min = min])
        ELSE IF m.vtime > 0 THEN readOn(u, p, [c EXCEPT !.phase = "wait0"])
        ELSE LET v == IF c.t = Con /\ m.w = m.r THEN con_pull([u EXCEPT !.m[c.t].want = c.n]) ELSE u
             IN  take(v, p, c, FALSE)

(* What a process of a background group gets for using its terminal: an    *)
(* error, or a signal to its group and EINTR.  orphan is given (who).      *)
background_check(m, p, x, s) ==
    IF who.ctty[p] # x \/ m.pgrp = 0 \/ who.group[p] = m.pgrp THEN "go"
    ELSE IF s \in who.deaf[p] THEN IF s = "TTIN" THEN "EIO" ELSE "go"
    ELSE IF who.group[p] \in who.orphans THEN "EIO" ELSE "EINTR"

refused(t, p, r, s) == IF r = "EINTR" THEN Return(signal_group(t, who.group[p], s), p) ELSE Return(t, p)

tty_read(t, p, c) ==
    LET m == t.m[c.t]
        u == [t EXCEPT !.m[c.t].hold = FALSE]
        r == background_check(m, p, c.t, "TTIN")
    IN  IF m.hup /\ m.r = m.w THEN Return(t, p)
        ELSE IF r # "go" THEN refused(t, p, r, "TTIN")
        ELSE IF m.canon THEN readOn(u, p, [c EXCEPT !.phase = "canon"])
        ELSE raw_read(u, p, c)

Has(p, side, x) == Running(p) /\ (x = Con \/ <<side, x>> \in open[p])

Read(p, x, n, nb) ==
    /\ Has(p, "s", x)
    /\ \E t \in {tty_read(Now, p, [Idle EXCEPT !.op = "read", !.t = x, !.n = n, !.nb = nb])} : Become(t)
    /\ UNCHANGED <<open, who>>

(* tty_timeout: the timer of a read goes off *)
Expire(p) ==
    /\ call[p].op = "read" /\ call[p].timer = "set" /\ call[p].asleep
    /\ Become(wake([Now EXCEPT !.c[p].timer = "fired"], "read", call[p].t))
    /\ UNCHANGED <<open, who>>

(***************************************************************************)
(* The master's side                                                       *)
(***************************************************************************)
slavesGone(m) == m.opened /\ m.slaves <= 0

mreadOn(t, p, c) ==
    LET m == t.m[c.t]
    IN  IF m.out # <<>> THEN Return([t EXCEPT !.m[c.t].out = SubSeq(@, c.n + 1, Len(@))], p)
        ELSE IF slavesGone(m) \/ c.nb THEN Return(t, p)
        ELSE [t EXCEPT !.c[p] = [c EXCEPT !.asleep = TRUE]]

MasterRead(p, x, n, nb) ==
    /\ Has(p, "m", x) /\ x # Con
    /\ Become(mreadOn(Now, p, [Idle EXCEPT !.op = "mread", !.t = x, !.n = n, !.nb = nb, !.side = "m"]))
    /\ UNCHANGED <<open, who>>

MasterWrite(p, x, c) ==
    /\ Has(p, "m", x) /\ x # Con
    /\ \E t \in {tty_input(Now, x, c)} : Become(t)
    /\ UNCHANGED <<open, who>>

SlaveWrite(p, x, c) ==
    /\ Has(p, "s", x) /\ x # Con /\ term[x].master
    /\ Become(pty_out(Now, x, c))
    /\ UNCHANGED <<open, who>>

(* Open of /dev/ptmx takes the first unused pair *)
OpenMaster(p) ==
    LET free == {x \in Ptys : ~term[x].used}
        x    == Min(free)
    IN  /\ Running(p) /\ free # {}
        /\ term' = [term EXCEPT ![x] = Fresh]
        /\ open' = [open EXCEPT ![p] = @ \cup {<<"m", x>>}]
        /\ UNCHANGED <<uart, call, sig, who>>

OpenSlave(p, x) ==
    /\ Running(p) /\ term[x].used /\ term[x].master /\ <<"s", x>> \notin open[p]
    /\ term' = [term EXCEPT ![x].slaves = @ + 1, ![x].opened = TRUE]
    /\ open' = [open EXCEPT ![p] = @ \cup {<<"s", x>>}]
    /\ UNCHANGED <<uart, call, sig, who>>

freed(t, x) == [t EXCEPT !.m[x].used = t.m[x].master \/ t.m[x].slaves > 0]
detached(t, x) == [p \in Procs |-> IF who.ctty[p] = x /\ ~t.m[x].used THEN NoTty ELSE who.ctty[p]]

closeSlave(t, x) == wakePoll(wake([t EXCEPT !.m[x].slaves = @ - 1], "mread", x))

closeMaster(t, x) ==
    LET u == [t EXCEPT !.m[x].master = FALSE, !.m[x].hup = TRUE]
    IN  wakePoll(wake(signal_group(u, t.m[x].pgrp, "HUP"), "read", x))

pty_close(p, side, x) ==
    /\ Running(p) /\ <<side, x>> \in open[p]
    /\ LET t == IF side = "m" THEN closeMaster(Now, x) ELSE closeSlave(Now, x)
       IN  Become(freed(t, x)) /\ who' = [who EXCEPT !.ctty = detached(freed(t, x), x)]
    /\ open' = [open EXCEPT ![p] = @ \ {<<side, x>>}]

(***************************************************************************)
(* Poll, settings, the foreground group                                    *)
(***************************************************************************)
(* tty_poll and pty_poll: something to read *)
polled(m, c) ==
    IF c.side = "m" THEN m.out # <<>> \/ slavesGone(m) ELSE m.r # m.w \/ (c.t # Con /\ m.hup)

console_poll_hold(t, on) ==
    IF on THEN [t EXCEPT !.m[Con].hold = FALSE, !.m[Con].held = FALSE, !.m[Con].pollers = @ + 1, !.u = uart_ctrl(@, TRUE)]
    ELSE [t EXCEPT !.m[Con].pollers = IF @ > 0 THEN @ - 1 ELSE 0]

pollOn(t, p, c) ==
    IF polled(t.m[c.t], c) \/ t.s[p] THEN Return(t, p)
    ELSE LET u == IF c.t = Con THEN console_poll_hold(t, TRUE) ELSE t
         IN  [u EXCEPT !.c[p] = [c EXCEPT !.asleep = TRUE]]

Poll(p, side, x) ==
    /\ Has(p, side, x) /\ (x = Con => side = "s")
    /\ Become(pollOn(Now, p, [Idle EXCEPT !.op = "poll", !.t = x, !.side = side]))
    /\ UNCHANGED <<open, who>>

(* tty_setterm, by TCSETS or a control message; Typed keeps its own lines *)
tty_setterm(m, s) ==
    LET c == m.canon /\ ~s.canon
    IN  [m EXCEPT !.canon = s.canon, !.echo = s.echo, !.vmin = s.vmin, !.vtime = s.vtime,
                  !.w = IF c THEN m.e ELSE @,
                  !.queue = IF c THEN @ \o m.line ELSE @, !.line = IF c THEN <<>> ELSE @]

SetTerm(p, x, s) ==
    LET r == background_check(term[x], p, x, "TTOU")
    IN  /\ Has(p, "s", x)
        /\ Become(IF r = "go" THEN [Now EXCEPT !.m[x] = tty_setterm(@, s)] ELSE refused(Now, p, r, "TTOU"))
        /\ UNCHANGED <<open, who>>

(* TIOCSPGRP: g is a group of the session, as all are here *)
SetPgrp(p, x, g) ==
    LET r == background_check(term[x], p, x, "TTOU")
    IN  /\ Has(p, "s", x) /\ who.ctty[p] = x
        /\ \E q \in Procs : who.group[q] = g
        /\ Become(IF r = "go" THEN [Now EXCEPT !.m[x].pgrp = g] ELSE refused(Now, p, r, "TTOU"))
        /\ UNCHANGED <<open, who>>

(* TIOCSCTTY, by the leader of the only session *)
Attach(p, x) ==
    /\ Has(p, "s", x) /\ p = who.leader /\ who.ctty[p] = NoTty
    /\ term' = [term EXCEPT ![x].pgrp = who.group[p]]
    /\ who' = [who EXCEPT !.ctty[p] = x]
    /\ UNCHANGED <<uart, call, sig, open>>

(***************************************************************************)
(* A process that was woken goes on                                        *)
(***************************************************************************)
resumed(t, p) ==
    LET c == [t.c[p] EXCEPT !.asleep = FALSE]
        u == [t EXCEPT !.c[p] = c]
    IN  CASE c.op = "read"  -> IF t.s[p] THEN finish(u, p, c.t) ELSE readOn(u, p, c)
          [] c.op = "mread" -> IF t.s[p] /\ t.m[c.t].out = <<>> THEN Return(u, p) ELSE mreadOn(u, p, c)
          [] c.op = "poll"  -> pollOn(IF c.t = Con THEN console_poll_hold(u, FALSE) ELSE u, p, c)

Resume(p) ==
    /\ ~Running(p) /\ (~call[p].asleep \/ sig[p])
    /\ \E t \in {resumed(Now, p)} : Become(t)
    /\ UNCHANGED <<open, who>>

(***************************************************************************)
(* What holds                                                              *)
(***************************************************************************)
(* Every terminal, call and ring is well formed; keys that were taken fit  *)
(* in the ring.                                                            *)
TypeOK ==
    /\ \A x \in Terms :
         /\ {term[x].r, term[x].w, term[x].e} \subseteq 0 .. M - 1 /\ Diff(term[x].e, term[x].r) <= TTYBUF
         /\ Ready(term[x]) <= Diff(term[x].e, term[x].r)
         /\ Len(term[x].out) <= OBUF /\ term[x].slaves \in 0 .. Cardinality(Procs)
    /\ uart.ctrl \in BOOLEAN /\ uart.irq \in BOOLEAN
    /\ \A p \in Procs : call[p].op \in {"none", "read", "mread", "poll"} /\ (Running(p) => call[p] = Idle /\ ~sig[p])

(* The ring with its three counters, which wrap, is the input as it was    *)
(* typed and corrected: finished lines in order, then the line being       *)
(* typed, through erasing, interrupts, mode changes and partial reads.     *)
InputInOrder ==
    \A x \in Terms : /\ Range0(term[x], term[x].r, term[x].w) = term[x].queue
                     /\ Range0(term[x], term[x].w, term[x].e) = term[x].line

(* Nobody sleeps in a call that could go on: commit, close and the timer   *)
(* wake whoever waits for them.  (A raw read does not look at hup.)        *)
SleepersWait ==
    \A p \in Procs : call[p].asleep /\ ~sig[p] =>
        LET c == call[p]
            m == term[c.t]
        IN  CASE c.op = "read"  -> /\ c.timer # "fired"
                                   /\ IF c.phase = "rest" THEN Ready(m) < c.min
                                      ELSE m.r = m.w /\ (c.phase = "canon" => ~m.hup)
              [] c.op = "mread" -> m.out = <<>> /\ ~slavesGone(m)
              [] c.op = "poll"  -> ~polled(m, c)

(* The interrupt key's signal does not reach p                             *)
Unmoved(p) == who.group[p] # term[Con].pgrp \/ "INT" \in who.deaf[p]

(* The kernel takes input while a program reads or polls the console: when *)
(* a process sleeps there and keys wait in the UART, its interrupt is      *)
(* coming.  The exception: a sleeper whom the interrupt key's signal does  *)
(* not reach sleeps on, and the keys after that key wait until somebody    *)
(* begins to wait anew (hold, tty.c:60, 74; the shell ignores the signal). *)
KeysComing ==
    \A p \in Procs :
        call[p].op \in {"read", "poll"} /\ call[p].t = Con /\ call[p].asleep /\ ~sig[p] /\ uart.rx # <<>>
        => uart.irq \/ (term[Con].held /\ Unmoved(p))

(* The console takes keys only for somebody who reads or polls, and after  *)
(* an interrupt key none before somebody asks again; or for a read that    *)
(* takes what has arrived.                                                 *)
TakenOnlyWanted ==
    [][Len(uart'.rx) < Len(uart.rx) =>
          LET m == term[Con]
          IN  \/ ~m.hold /\ \E p \in Procs : call[p].op \in {"read", "poll"} /\ call[p].t = Con
              \/ ~m.canon /\ m.vmin = 0 /\ m.vtime = 0]_vars

(* pollers says how many polls wait at the console, however they end       *)
PollersCounted ==
    term[Con].pollers = Cardinality({p \in Procs : call[p].op = "poll" /\ call[p].t = Con})

(* A pair is in use exactly while one of its ends is open, so no file      *)
(* refers to a pair that another program opened; its counts are right.     *)
PairsHeld ==
    \A x \in Ptys :
        LET of(side) == {p \in Procs : <<side, x>> \in open[p]}
        IN  /\ term[x].used <=> of("m") \cup of("s") # {}
            /\ term[x].used => term[x].slaves = Cardinality(of("s")) /\ (term[x].master <=> of("m") # {})

(* A terminal's input is read in order, as it was corrected; a key is      *)
(* taken from the keyboard when somebody wants it and only then, save      *)
(* those held back behind an interrupt key (KeysComing); and nobody sleeps *)
(* on input that is there (tty.c).                                         *)
TtySound ==
    /\ [](TypeOK /\ InputInOrder /\ SleepersWait /\ KeysComing /\ PollersCounted /\ PairsHeld)
    /\ TakenOnlyWanted

------------------------------------------------------------------------------
(* Small instances of Tty for TLC.  The programs do one of several kinds   *)
(* of work, which the initial state chooses.                               *)

CONSTANTS Loads, P1, P2

VARIABLES load, keys    \* keys typed so far

(* Two jobs, of which the first is the leader's: programs that a signal    *)
(* ends or stops, the second perhaps an orphan; a shell and a program that *)
(* ignores the signals of background jobs; one group without a terminal.   *)
Jobs == [group |-> (P1 :> 1) @@ (P2 :> 2), ctty |-> [p \in Procs |-> Con], deaf |-> [p \in Procs |-> {}],
         leader |-> P1, orphans |-> {}]
Orphan == [Jobs EXCEPT !.orphans = {2}]
Shell  == [Jobs EXCEPT !.deaf = (P1 :> {"INT", "TTIN", "TTOU"}) @@ (P2 :> {"TTIN", "TTOU"})]
Pair   == [Jobs EXCEPT !.group = [p \in Procs |-> 2]]
Loose  == [Jobs EXCEPT !.ctty = [p \in Procs |-> NoTty]]

(* does: what the programs do; keys: what is typed, and how many; n: sizes *)
(* of reads; nb: calls that do not sleep; modes: settings; pgrp: the       *)
(* console's foreground group; who: the sessions                           *)
Mode(canon, echoes, vmin, vtime) == [canon |-> canon, echo |-> echoes, vmin |-> vmin, vtime |-> vtime]
Cooked == Mode(TRUE, TRUE, 1, 0)
Base == [does |-> {"read"}, at |-> {Con}, keys |-> {"a", "nl"}, max |-> 4, n |-> {1, 4},
         nb |-> {FALSE}, modes |-> {Cooked}, pgrp |-> 0, who |-> {Jobs}]
Work ==
    [con  |-> [Base EXCEPT !.does = {"read", "poll"}, !.keys = {"a", "nl", "eof"}],
     intr |-> [Base EXCEPT !.does = {"read", "poll"}, !.keys = {"a", "nl", "intr"}, !.pgrp = 1, !.max = 5,
                           !.who = {Jobs, Shell, Pair}],
     edit |-> [Base EXCEPT !.keys = {"a", "b", "nl", "eof", "erase", "kill", "intr"}, !.max = 6, !.pgrp = 1],
     raw  |-> [Base EXCEPT !.does = {"read", "poll", "set"}, !.pgrp = 1, !.keys = {"a", "intr"}, !.n = {2}, !.who = {Jobs, Orphan, Shell, Pair},
                           !.nb = BOOLEAN, !.modes = {Cooked} \cup {Mode(FALSE, FALSE, n, t) : n \in {0, 2}, t \in {0, 1}}],
     pty  |-> [Base EXCEPT !.does = {"read", "poll", "open", "close", "mread", "mwrite", "swrite"}, !.at = Ptys,
                           !.keys = {"a", "nl"}, !.max = 3, !.nb = BOOLEAN, !.n = {1}, !.who = {Loose}],
     rawpty |-> [Base EXCEPT !.does = {"read", "set", "open", "close", "mwrite", "pgrp"}, !.at = Ptys,
                           !.keys = {"a", "erase", "intr"}, !.max = 3, !.n = {2}, !.who = {Loose},
                           !.modes = {Cooked, Mode(FALSE, TRUE, 1, 0), Mode(FALSE, FALSE, 2, 1)}]]

Does(d) == d \in Work[load].does
At(x)   == x \in Work[load].at

(* Settings change while nobody waits: the line that becomes input (tty.c: *)
(* 379) wakes nobody, and a sleeping reader goes on in the old mode.       *)
Quiet(x) == \A p \in Procs : call[p].op \in {"read", "poll"} => call[p].t # x

(* Line ends come while the ring has room (tty.c:90 lets them in without)  *)
Fits(x, c) == c \in {"nl", "eof"} => Diff(term[x].e, term[x].r) < TTYBUF

Program(p) ==
    \/ \E x \in Work[load].at :
         \/ Does("read") /\ \E n \in Work[load].n, nb \in Work[load].nb : Read(p, x, n, nb)
         \/ Does("poll") /\ \E side \in {"s", "m"} : Poll(p, side, x)
         \/ Does("set") /\ Quiet(x) /\ \E m \in Work[load].modes : SetTerm(p, x, m)
         \/ Does("pgrp") /\ (Attach(p, x) \/ \E g \in {1, 2} : SetPgrp(p, x, g))
         \/ Does("mread") /\ \E nb \in Work[load].nb : MasterRead(p, x, 2, nb)
         \/ Does("swrite") /\ keys < Work[load].max /\ SlaveWrite(p, x, "b")
         \/ Does("open") /\ x \in Ptys /\ (OpenMaster(p) \/ OpenSlave(p, x))
         \/ Does("close") /\ \E side \in {"s", "m"} : pty_close(p, side, x)
    \/ Resume(p) \/ Expire(p)

MCInit ==
    /\ load \in Loads /\ keys = 0 /\ \E h \in Work[load].who : Begin(Work[load].pgrp, h)
MCNext ==
    /\ \/ (ConsoleIntr \/ \E p \in Procs : Program(p)) /\ UNCHANGED keys
       \/ /\ keys < Work[load].max /\ keys' = keys + 1
          /\ \E c \in Work[load].keys :
               \/ At(Con) /\ Key(c)
               \/ Does("mwrite") /\ \E p \in Procs, x \in Ptys : Fits(x, c) /\ MasterWrite(p, x, c)
    /\ UNCHANGED load

MCSpec == MCInit /\ [][MCNext]_<<vars, load, keys>>
==============================================================================
