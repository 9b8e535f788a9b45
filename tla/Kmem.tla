-------------------------------- MODULE Kmem ---------------------------------
(***************************************************************************)
(* Kernel timers (os/kernel/kmem.c) and the calls that wait with one:      *)
(* sleep (proc.c), poll (file.c), and a wait for a terminal's input        *)
(* (tty.c) or for a socket (sock.c), which do the same; and the alarm      *)
(* (signal.c).  A slot is free as soon as its timer has fired, while the   *)
(* call that armed it still holds its number.                              *)
(*                                                                         *)
(* ticks counts modulo TICKS and a wait is at most half of that.           *)
(***************************************************************************)
EXTENDS Integers, FiniteSets, Sequences

CONSTANTS NTIMER, TICKS, Waiters, Delays

VARIABLES ticks, ktimers, calls

Kinds == {"sleep", "poll", "wait"}
Slots == 1 .. NTIMER
Unused == [used |-> FALSE, expire |-> 0, who |-> 0, alarm |-> FALSE]

(* left and aleft: the ticks until the call's time and until the alarm,    *)
(* counted beside the code                                                 *)
Idle == [st |-> "idle", kind |-> "", id |-> 0, fired |-> FALSE, sig |-> FALSE, ready |-> FALSE, left |-> 0]

TInit ==
    /\ ticks = 0
    /\ ktimers = [i \in Slots |-> Unused]
    /\ calls = [p \in Waiters |-> [c |-> Idle, alarm_id |-> 0, aleft |-> 0]]

Free(tab) == {i \in Slots : ~tab[i].used}
timer_add(tab) == IF Free(tab) = {} THEN 0 ELSE CHOOSE i \in Free(tab) : \A j \in Free(tab) : i <= j
Armed(tab, id, n, p, alarm) ==
    IF id = 0 THEN tab
    ELSE [tab EXCEPT ![id] = [used |-> TRUE, expire |-> (ticks + n) % TICKS, who |-> p, alarm |-> alarm]]
timer_cancel(tab, id) == IF id = 0 THEN tab ELSE [tab EXCEPT ![id] = Unused]

(* A call with a time.  Without a slot sleep fails at once, and the others *)
(* wait without one.                                                       *)
Call == \E p \in Waiters, k \in Kinds, n \in Delays :
    /\ calls[p].c.st = "idle"
    /\ LET id == timer_add(ktimers)
       IN  /\ id # 0 \/ k # "sleep"
           /\ ktimers' = Armed(ktimers, id, n, p, FALSE)
           /\ calls' = [calls EXCEPT ![p].c =
                  [Idle EXCEPT !.st = "asleep", !.kind = k, !.id = id, !.left = IF id = 0 THEN 0 ELSE n]]
    /\ UNCHANGED ticks

(* Setting an alarm takes back the one before; 0 only takes it back        *)
sys_alarm == \E p \in Waiters, n \in Delays \cup {0} :
    /\ calls[p].c.st = "idle"
    /\ LET tab == timer_cancel(ktimers, calls[p].alarm_id)
           id  == IF n = 0 THEN 0 ELSE timer_add(tab)
       IN  /\ ktimers' = Armed(tab, id, n, p, TRUE)
           /\ calls' = [calls EXCEPT ![p].alarm_id = id, ![p].aleft = IF id = 0 THEN 0 ELSE n]
    /\ UNCHANGED ticks

(* A process that ends takes its alarm back; its slot gets another process *)
do_exit == \E p \in Waiters :
    /\ calls[p].c.st = "idle" /\ calls[p].alarm_id # 0
    /\ ktimers' = timer_cancel(ktimers, calls[p].alarm_id)
    /\ calls' = [calls EXCEPT ![p].alarm_id = 0, ![p].aleft = 0]
    /\ UNCHANGED ticks

Roused(c) == [c EXCEPT !.st = IF @ = "asleep" THEN "awake" ELSE @]
Signalled(c) == IF c.st = "idle" THEN c ELSE [Roused(c) EXCEPT !.sig = TRUE]
Counted(n) == IF n = 0 THEN 0 ELSE n - 1

due(now, t) == (now - t + TICKS) % TICKS < TICKS \div 2

(* The tick frees every timer that is due and calls its function           *)
timer_tick ==
    LET now == (ticks + 1) % TICKS
        hit == {i \in Slots : ktimers[i].used /\ due(now, ktimers[i].expire)}
        Hit(p, alarm) == \E i \in hit : ktimers[i].who = p /\ ktimers[i].alarm = alarm
    IN  /\ ticks' = now
        /\ ktimers' = [i \in Slots |-> IF i \in hit THEN Unused ELSE ktimers[i]]
        /\ calls' = [p \in Waiters |->
               LET was  == calls[p]
                   c    == [was.c EXCEPT !.left = Counted(@)]
                   told == IF Hit(p, FALSE) THEN [Roused(c) EXCEPT !.fired = TRUE] ELSE c
                   ends == Hit(p, TRUE)
               IN  [c |-> IF ends THEN Signalled(told) ELSE told,
                    alarm_id |-> IF ends THEN 0 ELSE was.alarm_id, aleft |-> Counted(was.aleft)]]

(* A signal wakes any of the calls                                         *)
Signal == \E p \in Waiters :
    /\ calls[p].c.st # "idle" /\ ~calls[p].c.sig
    /\ calls' = [calls EXCEPT ![p].c = Signalled(@)] /\ UNCHANGED <<ticks, ktimers>>

(* Input wakes all but sleep; every poll is woken, also for nothing of its *)
(* own                                                                     *)
Input == \E p \in Waiters, own \in BOOLEAN :
    /\ calls[p].c.st = "asleep" /\ calls[p].c.kind # "sleep" /\ (own \/ calls[p].c.kind = "poll")
    /\ calls' = [calls EXCEPT ![p].c = [Roused(@) EXCEPT !.ready = own]] /\ UNCHANGED <<ticks, ktimers>>

ends(c) == c.kind = "wait" \/ c.fired \/ c.sig \/ (c.kind = "poll" /\ c.ready)

(* Slip: a call that ends cancels its timer, fired or not                  *)
alwaysCancels(c) == ends(c)

cancels(c) == ends(c) /\ ~c.fired

(* The woken call goes on: it ends, or sleeps again                        *)
Resume == \E p \in Waiters : LET c == calls[p].c IN
    /\ c.st = "awake"
    /\ ktimers' = IF cancels(c) THEN timer_cancel(ktimers, c.id) ELSE ktimers
    /\ calls' = [calls EXCEPT ![p].c = IF ends(c) THEN Idle ELSE [c EXCEPT !.st = "asleep"]]
    /\ UNCHANGED ticks

TNext == Call \/ sys_alarm \/ do_exit \/ timer_tick \/ Signal \/ Input \/ Resume

TSpec == TInit /\ [][TNext]_<<ticks, ktimers, calls>>

(***************************************************************************)
(* Properties                                                              *)
(***************************************************************************)
(* A timer in the table belongs to the call or the alarm that armed it and *)
(* is still waited for, and whoever waits for a timer has it: nobody       *)
(* cancels the timer that another got in the slot it once had              *)
(* (timer_cancel after timer_tick).                                        *)
TimersOwned ==
    /\ \A i \in Slots : ktimers[i].used =>
           LET o == calls[ktimers[i].who]
           IN  IF ktimers[i].alarm THEN o.alarm_id = i ELSE o.c.st # "idle" /\ o.c.id = i /\ ~o.c.fired
    /\ \A p \in Waiters :
           /\ LET c == calls[p].c IN c.id # 0 /\ ~c.fired => ktimers[c.id].used /\ ktimers[c.id].who = p /\ ~ktimers[c.id].alarm
           /\ LET a == calls[p].alarm_id IN a # 0 => ktimers[a].used /\ ktimers[a].who = p /\ ktimers[a].alarm

(* A timer fires at its tick, neither before nor after, also when the      *)
(* count of ticks wraps (timer_tick).                                      *)
FiresOnTick == \A p \in Waiters :
    /\ LET c == calls[p].c IN c.id # 0 => (c.fired <=> c.left = 0)
    /\ calls[p].alarm_id # 0 <=> calls[p].aleft # 0

(* Timers are owned and fire on time (timer_add, timer_cancel, timer_tick  *)
(* and the calls that wait with a timer).                                  *)
TimersSound == TimersOwned /\ FiresOnTick

------------------------------------------------------------------------------
(***************************************************************************)
(* The kernel's own memory (os/kernel/kmem.c over mm.c's pages) and its    *)
(* log.  Memory is counted in units of the smallest object: class c holds  *)
(* objects of 2^c units, a page is KPAGE units, and what is larger than    *)
(* half a page gets whole pages.                                           *)
(***************************************************************************)

CONSTANTS KPAGE, KPAGES, NCLASS, MaxObjects, KLOG, MaxLog

VARIABLES low_used, pclass, plen, freelist, objects, klog

Pages == 0 .. KPAGES - 1
Classes == 0 .. NCLASS - 1
Big == 255

(* objects: what the kernel holds, with the size it asked for.  klog: the  *)
(* ring, its length, and all that was ever written to it.                  *)
KInit ==
    /\ low_used = [p \in Pages |-> FALSE]
    /\ pclass = [p \in Pages |-> 0]
    /\ plen = [p \in Pages |-> 0]
    /\ freelist = [c \in Classes |-> <<>>]
    /\ objects = {}
    /\ klog = [buf |-> [i \in 0 .. KLOG - 1 |-> 0], len |-> 0, all |-> <<>>]

Runs(n) == {p \in Pages : p + n <= KPAGES /\ \A k \in 0 .. n - 1 : ~low_used[p + k]}
low_alloc_n(n) == CHOOSE p \in Runs(n) : \A q \in Runs(n) : p <= q
Marked(p, n, used) == [q \in Pages |-> IF q \in p .. p + n - 1 THEN used ELSE low_used[q]]

class(n) == CHOOSE c \in Classes : 2^c >= n /\ \A d \in Classes : 2^d >= n => c <= d

(* Slip: a last object that only begins in the page is cut, too            *)
cutsPast(c) == (KPAGE \div 2^c) + 1

pieces(c) == KPAGE \div 2^c

(* The page's objects are put in front of the list one after the other     *)
Cut(p, c) == [i \in 1 .. pieces(c) |-> (p * KPAGE) + ((pieces(c) - i) * 2^c)]

Large == \E n \in ((KPAGE \div 2) + 1) .. (2 * KPAGE) :
    LET np == (n + KPAGE - 1) \div KPAGE IN
    /\ Cardinality(objects) < MaxObjects /\ Runs(np) # {}
    /\ LET p == low_alloc_n(np) IN
       /\ low_used' = Marked(p, np, TRUE)
       /\ pclass' = [pclass EXCEPT ![p] = Big]
       /\ plen' = [plen EXCEPT ![p] = np]
       /\ objects' = objects \cup {[at |-> p * KPAGE, size |-> n]}
    /\ UNCHANGED <<freelist, klog>>

Small == \E n \in 1 .. (KPAGE \div 2) : LET c == class(n) IN
    /\ Cardinality(objects) < MaxObjects
    /\ freelist[c] # <<>> \/ Runs(1) # {}
    /\ LET fresh == freelist[c] = <<>>
           p     == low_alloc_n(1)
           list  == IF fresh THEN Cut(p, c) ELSE freelist[c]
       IN  /\ low_used' = IF fresh THEN Marked(p, 1, TRUE) ELSE low_used
           /\ pclass' = IF fresh THEN [pclass EXCEPT ![p] = c + 1] ELSE pclass
           /\ freelist' = [freelist EXCEPT ![c] = Tail(list)]
           /\ objects' = objects \cup {[at |-> Head(list), size |-> n]}
    /\ UNCHANGED <<plen, klog>>

pages_of(p) == plen[p]

kfree == \E o \in objects : LET p == o.at \div KPAGE  c == pclass[p] IN
    /\ objects' = objects \ {o}
    /\ IF c = Big
       THEN /\ pclass' = [pclass EXCEPT ![p] = 0]
            /\ low_used' = Marked(p, pages_of(p), FALSE)
            /\ UNCHANGED freelist
       ELSE /\ freelist' = [freelist EXCEPT ![c - 1] = <<o.at>> \o @]
            /\ UNCHANGED <<pclass, low_used>>
    /\ UNCHANGED <<plen, klog>>

klog_putc == \E ch \in {1, 2} :
    /\ klog.len < MaxLog
    /\ klog' = [buf |-> [klog.buf EXCEPT ![klog.len % KLOG] = ch], len |-> klog.len + 1, all |-> Append(klog.all, ch)]
    /\ UNCHANGED <<low_used, pclass, plen, freelist, objects>>

log_start(len) == IF len > KLOG THEN len - KLOG ELSE 0

klog_read(off, n) ==
    LET from == IF off < log_start(klog.len) THEN log_start(klog.len) ELSE off
        upto == IF from + n < klog.len THEN from + n ELSE klog.len
    IN  [i \in 1 .. (upto - from) |-> klog.buf[(from + i - 1) % KLOG]]

KNext == Large \/ Small \/ kfree
LogNext == klog_putc

(***************************************************************************)
(* Properties                                                              *)
(***************************************************************************)
Units(o) == o.at .. o.at + o.size - 1
ListUnits(c, a) == a .. a + 2^c - 1

(* Two objects the kernel holds share no memory, none shares any with an   *)
(* object of a free list, and every one lies in pages that are taken, so   *)
(* that whatever is freed in whatever order is handed out once (kmalloc,   *)
(* kfree).                                                                 *)
ObjectsApart ==
    /\ \A o, q \in objects : o # q => Units(o) \cap Units(q) = {}
    /\ \A o \in objects, c \in Classes : \A i \in 1 .. Len(freelist[c]) :
           Units(o) \cap ListUnits(c, freelist[c][i]) = {}
    /\ \A o \in objects : \A u \in Units(o) : (u \div KPAGE) \in Pages /\ low_used[u \div KPAGE]

(* Every page that is taken is a large object's or is cut into objects of  *)
(* its class, each held or on the list of that class: no page and no       *)
(* object is lost (the claim of kmalloc_selftest, "no pages leaked").      *)
NoPageLeaked ==
    \A p \in Pages : low_used[p] =>
        \/ \E o \in objects : pclass[o.at \div KPAGE] = Big /\ p \in (o.at \div KPAGE) .. ((o.at + o.size - 1) \div KPAGE)
        \/ /\ pclass[p] \in 1 .. NCLASS
           /\ \A k \in 0 .. (KPAGE \div 2^(pclass[p] - 1)) - 1 :
                  LET a == p * KPAGE + (k * 2^(pclass[p] - 1))
                  IN  (\E o \in objects : o.at = a) # (\E i \in 1 .. Len(freelist[pclass[p] - 1]) : freelist[pclass[p] - 1][i] = a)

(* Reading the log anywhere gives what was written there, or what is left  *)
(* of it from the oldest byte on (klog_putc, klog_read).                   *)
LogIsTail == \A off \in 0 .. MaxLog, n \in 0 .. KLOG :
    LET gone == IF Len(klog.all) > KLOG THEN Len(klog.all) - KLOG ELSE 0
        from == IF off < gone THEN gone ELSE off
    IN  klog_read(off, n) = SubSeq(klog.all, from + 1, IF from + n < Len(klog.all) THEN from + n ELSE Len(klog.all))

(* The kernel's heap hands out every unit once and loses none, whatever is *)
(* freed in whatever order, and its log reads as it was written.           *)
HeapSound == ObjectsApart /\ NoPageLeaked /\ LogIsTail
==============================================================================
