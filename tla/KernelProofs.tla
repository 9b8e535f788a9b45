---------------------------- MODULE KernelProofs -----------------------------
(***************************************************************************)
(* Proofs about three services of the kernel, for every size of their      *)
(* tables: timers belong to those who wait for them, the block cache holds *)
(* what the disk holds, and a process has no id that it gave up.           *)
(***************************************************************************)
EXTENDS Kmem, Blocks, Cred, Extremes, FiniteSetTheorems, TLAPS

(***************************************************************************)
(* Timers                                                                  *)
(***************************************************************************)
Timer == [used : BOOLEAN, expire : Int, who : Waiters \cup {0}, alarm : BOOLEAN]
Waiting == [st : {"idle", "asleep", "awake"}, kind : Kinds \cup {""}, id : 0 .. NTIMER,
            fired : BOOLEAN, sig : BOOLEAN, ready : BOOLEAN, left : Int]
Who == [c : Waiting, alarm_id : 0 .. NTIMER, aleft : Int]

TypeT ==
    /\ ticks \in Int
    /\ ktimers \in [Slots -> Timer]
    /\ calls \in [Waiters -> Who]
    /\ \A i \in Slots : ktimers[i].used => ktimers[i].who \in Waiters

(* The constants: TICKS is 2^32 in the kernel, NTIMER 128                  *)
TimerSizes == NTIMER \in Nat /\ TICKS \in Nat \ {0} /\ Delays \subseteq Nat

(* The slot that timer_add gives, if any, is one that was free             *)
LEMMA SlotIsFree ==
    ASSUME TimerSizes, NEW tab
    PROVE  timer_add(tab) = 0 \/ (timer_add(tab) \in Slots /\ ~tab[timer_add(tab)].used)
  <1>. SUFFICES ASSUME Free(tab) # {}
                PROVE  timer_add(tab) \in Free(tab)
    BY DEF timer_add, Free
  <1>1. Free(tab) \subseteq Nat
    BY DEF Free, Slots, TimerSizes
  <1>2. \E i \in Free(tab) : \A j \in Free(tab) : i <= j
    BY <1>1, LeastMember
  <1>. QED BY <1>2 DEF timer_add

TimersInv == TypeT /\ TimersOwned

(* What a signal, an input or a resumption makes of a call                 *)
LEMMA RousedIsWaiting ==
    ASSUME NEW c \in Waiting
    PROVE  /\ Roused(c) \in Waiting /\ Roused(c).id = c.id /\ Roused(c).fired = c.fired
           /\ c.st # "idle" => Roused(c).st # "idle"
           /\ Signalled(c) \in Waiting /\ Signalled(c).id = c.id /\ Signalled(c).fired = c.fired
           /\ c.st # "idle" => Signalled(c).st # "idle"
  <1>1. Roused(c) \in Waiting
    BY DEF Roused, Waiting
  <1>2. Roused(c).id = c.id /\ Roused(c).fired = c.fired /\ (c.st # "idle" => Roused(c).st # "idle")
    BY DEF Roused, Waiting
  <1>3. [Roused(c) EXCEPT !.sig = TRUE] \in Waiting
    BY <1>1 DEF Waiting
  <1>4. /\ [Roused(c) EXCEPT !.sig = TRUE].id = Roused(c).id
        /\ [Roused(c) EXCEPT !.sig = TRUE].fired = Roused(c).fired
        /\ [Roused(c) EXCEPT !.sig = TRUE].st = Roused(c).st
    BY <1>1 DEF Waiting
  <1>. QED BY <1>1, <1>2, <1>3, <1>4 DEF Signalled

(* A step that leaves the table and the timer a call holds as they are     *)
LEMMA OwnersStay ==
    ASSUME TimersInv, NEW p \in Waiters, NEW d \in Waiting,
           d.id = calls[p].c.id, d.fired = calls[p].c.fired, d.st # "idle",
           calls' = [calls EXCEPT ![p].c = d], UNCHANGED <<ticks, ktimers>>
    PROVE  TimersInv'
  <1>1. calls' \in [Waiters -> Who]
    BY DEF TimersInv, TypeT, Who
  <1>2. \A q \in Waiters : /\ calls'[q].c.id = calls[q].c.id /\ calls'[q].c.fired = calls[q].c.fired
                           /\ calls'[q].alarm_id = calls[q].alarm_id
                           /\ calls[q].c.st # "idle" => calls'[q].c.st # "idle"
    BY DEF TimersInv, TypeT, Who
  <1>3. TypeT'
    BY <1>1 DEF TimersInv, TypeT
  <1>4. TimersOwned'
    BY <1>2 DEF TimersInv, TypeT, TimersOwned
  <1>. QED BY <1>3, <1>4 DEF TimersInv

(* The table with slot i taken back, and with it armed again               *)
LEMMA Cancelled ==
    ASSUME TypeT, NEW slot \in 0 .. NTIMER, TimerSizes
    PROVE  /\ timer_cancel(ktimers, slot) \in [Slots -> Timer]
           /\ \A i \in Slots : timer_cancel(ktimers, slot)[i] = IF i = slot THEN Unused ELSE ktimers[i]
  <1>1. Unused \in Timer
    BY DEF Unused, Timer
  <1>. QED BY <1>1 DEF timer_cancel, TypeT, Slots, TimerSizes

(* timer_add fills the slot it is given and no other                       *)
LEMMA ArmedSlot ==
    ASSUME NEW tab \in [Slots -> Timer], TimerSizes, NEW n \in Nat, NEW p \in Waiters, NEW alarm \in BOOLEAN,
           NEW slot \in 0 .. NTIMER, ticks \in Int
    PROVE  /\ Armed(tab, slot, n, p, alarm) \in [Slots -> Timer]
           /\ \A i \in Slots : i # slot => Armed(tab, slot, n, p, alarm)[i] = tab[i]
           /\ slot # 0 => LET s == Armed(tab, slot, n, p, alarm)[slot] IN s.used /\ s.who = p /\ s.alarm = alarm
  <1>1. (ticks + n) % TICKS \in Int
    BY DEF TimerSizes
  <1>. DEFINE new == [used |-> TRUE, expire |-> (ticks + n) % TICKS, who |-> p, alarm |-> alarm]
  <1>2. new \in Timer /\ new.used /\ new.who = p /\ new.alarm = alarm
    BY <1>1 DEF Timer
  <1>3. Armed(tab, slot, n, p, alarm) = IF slot = 0 THEN tab ELSE [tab EXCEPT ![slot] = new]
    BY DEF Armed
  <1>4. slot # 0 => slot \in Slots
    BY DEF Slots, TimerSizes
  <1>. HIDE DEF new
  <1>. QED BY <1>2, <1>3, <1>4

(* A call or an alarm has the number of a slot, or none                    *)
LEMMA NumbersOfSlots ==
    ASSUME TypeT, TimerSizes
    PROVE  \A q \in Waiters : calls[q].c.id \in Slots \cup {0} /\ calls[q].alarm_id \in Slots \cup {0}
  <1>. TAKE q \in Waiters
  <1>1. calls[q] \in Who
    BY DEF TypeT
  <1>2. calls[q].c \in Waiting /\ calls[q].alarm_id \in 0 .. NTIMER
    BY <1>1 DEF Who
  <1>3. calls[q].c.id \in 0 .. NTIMER
    BY <1>2 DEF Waiting
  <1>. QED BY <1>2, <1>3 DEF Slots, TimerSizes

(* do_exit takes back the alarm of the process                             *)
LEMMA ExitStep ==
    ASSUME TimerSizes, TimersInv, do_exit
    PROVE  TimersInv'
  <1>1. PICK p \in Waiters :
           /\ calls[p].c.st = "idle" /\ calls[p].alarm_id # 0
           /\ ktimers' = timer_cancel(ktimers, calls[p].alarm_id)
           /\ calls' = [calls EXCEPT ![p].alarm_id = 0, ![p].aleft = 0]
           /\ UNCHANGED ticks
    BY ZenonT(30) DEF do_exit
  <1>2. calls[p] \in Who
    BY DEF TimersInv, TypeT
  <1>3. /\ ktimers' \in [Slots -> Timer]
        /\ \A i \in Slots : ktimers'[i] = IF i = calls[p].alarm_id THEN Unused ELSE ktimers[i]
    BY <1>1, <1>2, Cancelled DEF TimersInv, Who
  <1>. DEFINE new == [calls[p] EXCEPT !.alarm_id = 0, !.aleft = 0]
  <1>4. new \in Who /\ new.c = calls[p].c /\ new.alarm_id = 0
    <2>1. 0 \in 0 .. NTIMER /\ 0 \in Int
      BY DEF TimerSizes
    <2>. QED BY ZenonT(30), <1>2, <2>1 DEF Who
  <1>5. calls' = [calls EXCEPT ![p] = new]
    BY ZenonT(30), <1>1
  <1>. HIDE DEF new
  <1>6. /\ calls' \in [Waiters -> Who]
        /\ \A q \in Waiters : calls'[q].c = calls[q].c /\ calls'[q].alarm_id = IF q = p THEN 0 ELSE calls[q].alarm_id
    BY <1>4, <1>5 DEF TimersInv, TypeT
  <1>7. TypeT'
    BY <1>1, <1>3, <1>6 DEF TimersInv, TypeT, Unused
  <1>8. \A q \in Waiters : calls[q].c.id \in Slots \cup {0} /\ calls[q].alarm_id \in Slots \cup {0}
    BY NumbersOfSlots DEF TimersInv
  <1>9. TimersOwned'
    <2>1. ASSUME NEW i \in Slots, ktimers'[i].used
          PROVE  LET o == calls'[ktimers'[i].who]
                 IN  IF ktimers'[i].alarm THEN o.alarm_id = i ELSE o.c.st # "idle" /\ o.c.id = i /\ ~o.c.fired
      <3>1. i # calls[p].alarm_id /\ ktimers'[i] = ktimers[i]
        BY <1>3, <2>1 DEF Unused
      <3>2. ktimers[i].who \in Waiters
        BY <2>1, <3>1 DEF TimersInv, TypeT
      <3>. QED BY <1>6, <2>1, <3>1, <3>2 DEF TimersInv, TimersOwned
    <2>2. ASSUME NEW q \in Waiters
          PROVE  /\ LET c == calls'[q].c IN c.id # 0 /\ ~c.fired => ktimers'[c.id].used /\ ktimers'[c.id].who = q /\ ~ktimers'[c.id].alarm
                 /\ LET a == calls'[q].alarm_id IN a # 0 => ktimers'[a].used /\ ktimers'[a].who = q /\ ktimers'[a].alarm
      BY <1>1, <1>3, <1>6, <1>8, <2>2 DEF TimersInv, TimersOwned
    <2>. QED BY <2>1, <2>2 DEF TimersOwned
  <1>. QED BY <1>7, <1>9 DEF TimersInv

(* sys_alarm takes the old alarm back before it arms a new one             *)
LEMMA AlarmStep ==
    ASSUME TimerSizes, TimersInv, sys_alarm
    PROVE  TimersInv'
  <1>0. PICK p \in Waiters, n \in Delays \cup {0} :
           LET tab == timer_cancel(ktimers, calls[p].alarm_id)
               slot  == IF n = 0 THEN 0 ELSE timer_add(tab)
           IN  /\ ktimers' = Armed(tab, slot, n, p, TRUE)
               /\ calls' = [calls EXCEPT ![p].alarm_id = slot, ![p].aleft = IF slot = 0 THEN 0 ELSE n]
               /\ UNCHANGED ticks
    BY ZenonT(30) DEF sys_alarm
  <1>. DEFINE tab  == timer_cancel(ktimers, calls[p].alarm_id)
              slot   == IF n = 0 THEN 0 ELSE timer_add(tab)
              left == IF slot = 0 THEN 0 ELSE n
              new  == [calls[p] EXCEPT !.alarm_id = slot, !.aleft = left]
  <1>1. ktimers' = Armed(tab, slot, n, p, TRUE) /\ calls' = [calls EXCEPT ![p] = new] /\ ticks' = ticks
    BY ZenonT(30), <1>0
  <1>2. calls[p] \in Who /\ n \in Nat
    BY DEF TimersInv, TypeT, TimerSizes
  <1>3. /\ tab \in [Slots -> Timer]
        /\ \A i \in Slots : tab[i] = IF i = calls[p].alarm_id THEN Unused ELSE ktimers[i]
    BY <1>2, Cancelled DEF TimersInv, Who
  <1>4. slot = 0 \/ (slot \in Slots /\ ~tab[slot].used)
    BY SlotIsFree
  <1>5. slot \in 0 .. NTIMER
    BY <1>4 DEF Slots, TimerSizes
  <1>6. left \in Int
    BY <1>2
  <1>. HIDE DEF tab, slot, left
  <1>7. new \in Who /\ new.c = calls[p].c /\ new.alarm_id = slot
    BY ZenonT(30), <1>2, <1>5, <1>6 DEF Who
  <1>. HIDE DEF new
  <1>8. /\ calls' \in [Waiters -> Who]
        /\ \A q \in Waiters : calls'[q].c = calls[q].c /\ calls'[q].alarm_id = IF q = p THEN slot ELSE calls[q].alarm_id
    BY <1>1, <1>7 DEF TimersInv, TypeT
  <1>9. /\ ktimers' \in [Slots -> Timer]
        /\ \A i \in Slots : i # slot => ktimers'[i] = tab[i]
        /\ slot # 0 => ktimers'[slot].used /\ ktimers'[slot].who = p /\ ktimers'[slot].alarm = TRUE
    <2>. DEFINE arm == Armed(tab, slot, n, p, TRUE)
    <2>1. ticks \in Int
      BY DEF TimersInv, TypeT
    <2>2. /\ arm \in [Slots -> Timer]
          /\ \A i \in Slots : i # slot => arm[i] = tab[i]
          /\ slot # 0 => arm[slot].used /\ arm[slot].who = p /\ arm[slot].alarm = TRUE
      BY <1>2, <1>3, <1>5, <2>1, ArmedSlot, Zenon
    <2>. QED BY ZenonT(30), <1>1, <2>2
  <1>10. TypeT'
    <2>1. ASSUME NEW i \in Slots, ktimers'[i].used
          PROVE  ktimers'[i].who \in Waiters
      <3>1. CASE i = slot
        <4>1. slot # 0
          BY <3>1 DEF Slots
        <4>. QED BY <1>9, <3>1, <4>1
      <3>2. CASE i # slot
        <4>1. ktimers'[i] = ktimers[i]
          BY <1>3, <1>9, <2>1, <3>2 DEF Unused
        <4>. QED BY <2>1, <4>1 DEF TimersInv, TypeT
      <3>. QED BY <3>1, <3>2
    <2>. QED BY ZenonT(30), <1>1, <1>8, <1>9, <2>1 DEF TimersInv, TypeT
  <1>11. \A q \in Waiters : calls[q].c.id \in Slots \cup {0} /\ calls[q].alarm_id \in Slots \cup {0}
    BY NumbersOfSlots DEF TimersInv
  <1>12. \A i \in Slots : i # 0
    BY DEF Slots
  (* The slot taken was free, or was that of the alarm taken back            *)
  <1>13. \A i \in Slots : i = slot => ~ktimers[i].used \/ i = calls[p].alarm_id
    BY <1>3, <1>4, <1>12
  <1>14. TimersOwned'
    <2>1. ASSUME NEW i \in Slots, ktimers'[i].used
          PROVE  LET o == calls'[ktimers'[i].who]
                 IN  IF ktimers'[i].alarm THEN o.alarm_id = i ELSE o.c.st # "idle" /\ o.c.id = i /\ ~o.c.fired
      <3>1. CASE i = slot
        BY <1>8, <1>9, <1>12, <3>1
      <3>2. CASE i # slot
        <4>1. ktimers'[i] = ktimers[i] /\ i # calls[p].alarm_id
          BY <1>3, <1>9, <2>1, <3>2 DEF Unused
        <4>2. ktimers[i].who \in Waiters
          BY <2>1, <4>1 DEF TimersInv, TypeT
        <4>. QED BY <1>8, <2>1, <4>1, <4>2 DEF TimersInv, TimersOwned
      <3>. QED BY <3>1, <3>2
    <2>2. ASSUME NEW q \in Waiters
          PROVE  LET c == calls'[q].c IN c.id # 0 /\ ~c.fired => ktimers'[c.id].used /\ ktimers'[c.id].who = q /\ ~ktimers'[c.id].alarm
      <3>. SUFFICES ASSUME calls[q].c.id # 0, ~calls[q].c.fired
                    PROVE  ktimers'[calls[q].c.id] = ktimers[calls[q].c.id]
        BY <1>8 DEF TimersInv, TimersOwned
      <3>1. /\ calls[q].c.id \in Slots
            /\ ktimers[calls[q].c.id].used /\ ktimers[calls[q].c.id].who = q /\ ~ktimers[calls[q].c.id].alarm
        BY <1>11 DEF TimersInv, TimersOwned
      <3>2. calls[q].c.id # calls[p].alarm_id
        BY <1>12, <3>1 DEF TimersInv, TimersOwned
      <3>. QED BY <1>3, <1>9, <1>13, <3>1, <3>2
    <2>3. ASSUME NEW q \in Waiters
          PROVE  LET a == calls'[q].alarm_id IN a # 0 => ktimers'[a].used /\ ktimers'[a].who = q /\ ktimers'[a].alarm
      <3>1. CASE q = p
        BY <1>8, <1>9, <3>1
      <3>2. CASE q # p
        <4>. SUFFICES ASSUME calls[q].alarm_id # 0
                      PROVE  ktimers'[calls[q].alarm_id] = ktimers[calls[q].alarm_id]
          BY <1>8, <3>2 DEF TimersInv, TimersOwned
        <4>1. /\ calls[q].alarm_id \in Slots
              /\ ktimers[calls[q].alarm_id].used /\ ktimers[calls[q].alarm_id].who = q
          BY <1>11 DEF TimersInv, TimersOwned
        <4>2. calls[q].alarm_id # calls[p].alarm_id
          BY <1>12, <3>2, <4>1 DEF TimersInv, TimersOwned
        <4>. QED BY <1>3, <1>9, <1>13, <4>1, <4>2
      <3>. QED BY <3>1, <3>2
    <2>. QED BY <2>1, <2>2, <2>3 DEF TimersOwned
  <1>. QED BY <1>10, <1>14 DEF TimersInv

(* A call that waits arms a timer in a free slot, or waits without one     *)
LEMMA CallStep ==
    ASSUME TimerSizes, TimersInv, Call
    PROVE  TimersInv'
  <1>0. PICK p \in Waiters, k \in Kinds, n \in Delays :
           /\ calls[p].c.st = "idle"
           /\ LET slot == timer_add(ktimers)
              IN  /\ ktimers' = Armed(ktimers, slot, n, p, FALSE)
                  /\ calls' = [calls EXCEPT ![p].c =
                         [Idle EXCEPT !.st = "asleep", !.kind = k, !.id = slot, !.left = IF slot = 0 THEN 0 ELSE n]]
           /\ UNCHANGED ticks
    BY ZenonT(30) DEF Call
  <1>. DEFINE slot   == timer_add(ktimers)
              left == IF slot = 0 THEN 0 ELSE n
              c0   == [Idle EXCEPT !.st = "asleep", !.kind = k, !.id = slot, !.left = left]
              new  == [calls[p] EXCEPT !.c = c0]
  <1>1. ktimers' = Armed(ktimers, slot, n, p, FALSE) /\ calls' = [calls EXCEPT ![p] = new] /\ ticks' = ticks
    BY <1>0
  <1>2. calls[p] \in Who /\ n \in Nat
    BY DEF TimersInv, TypeT, TimerSizes
  <1>3. slot = 0 \/ (slot \in Slots /\ ~ktimers[slot].used)
    BY SlotIsFree
  <1>4. slot \in 0 .. NTIMER
    BY <1>3 DEF Slots, TimerSizes
  <1>5. left \in Int
    BY <1>2
  <1>. HIDE DEF slot, left
  <1>6. c0 \in Waiting /\ c0.st # "idle" /\ c0.id = slot /\ ~c0.fired
    BY <1>4, <1>5 DEF Waiting, Idle
  <1>. HIDE DEF c0
  <1>7. new \in Who /\ new.c = c0 /\ new.alarm_id = calls[p].alarm_id
    BY <1>2, <1>6 DEF Who
  <1>. HIDE DEF new
  <1>8. /\ calls' \in [Waiters -> Who]
        /\ \A q \in Waiters : calls'[q].alarm_id = calls[q].alarm_id /\ calls'[q].c = IF q = p THEN c0 ELSE calls[q].c
    BY <1>1, <1>7 DEF TimersInv, TypeT
  <1>9. /\ ktimers' \in [Slots -> Timer]
        /\ \A i \in Slots : i # slot => ktimers'[i] = ktimers[i]
        /\ slot # 0 => ktimers'[slot].used /\ ktimers'[slot].who = p /\ ktimers'[slot].alarm = FALSE
    <2>. DEFINE arm == Armed(ktimers, slot, n, p, FALSE)
    <2>1. ticks \in Int /\ ktimers \in [Slots -> Timer]
      BY DEF TimersInv, TypeT
    <2>2. /\ arm \in [Slots -> Timer]
          /\ \A i \in Slots : i # slot => arm[i] = ktimers[i]
          /\ slot # 0 => arm[slot].used /\ arm[slot].who = p /\ arm[slot].alarm = FALSE
      <3>. DEFINE s == [used |-> TRUE, expire |-> (ticks + n) % TICKS, who |-> p, alarm |-> FALSE]
      <3>1. (ticks + n) % TICKS \in Int
        BY <1>2, <2>1 DEF TimerSizes
      <3>2. s \in Timer /\ s.used /\ s.who = p /\ s.alarm = FALSE
        BY <3>1 DEF Timer
      <3>3. arm = IF slot = 0 THEN ktimers ELSE [ktimers EXCEPT ![slot] = s]
        BY DEF Armed
      <3>. HIDE DEF s, arm
      <3>. QED BY <1>3, <2>1, <3>2, <3>3
    <2>. QED BY ZenonT(30), <1>1, <2>2
  <1>10. \A i \in Slots : i # 0
    BY DEF Slots
  <1>11. TypeT'
    <2>1. ASSUME NEW i \in Slots, ktimers'[i].used
          PROVE  ktimers'[i].who \in Waiters
      <3>1. CASE i = slot
        BY <1>9, <1>10, <3>1
      <3>2. CASE i # slot
        BY <1>9, <2>1, <3>2 DEF TimersInv, TypeT
      <3>. QED BY <3>1, <3>2
    <2>. QED BY ZenonT(30), <1>1, <1>8, <1>9, <2>1 DEF TimersInv, TypeT
  <1>12. \A q \in Waiters : calls[q].c.id \in Slots \cup {0} /\ calls[q].alarm_id \in Slots \cup {0}
    BY NumbersOfSlots DEF TimersInv
  (* p was in no call, so no timer in use but an alarm is its own            *)
  <1>13. \A i \in Slots : ktimers[i].used /\ ~ktimers[i].alarm => ktimers[i].who # p
    BY <1>0 DEF TimersInv, TimersOwned
  <1>14. TimersOwned'
    <2>1. ASSUME NEW i \in Slots, ktimers'[i].used
          PROVE  LET o == calls'[ktimers'[i].who]
                 IN  IF ktimers'[i].alarm THEN o.alarm_id = i ELSE o.c.st # "idle" /\ o.c.id = i /\ ~o.c.fired
      <3>1. CASE i = slot
        BY <1>6, <1>8, <1>9, <1>10, <3>1
      <3>2. CASE i # slot
        <4>1. ktimers'[i] = ktimers[i]
          BY <1>9, <3>2
        <4>2. ktimers[i].who \in Waiters
          BY <2>1, <4>1 DEF TimersInv, TypeT
        <4>. QED BY <1>8, <1>13, <2>1, <4>1, <4>2 DEF TimersInv, TimersOwned
      <3>. QED BY <3>1, <3>2
    <2>2. ASSUME NEW q \in Waiters
          PROVE  LET c == calls'[q].c IN c.id # 0 /\ ~c.fired => ktimers'[c.id].used /\ ktimers'[c.id].who = q /\ ~ktimers'[c.id].alarm
      <3>1. CASE q = p
        BY <1>6, <1>8, <1>9, <3>1
      <3>2. CASE q # p
        BY <1>3, <1>8, <1>9, <1>10, <1>12, <3>2 DEF TimersInv, TimersOwned
      <3>. QED BY <3>1, <3>2
    <2>3. ASSUME NEW q \in Waiters
          PROVE  LET a == calls'[q].alarm_id IN a # 0 => ktimers'[a].used /\ ktimers'[a].who = q /\ ktimers'[a].alarm
      BY <1>3, <1>8, <1>9, <1>10, <1>12 DEF TimersInv, TimersOwned
    <2>. QED BY <2>1, <2>2, <2>3 DEF TimersOwned
  <1>. QED BY <1>11, <1>14 DEF TimersInv

(* A call that ends cancels its timer unless that has gone off             *)
LEMMA ResumeStep ==
    ASSUME TimerSizes, TimersInv, Resume
    PROVE  TimersInv'
  <1>0. PICK p \in Waiters :
           /\ calls[p].c.st = "awake"
           /\ ktimers' = IF cancels(calls[p].c) THEN timer_cancel(ktimers, calls[p].c.id) ELSE ktimers
           /\ calls' = [calls EXCEPT ![p].c = IF ends(calls[p].c) THEN Idle ELSE [calls[p].c EXCEPT !.st = "asleep"]]
           /\ UNCHANGED ticks
    BY ZenonT(30) DEF Resume
  <1>. DEFINE c1  == IF ends(calls[p].c) THEN Idle ELSE [calls[p].c EXCEPT !.st = "asleep"]
              new == [calls[p] EXCEPT !.c = c1]
              gone == IF cancels(calls[p].c) THEN calls[p].c.id ELSE 0
  <1>1. calls' = [calls EXCEPT ![p] = new] /\ ticks' = ticks
    BY <1>0
  <1>2. calls[p] \in Who
    BY DEF TimersInv, TypeT
  <1>3. calls[p].c \in Waiting
    BY <1>2 DEF Who
  <1>4. Idle \in Waiting
    <2>1. 0 \in 0 .. NTIMER
      BY DEF TimerSizes
    <2>. QED BY <2>1 DEF Idle, Waiting
  <1>5. [calls[p].c EXCEPT !.st = "asleep"] \in Waiting
    BY <1>3 DEF Waiting
  <1>6. /\ c1 \in Waiting
        /\ ends(calls[p].c) => c1.id = 0
        /\ ~ends(calls[p].c) => c1.st # "idle" /\ c1.id = calls[p].c.id /\ c1.fired = calls[p].c.fired
    <2>1. Idle.id = 0
      BY DEF Idle
    <2>2. LET d == [calls[p].c EXCEPT !.st = "asleep"] IN d.st # "idle" /\ d.id = calls[p].c.id /\ d.fired = calls[p].c.fired
      BY <1>3 DEF Waiting
    <2>. QED BY <1>4, <1>5, <2>1, <2>2
  <1>. HIDE DEF c1
  <1>7. new \in Who /\ new.c = c1 /\ new.alarm_id = calls[p].alarm_id
    BY <1>2, <1>6 DEF Who
  <1>. HIDE DEF new
  <1>8. /\ calls' \in [Waiters -> Who]
        /\ \A q \in Waiters : calls'[q].alarm_id = calls[q].alarm_id /\ calls'[q].c = IF q = p THEN c1 ELSE calls[q].c
    BY <1>1, <1>7 DEF TimersInv, TypeT
  <1>9. /\ ktimers' \in [Slots -> Timer]
        /\ \A i \in Slots : ktimers'[i] = IF i = gone THEN Unused ELSE ktimers[i]
    <2>1. CASE cancels(calls[p].c)
      <3>1. calls[p].c.id \in 0 .. NTIMER
        BY <1>3 DEF Waiting
      <3>. QED BY <1>0, <2>1, <3>1, Cancelled DEF TimersInv
    <2>2. CASE ~cancels(calls[p].c)
      <3>1. \A i \in Slots : i # 0
        BY DEF Slots
      <3>. QED BY <1>0, <2>2, <3>1 DEF TimersInv, TypeT
    <2>. QED BY <2>1, <2>2
  <1>10. \A i \in Slots : i # 0
    BY DEF Slots
  <1>11. TypeT'
    BY <1>1, <1>8, <1>9 DEF TimersInv, TypeT, Unused
  <1>12. \A q \in Waiters : calls[q].c.id \in Slots \cup {0} /\ calls[q].alarm_id \in Slots \cup {0}
    BY NumbersOfSlots DEF TimersInv
  (* A slot is given back only by the one who has it                         *)
  <1>13. gone # 0 => ~calls[p].c.fired /\ gone = calls[p].c.id /\ ends(calls[p].c)
    BY DEF cancels
  <1>14. gone # 0 => ktimers[gone].used /\ ktimers[gone].who = p /\ ~ktimers[gone].alarm
    BY <1>13 DEF TimersInv, TimersOwned
  <1>15. ends(calls[p].c) /\ ~calls[p].c.fired => gone = calls[p].c.id
    BY DEF cancels
  <1>. HIDE DEF gone
  <1>16. TimersOwned'
    <2>1. ASSUME NEW i \in Slots, ktimers'[i].used
          PROVE  LET o == calls'[ktimers'[i].who]
                 IN  IF ktimers'[i].alarm THEN o.alarm_id = i ELSE o.c.st # "idle" /\ o.c.id = i /\ ~o.c.fired
      <3>1. ktimers'[i] = ktimers[i] /\ i # gone
        BY <1>9, <2>1 DEF Unused
      <3>2. ktimers[i].who \in Waiters
        BY <2>1, <3>1 DEF TimersInv, TypeT
      <3>3. CASE ktimers[i].alarm
        BY <1>8, <2>1, <3>1, <3>2, <3>3 DEF TimersInv, TimersOwned
      <3>4. CASE ~ktimers[i].alarm
        <4>1. calls[ktimers[i].who].c.st # "idle" /\ calls[ktimers[i].who].c.id = i /\ ~calls[ktimers[i].who].c.fired
          BY <2>1, <3>1, <3>4 DEF TimersInv, TimersOwned
        <4>2. ktimers[i].who = p => ~ends(calls[p].c)
          BY <1>15, <3>1, <4>1
        <4>. QED BY <1>6, <1>8, <3>1, <3>2, <3>4, <4>1, <4>2
      <3>. QED BY <3>3, <3>4
    <2>2. ASSUME NEW q \in Waiters
          PROVE  LET c == calls'[q].c IN c.id # 0 /\ ~c.fired => ktimers'[c.id].used /\ ktimers'[c.id].who = q /\ ~ktimers'[c.id].alarm
      <3>1. CASE q = p
        BY <1>6, <1>8, <1>9, <1>12, <1>13, <3>1 DEF TimersInv, TimersOwned
      <3>2. CASE q # p
        BY <1>8, <1>9, <1>10, <1>12, <1>14, <3>2 DEF TimersInv, TimersOwned
      <3>. QED BY <3>1, <3>2
    <2>3. ASSUME NEW q \in Waiters
          PROVE  LET a == calls'[q].alarm_id IN a # 0 => ktimers'[a].used /\ ktimers'[a].who = q /\ ktimers'[a].alarm
      BY <1>8, <1>9, <1>10, <1>12, <1>14 DEF TimersInv, TimersOwned
    <2>. QED BY <2>1, <2>2, <2>3 DEF TimersOwned
  <1>. QED BY <1>11, <1>16 DEF TimersInv

(* timer_tick empties the slots that are due and tells their owners        *)
LEMMA TickStep ==
    ASSUME TimerSizes, TimersInv, timer_tick
    PROVE  TimersInv'
  <1>. DEFINE now == (ticks + 1) % TICKS
              hit == {i \in Slots : ktimers[i].used /\ due(now, ktimers[i].expire)}
              Hit(p, alarm) == \E i \in hit : ktimers[i].who = p /\ ktimers[i].alarm = alarm
              c0(p)   == [calls[p].c EXCEPT !.left = Counted(@)]
              told(p) == IF Hit(p, FALSE) THEN [Roused(c0(p)) EXCEPT !.fired = TRUE] ELSE c0(p)
              c1(p)   == IF Hit(p, TRUE) THEN Signalled(told(p)) ELSE told(p)
              new(p)  == [c |-> c1(p), alarm_id |-> IF Hit(p, TRUE) THEN 0 ELSE calls[p].alarm_id,
                          aleft |-> Counted(calls[p].aleft)]
  <1>1. /\ ticks' = now
        /\ ktimers' = [i \in Slots |-> IF i \in hit THEN Unused ELSE ktimers[i]]
        /\ calls' = [p \in Waiters |-> new(p)]
    BY DEF timer_tick
  <1>2. now \in Int
    BY DEF TimersInv, TypeT, TimerSizes
  <1>3. \A i \in hit : i \in Slots /\ ktimers[i].used
    OBVIOUS
  <1>. HIDE DEF now, hit
  <1>4. /\ ktimers' \in [Slots -> Timer]
        /\ \A i \in Slots : ktimers'[i] = IF i \in hit THEN Unused ELSE ktimers[i]
    <2>1. Unused \in Timer
      BY DEF Unused, Timer
    <2>. QED BY <1>1, <2>1 DEF TimersInv, TypeT
  <1>5. ASSUME NEW p \in Waiters
        PROVE  /\ c1(p) \in Waiting /\ c1(p).id = calls[p].c.id
               /\ c1(p).fired <=> (Hit(p, FALSE) \/ calls[p].c.fired)
               /\ calls[p].c.st # "idle" => c1(p).st # "idle"
    <2>1. calls[p].c \in Waiting
      <3>1. calls[p] \in Who
        BY DEF TimersInv, TypeT
      <3>. QED BY <3>1 DEF Who
    <2>2. Counted(calls[p].c.left) \in Int
      <3>1. calls[p].c.left \in Int
        BY <2>1 DEF Waiting
      <3>. QED BY <3>1 DEF Counted
    <2>3. /\ c0(p) \in Waiting /\ c0(p).id = calls[p].c.id
          /\ c0(p).fired = calls[p].c.fired /\ c0(p).st = calls[p].c.st
      BY <2>1, <2>2 DEF Waiting
    <2>. HIDE DEF c0
    <2>4. /\ Roused(c0(p)) \in Waiting /\ Roused(c0(p)).id = c0(p).id
          /\ c0(p).st # "idle" => Roused(c0(p)).st # "idle"
      BY <2>3, RousedIsWaiting
    <2>. DEFINE r == Roused(c0(p))
    <2>. HIDE DEF r
    <2>5. LET f == [r EXCEPT !.fired = TRUE] IN f \in Waiting /\ f.id = r.id /\ f.fired /\ f.st = r.st
      BY <2>4 DEF Waiting, r
    <2>6. /\ told(p) \in Waiting /\ told(p).id = calls[p].c.id
          /\ told(p).fired <=> (Hit(p, FALSE) \/ calls[p].c.fired)
          /\ calls[p].c.st # "idle" => told(p).st # "idle"
      <3>. HIDE DEF Hit
      <3>1. CASE Hit(p, FALSE)
        BY ZenonT(30), <2>3, <2>4, <2>5, <3>1 DEF r
      <3>2. CASE ~Hit(p, FALSE)
        BY ZenonT(30), <2>3, <3>2
      <3>. QED BY ZenonT(30), <3>1, <3>2
    <2>. HIDE DEF told, Hit
    <2>7. /\ Signalled(told(p)) \in Waiting /\ Signalled(told(p)).id = told(p).id
          /\ Signalled(told(p)).fired = told(p).fired
          /\ told(p).st # "idle" => Signalled(told(p)).st # "idle"
      BY <2>6, RousedIsWaiting
    <2>8. CASE Hit(p, TRUE)
      BY ZenonT(30), <2>6, <2>7, <2>8
    <2>9. CASE ~Hit(p, TRUE)
      BY ZenonT(30), <2>6, <2>9
    <2>. QED BY ZenonT(30), <2>8, <2>9
  <1>. HIDE DEF c1
  <1>6. ASSUME NEW p \in Waiters
        PROVE  new(p) \in Who /\ new(p).c = c1(p) /\ new(p).alarm_id = IF Hit(p, TRUE) THEN 0 ELSE calls[p].alarm_id
    <2>1. calls[p] \in Who
      BY DEF TimersInv, TypeT
    <2>2. Counted(calls[p].aleft) \in Int /\ calls[p].alarm_id \in 0 .. NTIMER /\ 0 \in 0 .. NTIMER
      BY <2>1 DEF Counted, Who, TimerSizes
    <2>. HIDE DEF Hit
    <2>. QED BY ZenonT(30), <1>5, <2>2 DEF Who
  <1>. HIDE DEF new
  <1>7. calls' \in [Waiters -> Who] /\ \A p \in Waiters : calls'[p] = new(p)
    BY ZenonT(30), <1>1, <1>6
  <1>8. TypeT'
    BY <1>1, <1>2, <1>4, <1>7 DEF TimersInv, TypeT, Unused
  <1>9. \A q \in Waiters : calls[q].c.id \in Slots \cup {0} /\ calls[q].alarm_id \in Slots \cup {0}
    BY NumbersOfSlots DEF TimersInv
  <1>10. TimersOwned'
    <2>1. ASSUME NEW i \in Slots, ktimers'[i].used
          PROVE  LET o == calls'[ktimers'[i].who]
                 IN  IF ktimers'[i].alarm THEN o.alarm_id = i ELSE o.c.st # "idle" /\ o.c.id = i /\ ~o.c.fired
      <3>1. i \notin hit /\ ktimers'[i] = ktimers[i]
        BY <1>4, <2>1 DEF Unused
      <3>. PICK w \in Waiters : w = ktimers[i].who
        BY <2>1, <3>1 DEF TimersInv, TypeT
      <3>2. CASE ktimers[i].alarm
        <4>1. calls[w].alarm_id = i
          BY <2>1, <3>1, <3>2 DEF TimersInv, TimersOwned
        <4>2. ~Hit(w, TRUE)
          BY <1>3, <3>1, <4>1 DEF TimersInv, TimersOwned
        <4>. HIDE DEF Hit
        <4>. QED BY ZenonT(30), <1>6, <1>7, <3>1, <3>2, <4>1, <4>2
      <3>3. CASE ~ktimers[i].alarm
        <4>1. calls[w].c.id = i /\ ~calls[w].c.fired /\ calls[w].c.st # "idle"
          BY <2>1, <3>1, <3>3 DEF TimersInv, TimersOwned
        <4>2. ~Hit(w, FALSE)
          BY <1>3, <3>1, <4>1 DEF TimersInv, TimersOwned
        <4>. HIDE DEF Hit
        <4>3. calls'[w].c.st # "idle" /\ calls'[w].c.id = i /\ ~calls'[w].c.fired
          <5>1. calls'[w].c = c1(w)
            BY ZenonT(30), <1>6, <1>7
          <5>. QED BY ZenonT(30), <1>5, <4>1, <4>2, <5>1
        <4>. QED BY <3>1, <3>3, <4>3
      <3>. QED BY <3>2, <3>3
    <2>2. ASSUME NEW q \in Waiters
          PROVE  LET c == calls'[q].c IN c.id # 0 /\ ~c.fired => ktimers'[c.id].used /\ ktimers'[c.id].who = q /\ ~ktimers'[c.id].alarm
      <3>. DEFINE i == calls[q].c.id
      <3>1. calls'[q].c.id = i /\ (~calls'[q].c.fired => ~Hit(q, FALSE) /\ ~calls[q].c.fired)
        <4>. HIDE DEF Hit
        <4>. QED BY ZenonT(30), <1>5, <1>6, <1>7
      <3>. SUFFICES ASSUME i # 0, ~calls'[q].c.fired
                    PROVE  ktimers'[i].used /\ ktimers'[i].who = q /\ ~ktimers'[i].alarm
        BY <3>1
      <3>2. i \in Slots /\ ktimers[i].used /\ ktimers[i].who = q /\ ~ktimers[i].alarm
        BY <1>9, <3>1 DEF TimersInv, TimersOwned
      <3>3. ktimers[i] \in Timer
        BY <3>2 DEF TimersInv, TypeT
      <3>4. ktimers[i].alarm = FALSE
        BY <3>2, <3>3 DEF Timer
      <3>5. i \notin hit
        BY <3>1, <3>2, <3>4
      <3>. QED BY <1>4, <3>2, <3>5
    <2>3. ASSUME NEW q \in Waiters
          PROVE  LET a == calls'[q].alarm_id IN a # 0 => ktimers'[a].used /\ ktimers'[a].who = q /\ ktimers'[a].alarm
      <3>. DEFINE i == calls[q].alarm_id
      <3>1. calls'[q].alarm_id # 0 => calls'[q].alarm_id = i /\ ~Hit(q, TRUE)
        <4>. HIDE DEF Hit
        <4>. QED BY ZenonT(30), <1>6, <1>7
      <3>. SUFFICES ASSUME i # 0, ~Hit(q, TRUE)
                    PROVE  ktimers'[i].used /\ ktimers'[i].who = q /\ ktimers'[i].alarm
        BY ZenonT(30), <3>1
      <3>2. i \in Slots /\ ktimers[i].used /\ ktimers[i].who = q /\ ktimers[i].alarm
        BY <1>9 DEF TimersInv, TimersOwned
      <3>3. ktimers[i] \in Timer
        BY <3>2 DEF TimersInv, TypeT
      <3>4. ktimers[i].alarm = TRUE
        BY <3>2, <3>3 DEF Timer
      <3>5. i \notin hit
        BY <3>2, <3>4
      <3>. QED BY <1>4, <3>2, <3>5
    <2>. QED BY <2>1, <2>2, <2>3 DEF TimersOwned
  <1>. QED BY <1>8, <1>10 DEF TimersInv

(* Signals and input wake a call and leave its timer armed                 *)
LEMMA WakeStep ==
    ASSUME TimersInv, Signal \/ Input
    PROVE  TimersInv'
  <1>1. \A p \in Waiters : calls[p].c \in Waiting
    <2>1. \A p \in Waiters : calls[p] \in Who
      BY DEF TimersInv, TypeT
    <2>. QED BY <2>1 DEF Who
  <1>2. CASE Signal
    <2>1. PICK p \in Waiters : /\ calls[p].c.st # "idle"
                               /\ calls' = [calls EXCEPT ![p].c = Signalled(calls[p].c)] /\ UNCHANGED <<ticks, ktimers>>
      BY ZenonT(30), <1>2 DEF Signal
    <2>. DEFINE d == Signalled(calls[p].c)
    <2>2. d \in Waiting /\ d.id = calls[p].c.id /\ d.fired = calls[p].c.fired /\ d.st # "idle"
      BY <1>1, <2>1, RousedIsWaiting
    <2>3. calls' = [calls EXCEPT ![p].c = d] /\ UNCHANGED <<ticks, ktimers>>
      BY <2>1
    <2>. HIDE DEF d
    <2>. QED BY ZenonT(30), <2>2, <2>3, OwnersStay
  <1>3. CASE Input
    <2>1. PICK p \in Waiters, own \in BOOLEAN :
              /\ calls[p].c.st = "asleep"
              /\ calls' = [calls EXCEPT ![p].c = [Roused(calls[p].c) EXCEPT !.ready = own]] /\ UNCHANGED <<ticks, ktimers>>
      BY ZenonT(30), <1>3 DEF Input
    <2>. DEFINE r == Roused(calls[p].c)
                d == [r EXCEPT !.ready = own]
    <2>2. r \in Waiting /\ r.id = calls[p].c.id /\ r.fired = calls[p].c.fired /\ r.st # "idle"
      BY <1>1, <2>1, RousedIsWaiting
    <2>3. calls' = [calls EXCEPT ![p].c = d] /\ UNCHANGED <<ticks, ktimers>>
      BY <2>1
    <2>. HIDE DEF r
    <2>4. d \in Waiting /\ d.id = r.id /\ d.fired = r.fired /\ d.st = r.st
      BY <2>2 DEF Waiting
    <2>. HIDE DEF d
    <2>. QED BY ZenonT(30), <2>2, <2>3, <2>4, OwnersStay
  <1>. QED BY <1>2, <1>3

(* The steps together                                                      *)
LEMMA TimersHold ==
    ASSUME TimerSizes
    PROVE  TSpec => []TimersInv
  <1>1. TInit => TimersInv
    <2>. SUFFICES ASSUME TInit PROVE TimersInv
      OBVIOUS
    <2>1. Unused \in Timer /\ ~Unused.used
      BY DEF Unused, Timer
    <2>2. 0 \in 0 .. NTIMER
      BY DEF TimerSizes
    <2>3. Idle \in Waiting /\ Idle.id = 0
      BY <2>2 DEF Idle, Waiting
    <2>. DEFINE w == [c |-> Idle, alarm_id |-> 0, aleft |-> 0]
    <2>4. w \in Who /\ w.c.id = 0 /\ w.alarm_id = 0
      BY <2>2, <2>3 DEF Who
    <2>. HIDE DEF w
    <2>5. ticks = 0 /\ ktimers = [i \in Slots |-> Unused] /\ calls = [p \in Waiters |-> w]
      BY DEF TInit, w
    <2>. QED BY <2>1, <2>4, <2>5 DEF TimersInv, TypeT, TimersOwned
  <1>2. TimersInv /\ [TNext]_<<ticks, ktimers, calls>> => TimersInv'
    <2>. SUFFICES ASSUME TimersInv, [TNext]_<<ticks, ktimers, calls>>
                  PROVE  TimersInv'
      OBVIOUS
    <2>1. CASE UNCHANGED <<ticks, ktimers, calls>>
      BY <2>1 DEF TimersInv, TypeT, TimersOwned
    <2>. QED BY <2>1, CallStep, AlarmStep, ExitStep, TickStep, WakeStep, ResumeStep DEF TNext
  <1>. QED BY <1>1, <1>2, PTL DEF TSpec

(* Whatever the number of slots, of processes and of ticks, a timer in the *)
(* table is waited for by the one who armed it, and who waits has a timer: *)
(* a call cancels no timer that another got in the slot it once had        *)
(* (timer_add, timer_cancel and timer_tick).                               *)
THEOREM TimersStayOwned ==
    ASSUME TimerSizes
    PROVE  TSpec => []TimersOwned
  <1>1. TimersInv => TimersOwned
    BY DEF TimersInv
  <1>. QED BY <1>1, TimersHold, PTL

-----------------------------------------------------------------------------
(* When timers fire.  The inductive invariant says of each timer in use how  *)
(* far away its time is: as many ticks as its owner has left.                *)

(* The ticks until a timer's time, as its owner counts them                *)
TicksLeft(i) == IF ktimers[i].alarm THEN calls[ktimers[i].who].aleft ELSE calls[ktimers[i].who].c.left

(* A wait is shorter than half the period of the count                     *)
ShortWaits == Delays \subseteq 1 .. (TICKS \div 2)

TimeIn(d, e) == d \in 1 .. (TICKS \div 2) /\ e = (ticks + d) % TICKS

DueInv ==
    /\ ticks \in 0 .. TICKS - 1
    /\ \A i \in Slots : ktimers[i].used => TimeIn(TicksLeft(i), ktimers[i].expire)
    /\ \A p \in Waiters : /\ calls[p].c.id = 0 \/ calls[p].c.fired => calls[p].c.left = 0
                          /\ calls[p].alarm_id = 0 => calls[p].aleft = 0

FiresInv == TimersInv /\ DueInv

(* The tick finds a timer due exactly when one tick was left, also where   *)
(* the count wraps                                                         *)
LEMMA DueAtOne ==
    ASSUME TimerSizes, ticks \in 0 .. TICKS - 1, NEW d, NEW e, TimeIn(d, e)
    PROVE  /\ (ticks + 1) % TICKS \in 0 .. TICKS - 1
           /\ due((ticks + 1) % TICKS, e) <=> d = 1
           /\ d # 1 => d - 1 \in 1 .. (TICKS \div 2) /\ e = (((ticks + 1) % TICKS) + (d - 1)) % TICKS
  <1>. DEFINE h   == TICKS \div 2
              now == (ticks + 1) % TICKS
  <1>1. h \in Nat /\ 2 * h <= TICKS /\ TICKS <= 2 * h + 1 /\ TICKS \in Nat \ {0}
    BY DEF TimerSizes
  <1>2. d \in 1 .. h /\ e = (ticks + d) % TICKS
    BY DEF TimeIn
  <1>. HIDE DEF h
  <1>3. d \in 0 .. TICKS - 1 /\ 1 \in 0 .. TICKS - 1 /\ d - 1 \in 0 .. TICKS - 1
    BY <1>1, <1>2
  <1>4. e = IF ticks + d < TICKS THEN ticks + d ELSE ticks + d - TICKS
    BY ZenonT(30), <1>1, <1>2, <1>3, WrapSum
  <1>5. /\ now = IF ticks + 1 < TICKS THEN ticks + 1 ELSE ticks + 1 - TICKS
        /\ now \in 0 .. TICKS - 1
    BY ZenonT(30), <1>1, <1>3, WrapSum
  <1>. HIDE DEF now
  <1>6. (now + (d - 1)) % TICKS = IF now + (d - 1) < TICKS THEN now + (d - 1) ELSE now + (d - 1) - TICKS
    BY ZenonT(30), <1>1, <1>3, <1>5, WrapSum
  <1>7. e = (now + (d - 1)) % TICKS
    BY <1>1, <1>2, <1>4, <1>5, <1>6
  <1>8. due(now, e) <=> d = 1
    <2>. DEFINE x == now - e + TICKS
    <2>1. x \in Int /\ x \in 1 .. 2 * TICKS - 1
      BY <1>1, <1>2, <1>4, <1>5
    <2>2. /\ x \in 0 .. TICKS - 1 => x % TICKS = x
          /\ x \in TICKS .. 2 * TICKS - 1 => x % TICKS = x - TICKS
      BY <1>1, <2>1, WrapOnce
    <2>3. due(now, e) <=> x % TICKS < h
      BY DEF due, h
    <2>4. x = IF d = 1 THEN TICKS ELSE IF now >= e THEN 2 * TICKS - (d - 1) ELSE TICKS - (d - 1)
      BY <1>1, <1>2, <1>4, <1>5
    <2>. QED BY <1>1, <1>2, <1>4, <1>5, <2>1, <2>2, <2>3, <2>4
  <1>9. d # 1 => d - 1 \in 1 .. h
    BY <1>1, <1>2
  <1>. QED BY <1>5, <1>7, <1>8, <1>9 DEF h, now

(* What a timer's owner counts, where the owner is known                   *)
LEMMA OwnersCount ==
    ASSUME TimersInv, NEW i \in Slots, ktimers[i].used
    PROVE  /\ ktimers[i].who \in Waiters
           /\ ktimers[i].alarm => TicksLeft(i) = calls[ktimers[i].who].aleft /\ calls[ktimers[i].who].alarm_id = i
           /\ ~ktimers[i].alarm => TicksLeft(i) = calls[ktimers[i].who].c.left /\ calls[ktimers[i].who].c.id = i
  BY DEF TimersInv, TypeT, TimersOwned, TicksLeft

(* do_exit leaves the other timers as they are                             *)
LEMMA ExitFires ==
    ASSUME TimerSizes, FiresInv, TimersInv', do_exit
    PROVE  DueInv'
  <1>1. PICK p \in Waiters :
           /\ ktimers' = timer_cancel(ktimers, calls[p].alarm_id)
           /\ calls' = [calls EXCEPT ![p].alarm_id = 0, ![p].aleft = 0]
           /\ UNCHANGED ticks
    BY ZenonT(30) DEF do_exit
  <1>2. calls[p] \in Who /\ calls[p].alarm_id \in 0 .. NTIMER
    BY DEF FiresInv, TimersInv, TypeT, Who
  <1>3. \A i \in Slots : ktimers'[i] = IF i = calls[p].alarm_id THEN Unused ELSE ktimers[i]
    BY <1>1, <1>2, Cancelled DEF FiresInv, TimersInv
  <1>4. \A q \in Waiters : /\ calls'[q].c = calls[q].c
                           /\ q # p => calls'[q] = calls[q]
                           /\ q = p => calls'[q].alarm_id = 0 /\ calls'[q].aleft = 0
    BY <1>1, <1>2 DEF FiresInv, TimersInv, TypeT, Who
  <1>5. ASSUME NEW i \in Slots, ktimers'[i].used
        PROVE  TimeIn(TicksLeft(i), ktimers[i].expire)'
    <2>1. ktimers'[i] = ktimers[i] /\ i # calls[p].alarm_id
      BY <1>3, <1>5 DEF Unused
    <2>2. TicksLeft(i)' = TicksLeft(i)
      BY <1>4, <1>5, <2>1, OwnersCount DEF FiresInv, TicksLeft
    <2>. QED BY <1>1, <1>5, <2>1, <2>2 DEF FiresInv, DueInv, TimeIn
  <1>6. ASSUME NEW q \in Waiters
        PROVE  /\ calls'[q].c.id = 0 \/ calls'[q].c.fired => calls'[q].c.left = 0
               /\ calls'[q].alarm_id = 0 => calls'[q].aleft = 0
    BY <1>4 DEF FiresInv, DueInv
  <1>. QED BY ZenonT(30), <1>1, <1>5, <1>6 DEF FiresInv, DueInv

(* sys_alarm gives the new alarm its time and leaves the others theirs     *)
LEMMA AlarmFires ==
    ASSUME TimerSizes, ShortWaits, FiresInv, TimersInv', sys_alarm
    PROVE  DueInv'
  <1>0. PICK p \in Waiters, n \in Delays \cup {0} :
           LET tab == timer_cancel(ktimers, calls[p].alarm_id)
               slot  == IF n = 0 THEN 0 ELSE timer_add(tab)
           IN  /\ ktimers' = Armed(tab, slot, n, p, TRUE)
               /\ calls' = [calls EXCEPT ![p].alarm_id = slot, ![p].aleft = IF slot = 0 THEN 0 ELSE n]
               /\ UNCHANGED ticks
    BY ZenonT(30) DEF sys_alarm
  <1>. DEFINE tab  == timer_cancel(ktimers, calls[p].alarm_id)
              slot == IF n = 0 THEN 0 ELSE timer_add(tab)
              left == IF slot = 0 THEN 0 ELSE n
  <1>1. ktimers' = Armed(tab, slot, n, p, TRUE) /\ ticks' = ticks
        /\ calls' = [calls EXCEPT ![p].alarm_id = slot, ![p].aleft = left]
    BY ZenonT(30), <1>0
  <1>2. calls[p] \in Who /\ calls[p].alarm_id \in 0 .. NTIMER /\ n \in Nat
    BY DEF FiresInv, TimersInv, TypeT, Who, TimerSizes
  <1>3. /\ tab \in [Slots -> Timer]
        /\ \A i \in Slots : tab[i] = IF i = calls[p].alarm_id THEN Unused ELSE ktimers[i]
    BY <1>2, Cancelled DEF FiresInv, TimersInv
  <1>4. slot = 0 \/ slot \in Slots
    BY SlotIsFree
  <1>5. slot # 0 => n \in 1 .. (TICKS \div 2) /\ left = n
    BY DEF ShortWaits
  <1>6. slot = 0 => left = 0
    OBVIOUS
  <1>. HIDE DEF tab, slot, left
  <1>7. \A q \in Waiters : /\ calls'[q].c = calls[q].c
                           /\ q # p => calls'[q] = calls[q]
                           /\ q = p => calls'[q].alarm_id = slot /\ calls'[q].aleft = left
    BY <1>1, <1>2 DEF FiresInv, TimersInv, TypeT, Who
  <1>8. /\ \A i \in Slots : i # slot => ktimers'[i] = tab[i]
        /\ slot # 0 => ktimers'[slot].expire = (ticks + n) % TICKS /\ ktimers'[slot].who = p /\ ktimers'[slot].alarm = TRUE
    <2>1. CASE slot = 0
      BY <1>1, <2>1 DEF Armed
    <2>2. CASE slot \in Slots
      <3>1. slot # 0
        BY <2>2 DEF Slots
      <3>. QED BY <1>1, <1>3, <2>2, <3>1 DEF Armed
    <2>. QED BY ZenonT(30), <1>4, <2>1, <2>2
  <1>9. ASSUME NEW i \in Slots, ktimers'[i].used
        PROVE  TimeIn(TicksLeft(i), ktimers[i].expire)'
    <2>1. CASE i = slot
      <3>1. slot # 0
        BY <2>1 DEF Slots
      <3>2. ktimers'[i].expire = (ticks + n) % TICKS /\ ktimers'[i].who = p /\ ktimers'[i].alarm = TRUE
        BY <1>8, <2>1, <3>1
      <3>3. TicksLeft(i)' = n
        BY <1>5, <1>7, <3>1, <3>2 DEF TicksLeft
      <3>. QED BY ZenonT(30), <1>1, <1>5, <3>1, <3>2, <3>3 DEF TimeIn
    <2>2. CASE i # slot
      <3>1. ktimers'[i] = ktimers[i] /\ i # calls[p].alarm_id
        BY <1>3, <1>8, <1>9, <2>2 DEF Unused
      <3>2. TicksLeft(i)' = TicksLeft(i)
        BY <1>7, <1>9, <3>1, OwnersCount DEF FiresInv, TicksLeft
      <3>. QED BY ZenonT(30), <1>1, <1>9, <3>1, <3>2 DEF FiresInv, DueInv, TimeIn
    <2>. QED BY <2>1, <2>2
  <1>. QED BY ZenonT(30), <1>1, <1>6, <1>7, <1>9 DEF FiresInv, DueInv

(* A call gets its time, or waits without a timer                          *)
LEMMA CallFires ==
    ASSUME TimerSizes, ShortWaits, FiresInv, TimersInv', Call
    PROVE  DueInv'
  <1>0. PICK p \in Waiters, k \in Kinds, n \in Delays :
           /\ calls[p].c.st = "idle"
           /\ LET slot == timer_add(ktimers)
              IN  /\ ktimers' = Armed(ktimers, slot, n, p, FALSE)
                  /\ calls' = [calls EXCEPT ![p].c =
                         [Idle EXCEPT !.st = "asleep", !.kind = k, !.id = slot, !.left = IF slot = 0 THEN 0 ELSE n]]
           /\ UNCHANGED ticks
    BY ZenonT(30) DEF Call
  <1>. DEFINE slot == timer_add(ktimers)
              left == IF slot = 0 THEN 0 ELSE n
              c0   == [Idle EXCEPT !.st = "asleep", !.kind = k, !.id = slot, !.left = left]
  <1>1. ktimers' = Armed(ktimers, slot, n, p, FALSE) /\ calls' = [calls EXCEPT ![p].c = c0] /\ ticks' = ticks
    BY <1>0
  <1>2. calls[p] \in Who /\ n \in Nat /\ n \in 1 .. (TICKS \div 2) /\ ktimers \in [Slots -> Timer]
    BY DEF FiresInv, TimersInv, TypeT, TimerSizes, ShortWaits
  <1>3. slot = 0 \/ (slot \in Slots /\ ~ktimers[slot].used)
    BY SlotIsFree
  <1>4. (slot = 0 => left = 0) /\ (slot # 0 => left = n)
    OBVIOUS
  <1>. HIDE DEF slot, left
  <1>5. c0.id = slot /\ ~c0.fired /\ c0.left = left
    BY DEF Idle
  <1>. HIDE DEF c0
  <1>6. \A q \in Waiters : /\ calls'[q].alarm_id = calls[q].alarm_id /\ calls'[q].aleft = calls[q].aleft
                           /\ q # p => calls'[q] = calls[q]
                           /\ q = p => calls'[q].c = c0
    BY <1>1, <1>2 DEF FiresInv, TimersInv, TypeT, Who
  <1>7. /\ \A i \in Slots : i # slot => ktimers'[i] = ktimers[i]
        /\ slot # 0 => ktimers'[slot].expire = (ticks + n) % TICKS /\ ktimers'[slot].who = p /\ ktimers'[slot].alarm = FALSE
    <2>1. CASE slot = 0
      BY <1>1, <2>1 DEF Armed
    <2>2. CASE slot \in Slots
      <3>1. slot # 0
        BY <2>2 DEF Slots
      <3>. QED BY <1>1, <1>2, <2>2, <3>1 DEF Armed
    <2>. QED BY ZenonT(30), <1>3, <2>1, <2>2
  <1>8. ASSUME NEW i \in Slots, ktimers'[i].used
        PROVE  TimeIn(TicksLeft(i), ktimers[i].expire)'
    <2>1. CASE i = slot
      <3>1. slot # 0
        BY <2>1 DEF Slots
      <3>2. ktimers'[i].expire = (ticks + n) % TICKS /\ ktimers'[i].who = p /\ ktimers'[i].alarm = FALSE
        BY <1>7, <2>1, <3>1
      <3>3. TicksLeft(i)' = n
        BY <1>4, <1>5, <1>6, <3>1, <3>2 DEF TicksLeft
      <3>. QED BY ZenonT(30), <1>1, <1>2, <3>2, <3>3 DEF TimeIn
    <2>2. CASE i # slot
      <3>1. ktimers'[i] = ktimers[i]
        BY <1>7, <2>2
      <3>2. ~ktimers[i].alarm => ktimers[i].who # p
        <4>1. calls[ktimers[i].who].c.st # "idle" \/ ktimers[i].alarm
          BY <1>8, <3>1 DEF FiresInv, TimersInv, TimersOwned
        <4>. QED BY <1>0, <4>1
      <3>3. ktimers[i].who \in Waiters
        BY <1>8, <3>1 DEF FiresInv, TimersInv, TypeT
      <3>4. TicksLeft(i)' = TicksLeft(i)
        BY <1>6, <3>1, <3>2, <3>3 DEF TicksLeft
      <3>. QED BY ZenonT(30), <1>1, <1>8, <3>1, <3>4 DEF FiresInv, DueInv, TimeIn
    <2>. QED BY <2>1, <2>2
  <1>9. ASSUME NEW q \in Waiters, calls'[q].c.id = 0 \/ calls'[q].c.fired
        PROVE  calls'[q].c.left = 0
    BY <1>4, <1>5, <1>6, <1>9 DEF FiresInv, DueInv
  <1>. QED BY ZenonT(30), <1>1, <1>6, <1>8, <1>9 DEF FiresInv, DueInv

(* A call that ends takes its timer with it; one that sleeps again keeps   *)
(* its time                                                                *)
LEMMA ResumeFires ==
    ASSUME TimerSizes, FiresInv, TimersInv', Resume
    PROVE  DueInv'
  <1>0. PICK p \in Waiters :
           /\ ktimers' = IF cancels(calls[p].c) THEN timer_cancel(ktimers, calls[p].c.id) ELSE ktimers
           /\ calls' = [calls EXCEPT ![p].c = IF ends(calls[p].c) THEN Idle ELSE [calls[p].c EXCEPT !.st = "asleep"]]
           /\ UNCHANGED ticks
    BY ZenonT(30) DEF Resume
  <1>. DEFINE c1 == IF ends(calls[p].c) THEN Idle ELSE [calls[p].c EXCEPT !.st = "asleep"]
  <1>1. calls' = [calls EXCEPT ![p].c = c1] /\ ticks' = ticks
    BY <1>0
  <1>2. calls[p] \in Who /\ calls[p].c \in Waiting /\ calls[p].c.id \in 0 .. NTIMER
    BY DEF FiresInv, TimersInv, TypeT, Who, Waiting
  <1>3. /\ ends(calls[p].c) => c1.id = 0 /\ c1.left = 0
        /\ ~ends(calls[p].c) => c1.id = calls[p].c.id /\ c1.fired = calls[p].c.fired /\ c1.left = calls[p].c.left
    BY <1>2 DEF Idle, Waiting
  <1>. HIDE DEF c1
  <1>4. \A q \in Waiters : /\ calls'[q].alarm_id = calls[q].alarm_id /\ calls'[q].aleft = calls[q].aleft
                           /\ q # p => calls'[q] = calls[q]
                           /\ q = p => calls'[q].c = c1
    BY <1>1, <1>2 DEF FiresInv, TimersInv, TypeT, Who
  <1>5. \A i \in Slots : \/ ktimers'[i] = ktimers[i] /\ (cancels(calls[p].c) => i # calls[p].c.id)
                         \/ ~ktimers'[i].used
    <2>1. CASE cancels(calls[p].c)
      BY <1>0, <1>2, <2>1, Cancelled DEF FiresInv, TimersInv, Unused
    <2>2. CASE ~cancels(calls[p].c)
      BY <1>0, <2>2
    <2>. QED BY <2>1, <2>2
  <1>6. ASSUME NEW i \in Slots, ktimers'[i].used
        PROVE  TimeIn(TicksLeft(i), ktimers[i].expire)'
    <2>1. ktimers'[i] = ktimers[i] /\ ktimers[i].who \in Waiters
      BY <1>5, <1>6 DEF FiresInv, TimersInv, TypeT
    <2>2. ~ktimers[i].alarm /\ ktimers[i].who = p => ~ends(calls[p].c)
      <3>1. ~ktimers[i].alarm /\ ktimers[i].who = p => calls[p].c.id = i /\ ~calls[p].c.fired
        BY <1>6, <2>1 DEF FiresInv, TimersInv, TimersOwned
      <3>. QED BY <1>5, <1>6, <3>1 DEF cancels
    <2>3. TicksLeft(i)' = TicksLeft(i)
      BY <1>3, <1>4, <2>1, <2>2 DEF TicksLeft
    <2>. QED BY <1>1, <1>6, <2>1, <2>3 DEF FiresInv, DueInv, TimeIn
  <1>7. ASSUME NEW q \in Waiters, calls'[q].c.id = 0 \/ calls'[q].c.fired
        PROVE  calls'[q].c.left = 0
    BY <1>3, <1>4, <1>7 DEF FiresInv, DueInv
  <1>. QED BY <1>1, <1>4, <1>6, <1>7 DEF FiresInv, DueInv

(* Signals and input leave the times alone                                 *)
LEMMA WakeFires ==
    ASSUME FiresInv, TimersInv', Signal \/ Input
    PROVE  DueInv'
  <1>1. \A p \in Waiters : calls[p] \in Who /\ calls[p].c \in Waiting
    BY DEF FiresInv, TimersInv, TypeT, Who
  <1>2. /\ UNCHANGED <<ticks, ktimers>>
        /\ \E p \in Waiters, own \in BOOLEAN :
              \/ calls' = [calls EXCEPT ![p].c = Signalled(calls[p].c)]
              \/ calls' = [calls EXCEPT ![p].c = [Roused(calls[p].c) EXCEPT !.ready = own]]
    BY ZenonT(30) DEF Signal, Input
  <1>3. PICK p \in Waiters, own \in BOOLEAN :
              \/ calls' = [calls EXCEPT ![p].c = Signalled(calls[p].c)]
              \/ calls' = [calls EXCEPT ![p].c = [Roused(calls[p].c) EXCEPT !.ready = own]]
    BY <1>2
  <1>4. ASSUME NEW d \in {Signalled(calls[p].c), [Roused(calls[p].c) EXCEPT !.ready = own]}
        PROVE  d.id = calls[p].c.id /\ d.fired = calls[p].c.fired /\ d.left = calls[p].c.left
    BY <1>1 DEF Signalled, Roused, Waiting
  <1>5. PICK d : /\ d.id = calls[p].c.id /\ d.fired = calls[p].c.fired /\ d.left = calls[p].c.left
                 /\ calls' = [calls EXCEPT ![p].c = d]
    BY ZenonT(30), <1>3, <1>4
  <1>6. \A q \in Waiters : /\ calls'[q].alarm_id = calls[q].alarm_id /\ calls'[q].aleft = calls[q].aleft
                           /\ calls'[q].c.id = calls[q].c.id /\ calls'[q].c.fired = calls[q].c.fired
                           /\ calls'[q].c.left = calls[q].c.left
    BY <1>1, <1>5 DEF FiresInv, TimersInv, TypeT, Who
  <1>7. ASSUME NEW i \in Slots, ktimers'[i].used
        PROVE  TimeIn(TicksLeft(i), ktimers[i].expire)'
    <2>1. ktimers'[i] = ktimers[i] /\ ktimers[i].who \in Waiters
      BY <1>2, <1>7 DEF FiresInv, TimersInv, TypeT
    <2>2. TicksLeft(i)' = TicksLeft(i)
      BY <1>6, <2>1 DEF TicksLeft
    <2>. QED BY <1>2, <1>7, <2>1, <2>2 DEF FiresInv, DueInv, TimeIn
  <1>. QED BY <1>2, <1>6, <1>7 DEF FiresInv, DueInv

(* The tick: a timer is hit when one tick was left, and its owner with it  *)
LEMMA TickFires ==
    ASSUME TimerSizes, FiresInv, TimersInv', timer_tick
    PROVE  DueInv'
  <1>. DEFINE now == (ticks + 1) % TICKS
              hit == {i \in Slots : ktimers[i].used /\ due(now, ktimers[i].expire)}
              Hit(p, alarm) == \E i \in hit : ktimers[i].who = p /\ ktimers[i].alarm = alarm
              c0(p)   == [calls[p].c EXCEPT !.left = Counted(@)]
              told(p) == IF Hit(p, FALSE) THEN [Roused(c0(p)) EXCEPT !.fired = TRUE] ELSE c0(p)
              c1(p)   == IF Hit(p, TRUE) THEN Signalled(told(p)) ELSE told(p)
              new(p)  == [c |-> c1(p), alarm_id |-> IF Hit(p, TRUE) THEN 0 ELSE calls[p].alarm_id,
                          aleft |-> Counted(calls[p].aleft)]
  <1>1. /\ ticks' = now
        /\ ktimers' = [i \in Slots |-> IF i \in hit THEN Unused ELSE ktimers[i]]
        /\ calls' = [p \in Waiters |-> new(p)]
    BY DEF timer_tick
  <1>2. ticks \in 0 .. TICKS - 1
    BY DEF FiresInv, DueInv
  <1>3. \A i \in Slots : ktimers[i].used =>
           /\ i \in hit <=> TicksLeft(i) = 1
           /\ i \notin hit => TicksLeft(i) - 1 \in 1 .. (TICKS \div 2) /\ ktimers[i].expire = (now + (TicksLeft(i) - 1)) % TICKS
    <2>. SUFFICES ASSUME NEW i \in Slots, ktimers[i].used
                  PROVE  /\ i \in hit <=> TicksLeft(i) = 1
                         /\ i \notin hit => /\ TicksLeft(i) - 1 \in 1 .. (TICKS \div 2)
                                            /\ ktimers[i].expire = (now + (TicksLeft(i) - 1)) % TICKS
      OBVIOUS
    <2>1. TimeIn(TicksLeft(i), ktimers[i].expire)
      BY DEF FiresInv, DueInv
    <2>2. /\ due(now, ktimers[i].expire) <=> TicksLeft(i) = 1
          /\ TicksLeft(i) # 1 => /\ TicksLeft(i) - 1 \in 1 .. (TICKS \div 2)
                                 /\ ktimers[i].expire = (now + (TicksLeft(i) - 1)) % TICKS
      BY ZenonT(30), <1>2, <2>1, DueAtOne
    <2>. QED BY <2>2
  <1>4. now \in 0 .. TICKS - 1
    BY <1>2 DEF TimerSizes
  <1>5. \A i \in hit : i \in Slots /\ ktimers[i].used
    OBVIOUS
  <1>. HIDE DEF now, hit
  (* Who is hit, in the words of the owner                                   *)
  <1>6. ASSUME NEW p \in Waiters
        PROVE  /\ Hit(p, FALSE) <=> calls[p].c.id # 0 /\ ~calls[p].c.fired /\ calls[p].c.id \in hit
               /\ Hit(p, TRUE) <=> calls[p].alarm_id # 0 /\ calls[p].alarm_id \in hit
    <2>1. calls[p].c.id \in Slots \cup {0} /\ calls[p].alarm_id \in Slots \cup {0} /\ 0 \notin Slots
      BY NumbersOfSlots DEF FiresInv, TimersInv, Slots
    <2>2. ASSUME NEW i \in hit, ktimers[i].who = p
          PROVE  IF ktimers[i].alarm THEN calls[p].alarm_id = i ELSE calls[p].c.id = i /\ ~calls[p].c.fired
      BY <1>5, <2>2 DEF FiresInv, TimersInv, TimersOwned
    <2>3. /\ calls[p].c.id # 0 /\ ~calls[p].c.fired => ktimers[calls[p].c.id].who = p /\ ~ktimers[calls[p].c.id].alarm
          /\ calls[p].alarm_id # 0 => ktimers[calls[p].alarm_id].who = p /\ ktimers[calls[p].alarm_id].alarm
      BY DEF FiresInv, TimersInv, TimersOwned
    <2>4. \A i \in hit : ktimers[i].alarm \in BOOLEAN
      BY <1>5 DEF FiresInv, TimersInv, TypeT, Timer
    <2>. QED BY <1>5, <2>1, <2>2, <2>3, <2>4
  <1>. HIDE DEF Hit
  <1>7. ASSUME NEW p \in Waiters
        PROVE  /\ c1(p).id = calls[p].c.id /\ c1(p).left = Counted(calls[p].c.left)
               /\ c1(p).fired <=> (Hit(p, FALSE) \/ calls[p].c.fired)
    <2>1. calls[p].c \in Waiting
      BY DEF FiresInv, TimersInv, TypeT, Who
    <2>2. c0(p).id = calls[p].c.id /\ c0(p).fired = calls[p].c.fired /\ c0(p).left = Counted(calls[p].c.left)
          /\ DOMAIN c0(p) = DOMAIN calls[p].c
      BY <2>1 DEF Waiting
    <2>. QED BY <2>1 DEF Waiting, Roused, Signalled
  <1>. HIDE DEF c1
  <1>8. \A p \in Waiters : /\ calls'[p].c.id = calls[p].c.id /\ calls'[p].c.left = Counted(calls[p].c.left)
                           /\ calls'[p].c.fired <=> (Hit(p, FALSE) \/ calls[p].c.fired)
                           /\ calls'[p].alarm_id = IF Hit(p, TRUE) THEN 0 ELSE calls[p].alarm_id
                           /\ calls'[p].aleft = Counted(calls[p].aleft)
    BY ZenonT(30), <1>1, <1>7
  <1>. HIDE DEF new
  <1>9. \A i \in Slots : ktimers'[i] = IF i \in hit THEN Unused ELSE ktimers[i]
    BY <1>1
  <1>10. ASSUME NEW i \in Slots, ktimers'[i].used
         PROVE  TimeIn(TicksLeft(i), ktimers[i].expire)'
    <2>1. ktimers'[i] = ktimers[i] /\ i \notin hit
      BY <1>9, <1>10 DEF Unused
    <2>2. ktimers[i].who \in Waiters
      BY <1>10, <2>1 DEF FiresInv, TimersInv, TypeT
    <2>3. TicksLeft(i)' = Counted(TicksLeft(i))
      BY ZenonT(30), <1>8, <2>1, <2>2 DEF TicksLeft
    <2>4. TicksLeft(i) \in Int /\ TicksLeft(i) # 0
      BY <1>10, <2>1 DEF FiresInv, DueInv, TimeIn
    <2>5. TicksLeft(i)' = TicksLeft(i) - 1
      BY <2>3, <2>4 DEF Counted
    <2>. QED BY <1>1, <1>3, <1>10, <2>1, <2>5 DEF TimeIn
  <1>11. ASSUME NEW p \in Waiters
         PROVE  /\ calls'[p].c.id = 0 \/ calls'[p].c.fired => calls'[p].c.left = 0
                /\ calls'[p].alarm_id = 0 => calls'[p].aleft = 0
    <2>1. Counted(0) = 0 /\ Counted(1) = 0
      BY DEF Counted
    <2>2. Hit(p, FALSE) => calls[p].c.left = 1
      <3>1. Hit(p, FALSE) => ktimers[calls[p].c.id].used /\ ~ktimers[calls[p].c.id].alarm /\ ktimers[calls[p].c.id].who = p
        BY ZenonT(30), <1>6 DEF FiresInv, TimersInv, TimersOwned
      <3>. QED BY ZenonT(30), <1>3, <1>5, <1>6, <3>1 DEF TicksLeft
    <2>3. Hit(p, TRUE) => calls[p].aleft = 1
      <3>1. Hit(p, TRUE) => LET a == calls[p].alarm_id IN ktimers[a].used /\ ktimers[a].alarm /\ ktimers[a].who = p
        BY ZenonT(30), <1>6 DEF FiresInv, TimersInv, TimersOwned
      <3>. QED BY ZenonT(30), <1>3, <1>5, <1>6, <3>1 DEF TicksLeft
    <2>4. /\ calls[p].c.id = 0 \/ calls[p].c.fired => calls[p].c.left = 0
          /\ calls[p].alarm_id = 0 => calls[p].aleft = 0
      BY DEF FiresInv, DueInv
    <2>. QED BY ZenonT(30), <1>6, <1>8, <2>1, <2>2, <2>3, <2>4
  <1>. QED BY <1>1, <1>4, <1>10, <1>11 DEF DueInv

(* Timers are owned as above and each fires at its tick, neither before    *)
(* nor after, whatever the number of slots and of processes and however    *)
(* often the count of ticks has wrapped, if no wait is longer than half    *)
(* its period (timer_tick's signed difference).                            *)
THEOREM TimersStaySound ==
    ASSUME TimerSizes, ShortWaits
    PROVE  TSpec => []TimersSound
  <1>1. TSpec => []TimersInv
    BY TimersHold
  <1>2. TInit /\ TimersInv => DueInv
    <2>. SUFFICES ASSUME TInit PROVE DueInv
      OBVIOUS
    <2>1. Idle.id = 0 /\ Idle.left = 0 /\ ~Unused.used
      BY DEF Idle, Unused
    <2>. DEFINE w == [c |-> Idle, alarm_id |-> 0, aleft |-> 0]
    <2>2. w.c = Idle /\ w.alarm_id = 0 /\ w.aleft = 0
      OBVIOUS
    <2>3. ticks = 0 /\ ktimers = [i \in Slots |-> Unused] /\ calls = [p \in Waiters |-> w]
      BY DEF TInit
    <2>. HIDE DEF w
    <2>4. 0 \in 0 .. TICKS - 1
      BY DEF TimerSizes
    <2>. QED BY <2>1, <2>2, <2>3, <2>4 DEF DueInv
  <1>3. TimersInv /\ TimersInv' /\ DueInv /\ [TNext]_<<ticks, ktimers, calls>> => DueInv'
    <2>. SUFFICES ASSUME TimersInv, TimersInv', DueInv, [TNext]_<<ticks, ktimers, calls>>
                  PROVE  DueInv'
      OBVIOUS
    <2>1. CASE UNCHANGED <<ticks, ktimers, calls>>
      BY <2>1 DEF DueInv, TimeIn, TicksLeft
    <2>. QED BY <2>1, CallFires, AlarmFires, ExitFires, TickFires, WakeFires, ResumeFires DEF TNext, FiresInv
  <1>4. TimersInv /\ DueInv => TimersSound
    <2>. SUFFICES ASSUME TimersInv, DueInv, NEW p \in Waiters
                  PROVE  /\ calls[p].c.id # 0 => (calls[p].c.fired <=> calls[p].c.left = 0)
                         /\ calls[p].alarm_id # 0 <=> calls[p].aleft # 0
      BY DEF TimersSound, TimersInv, FiresOnTick
    <2>1. calls[p].c.id \in Slots \cup {0} /\ calls[p].alarm_id \in Slots \cup {0}
      BY NumbersOfSlots DEF TimersInv
    <2>2. \A i \in Slots : ktimers[i].used => TicksLeft(i) # 0
      BY DEF DueInv, TimeIn
    <2>3. calls[p].c.id # 0 /\ ~calls[p].c.fired => calls[p].c.left # 0
      <3>1. calls[p].c.id # 0 /\ ~calls[p].c.fired =>
               LET i == calls[p].c.id IN ktimers[i].used /\ ktimers[i].who = p /\ ~ktimers[i].alarm
        BY DEF TimersInv, TimersOwned
      <3>. QED BY <2>1, <2>2, <3>1 DEF TicksLeft
    <2>4. calls[p].alarm_id # 0 => calls[p].aleft # 0
      <3>1. calls[p].alarm_id # 0 => LET i == calls[p].alarm_id IN ktimers[i].used /\ ktimers[i].who = p /\ ktimers[i].alarm
        BY DEF TimersInv, TimersOwned
      <3>. QED BY <2>1, <2>2, <3>1 DEF TicksLeft
    <2>. QED BY <2>3, <2>4 DEF DueInv
  <1>. QED BY <1>1, <1>2, <1>3, <1>4, PTL DEF TSpec

(***************************************************************************)
(* The block cache                                                         *)
(***************************************************************************)
(* The code has 2 disks, 16 sets and 4 ways                                *)
BlockSizes == Disks \subseteq Nat /\ NBlocks \in Nat /\ SETS \in Nat \ {0} /\ WAYS \in Nat \ {0}

Data == Datas \cup {0}
Line == [valid : BOOLEAN, disk : Disks \cup {0}, blk : BlockNos \cup {0}, data : Data, used : Nat]

TypeB == disk \in [Disks \X BlockNos -> Data] /\ cache \in [Lines -> Line]

(* A line lies in the set of its block.  This is why a search of one set   *)
(* sees every copy.                                                        *)
Placed == \A l \in Lines : cache[l].valid =>
    cache[l].disk \in Disks /\ cache[l].blk \in BlockNos /\ l[1] = set(cache[l].disk, cache[l].blk)

BlocksInv == TypeB /\ Placed /\ OneLine /\ CacheIsDisk

Same(r, s) == r.valid = s.valid /\ r.disk = s.disk /\ r.blk = s.blk /\ r.data = s.data

(* A line that holds nothing                                               *)
LEMMA NoLineIsLine == NoLine \in Line /\ ~NoLine.valid
  BY DEF NoLine, Line, Data

(* A block has a set, and the set has ways                                 *)
LEMMA SetIsSet ==
    ASSUME BlockSizes, NEW d \in Disks, NEW b \in BlockNos
    PROVE  set(d, b) \in 0 .. SETS - 1 /\ Ways(d, b) # {}
  <1>1. (b * 2) + d \in Nat
    BY DEF BlockSizes, BlockNos
  <1>2. set(d, b) \in 0 .. SETS - 1
    BY <1>1 DEF set, BlockSizes
  <1>3. <<set(d, b), 1>> \in Ways(d, b)
    BY <1>2 DEF Ways, Lines, BlockSizes
  <1>. QED BY <1>2, <1>3

(* The line to be given up is one of the block's set                       *)
LEMMA VictimOfSet ==
    ASSUME BlockSizes, TypeB, NEW d \in Disks, NEW b \in BlockNos
    PROVE  victim(d, b) \in Ways(d, b)
  <1>. DEFINE W == Ways(d, b)
              free == {l \in W : ~cache[l].valid}
  <1>1. W # {} /\ W \subseteq Lines
    BY SetIsSet DEF Ways
  <1>2. CASE free # {}
    <2>. DEFINE N == {l[2] : l \in free}
    <2>1. N \subseteq 0 .. WAYS /\ N # {}
      BY <1>1, <1>2 DEF Lines, BlockSizes
    <2>. HIDE DEF N
    <2>2. PICK m \in N : \A n \in N : n <= m
      BY ZenonT(30), <2>1, GreatestMember DEF BlockSizes
    <2>3. \E l \in free : \A k \in free : k[2] <= l[2]
      BY <2>2 DEF N
    <2>4. victim(d, b) \in free
      BY <1>2, <2>3 DEF victim
    <2>. QED BY <2>4
  <1>3. CASE free = {}
    <2>. DEFINE N == {cache[l].used : l \in W}
    <2>1. \A l \in W : cache[l] \in Line
      BY <1>1 DEF TypeB
    <2>2. \A l \in W : cache[l].used \in Nat
      BY <2>1 DEF Line
    <2>3. N \subseteq Nat /\ N # {}
      BY <1>1, <2>2
    <2>. HIDE DEF N
    <2>4. PICK m \in N : \A n \in N : m <= n
      BY ZenonT(30), <2>3, LeastMember
    <2>5. \E l \in W : \A k \in W : cache[l].used <= cache[k].used
      BY <2>4 DEF N
    <2>. QED BY <1>3, <2>5 DEF victim
  <1>. QED BY <1>2, <1>3

(* There are finitely many lines                                           *)
LEMMA LinesFinite ==
    ASSUME BlockSizes
    PROVE  IsFiniteSet(Lines)
  <1>1. IsFiniteSet(0 .. SETS - 1) /\ IsFiniteSet(1 .. WAYS)
    BY FS_Interval DEF BlockSizes
  <1>. QED BY ZenonT(30), <1>1, FS_Product DEF Lines

(* Touching a line replaces it and leaves what the others hold             *)
LEMMA TouchedIs ==
    ASSUME BlockSizes, NEW c \in [Lines -> Line], NEW l \in Lines, NEW rec \in Line
    PROVE  /\ Touched(c, l, rec) \in [Lines -> Line]
           /\ \A k \in Lines : Same(Touched(c, l, rec)[k], IF k = l THEN rec ELSE c[k])
  <1>. DEFINE top == [rec EXCEPT !.used = WAYS + 1]
              new == [c EXCEPT ![l] = top]
              Older(k) == {j \in Lines : j[1] = k[1] /\ new[j].valid /\ new[j].used < new[k].used}
              t == Touched(c, l, rec)
  <1>1. t = [k \in Lines |-> IF new[k].valid THEN [new[k] EXCEPT !.used = Cardinality(Older(k)) + 1] ELSE new[k]]
    BY DEF Touched
  <1>2. top \in Line /\ Same(top, rec)
    BY DEF Line, Same, BlockSizes
  <1>. HIDE DEF top
  <1>3. new \in [Lines -> Line] /\ \A k \in Lines : Same(new[k], IF k = l THEN rec ELSE c[k])
    BY <1>2 DEF Same
  <1>4. \A k \in Lines : Cardinality(Older(k)) + 1 \in Nat
    <2>. TAKE k \in Lines
    <2>1. IsFiniteSet(Older(k))
      BY LinesFinite, FS_Subset
    <2>. QED BY <2>1, FS_CardinalityType
  <1>. HIDE DEF new, Older, t
  <1>5. ASSUME NEW k \in Lines
        PROVE  t[k] \in Line /\ Same(t[k], new[k])
    <2>1. new[k] \in Line /\ Cardinality(Older(k)) + 1 \in Nat
      BY <1>3, <1>4
    <2>2. LET r == [new[k] EXCEPT !.used = Cardinality(Older(k)) + 1] IN r \in Line /\ Same(r, new[k])
      BY <2>1 DEF Line, Same
    <2>3. t[k] = IF new[k].valid THEN [new[k] EXCEPT !.used = Cardinality(Older(k)) + 1] ELSE new[k]
      BY <1>1
    <2>4. Same(new[k], new[k])
      BY DEF Same
    <2>. QED BY <2>1, <2>2, <2>3, <2>4
  <1>6. t \in [Lines -> Line]
    BY ZenonT(30), <1>1, <1>5
  <1>7. \A k \in Lines : Same(t[k], IF k = l THEN rec ELSE c[k])
    BY <1>3, <1>5 DEF Same
  <1>. QED BY <1>6, <1>7 DEF t

(* A step after which one line holds block b of disk d, the only one that  *)
(* may have held it before                                                 *)
LEMMA PutKeeps ==
    ASSUME BlockSizes, BlocksInv, NEW d \in Disks, NEW b \in BlockNos, NEW l \in Ways(d, b), NEW rec \in Line,
           found(d, b) \subseteq {l},
           rec.valid, rec.disk = d, rec.blk = b,
           d \notin behind => rec.data = disk'[<<d, b>>],
           cache' = Touched(cache, l, rec),
           disk' \in [Disks \X BlockNos -> Data],
           \A y \in Disks \X BlockNos : y # <<d, b>> => disk'[y] = disk[y],
           behind' = behind
    PROVE  BlocksInv'
  <1>1. l \in Lines /\ l[1] = set(d, b) /\ cache \in [Lines -> Line]
    BY DEF Ways, BlocksInv, TypeB
  <1>2. cache' \in [Lines -> Line] /\ \A k \in Lines : Same(cache'[k], IF k = l THEN rec ELSE cache[k])
    BY ZenonT(30), <1>1, TouchedIs
  <1>3. \A k \in Lines : k # l /\ cache[k].valid => ~(cache[k].disk = d /\ cache[k].blk = b)
    BY DEF found, Ways, BlocksInv, Placed
  <1>4. /\ \A k \in Lines : k # l => /\ cache'[k].valid = cache[k].valid /\ cache'[k].disk = cache[k].disk
                                     /\ cache'[k].blk = cache[k].blk /\ cache'[k].data = cache[k].data
        /\ cache'[l].valid /\ cache'[l].disk = d /\ cache'[l].blk = b /\ cache'[l].data = rec.data
    BY <1>1, <1>2 DEF Same
  <1>5. TypeB'
    BY <1>2 DEF TypeB
  <1>6. Placed'
    BY <1>1, <1>4 DEF Placed, BlocksInv
  <1>7. OneLine'
    BY <1>3, <1>4 DEF OneLine, BlocksInv
  <1>8. CacheIsDisk'
    <2>. SUFFICES ASSUME NEW k \in Lines, cache'[k].valid, cache'[k].disk \notin behind
                  PROVE  cache'[k].data = disk'[<<cache'[k].disk, cache'[k].blk>>]
      BY DEF CacheIsDisk
    <2>1. CASE k = l
      BY <1>4, <2>1
    <2>2. CASE k # l
      <3>1. cache[k].disk \in Disks /\ cache[k].blk \in BlockNos
        BY <1>4, <2>2 DEF BlocksInv, Placed
      <3>2. <<cache[k].disk, cache[k].blk>> # <<d, b>>
        BY <1>3, <1>4, <2>2
      <3>3. disk'[<<cache[k].disk, cache[k].blk>>] = disk[<<cache[k].disk, cache[k].blk>>]
        BY <3>1, <3>2
      <3>. QED BY <1>4, <2>2, <3>3 DEF BlocksInv, CacheIsDisk
    <2>. QED BY <2>1, <2>2
  <1>. QED BY <1>5, <1>6, <1>7, <1>8 DEF BlocksInv

(* A step that only forgets lines, among them all whose block changes on   *)
(* the disk                                                                *)
LEMMA ForgetKeeps ==
    ASSUME BlockSizes, BlocksInv, cache' \in [Lines -> Line], disk' \in [Disks \X BlockNos -> Data],
           \A k \in Lines : cache'[k].valid => Same(cache'[k], cache[k]),
           \A k \in Lines : cache'[k].valid /\ cache'[k].disk \notin behind' =>
               /\ cache[k].disk \notin behind
               /\ disk'[<<cache[k].disk, cache[k].blk>>] = disk[<<cache[k].disk, cache[k].blk>>]
    PROVE  BlocksInv'
  <1>1. \A k \in Lines : cache'[k].valid => /\ cache[k].valid /\ cache'[k].disk = cache[k].disk
                                            /\ cache'[k].blk = cache[k].blk /\ cache'[k].data = cache[k].data
    BY DEF Same
  <1>2. TypeB'
    BY DEF TypeB
  <1>3. Placed' /\ OneLine'
    BY <1>1 DEF BlocksInv, Placed, OneLine
  <1>4. CacheIsDisk'
    BY <1>1 DEF BlocksInv, CacheIsDisk
  <1>. QED BY <1>2, <1>3, <1>4 DEF BlocksInv

(* A search finds one line at most                                         *)
LEMMA FoundOnce ==
    ASSUME BlocksInv, NEW d, NEW b, NEW l \in found(d, b)
    PROVE  found(d, b) \subseteq {l} /\ l \in Ways(d, b) /\ l \in Lines
  BY DEF found, Ways, BlocksInv, OneLine

(* bread fills a line of the block's set, or none when the disk fails      *)
LEMMA ReadStep ==
    ASSUME BlockSizes, BlocksInv, bread
    PROVE  BlocksInv'
  <1>1. PICK d \in Disks, b \in BlockNos :
            /\ UNCHANGED <<disk, behind>>
            /\ IF found(d, b) # {}
               THEN LET l == CHOOSE k \in found(d, b) : TRUE IN cache' = Touched(cache, l, cache[l])
               ELSE LET v == victim(d, b)
                    IN  \/ cache' = Touched(cache, v, [valid |-> TRUE, disk |-> d, blk |-> b, data |-> disk[<<d, b>>], used |-> 0])
                        \/ cache' = [cache EXCEPT ![v] = NoLine]
    BY ZenonT(30) DEF bread
  <1>2. cache \in [Lines -> Line] /\ disk \in [Disks \X BlockNos -> Data]
    BY DEF BlocksInv, TypeB
  <1>3. CASE found(d, b) # {}
    <2>. DEFINE l == CHOOSE k \in found(d, b) : TRUE
    <2>1. l \in found(d, b) /\ cache' = Touched(cache, l, cache[l])
      BY <1>1, <1>3
    <2>. HIDE DEF l
    <2>2. found(d, b) \subseteq {l} /\ l \in Ways(d, b) /\ l \in Lines
      BY <2>1, FoundOnce
    <2>3. cache[l].valid /\ cache[l].disk = d /\ cache[l].blk = b /\ cache[l] \in Line
      BY <1>2, <2>1, <2>2 DEF found
    <2>4. d \notin behind => cache[l].data = disk'[<<d, b>>]
      BY <1>1, <2>2, <2>3 DEF BlocksInv, CacheIsDisk
    <2>5. disk' = disk /\ behind' = behind
      BY <1>1
    <2>. QED BY <1>2, <2>1, <2>2, <2>3, <2>4, <2>5, PutKeeps
  <1>4. CASE found(d, b) = {}
    <2>. DEFINE v == victim(d, b)
                rec == [valid |-> TRUE, disk |-> d, blk |-> b, data |-> disk[<<d, b>>], used |-> 0]
    <2>1. v \in Ways(d, b) /\ v \in Lines
      BY VictimOfSet DEF BlocksInv, Ways
    <2>2. cache' = Touched(cache, v, rec) \/ cache' = [cache EXCEPT ![v] = NoLine]
      BY <1>1, <1>4
    <2>3. disk[<<d, b>>] \in Data
      BY <1>2
    <2>4. rec \in Line /\ rec.valid /\ rec.disk = d /\ rec.blk = b /\ rec.data = disk[<<d, b>>]
      BY <2>3 DEF Line
    <2>5. disk' = disk /\ behind' = behind
      BY <1>1
    <2>. HIDE DEF v, rec
    <2>6. CASE cache' = Touched(cache, v, rec)
      BY <1>2, <1>4, <2>1, <2>4, <2>5, <2>6, PutKeeps
    <2>7. CASE cache' = [cache EXCEPT ![v] = NoLine]
      <3>1. cache' \in [Lines -> Line] /\ \A k \in Lines : cache'[k].valid => cache'[k] = cache[k]
        BY <1>2, <2>1, <2>7, NoLineIsLine
      <3>. QED BY <1>2, <2>5, <3>1, ForgetKeeps DEF Same
    <2>. QED BY <2>2, <2>6, <2>7
  <1>. QED BY <1>3, <1>4

(* bwrite writes the disk and the line, or drops the line on failure       *)
LEMMA WriteStep ==
    ASSUME BlockSizes, BlocksInv, bwrite
    PROVE  BlocksInv'
  <1>1. PICK d \in Disks, b \in BlockNos, x \in Datas :
            LET l == IF found(d, b) # {} THEN CHOOSE k \in found(d, b) : TRUE ELSE victim(d, b)
                c == Touched(cache, l, [valid |-> TRUE, disk |-> d, blk |-> b, data |-> x, used |-> 0])
            IN  /\ \/ cache' = c /\ disk' = [disk EXCEPT ![<<d, b>>] = x]
                   \/ cache' = dropped(c, l) /\ disk' \in {disk, [disk EXCEPT ![<<d, b>>] = x]}
                /\ UNCHANGED behind
    BY ZenonT(30) DEF bwrite
  <1>. DEFINE l == IF found(d, b) # {} THEN CHOOSE k \in found(d, b) : TRUE ELSE victim(d, b)
              rec == [valid |-> TRUE, disk |-> d, blk |-> b, data |-> x, used |-> 0]
              c == Touched(cache, l, rec)
              wr == [disk EXCEPT ![<<d, b>>] = x]
  <1>2. behind' = behind /\ ((cache' = c /\ disk' = wr) \/ (cache' = dropped(c, l) /\ disk' \in {disk, wr}))
    BY <1>1
  <1>3. cache \in [Lines -> Line] /\ disk \in [Disks \X BlockNos -> Data]
    BY DEF BlocksInv, TypeB
  <1>4. rec \in Line /\ rec.valid /\ rec.disk = d /\ rec.blk = b /\ rec.data = x
    BY DEF Line, Data
  <1>5. /\ wr \in [Disks \X BlockNos -> Data] /\ wr[<<d, b>>] = x
        /\ \A y \in Disks \X BlockNos : y # <<d, b>> => wr[y] = disk[y]
    BY <1>3 DEF Data
  <1>6. found(d, b) \subseteq {l} /\ l \in Ways(d, b) /\ l \in Lines
    <2>1. CASE found(d, b) # {}
      BY <2>1, FoundOnce
    <2>2. CASE found(d, b) = {}
      BY <2>2, VictimOfSet DEF BlocksInv, Ways
    <2>. QED BY <2>1, <2>2
  <1>. HIDE DEF l, rec, wr
  <1>7. CASE cache' = c /\ disk' = wr
    BY <1>2, <1>4, <1>5, <1>6, <1>7, PutKeeps
  <1>8. CASE cache' = dropped(c, l) /\ disk' \in {disk, wr}
    <2>1. c \in [Lines -> Line] /\ \A k \in Lines : Same(c[k], IF k = l THEN rec ELSE cache[k])
      BY ZenonT(30), <1>3, <1>4, <1>6, TouchedIs
    <2>. HIDE DEF c
    <2>2. /\ cache' \in [Lines -> Line]
          /\ \A k \in Lines : cache'[k] = IF k = l THEN NoLine ELSE c[k]
      BY <1>6, <1>8, <2>1, NoLineIsLine DEF dropped
    <2>3. \A k \in Lines : cache'[k].valid => k # l /\ Same(cache'[k], cache[k])
      BY <2>1, <2>2, NoLineIsLine
    <2>4. ASSUME NEW k \in Lines, cache'[k].valid
          PROVE  disk'[<<cache[k].disk, cache[k].blk>>] = disk[<<cache[k].disk, cache[k].blk>>]
      <3>1. k # l /\ cache[k].valid
        BY <2>3, <2>4 DEF Same
      <3>2. cache[k].disk \in Disks /\ cache[k].blk \in BlockNos /\ k[1] = set(cache[k].disk, cache[k].blk)
        BY <3>1 DEF BlocksInv, Placed
      <3>3. ~(cache[k].disk = d /\ cache[k].blk = b)
        BY <1>6, <3>1, <3>2 DEF found, Ways
      <3>4. <<cache[k].disk, cache[k].blk>> # <<d, b>> /\ <<cache[k].disk, cache[k].blk>> \in Disks \X BlockNos
        BY <3>2, <3>3
      <3>. QED BY <1>5, <1>8, <3>4
    <2>5. disk' \in [Disks \X BlockNos -> Data]
      BY <1>3, <1>5, <1>8
    <2>6. \A k \in Lines : cache'[k].valid => cache'[k].disk = cache[k].disk
      BY <2>3 DEF Same
    <2>. QED BY <1>2, <2>2, <2>3, <2>4, <2>5, <2>6, ForgetKeeps
  <1>. QED BY <1>2, <1>7, <1>8

(* Emptying the cache of a disk                                            *)
LEMMA Invalidated ==
    ASSUME BlocksInv, NEW d, cache' = tfs_invalidate(cache, d)
    PROVE  cache' \in [Lines -> Line] /\ \A k \in Lines : cache'[k].valid => cache'[k] = cache[k] /\ cache[k].disk # d
  <1>1. cache \in [Lines -> Line]
    BY DEF BlocksInv, TypeB
  <1>. QED BY <1>1, NoLineIsLine DEF tfs_invalidate

(* Raw writes and unmounting empty the cache of the disk                   *)
LEMMA RawStep ==
    ASSUME BlockSizes, BlocksInv, disk_io \/ Drop
    PROVE  BlocksInv'
  <1>1. cache \in [Lines -> Line] /\ disk \in [Disks \X BlockNos -> Data]
    BY DEF BlocksInv, TypeB
  <1>2. \A k \in Lines : cache[k].valid => <<cache[k].disk, cache[k].blk>> \in Disks \X BlockNos
    BY DEF BlocksInv, Placed
  <1>3. CASE disk_io
    <2>1. PICK d \in Disks, a \in BlockNos, n \in 1 .. NBlocks, x \in Datas :
              \/ /\ disk' = [y \in DOMAIN disk |-> IF y[1] = d /\ y[2] \in a .. a + n - 1 THEN x ELSE disk[y]]
                 /\ cache' = tfs_invalidate(cache, d)
                 /\ behind' = behind \ {d}
              \/ /\ \E k \in 0 .. n - 1 : \E last \in {k - 1, k} :
                        disk' = [y \in DOMAIN disk |-> IF y[1] = d /\ y[2] \in a .. a + last THEN x ELSE disk[y]]
                 /\ behind' = behind \cup {d}
                 /\ UNCHANGED cache
      BY <1>3 DEF disk_io
    (* In both cases only blocks of disk d change                              *)
    <2>2. /\ disk' \in [Disks \X BlockNos -> Data]
          /\ \A y \in Disks \X BlockNos : y[1] # d => disk'[y] = disk[y]
      <3>1. ASSUME NEW m, disk' = [y \in DOMAIN disk |-> IF y[1] = d /\ y[2] \in a .. m THEN x ELSE disk[y]]
            PROVE  /\ disk' \in [Disks \X BlockNos -> Data]
                   /\ \A y \in Disks \X BlockNos : y[1] # d => disk'[y] = disk[y]
        BY <1>1, <3>1 DEF Data
      <3>. QED BY ZenonT(30), <2>1, <3>1
    <2>3. \A k \in Lines : cache[k].valid /\ cache[k].disk # d =>
              disk'[<<cache[k].disk, cache[k].blk>>] = disk[<<cache[k].disk, cache[k].blk>>]
      BY <1>2, <2>2
    <2>4. CASE cache' = tfs_invalidate(cache, d) /\ behind' = behind \ {d}
      <3>1. /\ cache' \in [Lines -> Line]
            /\ \A k \in Lines : cache'[k].valid => cache'[k] = cache[k] /\ cache[k].disk # d
        BY <2>4, Invalidated
      <3>. QED BY <2>2, <2>3, <2>4, <3>1, ForgetKeeps DEF Same
    <2>5. CASE behind' = behind \cup {d} /\ UNCHANGED cache
      BY <1>1, <2>2, <2>3, <2>5, ForgetKeeps DEF Same
    <2>. QED BY <2>1, <2>4, <2>5
  <1>4. CASE Drop
    <2>1. PICK d \in Disks : cache' = tfs_invalidate(cache, d) /\ behind' = behind \ {d} /\ UNCHANGED disk
      BY <1>4 DEF Drop
    <2>2. /\ cache' \in [Lines -> Line]
          /\ \A k \in Lines : cache'[k].valid => cache'[k] = cache[k] /\ cache[k].disk # d
      BY <2>1, Invalidated
    <2>. QED BY <1>1, <2>1, <2>2, ForgetKeeps DEF Same
  <1>. QED BY <1>3, <1>4

(* The invariant of the block cache holds always                           *)
LEMMA InvAlways ==
    ASSUME BlockSizes
    PROVE  BSpec => []BlocksInv
  <1>1. BInit => BlocksInv
    <2>. SUFFICES ASSUME BInit PROVE BlocksInv
      OBVIOUS
    <2>1. cache \in [Lines -> Line] /\ \A l \in Lines : ~cache[l].valid
      BY NoLineIsLine DEF BInit
    <2>2. disk \in [Disks \X BlockNos -> Data]
      BY DEF BInit, Data
    <2>. QED BY <2>1, <2>2 DEF BlocksInv, TypeB, Placed, OneLine, CacheIsDisk
  <1>2. BlocksInv /\ [BNext]_<<disk, cache, faults, behind>> => BlocksInv'
    <2>. SUFFICES ASSUME BlocksInv, [BNext]_<<disk, cache, faults, behind>>
                  PROVE  BlocksInv'
      OBVIOUS
    <2>1. CASE UNCHANGED <<disk, cache, faults, behind>>
      BY <2>1 DEF BlocksInv, TypeB, Placed, OneLine, CacheIsDisk
    <2>. QED BY <2>1, ReadStep, WriteStep, RawStep DEF BNext
  <1>. QED BY <1>1, <1>2, PTL DEF BSpec

(* The cache shows the disk, whatever the sizes of disk and cache and      *)
(* whatever transfers fail: a block is never in two lines, and a line      *)
(* holds what the disk holds but after a raw write that failed half way    *)
(* (cache_get, bread, bwrite, disk_io).                                    *)
THEOREM CacheStaysDisk ==
    ASSUME BlockSizes
    PROVE  BSpec => []CacheSound
  <1>1. BlocksInv => CacheSound
    BY DEF BlocksInv, CacheSound
  <1>. QED BY <1>1, InvAlways, PTL

(***************************************************************************)
(* Ids                                                                     *)
(***************************************************************************)
(* Root's ids are among the ids                                            *)
IdsThere == 0 \in Uids /\ 0 \in Gids

Ids == [uid : Uids, euid : Uids, suid : Uids, gid : Gids, egid : Gids, sgid : Gids]
TypeC == id \in Ids /\ mayhold \in [u : SUBSET Uids, g : SUBSET Gids]

(* Root may take any id: this is why a step of root keeps the property     *)
RootMayAll == Root => mayhold = [u |-> Uids, g |-> Gids]

CredInv == TypeC /\ RootMayAll /\ NothingRegained

(* Ids i that lie in u and in g, with everything left to root, keep it all *)
LEMMA IdsKept ==
    ASSUME NEW i \in Ids, NEW m \in [u : SUBSET Uids, g : SUBSET Gids],
           id' = i, mayhold' = m,
           i.euid = 0 => m = [u |-> Uids, g |-> Gids],
           UsersOf(i) \subseteq m.u, GroupsOf(i) \subseteq m.g
    PROVE  CredInv'
  BY DEF CredInv, TypeC, RootMayAll, Root, NothingRegained

(* Whatever a call other than exec leaves, it leaves what the ids are      *)
LEMMA LeftKept ==
    ASSUME CredInv, NEW i \in Ids, NEW u \in SUBSET Uids, NEW g \in SUBSET Gids,
           id' = i, mayhold' = Left(i, u, g),
           Root => UsersOf(i) \subseteq u /\ GroupsOf(i) \subseteq g,
           ~Root => UsersOf(i) \subseteq UsersOf(id) /\ GroupsOf(i) \subseteq GroupsOf(id)
    PROVE  CredInv'
  <1>. DEFINE all == [u |-> Uids, g |-> Gids]
              one == [u |-> u, g |-> g]
  <1>1. /\ all \in [u : SUBSET Uids, g : SUBSET Gids] /\ all.u = Uids /\ all.g = Gids
        /\ one \in [u : SUBSET Uids, g : SUBSET Gids] /\ one.u = u /\ one.g = g
    OBVIOUS
  <1>2. UsersOf(i) \subseteq Uids /\ GroupsOf(i) \subseteq Gids
    BY DEF Ids, UsersOf, GroupsOf
  <1>3. mayhold' = IF i.euid = 0 THEN all ELSE IF Root THEN one ELSE mayhold
    BY DEF Left
  <1>. HIDE DEF all, one
  <1>4. CASE i.euid = 0
    <2>1. mayhold' = all
      BY <1>3, <1>4
    <2>2. all = [u |-> Uids, g |-> Gids]
      BY DEF all
    <2>. QED BY <1>1, <1>2, <2>1, <2>2, IdsKept
  <1>5. CASE i.euid # 0 /\ Root
    <2>1. mayhold' = one
      BY <1>3, <1>5
    <2>. QED BY <1>1, <1>5, <2>1, IdsKept
  <1>6. CASE i.euid # 0 /\ ~Root
    <2>1. mayhold' = mayhold
      BY <1>3, <1>6
    <2>2. UsersOf(i) \subseteq mayhold.u /\ GroupsOf(i) \subseteq mayhold.g
      BY <1>6 DEF CredInv, NothingRegained
    <2>3. mayhold \in [u : SUBSET Uids, g : SUBSET Gids]
      BY DEF CredInv, TypeC
    <2>. QED BY <1>6, <2>1, <2>2, <2>3, IdsKept
  <1>. QED BY <1>4, <1>5, <1>6

(* Every call that changes ids keeps what the process may hold             *)
LEMMA IdsStep ==
    ASSUME IdsThere, CredInv, CrNext
    PROVE  CredInv'
  <1>1. id \in Ids /\ mayhold \in [u : SUBSET Uids, g : SUBSET Gids]
    BY DEF CredInv, TypeC
  <1>2. /\ id.uid \in Uids /\ id.euid \in Uids /\ id.suid \in Uids
        /\ id.gid \in Gids /\ id.egid \in Gids /\ id.sgid \in Gids
    BY <1>1 DEF Ids
  <1>3. \A x, old, S : old \in S /\ x \in S \cup {NOCHANGE} => Set(x, old) \in S
    BY DEF Set
  <1>4. CASE sys_setuid
    <2>1. PICK u \in Uids : /\ Root \/ u \in {id.uid, id.suid}
                            /\ id' = IF Root THEN all_uids(u) ELSE [id EXCEPT !.euid = u]
                            /\ mayhold' = Left(id', {u}, GroupsOf(id))
      BY <1>4 DEF sys_setuid
    <2>. DEFINE i == IF Root THEN all_uids(u) ELSE [id EXCEPT !.euid = u]
    <2>2. i \in Ids /\ GroupsOf(i) = GroupsOf(id)
      BY ZenonT(30), <1>1 DEF Ids, all_uids, GroupsOf
    <2>3. (Root => UsersOf(i) = {u}) /\ (~Root => UsersOf(i) \subseteq UsersOf(id))
      BY <1>1, <2>1 DEF Ids, all_uids, UsersOf
    <2>4. GroupsOf(id) \subseteq Gids
      BY <1>2 DEF GroupsOf
    <2>5. id' = i /\ mayhold' = Left(i, {u}, GroupsOf(id))
      BY <2>1
    <2>. HIDE DEF i
    <2>. QED BY <2>2, <2>3, <2>4, <2>5, LeftKept
  <1>5. CASE sys_setreuid
    <2>1. PICK r \in Uids \cup {NOCHANGE}, e \in Uids \cup {NOCHANGE} :
              /\ Root \/ permitted(r, e, id.uid, id.euid, id.suid)
              /\ LET eu == Set(e, id.euid)
                 IN  id' = [id EXCEPT !.uid = Set(r, @), !.euid = eu, !.suid = IF saves(r, e, id.uid) THEN eu ELSE @]
              /\ mayhold' = Left(id', IF r = NOCHANGE THEN UsersOf(id') ELSE {id'.uid, id'.euid}, GroupsOf(id))
      BY ZenonT(30), <1>5 DEF sys_setreuid
    <2>. DEFINE ru == Set(r, id.uid)
                eu == Set(e, id.euid)
                su == IF saves(r, e, id.uid) THEN eu ELSE id.suid
                i  == [id EXCEPT !.uid = ru, !.euid = eu, !.suid = su]
                k  == IF r = NOCHANGE THEN UsersOf(i) ELSE {i.uid, i.euid}
    <2>2. ru \in Uids /\ eu \in Uids /\ su \in Uids
      BY <1>2, <1>3
    <2>3. r # NOCHANGE => su = eu
      BY DEF saves
    <2>4. ~Root => {ru, eu, su} \subseteq UsersOf(id)
      BY <2>1 DEF permitted, Set, UsersOf
    <2>5. id' = i /\ mayhold' = Left(i, k, GroupsOf(id))
      BY <2>1
    <2>. HIDE DEF ru, eu, su
    <2>6. i \in Ids /\ i.uid = ru /\ i.euid = eu /\ i.suid = su /\ GroupsOf(i) = GroupsOf(id)
      BY ZenonT(30), <1>1, <2>2 DEF Ids, GroupsOf
    <2>. HIDE DEF i
    <2>7. UsersOf(i) = {ru, eu, su} /\ UsersOf(i) \subseteq k /\ k \subseteq Uids
      BY <2>2, <2>3, <2>6 DEF UsersOf
    <2>8. GroupsOf(id) \subseteq Gids
      BY <1>2 DEF GroupsOf
    <2>. HIDE DEF k
    <2>. QED BY <2>4, <2>5, <2>6, <2>7, <2>8, LeftKept
  <1>6. CASE sys_setgid
    <2>1. PICK g \in Gids : /\ Root \/ g \in {id.gid, id.sgid}
                            /\ id' = IF Root THEN [id EXCEPT !.gid = g, !.egid = g, !.sgid = g] ELSE [id EXCEPT !.egid = g]
                            /\ mayhold' = mayhold
      BY ZenonT(30), <1>6 DEF sys_setgid
    <2>. DEFINE i == IF Root THEN [id EXCEPT !.gid = g, !.egid = g, !.sgid = g] ELSE [id EXCEPT !.egid = g]
    <2>2. i \in Ids /\ UsersOf(i) = UsersOf(id) /\ i.euid = id.euid
      BY ZenonT(30), <1>1 DEF Ids, UsersOf
    <2>3. (Root => GroupsOf(i) = {g}) /\ (~Root => GroupsOf(i) \subseteq GroupsOf(id))
      BY <1>1, <2>1 DEF Ids, GroupsOf
    <2>4. id' = i
      BY <2>1
    <2>. HIDE DEF i
    <2>5. GroupsOf(i) \subseteq mayhold.g
      BY <2>3 DEF CredInv, RootMayAll, NothingRegained
    <2>. QED BY <1>1, <2>1, <2>2, <2>4, <2>5, IdsKept DEF CredInv, RootMayAll, Root, NothingRegained
  <1>7. CASE sys_setregid
    <2>1. PICK r \in Gids \cup {NOCHANGE}, e \in Gids \cup {NOCHANGE} :
              /\ Root \/ permitted(r, e, id.gid, id.egid, id.sgid)
              /\ LET eg == Set(e, id.egid)
                 IN  id' = [id EXCEPT !.gid = Set(r, @), !.egid = eg, !.sgid = IF saves(r, e, id.gid) THEN eg ELSE @]
              /\ mayhold' = mayhold
      BY ZenonT(30), <1>7 DEF sys_setregid
    <2>. DEFINE rg == Set(r, id.gid)
                eg == Set(e, id.egid)
                sg == IF saves(r, e, id.gid) THEN eg ELSE id.sgid
                i  == [id EXCEPT !.gid = rg, !.egid = eg, !.sgid = sg]
    <2>2. rg \in Gids /\ eg \in Gids /\ sg \in Gids
      BY <1>2, <1>3
    <2>3. ~Root => {rg, eg, sg} \subseteq GroupsOf(id)
      BY <2>1 DEF permitted, Set, GroupsOf
    <2>4. id' = i
      BY <2>1
    <2>. HIDE DEF rg, eg, sg
    <2>5. i \in Ids /\ UsersOf(i) = UsersOf(id) /\ i.euid = id.euid /\ GroupsOf(i) = {rg, eg, sg}
      BY ZenonT(30), <1>1, <2>2 DEF Ids, UsersOf, GroupsOf
    <2>. HIDE DEF i
    <2>6. GroupsOf(i) \subseteq mayhold.g
      BY <2>2, <2>3, <2>5 DEF CredInv, RootMayAll, NothingRegained
    <2>. QED BY <1>1, <2>1, <2>4, <2>5, <2>6, IdsKept DEF CredInv, RootMayAll, Root, NothingRegained
  <1>8. CASE exec
    <2>1. PICK u \in Uids \cup {NOCHANGE}, g \in Gids \cup {NOCHANGE} :
              LET eu == Set(u, id.euid)  eg == Set(g, id.egid)
              IN  /\ id' = [id EXCEPT !.euid = eu, !.suid = eu, !.egid = eg, !.sgid = eg]
                  /\ mayhold' = IF eu = 0 THEN [u |-> Uids, g |-> Gids] ELSE [u |-> {id.uid, eu}, g |-> {id.gid, eg}]
      BY ZenonT(30), <1>8 DEF exec
    <2>. DEFINE eu == Set(u, id.euid)
                eg == Set(g, id.egid)
                i  == [id EXCEPT !.euid = eu, !.suid = eu, !.egid = eg, !.sgid = eg]
                m  == IF eu = 0 THEN [u |-> Uids, g |-> Gids] ELSE [u |-> {id.uid, eu}, g |-> {id.gid, eg}]
    <2>2. eu \in Uids /\ eg \in Gids
      BY <1>2, <1>3
    <2>3. id' = i /\ mayhold' = m
      BY <2>1
    <2>. HIDE DEF eu, eg
    <2>4. i \in Ids /\ i.euid = eu /\ UsersOf(i) = {id.uid, eu} /\ GroupsOf(i) = {id.gid, eg}
      BY ZenonT(30), <1>1, <2>2 DEF Ids, UsersOf, GroupsOf
    <2>5. /\ m \in [u : SUBSET Uids, g : SUBSET Gids]
          /\ eu = 0 => m = [u |-> Uids, g |-> Gids]
          /\ {id.uid, eu} \subseteq m.u /\ {id.gid, eg} \subseteq m.g
      BY <1>2, <2>2
    <2>. HIDE DEF i, m
    <2>. QED BY <2>3, <2>4, <2>5, IdsKept
  <1>9. CASE sys_setgroups
    BY <1>9 DEF sys_setgroups, CredInv, TypeC, RootMayAll, Root, NothingRegained
  <1>. QED BY <1>4, <1>5, <1>6, <1>7, <1>8, <1>9 DEF CrNext

(* A process holds no user or group id that it gave up, whatever ids there *)
(* are and whatever calls it makes, until exec gives it new ones           *)
(* (sys_setuid, sys_setreuid, sys_setgid, sys_setregid, exec).             *)
THEOREM GivenUpIsGone ==
    ASSUME IdsThere
    PROVE  CrSpec => []NothingRegained
  <1>1. CrInit => CredInv
    BY DEF CrInit, CredInv, TypeC, Ids, RootMayAll, NothingRegained, UsersOf, GroupsOf, IdsThere
  <1>2. CredInv /\ [CrNext]_<<id, groups, mayhold>> => CredInv'
    <2>. SUFFICES ASSUME CredInv, [CrNext]_<<id, groups, mayhold>>
                  PROVE  CredInv'
      OBVIOUS
    <2>1. CASE UNCHANGED <<id, groups, mayhold>>
      BY <2>1 DEF CredInv, TypeC, RootMayAll, Root, NothingRegained
    <2>. QED BY <2>1, IdsStep
  <1>3. CredInv => NothingRegained
    BY DEF CredInv
  <1>. QED BY <1>1, <1>2, <1>3, PTL DEF CrSpec
==============================================================================
