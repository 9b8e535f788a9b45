----------------------------- MODULE SleepProofs -----------------------------
(* The wakeups of pipes and polls.  A process sleeps only on what is not   *)
(* there yet: this rests on the counted ends (PipeProofs), on the          *)
(* arithmetic of counters that wrap, and on every step that changes a pipe *)
(* waking those who may care.                                              *)
EXTENDS PipeProofs

(* The bytes in pipe k of the table P, as Count computes them              *)
Cnt(P, k) == (P[k].nwrite - P[k].nread) % Wrap

(* The ring: a read takes off and a write adds what it moves, over the     *)
(* wrap of the counters as well (pipe_read, pipe_write)                    *)
LEMMA RingMove ==
    ASSUME NEW r \in 0 .. Wrap - 1, NEW w \in 0 .. Wrap - 1, NEW c, c = (w - r) % Wrap
    PROVE  /\ c \in Nat
           /\ \A m \in 0 .. c :
                 (r + m) % Wrap \in 0 .. Wrap - 1 /\ (w - ((r + m) % Wrap)) % Wrap = c - m
           /\ \A m \in Nat : c + m <= PIPESIZE =>
                 (w + m) % Wrap \in 0 .. Wrap - 1 /\ (((w + m) % Wrap) - r) % Wrap = c + m
  <1>0. Wrap \in Nat \ {0} /\ PIPESIZE \in Nat \ {0} /\ PIPESIZE < Wrap
    BY PipeAssumption
  <1>1. c = (IF r <= w THEN w - r ELSE w - r + Wrap) /\ c \in 0 .. Wrap - 1
    BY <1>0, WrapDiff
  <1>2. ASSUME NEW m \in 0 .. c
        PROVE  (r + m) % Wrap \in 0 .. Wrap - 1 /\ (w - ((r + m) % Wrap)) % Wrap = c - m
    <2>. DEFINE s == (r + m) % Wrap
    <2>1. m \in 0 .. Wrap - 1
      BY <1>0, <1>1
    <2>2. s = (IF r + m < Wrap THEN r + m ELSE r + m - Wrap) /\ s \in 0 .. Wrap - 1
      BY ZenonT(30), <1>0, <2>1, WrapSum
    <2>. HIDE DEF s
    <2>3. (w - s) % Wrap = IF s <= w THEN w - s ELSE w - s + Wrap
      BY ZenonT(30), <1>0, <2>2, WrapDiff
    <2>4. (IF s <= w THEN w - s ELSE w - s + Wrap) = c - m
      BY <1>0, <1>1, <2>1, <2>2
    <2>5. (w - s) % Wrap = c - m
      BY <2>3, <2>4
    <2>. QED BY <2>2, <2>5 DEF s
  <1>3. ASSUME NEW m \in Nat, c + m <= PIPESIZE
        PROVE  (w + m) % Wrap \in 0 .. Wrap - 1 /\ (((w + m) % Wrap) - r) % Wrap = c + m
    <2>. DEFINE s == (w + m) % Wrap
    <2>1. m \in 0 .. Wrap - 1
      BY <1>0, <1>1, <1>3
    <2>2. s = (IF w + m < Wrap THEN w + m ELSE w + m - Wrap) /\ s \in 0 .. Wrap - 1
      BY ZenonT(30), <1>0, <2>1, WrapSum
    <2>. HIDE DEF s
    <2>3. (s - r) % Wrap = IF r <= s THEN s - r ELSE s - r + Wrap
      BY <1>0, <2>2, WrapDiff
    <2>4. (IF r <= s THEN s - r ELSE s - r + Wrap) = c + m
      BY <1>0, <1>1, <1>3, <2>1, <2>2
    <2>5. (s - r) % Wrap = c + m
      BY <2>3, <2>4
    <2>. QED BY <2>2, <2>5 DEF s
  <1>. QED BY <1>1, <1>2, <1>3

(* The locals of a call                                                    *)
IsCall(c) ==
    \/ c \in {User, Unused}
    \/ /\ c = [op |-> "read", pipe |-> c.pipe, n |-> c.n, nonblock |-> c.nonblock]
       /\ c.pipe \in Pipes /\ c.n \in Nat
    \/ /\ c = [op |-> "write", pipe |-> c.pipe, src |-> c.src, pos |-> c.pos, nonblock |-> c.nonblock]
       /\ c.pipe \in Pipes /\ Len(c.src) \in Nat /\ c.pos \in 0 .. Len(c.src)
    \/ /\ c = [op |-> "poll", fd |-> c.fd, ev |-> c.ev, timed |-> c.timed]
       /\ c.fd \in FDs

(* What a process calls with is a call                                     *)
LEMMA ReadIsCall ==
    ASSUME NEW k \in Pipes, NEW n \in Nat, NEW b
    PROVE  IsCall([op |-> "read", pipe |-> k, n |-> n, nonblock |-> b])
  BY DEF IsCall

LEMMA WriteIsCall ==
    ASSUME NEW k \in Pipes, NEW src \in Sources, NEW b
    PROVE  IsCall([op |-> "write", pipe |-> k, src |-> src, pos |-> 0, nonblock |-> b])
  <1>1. PICK n \in 1 .. MaxLen : src \in [1 .. n -> Values]
    BY DEF Sources
  <1>2. Len(src) \in Nat
    BY <1>1, PipeAssumption
  <1>. DEFINE c == [op |-> "write", pipe |-> k, src |-> src, pos |-> 0, nonblock |-> b]
  <1>3. c.pipe = k /\ c.src = src /\ c.pos = 0 /\ c.nonblock = b
    OBVIOUS
  <1>4. c = [op |-> "write", pipe |-> c.pipe, src |-> c.src, pos |-> c.pos, nonblock |-> c.nonblock]
    BY ZenonT(30), <1>3
  <1>5. c.pipe \in Pipes /\ Len(c.src) \in Nat /\ c.pos \in 0 .. Len(c.src)
    <2>. HIDE DEF c
    <2>. QED BY <1>2, <1>3
  <1>. HIDE DEF c
  <1>6. IsCall(c)
    BY ZenonT(30), <1>4, <1>5 DEF IsCall
  <1>. QED BY <1>6 DEF c

(* What the sleepers rest on: counters within their range, no pipe over    *)
(* full, and sleep only within a call                                      *)
CallInv ==
    /\ \A k \in Pipes : /\ pipes[k].nread \in 0 .. Wrap - 1 /\ pipes[k].nwrite \in 0 .. Wrap - 1
                        /\ Cnt(pipes, k) <= PIPESIZE
    /\ \A p \in Procs : IsCall(call[p])
    /\ asleep = [p \in Procs |-> asleep[p]] /\ pend = [p \in Procs |-> pend[p]] /\ fired = [p \in Procs |-> fired[p]]
    /\ \A p \in Procs : call[p] \in {User, Unused} => asleep[p] = Awake

(* The inductive invariant for the writers                                 *)
WriteInv == EndInv /\ CallInv /\ WriterWoken

(* The queues are different ones                                           *)
LEMMA QueueNames ==
    /\ \A k, l : /\ RQ(k) # WQ(l) /\ RQ(k) # Awake /\ WQ(k) # Awake /\ RQ(k) # PollWQ /\ WQ(k) # PollWQ
                 /\ (RQ(k) = RQ(l) => k = l) /\ (WQ(k) = WQ(l) => k = l)
    /\ PollWQ # Awake
  BY DEF RQ, WQ, PollWQ, Awake

(* A wakeup leaves nobody on the queues it names                           *)
LEMMA WokenAre ==
    ASSUME NEW Q, Awake \notin Q, NEW q \in Procs
    PROVE  Woken(Q)[q] \in {asleep[q], Awake} /\ Woken(Q)[q] \notin Q
  BY DEF Woken

(* A step that leaves the transfers alone                                  *)
LEMMA QuietCalls ==
    ASSUME WriteInv,
           \A k \in Pipes : \/ pipes'[k].nread = pipes[k].nread /\ pipes'[k].nwrite = pipes[k].nwrite
                            \/ /\ pipes'[k].nread = 0 /\ pipes'[k].nwrite = 0
                               /\ \A q \in Procs : asleep'[q] # WQ(k),
           \A q \in Procs : \/ call'[q] = call[q]
                            \/ call'[q] \in {User, Unused} /\ asleep'[q] = Awake,
           asleep' = [q \in Procs |-> asleep'[q]], pend' = [q \in Procs |-> pend'[q]],
           fired' = [q \in Procs |-> fired'[q]],
           \A q \in Procs : asleep'[q] \in {asleep[q], Awake},
           \A q \in Procs : pend'[q] => pend[q] \/ asleep'[q] = Awake,
           \A k \in Pipes : \/ pipes'[k].readers = pipes[k].readers
                            \/ \A q \in Procs : asleep'[q] # WQ(k)
    PROVE  CallInv' /\ WriterWoken'
  <1>1. ASSUME NEW k \in Pipes
        PROVE  Cnt(pipes', k) = Cnt(pipes, k) \/ (Cnt(pipes', k) = 0 /\ \A q \in Procs : asleep'[q] # WQ(k))
    <2>1. Wrap \in Nat \ {0} /\ (0 - 0) % Wrap = 0
      BY PipeAssumption
    <2>. QED BY <2>1 DEF Cnt
  <1>2. CallInv'
    <2>1. \A k \in Pipes : /\ pipes'[k].nread \in 0 .. Wrap - 1 /\ pipes'[k].nwrite \in 0 .. Wrap - 1
                           /\ Cnt(pipes', k) <= PIPESIZE
      <3>1. 0 \in 0 .. Wrap - 1 /\ 0 <= PIPESIZE
        BY PipeAssumption
      <3>. QED BY <1>1, <3>1 DEF WriteInv, CallInv
    <2>2. \A q \in Procs : IsCall(call'[q])
      BY DEF WriteInv, CallInv, IsCall
    <2>3. \A q \in Procs : call'[q] \in {User, Unused} => asleep'[q] = Awake
      BY DEF WriteInv, CallInv
    <2>. QED BY <2>1, <2>2, <2>3 DEF CallInv, IsCall, Cnt
  <1>3. ASSUME NEW q \in Procs
        PROVE  /\ \A k \in Pipes : asleep'[q] = WQ(k) => Cnt(pipes', k) = PIPESIZE /\ pipes'[k].readers > 0
               /\ asleep'[q] # Awake => ~pend'[q]
    <2>1. ASSUME NEW k \in Pipes, asleep'[q] = WQ(k)
          PROVE  Cnt(pipes', k) = PIPESIZE /\ pipes'[k].readers > 0
      <3>1. asleep[q] = WQ(k)
        BY <2>1, QueueNames
      <3>2. Cnt(pipes, k) = PIPESIZE /\ pipes[k].readers > 0
        BY <3>1 DEF WriteInv, WriterWoken, Cnt, Count
      <3>3. pipes'[k].readers = pipes[k].readers
        BY <2>1
      <3>. QED BY <1>1, <2>1, <3>2, <3>3
    <2>2. ASSUME asleep'[q] # Awake PROVE ~pend'[q]
      <3>1. asleep[q] # Awake
        BY <2>2
      <3>2. ~pend[q]
        BY <3>1 DEF WriteInv, WriterWoken
      <3>. QED BY <2>2, <3>2
    <2>. QED BY <2>1, <2>2
  <1>4. WriterWoken'
    BY <1>3 DEF WriterWoken, Cnt, Count
  <1>. QED BY <1>2, <1>4

(* file_close: the pipes it changes have nobody asleep afterwards          *)
LEMMA ReleaseWakes ==
    ASSUME EndInv, NEW gone \in [Files -> Nat], \A f \in Files : gone[f] <= files[f].ref,
           pipes' = PipesAfter(gone),
           asleep' = Woken(IF Ended(gone) = {} THEN {} ELSE PipeQueues(Touched(gone)))
    PROVE  /\ asleep' = [q \in Procs |-> asleep'[q]]
           /\ \A q \in Procs : asleep'[q] \in {asleep[q], Awake}
           /\ \A k \in Pipes : /\ pipes'[k].nread = pipes[k].nread /\ pipes'[k].nwrite = pipes[k].nwrite
                               /\ \/ /\ pipes'[k].readers = pipes[k].readers
                                     /\ pipes'[k].writers = pipes[k].writers
                                  \/ \A q \in Procs : asleep'[q] \notin {RQ(k), WQ(k), PollWQ}
           /\ Ended(gone) = {} \/ \A q \in Procs : asleep'[q] # PollWQ
  <1>. DEFINE Q == IF Ended(gone) = {} THEN {} ELSE PipeQueues(Touched(gone))
  <1>1. Awake \notin Q
    BY QueueNames DEF PipeQueues
  <1>2. asleep' = Woken(Q)
    OBVIOUS
  <1>3. Ended(gone) # {} => PollWQ \in Q
    BY DEF PipeQueues
  <1>4. \A k \in Touched(gone) : {RQ(k), WQ(k), PollWQ} \subseteq Q
    BY DEF PipeQueues, Touched
  <1>. HIDE DEF Q
  <1>5. \A q \in Procs : asleep'[q] \in {asleep[q], Awake} /\ asleep'[q] \notin Q
    BY <1>1, <1>2, WokenAre
  <1>6. asleep' = [q \in Procs |-> asleep'[q]]
    BY <1>2 DEF Woken
  <1>7. \A k \in Pipes :
          /\ PipesAfter(gone)[k].nread = pipes[k].nread /\ PipesAfter(gone)[k].nwrite = pipes[k].nwrite
          /\ k \notin Touched(gone) => /\ PipesAfter(gone)[k].readers = pipes[k].readers
                                       /\ PipesAfter(gone)[k].writers = pipes[k].writers
    BY AfterEnds DEF EndInv, RefInv, TableTypes
  <1>8. ASSUME NEW k \in Pipes
        PROVE  /\ pipes'[k].nread = pipes[k].nread /\ pipes'[k].nwrite = pipes[k].nwrite
               /\ \/ pipes'[k].readers = pipes[k].readers /\ pipes'[k].writers = pipes[k].writers
                  \/ \A q \in Procs : asleep'[q] \notin {RQ(k), WQ(k), PollWQ}
    BY <1>4, <1>5, <1>7
  <1>. QED BY <1>3, <1>5, <1>6, <1>8

(* close, exec, exit, the control message and dup2                         *)
LEMMA ReleaseSleep ==
    ASSUME WriteInv, NEW gone \in [Files -> Nat], \A f \in Files : gone[f] <= files[f].ref,
           pipes' = PipesAfter(gone),
           asleep' = Woken(IF Ended(gone) = {} THEN {} ELSE PipeQueues(Touched(gone))),
           \A q \in Procs : \/ call'[q] = call[q]
                            \/ call'[q] \in {User, Unused} /\ asleep[q] = Awake,
           pend' = [q \in Procs |-> pend'[q]], fired' = fired, \A q \in Procs : pend'[q] => pend[q]
    PROVE  CallInv' /\ WriterWoken'
  <1>1. /\ asleep' = [q \in Procs |-> asleep'[q]]
        /\ \A q \in Procs : asleep'[q] \in {asleep[q], Awake}
        /\ \A k \in Pipes : /\ pipes'[k].nread = pipes[k].nread /\ pipes'[k].nwrite = pipes[k].nwrite
                            /\ \/ pipes'[k].readers = pipes[k].readers
                               \/ \A q \in Procs : asleep'[q] # WQ(k)
    BY ReleaseWakes DEF WriteInv
  <1>2. fired' = [q \in Procs |-> fired'[q]]
    BY DEF WriteInv, CallInv
  <1>3. \A q \in Procs : call'[q] = call[q] \/ (call'[q] \in {User, Unused} /\ asleep'[q] = Awake)
    BY <1>1
  <1>. QED BY <1>1, <1>2, <1>3, QuietCalls

(* CloseFds *)
LEMMA CloseSleep ==
    ASSUME WriteInv, NEW p \in Procs, NEW D, D \subseteq FDs, CloseFds(p, D),
           \A q \in Procs : \/ call'[q] = call[q]
                            \/ call'[q] \in {User, Unused} /\ asleep[q] = Awake,
           pend' = [q \in Procs |-> pend'[q]], fired' = fired, \A q \in Procs : pend'[q] => pend[q]
    PROVE  CallInv' /\ WriterWoken'
  <1>. DEFINE gone == [f \in Files |-> Cardinality({d \in D : fds[p][d] = f})]
  <1>1. /\ pipes' = PipesAfter(gone)
        /\ asleep' = Woken(IF Ended(gone) = {} THEN {} ELSE PipeQueues(Touched(gone)))
    BY DEF CloseFds
  <1>2. gone \in [Files -> Nat] /\ \A f \in Files : gone[f] <= files[f].ref
    BY ZenonT(30), GoneCounted DEF WriteInv, EndInv
  <1>. HIDE DEF gone
  <1>. QED BY <1>1, <1>2, ReleaseSleep

(* A step that changes no pipe and wakes somebody or nobody                *)
LEMMA IdleSleep ==
    ASSUME WriteInv, pipes' = pipes, fired' = [q \in Procs |-> fired'[q]],
           \A q \in Procs : \/ call'[q] = call[q]
                            \/ call'[q] \in {User, Unused} /\ asleep'[q] = Awake,
           asleep' = [q \in Procs |-> asleep'[q]], \A q \in Procs : asleep'[q] \in {asleep[q], Awake},
           pend' = [q \in Procs |-> pend'[q]], \A q \in Procs : pend'[q] => pend[q] \/ asleep'[q] = Awake
    PROVE  CallInv' /\ WriterWoken'
  BY QuietCalls

(* sys_pipe: nobody sleeps at a pipe that is not in use                    *)
LEMMA PipeSleep ==
    ASSUME WriteInv, NEW p \in Procs, PipeCall(p)
    PROVE  CallInv' /\ WriterWoken'
  <1>. DEFINE k  == Min(PipeFree)
              held == [ZeroPipe EXCEPT !.used = TRUE, !.readers = 1, !.writers = 1]
  <1>1. k \in Pipes /\ ~pipes[k].used
    BY ZenonT(30), PipeSlots DEF WriteInv, EndInv
  <1>2. /\ \/ pipes' = [pipes EXCEPT ![k] = ZeroPipe] /\ asleep' = Woken(PipeQueues({k}))
           \/ pipes' = [pipes EXCEPT ![k] = held] /\ asleep' = asleep
        /\ UNCHANGED <<call, pend, fired>>
    BY DEF PipeCall
  <1>3. ZeroPipe.nread = 0 /\ ZeroPipe.nwrite = 0 /\ held.nread = 0 /\ held.nwrite = 0
    BY DEF ZeroPipe
  <1>4. ~(pipes[k].readers > 0)
    <2>1. /\ pipes[k].readers = Cardinality(REnds(files, k)) /\ pipes[k].writers = Cardinality(WEnds(files, k))
          /\ ~(pipes[k].readers + pipes[k].writers > 0)
      BY <1>1 DEF WriteInv, EndInv, EndsOf
    <2>. HIDE DEF k
    <2>. QED BY <2>1, EndsFinite
  <1>. HIDE DEF k, held
  <1>5. \A q \in Procs : asleep[q] # WQ(k)
    BY <1>1, <1>4 DEF WriteInv, WriterWoken
  <1>6. /\ asleep' = [q \in Procs |-> asleep'[q]]
        /\ \A q \in Procs : asleep'[q] \in {asleep[q], Awake}
    <2>1. Awake \notin PipeQueues({k})
      BY QueueNames DEF PipeQueues
    <2>2. Woken(PipeQueues({k})) = [q \in Procs |-> Woken(PipeQueues({k}))[q]]
      BY DEF Woken
    <2>3. \A q \in Procs : Woken(PipeQueues({k}))[q] \in {asleep[q], Awake}
      BY <2>1, WokenAre
    <2>. QED BY ZenonT(30), <1>2, <2>2, <2>3 DEF WriteInv, CallInv
  <1>7. \A q \in Procs : asleep'[q] # WQ(k)
    BY <1>5, <1>6, QueueNames
  <1>8. /\ pipes'[k].nread = 0 /\ pipes'[k].nwrite = 0
        /\ \A l \in Pipes : l # k => pipes'[l] = pipes[l]
    BY <1>1, <1>2, <1>3 DEF WriteInv, EndInv, PipeShape
  <1>9. /\ pend' = [q \in Procs |-> pend'[q]] /\ fired' = [q \in Procs |-> fired'[q]]
        /\ call' = call /\ pend' = pend
    BY <1>2 DEF WriteInv, CallInv
  <1>10. \A l \in Pipes : \/ pipes'[l].nread = pipes[l].nread /\ pipes'[l].nwrite = pipes[l].nwrite
                          \/ /\ pipes'[l].nread = 0 /\ pipes'[l].nwrite = 0
                             /\ \A q \in Procs : asleep'[q] # WQ(l)
    BY <1>7, <1>8
  <1>11. \A l \in Pipes : pipes'[l].readers = pipes[l].readers \/ \A q \in Procs : asleep'[q] # WQ(l)
    BY <1>7, <1>8
  <1>. QED BY <1>6, <1>9, <1>10, <1>11, QuietCalls

(* One process ends its call or sleeps in it                               *)
LEMMA PutCall ==
    ASSUME WriteInv, NEW p \in Procs, NEW c, IsCall(c), call' = [call EXCEPT ![p] = c]
    PROVE  /\ call'[p] = c /\ \A q \in Procs : q # p => call'[q] = call[q]
           /\ \A q \in Procs : IsCall(call'[q])
  BY DEF WriteInv, EndInv, RefInv, TableTypes, CallInv

(* The shape of the invariant after a step, from its parts                 *)
LEMMA CallInvNext ==
    ASSUME \A k \in Pipes : /\ pipes'[k].nread \in 0 .. Wrap - 1 /\ pipes'[k].nwrite \in 0 .. Wrap - 1
                            /\ Cnt(pipes', k) <= PIPESIZE,
           \A q \in Procs : IsCall(call'[q]),
           asleep' = [q \in Procs |-> asleep'[q]], pend' = [q \in Procs |-> pend'[q]],
           fired' = [q \in Procs |-> fired'[q]],
           \A q \in Procs : call'[q] \in {User, Unused} => asleep'[q] = Awake,
           \A q \in Procs, k \in Pipes : asleep'[q] = WQ(k) => Cnt(pipes', k) = PIPESIZE /\ pipes'[k].readers > 0,
           \A q \in Procs : asleep'[q] # Awake => ~pend'[q]
    PROVE  CallInv' /\ WriterWoken'
  BY DEF CallInv, IsCall, Cnt, WriterWoken, Count

(* pipe_read takes from the ring what it returns                           *)
LEMMA ReadMoves ==
    ASSUME WriteInv, NEW k \in Pipes, NEW x \in Nat, NEW m, m = Min({x, Count(k)}),
           pipes' = [pipes EXCEPT ![k].nread = (@ + m) % Wrap]
    PROVE  /\ pipes'[k].nread \in 0 .. Wrap - 1 /\ pipes'[k].nwrite \in 0 .. Wrap - 1
           /\ Cnt(pipes', k) = Cnt(pipes, k) - m
           /\ Cnt(pipes, k) \in Nat /\ Cnt(pipes, k) <= PIPESIZE /\ m \in 0 .. Cnt(pipes, k)
           /\ pipes'[k].readers = pipes[k].readers /\ pipes'[k].writers = pipes[k].writers
           /\ \A l \in Pipes : l # k => pipes'[l] = pipes[l]
  <1>. DEFINE r == pipes[k].nread
              w == pipes[k].nwrite
              n == Cnt(pipes, k)
  <1>1. CallInv /\ PipeShape
    BY DEF WriteInv, EndInv
  <1>2. r \in 0 .. Wrap - 1 /\ w \in 0 .. Wrap - 1 /\ n <= PIPESIZE /\ n = (w - r) % Wrap /\ m = Min({x, n})
    BY <1>1 DEF CallInv, Cnt, Count
  <1>3. /\ pipes'[k].nread = (r + m) % Wrap /\ pipes'[k].nwrite = w
        /\ pipes'[k].readers = pipes[k].readers /\ pipes'[k].writers = pipes[k].writers
        /\ \A l \in Pipes : l # k => pipes'[l] = pipes[l]
    <2>1. IsPipe(pipes[k])
      BY <1>1 DEF PipeShape
    <2>. QED BY <1>1, <2>1 DEF PipeShape, IsPipe, PipeFields
  <1>. HIDE DEF r, w, n
  <1>4. n \in Nat
    BY <1>2, RingMove
  <1>5. m \in 0 .. n
    <2>1. \A a, b \in Nat : Min({a, b}) = IF a <= b THEN a ELSE b
      BY MinTwo
    <2>2. Min({x, n}) = IF x <= n THEN x ELSE n
      BY <1>4, <2>1
    <2>. QED BY <1>2, <1>4, <2>2
  <1>6. (r + m) % Wrap \in 0 .. Wrap - 1 /\ (w - ((r + m) % Wrap)) % Wrap = n - m
    <2>1. \A y \in 0 .. n : (r + y) % Wrap \in 0 .. Wrap - 1 /\ (w - ((r + y) % Wrap)) % Wrap = n - y
      BY <1>2, RingMove
    <2>. QED BY <1>5, <2>1
  <1>7. Cnt(pipes', k) = n - m
    BY <1>3, <1>6 DEF Cnt
  <1>. QED BY <1>2, <1>3, <1>4, <1>5, <1>6, <1>7 DEF n

(* pipe_read, from its start or from its sleep                             *)
LEMMA ReadSleep ==
    ASSUME WriteInv, NEW p \in Procs, NEW c, IsCall(c), c.op = "read", asleep[p] = Awake,
           ReadFrom(p, c), UNCHANGED <<pend, fired>>
    PROVE  CallInv' /\ WriterWoken'
  <1>. DEFINE k == c.pipe
              m == Min({c.n, Count(k)})
  <1>1. k \in Pipes /\ c.n \in Nat /\ c \notin {User, Unused}
    BY DEF IsCall, User, Unused
  <1>2. IsCall(User)
    BY DEF IsCall
  <1>3. CallInv /\ WriterWoken /\ PipeShape
    BY DEF WriteInv, EndInv
  <1>4. \/ /\ call' = [call EXCEPT ![p] = User] /\ pipes' = pipes /\ asleep' = asleep
        \/ /\ call' = [call EXCEPT ![p] = c] /\ pipes' = pipes /\ ~pend[p]
           /\ asleep' = [asleep EXCEPT ![p] = RQ(k)]
        \/ /\ call' = [call EXCEPT ![p] = User] /\ pipes' = [pipes EXCEPT ![k].nread = (@ + m) % Wrap]
           /\ asleep' = Woken({WQ(k), PollWQ})
    BY DEF ReadFrom, Return
  <1>5. CASE call' = [call EXCEPT ![p] = User] /\ pipes' = pipes /\ asleep' = asleep
    <2>1. \A q \in Procs : call'[q] = call[q] \/ (call'[q] \in {User, Unused} /\ asleep'[q] = Awake)
      BY <1>2, <1>5, PutCall
    <2>2. /\ asleep' = [q \in Procs |-> asleep'[q]] /\ pend' = [q \in Procs |-> pend'[q]]
          /\ fired' = [q \in Procs |-> fired'[q]]
      BY <1>3, <1>5 DEF CallInv
    <2>. QED BY <1>5, <2>1, <2>2, IdleSleep
  <1>6. CASE /\ call' = [call EXCEPT ![p] = c] /\ pipes' = pipes /\ ~pend[p]
             /\ asleep' = [asleep EXCEPT ![p] = RQ(k)]
    <2>1. /\ call'[p] = c /\ \A q \in Procs : q # p => call'[q] = call[q]
          /\ \A q \in Procs : IsCall(call'[q])
      BY ZenonT(30), <1>6, PutCall
    <2>2. /\ asleep' = [q \in Procs |-> asleep'[q]] /\ pend' = [q \in Procs |-> pend'[q]]
          /\ fired' = [q \in Procs |-> fired'[q]]
          /\ asleep'[p] = RQ(k) /\ \A q \in Procs : q # p => asleep'[q] = asleep[q]
      BY ZenonT(30), <1>3, <1>6 DEF CallInv
    <2>3. \A q \in Procs : call'[q] \in {User, Unused} => asleep'[q] = Awake
      BY <1>1, <1>3, <2>1, <2>2 DEF CallInv
    <2>4. \A q \in Procs, l \in Pipes :
             asleep'[q] = WQ(l) => Cnt(pipes', l) = PIPESIZE /\ pipes'[l].readers > 0
      BY <1>3, <1>6, <2>2, QueueNames DEF WriterWoken, Cnt, Count
    <2>5. \A q \in Procs : asleep'[q] # Awake => ~pend'[q]
      BY <1>3, <1>6, <2>2 DEF WriterWoken
    <2>6. \A l \in Pipes : /\ pipes'[l].nread \in 0 .. Wrap - 1 /\ pipes'[l].nwrite \in 0 .. Wrap - 1
                           /\ Cnt(pipes', l) <= PIPESIZE
      BY <1>3, <1>6 DEF CallInv
    <2>. QED BY <2>1, <2>2, <2>3, <2>4, <2>5, <2>6, CallInvNext
  <1>7. CASE /\ call' = [call EXCEPT ![p] = User] /\ pipes' = [pipes EXCEPT ![k].nread = (@ + m) % Wrap]
             /\ asleep' = Woken({WQ(k), PollWQ})
    <2>1. call'[p] = User /\ (\A q \in Procs : q # p => call'[q] = call[q]) /\ \A q \in Procs : IsCall(call'[q])
      BY ZenonT(30), <1>2, <1>7, PutCall
    <2>2. \A q \in Procs : asleep'[q] \in {asleep[q], Awake} /\ asleep'[q] # WQ(k)
      <3>1. Awake \notin {WQ(k), PollWQ}
        BY QueueNames
      <3>. QED BY <1>7, <3>1, WokenAre
    <2>3. /\ asleep' = [q \in Procs |-> asleep'[q]] /\ pend' = [q \in Procs |-> pend'[q]]
          /\ fired' = [q \in Procs |-> fired'[q]]
      BY <1>3, <1>7 DEF CallInv, Woken
    <2>5. /\ pipes'[k].nread \in 0 .. Wrap - 1 /\ pipes'[k].nwrite \in 0 .. Wrap - 1
          /\ Cnt(pipes', k) = Cnt(pipes, k) - m
          /\ Cnt(pipes, k) \in Nat /\ Cnt(pipes, k) <= PIPESIZE /\ m \in 0 .. Cnt(pipes, k)
          /\ \A l \in Pipes : l # k => pipes'[l] = pipes[l]
      BY ZenonT(30), <1>1, <1>7, ReadMoves
    <2>. HIDE DEF m, k
    <2>9. Cnt(pipes', k) <= PIPESIZE
      BY <2>5, PipeAssumption
    <2>10. \A l \in Pipes : l # k => Cnt(pipes', l) = Cnt(pipes, l)
      BY <2>5 DEF Cnt
    <2>11. \A l \in Pipes : /\ pipes'[l].nread \in 0 .. Wrap - 1 /\ pipes'[l].nwrite \in 0 .. Wrap - 1
                            /\ Cnt(pipes', l) <= PIPESIZE
      BY <1>3, <2>5, <2>9, <2>10 DEF CallInv
    <2>12. \A q \in Procs, l \in Pipes :
              asleep'[q] = WQ(l) => Cnt(pipes', l) = PIPESIZE /\ pipes'[l].readers > 0
      <3>. SUFFICES ASSUME NEW q \in Procs, NEW l \in Pipes, asleep'[q] = WQ(l)
                    PROVE  Cnt(pipes', l) = PIPESIZE /\ pipes'[l].readers > 0
        OBVIOUS
      <3>1. l # k /\ asleep[q] = WQ(l)
        BY <2>2, QueueNames
      <3>2. Cnt(pipes, l) = PIPESIZE /\ pipes[l].readers > 0
        BY <1>3, <3>1 DEF WriterWoken, Cnt, Count
      <3>. QED BY <2>5, <2>10, <3>1, <3>2
    <2>13. \A q \in Procs : call'[q] \in {User, Unused} => asleep'[q] = Awake
      BY <1>3, <2>1, <2>2 DEF CallInv
    <2>14. \A q \in Procs : asleep'[q] # Awake => ~pend'[q]
      BY <1>3, <2>2 DEF WriterWoken
    <2>. QED BY <2>1, <2>3, <2>11, <2>12, <2>13, <2>14, CallInvNext
  <1>. QED BY <1>4, <1>5, <1>6, <1>7

(* pipe_write fills the ring as far as there is room                       *)
LEMMA WriteMoves ==
    ASSUME WriteInv, NEW k \in Pipes, NEW s, NEW n \in Nat, NEW from \in 0 .. n,
           NEW to, to = from + Min({n - from, PIPESIZE - Count(k)}), pipes' = Poured(k, s, from, to)
    PROVE  /\ pipes'[k].nread \in 0 .. Wrap - 1 /\ pipes'[k].nwrite \in 0 .. Wrap - 1
           /\ to \in from .. n /\ Cnt(pipes', k) = Cnt(pipes, k) + (to - from)
           /\ Cnt(pipes, k) \in Nat /\ Cnt(pipes', k) <= PIPESIZE
           /\ to < n => Cnt(pipes', k) = PIPESIZE
           /\ pipes'[k].readers = pipes[k].readers /\ pipes'[k].writers = pipes[k].writers
           /\ \A l \in Pipes : l # k => pipes'[l] = pipes[l]
  <1>. DEFINE r == pipes[k].nread
              w == pipes[k].nwrite
              c == Cnt(pipes, k)
              m == to - from
  <1>0. PIPESIZE \in Nat
    BY PipeAssumption
  <1>1. CallInv /\ PipeShape
    BY DEF WriteInv, EndInv
  <1>2. r \in 0 .. Wrap - 1 /\ w \in 0 .. Wrap - 1 /\ c <= PIPESIZE /\ c = (w - r) % Wrap
    BY <1>1 DEF CallInv, Cnt
  <1>3. /\ pipes'[k].nwrite = (pipes[k].nwrite + (to - from)) % Wrap /\ pipes'[k].nread = pipes[k].nread
        /\ pipes'[k].readers = pipes[k].readers /\ pipes'[k].writers = pipes[k].writers
        /\ \A l \in Pipes : l # k => pipes'[l] = pipes[l]
    <2>1. IsPipe(pipes[k])
      BY <1>1 DEF PipeShape
    <2>2. PICK z : Poured(k, s, from, to) = [pipes EXCEPT ![k].nwrite = (@ + (to - from)) % Wrap, ![k].buf = z]
      BY DEF Poured
    <2>. QED BY ZenonT(30), <1>1, <2>1, <2>2 DEF PipeShape, IsPipe, PipeFields
  <1>4. to = from + Min({n - from, PIPESIZE - c})
    BY DEF Cnt, Count
  <1>. HIDE DEF r, w, c
  <1>5. c \in Nat
    BY <1>2, RingMove
  <1>6. /\ m \in Nat /\ to \in from .. n /\ c + m <= PIPESIZE
        /\ to < n => c + m = PIPESIZE
    <2>. DEFINE a == n - from
                b == PIPESIZE - c
    <2>1. a \in Nat /\ b \in Nat
      BY <1>0, <1>2, <1>5
    <2>2. to = from + Min({a, b})
      BY <1>4
    <2>. HIDE DEF a, b
    <2>3. Min({a, b}) = IF a <= b THEN a ELSE b
      BY <2>1, MinTwo
    <2>4. to = from + (IF a <= b THEN a ELSE b)
      BY <2>2, <2>3
    <2>. QED BY <1>0, <1>2, <1>5, <2>1, <2>4 DEF a, b
  <1>. HIDE DEF m
  <1>7. (w + m) % Wrap \in 0 .. Wrap - 1 /\ (((w + m) % Wrap) - r) % Wrap = c + m
    <2>1. \A y \in Nat : c + y <= PIPESIZE =>
             (w + y) % Wrap \in 0 .. Wrap - 1 /\ (((w + y) % Wrap) - r) % Wrap = c + y
      BY <1>2, RingMove
    <2>. QED BY <1>6, <2>1
  <1>8. Cnt(pipes', k) = c + m
    BY <1>3, <1>7 DEF Cnt, r, w, m
  <1>9. (pipes[k].nwrite + (to - from)) % Wrap \in 0 .. Wrap - 1 /\ r = pipes[k].nread
    BY <1>7 DEF r, w, m
  <1>. QED BY ZenonT(30), <1>2, <1>3, <1>9, <1>5, <1>6, <1>7, <1>8 DEF c, m

(* pipe_write, from its start or from its sleep                            *)
LEMMA WriteSleep ==
    ASSUME WriteInv, NEW p \in Procs, NEW c, IsCall(c), c.op = "write", asleep[p] = Awake,
           WriteFrom(p, c), fired' = fired
    PROVE  CallInv' /\ WriterWoken'
  <1>. DEFINE k == c.pipe
              n == Len(c.src)
              from == c.pos
              to == c.pos + Min({n - c.pos, PIPESIZE - Count(k)})
              chunk == to \div CHUNK > c.pos \div CHUNK \/ to = n
              C == [c EXCEPT !.pos = to]
  <1>1. k \in Pipes /\ n \in Nat /\ from \in 0 .. n
    BY DEF IsCall, User, Unused
  <1>2. IsCall(User)
    BY DEF IsCall
  <1>3. CallInv /\ WriterWoken /\ PipeShape
    BY DEF WriteInv, EndInv
  <1>4. \/ /\ call' = [call EXCEPT ![p] = User] /\ pipes' = pipes /\ asleep' = asleep
           /\ pend' = [pend EXCEPT ![p] = @ \/ c.pos % CHUNK = 0]
        \/ /\ call' = [call EXCEPT ![p] = User] /\ pipes' = Poured(k, c.src, from, to) /\ pend' = pend
           /\ asleep' = Woken(IF chunk THEN ReaderQueues(k) ELSE {})
        \/ /\ call' = [call EXCEPT ![p] = C] /\ pipes' = Poured(k, c.src, from, to) /\ pend' = pend
           /\ to < n /\ ~pend[p] /\ pipes[k].readers > 0
           /\ asleep' = [Woken(ReaderQueues(k)) EXCEPT ![p] = WQ(k)]
    BY DEF WriteFrom, Return
  <1>5. CASE /\ call' = [call EXCEPT ![p] = User] /\ pipes' = pipes /\ asleep' = asleep
             /\ pend' = [pend EXCEPT ![p] = @ \/ c.pos % CHUNK = 0]
    <2>1. \A q \in Procs : call'[q] = call[q] \/ (call'[q] \in {User, Unused} /\ asleep'[q] = Awake)
      BY <1>2, <1>5, PutCall
    <2>2. asleep' = [q \in Procs |-> asleep'[q]] /\ fired' = [q \in Procs |-> fired'[q]]
      BY <1>3, <1>5 DEF CallInv
    <2>3. pend' = [q \in Procs |-> pend'[q]] /\ \A q \in Procs : q # p => pend'[q] = pend[q]
      BY <1>3, <1>5 DEF CallInv
    <2>. QED BY <1>5, <2>1, <2>2, <2>3, IdleSleep
  <1>6. ASSUME pipes' = Poured(k, c.src, from, to), pend' = pend,
               \A q \in Procs : asleep'[q] \in {asleep[q], Awake} \/ (asleep'[q] = WQ(k) /\ to < n /\ pipes[k].readers > 0)
        PROVE  /\ \A l \in Pipes : /\ pipes'[l].nread \in 0 .. Wrap - 1 /\ pipes'[l].nwrite \in 0 .. Wrap - 1
                                   /\ Cnt(pipes', l) <= PIPESIZE
               /\ \A q \in Procs, l \in Pipes :
                     asleep'[q] = WQ(l) => Cnt(pipes', l) = PIPESIZE /\ pipes'[l].readers > 0
               /\ to \in from .. n
    <2>0. to = from + Min({n - from, PIPESIZE - Count(k)})
      BY DEF to, from
    <2>. HIDE DEF k, n, from, to
    <2>1. /\ pipes'[k].nread \in 0 .. Wrap - 1 /\ pipes'[k].nwrite \in 0 .. Wrap - 1
          /\ to \in from .. n /\ Cnt(pipes', k) = Cnt(pipes, k) + (to - from)
          /\ Cnt(pipes, k) \in Nat /\ Cnt(pipes', k) <= PIPESIZE
          /\ to < n => Cnt(pipes', k) = PIPESIZE
          /\ pipes'[k].readers = pipes[k].readers
          /\ \A l \in Pipes : l # k => pipes'[l] = pipes[l]
      BY ZenonT(30), <1>1, <1>6, <2>0, WriteMoves
    <2>2. \A l \in Pipes : l # k => Cnt(pipes', l) = Cnt(pipes, l)
      BY <2>1 DEF Cnt
    <2>3. \A l \in Pipes : /\ pipes'[l].nread \in 0 .. Wrap - 1 /\ pipes'[l].nwrite \in 0 .. Wrap - 1
                           /\ Cnt(pipes', l) <= PIPESIZE
      BY <1>3, <2>1, <2>2 DEF CallInv
    <2>4. ASSUME NEW q \in Procs, NEW l \in Pipes, asleep'[q] = WQ(l)
          PROVE  Cnt(pipes', l) = PIPESIZE /\ pipes'[l].readers > 0
      <3>1. CASE asleep[q] = WQ(l)
        <4>1. Cnt(pipes, l) = PIPESIZE /\ pipes[l].readers > 0
          BY <1>3, <3>1 DEF WriterWoken, Cnt, Count
        <4>2. l = k => Cnt(pipes', l) = PIPESIZE
          BY <1>1, <2>1, <4>1, PipeAssumption
        <4>. QED BY <2>1, <2>2, <4>1, <4>2
      <3>2. CASE asleep'[q] = WQ(k) /\ to < n /\ pipes[k].readers > 0
        BY ZenonT(30), <2>1, <2>4, <3>2, QueueNames
      <3>. QED BY <1>6, <2>4, <3>1, <3>2, QueueNames
    <2>. QED BY <2>1, <2>3, <2>4
  <1>7. CASE /\ call' = [call EXCEPT ![p] = User] /\ pipes' = Poured(k, c.src, from, to) /\ pend' = pend
             /\ asleep' = Woken(IF chunk THEN ReaderQueues(k) ELSE {})
    <2>. DEFINE Q == IF chunk THEN ReaderQueues(k) ELSE {}
    <2>1. Awake \notin Q
      BY QueueNames DEF ReaderQueues
    <2>2. asleep' = Woken(Q)
      BY <1>7
    <2>. HIDE DEF Q, chunk
    <2>3. \A q \in Procs : asleep'[q] \in {asleep[q], Awake}
      BY <2>1, <2>2, WokenAre
    <2>4. /\ asleep' = [q \in Procs |-> asleep'[q]] /\ pend' = [q \in Procs |-> pend'[q]]
          /\ fired' = [q \in Procs |-> fired'[q]]
      BY <1>3, <1>7, <2>2 DEF CallInv, Woken
    <2>5. call'[p] = User /\ (\A q \in Procs : q # p => call'[q] = call[q]) /\ \A q \in Procs : IsCall(call'[q])
      BY ZenonT(30), <1>2, <1>7, PutCall
    <2>6. \A q \in Procs : call'[q] \in {User, Unused} => asleep'[q] = Awake
      BY <1>3, <2>3, <2>5 DEF CallInv
    <2>7. \A q \in Procs : asleep'[q] # Awake => ~pend'[q]
      BY <1>3, <1>7, <2>3 DEF WriterWoken
    <2>. HIDE DEF to, k, n, from
    <2>. QED BY <1>6, <1>7, <2>3, <2>4, <2>5, <2>6, <2>7, CallInvNext
  <1>8. CASE /\ call' = [call EXCEPT ![p] = C] /\ pipes' = Poured(k, c.src, from, to) /\ pend' = pend
             /\ to < n /\ ~pend[p] /\ pipes[k].readers > 0
             /\ asleep' = [Woken(ReaderQueues(k)) EXCEPT ![p] = WQ(k)]
    <2>1. asleep'[p] = WQ(k) /\ \A q \in Procs : q # p => asleep'[q] \in {asleep[q], Awake}
      <3>1. Awake \notin ReaderQueues(k)
        BY QueueNames DEF ReaderQueues
      <3>2. \A q \in Procs : Woken(ReaderQueues(k))[q] \in {asleep[q], Awake}
        BY <3>1, WokenAre
      <3>3. DOMAIN Woken(ReaderQueues(k)) = Procs
        BY DEF Woken
      <3>. QED BY <1>8, <3>2, <3>3
    <2>2. /\ asleep' = [q \in Procs |-> asleep'[q]] /\ pend' = [q \in Procs |-> pend'[q]]
          /\ fired' = [q \in Procs |-> fired'[q]]
      BY ZenonT(30), <1>3, <1>8 DEF CallInv, Woken
    <2>3. to \in from .. n
      BY ZenonT(30), <1>6, <1>8, <2>1
    <2>. HIDE DEF to
    <2>4. IsCall(C) /\ C \notin {User, Unused}
      <3>1. c = [op |-> "write", pipe |-> c.pipe, src |-> c.src, pos |-> c.pos, nonblock |-> c.nonblock]
        BY DEF IsCall, User, Unused
      <3>2. C = [op |-> "write", pipe |-> c.pipe, src |-> c.src, pos |-> to, nonblock |-> c.nonblock]
        BY <3>1
      <3>3. /\ C = [op |-> "write", pipe |-> C.pipe, src |-> C.src, pos |-> C.pos, nonblock |-> C.nonblock]
            /\ C.pipe = k /\ C.src = c.src /\ C.pos = to /\ C.op = "write"
        BY <3>2
      <3>4. C.pos \in 0 .. Len(C.src) /\ Len(C.src) \in Nat /\ C.pipe \in Pipes
        BY <1>1, <2>3, <3>3
      <3>. HIDE DEF C
      <3>. QED BY <3>3, <3>4 DEF IsCall, User, Unused
    <2>. HIDE DEF C
    <2>5. call'[p] = C /\ (\A q \in Procs : q # p => call'[q] = call[q]) /\ \A q \in Procs : IsCall(call'[q])
      BY ZenonT(30), <1>8, <2>4, PutCall
    <2>6. \A q \in Procs : call'[q] \in {User, Unused} => asleep'[q] = Awake
      BY <1>3, <2>1, <2>4, <2>5 DEF CallInv
    <2>7. \A q \in Procs : asleep'[q] # Awake => ~pend'[q]
      BY <1>3, <1>8, <2>1 DEF WriterWoken
    <2>. HIDE DEF k, n, from
    <2>. QED BY <1>6, <1>8, <2>1, <2>2, <2>5, <2>6, <2>7, CallInvNext
  <1>. QED BY <1>4, <1>5, <1>7, <1>8

(* sys_poll, from its start or from its sleep                              *)
LEMMA PollSleep ==
    ASSUME WriteInv, NEW p \in Procs, NEW c, IsCall(c), c.op = "poll", asleep[p] = Awake,
           NEW t, PollFrom(p, c, t), pipes' = pipes, pend' = pend, fired' = [q \in Procs |-> fired'[q]]
    PROVE  CallInv' /\ WriterWoken'
  <1>1. CallInv /\ WriterWoken
    BY DEF WriteInv
  <1>2. pend' = [q \in Procs |-> pend'[q]]
    BY <1>1 DEF CallInv
  <1>3. \/ call' = [call EXCEPT ![p] = User] /\ asleep' = asleep
        \/ call' = [call EXCEPT ![p] = c] /\ asleep' = [asleep EXCEPT ![p] = PollWQ] /\ ~pend[p]
    BY DEF PollFrom, Return
  <1>4. CASE call' = [call EXCEPT ![p] = User] /\ asleep' = asleep
    <2>1. IsCall(User)
      BY DEF IsCall
    <2>2. \A q \in Procs : call'[q] = call[q] \/ (call'[q] \in {User, Unused} /\ asleep'[q] = Awake)
      BY <1>4, <2>1, PutCall
    <2>3. asleep' = [q \in Procs |-> asleep'[q]]
      BY <1>1, <1>4 DEF CallInv
    <2>. QED BY <1>2, <1>4, <2>2, <2>3, IdleSleep
  <1>5. CASE call' = [call EXCEPT ![p] = c] /\ asleep' = [asleep EXCEPT ![p] = PollWQ] /\ ~pend[p]
    <2>1. call'[p] = c /\ (\A q \in Procs : q # p => call'[q] = call[q]) /\ \A q \in Procs : IsCall(call'[q])
      BY ZenonT(30), <1>5, PutCall
    <2>2. /\ asleep' = [q \in Procs |-> asleep'[q]]
          /\ asleep'[p] = PollWQ /\ \A q \in Procs : q # p => asleep'[q] = asleep[q]
      BY <1>1, <1>5 DEF CallInv
    <2>3. c \notin {User, Unused}
      BY DEF User, Unused
    <2>4. \A q \in Procs : call'[q] \in {User, Unused} => asleep'[q] = Awake
      BY <1>1, <2>1, <2>2, <2>3 DEF CallInv
    <2>5. \A q \in Procs : asleep'[q] # Awake => ~pend'[q]
      BY <1>1, <1>5, <2>2 DEF WriterWoken
    <2>6. \A l \in Pipes : /\ pipes'[l].nread \in 0 .. Wrap - 1 /\ pipes'[l].nwrite \in 0 .. Wrap - 1
                           /\ Cnt(pipes', l) <= PIPESIZE
      BY <1>1 DEF CallInv
    <2>7. ASSUME NEW q \in Procs, NEW l \in Pipes, asleep'[q] = WQ(l)
          PROVE  Cnt(pipes', l) = PIPESIZE /\ pipes'[l].readers > 0
      <3>1. asleep[q] = WQ(l)
        BY <2>2, <2>7, QueueNames
      <3>. QED BY <1>1, <3>1 DEF WriterWoken, Cnt, Count
    <2>. QED BY <1>2, <2>1, <2>2, <2>4, <2>5, <2>6, <2>7, CallInvNext
  <1>. QED BY <1>3, <1>4, <1>5

(* A process in user mode is awake                                         *)
LEMMA UserAwake ==
    ASSUME WriteInv, NEW p \in Procs, call[p] \in {User, Unused}
    PROVE  asleep[p] = Awake
  BY DEF WriteInv, CallInv

(* An open file has its pipes                                              *)
LEMMA HeldPipes ==
    ASSUME WriteInv, NEW p \in Procs, NEW d \in FDs, fds[p][d] # None
    PROVE  fds[p][d] \in Files /\ files[fds[p][d]].rp \in Pipes /\ files[fds[p][d]].wp \in Pipes
  <1>1. RefInv /\ OnPipes(files)
    BY DEF WriteInv, EndInv
  <1>2. fds[p][d] \in Files
    BY <1>1 DEF RefInv, TableTypes
  <1>3. files[fds[p][d]].ref \in Nat
    BY <1>1, <1>2 DEF RefInv, TableTypes, FileRecs
  <1>4. 1 <= files[fds[p][d]].ref
    BY <1>1, <1>2, HeldCounted
  <1>. QED BY <1>1, <1>2, <1>3, <1>4 DEF OnPipes

(* The start of read, write and poll                                       *)
LEMMA StartSleep ==
    ASSUME WriteInv, NEW p \in Procs, Transfer(p)
    PROVE  CallInv' /\ WriterWoken'
  <1>1. CallInv
    BY DEF WriteInv
  <1>2. \A d \in FDs : fds[p][d] # None => /\ fds[p][d] \in Files
                                          /\ files[fds[p][d]].rp \in Pipes /\ files[fds[p][d]].wp \in Pipes
    BY HeldPipes
  <1>3. ASSUME NEW d \in FDs, NEW n \in 1 .. MaxLen, Read(p, d, n)
        PROVE  CallInv' /\ WriterWoken'
    <2>. DEFINE c == [op |-> "read", pipe |-> files[fds[p][d]].rp, n |-> n,
                      nonblock |-> files[fds[p][d]].nonblock]
    <2>1. /\ ReadFrom(p, c) /\ pend' = pend /\ fired' = fired
          /\ call[p] = User /\ fds[p][d] # None
      BY <1>3 DEF Read, UserMode
    <2>2. IsCall(c) /\ c.op = "read"
      <3>1. n \in Nat /\ files[fds[p][d]].rp \in Pipes
        BY <1>2, <2>1, PipeAssumption
      <3>. QED BY ZenonT(30), <3>1, ReadIsCall
    <2>3. asleep[p] = Awake
      BY <2>1, UserAwake
    <2>. HIDE DEF c
    <2>. QED BY <2>1, <2>2, <2>3, ReadSleep
  <1>4. ASSUME NEW d \in FDs, NEW src \in Sources, Write(p, d, src)
        PROVE  CallInv' /\ WriterWoken'
    <2>. DEFINE c == [op |-> "write", pipe |-> files[fds[p][d]].wp, src |-> src, pos |-> 0,
                      nonblock |-> files[fds[p][d]].nonblock]
    <2>1. WriteFrom(p, c) /\ fired' = fired /\ call[p] = User /\ fds[p][d] # None
      BY <1>4 DEF Write, UserMode
    <2>2. IsCall(c) /\ c.op = "write"
      <3>1. files[fds[p][d]].wp \in Pipes
        BY <1>2, <2>1
      <3>. QED BY ZenonT(30), <3>1, WriteIsCall
    <2>3. asleep[p] = Awake
      BY <2>1, UserAwake
    <2>. HIDE DEF c
    <2>. QED BY <2>1, <2>2, <2>3, WriteSleep
  <1>5. ASSUME NEW d \in FDs, NEW ev, NEW t, Poll(p, d, ev, t)
        PROVE  CallInv' /\ WriterWoken'
    <2>. DEFINE c == [op |-> "poll", fd |-> d, ev |-> ev, timed |-> t]
    <2>1. PollFrom(p, c, FALSE) /\ pipes' = pipes /\ pend' = pend /\ call[p] = User
      BY ZenonT(30), <1>5 DEF Poll, UserMode
    <2>2. IsCall(c) /\ c.op = "poll"
      BY DEF IsCall
    <2>3. asleep[p] = Awake
      BY <2>1, UserAwake
    <2>4. fired' = [q \in Procs |-> fired'[q]]
      BY ZenonT(30), <1>1, <1>5 DEF Poll, CallInv
    <2>. HIDE DEF c
    <2>. QED BY ZenonT(30), <2>1, <2>2, <2>3, <2>4, PollSleep
  <1>. QED BY <1>3, <1>4, <1>5 DEF Transfer

(* A call goes on                                                          *)
LEMMA ResumeSleep ==
    ASSUME WriteInv, NEW p \in Procs, Resume(p)
    PROVE  CallInv' /\ WriterWoken'
  <1>1. IsCall(call[p]) /\ fired = [q \in Procs |-> fired[q]]
    BY DEF WriteInv, CallInv
  <1>2. ASSUME ReadOn(p) PROVE CallInv' /\ WriterWoken'
    <2>1. /\ call[p].op = "read" /\ asleep[p] = Awake /\ ReadFrom(p, call[p]) /\ pend' = pend /\ fired' = fired
      BY <1>2 DEF ReadOn
    <2>. QED BY <1>1, <2>1, ReadSleep
  <1>3. ASSUME WriteOn(p) PROVE CallInv' /\ WriterWoken'
    <2>1. /\ call[p].op = "write" /\ asleep[p] = Awake /\ WriteFrom(p, call[p]) /\ fired' = fired
      BY <1>3 DEF WriteOn
    <2>. QED BY <1>1, <2>1, WriteSleep
  <1>4. ASSUME PollOn(p) PROVE CallInv' /\ WriterWoken'
    <2>1. /\ call[p].op = "poll" /\ asleep[p] = Awake /\ PollFrom(p, call[p], fired[p])
          /\ pipes' = pipes /\ pend' = pend /\ fired' = [q \in Procs |-> fired'[q]]
      BY <1>1, <1>4 DEF PollOn
    <2>. QED BY <1>1, <2>1, PollSleep
  <1>. QED BY <1>2, <1>3, <1>4 DEF Resume

(* dup2 *)
LEMMA Dup2Sleep ==
    ASSUME WriteInv, NEW p \in Procs, NEW a \in FDs, NEW b \in FDs, Dup2(p, a, b)
    PROVE  CallInv' /\ WriterWoken'
  <1>. DEFINE gone == [f \in Files |-> IF fds[p][b] = f THEN 1 ELSE 0]
  <1>1. /\ pipes' = PipesAfter(gone) /\ UNCHANGED <<call, pend, fired>>
        /\ asleep' = Woken(IF Ended(gone) = {} THEN {} ELSE PipeQueues(Touched(gone)))
    BY DEF Dup2
  <1>2. RefInv
    BY DEF WriteInv, EndInv
  <1>3. gone \in [Files -> Nat] /\ \A f \in Files : gone[f] <= files[f].ref
    <2>1. ASSUME NEW f \in Files PROVE gone[f] <= files[f].ref
      <3>1. files[f].ref \in Nat
        BY <1>2 DEF RefInv, TableTypes, FileRecs
      <3>2. CASE fds[p][b] = f
        <4>1. 1 <= files[f].ref
          BY <1>2, <3>2, HeldCounted
        <4>. QED BY <3>1, <3>2, <4>1
      <3>. QED BY <3>1, <3>2
    <2>. QED BY <2>1
  <1>4. pend' = [q \in Procs |-> pend'[q]]
    BY <1>1 DEF WriteInv, CallInv
  <1>. HIDE DEF gone
  <1>. QED BY <1>1, <1>3, <1>4, ReleaseSleep

(* Every step but those of the device leaves no writer asleep for nothing  *)
LEMMA WriteStep ==
    ASSUME WriteInv, "attach" \notin Calls, [Next]_vars
    PROVE  WriteInv'
  <1>1. EndInv'
    BY EndStep DEF WriteInv
  <1>2. /\ asleep = [q \in Procs |-> asleep[q]] /\ pend = [q \in Procs |-> pend[q]]
        /\ fired = [q \in Procs |-> fired[q]] /\ call = [q \in Procs |-> call[q]]
    BY DEF WriteInv, CallInv, EndInv, RefInv, TableTypes
  <1>3. ASSUME pipes' = pipes, call' = call, asleep' = asleep, pend' = pend, fired' = fired
        PROVE  CallInv' /\ WriterWoken'
    BY <1>2, <1>3, IdleSleep
  <1>4. ASSUME NEW p \in Procs, Table(p) PROVE CallInv' /\ WriterWoken'
    <2>1. ASSUME NEW d \in FDs, Close(p, d) PROVE CallInv' /\ WriterWoken'
      <3>1. CloseFds(p, {d}) /\ call' = call /\ pend' = pend /\ fired' = fired
        BY <2>1 DEF Close
      <3>. QED BY <1>2, <3>1, CloseSleep
    <2>2. ASSUME NEW q \in Procs, NEW d \in FDs, CtlClose(p, q, d) PROVE CallInv' /\ WriterWoken'
      <3>1. CloseFds(q, {d}) /\ call' = call /\ pend' = pend /\ fired' = fired
        BY <2>2 DEF CtlClose
      <3>. QED BY <1>2, <3>1, CloseSleep
    <2>3. ASSUME Exec(p) PROVE CallInv' /\ WriterWoken'
      <3>1. cloexec[p] \subseteq FDs
        BY DEF WriteInv, EndInv, RefInv, TableTypes
      <3>2. CloseFds(p, cloexec[p]) /\ call' = call /\ pend' = pend /\ fired' = fired
        BY <2>3 DEF Exec
      <3>. QED BY <1>2, <3>1, <3>2, CloseSleep
    <2>4. ASSUME Exit(p) PROVE CallInv' /\ WriterWoken'
      <3>1. /\ CloseFds(p, FDs) /\ call[p] = User /\ call' = [call EXCEPT ![p] = Unused]
            /\ pend' = [pend EXCEPT ![p] = FALSE] /\ fired' = fired
        BY <2>4 DEF Exit
      <3>2. asleep[p] = Awake
        BY <3>1, UserAwake
      <3>3. \A q \in Procs : call'[q] = call[q] \/ (call'[q] \in {User, Unused} /\ asleep[q] = Awake)
        BY <1>2, <3>1, <3>2
      <3>4. pend' = [q \in Procs |-> pend'[q]] /\ \A q \in Procs : pend'[q] => pend[q]
        BY ZenonT(30), <1>2, <3>1
      <3>. QED BY ZenonT(30), <3>1, <3>3, <3>4, CloseSleep
    <2>5. ASSUME NEW d \in FDs, Dup(p, d) \/ SetFd(p, d) PROVE CallInv' /\ WriterWoken'
      BY <1>3, <2>5 DEF Dup, SetFd
    <2>6. ASSUME NEW d \in FDs, NEW b \in BOOLEAN, SetFl(p, d, b) PROVE CallInv' /\ WriterWoken'
      BY <1>3, <2>6 DEF SetFl
    <2>7. ASSUME NEW a \in FDs, NEW b \in FDs, Dup2(p, a, b) PROVE CallInv' /\ WriterWoken'
      BY <2>7, Dup2Sleep
    <2>8. ASSUME NEW c \in Procs, Fork(p, c) PROVE CallInv' /\ WriterWoken'
      <3>1. /\ pipes' = pipes /\ asleep' = asleep /\ pend' = pend /\ fired' = fired
            /\ call[c] = Unused /\ call' = [call EXCEPT ![c] = User]
        BY <2>8 DEF Fork
      <3>2. asleep[c] = Awake
        BY <3>1, UserAwake
      <3>3. \A q \in Procs : call'[q] = call[q] \/ (call'[q] \in {User, Unused} /\ asleep'[q] = Awake)
        BY <1>2, <3>1, <3>2
      <3>. QED BY <1>2, <3>1, <3>3, IdleSleep
    <2>9. ASSUME PipeCall(p) PROVE CallInv' /\ WriterWoken'
      BY <2>9, PipeSleep
    <2>10. /\ ~Attach(p)
           /\ \A d \in Devs, e \in {2, 3} :
                \A m \in {<<TRUE, FALSE>>, <<FALSE, TRUE>>, <<TRUE, TRUE>>} : ~OpenEnd(p, d, e, m[1], m[2])
      <3>1. ~Attach(p)
        BY DEF Attach
      <3>2. ASSUME NEW d \in Devs, NEW e \in {2, 3}, NEW r, NEW w, OpenEnd(p, d, e, r, w) PROVE "attach" \in Calls
        BY <3>2, Zenon DEF OpenEnd
      <3>. QED BY ZenonT(30), <3>1, <3>2
    <2>. QED BY ZenonT(30), <1>4, <2>1, <2>2, <2>3, <2>4, <2>5, <2>6, <2>7, <2>8, <2>9, <2>10 DEF Table
  <1>5. ASSUME NEW p \in Procs, Transfer(p) \/ Resume(p) PROVE CallInv' /\ WriterWoken'
    BY <1>5, StartSleep, ResumeSleep
  <1>6. ASSUME NEW p \in Procs, PollTimeout(p) PROVE CallInv' /\ WriterWoken'
    <2>1. /\ pipes' = pipes /\ call' = call /\ pend' = pend
          /\ fired' = [fired EXCEPT ![p] = TRUE]
          /\ asleep' = Woken({PollWQ}) \/ asleep' = asleep
      BY <1>6 DEF PollTimeout
    <2>2. Awake \notin {PollWQ}
      BY QueueNames
    <2>3. \A q \in Procs : Woken({PollWQ})[q] \in {asleep[q], Awake}
      BY <2>2, WokenAre
    <2>4. Woken({PollWQ}) = [q \in Procs |-> Woken({PollWQ})[q]]
      BY DEF Woken
    <2>5. asleep' = [q \in Procs |-> asleep'[q]] /\ \A q \in Procs : asleep'[q] \in {asleep[q], Awake}
      BY <1>2, <2>1, <2>3, <2>4
    <2>6. fired' = [q \in Procs |-> fired'[q]]
      BY ZenonT(30), <1>2, <2>1
    <2>. QED BY <1>2, <2>1, <2>5, <2>6, IdleSleep
  <1>7. ASSUME NEW p \in Procs, Signal(p) \/ Deliver(p) PROVE CallInv' /\ WriterWoken'
    <2>1. /\ pipes' = pipes /\ call' = call /\ fired' = fired
          /\ \/ pend' = [pend EXCEPT ![p] = TRUE] /\ asleep' = [asleep EXCEPT ![p] = Awake]
             \/ pend' = [pend EXCEPT ![p] = FALSE] /\ asleep' = asleep
      BY <1>7 DEF Signal, Deliver
    <2>2. asleep' = [q \in Procs |-> asleep'[q]] /\ \A q \in Procs : asleep'[q] \in {asleep[q], Awake}
      BY <1>2, <2>1
    <2>3. pend' = [q \in Procs |-> pend'[q]] /\ \A q \in Procs : pend'[q] => pend[q] \/ asleep'[q] = Awake
      BY <1>2, <2>1
    <2>. QED BY <1>2, <2>1, <2>2, <2>3, IdleSleep
  <1>8. \A d \in Devs : ~ReleaseDev(d)
    BY DEF ReleaseDev
  <1>9. ASSUME UNCHANGED vars PROVE CallInv' /\ WriterWoken'
    BY <1>3, <1>9 DEF vars
  <1>10. CallInv' /\ WriterWoken'
    BY <1>4, <1>5, <1>6, <1>7, <1>8, <1>9 DEF Next
  <1>. QED BY <1>1, <1>10 DEF WriteInv

(* At the start nobody sleeps                                              *)
LEMMA WriteInit ==
    ASSUME Init
    PROVE  WriteInv
  <1>1. EndInv
    BY EndInit
  <1>2. \A p \in Procs : asleep[p] = Awake
    BY DEF Init
  <1>3. WriterWoken
    BY <1>2, QueueNames DEF WriterWoken
  <1>4. ASSUME NEW k \in Pipes
        PROVE  /\ pipes[k].nread \in 0 .. Wrap - 1 /\ pipes[k].nwrite \in 0 .. Wrap - 1
               /\ Cnt(pipes, k) <= PIPESIZE
    <2>1. pipes[k].nread = 0 /\ pipes[k].nwrite = 0
      BY DEF Init, ZeroPipe
    <2>2. Wrap \in Nat \ {0} /\ PIPESIZE \in Nat /\ (0 - 0) % Wrap = 0
      BY PipeAssumption
    <2>. QED BY <2>1, <2>2 DEF Cnt
  <1>5. \A p \in Procs : IsCall(call[p])
    BY DEF Init, IsCall
  <1>. QED BY <1>1, <1>2, <1>3, <1>4, <1>5 DEF WriteInv, CallInv, Init

(* Whoever sleeps in pipe_write has a full pipe and a reader to empty it,  *)
(* and nobody sleeps over a pending signal, whichever calls were cut short *)
(* by signals or did not block (the wakeups of pipe_read, pipe_check,      *)
(* file_close and send_signal).                                            *)
THEOREM WritersStayWoken ==
    ASSUME "attach" \notin Calls
    PROVE  Spec => []WriterWoken
  <1>1. Init => WriteInv
    BY WriteInit
  <1>2. WriteInv /\ [Next]_vars => WriteInv'
    BY WriteStep
  <1>3. WriteInv => WriterWoken
    BY DEF WriteInv
  <1>. QED BY <1>1, <1>2, <1>3, PTL DEF Spec

(* What the readers rest on beside that: every transfer blocks, a signal   *)
(* finds nobody in a call, and only polls sleep on poll_wq                 *)
Plain(c, sig, q) ==
    /\ c.op \in {"read", "write"} => ~c.nonblock
    /\ c \notin {User, Unused} => ~sig
    /\ q = PollWQ => c.op = "poll"
    /\ c.op = "poll" => "poll" \in Calls

Blocking(F) == \A f \in Files : ~F[f].nonblock

(* The inductive invariant for the readers                                 *)
ReadInv ==
    /\ WriteInv /\ ReaderWoken /\ Blocking(files)
    /\ \A p \in Procs : Plain(call[p], pend[p], asleep[p])

(* The calls that keep the promise: no device, every transfer blocks, no   *)
(* signals from outside, and nobody closes the descriptor of a poll        *)
PlainCalls == /\ "attach" \notin Calls /\ "signal" \notin Calls /\ "setfl" \notin Calls
              /\ "ctl" \notin Calls \/ "poll" \notin Calls

(* The poll of q finds what it found                                       *)
SamePoll(q) ==
    LET f == fds[q][call[q].fd]
    IN  /\ call'[q] = call[q] /\ fds'[q] = fds[q] /\ fired'[q] = fired[q]
        /\ f # None => /\ files'[f].rd = files[f].rd /\ files'[f].wr = files[f].wr
                       /\ files'[f].rp = files[f].rp /\ files'[f].wp = files[f].wp
                       /\ files[f].rd => /\ pipes'[files[f].rp].writers = pipes[files[f].rp].writers
                                         /\ Cnt(pipes', files[f].rp) = Cnt(pipes, files[f].rp)
                       /\ files[f].wr => /\ pipes'[files[f].wp].readers = pipes[files[f].wp].readers
                                         /\ Cnt(pipes', files[f].wp) = Cnt(pipes, files[f].wp)

LEMMA PollStays ==
    ASSUME ReadInv, NEW q \in Procs, asleep[q] = PollWQ, SamePoll(q)
    PROVE  ~PollOne(q, call[q].fd, call[q].ev)' /\ ~fired'[q]
  <1>1. ~PollOne(q, call[q].fd, call[q].ev) /\ ~fired[q]
    BY DEF ReadInv, ReaderWoken
  <1>. QED BY <1>1, ZenonT(60) DEF SamePoll, PollOne, Count, Cnt

(* The step leaves nobody asleep on what is there                          *)
LEMMA ReadersNext ==
    ASSUME ReadInv,
           \A q \in Procs, k \in Pipes :
              asleep'[q] = RQ(k) => \/ Cnt(pipes', k) = 0 /\ pipes'[k].writers > 0
                                    \/ /\ asleep[q] = RQ(k) /\ Cnt(pipes', k) = Cnt(pipes, k)
                                       /\ pipes'[k].writers = pipes[k].writers,
           \A q \in Procs : asleep'[q] = PollWQ =>
                               \/ ~PollOne(q, call[q].fd, call[q].ev)' /\ ~fired'[q]
                               \/ asleep[q] = PollWQ /\ SamePoll(q)
    PROVE  ReaderWoken'
  <1>1. ASSUME NEW q \in Procs, NEW k \in Pipes, asleep'[q] = RQ(k)
        PROVE  Cnt(pipes', k) = 0 /\ pipes'[k].writers > 0
    BY <1>1 DEF ReadInv, ReaderWoken, Count, Cnt
  <1>2. ASSUME NEW q \in Procs, asleep'[q] = PollWQ
        PROVE  ~PollOne(q, call[q].fd, call[q].ev)' /\ ~fired'[q]
    BY <1>2, PollStays
  <1>. QED BY <1>1, <1>2, ZenonT(60) DEF ReaderWoken, Count, Cnt

(* Nobody in a poll has a call of its own to begin, and its file is open   *)
LEMMA Polled ==
    ASSUME ReadInv, NEW q \in Procs, asleep[q] = PollWQ
    PROVE  /\ call[q].op = "poll" /\ call[q] \notin {User, Unused} /\ call[q].fd \in FDs
           /\ "poll" \in Calls
           /\ fds[q][call[q].fd] \in Files /\ files[fds[q][call[q].fd]].ref > 0
  <1>1. /\ call[q].op = "poll" /\ "poll" \in Calls
        /\ ~PollOne(q, call[q].fd, call[q].ev) /\ IsCall(call[q])
    BY DEF ReadInv, Plain, ReaderWoken, WriteInv, CallInv
  <1>2. call[q] \notin {User, Unused} /\ call[q].fd \in FDs
    BY <1>1 DEF IsCall, User, Unused
  <1>3. fds[q][call[q].fd] # None
    BY <1>1 DEF PollOne
  <1>4. RefInv
    BY DEF ReadInv, WriteInv, EndInv
  <1>5. fds[q][call[q].fd] \in Files
    BY <1>2, <1>3, <1>4 DEF RefInv, TableTypes
  <1>6. files[fds[q][call[q].fd]].ref \in Nat
    BY <1>4, <1>5 DEF RefInv, TableTypes, FileRecs
  <1>7. 1 <= files[fds[q][call[q].fd]].ref
    BY <1>2, <1>4, <1>5, HeldCounted
  <1>. QED BY <1>1, <1>2, <1>5, <1>6, <1>7

(* A pipe at which a process polls or reads is not one that is unused      *)
LEMMA UsedPipes ==
    ASSUME EndInv, NEW k \in Pipes, ~pipes[k].used
    PROVE  /\ ~(pipes[k].readers > 0) /\ ~(pipes[k].writers > 0)
           /\ \A f \in Files : files[f].ref > 0 => /\ files[f].rd => files[f].rp # k
                                                   /\ files[f].wr => files[f].wp # k
  <1>1. /\ pipes[k].readers = Cardinality(REnds(files, k)) /\ pipes[k].writers = Cardinality(WEnds(files, k))
        /\ ~(pipes[k].readers + pipes[k].writers > 0)
    BY DEF EndInv, EndsOf
  <1>2. /\ REnds(files, k) = {} /\ WEnds(files, k) = {}
        /\ ~(pipes[k].readers > 0) /\ ~(pipes[k].writers > 0)
    BY <1>1, EndsFinite
  <1>. QED BY <1>2 DEF REnds, WEnds

(* What the steps of the calls have to keep beside WriteInv                *)
ReadKept ==
    /\ ReaderWoken /\ Blocking(files)
    /\ \A p \in Procs : Plain(call[p], pend[p], asleep[p])

(* A file keeps its ends                                                   *)
SameFile(f) == /\ files'[f].rd = files[f].rd /\ files'[f].wr = files[f].wr
               /\ files'[f].rp = files[f].rp /\ files'[f].wp = files[f].wp

(* A step in which nobody begins a call or falls asleep                    *)
LEMMA PlainStays ==
    ASSUME ReadInv,
           \A q \in Procs : \/ call'[q] = call[q]
                            \/ call'[q] \in {User, Unused} /\ asleep'[q] = Awake,
           \A q \in Procs : asleep'[q] \in {asleep[q], Awake},
           \A q \in Procs : pend'[q] => pend[q] \/ call'[q] \in {User, Unused},
           NEW q \in Procs
    PROVE  Plain(call'[q], pend'[q], asleep'[q])
  <1>1. Plain(call[q], pend[q], asleep[q]) /\ Awake # PollWQ
    BY QueueNames DEF ReadInv
  <1>2. CASE call'[q] = call[q]
    BY <1>1, <1>2 DEF Plain
  <1>3. CASE call'[q] \in {User, Unused} /\ asleep'[q] = Awake
    BY <1>1, <1>3 DEF Plain, User, Unused
  <1>. QED BY <1>2, <1>3

(* The poll of q goes on if its file keeps its ends and its pipes their    *)
(* counters and counts                                                     *)
LEMMA PollSteady ==
    ASSUME ReadInv, NEW q \in Procs, asleep[q] = PollWQ,
           call'[q] = call[q], fds'[q] = fds[q], fired'[q] = fired[q],
           \A f \in Files : files[f].ref > 0 => SameFile(f),
           \A f \in Files, k \in Pipes :
              /\ files[f].ref > 0
              /\ (files[f].rd /\ files[f].rp = k) \/ (files[f].wr /\ files[f].wp = k)
              => /\ pipes'[k].nread = pipes[k].nread /\ pipes'[k].nwrite = pipes[k].nwrite
                 /\ pipes'[k].readers = pipes[k].readers /\ pipes'[k].writers = pipes[k].writers
    PROVE  SamePoll(q)
  <1>. DEFINE f == fds[q][call[q].fd]
  <1>1. f \in Files /\ files[f].ref > 0
    BY Polled
  <1>2. files[f].rp \in Pipes /\ files[f].wp \in Pipes
    BY <1>1 DEF ReadInv, WriteInv, EndInv, OnPipes
  <1>3. SameFile(f)
    BY <1>1
  <1>4. files[f].rd => /\ pipes'[files[f].rp].writers = pipes[files[f].rp].writers
                       /\ Cnt(pipes', files[f].rp) = Cnt(pipes, files[f].rp)
    BY <1>1, <1>2 DEF Cnt
  <1>5. files[f].wr => /\ pipes'[files[f].wp].readers = pipes[files[f].wp].readers
                       /\ Cnt(pipes', files[f].wp) = Cnt(pipes, files[f].wp)
    BY <1>1, <1>2 DEF Cnt
  <1>. QED BY <1>3, <1>4, <1>5 DEF SamePoll, SameFile

(* file_close for close, exec, exit, the control message and dup2          *)
LEMMA ReleaseReads ==
    ASSUME ReadInv, NEW gone \in [Files -> Nat], \A f \in Files : gone[f] <= files[f].ref,
           pipes' = PipesAfter(gone),
           asleep' = Woken(IF Ended(gone) = {} THEN {} ELSE PipeQueues(Touched(gone))),
           \A f \in Files : f \notin Ended(gone) => SameFile(f),
           \A q \in Procs : asleep[q] = PollWQ => call'[q] = call[q] /\ fds'[q] = fds[q],
           fired' = fired
    PROVE  ReaderWoken'
  <1>1. EndInv
    BY DEF ReadInv, WriteInv
  <1>2. /\ \A q \in Procs : asleep'[q] \in {asleep[q], Awake}
        /\ \A k \in Pipes : /\ pipes'[k].nread = pipes[k].nread /\ pipes'[k].nwrite = pipes[k].nwrite
                            /\ \/ /\ pipes'[k].readers = pipes[k].readers
                                  /\ pipes'[k].writers = pipes[k].writers
                               \/ \A q \in Procs : asleep'[q] \notin {RQ(k), WQ(k), PollWQ}
        /\ Ended(gone) = {} \/ \A q \in Procs : asleep'[q] # PollWQ
    BY ZenonT(30), <1>1, ReleaseWakes
  <1>3. ASSUME NEW q \in Procs, NEW k \in Pipes, asleep'[q] = RQ(k)
        PROVE  asleep[q] = RQ(k) /\ Cnt(pipes', k) = Cnt(pipes, k) /\ pipes'[k].writers = pipes[k].writers
    BY <1>2, <1>3, QueueNames DEF Cnt
  <1>4. ASSUME NEW q \in Procs, asleep'[q] = PollWQ
        PROVE  asleep[q] = PollWQ /\ SamePoll(q)
    <2>1. asleep[q] = PollWQ /\ Ended(gone) = {}
      BY <1>2, <1>4, QueueNames
    <2>2. \A k \in Pipes : /\ pipes'[k].nread = pipes[k].nread /\ pipes'[k].nwrite = pipes[k].nwrite
                           /\ pipes'[k].readers = pipes[k].readers /\ pipes'[k].writers = pipes[k].writers
      BY <1>2, <1>4
    <2>3. \A f \in Files : SameFile(f)
      BY <2>1
    <2>4. call'[q] = call[q] /\ fds'[q] = fds[q] /\ fired'[q] = fired[q]
      BY <2>1
    <2>. QED BY <2>1, <2>2, <2>3, <2>4, PollSteady
  <1>. QED BY <1>3, <1>4, ReadersNext

(* The files that file_close leaves                                        *)
LEMMA AfterFields ==
    ASSUME files \in [Files -> FileRecs], Blocking(files), NEW gone, NEW f \in Files
    PROVE  /\ ~FilesAfter(gone)[f].nonblock
           /\ f \notin Ended(gone) => /\ FilesAfter(gone)[f].rd = files[f].rd /\ FilesAfter(gone)[f].wr = files[f].wr
                                      /\ FilesAfter(gone)[f].rp = files[f].rp /\ FilesAfter(gone)[f].wp = files[f].wp
  <1>1. files[f] \in FileRecs /\ ~files[f].nonblock
    BY DEF Blocking
  <1>2. FilesAfter(gone)[f] = IF f \in Ended(gone) THEN FreeFile ELSE [files[f] EXCEPT !.ref = @ - gone[f]]
    BY DEF FilesAfter
  <1>3. CASE f \in Ended(gone)
    <2>1. FilesAfter(gone)[f] = FreeFile
      BY <1>2, <1>3
    <2>2. ~FreeFile.nonblock
      BY DEF FreeFile
    <2>. QED BY <1>3, <2>1, <2>2
  <1>4. CASE f \notin Ended(gone)
    BY <1>1, <1>2, <1>4 DEF FileRecs
  <1>. QED BY <1>3, <1>4

(* CloseFds, of the process p                                              *)
LEMMA CloseReads ==
    ASSUME ReadInv, NEW p \in Procs, NEW D, D \subseteq FDs, CloseFds(p, D),
           asleep[p] # PollWQ, \A q \in Procs : q # p => fds'[q] = fds[q],
           \A q \in Procs : \/ call'[q] = call[q]
                            \/ call'[q] \in {User, Unused} /\ asleep[q] = Awake,
           fired' = fired, \A q \in Procs : pend'[q] => pend[q]
    PROVE  ReadKept'
  <1>. DEFINE gone == [f \in Files |-> Cardinality({d \in D : fds[p][d] = f})]
  <1>1. /\ files' = FilesAfter(gone) /\ pipes' = PipesAfter(gone)
        /\ asleep' = Woken(IF Ended(gone) = {} THEN {} ELSE PipeQueues(Touched(gone)))
    BY DEF CloseFds
  <1>2. gone \in [Files -> Nat] /\ \A f \in Files : gone[f] <= files[f].ref
    BY ZenonT(30), GoneCounted DEF ReadInv, WriteInv, EndInv
  <1>3. files \in [Files -> FileRecs] /\ Blocking(files) /\ EndInv
    BY DEF ReadInv, WriteInv, EndInv, RefInv, TableTypes
  <1>. HIDE DEF gone
  <1>4. \A f \in Files : ~files'[f].nonblock /\ (f \notin Ended(gone) => SameFile(f))
    BY <1>1, <1>3, AfterFields DEF SameFile
  <1>5. \A q \in Procs : asleep[q] = PollWQ => call'[q] = call[q] /\ fds'[q] = fds[q]
    BY QueueNames
  <1>6. ReaderWoken'
    BY <1>1, <1>2, <1>4, <1>5, ReleaseReads
  <1>7. \A q \in Procs : asleep'[q] \in {asleep[q], Awake}
    BY ZenonT(30), <1>1, <1>2, <1>3, ReleaseWakes
  <1>8. \A q \in Procs : \/ call'[q] = call[q]
                         \/ call'[q] \in {User, Unused} /\ asleep'[q] = Awake
    BY <1>7
  <1>9. \A q \in Procs : Plain(call'[q], pend'[q], asleep'[q])
    BY <1>7, <1>8, PlainStays
  <1>. QED BY <1>4, <1>6, <1>9 DEF ReadKept, Blocking, Plain

(* A step that changes no pipe and in which nobody falls asleep            *)
LEMMA IdleReads ==
    ASSUME ReadInv, pipes' = pipes, \A f \in Files : SameFile(f), Blocking(files'),
           \A q \in Procs : \/ call'[q] = call[q]
                            \/ call'[q] \in {User, Unused} /\ asleep'[q] = Awake,
           \A q \in Procs : asleep'[q] \in {asleep[q], Awake},
           \A q \in Procs : pend'[q] => pend[q] \/ call'[q] \in {User, Unused},
           \A q \in Procs : asleep'[q] = PollWQ => fds'[q] = fds[q] /\ fired'[q] = fired[q]
    PROVE  ReadKept'
  <1>1. \A q \in Procs : Plain(call'[q], pend'[q], asleep'[q])
    BY PlainStays
  <1>2. ASSUME NEW q \in Procs, asleep'[q] = PollWQ
        PROVE  asleep[q] = PollWQ /\ SamePoll(q)
    <2>1. asleep[q] = PollWQ /\ call'[q] = call[q] /\ fds'[q] = fds[q] /\ fired'[q] = fired[q]
      BY <1>2, QueueNames
    <2>. QED BY <2>1, PollSteady
  <1>3. \A q \in Procs, k \in Pipes : asleep'[q] = RQ(k) => asleep[q] = RQ(k)
    BY QueueNames
  <1>4. ReaderWoken'
    BY <1>2, <1>3, ReadersNext
  <1>. QED BY <1>1, <1>4 DEF ReadKept, Blocking, Plain

(* dup2 *)
LEMMA Dup2Reads ==
    ASSUME ReadInv, NEW p \in Procs, NEW a \in FDs, NEW b \in FDs, Dup2(p, a, b)
    PROVE  ReadKept'
  <1>. DEFINE g == fds[p][a]
              gone == [f \in Files |-> IF fds[p][b] = f THEN 1 ELSE 0]
              F == FilesAfter(gone)
  <1>0. EndInv /\ RefInv /\ WriteInv /\ files \in [Files -> FileRecs] /\ Blocking(files)
    BY DEF ReadInv, WriteInv, EndInv, RefInv, TableTypes
  <1>1. /\ files' = [F EXCEPT ![g].ref = @ + 1] /\ pipes' = PipesAfter(gone) /\ UNCHANGED <<call, pend, fired>>
        /\ asleep' = Woken(IF Ended(gone) = {} THEN {} ELSE PipeQueues(Touched(gone)))
        /\ call[p] = User /\ fds' = [fds EXCEPT ![p][b] = fds[p][a]]
    BY DEF Dup2, UserMode
  <1>2. gone \in [Files -> Nat] /\ \A f \in Files : gone[f] <= files[f].ref
    <2>1. ASSUME NEW f \in Files PROVE gone[f] <= files[f].ref
      <3>1. files[f].ref \in Nat
        BY <1>0 DEF FileRecs
      <3>2. CASE fds[p][b] = f
        <4>1. 1 <= files[f].ref
          BY <1>0, <3>2, HeldCounted
        <4>. QED BY <3>1, <3>2, <4>1
      <3>. QED BY <3>1, <3>2
    <2>. QED BY <2>1
  <1>3. \A q \in Procs : q # p => fds'[q] = fds[q]
    BY <1>0, <1>1 DEF RefInv, TableTypes
  <1>4. asleep[p] # PollWQ
    BY <1>0, <1>1, UserAwake, QueueNames
  <1>. HIDE DEF gone
  <1>5. \A f \in Files : files'[f].nonblock = F[f].nonblock /\ files'[f].rd = F[f].rd /\ files'[f].wr = F[f].wr
                         /\ files'[f].rp = F[f].rp /\ files'[f].wp = F[f].wp
    <2>1. F = [f \in Files |-> F[f]] /\ \A f \in Files : F[f] \in FileRecs
      BY <1>0, <1>2, AfterClose
    <2>. HIDE DEF F, g
    <2>. QED BY <1>1, <2>1 DEF FileRecs
  <1>6. \A f \in Files : ~files'[f].nonblock /\ (f \notin Ended(gone) => SameFile(f))
    <2>1. \A f \in Files : /\ ~F[f].nonblock
                           /\ f \notin Ended(gone) => /\ F[f].rd = files[f].rd /\ F[f].wr = files[f].wr
                                                      /\ F[f].rp = files[f].rp /\ F[f].wp = files[f].wp
      BY <1>0, AfterFields
    <2>. HIDE DEF F
    <2>. QED BY <1>5, <2>1 DEF SameFile
  <1>. HIDE DEF F, g
  <1>7. \A q \in Procs : asleep[q] = PollWQ => call'[q] = call[q] /\ fds'[q] = fds[q]
    BY <1>1, <1>3, <1>4
  <1>8. ReaderWoken'
    BY <1>1, <1>2, <1>6, <1>7, ReleaseReads
  <1>9. \A q \in Procs : asleep'[q] \in {asleep[q], Awake}
    BY ZenonT(30), <1>0, <1>1, <1>2, ReleaseWakes
  <1>10. \A q \in Procs : Plain(call'[q], pend'[q], asleep'[q])
    BY <1>1, <1>9, PlainStays
  <1>. QED BY <1>6, <1>8, <1>10 DEF ReadKept, Blocking, Plain

(* sys_pipe: nobody reads from or polls a pipe that is not in use          *)
LEMMA PipeReads ==
    ASSUME ReadInv, NEW p \in Procs, PipeCall(p)
    PROVE  ReadKept'
  <1>. DEFINE k  == Min(PipeFree)
              rf == Min(FileFree)
              wf == Min(FileFree \ {rf})
              rnew == [FreeFile EXCEPT !.ref = 1, !.rp = k, !.wp = k, !.rd = TRUE]
              wnew == [FreeFile EXCEPT !.ref = 1, !.rp = k, !.wp = k, !.wr = TRUE]
              held == [ZeroPipe EXCEPT !.used = TRUE, !.readers = 1, !.writers = 1]
  <1>0. EndInv /\ RefInv /\ WriteInv /\ files \in [Files -> FileRecs] /\ Blocking(files) /\ PipeShape
    BY DEF ReadInv, WriteInv, EndInv, RefInv, TableTypes
  <1>1. /\ k \in Pipes /\ ~pipes[k].used
        /\ rf \in Files /\ wf \in Files /\ rf # wf /\ files[rf].ref = 0 /\ files[wf].ref = 0
    BY ZenonT(30), <1>0, PipeSlots
  <1>2. /\ \/ pipes' = [pipes EXCEPT ![k] = ZeroPipe] /\ files' = files /\ asleep' = Woken(PipeQueues({k})) /\ fds' = fds
           \/ /\ pipes' = [pipes EXCEPT ![k] = held] /\ asleep' = asleep
              /\ files' = [files EXCEPT ![rf] = rnew, ![wf] = wnew]
        /\ UNCHANGED <<call, pend, fired>> /\ call[p] = User
    BY ZenonT(30) DEF PipeCall, UserMode
  <1>3. \A q \in Procs : q # p => fds'[q] = fds[q]
    BY <1>0 DEF PipeCall, RefInv, TableTypes
  <1>4. ~rnew.nonblock /\ ~wnew.nonblock
    BY DEF FreeFile
  <1>. HIDE DEF k, rf, wf, rnew, wnew, held
  <1>5. asleep[p] = Awake
    BY <1>0, <1>2, UserAwake
  <1>6. \A q \in Procs : asleep'[q] \in {asleep[q], Awake}
    <2>1. Awake \notin PipeQueues({k})
      BY QueueNames DEF PipeQueues
    <2>2. \A q \in Procs : Woken(PipeQueues({k}))[q] \in {asleep[q], Awake}
      BY <2>1, WokenAre
    <2>. QED BY <1>2, <2>2
  <1>7. \A l \in Pipes : l # k => pipes'[l] = pipes[l]
    BY <1>0, <1>1, <1>2 DEF PipeShape
  <1>8. \A f \in Files : ~files'[f].nonblock /\ (files[f].ref > 0 => files'[f] = files[f])
    BY <1>0, <1>1, <1>2, <1>4 DEF Blocking
  <1>9. /\ ~(pipes[k].writers > 0)
        /\ \A f \in Files : files[f].ref > 0 => /\ files[f].rd => files[f].rp # k
                                                /\ files[f].wr => files[f].wp # k
    BY <1>0, <1>1, UsedPipes
  <1>10. ASSUME NEW q \in Procs, NEW l \in Pipes, asleep'[q] = RQ(l)
         PROVE  asleep[q] = RQ(l) /\ Cnt(pipes', l) = Cnt(pipes, l) /\ pipes'[l].writers = pipes[l].writers
    <2>1. asleep[q] = RQ(l)
      BY <1>6, <1>10, QueueNames
    <2>2. l # k
      BY <1>9, <2>1 DEF ReadInv, ReaderWoken
    <2>. QED BY <1>7, <2>1, <2>2 DEF Cnt
  <1>11. ASSUME NEW q \in Procs, asleep'[q] = PollWQ
         PROVE  asleep[q] = PollWQ /\ SamePoll(q)
    <2>1. asleep[q] = PollWQ /\ q # p
      BY <1>5, <1>6, <1>11, QueueNames
    <2>2. call'[q] = call[q] /\ fds'[q] = fds[q] /\ fired'[q] = fired[q]
      BY <1>2, <1>3, <2>1
    <2>3. \A f \in Files : files[f].ref > 0 => SameFile(f)
      BY <1>8 DEF SameFile
    <2>4. ASSUME NEW f \in Files, NEW l \in Pipes, files[f].ref > 0,
                 (files[f].rd /\ files[f].rp = l) \/ (files[f].wr /\ files[f].wp = l)
          PROVE  /\ pipes'[l].nread = pipes[l].nread /\ pipes'[l].nwrite = pipes[l].nwrite
                 /\ pipes'[l].readers = pipes[l].readers /\ pipes'[l].writers = pipes[l].writers
      BY <1>7, <1>9, <2>4
    <2>. QED BY <2>1, <2>2, <2>3, <2>4, PollSteady
  <1>12. ReaderWoken'
    BY <1>10, <1>11, ReadersNext
  <1>13. \A q \in Procs : Plain(call'[q], pend'[q], asleep'[q])
    BY <1>2, <1>6, PlainStays
  <1>. QED BY <1>8, <1>12, <1>13 DEF ReadKept, Blocking, Plain

(* One process ends its call or sleeps in a plain one                      *)
LEMMA PlainPut ==
    ASSUME ReadInv, NEW p \in Procs, NEW c, call' = [call EXCEPT ![p] = c],
           Plain(c, pend'[p], asleep'[p]),
           \A q \in Procs : q # p => asleep'[q] \in {asleep[q], Awake} /\ pend'[q] = pend[q],
           NEW q \in Procs
    PROVE  Plain(call'[q], pend'[q], asleep'[q])
  <1>1. call'[p] = c /\ (q # p => call'[q] = call[q])
    BY DEF ReadInv, WriteInv, EndInv, RefInv, TableTypes
  <1>2. Plain(call[q], pend[q], asleep[q]) /\ Awake # PollWQ
    BY QueueNames DEF ReadInv
  <1>3. CASE q = p
    BY <1>1, <1>3
  <1>4. CASE q # p
    BY <1>1, <1>2, <1>4 DEF Plain
  <1>. QED BY <1>3, <1>4

(* A process in user mode keeps to the promise                             *)
LEMMA PlainUser ==
    ASSUME NEW sig, NEW q, q # PollWQ
    PROVE  Plain(User, sig, q)
  BY DEF Plain, User

(* pipe_read *)
LEMMA ReadReads ==
    ASSUME ReadInv, NEW p \in Procs, NEW c, IsCall(c), c.op = "read", ~c.nonblock, asleep[p] = Awake, ~pend[p],
           ReadFrom(p, c), UNCHANGED <<files, fds, pend, fired>>
    PROVE  ReadKept'
  <1>. DEFINE k == c.pipe
              m == Min({c.n, Count(k)})
  <1>1. k \in Pipes /\ c.n \in Nat
    BY DEF IsCall, User, Unused
  <1>2. WriteInv /\ ReaderWoken /\ Blocking(files) /\ PipeShape /\ DOMAIN asleep = Procs
    BY DEF ReadInv, WriteInv, EndInv, CallInv
  <1>3. \/ /\ Count(k) = 0 /\ pipes[k].writers > 0 /\ pipes' = pipes
           /\ call' = [call EXCEPT ![p] = c] /\ asleep' = [asleep EXCEPT ![p] = RQ(k)]
        \/ /\ pipes' = [pipes EXCEPT ![k].nread = (@ + m) % Wrap]
           /\ asleep' = Woken({WQ(k), PollWQ}) /\ call' = [call EXCEPT ![p] = User]
    BY DEF ReadFrom, Return
  <1>4. \A f \in Files : SameFile(f)
    BY DEF SameFile
  <1>5. CASE /\ Count(k) = 0 /\ pipes[k].writers > 0 /\ pipes' = pipes
             /\ call' = [call EXCEPT ![p] = c] /\ asleep' = [asleep EXCEPT ![p] = RQ(k)]
    <2>. HIDE DEF k
    <2>1. asleep'[p] = RQ(k) /\ \A q \in Procs : q # p => asleep'[q] = asleep[q]
      BY <1>2, <1>5
    <2>2. \A q \in Procs : q # p => call'[q] = call[q]
      BY <1>5
    <2>3. ASSUME NEW q \in Procs, NEW l \in Pipes, asleep'[q] = RQ(l)
          PROVE  Cnt(pipes', l) = 0 /\ pipes'[l].writers > 0
      <3>1. CASE q = p
        BY <1>5, <2>1, <2>3, <3>1, QueueNames DEF Cnt, Count
      <3>2. CASE q # p
        BY <1>2, <1>5, <2>1, <2>3, <3>2 DEF ReaderWoken, Cnt, Count
      <3>. QED BY <3>1, <3>2
    <2>4. ASSUME NEW q \in Procs, asleep'[q] = PollWQ PROVE asleep[q] = PollWQ /\ SamePoll(q)
      <3>1. q # p /\ asleep[q] = PollWQ /\ call'[q] = call[q]
        BY <2>1, <2>2, <2>4, QueueNames
      <3>. QED BY <1>4, <1>5, <3>1, PollSteady
    <2>5. ReaderWoken'
      BY <2>3, <2>4, ReadersNext
    <2>6. Plain(c, pend'[p], asleep'[p])
      BY <2>1, QueueNames DEF Plain
    <2>7. \A q \in Procs : Plain(call'[q], pend'[q], asleep'[q])
      BY ZenonT(30), <1>5, <2>1, <2>6, PlainPut
    <2>. QED BY <1>2, <2>5, <2>7 DEF ReadKept, Blocking, Plain
  <1>6. CASE /\ pipes' = [pipes EXCEPT ![k].nread = (@ + m) % Wrap]
             /\ asleep' = Woken({WQ(k), PollWQ}) /\ call' = [call EXCEPT ![p] = User]
    <2>1. /\ Cnt(pipes', k) = Cnt(pipes, k) - m
          /\ Cnt(pipes, k) \in Nat /\ m \in 0 .. Cnt(pipes, k)
          /\ pipes'[k].writers = pipes[k].writers
          /\ \A l \in Pipes : l # k => pipes'[l] = pipes[l]
      BY ZenonT(30), <1>1, <1>2, <1>6, ReadMoves
    <2>. HIDE DEF m, k
    <2>2. \A q \in Procs : asleep'[q] \in {asleep[q], Awake} /\ asleep'[q] \notin {WQ(k), PollWQ}
      <3>1. Awake \notin {WQ(k), PollWQ}
        BY QueueNames
      <3>. QED BY <1>6, <3>1, WokenAre
    <2>3. ASSUME NEW q \in Procs, NEW l \in Pipes, asleep'[q] = RQ(l)
          PROVE  Cnt(pipes', l) = 0 /\ pipes'[l].writers > 0
      <3>1. asleep[q] = RQ(l)
        BY <2>2, <2>3, QueueNames
      <3>2. Cnt(pipes, l) = 0 /\ pipes[l].writers > 0
        BY <1>2, <3>1 DEF ReaderWoken, Cnt, Count
      <3>3. CASE l = k
        BY <2>1, <3>2, <3>3
      <3>4. CASE l # k
        BY <2>1, <3>2, <3>4 DEF Cnt
      <3>. QED BY <3>3, <3>4
    <2>4. ReaderWoken'
      BY <2>2, <2>3, ReadersNext
    <2>5. asleep'[p] # PollWQ
      BY <2>2
    <2>6. \A q \in Procs : Plain(call'[q], pend'[q], asleep'[q])
      BY ZenonT(30), <1>6, <2>2, <2>5, PlainUser, PlainPut
    <2>. QED BY <1>2, <2>4, <2>6 DEF ReadKept, Blocking, Plain
  <1>. QED BY <1>3, <1>5, <1>6

(* pipe_write *)
LEMMA WriteReads ==
    ASSUME ReadInv, NEW p \in Procs, NEW c, IsCall(c), c.op = "write", ~c.nonblock, asleep[p] = Awake, ~pend[p],
           WriteFrom(p, c), UNCHANGED <<files, fds, fired>>
    PROVE  ReadKept'
  <1>. DEFINE k == c.pipe
              n == Len(c.src)
              from == c.pos
              to == c.pos + Min({n - c.pos, PIPESIZE - Count(k)})
              C == [c EXCEPT !.pos = to]
  <1>1. k \in Pipes /\ n \in Nat /\ from \in 0 .. n
    BY DEF IsCall, User, Unused
  <1>2. WriteInv /\ ReaderWoken /\ Blocking(files) /\ PipeShape /\ DOMAIN pend = Procs
    BY DEF ReadInv, WriteInv, EndInv, CallInv
  <1>3. \/ /\ call' = [call EXCEPT ![p] = User] /\ pipes' = pipes /\ asleep' = asleep
           /\ pend' = [pend EXCEPT ![p] = @ \/ c.pos % CHUNK = 0]
        \/ /\ call' = [call EXCEPT ![p] = User] /\ pipes' = Poured(k, c.src, from, to) /\ pend' = pend
           /\ asleep' = Woken(ReaderQueues(k))
        \/ /\ call' = [call EXCEPT ![p] = C] /\ pipes' = Poured(k, c.src, from, to) /\ pend' = pend
           /\ asleep' = [Woken(ReaderQueues(k)) EXCEPT ![p] = WQ(k)]
    BY DEF WriteFrom, Return
  <1>4. \A f \in Files : SameFile(f)
    BY DEF SameFile
  <1>5. CASE /\ call' = [call EXCEPT ![p] = User] /\ pipes' = pipes /\ asleep' = asleep
             /\ pend' = [pend EXCEPT ![p] = @ \/ c.pos % CHUNK = 0]
    <2>1. IsCall(User)
      BY DEF IsCall
    <2>2. call'[p] = User /\ \A q \in Procs : q # p => call'[q] = call[q]
      BY ZenonT(30), <1>2, <1>5, <2>1, PutCall
    <2>3. \A q \in Procs : q # p => pend'[q] = pend[q]
      BY <1>2, <1>5
    <2>. QED BY <1>2, <1>4, <1>5, <2>2, <2>3, IdleReads
  <1>6. ASSUME NEW a, NEW x, Plain(x, pend'[p], a), a \notin {PollWQ, RQ(k)}, \A l \in Pipes : a # RQ(l),
               call' = [call EXCEPT ![p] = x], pipes' = Poured(k, c.src, from, to), pend' = pend,
               asleep' = [Woken(ReaderQueues(k)) EXCEPT ![p] = a]
        PROVE  ReadKept'
    <2>0. to = from + Min({n - from, PIPESIZE - Count(k)})
      BY DEF to, from
    <2>. HIDE DEF k, n, from, to
    <2>1. \A l \in Pipes : l # k => pipes'[l] = pipes[l]
      BY ZenonT(30), <1>1, <1>2, <1>6, <2>0, WriteMoves
    <2>2. /\ asleep'[p] = a
          /\ \A q \in Procs : q # p => asleep'[q] \in {asleep[q], Awake} /\ asleep'[q] \notin ReaderQueues(k)
      <3>1. Awake \notin ReaderQueues(k)
        BY QueueNames DEF ReaderQueues
      <3>2. \A q \in Procs : Woken(ReaderQueues(k))[q] \in {asleep[q], Awake} /\ Woken(ReaderQueues(k))[q] \notin ReaderQueues(k)
        BY <3>1, WokenAre
      <3>3. DOMAIN Woken(ReaderQueues(k)) = Procs
        BY DEF Woken
      <3>. QED BY <1>6, <3>2, <3>3
    <2>3. ASSUME NEW q \in Procs, NEW l \in Pipes, asleep'[q] = RQ(l)
          PROVE  Cnt(pipes', l) = 0 /\ pipes'[l].writers > 0
      <3>1. q # p /\ asleep[q] = RQ(l) /\ l # k
        BY ZenonT(30), <1>6, <2>2, <2>3, QueueNames DEF ReaderQueues
      <3>. QED BY <1>2, <2>1, <3>1 DEF ReaderWoken, Cnt, Count
    <2>4. \A q \in Procs : asleep'[q] # PollWQ
      BY <1>6, <2>2 DEF ReaderQueues
    <2>5. ReaderWoken'
      BY <2>3, <2>4, ReadersNext
    <2>6. \A q \in Procs : Plain(call'[q], pend'[q], asleep'[q])
      BY ZenonT(30), <1>6, <2>2, PlainPut
    <2>. QED BY <1>2, <2>5, <2>6 DEF ReadKept, Blocking, Plain
  <1>7. CASE /\ call' = [call EXCEPT ![p] = User] /\ pipes' = Poured(k, c.src, from, to) /\ pend' = pend
             /\ asleep' = Woken(ReaderQueues(k))
    <2>1. Plain(User, pend'[p], Awake) /\ Awake \notin {PollWQ, RQ(k)} /\ \A l \in Pipes : Awake # RQ(l)
      BY PlainUser, QueueNames
    <2>2. Woken(ReaderQueues(k)) = [Woken(ReaderQueues(k)) EXCEPT ![p] = Awake]
      BY DEF Woken
    <2>. HIDE DEF k, from, to
    <2>. QED BY ZenonT(30), <1>6, <1>7, <2>1, <2>2
  <1>8. CASE /\ call' = [call EXCEPT ![p] = C] /\ pipes' = Poured(k, c.src, from, to) /\ pend' = pend
             /\ asleep' = [Woken(ReaderQueues(k)) EXCEPT ![p] = WQ(k)]
    <2>1. WQ(k) \notin {PollWQ, RQ(k)} /\ \A l \in Pipes : WQ(k) # RQ(l)
      BY QueueNames
    <2>2. Plain(C, pend'[p], WQ(k))
      <3>1. c = [op |-> "write", pipe |-> c.pipe, src |-> c.src, pos |-> c.pos, nonblock |-> c.nonblock]
        BY DEF IsCall, User, Unused
      <3>. HIDE DEF to
      <3>2. C = [op |-> "write", pipe |-> c.pipe, src |-> c.src, pos |-> to, nonblock |-> c.nonblock]
        BY <3>1
      <3>3. C.op = "write" /\ C.nonblock = c.nonblock
        BY <3>2
      <3>. HIDE DEF C
      <3>4. ~C.nonblock
        BY <3>3
      <3>. QED BY <1>8, <2>1, <3>3, <3>4 DEF Plain
    <2>. HIDE DEF k, from, to, C
    <2>. QED BY ZenonT(30), <1>6, <1>8, <2>1, <2>2
  <1>. QED BY <1>3, <1>5, <1>7, <1>8

(* sys_poll *)
LEMMA PollReads ==
    ASSUME ReadInv, NEW p \in Procs, NEW c, IsCall(c), c.op = "poll", asleep[p] = Awake, "poll" \in Calls,
           NEW t, PollFrom(p, c, t), UNCHANGED <<files, pipes, fds, pend>>,
           fired'[p] = t, \A q \in Procs : q # p => fired'[q] = fired[q]
    PROVE  ReadKept'
  <1>1. WriteInv /\ ReaderWoken /\ Blocking(files) /\ DOMAIN asleep = Procs
    BY DEF ReadInv, WriteInv, CallInv
  <1>2. \A f \in Files : SameFile(f)
    BY DEF SameFile
  <1>3. \/ call' = [call EXCEPT ![p] = User] /\ asleep' = asleep
        \/ /\ call' = [call EXCEPT ![p] = c] /\ asleep' = [asleep EXCEPT ![p] = PollWQ] /\ ~pend[p]
           /\ ~PollOne(p, c.fd, c.ev) /\ ~t
    BY DEF PollFrom, Return
  <1>4. CASE call' = [call EXCEPT ![p] = User] /\ asleep' = asleep
    <2>1. IsCall(User)
      BY DEF IsCall
    <2>2. call'[p] = User /\ \A q \in Procs : q # p => call'[q] = call[q]
      BY ZenonT(30), <1>1, <1>4, <2>1, PutCall
    <2>3. \A q \in Procs : asleep'[q] = PollWQ => fired'[q] = fired[q]
      BY <1>4, QueueNames
    <2>. QED BY <1>1, <1>2, <1>4, <2>2, <2>3, IdleReads
  <1>5. CASE /\ call' = [call EXCEPT ![p] = c] /\ asleep' = [asleep EXCEPT ![p] = PollWQ] /\ ~pend[p]
             /\ ~PollOne(p, c.fd, c.ev) /\ ~t
    <2>1. call'[p] = c /\ \A q \in Procs : q # p => call'[q] = call[q]
      BY ZenonT(30), <1>1, <1>5, PutCall
    <2>2. asleep'[p] = PollWQ /\ \A q \in Procs : q # p => asleep'[q] = asleep[q]
      BY <1>1, <1>5
    <2>3. ~PollOne(p, call[p].fd, call[p].ev)' /\ ~fired'[p]
      BY <1>5, <2>1 DEF PollOne, Count
    <2>4. ASSUME NEW q \in Procs, asleep'[q] = PollWQ, q # p PROVE asleep[q] = PollWQ /\ SamePoll(q)
      <3>1. asleep[q] = PollWQ /\ call'[q] = call[q] /\ fired'[q] = fired[q]
        BY <2>1, <2>2, <2>4
      <3>. QED BY <1>2, <3>1, PollSteady
    <2>5. \A q \in Procs, l \in Pipes : asleep'[q] = RQ(l) => asleep[q] = RQ(l)
      BY <2>2, QueueNames
    <2>6. ReaderWoken'
      BY <2>3, <2>4, <2>5, ReadersNext
    <2>7. Plain(c, pend'[p], asleep'[p])
      BY <1>5 DEF Plain
    <2>8. \A q \in Procs : Plain(call'[q], pend'[q], asleep'[q])
      BY ZenonT(30), <1>5, <2>2, <2>7, PlainPut
    <2>. QED BY <1>1, <2>6, <2>8 DEF ReadKept, Blocking, Plain
  <1>. QED BY <1>3, <1>4, <1>5

(* The start of read, write and poll                                       *)
LEMMA StartReads ==
    ASSUME ReadInv, NEW p \in Procs, Transfer(p)
    PROVE  ReadKept'
  <1>1. WriteInv /\ Blocking(files)
    BY DEF ReadInv
  <1>2. \A d \in FDs : fds[p][d] # None => /\ fds[p][d] \in Files
                                          /\ files[fds[p][d]].rp \in Pipes /\ files[fds[p][d]].wp \in Pipes
                                          /\ ~files[fds[p][d]].nonblock
    BY <1>1, HeldPipes DEF Blocking
  <1>3. ASSUME NEW d \in FDs, NEW n \in 1 .. MaxLen, Read(p, d, n)
        PROVE  ReadKept'
    <2>. DEFINE c == [op |-> "read", pipe |-> files[fds[p][d]].rp, n |-> n,
                      nonblock |-> files[fds[p][d]].nonblock]
    <2>1. /\ ReadFrom(p, c) /\ UNCHANGED <<files, fds, pend, fired>>
          /\ call[p] = User /\ ~pend[p] /\ fds[p][d] # None
      BY <1>3 DEF Read, UserMode
    <2>2. IsCall(c) /\ c.op = "read"
      <3>1. n \in Nat /\ files[fds[p][d]].rp \in Pipes
        BY <1>2, <2>1, PipeAssumption
      <3>. QED BY ZenonT(30), <3>1, ReadIsCall
    <2>3. asleep[p] = Awake
      BY <1>1, <2>1, UserAwake
    <2>4. ~c.nonblock
      BY <1>2, <2>1
    <2>. HIDE DEF c
    <2>. QED BY <2>1, <2>2, <2>3, <2>4, ReadReads
  <1>4. ASSUME NEW d \in FDs, NEW src \in Sources, Write(p, d, src)
        PROVE  ReadKept'
    <2>. DEFINE c == [op |-> "write", pipe |-> files[fds[p][d]].wp, src |-> src, pos |-> 0,
                      nonblock |-> files[fds[p][d]].nonblock]
    <2>1. /\ WriteFrom(p, c) /\ UNCHANGED <<files, fds, fired>>
          /\ call[p] = User /\ ~pend[p] /\ fds[p][d] # None
      BY <1>4 DEF Write, UserMode
    <2>2. IsCall(c) /\ c.op = "write"
      <3>1. files[fds[p][d]].wp \in Pipes
        BY <1>2, <2>1
      <3>. QED BY ZenonT(30), <3>1, WriteIsCall
    <2>3. asleep[p] = Awake
      BY <1>1, <2>1, UserAwake
    <2>4. ~c.nonblock
      BY <1>2, <2>1
    <2>. HIDE DEF c
    <2>. QED BY <2>1, <2>2, <2>3, <2>4, WriteReads
  <1>5. ASSUME NEW d \in FDs, NEW ev, NEW t, Poll(p, d, ev, t)
        PROVE  ReadKept'
    <2>. DEFINE c == [op |-> "poll", fd |-> d, ev |-> ev, timed |-> t]
    <2>1. /\ PollFrom(p, c, FALSE) /\ UNCHANGED <<files, pipes, fds, pend>>
          /\ call[p] = User /\ "poll" \in Calls /\ fired' = [fired EXCEPT ![p] = FALSE]
      BY ZenonT(30), <1>5 DEF Poll, UserMode
    <2>2. IsCall(c) /\ c.op = "poll"
      BY DEF IsCall
    <2>3. asleep[p] = Awake
      BY <1>1, <2>1, UserAwake
    <2>4. fired'[p] = FALSE /\ \A q \in Procs : q # p => fired'[q] = fired[q]
      BY <1>1, <2>1 DEF WriteInv, CallInv
    <2>. HIDE DEF c
    <2>. QED BY ZenonT(30), <2>1, <2>2, <2>3, <2>4, PollReads
  <1>. QED BY <1>3, <1>4, <1>5 DEF Transfer

(* A call goes on                                                          *)
LEMMA ResumeReads ==
    ASSUME ReadInv, NEW p \in Procs, Resume(p)
    PROVE  ReadKept'
  <1>1. IsCall(call[p]) /\ Plain(call[p], pend[p], asleep[p])
    BY DEF ReadInv, WriteInv, CallInv
  <1>2. call[p].op \in {"read", "write", "poll"} => call[p] \notin {User, Unused}
    BY DEF User, Unused
  <1>3. ASSUME ReadOn(p) PROVE ReadKept'
    <2>1. /\ call[p].op = "read" /\ asleep[p] = Awake /\ ReadFrom(p, call[p])
          /\ UNCHANGED <<files, fds, pend, fired>>
      BY <1>3 DEF ReadOn
    <2>2. ~call[p].nonblock /\ ~pend[p]
      BY <1>1, <1>2, <2>1 DEF Plain
    <2>. QED BY <1>1, <2>1, <2>2, ReadReads
  <1>4. ASSUME WriteOn(p) PROVE ReadKept'
    <2>1. /\ call[p].op = "write" /\ asleep[p] = Awake /\ WriteFrom(p, call[p])
          /\ UNCHANGED <<files, fds, fired>>
      BY <1>4 DEF WriteOn
    <2>2. ~call[p].nonblock /\ ~pend[p]
      BY <1>1, <1>2, <2>1 DEF Plain
    <2>. QED BY <1>1, <2>1, <2>2, WriteReads
  <1>5. ASSUME PollOn(p) PROVE ReadKept'
    <2>1. /\ call[p].op = "poll" /\ asleep[p] = Awake /\ PollFrom(p, call[p], fired[p])
          /\ UNCHANGED <<files, pipes, fds, pend>> /\ fired' = fired
      BY <1>5 DEF PollOn
    <2>2. "poll" \in Calls
      BY <1>1, <2>1 DEF Plain
    <2>. QED BY <1>1, <2>1, <2>2, PollReads
  <1>. QED BY <1>3, <1>4, <1>5 DEF Resume

(* One file changes its count of references only                           *)
LEMMA CountedFiles ==
    ASSUME ReadInv, NEW n, files' = [f \in Files |-> [files[f] EXCEPT !.ref = n[f]]]
    PROVE  Blocking(files') /\ \A f \in Files : SameFile(f)
  <1>1. \A f \in Files : files[f] \in FileRecs /\ ~files[f].nonblock
    BY DEF ReadInv, WriteInv, EndInv, RefInv, TableTypes, Blocking
  <1>2. ASSUME NEW f \in Files
        PROVE  /\ files'[f].nonblock = files[f].nonblock /\ SameFile(f)
    <2>1. files'[f] = [files[f] EXCEPT !.ref = n[f]]
      OBVIOUS
    <2>. QED BY <1>1, <2>1 DEF FileRecs, SameFile
  <1>. QED BY <1>1, <1>2 DEF Blocking

(* The other calls *)
LEMMA TableReads ==
    ASSUME ReadInv, PlainCalls, NEW p \in Procs, Table(p)
    PROVE  ReadKept'
  <1>1. WriteInv /\ Blocking(files) /\ RefInv /\ files \in [Files -> FileRecs] /\ DOMAIN fds = Procs /\ DOMAIN call = Procs
    BY DEF ReadInv, WriteInv, EndInv, RefInv, TableTypes
  <1>2. \A q \in Procs : call[q] \in {User, Unused} => asleep[q] = Awake /\ asleep[q] # PollWQ
    BY <1>1, UserAwake, QueueNames
  <1>3. ASSUME NEW d \in FDs, Close(p, d) PROVE ReadKept'
    <2>1. /\ CloseFds(p, {d}) /\ UNCHANGED <<call, pend, fired>> /\ call[p] = User
          /\ fds' = [fds EXCEPT ![p][d] = None]
      BY <1>3 DEF Close, UserMode
    <2>2. \A q \in Procs : q # p => fds'[q] = fds[q]
      BY <1>1, <2>1
    <2>. QED BY <1>2, <2>1, <2>2, CloseReads
  <1>4. ASSUME NEW q \in Procs, NEW d \in FDs, CtlClose(p, q, d) PROVE ReadKept'
    <2>1. /\ CloseFds(q, {d}) /\ UNCHANGED <<call, pend, fired>> /\ "ctl" \in Calls
          /\ fds' = [fds EXCEPT ![q][d] = None]
      BY <1>4 DEF CtlClose
    <2>2. \A r \in Procs : r # q => fds'[r] = fds[r]
      BY <1>1, <2>1
    <2>3. asleep[q] # PollWQ
      BY <2>1 DEF PlainCalls, ReadInv, Plain
    <2>. QED BY <2>1, <2>2, <2>3, CloseReads
  <1>5. ASSUME Exec(p) PROVE ReadKept'
    <2>1. /\ CloseFds(p, cloexec[p]) /\ UNCHANGED <<call, pend, fired>> /\ call[p] = User
          /\ \A q \in Procs : q # p => fds'[q] = fds[q]
      BY <1>1, <1>5 DEF Exec, UserMode
    <2>2. cloexec[p] \subseteq FDs
      BY <1>1 DEF RefInv, TableTypes
    <2>. QED BY <1>2, <2>1, <2>2, CloseReads
  <1>6. ASSUME Exit(p) PROVE ReadKept'
    <2>1. /\ CloseFds(p, FDs) /\ fired' = fired /\ call[p] = User
          /\ \A q \in Procs : q # p => fds'[q] = fds[q]
          /\ call' = [call EXCEPT ![p] = Unused] /\ pend' = [pend EXCEPT ![p] = FALSE]
      BY <1>1, <1>6 DEF Exit
    <2>2. \A q \in Procs : call'[q] = call[q] \/ (call'[q] \in {User, Unused} /\ asleep[q] = Awake)
      BY <1>1, <1>2, <2>1
    <2>3. \A q \in Procs : pend'[q] => pend[q]
      BY <1>1, <2>1 DEF WriteInv, CallInv
    <2>. QED BY <1>2, <2>1, <2>2, <2>3, CloseReads
  <1>7. ASSUME NEW d \in FDs, Dup(p, d) PROVE ReadKept'
    <2>1. /\ UNCHANGED <<pipes, call, asleep, pend, fired>> /\ call[p] = User /\ fds[p][d] \in Files
          /\ files' = [files EXCEPT ![fds[p][d]].ref = @ + 1]
          /\ \A q \in Procs : q # p => fds'[q] = fds[q]
      BY <1>1, <1>7 DEF Dup, UserMode, RefInv, TableTypes
    <2>2. Blocking(files') /\ \A f \in Files : SameFile(f)
      <3>. DEFINE n == [f \in Files |-> IF f = fds[p][d] THEN files[f].ref + 1 ELSE files[f].ref]
      <3>1. files' = [f \in Files |-> [files[f] EXCEPT !.ref = n[f]]]
        BY ZenonT(30), <1>1, <2>1 DEF FileRecs
      <3>. HIDE DEF n
      <3>. QED BY ZenonT(30), <3>1, CountedFiles
    <2>3. \A q \in Procs : asleep'[q] = PollWQ => fds'[q] = fds[q]
      BY <1>2, <2>1
    <2>. QED BY <2>1, <2>2, <2>3, IdleReads
  <1>8. ASSUME NEW c \in Procs, Fork(p, c) PROVE ReadKept'
    <2>1. /\ UNCHANGED <<pipes, asleep, pend, fired>> /\ call[c] = Unused /\ call' = [call EXCEPT ![c] = User]
          /\ \A q \in Procs : q # c => fds'[q] = fds[q]
      BY <1>1, <1>8 DEF Fork
    <2>2. Blocking(files') /\ \A f \in Files : SameFile(f)
      <3>. DEFINE n == [f \in Files |-> files[f].ref + Cardinality({d \in FDs : fds[p][d] = f})]
      <3>1. files' = [f \in Files |-> [files[f] EXCEPT !.ref = n[f]]]
        BY <1>8 DEF Fork
      <3>. HIDE DEF n
      <3>. QED BY ZenonT(30), <3>1, CountedFiles
    <2>3. \A q \in Procs : asleep'[q] = PollWQ => fds'[q] = fds[q]
      BY <1>2, <2>1
    <2>4. \A q \in Procs : call'[q] = call[q] \/ (call'[q] \in {User, Unused} /\ asleep'[q] = Awake)
      BY <1>1, <1>2, <2>1
    <2>. QED BY <2>1, <2>2, <2>3, <2>4, IdleReads
  <1>9. ASSUME NEW d \in FDs, SetFd(p, d) PROVE ReadKept'
    <2>1. UNCHANGED <<files, pipes, fds, call, asleep, pend, fired>>
      BY <1>9 DEF SetFd
    <2>2. Blocking(files') /\ \A f \in Files : SameFile(f)
      BY <1>1, <2>1 DEF SameFile
    <2>. QED BY <2>1, <2>2, IdleReads
  <1>10. ASSUME NEW d \in FDs, NEW b \in BOOLEAN PROVE ~SetFl(p, d, b)
    BY DEF SetFl, PlainCalls
  <1>11. ASSUME NEW a \in FDs, NEW b \in FDs, Dup2(p, a, b) PROVE ReadKept'
    BY <1>11, Dup2Reads
  <1>12. ASSUME PipeCall(p) PROVE ReadKept'
    BY <1>12, PipeReads
  <1>13. /\ ~Attach(p)
         /\ \A d \in Devs, e \in {2, 3} :
              \A m \in {<<TRUE, FALSE>>, <<FALSE, TRUE>>, <<TRUE, TRUE>>} : ~OpenEnd(p, d, e, m[1], m[2])
    <2>1. ~Attach(p)
      BY DEF Attach, PlainCalls
    <2>2. ASSUME NEW d \in Devs, NEW e \in {2, 3}, NEW r, NEW w, OpenEnd(p, d, e, r, w) PROVE "attach" \in Calls
      BY <2>2, Zenon DEF OpenEnd
    <2>. QED BY ZenonT(30), <2>1, <2>2 DEF PlainCalls
  <1>. QED BY ZenonT(30), <1>3, <1>4, <1>5, <1>6, <1>7, <1>8, <1>9, <1>10, <1>11, <1>12, <1>13 DEF Table

(* Every step of such calls leaves no reader asleep for nothing            *)
LEMMA ReadStep ==
    ASSUME ReadInv, PlainCalls, [Next]_vars
    PROVE  ReadInv'
  <1>1. WriteInv'
    BY WriteStep DEF ReadInv, PlainCalls
  <1>2. WriteInv /\ Blocking(files) /\ DOMAIN fired = Procs /\ DOMAIN pend = Procs
    BY DEF ReadInv, WriteInv, CallInv
  <1>3. ASSUME NEW p \in Procs, PollTimeout(p) PROVE ReadKept'
    <2>1. /\ UNCHANGED <<files, pipes, fds, call, pend>>
          /\ fired' = [fired EXCEPT ![p] = TRUE]
          /\ asleep' = IF asleep[p] = PollWQ THEN Woken({PollWQ}) ELSE asleep
      BY <1>3 DEF PollTimeout
    <2>2. Awake \notin {PollWQ}
      BY QueueNames
    <2>3. \A q \in Procs : Woken({PollWQ})[q] \in {asleep[q], Awake} /\ Woken({PollWQ})[q] # PollWQ
      BY <2>2, WokenAre
    <2>4. \A q \in Procs : asleep'[q] \in {asleep[q], Awake}
      BY <2>1, <2>3
    <2>5. \A q \in Procs : asleep'[q] = PollWQ => fired'[q] = fired[q]
      BY ZenonT(30), <1>2, <2>1, <2>3
    <2>6. Blocking(files') /\ \A f \in Files : SameFile(f)
      BY <1>2, <2>1 DEF SameFile
    <2>. QED BY ZenonT(30), <2>1, <2>4, <2>5, <2>6, IdleReads
  <1>4. ASSUME NEW p \in Procs, Deliver(p) PROVE ReadKept'
    <2>1. UNCHANGED <<files, pipes, fds, call, asleep, fired>> /\ pend' = [pend EXCEPT ![p] = FALSE]
      BY <1>4 DEF Deliver
    <2>2. Blocking(files') /\ \A f \in Files : SameFile(f)
      BY <1>2, <2>1 DEF SameFile
    <2>3. \A q \in Procs : pend'[q] => pend[q]
      BY <1>2, <2>1
    <2>. QED BY <2>1, <2>2, <2>3, IdleReads
  <1>5. ASSUME UNCHANGED vars PROVE ReadKept'
    <2>1. UNCHANGED <<files, pipes, fds, call, asleep, fired, pend>>
      BY <1>5 DEF vars
    <2>2. Blocking(files') /\ \A f \in Files : SameFile(f)
      BY <1>2, <2>1 DEF SameFile
    <2>. QED BY <2>1, <2>2, IdleReads
  <1>6. /\ \A p \in Procs : ~Signal(p)
        /\ \A d \in Devs : ~ReleaseDev(d)
    BY DEF Signal, ReleaseDev, PlainCalls
  <1>7. ReadKept'
    BY <1>3, <1>4, <1>5, <1>6, StartReads, ResumeReads, TableReads DEF Next
  <1>. QED BY <1>1, <1>7 DEF ReadInv, ReadKept

(* At the start nobody sleeps                                              *)
LEMMA ReadInit ==
    ASSUME Init
    PROVE  ReadInv
  <1>1. WriteInv
    BY WriteInit
  <1>2. \A p \in Procs : asleep[p] = Awake
    BY DEF Init
  <1>3. ReaderWoken
    BY <1>2, QueueNames DEF ReaderWoken
  <1>4. Blocking(files)
    <2>1. ~FreeFile.nonblock
      BY DEF FreeFile
    <2>. QED BY <2>1 DEF Init, Blocking
  <1>5. \A p \in Procs : Plain(call[p], pend[p], asleep[p])
    <2>1. \A p \in Procs : call[p] \in {User, Unused}
      BY DEF Init
    <2>. QED BY <1>2, <2>1, QueueNames DEF Plain, User, Unused
  <1>. QED BY <1>1, <1>3, <1>4, <1>5 DEF ReadInv

(* Nobody sleeps in pipe_read or in a poll on what is already there, as    *)
(* long as transfers block, no signal cuts one short, no device is used    *)
(* and nobody closes the descriptors of a process that polls (the wakeups  *)
(* of pipe_write, pipe_read, pipe_check, file_close and poll_timeout).     *)
THEOREM ReadersStayWoken ==
    ASSUME PlainCalls
    PROVE  Spec => []ReaderWoken
  <1>1. Init => ReadInv
    BY ReadInit
  <1>2. ReadInv /\ [Next]_vars => ReadInv'
    BY ReadStep
  <1>3. ReadInv => ReaderWoken
    BY DEF ReadInv
  <1>. QED BY <1>1, <1>2, <1>3, PTL DEF Spec
================================================================================
