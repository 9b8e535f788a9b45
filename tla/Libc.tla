-------------------------------- MODULE Libc ---------------------------------
(***************************************************************************)
(* malloc, free, calloc and realloc of the C library (lib/stdlib.c) in     *)
(* words of 8 bytes: a block is a header word and its payload.  cells says *)
(* what every word of the heap holds: 0 a header, k what the program wrote *)
(* into its k-th block.                                                    *)
(***************************************************************************)
EXTENDS Integers, Sequences, FiniteSets, SequencesExt

CONSTANTS SPLIT, TOP, Names, Sizes

VARIABLES hp, blocks, cells

hvars == <<hp, blocks, cells>>

(* hp: the free list in address order and the end of the heap.  blocks:    *)
(* what the program holds, by name; NULL is no block.                      *)
NULL == [at |-> -1, size |-> 0, n |-> 0]

HInit == hp = [list |-> <<>>, brk |-> 0] /\ blocks = [k \in Names |-> NULL] /\ cells = [w \in 0 .. TOP - 1 |-> 0]

(* Slip: the header is not counted                                         *)
payloadOnly(n) == (n + 7) \div 8

words(n) == (n + 8 + 7) \div 8

remainder(b, need) == [at |-> b.at + need, size |-> b.size - need]

(* First fit, split when enough is left; else the heap grows               *)
malloc(h, n) ==
    LET need == words(IF n = 0 THEN 1 ELSE n)
        fit  == SelectInSeq(h.list, LAMBDA b : b.size >= need)
        b    == h.list[fit]
    IN  IF fit # 0 /\ b.size - need >= SPLIT
        THEN [h |-> [h EXCEPT !.list[fit] = remainder(b, need)], at |-> b.at, size |-> need]
        ELSE IF fit # 0 THEN [h |-> [h EXCEPT !.list = RemoveAt(@, fit)], at |-> b.at, size |-> b.size]
        ELSE IF h.brk + need > TOP THEN [h |-> h, at |-> -1, size |-> 0]
        ELSE [h |-> [h EXCEPT !.brk = @ + need], at |-> h.brk, size |-> need]

join(l, i) ==
    LET a == IF i < Len(l) /\ l[i].at + l[i].size = l[i + 1].at
             THEN RemoveAt([l EXCEPT ![i].size = @ + l[i + 1].size], i + 1) ELSE l
    IN  IF i > 1 /\ a[i - 1].at + a[i - 1].size = a[i].at
        THEN RemoveAt([a EXCEPT ![i - 1].size = @ + a[i].size], i) ELSE a

free(h, b) ==
    LET i == 1 + Len(SelectSeq(h.list, LAMBDA c : c.at < b.at))
    IN  [h EXCEPT !.list = join(InsertAt(h.list, i, [at |-> b.at, size |-> b.size]), i)]

(* The headers the allocator writes, the words from..to of a block that    *)
(* the program writes; words no block holds are not told apart             *)
Headers(h, c) == [w \in DOMAIN c |-> IF \E i \in DOMAIN h.list : h.list[i].at = w THEN 0 ELSE c[w]]
Filled(c, at, from, to, k) == [w \in DOMAIN c |-> IF w = at THEN 0 ELSE IF w \in at + from .. at + to - 1 THEN k ELSE c[w]]
Asked(n) == 1 + ((n + 7) \div 8)
Payload(b) == b.at + 1 .. b.at + Asked(b.n) - 1
Seen(c, bs) == [w \in DOMAIN c |-> IF \E k \in Names : bs[k] # NULL /\ w \in Payload(bs[k]) THEN c[w] ELSE 0]
Holds(r, n) == [at |-> r.at, size |-> r.size, n |-> n]

Malloc == \E k \in Names, n \in Sizes :
    LET r == malloc(hp, n)
    IN  /\ blocks[k] = NULL /\ \A x \in Names : x < k => blocks[x] # NULL
        /\ hp' = r.h
        /\ blocks' = IF r.at < 0 THEN blocks ELSE [blocks EXCEPT ![k] = Holds(r, n)]
        /\ cells' = IF r.at < 0 THEN cells ELSE Seen(Filled(Headers(r.h, cells), r.at, 1, Asked(n), k), blocks')

Free == \E k \in Names :
    /\ blocks[k] # NULL
    /\ hp' = free(hp, blocks[k])
    /\ blocks' = [blocks EXCEPT ![k] = NULL] /\ cells' = Seen(Headers(hp', cells), blocks')

(* With room enough the block stays.  Else a new one gets the words of the *)
(* old one, as many as it had, and the old one is freed; 0 only frees.     *)
(* The program writes what it did not have before.                         *)
Realloc == \E k \in Names, n \in Sizes \cup {0} :
    LET b == blocks[k]
        r == malloc(hp, n)
        stays == (b.size - 1) * 8 >= n
        grown == Filled([w \in DOMAIN cells |-> IF w > r.at /\ w < r.at + b.size THEN cells[w - r.at + b.at]
                                                ELSE Headers(r.h, cells)[w]], r.at, Asked(b.n), Asked(n), k)
    IN  /\ b # NULL
        /\ \/ n = 0 /\ hp' = free(hp, b) /\ blocks' = [blocks EXCEPT ![k] = NULL] /\ cells' = Seen(Headers(hp', cells), blocks')
           \/ n > 0 /\ stays /\ hp' = hp /\ blocks' = [blocks EXCEPT ![k].n = n]
              /\ cells' = Seen(Filled(cells, b.at, Asked(b.n), Asked(n), k), blocks')
           \/ n > 0 /\ ~stays /\ r.at < 0 /\ UNCHANGED hvars
           \/ n > 0 /\ ~stays /\ r.at >= 0 /\ hp' = free(r.h, b) /\ blocks' = [blocks EXCEPT ![k] = Holds(r, n)]
              /\ cells' = Seen(Headers(hp', grown), blocks')

HNext == Malloc \/ Free \/ Realloc

(***************************************************************************)
(* Properties                                                              *)
(***************************************************************************)
Extents == {<<hp.list[i].at, hp.list[i].size>> : i \in DOMAIN hp.list}
               \cup {<<blocks[k].at, blocks[k].size>> : k \in {x \in Names : blocks[x] # NULL}}

(* What a program wrote into a block is there until it frees it, however   *)
(* blocks around it are split, joined, moved and given out again (malloc,  *)
(* free, realloc).                                                         *)
KeepsContents == \A k \in Names : blocks[k] # NULL =>
    \A w \in Payload(blocks[k]) : cells[w] = k

(* Every word of the heap belongs to exactly one block, free or held: no   *)
(* overlap and no leak, whatever the order of the calls.                   *)
HeapTiled == \A w \in 0 .. hp.brk - 1 : Cardinality({e \in Extents : w >= e[1] /\ w < e[1] + e[2]}) = 1

(* The free list is in address order and no two of its blocks touch, so a  *)
(* hole is as large as what was freed there (free).                        *)
FreeJoined == \A i \in 1 .. Len(hp.list) - 1 : hp.list[i].at + hp.list[i].size < hp.list[i + 1].at

------------------------------------------------------------------------------
(***************************************************************************)
(* Buffered files of the C library (lib/stdio.c): a FILE over a descriptor *)
(* whose reads and writes may be short, beside the file it stands for (a   *)
(* sequence of bytes and a position); and the three standard streams on a  *)
(* terminal.  A byte is 0 or 1, 1 being the end of a line.                 *)
(*                                                                         *)
(* As C asks of a program, output follows input only after fseek, input    *)
(* follows output only after fseek or fflush, and a byte is pushed back    *)
(* only after one was read.  After a write that failed the program closes  *)
(* the file; after a read that failed it may go on with clearerr.          *)
(***************************************************************************)

CONSTANTS BUFSIZ, MaxLen

VARIABLES file, fp, ideal, same, term, outbuf, said

EOF == -1
NONE == -1
Bytes == {0, 1}
Modes == {"r", "w", "a", "r+", "w+", "a+"}
Reads(m) == m \in {"r", "r+", "w+", "a+"}
Writes(m) == m # "r"
Appends(m) == m \in {"a", "a+"}
Min2(a, b) == IF a < b THEN a ELSE b

(* file: what the disk holds and the descriptor's offset.  fp: the FILE;   *)
(* did is the last kind of operation, chunk the most one call moves.       *)
Closed == [mode |-> "", eof |-> FALSE, err |-> FALSE, ungot |-> NONE, rpos |-> 0, rlen |-> 0, wlen |-> 0,
           buf |-> [i \in 0 .. BUFSIZ - 1 |-> 0], did |-> "seek"]

SInit == /\ file = [data |-> <<>>, pos |-> 0] /\ fp = Closed
         /\ ideal = [data |-> <<>>, pos |-> 0, push |-> NONE, eof |-> FALSE] /\ same = TRUE
         /\ term = <<>> /\ outbuf = <<>> /\ said = <<>>

(***************************************************************************)
(* The descriptor: write and read of n bytes move at most chunk of them    *)
(***************************************************************************)
(* Bytes over what is there, zeros in a hole                               *)
Overlay(d, at, b) == [i \in 1 .. (IF at + Len(b) > Len(d) /\ b # <<>> THEN at + Len(b) ELSE Len(d)) |->
                         IF i > at /\ i <= at + Len(b) THEN b[i - at] ELSE IF i <= Len(d) THEN d[i] ELSE 0]

Pending(f) == [i \in 1 .. f.wlen |-> f.buf[i - 1]]

further(off, r, wlen) == off + r

Wrote(fl, mode, b) ==
    LET at == IF Appends(mode) THEN Len(fl.data) ELSE fl.pos
    IN  [data |-> Overlay(fl.data, at, b), pos |-> at + Len(b)]

(***************************************************************************)
(* The FILE: st is [fl, f]; fail says that the disk takes no more          *)
(***************************************************************************)
RECURSIVE flush_from(_, _, _, _)
flush_from(st, off, chunk, fail) ==
    IF off >= st.f.wlen THEN [st EXCEPT !.f.wlen = 0]
    ELSE IF fail THEN [st EXCEPT !.f.wlen = 0, !.f.err = TRUE]
    ELSE LET r == Min2(chunk, st.f.wlen - off)
         IN  flush_from([st EXCEPT !.fl = Wrote(@, st.f.mode, SubSeq(Pending(st.f), off + 1, off + r))],
                        further(off, r, st.f.wlen), chunk, fail)

fflush(st, chunk, fail) == flush_from(st, 0, chunk, fail)

full(n) == n >= BUFSIZ

fputc(st, c, chunk, fail) ==
    LET f == [st.f EXCEPT !.buf[st.f.wlen] = c, !.wlen = @ + 1]
        s == [st EXCEPT !.f = f]
    IN  IF ~Writes(st.f.mode) THEN st ELSE IF full(f.wlen) THEN fflush(s, chunk, fail) ELSE s

(* fail says that a read, if one is needed, fails                          *)
fgetc(st, chunk, fail) ==
    LET f == st.f
        r == Min2(chunk, Min2(BUFSIZ, Len(st.fl.data) - st.fl.pos))
        got == [st EXCEPT !.fl.pos = @ + r, !.f.rlen = r, !.f.rpos = 1,
                          !.f.buf = [i \in DOMAIN f.buf |-> IF i < r THEN st.fl.data[st.fl.pos + i + 1] ELSE f.buf[i]]]
    IN  IF f.ungot # NONE THEN [st |-> [st EXCEPT !.f.ungot = NONE], ret |-> f.ungot]
        ELSE IF ~Reads(f.mode) \/ f.eof THEN [st |-> st, ret |-> EOF]
        ELSE IF f.rpos < f.rlen THEN [st |-> [st EXCEPT !.f.rpos = @ + 1], ret |-> f.buf[f.rpos]]
        ELSE IF fail THEN [st |-> [st EXCEPT !.f.err = TRUE], ret |-> EOF]
        ELSE IF r <= 0 THEN [st |-> [st EXCEPT !.f.eof = TRUE], ret |-> EOF]
        ELSE [st |-> got, ret |-> got.f.buf[0]]

(* fgets (to the end of a line) and fread: up to n bytes, with as many     *)
(* reads that do not fail                                                  *)
RECURSIVE getall(_, _, _, _, _, _)
getall(st, n, line, chunk, reads, got) ==
    LET r == fgetc(st, chunk, reads = 0)
    IN  IF n = 0 THEN [st |-> st, got |-> got]
        ELSE IF r.ret = EOF THEN [st |-> r.st, got |-> got]
        ELSE IF line /\ r.ret = 1 THEN [st |-> r.st, got |-> Append(got, 1)]
        ELSE getall(r.st, n - 1, line, chunk, IF r.st.fl = st.fl THEN reads ELSE reads - 1, Append(got, r.ret))

(* fputs and fwrite                                                        *)
putall(st, b, chunk, fail) == LET s == fputc(st, b[1], chunk, fail) IN IF Len(b) = 1 THEN s ELSE fputc(s, b[2], chunk, fail)

ahead(f) == f.rlen - f.rpos

ftell(fl, f) == fl.pos - ahead(f) - (IF f.ungot # NONE THEN 1 ELSE 0) + f.wlen

eof_after(f) == FALSE

fseek(st, off, whence, chunk, fail) ==
    LET to == IF whence = "cur" THEN off + ftell(st.fl, st.f) ELSE off
        s  == IF Writes(st.f.mode) THEN fflush(st, chunk, fail) ELSE st
        at == IF whence = "end" THEN Len(s.fl.data) + to ELSE to
    IN  [s EXCEPT !.f.rpos = 0, !.f.rlen = 0, !.f.ungot = NONE, !.f.eof = eof_after(s.f), !.fl.pos = at]

St == [fl |-> file, f |-> fp]
Becomes(s, did) == file' = s.fl /\ fp' = [s.f EXCEPT !.did = did]
Terminal == UNCHANGED <<term, outbuf, said>>
Open == fp.mode # ""
Usable == Open /\ ~fp.err

(***************************************************************************)
(* Operations, with what the file itself would do                          *)
(***************************************************************************)
Opened(m) == [Closed EXCEPT !.mode = m]
Truncated(d, m) == IF m \in {"w", "w+"} THEN <<>> ELSE d

fopen == \E m \in Modes :
    /\ ~Open
    /\ file' = [data |-> Truncated(file.data, m), pos |-> 0] /\ fp' = Opened(m)
    /\ ideal' = [data |-> Truncated(ideal.data, m), pos |-> 0, push |-> NONE, eof |-> FALSE]
    /\ UNCHANGED same /\ Terminal

fclose == \E chunk \in 1 .. BUFSIZ, fail \in BOOLEAN :
    LET s == IF Writes(fp.mode) THEN fflush(St, chunk, fail) ELSE St
    IN  /\ Open
        /\ file' = s.fl /\ fp' = Closed
        /\ ideal' = [data |-> IF s.f.err THEN s.fl.data ELSE ideal.data, pos |-> 0, push |-> NONE, eof |-> FALSE]
        /\ UNCHANGED same /\ Terminal

(* What is buffered goes to the old file; the stream starts again          *)
freopen == \E m \in Modes, chunk \in 1 .. BUFSIZ :
    LET s == IF Writes(fp.mode) THEN fflush(St, chunk, FALSE) ELSE St
    IN  /\ Usable
        /\ file' = [data |-> Truncated(s.fl.data, m), pos |-> 0] /\ fp' = Opened(m)
        /\ ideal' = [data |-> Truncated(ideal.data, m), pos |-> 0, push |-> NONE, eof |-> FALSE]
        /\ UNCHANGED same /\ Terminal

Fputs == \E b \in (Bytes \X Bytes) \cup {<<c>> : c \in Bytes}, chunk \in 1 .. BUFSIZ, fail \in BOOLEAN :
    /\ Usable /\ Writes(fp.mode) /\ fp.did # "read" /\ Len(ideal.data) + Len(b) <= MaxLen /\ ideal.pos + Len(b) <= MaxLen
    /\ Becomes(putall(St, b, chunk, fail), "write")
    /\ LET w == Wrote([data |-> ideal.data, pos |-> ideal.pos], fp.mode, b)
       IN  ideal' = [ideal EXCEPT !.data = w.data, !.pos = w.pos]
    /\ UNCHANGED same /\ Terminal

(* What the file gives: n bytes from its place after the one pushed back,  *)
(* fewer at its end or at the end of a line; asking past the end sees it.  *)
(* Of a read that fails the program has the bytes before it.               *)
Fgets == \E n \in 1 .. 2, line \in BOOLEAN, chunk \in 1 .. BUFSIZ, reads \in 0 .. 2 :
    LET r    == getall(St, n, line, chunk, reads, <<>>)
        push == IF ideal.push = NONE THEN <<>> ELSE <<ideal.push>>
        rest == push \o (IF ideal.eof THEN <<>> ELSE SubSeq(ideal.data, ideal.pos + 1, Len(ideal.data)))
        most == IF line /\ rest # <<>> /\ rest[1] = 1 THEN 1 ELSE Min2(n, Len(rest))
        want == IF r.st.f.err THEN Min2(most, Len(r.got)) ELSE most
        ends == want < n /\ want = Len(rest) /\ ~(line /\ want > 0 /\ rest[want] = 1)
    IN  /\ Usable /\ Reads(fp.mode) /\ fp.did # "write"
        /\ Becomes(r.st, "read")
        /\ same' = (r.got = SubSeq(rest, 1, want))
        /\ ideal' = [ideal EXCEPT !.push = IF Len(push) > want THEN @ ELSE NONE, !.pos = @ + want - Min2(want, Len(push)),
                                  !.eof = @ \/ (~r.st.f.err /\ ends)]
        /\ Terminal

clearerr ==
    /\ Open /\ fp.did = "read" /\ (fp.err \/ fp.eof)
    /\ Becomes([St EXCEPT !.f.err = FALSE, !.f.eof = FALSE], "read")
    /\ ideal' = [ideal EXCEPT !.eof = FALSE] /\ UNCHANGED same /\ Terminal

ungetc == \E c \in Bytes :
    /\ Usable /\ Reads(fp.mode) /\ fp.did = "read" /\ ideal.push = NONE /\ ideal.pos > 0
    /\ Becomes([St EXCEPT !.f.ungot = c, !.f.eof = FALSE], "read")
    /\ ideal' = [ideal EXCEPT !.push = c, !.eof = FALSE] /\ UNCHANGED same /\ Terminal

Fflush == \E chunk \in 1 .. BUFSIZ, fail \in BOOLEAN :
    /\ Usable /\ fp.did = "write"
    /\ Becomes(fflush(St, chunk, fail), "seek")
    /\ UNCHANGED <<ideal, same>> /\ Terminal

IdealTell == ideal.pos - IF ideal.push # NONE THEN 1 ELSE 0

(* A stream that appends with bytes pending does not know where it is      *)
Placed == ~(Appends(fp.mode) /\ fp.did = "write")

Fseek == \E off \in -1 .. 1, whence \in {"set", "cur", "end"}, chunk \in 1 .. BUFSIZ, fail \in BOOLEAN :
    LET at == off + (IF whence = "set" THEN 0 ELSE IF whence = "end" THEN Len(ideal.data) ELSE IdealTell)
    IN  /\ Usable /\ at \in 0 .. MaxLen /\ (whence = "cur" => Placed)
        /\ Becomes(fseek(St, off, whence, chunk, fail), "seek")
        /\ ideal' = [ideal EXCEPT !.pos = at, !.push = NONE, !.eof = FALSE] /\ UNCHANGED same /\ Terminal
(***************************************************************************)
(* The standard streams on one terminal                                    *)
(***************************************************************************)
Files == UNCHANGED <<file, fp, ideal, same>>

flushed_out == term \o outbuf

(* stdout is flushed at the end of a line and when it is full              *)
PutOut == \E c \in Bytes :
    LET b == Append(outbuf, c)
    IN  /\ Len(said) < MaxLen
        /\ said' = Append(said, c)
        /\ IF Len(b) >= BUFSIZ \/ c = 1 THEN term' = term \o b /\ outbuf' = <<>> ELSE outbuf' = b /\ term' = term
        /\ Files

PutErr == \E c \in Bytes :
    /\ Len(said) < MaxLen
    /\ said' = Append(said, c) /\ term' = Append(flushed_out, c)
    /\ outbuf' = <<>> /\ Files

(* Reading stdin, fflush(NULL) and exit flush stdout first                 *)
GetIn == term' = flushed_out /\ outbuf' = <<>> /\ said' = said /\ Files

FileNext == fopen \/ fclose \/ freopen \/ Fputs \/ Fgets \/ clearerr \/ ungetc \/ Fflush \/ Fseek
TermNext == PutOut \/ PutErr \/ GetIn

(***************************************************************************)
(* Properties                                                              *)
(***************************************************************************)
(* The bytes wlen counts and the bytes rpos passes are in the buffer, also *)
(* when a write or a read is short (fputc, fgetc, fflush).                 *)
InBuffer == fp.wlen \in 0 .. BUFSIZ - 1 /\ fp.rpos \in 0 .. fp.rlen /\ fp.rlen <= BUFSIZ

(* Every byte fgetc returns, and every end of file, is the one a program   *)
(* without a buffer would get, after any mix of reads, pushed back bytes,  *)
(* writes, flushes and seeks.  A read that fails is no end of file, and    *)
(* the program that goes on misses nothing (fgetc, ungetc, fseek).         *)
ReadsFile == same /\ fp.eof = ideal.eof

(* ftell is the place of the next byte, whatever is read ahead, pushed     *)
(* back or still to be written.                                            *)
TellsPlace == Usable /\ Placed => ftell(file, fp) = IdealTell

(* What the program has written is in the file or in the buffer at its     *)
(* place, or ferror says that it is not: a short write loses nothing and a *)
(* failed one is not silent (fflush, fclose).                              *)
NothingLost == ~fp.err => Wrote(file, fp.mode, Pending(fp)).data = ideal.data

(* The terminal shows what stdout and stderr were given in the order they  *)
(* were given it: stderr overtakes nothing that stdout still holds.        *)
TerminalInOrder == term \o outbuf = said

(* The library keeps what programs give it: blocks of the heap keep their  *)
(* contents and tile it, and streams read, write and tell as if there were *)
(* no buffer (stdlib.c malloc, free, realloc; stdio.c).                    *)
BytesKept ==
    /\ KeepsContents /\ HeapTiled /\ FreeJoined
    /\ InBuffer /\ ReadsFile /\ TellsPlace /\ NothingLost /\ TerminalInOrder
==============================================================================
