-------------------------------- MODULE Conv ---------------------------------
(***************************************************************************)
(* The messages of 9P as bytes (lib/9pconv.c, which the kernel's p9.c      *)
(* includes): a message or a directory entry is packed into a buffer, and  *)
(* unpacked in place at the other end, its texts staying in the buffer as  *)
(* C strings.  A byte has BYTE values, so that a word, and an address, has *)
(* WORD; the buffer begins at BASE.                                        *)
(***************************************************************************)
EXTENDS Integers, Sequences, SequencesExt, TLC

CONSTANTS BYTE, BASE, MAXWELEM, Texts, Tags, Words

VARIABLES sent, wire, given, changed, got

HALF == BYTE * BYTE
WORD == HALF * HALF

Code == [Tversion |-> 100, Rversion |-> 101, Tauth |-> 102, Rauth |-> 103, Tattach |-> 104, Rattach |-> 105,
         Rerror |-> 107, Tflush |-> 108, Rflush |-> 109, Twalk |-> 110, Rwalk |-> 111, Topen |-> 112, Ropen |-> 113,
         Tcreate |-> 114, Rcreate |-> 115, Tread |-> 116, Rread |-> 117, Twrite |-> 118, Rwrite |-> 119,
         Tclunk |-> 120, Rclunk |-> 121, Tremove |-> 122, Rremove |-> 123, Tstat |-> 124, Rstat |-> 125,
         Twstat |-> 126, Rwstat |-> 127]

(***************************************************************************)
(* Packing                                                                 *)
(***************************************************************************)
p8(v)   == <<v % BYTE>>
p16(v)  == <<v % BYTE, (v \div BYTE) % BYTE>>
p32(v)  == p16(v % HALF) \o p16(v \div HALF)
pstr(s) == p16(Len(s)) \o s
pqid(q) == p8(q.type) \o p32(q.vers) \o p32(q.path) \o p32(q.pathhi)

All(p(_), s) == FlattenSeq([i \in DOMAIN s |-> p(s[i])])
Lengths(s)   == FoldLeft(LAMBDA n, x : n + 2 + Len(x), 0, s)

sizeS2M(f) == 4 + 1 + 2 +
    CASE f.type \in {"Tversion", "Rversion"}         -> 4 + 2 + Len(f.version)
      [] f.type = "Tauth"                            -> 4 + 2 + Len(f.uname) + 2 + Len(f.aname)
      [] f.type \in {"Rauth", "Rattach"}             -> 13
      [] f.type = "Tattach"                          -> 4 + 4 + 2 + Len(f.uname) + 2 + Len(f.aname)
      [] f.type = "Rerror"                           -> 2 + Len(f.ename)
      [] f.type = "Tflush"                           -> 2
      [] f.type = "Twalk"                            -> 4 + 4 + 2 + Lengths(f.wname)
      [] f.type = "Rwalk"                            -> 2 + 13 * Len(f.wqid)
      [] f.type = "Topen"                            -> 4 + 1
      [] f.type \in {"Ropen", "Rcreate"}             -> 13 + 4
      [] f.type = "Tcreate"                          -> 4 + 2 + Len(f.name) + 4 + 1
      [] f.type = "Tread"                            -> 4 + 8 + 4
      [] f.type = "Rread"                            -> 4 + Len(f.data)
      [] f.type = "Twrite"                           -> 4 + 8 + 4 + Len(f.data)
      [] f.type = "Rwrite"                           -> 4
      [] f.type \in {"Tclunk", "Tremove", "Tstat"}   -> 4
      [] f.type = "Rstat"                            -> 2 + Len(f.stat)
      [] f.type = "Twstat"                           -> 4 + 2 + Len(f.stat)
      [] OTHER                                       -> 0

(* The number of names, of qids and of bytes are the lengths of their      *)
(* sequences                                                               *)
convS2M(f, n) ==
    IF sizeS2M(f) > n THEN <<>>
    ELSE p32(sizeS2M(f)) \o p8(Code[f.type]) \o p16(f.tag) \o
    CASE f.type \in {"Tversion", "Rversion"}         -> p32(f.msize) \o pstr(f.version)
      [] f.type = "Tauth"                            -> p32(f.afid) \o pstr(f.uname) \o pstr(f.aname)
      [] f.type \in {"Rauth", "Rattach"}             -> pqid(f.qid)
      [] f.type = "Tattach"                          -> p32(f.fid) \o p32(f.afid) \o pstr(f.uname) \o pstr(f.aname)
      [] f.type = "Rerror"                           -> pstr(f.ename)
      [] f.type = "Tflush"                           -> p16(f.oldtag)
      [] f.type = "Twalk"                            -> p32(f.fid) \o p32(f.newfid) \o p16(Len(f.wname)) \o All(pstr, f.wname)
      [] f.type = "Rwalk"                            -> p16(Len(f.wqid)) \o All(pqid, f.wqid)
      [] f.type = "Topen"                            -> p32(f.fid) \o p8(f.mode)
      [] f.type \in {"Ropen", "Rcreate"}             -> pqid(f.qid) \o p32(f.iounit)
      [] f.type = "Tcreate"                          -> p32(f.fid) \o pstr(f.name) \o p32(f.perm) \o p8(f.mode)
      [] f.type = "Tread"                            -> p32(f.fid) \o p32(f.offset) \o p32(f.offsethi) \o p32(f.count)
      [] f.type = "Rread"                            -> p32(Len(f.data)) \o f.data
      [] f.type = "Twrite"                           -> p32(f.fid) \o p32(f.offset) \o p32(f.offsethi) \o p32(Len(f.data)) \o f.data
      [] f.type = "Rwrite"                           -> p32(f.count)
      [] f.type \in {"Tclunk", "Tremove", "Tstat"}   -> p32(f.fid)
      [] f.type = "Rstat"                            -> p16(Len(f.stat)) \o f.stat
      [] f.type = "Twstat"                           -> p32(f.fid) \o p16(Len(f.stat)) \o f.stat
      [] OTHER                                       -> <<>>

sizeD2M(d) == 2 + 2 + 4 + 13 + 4 + 4 + 4 + 8 + 8 + Len(d.name) + Len(d.uid) + Len(d.gid) + Len(d.muid)

convD2M(d, n) ==
    IF sizeD2M(d) > n THEN <<>>
    ELSE p16(sizeD2M(d) - 2) \o p16(d.type) \o p32(d.dev) \o pqid(d.qid) \o p32(d.mode) \o p32(d.atime) \o p32(d.mtime)
         \o p32(d.length) \o p32(d.lengthhi) \o pstr(d.name) \o pstr(d.uid) \o pstr(d.gid) \o pstr(d.muid)

nulldir9 ==
    [type |-> HALF - 1, dev |-> WORD - 1, qid |-> [type |-> BYTE - 1, vers |-> WORD - 1, path |-> WORD - 1, pathhi |-> WORD - 1],
     mode |-> WORD - 1, atime |-> WORD - 1, mtime |-> WORD - 1, length |-> WORD - 1, lengthhi |-> WORD - 1,
     name |-> <<>>, uid |-> <<>>, gid |-> <<>>, muid |-> <<>>]

(***************************************************************************)
(* Unpacking.  A reader r is at address p of the buffer b, of which the    *)
(* message ends before end; f is what it read and s the texts it found, as *)
(* addresses.  p is 0 once something did not fit.                          *)
(***************************************************************************)
at(b, p)  == b[p - BASE + 1]
g16(b, p) == at(b, p) + BYTE * at(b, p + 1)
g32(b, p) == g16(b, p) + HALF * g16(b, p + 2)
Get(b, p, k) == CASE k = 1 -> at(b, p) [] k = 2 -> g16(b, p) [] k = 4 -> g32(b, p)

gn(r, k) == r.p # 0 /\ (r.p + k) % WORD <= r.end

Refuse(r) == [r EXCEPT !.p = 0]

(* The fields of the next k bytes, each with its place and width           *)
Fixed(r, k, fields) ==
    IF ~gn(r, k) THEN Refuse(r)
    ELSE [r EXCEPT !.p = @ + k, !.f = @ @@ [x \in DOMAIN fields |-> Get(r.b, r.p + fields[x][1], fields[x][2])]]

(* A text moves over its length, and ends with a zero                      *)
moved(b, p, n) ==
    LET i == p - BASE + 1
    IN  [k \in DOMAIN b |-> IF k \in i .. i + n - 1 THEN b[k + 2] ELSE IF k = i + n THEN 0 ELSE b[k]]

gstr(r) ==
    IF r.p = 0 \/ r.p + 2 > r.end THEN Refuse(r)
    ELSE LET n == g16(r.b, r.p)
         IN  IF r.p + 2 + n > r.end THEN Refuse(r)
             ELSE [r EXCEPT !.b = moved(@, r.p, n), !.s = Append(@, r.p), !.p = @ + 2 + n]

Qid(b, p) == [type |-> at(b, p), vers |-> g32(b, p + 1), path |-> g32(b, p + 5), pathhi |-> g32(b, p + 9)]

gqid(r) == IF ~gn(r, 13) THEN Refuse(r) ELSE [r EXCEPT !.p = @ + 13, !.q = Append(@, Qid(r.b, r.p))]

(* As many bytes as the field count says, which they then stand for; an    *)
(* address beyond the last one is a small one again                        *)
Rest(r, count, x) ==
    IF r.p = 0 \/ ~gn(r, r.f[count]) THEN Refuse(r)
    ELSE [r EXCEPT !.p = (@ + r.f[count]) % WORD,
                   !.f = Restrict(@, DOMAIN @ \ {count}) @@ (x :> SubSeq(r.b, r.p - BASE + 1, Min({r.p - BASE + r.f[count], Len(r.b)})))]

Times(r, n, g(_)) == IF n > MAXWELEM THEN Refuse(r) ELSE FoldLeft(LAMBDA x, i : g(x), r, [i \in 1 .. n |-> i])

(* A C string of the buffer                                                *)
Text(b, p) == LET i == p - BASE + 1
                  n == CHOOSE n \in 0 .. Len(b) - i : b[i + n] = 0 /\ \A k \in 0 .. n - 1 : b[i + k] # 0
              IN  SubSeq(b, i, i + n - 1)

(* The texts and qids found, as the fields they are                        *)
Named(r, xs) ==
    IF r.p = 0 THEN r
    ELSE [r EXCEPT !.f = @ @@ [x \in Range(xs) |-> Text(r.b, r.s[CHOOSE i \in DOMAIN xs : xs[i] = x])]]
Walked(r) == [r EXCEPT !.f = Restrict(@, {"fid", "newfid"}) @@ [wname |-> [i \in DOMAIN r.s |-> Text(r.b, r.s[i])]]]
Qided(r)  == IF r.p = 0 THEN r ELSE [r EXCEPT !.f = @ @@ [qid |-> r.q[1]]]

fid4 == [fid |-> <<0, 4>>]
off4 == [fid |-> <<0, 4>>, offset |-> <<4, 4>>, offsethi |-> <<8, 4>>, count |-> <<12, 4>>]

(* The body of a message of type t                                         *)
Body(t, r) ==
    CASE t \in {"Tversion", "Rversion"}        -> Named(gstr(Fixed(r, 4, [msize |-> <<0, 4>>])), <<"version">>)
      [] t = "Tauth"                           -> Named(gstr(gstr(Fixed(r, 4, [afid |-> <<0, 4>>]))), <<"uname", "aname">>)
      [] t \in {"Rauth", "Rattach"}            -> Qided(gqid(r))
      [] t = "Tattach"                         -> Named(gstr(gstr(Fixed(r, 8, [fid |-> <<0, 4>>, afid |-> <<4, 4>>]))), <<"uname", "aname">>)
      [] t = "Rerror"                          -> Named(gstr(r), <<"ename">>)
      [] t = "Tflush"                          -> Fixed(r, 2, [oldtag |-> <<0, 2>>])
      [] t = "Twalk"                           -> LET x == Fixed(r, 10, [fid |-> <<0, 4>>, newfid |-> <<4, 4>>, nwname |-> <<8, 2>>])
                                                  IN  IF x.p = 0 THEN x ELSE Walked(Times(x, x.f.nwname, gstr))
      [] t = "Rwalk"                           -> LET x == Fixed(r, 2, [nwqid |-> <<0, 2>>])
                                                      y == Times(x, x.f.nwqid, gqid)
                                                  IN  IF x.p = 0 THEN x ELSE [y EXCEPT !.f = [wqid |-> y.q]]
      [] t = "Topen"                           -> Fixed(r, 5, [fid |-> <<0, 4>>, mode |-> <<4, 1>>])
      [] t \in {"Ropen", "Rcreate"}            -> Fixed(Qided(gqid(r)), 4, [iounit |-> <<0, 4>>])
      [] t = "Tcreate"                         -> Fixed(Named(gstr(Fixed(r, 4, fid4)), <<"name">>), 5, [perm |-> <<0, 4>>, mode |-> <<4, 1>>])
      [] t = "Tread"                           -> Fixed(r, 16, off4)
      [] t = "Rread"                           -> Rest(Fixed(r, 4, [count |-> <<0, 4>>]), "count", "data")
      [] t = "Twrite"                          -> Rest(Fixed(r, 16, off4), "count", "data")
      [] t = "Rwrite"                          -> Fixed(r, 4, [count |-> <<0, 4>>])
      [] t \in {"Tclunk", "Tremove", "Tstat"}  -> Fixed(r, 4, fid4)
      [] t = "Rstat"                           -> Rest(Fixed(r, 2, [nstat |-> <<0, 2>>]), "nstat", "stat")
      [] t = "Twstat"                          -> Rest(Fixed(r, 6, [fid |-> <<0, 4>>, nstat |-> <<4, 2>>]), "nstat", "stat")
      [] OTHER                                 -> r
Reader(b, p, end) == [p |-> p, end |-> end, b |-> b, f |-> <<>>, s |-> <<>>, q |-> <<>>]

Refused == [size |-> 0, f |-> <<>>]

atEnd(r) == r.p = r.end

(* The first n bytes of a buffer as a message                              *)
convM2S(b, n) ==
    IF n < 7 THEN Refused
    ELSE LET size == g32(b, BASE)
             ts   == {t \in DOMAIN Code : Code[t] = at(b, BASE + 4)}
         IN  IF size < 7 \/ size > n \/ ts = {} THEN Refused
             ELSE LET t == CHOOSE t \in ts : TRUE
                      r == Body(t, Reader(b, BASE + 7, BASE + size))
                  IN  IF r.p = 0 \/ ~atEnd(r) THEN Refused
                      ELSE [size |-> size, f |-> r.f @@ [type |-> t, tag |-> g16(b, BASE + 5)]]

statFields == [type |-> <<0, 2>>, dev |-> <<2, 4>>, mode |-> <<19, 4>>, atime |-> <<23, 4>>, mtime |-> <<27, 4>>,
               length |-> <<31, 4>>, lengthhi |-> <<35, 4>>]

convM2D(b, n) ==
    IF n < 2 THEN Refused
    ELSE LET size == g16(b, BASE) + 2
             x    == Fixed(Reader(b, BASE + 2, BASE + size), 39, statFields)
             r    == Named(gstr(gstr(gstr(gstr(x)))), <<"name", "uid", "gid", "muid">>)
         IN  IF size > n \/ x.p = 0 \/ r.p = 0 THEN Refused
             ELSE [size |-> size, f |-> r.f @@ [qid |-> Qid(b, BASE + 8)]]

(***************************************************************************)
(* A message or an entry is packed, and unpacked from a buffer in which    *)
(* more may follow it, which may end early, or in which a byte may be      *)
(* another                                                                 *)
(***************************************************************************)
Qids    == [type : {0, BYTE - 1}, vers : {1}, path : Words, pathhi : {2}]
Payloads == Texts \cup {<<0, 0>>}

Messages ==
    [type : {"Tversion", "Rversion"}, tag : Tags, msize : Words, version : Texts]
    \cup [type : {"Tauth"}, tag : Tags, afid : Words, uname : Texts, aname : Texts]
    \cup [type : {"Rauth", "Rattach"}, tag : Tags, qid : Qids]
    \cup [type : {"Tattach"}, tag : Tags, fid : Words, afid : {3}, uname : Texts, aname : Texts]
    \cup [type : {"Rerror"}, tag : Tags, ename : Texts]
    \cup [type : {"Tflush"}, tag : Tags, oldtag : Tags]
    \cup [type : {"Twalk"}, tag : Tags, fid : {3}, newfid : Words, wname : UNION {[1 .. n -> Texts] : n \in 0 .. MAXWELEM}]
    \cup [type : {"Rwalk"}, tag : Tags, wqid : UNION {[1 .. n -> Qids] : n \in 0 .. MAXWELEM}]
    \cup [type : {"Topen"}, tag : Tags, fid : Words, mode : {0, BYTE - 1}]
    \cup [type : {"Ropen", "Rcreate"}, tag : Tags, qid : Qids, iounit : Words]
    \cup [type : {"Tcreate"}, tag : Tags, fid : Words, name : Texts, perm : {4}, mode : {5}]
    \cup [type : {"Tread"}, tag : Tags, fid : {3}, offset : Words, offsethi : Words, count : Words]
    \cup [type : {"Rread"}, tag : Tags, data : Payloads]
    \cup [type : {"Twrite"}, tag : Tags, fid : {3}, offset : Words, offsethi : {4}, data : Payloads]
    \cup [type : {"Rwrite"}, tag : Tags, count : Words]
    \cup [type : {"Tclunk", "Tremove", "Tstat"}, tag : Tags, fid : Words]
    \cup [type : {"Rstat"}, tag : Tags, stat : Payloads]
    \cup [type : {"Twstat"}, tag : Tags, fid : Words, stat : Payloads]
    \cup [type : {"Rflush", "Rclunk", "Rremove", "Rwstat"}, tag : Tags]

Entries == {nulldir9} \cup
    [type : {1}, dev : {2}, qid : Qids, mode : Words, atime : {5}, mtime : {6}, length : {7}, lengthhi : {8},
     name : Texts, uid : Texts, gid : {<<65>>}, muid : {<<>>}]

IsEntry == "atime" \in DOMAIN sent
Pack(f) == IF "atime" \in DOMAIN f THEN convD2M(f, sizeD2M(f)) ELSE convS2M(f, sizeS2M(f))

NotYet == [size |-> -1, f |-> <<>>]

WInit == sent \in Messages \cup Entries /\ wire = <<>> /\ given = 0 /\ changed = 0 /\ got = NotYet

Send == wire = <<>> /\ wire' = Pack(sent) /\ given' = Len(wire') /\ UNCHANGED <<sent, changed, got>>

Untouched == wire # <<>> /\ got = NotYet /\ changed = 0 /\ given = Len(wire)

Follow == Untouched /\ wire' = wire \o <<0, 65>> /\ given' = Len(wire') /\ changed' = -1 /\ UNCHANGED <<sent, got>>
Cut    == Untouched /\ given' \in 0 .. Len(wire) - 1 /\ UNCHANGED <<sent, wire, changed, got>>
Change == /\ Untouched
          /\ \E i \in DOMAIN wire, v \in {0, 1, BYTE - 1} : wire[i] # v /\ wire' = [wire EXCEPT ![i] = v] /\ changed' = i
          /\ UNCHANGED <<sent, given, got>>

Receive ==
    /\ wire # <<>> /\ got = NotYet
    /\ got' = LET b == SubSeq(wire, 1, given) IN IF IsEntry THEN convM2D(b, given) ELSE convM2S(b, given)
    /\ UNCHANGED <<sent, wire, given, changed>>

WNext == Send \/ Follow \/ Cut \/ Change \/ Receive

(***************************************************************************)
(* Properties                                                              *)
(***************************************************************************)
(* What was packed is unpacked as it was, every field in its place and     *)
(* every text whole although the texts move in the buffer, also when more  *)
(* follows; a message or entry that is cut short is refused (convS2M,      *)
(* sizeS2M, convM2S, gstr, convD2M, convM2D).                              *)
ArrivesSame ==
    got # NotYet /\ changed <= 0 =>
        IF given < Len(Pack(sent)) THEN got = Refused ELSE got = [size |-> Len(Pack(sent)), f |-> sent]

(* Whatever the bytes, what convM2S accepts is the message whose packing   *)
(* they are: no byte is left over and no length reaches past the end, the  *)
(* lengths that make an address wrap around included.  Only a text with a  *)
(* zero in it is cut there.  convM2D allows bytes behind an entry's texts. *)
AcceptsWhatIsPacked ==
    got # NotYet /\ got.size > 0 =>
        \/ Pack(got.f) = SubSeq(wire, 1, got.size)
        \/ Len(Pack(got.f)) < got.size /\ (IsEntry \/ (changed > 0 /\ wire[changed] = 0))

(* Packing and unpacking belong together: a message arrives as it was sent *)
(* or is refused, and nothing else is accepted (lib/9pconv.c).             *)
PacksSound == ArrivesSame /\ AcceptsWhatIsPacked
=============================================================================
