---------------------------- MODULE CachesProofs -----------------------------
(***************************************************************************)
(* The processor's caches never change what an instruction does, for every *)
(* size of a page, every length of an instruction that fits in one, every  *)
(* period of the generation counter and every set of page table entries.   *)
(***************************************************************************)
EXTENDS Caches, TLAPS

Pte == [ppn : Pages, u : BOOLEAN]

(* A page is 4096 bytes in the code, MAXLEN 6 and  GENS 2^32               *)
Sizes ==
    /\ PAGE \in Nat /\ MAXLEN \in Nat /\ 2 <= MAXLEN /\ MAXLEN <= PAGE /\ GENS \in Nat /\ 2 <= GENS
    /\ Ptes \subseteq Pte /\ \A v \in Pages : [ppn |-> v, u |-> TRUE] \in Ptes

Insn == {<<1>>, <<2, 1>>, <<2, 2>>}
Slot == [gen : 0 .. GENS - 1, pte : Pte]

TypeC ==
    /\ pm \in [Pages -> [Offs -> {1, 2}]] /\ pt \in [Pages -> Pte]
    /\ tlb \in [Pages -> Slot] /\ tlb_gen \in 1 .. GENS - 1
    /\ ftag \in Pages \cup {None} /\ fppn \in Pages
    /\ dc \in [Pages -> [Offs -> Insn \cup {<<>>}]]
    /\ user \in BOOLEAN

(* No slot is ahead of the generation: why the next one finds none of its  *)
(* own                                                                     *)
NotAhead == \A v \in Pages : tlb[v].gen <= tlb_gen

(* The page of the last instruction is still there and may be fetched from *)
LastPage == ftag # None => fppn = pt[ftag].ppn /\ ~Denied(pt[ftag])

Inv == TypeC /\ NotAhead /\ TranslatesNow /\ LastPage /\ DecodedNow /\ ExecutesMemory

(* A place below the size of a page, and one in the next page              *)
LEMMA Below ==
    ASSUME NEW a \in Nat, NEW p \in Nat, a < p
    PROVE  a \div p = 0 /\ a % p = a
  OBVIOUS

(* A number of the second page                                             *)
LEMMA Beyond ==
    ASSUME NEW a \in Nat, NEW p \in Nat, p <= a, a < 2 * p
    PROVE  a \div p = 1 /\ a % p = a - p
  OBVIOUS

(***************************************************************************)
(* Fetching                                                                *)
(***************************************************************************)
Fetching == [tlb : [Pages -> Slot], ftag : Pages \cup {None}, fppn : Pages, fault : BOOLEAN, bytes : Seq({1, 2})]

Good(s) ==
    /\ s \in Fetching
    /\ \A v \in Pages : s.tlb[v].gen <= tlb_gen /\ (s.tlb[v].gen = tlb_gen => s.tlb[v].pte = pt[v])
    /\ s.ftag # None => s.fppn = pt[s.ftag].ppn /\ ~Denied(pt[s.ftag])

(* A translation taken over from the table                                 *)
LEMMA TranslateGood ==
    ASSUME Sizes, TypeC, NEW t \in [Pages -> Slot], NEW v \in Pages,
           \A x \in Pages : t[x].gen <= tlb_gen /\ (t[x].gen = tlb_gen => t[x].pte = pt[x])
    PROVE  LET r == pg_translate(t, v)
           IN  /\ Entry(t, v) = pt[v] /\ Entry(r, v) = pt[v]
               /\ r \in [Pages -> Slot]
               /\ \A x \in Pages : r[x].gen <= tlb_gen /\ (r[x].gen = tlb_gen => r[x].pte = pt[x])
  <1>. DEFINE new == [gen |-> tlb_gen, pte |-> pt[v]]
              r == pg_translate(t, v)
  <1>1. tlb_gen \in 0 .. GENS - 1 /\ pt[v] \in Pte
    BY DEF TypeC, Sizes
  <1>2. new \in Slot /\ new.gen = tlb_gen /\ new.pte = pt[v]
    BY <1>1 DEF Slot
  <1>3. r = IF t[v].gen = tlb_gen \/ Denied(pt[v]) THEN t ELSE [t EXCEPT ![v] = new]
    BY DEF pg_translate
  <1>. HIDE DEF new, r
  <1>4. r \in [Pages -> Slot] /\ \A x \in Pages : r[x] = t[x] \/ (x = v /\ r[x] = new)
    BY <1>2, <1>3
  <1>5. \A x \in Pages : r[x].gen <= tlb_gen /\ (r[x].gen = tlb_gen => r[x].pte = pt[x])
    BY <1>1, <1>2, <1>4
  <1>6. Entry(t, v) = pt[v] /\ Entry(r, v) = pt[v]
    BY <1>5 DEF Entry
  <1>. QED BY <1>4, <1>5, <1>6 DEF r

(* One byte: the fetch faults where the table says so, and else gives the  *)
(* byte that memory holds                                                  *)
LEMMA FetchIs ==
    ASSUME Sizes, TypeC, NEW s, Good(s), ~s.fault, NEW v \in Pages, NEW o \in Offs
    PROVE  LET r == fetch_at(s, v, o)
           IN  /\ Good(r)
               /\ r.fault <=> Denied(pt[v])
               /\ ~r.fault => r.bytes = Append(s.bytes, pm[pt[v].ppn][o])
  <1>. DEFINE b(p) == pm[p][o]
  <1>1. \A p \in Pages : b(p) \in {1, 2}
    BY DEF TypeC
  <1>2. pt[v] \in Pte /\ pt[v].ppn \in Pages
    BY DEF TypeC, Pte
  <1>3. s \in Fetching
    BY DEF Good
  <1>4. CASE v = s.ftag
    <2>. DEFINE r == [s EXCEPT !.bytes = Append(@, b(s.fppn))]
    <2>1. fetch_at(s, v, o) = r
      BY <1>4 DEF fetch_at
    <2>2. s.ftag # None
      BY <1>4 DEF None, Pages
    <2>3. s.fppn = pt[v].ppn /\ ~Denied(pt[v])
      BY <1>4, <2>2 DEF Good
    <2>4. Append(s.bytes, b(s.fppn)) \in Seq({1, 2})
      BY <1>1, <1>3 DEF Fetching
    <2>5. /\ r \in Fetching /\ r.tlb = s.tlb /\ r.ftag = s.ftag /\ r.fppn = s.fppn /\ r.fault = s.fault
          /\ r.bytes = Append(s.bytes, b(s.fppn))
      BY ZenonT(30), <1>3, <2>4 DEF Fetching
    <2>. HIDE DEF r
    <2>6. Good(r)
      BY <2>5 DEF Good
    <2>. QED BY <2>1, <2>3, <2>5, <2>6
  <1>5. CASE v # s.ftag /\ Denied(pt[v])
    <2>. DEFINE r == [s EXCEPT !.fault = TRUE]
    <2>1. Entry(s.tlb, v) = pt[v]
      BY <1>3, TranslateGood DEF Good, Fetching
    <2>2. fetch_at(s, v, o) = r
      BY <1>5, <2>1 DEF fetch_at, fetch_slow
    <2>3. r \in Fetching /\ r.tlb = s.tlb /\ r.ftag = s.ftag /\ r.fppn = s.fppn /\ r.fault
      BY ZenonT(30), <1>3 DEF Fetching
    <2>. HIDE DEF r
    <2>4. Good(r)
      BY <2>3 DEF Good
    <2>. QED BY <1>5, <2>2, <2>3, <2>4
  <1>6. CASE v # s.ftag /\ ~Denied(pt[v])
    <2>. DEFINE t == pg_translate(s.tlb, v)
                p == Entry(t, v).ppn
                r == [s EXCEPT !.tlb = t, !.ftag = v, !.fppn = p, !.bytes = Append(@, b(p))]
    <2>1. /\ Entry(s.tlb, v) = pt[v] /\ Entry(t, v) = pt[v] /\ t \in [Pages -> Slot]
          /\ \A x \in Pages : t[x].gen <= tlb_gen /\ (t[x].gen = tlb_gen => t[x].pte = pt[x])
      BY <1>3, TranslateGood DEF Good, Fetching
    <2>2. fetch_at(s, v, o) = r
      BY <1>6, <2>1 DEF fetch_at, fetch_slow
    <2>3. p = pt[v].ppn
      BY <2>1
    <2>. HIDE DEF t, p
    <2>4. Append(s.bytes, b(p)) \in Seq({1, 2})
      BY <1>1, <1>2, <1>3, <2>3 DEF Fetching
    <2>5. /\ r \in Fetching /\ r.tlb = t /\ r.ftag = v /\ r.fppn = p /\ r.fault = s.fault
          /\ r.bytes = Append(s.bytes, b(p))
      BY ZenonT(30), <1>2, <1>3, <2>1, <2>3, <2>4 DEF Fetching
    <2>. HIDE DEF r
    <2>6. Good(r)
      BY <1>6, <2>1, <2>3, <2>5 DEF Good
    <2>. QED BY <1>6, <2>2, <2>3, <2>5, <2>6
  <1>. QED BY <1>4, <1>5, <1>6

(* A whole instruction, as the reference has it                            *)
LEMMA DecodeIs ==
    ASSUME Sizes, Inv, NEW v \in Pages, NEW o \in Offs
    PROVE  LET r == decode(Fetch0, v, o)
           IN  /\ Good(r)
               /\ (IF r.fault THEN Fault ELSE r.bytes) = Truth(v, o)
               /\ ~r.fault => r.bytes \in Insn
  <1>. DEFINE a == fetch_at(Fetch0, v, o)
              w == (v + (o + 1) \div PAGE) % 2
              p == (o + 1) % PAGE
              z == fetch_at(a, w, p)
              b == pm[pt[v].ppn][o]
              c == pm[pt[w].ppn][p]
  <1>1. TypeC
    BY DEF Inv
  <1>2. Fetch0 \in Fetching /\ ~Fetch0.fault /\ Fetch0.bytes = << >>
    BY <1>1 DEF TypeC, Fetch0, Fetching
  <1>3. Good(Fetch0)
    BY <1>2 DEF Good, Fetch0, Inv, NotAhead, TranslatesNow, LastPage
  <1>4. Good(a) /\ (a.fault <=> Denied(pt[v])) /\ (~a.fault => a.bytes = Append(<< >>, b))
    BY <1>1, <1>2, <1>3, FetchIs
  <1>5. w \in Pages /\ p \in Offs
    <2>1. (o + 1) \div PAGE \in Int /\ v \in Int /\ p \in Offs
      BY DEF Offs, Pages, Sizes
    <2>. QED BY <2>1 DEF Pages
  <1>6. b \in {1, 2} /\ c \in {1, 2}
    <2>1. pt[v].ppn \in Pages /\ pt[w].ppn \in Pages
      BY <1>1, <1>5 DEF TypeC, Pte
    <2>. QED BY <1>1, <1>5, <2>1 DEF TypeC
  <1>7. Truth(v, o) = IF Denied(pt[v]) \/ (b = 2 /\ Denied(pt[w])) THEN Fault
                      ELSE IF b = 1 THEN <<1>> ELSE <<2, c>>
    BY DEF Truth
  <1>8. decode(Fetch0, v, o) = IF a.fault \/ a.bytes[1] = 1 THEN a ELSE z
    BY DEF decode
  <1>9. ~a.fault => Good(z) /\ (z.fault <=> Denied(pt[w])) /\ (~z.fault => z.bytes = Append(a.bytes, c))
    BY <1>1, <1>4, <1>5, FetchIs
  <1>. HIDE DEF a, w, p, z, b, c
  <1>10. CASE a.fault
    BY <1>4, <1>7, <1>8, <1>10
  <1>11. CASE ~a.fault
    <2>1. a.bytes = <<b>> /\ a.bytes[1] = b
      BY <1>4, <1>11
    <2>2. CASE b = 1
      BY <1>4, <1>7, <1>8, <1>11, <2>1, <2>2 DEF Insn
    <2>3. CASE b = 2
      <3>1. decode(Fetch0, v, o) = z
        BY <1>8, <1>11, <2>1, <2>3
      <3>2. ~z.fault => z.bytes = <<2, c>>
        BY <1>9, <1>11, <2>1, <2>3
      <3>3. <<2, c>> \in Insn
        BY <1>6 DEF Insn
      <3>. QED BY <1>4, <1>7, <1>9, <1>11, <2>3, <3>1, <3>2, <3>3
    <2>. QED BY <1>6, <2>2, <2>3
  <1>. QED BY <1>10, <1>11

(* What is kept decoded is the whole instruction that memory holds there   *)
KeptAt(d, m, o) == d # << >> => o + Len(d) <= PAGE /\ \A i \in 1 .. Len(d) : d[i] = m[o + i - 1]

(* An instruction kept decoded, for either length                          *)
LEMMA KeptIs ==
    ASSUME Sizes, NEW d \in Insn, NEW m \in [Offs -> {1, 2}], NEW o \in Offs
    PROVE  KeptAt(d, m, o) <=> \/ d = <<1>> /\ m[o] = 1
                               \/ o + 2 <= PAGE /\ d = <<2, m[o + 1]>> /\ m[o] = 2
  <1>1. CASE d = <<1>>
    <2>1. Len(d) = 1 /\ d[1] = 1 /\ d # << >> /\ o + 1 <= PAGE /\ o \in Int
      BY <1>1 DEF Offs, Sizes
    <2>2. KeptAt(d, m, o) <=> d[1] = m[o]
      BY <2>1 DEF KeptAt
    <2>3. \A x : d # <<2, x>>
      BY <1>1
    <2>. QED BY <1>1, <2>1, <2>2, <2>3
  <1>2. ASSUME NEW x \in {1, 2}, d = <<2, x>>
        PROVE  KeptAt(d, m, o) <=> \/ d = <<1>> /\ m[o] = 1
                                   \/ o + 2 <= PAGE /\ d = <<2, m[o + 1]>> /\ m[o] = 2
    <2>1. Len(d) = 2 /\ d[1] = 2 /\ d[2] = x /\ d # << >> /\ d # <<1>> /\ o \in Int
      BY <1>2 DEF Offs
    <2>2. 1 .. 2 = {1, 2}
      OBVIOUS
    <2>3. KeptAt(d, m, o) <=> o + 2 <= PAGE /\ d[1] = m[o] /\ d[2] = m[o + 1]
      BY <2>1, <2>2 DEF KeptAt
    <2>. QED BY <1>2, <2>1, <2>3
  <1>. QED BY <1>1, <1>2 DEF Insn

(* DecodedNow, by what is kept for one place                               *)
LEMMA DecodedIs == DecodedNow <=> \A p \in Pages, o \in Offs : KeptAt(dc[p][o], pm[p], o)
  BY DEF DecodedNow, KeptAt

(* An instruction that cannot cross into the next page, as memory has it   *)
LEMMA TruthInPage ==
    ASSUME Sizes, TypeC, NEW v \in Pages, NEW o \in Offs, o + 2 <= PAGE, ~Denied(pt[v]),
           NEW d \in Insn
    PROVE  Truth(v, o) = d <=> KeptAt(d, pm[pt[v].ppn], o)
  <1>. DEFINE m == pm[pt[v].ppn]
  <1>1. o + 1 \in Nat /\ o + 1 < PAGE /\ PAGE \in Nat /\ o \in Int /\ o + 1 \in Offs
    BY DEF Offs, Sizes
  <1>2. (o + 1) \div PAGE = 0 /\ (o + 1) % PAGE = o + 1
    BY <1>1, Below
  <1>3. (v + 0) % 2 = v
    BY DEF Pages
  <1>4. m \in [Offs -> {1, 2}]
    BY DEF TypeC, Pte
  <1>5. Truth(v, o) = IF m[o] = 1 THEN <<1>> ELSE <<2, m[o + 1]>>
    BY <1>2, <1>3 DEF Truth
  <1>6. m[o] \in {1, 2}
    BY <1>4
  <1>. HIDE DEF m
  <1>7. Truth(v, o) = d <=> \/ d = <<1>> /\ m[o] = 1
                            \/ o + 2 <= PAGE /\ d = <<2, m[o + 1]>> /\ m[o] = 2
    <2>1. CASE m[o] = 1
      BY <1>5, <2>1
    <2>2. CASE m[o] = 2
      <3>1. Truth(v, o) = <<2, m[o + 1]>> /\ m[o] # 1
        BY <1>5, <2>2
      <3>. QED BY <2>2, <3>1
    <2>. QED BY <1>6, <2>1, <2>2
  <1>8. KeptAt(d, m, o) <=> \/ d = <<1>> /\ m[o] = 1
                            \/ o + 2 <= PAGE /\ d = <<2, m[o + 1]>> /\ m[o] = 2
    BY <1>4, KeptIs
  <1>. QED BY <1>7, <1>8 DEF m

(***************************************************************************)
(* Steps                                                                   *)
(***************************************************************************)
LEMMA ExecuteStep ==
    ASSUME Sizes, Inv, Execute
    PROVE  Inv'
  <1>1. PICK v \in Pages, o \in Offs : step_one(v, o) /\ UNCHANGED <<pm, pt, tlb_gen, dc_on>>
    BY DEF Execute
  <1>. DEFINE hit  == cacheable(v, o) /\ dc[fppn][o] # << >>
              held == [Fetch0 EXCEPT !.bytes = dc[fppn][o]]
              s    == IF hit THEN held ELSE decode(Fetch0, v, o)
              keep == cacheable(v, o) /\ ~s.fault
  <1>2. /\ tlb' = s.tlb /\ fppn' = s.fppn
        /\ ftag' = IF s.fault THEN None ELSE s.ftag
        /\ user' = (user /\ ~s.fault)
        /\ dc' = IF keep THEN [dc EXCEPT ![fppn][o] = s.bytes] ELSE dc
        /\ agrees' = ((IF s.fault THEN Fault ELSE s.bytes) = Truth(v, o))
    BY <1>1 DEF step_one
  <1>3. TypeC
    BY DEF Inv
  <1>4. cacheable(v, o) => v = ftag /\ ftag # None /\ fppn = pt[v].ppn /\ ~Denied(pt[v]) /\ o + 2 <= PAGE
    BY DEF cacheable, Inv, LastPage, None, Pages, Offs, Sizes
  <1>5. Good(s) /\ (IF s.fault THEN Fault ELSE s.bytes) = Truth(v, o) /\ (~s.fault => s.bytes \in Insn)
    <2>1. CASE hit
      <3>1. dc[fppn][o] \in Insn
        BY <1>3, <2>1 DEF TypeC
      <3>2. dc[fppn][o] \in Seq({1, 2})
        <4>1. <<1>> \in Seq({1, 2}) /\ <<2, 1>> \in Seq({1, 2}) /\ <<2, 2>> \in Seq({1, 2})
          OBVIOUS
        <4>. QED BY ZenonT(30), <3>1, <4>1 DEF Insn
      <3>3. /\ Fetch0 \in Fetching /\ Fetch0.tlb = tlb /\ Fetch0.ftag = ftag /\ Fetch0.fppn = fppn /\ ~Fetch0.fault
        BY <1>3 DEF TypeC, Fetch0, Fetching
      <3>4. /\ held \in Fetching /\ held.tlb = tlb /\ held.ftag = ftag /\ held.fppn = fppn /\ ~held.fault
            /\ held.bytes = dc[fppn][o]
        BY <3>2, <3>3 DEF Fetching
      <3>. HIDE DEF held
      <3>5. Good(held)
        BY <3>4 DEF Good, Inv, NotAhead, TranslatesNow, LastPage
      <3>6. KeptAt(dc[fppn][o], pm[fppn], o)
        BY <1>3, DecodedIs DEF Inv, TypeC
      <3>7. Truth(v, o) = dc[fppn][o]
        BY <1>3, <1>4, <2>1, <3>1, <3>6, TruthInPage
      <3>8. s = held
        BY <2>1
      <3>. QED BY <3>1, <3>4, <3>5, <3>7, <3>8
    <2>2. CASE ~hit
      <3>1. s = decode(Fetch0, v, o)
        BY <2>2
      <3>. QED BY ZenonT(30), <3>1, DecodeIs
    <2>. QED BY <2>1, <2>2
  <1>. HIDE DEF s
  <1>6. s \in Fetching
    BY <1>5 DEF Good
  <1>7. /\ s.tlb \in [Pages -> Slot] /\ s.ftag \in Pages \cup {None} /\ s.fppn \in Pages /\ s.fault \in BOOLEAN
    BY <1>6 DEF Fetching
  <1>8. keep => s.bytes \in Insn /\ KeptAt(s.bytes, pm[fppn], o)
    BY <1>3, <1>4, <1>5, TruthInPage
  <1>. HIDE DEF keep
  <1>9. /\ dc' \in [Pages -> [Offs -> Insn \cup {<< >>}]]
        /\ \A p \in Pages, x \in Offs : dc'[p][x] = IF keep /\ p = fppn /\ x = o THEN s.bytes ELSE dc[p][x]
    <2>1. CASE keep
      <3>1. dc' = [dc EXCEPT ![fppn] = [dc[fppn] EXCEPT ![o] = s.bytes]]
        BY <1>2, <2>1
      <3>2. dc[fppn] \in [Offs -> Insn \cup {<< >>}] /\ fppn \in Pages
        BY <1>3 DEF TypeC
      <3>3. [dc[fppn] EXCEPT ![o] = s.bytes] \in [Offs -> Insn \cup {<< >>}]
        BY <1>8, <2>1, <3>2
      <3>. QED BY <1>3, <2>1, <3>1, <3>2, <3>3 DEF TypeC
    <2>2. CASE ~keep
      BY <1>2, <1>3, <2>2 DEF TypeC
    <2>. QED BY <2>1, <2>2
  <1>10. TypeC'
    <2>1. ftag' \in Pages \cup {None} /\ user' \in BOOLEAN
      BY <1>2, <1>7
    <2>. QED BY <1>1, <1>2, <1>3, <1>7, <1>9, <2>1 DEF TypeC
  <1>11. NotAhead' /\ TranslatesNow'
    BY <1>1, <1>2, <1>5 DEF Good, NotAhead, TranslatesNow
  <1>12. LastPage'
    BY <1>1, <1>2, <1>5, <1>7 DEF Good, LastPage, Denied
  <1>13. DecodedNow'
    <2>1. \A p \in Pages, x \in Offs : KeptAt(dc[p][x], pm[p], x)
      BY DecodedIs DEF Inv
    <2>2. \A p \in Pages, x \in Offs : KeptAt(dc'[p][x], pm[p], x)
      BY <1>8, <1>9, <2>1
    <2>. QED BY <1>1, <2>2 DEF DecodedNow, KeptAt
  <1>14. ExecutesMemory'
    BY ZenonT(30), <1>2, <1>5 DEF ExecutesMemory
  <1>. QED BY <1>10, <1>11, <1>12, <1>13, <1>14 DEF Inv

(* A step that writes memory and forgets what was decoded of those pages   *)
LEMMA WrittenKeeps ==
    ASSUME Sizes, Inv, NEW ps, pm' \in [Pages -> [Offs -> {1, 2}]],
           \A p \in Pages \ ps : pm'[p] = pm[p],
           cpu_mem_written(ps),
           UNCHANGED <<pt, tlb, tlb_gen, ftag, fppn, user, agrees>>
    PROVE  Inv'
  <1>1. NoDecoded \in [Offs -> Insn \cup {<< >>}] /\ \A o \in Offs : NoDecoded[o] = << >>
    BY DEF NoDecoded
  <1>2. /\ dc' \in [Pages -> [Offs -> Insn \cup {<< >>}]]
        /\ \A p \in Pages : dc'[p] = IF p \in ps THEN NoDecoded ELSE dc[p]
    BY <1>1 DEF cpu_mem_written, Inv, TypeC
  <1>3. TypeC'
    BY <1>2 DEF Inv, TypeC
  <1>4. DecodedNow'
    <2>1. \A p \in Pages, o \in Offs : KeptAt(dc[p][o], pm[p], o)
      BY DecodedIs DEF Inv
    <2>2. \A p \in Pages, o \in Offs : KeptAt(dc'[p][o], pm'[p], o)
      <3>. TAKE p \in Pages, o \in Offs
      <3>1. CASE p \in ps
        BY <1>1, <1>2, <3>1 DEF KeptAt
      <3>2. CASE p \notin ps
        BY <1>2, <2>1, <3>2
      <3>. QED BY <3>1, <3>2
    <2>. QED BY <2>2 DEF DecodedNow, KeptAt
  <1>5. (NotAhead /\ TranslatesNow /\ LastPage /\ ExecutesMemory)'
    BY DEF Inv, NotAhead, TranslatesNow, LastPage, Denied, ExecutesMemory
  <1>. QED BY <1>3, <1>4, <1>5 DEF Inv

(* A store drops what was decoded of the bytes it changes                  *)
LEMMA StoreStep ==
    ASSUME Sizes, Inv, Store
    PROVE  Inv'
  <1>1. PICK p \in Pages, o \in Offs, n \in 1 .. 2, b \in 1 .. 2 :
            /\ (p * PAGE) + o + n <= 2 * PAGE
            /\ phys_write(p, o, n, b)
            /\ UNCHANGED <<pt, tlb, tlb_gen, ftag, fppn, dc_on, user, agrees>>
    BY DEF Store
  <1>2. b \in {1, 2} /\ pm \in [Pages -> [Offs -> {1, 2}]] /\ PAGE \in Nat
    BY DEF Inv, TypeC, Sizes
  <1>. DEFINE In(x, y) == ((x - p) * PAGE) + y - o \in 0 .. n - 1
  <1>3. pm' = [x \in Pages |-> [y \in Offs |-> IF In(x, y) THEN b ELSE pm[x][y]]]
    BY <1>1 DEF phys_write
  <1>4. ASSUME NEW x \in Pages \ touches(p, o, n), NEW y \in Offs
        PROVE  ~In(x, y)
    <2>1. o \in Int /\ y \in Int /\ 0 <= o /\ o < PAGE /\ 0 <= y /\ y < PAGE /\ x # p
      BY <1>2 DEF Offs, touches
    <2>2. CASE p = 1 /\ x = 0
      BY <1>2, <2>1, <2>2
    <2>3. CASE p = 0 /\ x = 1
      <3>1. SUFFICES ASSUME In(x, y)
                     PROVE  FALSE
        OBVIOUS
      <3>2. PAGE <= o + n - 1 /\ o + n - 1 < 2 * PAGE /\ o + n - 1 \in Nat
        BY <1>1, <1>2, <2>1, <2>3, <3>1
      <3>3. (o + n - 1) \div PAGE = 1
        BY <1>2, <3>2, Beyond
      <3>. QED BY <2>3, <3>3 DEF touches
    <2>. QED BY <2>1, <2>2, <2>3 DEF Pages
  <1>. HIDE DEF In
  <1>5. pm' \in [Pages -> [Offs -> {1, 2}]]
    BY <1>2, <1>3
  <1>6. \A x \in Pages \ touches(p, o, n) : pm'[x] = pm[x]
    <2>. TAKE x \in Pages \ touches(p, o, n)
    <2>1. pm'[x] = [y \in Offs |-> IF In(x, y) THEN b ELSE pm[x][y]]
      BY <1>3
    <2>2. \A y \in Offs : ~In(x, y)
      BY <1>4
    <2>3. pm[x] \in [Offs -> {1, 2}]
      BY <1>2
    <2>. QED BY <2>1, <2>2, <2>3
  <1>7. cpu_mem_written(touches(p, o, n))
    BY <1>1 DEF phys_write
  <1>. QED BY <1>1, <1>5, <1>6, <1>7, WrittenKeeps

(* So do a transfer of a device and a write of the debugger                *)
LEMMA DeviceStep ==
    ASSUME Sizes, Inv, Transfer \/ mem_poke
    PROVE  Inv'
  <1>1. pm \in [Pages -> [Offs -> {1, 2}]] /\ \A v \in Pages : pt[v].ppn \in Pages
    BY DEF Inv, TypeC, Pte
  <1>2. CASE Transfer
    <2>1. PICK p \in Pages, b \in 1 .. 2 : /\ pm' = [pm EXCEPT ![p] = [o \in Offs |-> b]]
                                           /\ cpu_mem_written({p})
                                           /\ UNCHANGED <<pt, tlb, tlb_gen, ftag, fppn, dc_on, user, agrees>>
      BY ZenonT(30), <1>2 DEF Transfer
    <2>2. [o \in Offs |-> b] \in [Offs -> {1, 2}]
      OBVIOUS
    <2>3. pm' \in [Pages -> [Offs -> {1, 2}]] /\ \A x \in Pages \ {p} : pm'[x] = pm[x]
      BY <1>1, <2>1, <2>2
    <2>. QED BY <2>1, <2>3, WrittenKeeps
  <1>3. CASE mem_poke
    <2>1. PICK v \in Pages, o \in Offs, b \in 1 .. 2 :
              /\ pm' = [pm EXCEPT ![pt[v].ppn][o] = b]
              /\ cpu_mem_written({pt[v].ppn})
              /\ UNCHANGED <<pt, tlb, tlb_gen, ftag, fppn, dc_on, user, agrees>>
      BY ZenonT(30), <1>3 DEF mem_poke
    <2>. PICK p \in Pages : p = pt[v].ppn
      BY <1>1
    <2>2. [pm[p] EXCEPT ![o] = b] \in [Offs -> {1, 2}] /\ b \in {1, 2}
      BY <1>1
    <2>3. pm' = [pm EXCEPT ![p] = [pm[p] EXCEPT ![o] = b]]
      BY <2>1
    <2>4. pm' \in [Pages -> [Offs -> {1, 2}]] /\ \A x \in Pages \ {p} : pm'[x] = pm[x]
      BY <1>1, <2>2, <2>3
    <2>. QED BY <2>1, <2>4, WrittenKeeps
  <1>. QED BY <1>2, <1>3

(* A data access only takes over the entry of its page                     *)
LEMMA AccessStep ==
    ASSUME Sizes, Inv, Access
    PROVE  Inv'
  <1>1. PICK v \in Pages : tlb' = pg_translate(tlb, v) /\ UNCHANGED <<pm, pt, tlb_gen, ftag, fppn, dc, dc_on, user, agrees>>
    BY DEF Access
  <1>2. /\ tlb' \in [Pages -> Slot]
        /\ \A x \in Pages : tlb'[x].gen <= tlb_gen /\ (tlb'[x].gen = tlb_gen => tlb'[x].pte = pt[x])
    BY <1>1, TranslateGood DEF Inv, TypeC, NotAhead, TranslatesNow
  <1>3. (NotAhead /\ TranslatesNow)'
    BY <1>1, <1>2 DEF NotAhead, TranslatesNow
  <1>4. (TypeC /\ LastPage /\ DecodedNow /\ ExecutesMemory)'
    BY <1>1, <1>2 DEF Inv, TypeC, LastPage, Denied, DecodedNow, ExecutesMemory
  <1>. QED BY <1>3, <1>4 DEF Inv

(* A step that changes the table, makes every slot that could be stale an  *)
(* old one and forgets the page of the last instruction                    *)
LEMMA TableKeeps ==
    ASSUME Sizes, Inv, pt' \in [Pages -> Pte], tlb' \in [Pages -> Slot], tlb_gen' \in 1 .. GENS - 1,
           \A v \in Pages : tlb'[v].gen <= tlb_gen' /\ (tlb'[v].gen = tlb_gen' => tlb'[v].pte = pt'[v]),
           ftag' = None, UNCHANGED <<pm, fppn, dc, user, agrees>>
    PROVE  Inv'
  <1>1. (NotAhead /\ TranslatesNow /\ LastPage)'
    BY DEF NotAhead, TranslatesNow, LastPage
  <1>2. (TypeC /\ DecodedNow /\ ExecutesMemory)'
    BY DEF Inv, TypeC, DecodedNow, ExecutesMemory
  <1>. QED BY <1>1, <1>2 DEF Inv

(* A change of the table comes with the flush of that page                 *)
LEMMA RemapStep ==
    ASSUME Sizes, Inv, Remap
    PROVE  Inv'
  <1>1. PICK v \in Pages, e \in Ptes : /\ pt' = [pt EXCEPT ![v] = e]
                                       /\ tlb' = [tlb EXCEPT ![v].gen = 0] /\ ftag' = None
                                       /\ UNCHANGED <<pm, tlb_gen, fppn, dc, dc_on, user, agrees>>
    BY ZenonT(30) DEF Remap, cpu_invlpg
  <1>. DEFINE new == [tlb[v] EXCEPT !.gen = 0]
  <1>2. tlb[v] \in Slot /\ tlb \in [Pages -> Slot] /\ pt \in [Pages -> Pte] /\ tlb_gen \in 1 .. GENS - 1
    BY DEF Inv, TypeC
  <1>3. new \in Slot /\ new.gen = 0
    BY <1>2 DEF Slot, Sizes
  <1>4. tlb' = [tlb EXCEPT ![v] = new]
    BY <1>1
  <1>. HIDE DEF new
  <1>5. pt' \in [Pages -> Pte] /\ tlb' \in [Pages -> Slot]
    BY <1>1, <1>2, <1>3, <1>4 DEF Sizes
  <1>6. \A x \in Pages : tlb'[x].gen <= tlb_gen /\ (tlb'[x].gen = tlb_gen => tlb'[x].pte = pt'[x])
    <2>. TAKE x \in Pages
    <2>1. CASE x = v
      BY <1>2, <1>3, <1>4, <2>1
    <2>2. CASE x # v
      BY <1>1, <1>2, <1>4, <2>2 DEF Inv, NotAhead, TranslatesNow
    <2>. QED BY <2>1, <2>2
  <1>. QED BY <1>1, <1>2, <1>5, <1>6, TableKeeps

(* No slot has the generation that a flush begins                          *)
LEMMA SwitchStep ==
    ASSUME Sizes, Inv, Switch
    PROVE  Inv'
  <1>1. PICK e \in Ptes, f \in Ptes :
            /\ pt' = [v \in Pages |-> IF v = 0 THEN e ELSE f]
            /\ tlb_gen' = next_gen(tlb_gen, tlb)[1] /\ tlb' = next_gen(tlb_gen, tlb)[2] /\ ftag' = None
            /\ UNCHANGED <<pm, fppn, dc, dc_on, user, agrees>>
    BY DEF Switch, cpu_flush_tlb
  <1>2. tlb \in [Pages -> Slot] /\ tlb_gen \in 1 .. GENS - 1 /\ GENS \in Nat
    BY DEF Inv, TypeC, Sizes
  <1>3. \A v \in Pages : tlb[v] \in Slot /\ tlb[v].gen \in 0 .. GENS - 1 /\ tlb[v].gen <= tlb_gen
    BY <1>2 DEF Inv, NotAhead, Slot
  <1>4. /\ tlb' \in [Pages -> Slot] /\ tlb_gen' \in 1 .. GENS - 1
        /\ \A v \in Pages : tlb'[v].gen < tlb_gen'
    <2>1. CASE (tlb_gen + 1) % GENS = 0
      <3>1. tlb_gen' = 1 /\ tlb' = [v \in Pages |-> [tlb[v] EXCEPT !.gen = 0]]
        BY <1>1, <2>1 DEF next_gen
      <3>2. \A v \in Pages : [tlb[v] EXCEPT !.gen = 0] \in Slot /\ [tlb[v] EXCEPT !.gen = 0].gen = 0
        BY <1>2, <1>3 DEF Slot, Sizes
      <3>. DEFINE old(v) == [tlb[v] EXCEPT !.gen = 0]
      <3>3. tlb' = [v \in Pages |-> old(v)] /\ \A v \in Pages : old(v) \in Slot /\ old(v).gen = 0
        BY <3>1, <3>2
      <3>. HIDE DEF old
      <3>4. tlb' \in [Pages -> Slot] /\ \A v \in Pages : tlb'[v].gen = 0
        BY <3>3
      <3>5. 1 \in 1 .. GENS - 1 /\ 0 < 1
        BY DEF Sizes
      <3>. QED BY <3>1, <3>4, <3>5
    <2>2. CASE (tlb_gen + 1) % GENS # 0
      <3>1. tlb_gen' = tlb_gen + 1 /\ tlb' = tlb
        BY <1>1, <2>2 DEF next_gen
      <3>2. tlb_gen + 1 # GENS
        BY <1>2, <2>2
      <3>3. tlb_gen + 1 \in 1 .. GENS - 1 /\ \A g \in 0 .. GENS - 1 : g <= tlb_gen => g < tlb_gen + 1
        BY <1>2, <3>2
      <3>. QED BY <1>2, <1>3, <3>1, <3>3
    <2>. QED BY <2>1, <2>2
  <1>5. pt' \in [Pages -> Pte]
    BY <1>1 DEF Sizes
  <1>6. \A v \in Pages : tlb'[v].gen <= tlb_gen' /\ tlb'[v].gen # tlb_gen'
    <2>. TAKE v \in Pages
    <2>1. tlb'[v].gen \in Int /\ tlb_gen' \in Int
      BY <1>4 DEF Slot
    <2>. QED BY <1>4, <2>1
  <1>. QED BY <1>1, <1>4, <1>5, <1>6, TableKeeps

(* A change of mode forgets the page that was fetched from                 *)
LEMMA ModeStep ==
    ASSUME Inv, Mode
    PROVE  Inv'
  BY DEF Mode, fetch_inval, Inv, TypeC, NotAhead, TranslatesNow, LastPage, DecodedNow, ExecutesMemory

(* Switching the cache of decoded instructions off and on empties it       *)
LEMMA SetStep ==
    ASSUME Inv, cpu_set_dcache
    PROVE  Inv'
  <1>1. NoDecoded \in [Offs -> Insn \cup {<< >>}] /\ \A o \in Offs : NoDecoded[o] = << >>
    BY DEF NoDecoded
  <1>2. dc' \in [Pages -> [Offs -> Insn \cup {<< >>}]] /\ \A p \in Pages, o \in Offs : dc'[p][o] = << >>
    BY <1>1 DEF cpu_set_dcache
  <1>3. (TypeC /\ NotAhead /\ TranslatesNow /\ LastPage /\ ExecutesMemory)'
    BY <1>2 DEF cpu_set_dcache, Inv, TypeC, NotAhead, TranslatesNow, LastPage, Denied, ExecutesMemory
  <1>4. DecodedNow'
    BY <1>2 DEF DecodedNow
  <1>. QED BY <1>3, <1>4 DEF Inv

(* The invariant of the caches holds always                                *)
LEMMA InvAlways ==
    ASSUME Sizes
    PROVE  CSpec => []Inv
  <1>1. CInit => Inv
    <2>. SUFFICES ASSUME CInit PROVE Inv
      OBVIOUS
    <2>1. pt \in [Pages -> Pte] /\ pm \in [Pages -> [Offs -> {1, 2}]]
      BY DEF CInit, Sizes
    <2>2. \A v \in Pages : [gen |-> 0, pte |-> pt[v]] \in Slot /\ [gen |-> 0, pte |-> pt[v]].gen = 0
      BY <2>1 DEF Slot, Sizes
    <2>3. tlb \in [Pages -> Slot] /\ (\A v \in Pages : tlb[v].gen = 0) /\ tlb_gen = 1
      BY <2>2 DEF CInit
    <2>4. NoDecoded \in [Offs -> Insn \cup {<< >>}] /\ \A o \in Offs : NoDecoded[o] = << >>
      BY DEF NoDecoded
    <2>5. dc \in [Pages -> [Offs -> Insn \cup {<< >>}]] /\ \A p \in Pages, o \in Offs : dc[p][o] = << >>
      BY <2>4 DEF CInit
    <2>6. TypeC
      <3>1. ftag = None /\ fppn \in Pages /\ user \in BOOLEAN
        BY ZenonT(30) DEF CInit, Pages
      <3>2. 1 \in 1 .. GENS - 1
        BY DEF Sizes
      <3>. QED BY <2>1, <2>3, <2>5, <3>1, <3>2 DEF TypeC
    <2>7. NotAhead /\ TranslatesNow
      BY <2>3 DEF NotAhead, TranslatesNow
    <2>8. LastPage /\ DecodedNow /\ ExecutesMemory
      BY <2>5 DEF CInit, LastPage, DecodedNow, ExecutesMemory
    <2>. QED BY <2>6, <2>7, <2>8 DEF Inv
  <1>2. Inv /\ [CNext]_<<pm, pt, tlb, tlb_gen, ftag, fppn, dc, dc_on, user, agrees>> => Inv'
    <2>. SUFFICES ASSUME Inv, [CNext]_<<pm, pt, tlb, tlb_gen, ftag, fppn, dc, dc_on, user, agrees>>
                  PROVE  Inv'
      OBVIOUS
    <2>1. CASE UNCHANGED <<pm, pt, tlb, tlb_gen, ftag, fppn, dc, dc_on, user, agrees>>
      BY <2>1 DEF Inv, TypeC, NotAhead, TranslatesNow, LastPage, Denied, DecodedNow, ExecutesMemory
    <2>. QED BY <2>1, ExecuteStep, StoreStep, DeviceStep, AccessStep, RemapStep, SwitchStep, ModeStep, SetStep DEF CNext
  <1>. QED BY <1>1, <1>2, PTL DEF CSpec

(* The caches are never seen, whatever the sizes and whatever was written, *)
(* remapped or transferred before: every instruction runs the bytes that   *)
(* memory holds under the page table of the moment, or faults where the    *)
(* table says so (step_one); a translation of the current generation is    *)
(* the page table's, for every period of the generation counter            *)
(* (cpu_flush_tlb, cpu_invlpg); and what is kept decoded is what memory    *)
(* holds, whoever wrote it (cpu_mem_written).                              *)
THEOREM CachesUnseen ==
    ASSUME Sizes
    PROVE  CSpec => []CachesInvisible
  <1>1. Inv => CachesInvisible
    BY DEF Inv, CachesInvisible
  <1>. QED BY <1>1, InvAlways, PTL
=============================================================================
