------------------------------- MODULE Caches --------------------------------
(***************************************************************************)
(* What the processor keeps to run faster (src/cpu.c): translations with a *)
(* generation number, the page the last instruction came from, and decoded *)
(* instructions by physical page.  Stores, transfers of devices, writes of *)
(* the debugger, changes of the page table with the flush they require and *)
(* changes of mode come in any order between the instructions.             *)
(*                                                                         *)
(* Memory has two physical pages of PAGE bytes under two virtual ones.  A  *)
(* byte is the length of the instruction that starts with it, 1 or 2.      *)
(***************************************************************************)
EXTENDS Integers, Sequences, FiniteSets

CONSTANTS PAGE, MAXLEN, GENS, Ptes

VARIABLES pm, pt, tlb, tlb_gen, ftag, fppn, dc, dc_on, user, agrees

Pages == {0, 1}
Offs  == 0 .. PAGE - 1
None  == -1
Fault == <<0>>
NoDecoded == [o \in Offs |-> <<>>]

Denied(e) == user /\ ~e.u

CInit ==
    /\ pm = [p \in Pages |-> [o \in Offs |-> 1]]
    /\ pt = [v \in Pages |-> [ppn |-> v, u |-> TRUE]]
    /\ tlb = [v \in Pages |-> [gen |-> 0, pte |-> pt[v]]]
    /\ tlb_gen = 1 /\ ftag = None /\ fppn = 0
    /\ dc = [p \in Pages |-> NoDecoded] /\ dc_on = TRUE
    /\ user = FALSE /\ agrees = TRUE

(***************************************************************************)
(* Translations                                                            *)
(***************************************************************************)
next_gen(g, t) ==
    IF (g + 1) % GENS = 0 THEN <<1, [v \in Pages |-> [t[v] EXCEPT !.gen = 0]]>> ELSE <<g + 1, t>>

(* A walk keeps the entry unless it faults; an entry kept is not walked    *)
pg_translate(t, v) == IF t[v].gen = tlb_gen \/ Denied(pt[v]) THEN t ELSE [t EXCEPT ![v] = [gen |-> tlb_gen, pte |-> pt[v]]]
Entry(t, v) == IF t[v].gen = tlb_gen THEN t[v].pte ELSE pt[v]

(***************************************************************************)
(* Fetching: s is [tlb, ftag, fppn, fault, bytes]; a fault ends it         *)
(***************************************************************************)
fetch_slow(s, v, o) ==
    IF Denied(Entry(s.tlb, v)) THEN [s EXCEPT !.fault = TRUE]
    ELSE LET t == pg_translate(s.tlb, v)
             p == Entry(t, v).ppn
         IN  [s EXCEPT !.tlb = t, !.ftag = v, !.fppn = p, !.bytes = Append(@, pm[p][o])]

fetch_at(s, v, o) ==
    IF s.fault THEN s
    ELSE IF v = s.ftag THEN [s EXCEPT !.bytes = Append(@, pm[s.fppn][o])]
    ELSE fetch_slow(s, v, o)

decode(s, v, o) ==
    LET a == fetch_at(s, v, o)
    IN  IF a.fault \/ a.bytes[1] = 1 THEN a
        ELSE fetch_at(a, (v + (o + 1) \div PAGE) % 2, (o + 1) % PAGE)

Fetch0 == [tlb |-> tlb, ftag |-> ftag, fppn |-> fppn, fault |-> FALSE, bytes |-> <<>>]

cacheable(v, o) == dc_on /\ v = ftag /\ o <= PAGE - MAXLEN

(* The reference: the page table walked and memory read for every byte     *)
Truth(v, o) ==
    LET w == (v + (o + 1) \div PAGE) % 2
        b == pm[pt[v].ppn][o]
    IN  IF Denied(pt[v]) \/ (b = 2 /\ Denied(pt[w])) THEN Fault
        ELSE IF b = 1 THEN <<1>> ELSE <<2, pm[pt[w].ppn][(o + 1) % PAGE]>>

(* A whole instruction; agrees says whether it ran what memory held        *)
step_one(v, o) ==
    LET hit  == cacheable(v, o) /\ dc[fppn][o] # <<>>
        s    == IF hit THEN [Fetch0 EXCEPT !.bytes = dc[fppn][o]] ELSE decode(Fetch0, v, o)
        keep == cacheable(v, o) /\ ~s.fault
    IN  /\ tlb' = s.tlb /\ fppn' = s.fppn
        /\ ftag' = IF s.fault THEN None ELSE s.ftag
        /\ user' = (user /\ ~s.fault)
        /\ dc' = IF keep THEN [dc EXCEPT ![fppn][o] = s.bytes] ELSE dc
        /\ agrees' = ((IF s.fault THEN Fault ELSE s.bytes) = Truth(v, o))

(***************************************************************************)
(* What forgets                                                            *)
(***************************************************************************)
cpu_mem_written(ps) == dc' = [p \in Pages |-> IF p \in ps THEN NoDecoded ELSE dc[p]]

touches(p, o, n) == {p, p + (o + n - 1) \div PAGE}

phys_write(p, o, n, b) ==
    /\ pm' = [x \in Pages |-> [y \in Offs |-> IF ((x - p) * PAGE) + y - o \in 0 .. n - 1 THEN b ELSE pm[x][y]]]
    /\ cpu_mem_written(touches(p, o, n))

cpu_flush_tlb == /\ tlb_gen' = next_gen(tlb_gen, tlb)[1] /\ tlb' = next_gen(tlb_gen, tlb)[2]
                 /\ ftag' = None

cpu_invlpg(v) == tlb' = [tlb EXCEPT ![v].gen = 0] /\ ftag' = None

(* Slip: the page of the last instruction outlives the mode                *)
staysThere == ftag

fetch_inval == None

(***************************************************************************)
(* Actions                                                                 *)
(***************************************************************************)
Execute == \E v \in Pages, o \in Offs : step_one(v, o) /\ UNCHANGED <<pm, pt, tlb_gen, dc_on>>

(* A store of n bytes at a physical address, through a page or not         *)
Store == \E p \in Pages, o \in Offs, n \in 1 .. 2, b \in 1 .. 2 :
    /\ (p * PAGE) + o + n <= 2 * PAGE
    /\ phys_write(p, o, n, b)
    /\ UNCHANGED <<pt, tlb, tlb_gen, ftag, fppn, dc_on, user, agrees>>

(* The disk or the network writes a buffer                                 *)
Transfer == \E p \in Pages, b \in 1 .. 2 :
    /\ pm' = [pm EXCEPT ![p] = [o \in Offs |-> b]]
    /\ cpu_mem_written({p})
    /\ UNCHANGED <<pt, tlb, tlb_gen, ftag, fppn, dc_on, user, agrees>>

(* The debugger writes a byte; it walks the table and asks for no right    *)
mem_poke == \E v \in Pages, o \in Offs, b \in 1 .. 2 :
    /\ pm' = [pm EXCEPT ![pt[v].ppn][o] = b]
    /\ cpu_mem_written({pt[v].ppn})
    /\ UNCHANGED <<pt, tlb, tlb_gen, ftag, fppn, dc_on, user, agrees>>

(* A load or a store keeps the translation it needed                       *)
Access == \E v \in Pages :
    /\ ~Denied(Entry(tlb, v))
    /\ tlb' = pg_translate(tlb, v)
    /\ UNCHANGED <<pm, pt, tlb_gen, ftag, fppn, dc, dc_on, user, agrees>>

(* The system changes an entry and invalidates the page                    *)
Remap == \E v \in Pages, e \in Ptes :
    /\ ~user /\ e # pt[v]
    /\ pt' = [pt EXCEPT ![v] = e]
    /\ cpu_invlpg(v)
    /\ UNCHANGED <<pm, tlb_gen, fppn, dc, dc_on, user, agrees>>

(* A write of PTBASE: another table                                        *)
Switch == \E e, f \in Ptes :
    /\ ~user
    /\ pt' = [v \in Pages |-> IF v = 0 THEN e ELSE f]
    /\ cpu_flush_tlb
    /\ UNCHANGED <<pm, fppn, dc, dc_on, user, agrees>>

(* A trap enters the supervisor, a return leaves it                        *)
Mode == user' = ~user /\ ftag' = fetch_inval /\ UNCHANGED <<pm, pt, tlb, tlb_gen, fppn, dc, dc_on, agrees>>

cpu_set_dcache ==
    /\ dc_on' = ~dc_on /\ dc' = [p \in Pages |-> NoDecoded]
    /\ UNCHANGED <<pm, pt, tlb, tlb_gen, ftag, fppn, user, agrees>>

CNext == Execute \/ Store \/ Transfer \/ mem_poke \/ Access \/ Remap \/ Switch \/ Mode \/ cpu_set_dcache

CSpec == CInit /\ [][CNext]_<<pm, pt, tlb, tlb_gen, ftag, fppn, dc, dc_on, user, agrees>>

(***************************************************************************)
(* Properties                                                              *)
(***************************************************************************)
(* Types of the caches' state.                                             *)

(* Every instruction runs the bytes memory holds under the page table of   *)
(* the moment, or faults where the table says so, whatever was written,    *)
(* remapped or transferred before (step_one, fetch_at): the caches change  *)
(* the speed and never the result, crossings of a page included.           *)
ExecutesMemory == agrees

(* A translation of the current generation is the page table's, also after *)
(* the generation counter has wrapped (cpu_flush_tlb, cpu_invlpg).         *)
TranslatesNow == \A v \in Pages : tlb[v].gen = tlb_gen => tlb[v].pte = pt[v]

(* What is kept decoded is what memory holds (cpu_mem_written).            *)
DecodedNow == \A p \in Pages, o \in Offs : LET d == dc[p][o] IN d # <<>> =>
    o + Len(d) <= PAGE /\ \A i \in 1 .. Len(d) : d[i] = pm[p][o + i - 1]

(* The caches change the speed and never the result: every instruction     *)
(* that ran was memory's, and what is kept is true now.                    *)
CachesInvisible == ExecutesMemory /\ TranslatesNow /\ DecodedNow
=============================================================================
