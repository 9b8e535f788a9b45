----------------------------------- MODULE Vm -----------------------------------
(***************************************************************************)
(* Process memory: page frames with reference counts, regions, demand      *)
(* zero, copy on write and the translations the processor keeps.           *)
(* src/os/kernel/mm.c, with exec_image and do_sbrk of proc.c, the page     *)
(* fault of trap.c and pg_translate of src/src/cpu.c.                      *)
(*                                                                         *)
(* An address is a page number below Space, and arithmetic on addresses    *)
(* wraps at Space as the code's wraps at 2^32.  The contents of a page are *)
(* one value.  Of the free frames the lowest is taken.                     *)
(***************************************************************************)
EXTENDS Integers, FiniteSets, Sequences, FiniteSetsExt

CONSTANTS
    NPROC, NFRAMES,
    Space,        \* pages of the address space
    USER_BASE,    \* first page of a process
    HeapStart,    \* end of the program's text and data
    MMAP_TOP,     \* mappings are placed downward from here
    STACK_LOW,    \* USER_STACK_TOP - USER_STACK_MAX
    STACK_TOP,    \* USER_STACK_TOP
    MaxMap,       \* longest mapping
    HeapLimit,    \* programs ask for no heap beyond this
    Addrs,        \* addresses given to munmap and to mmap with MAP_FIXED
    Touches,      \* pages that are accessed
    Accesses,     \* kinds of access: "r", "w", "x"
    Prots,        \* protections given to mmap: sets of "w" and "x"
    Shares,       \* TRUE for MAP_SHARED, FALSE for MAP_PRIVATE
    Failures,     \* allocations that may fail: "table", "region", "split"
    Calls         \* the operations this instance makes

ASSUME VmAssumption ==
    /\ {NPROC, NFRAMES, Space, USER_BASE, HeapStart, MMAP_TOP, STACK_LOW, STACK_TOP, MaxMap} \subseteq Nat
    /\ Touches \subseteq USER_BASE .. STACK_TOP - 1 /\ Addrs \subseteq Nat
    /\ 0 < USER_BASE /\ USER_BASE < HeapStart /\ HeapStart < MMAP_TOP
    /\ MMAP_TOP <= STACK_LOW /\ STACK_LOW < STACK_TOP /\ STACK_TOP < Space

Procs  == 1 .. NPROC
Frames == 1 .. NFRAMES
Pages  == 0 .. Space - 1
None   == 0
Zero   == 0
Image  == 1
Values == {0, 1, 2}

VARIABLES
    state,    \* of each process: "unused", "live" or "zombie"
    cur,      \* the process whose page directory is in CR3, or None
    fref,     \* references to each frame
    data,     \* contents of each frame
    pt,       \* page table of each process
    regions,  \* region list of each process, by start
    brk,      \* end of each heap
    tlb,      \* translations kept by the processor
    retry     \* the access each process repeats after a fault that was served

vars == <<state, cur, fref, data, pt, regions, brk, tlb, retry>>

NoPte   == [f |-> None, w |-> FALSE, x |-> FALSE, cow |-> FALSE]
EmptyPt == [a \in Pages |-> NoPte]
NoTlb   == EmptyPt
NoRetry == <<0, "none">>

Wrapped(a) == a % Space

(* frame_alloc, where there is a free frame *)
FreeFrames == {f \in Frames : fref[f] = 0}

--------------------------------------------------------------------------------
(* Regions *)

Region(s, e, prot, shared, kind) == [start |-> s, end |-> e, prot |-> prot, shared |-> shared, kind |-> kind]

Within(r, a) == r.start <= a /\ a < r.end

(* find_region: the first that holds the address; 0 for none *)
FindRegion(rs, a) == Min({i \in DOMAIN rs : Within(rs[i], a)} \cup {Len(rs) + 1}) % (Len(rs) + 1)

AddRegion(rs, r) ==
    LET i == Min({j \in DOMAIN rs : rs[j].start >= r.start} \cup {Len(rs) + 1})
    IN  SubSeq(rs, 1, i - 1) \o <<r>> \o SubSeq(rs, i, Len(rs))

(* A slip: a region that is hit is removed whole *)
RemainsWhole(r, lo, hi, split) == IF r.end <= lo \/ r.start >= hi THEN <<r>> ELSE <<>>

(* unmap_range on one region; split is FALSE where kmalloc fails *)
Remains(r, lo, hi, split) ==
    CASE r.end <= lo \/ r.start >= hi    -> <<r>>
      [] r.start >= lo /\ r.end <= hi    -> <<>>
      [] r.start < lo /\ r.end > hi      -> IF split THEN <<[r EXCEPT !.end = lo], [r EXCEPT !.start = hi]>>
                                                     ELSE <<[r EXCEPT !.end = lo]>>
      [] r.start < lo /\ r.end <= hi     -> <<[r EXCEPT !.end = lo]>>
      [] OTHER                           -> <<[r EXCEPT !.start = hi]>>

CutRegions(rs, lo, hi, split) ==
    LET Cut[n \in 0 .. Len(rs)] == IF n = 0 THEN <<>> ELSE Cut[n - 1] \o Remains(rs[n], lo, hi, split)
    IN  Cut[Len(rs)]

(* region_flags *)
RegionPte(r, f) == [f |-> f, w |-> "w" \in r.prot, x |-> "x" \in r.prot, cow |-> FALSE]

--------------------------------------------------------------------------------
(* Frames and page tables.  Released takes the references that the pages   *)
(* of S hold in the page table t from the counts.                          *)

Released(refs, t, S) == [f \in Frames |-> refs[f] - Cardinality({a \in S : t[a].f = f})]

(* flush_if_current on the pages of S that were mapped *)
Flushed(t, S) == [a \in Pages |-> IF a \in S /\ t[a].f # None THEN NoPte ELSE tlb[a]]

(* free_user over lo .. hi - 1 of the current process *)
FreeUser(p, lo, hi) ==
    LET S == {a \in Pages : lo <= a /\ a < hi}
    IN  /\ fref' = Released(fref, pt[p], S)
        /\ pt' = [pt EXCEPT ![p] = [a \in Pages |-> IF a \in S THEN NoPte ELSE @[a]]]
        /\ tlb' = Flushed(pt[p], S)

(* alloc_user: the pages of S that are not mapped get zeroed frames, the   *)
(* lowest page first; Placed is the frame of each, Given the counts and    *)
(* Filled the contents afterwards.                                         *)
Rank(S, a)      == Cardinality({b \in S : b <= a})
Placed(S, free) == [a \in S |-> CHOOSE f \in free : Rank(free, f) = Rank(S, a)]
Given(refs, at) == [f \in Frames |-> IF \E a \in DOMAIN at : at[a] = f THEN 1 ELSE refs[f]]
Filled(at, v)   == [f \in Frames |-> IF \E a \in DOMAIN at : at[a] = f THEN v ELSE data[f]]

--------------------------------------------------------------------------------
Running(p) == cur = p /\ state[p] = "live" /\ retry[p] = NoRetry

(* pte_denied *)
Allowed(pte, acc) == pte.f # None /\ (acc = "w" => pte.w) /\ (acc = "x" => pte.x)

(* fault_in.  The pages of a process change through it, or the fault is    *)
(* refused and the process gets a signal.                                  *)
Served(p, a, acc) ==
    LET i   == FindRegion(regions[p], a)
        pte == pt[p][a]
        n   == Min(FreeFrames)
    IN  /\ i # 0
        /\ acc = "w" => "w" \in regions[p][i].prot
        /\ \/ /\ pte.f = None /\ FreeFrames # {}
              /\ fref' = [fref EXCEPT ![n] = 1]
              /\ data' = [data EXCEPT ![n] = Zero]
              /\ pt' = [pt EXCEPT ![p][a] = RegionPte(regions[p][i], n)]
              /\ tlb' = [tlb EXCEPT ![a] = NoPte]
           \/ /\ pte.f # None /\ acc = "w" /\ ~pte.w /\ pte.cow
              /\ fref[pte.f] > 1 /\ FreeFrames # {}
              /\ fref' = [fref EXCEPT ![n] = 1, ![pte.f] = @ - 1]
              /\ data' = [data EXCEPT ![n] = data[pte.f]]
              /\ pt' = [pt EXCEPT ![p][a] = RegionPte(regions[p][i], n)]
              /\ tlb' = [tlb EXCEPT ![a] = NoPte]
           \/ /\ pte.f # None /\ acc = "w" /\ ~pte.w /\ pte.cow
              /\ fref[pte.f] = 1
              /\ pt' = [pt EXCEPT ![p][a] = RegionPte(regions[p][i], pte.f)]
              /\ tlb' = [tlb EXCEPT ![a] = NoPte]
              /\ UNCHANGED <<fref, data>>
           \/ /\ pte.f # None /\ (acc = "w" => pte.w)
              /\ UNCHANGED <<fref, data, pt, tlb>>

(* The translation the processor uses for a page: the one it kept, or the  *)
(* one in the page table, which it keeps when it allows the access.        *)
Translation(p, a) == IF tlb[a].f # None THEN tlb[a] ELSE pt[p][a]

Touch(p, a, acc, v) ==
    LET e == Translation(p, a)
    IN  /\ Allowed(e, acc)
        /\ tlb' = [tlb EXCEPT ![a] = e]
        /\ data' = IF acc = "w" THEN [data EXCEPT ![e.f] = v] ELSE data
        /\ UNCHANGED <<fref, pt>>

(* A user instruction that goes through, new or repeated after a fault *)
Access(p, a, acc, v) ==
    /\ cur = p /\ state[p] = "live" /\ retry[p] \in {NoRetry, <<a, acc>>}
    /\ Touch(p, a, acc, v)
    /\ retry' = [retry EXCEPT ![p] = NoRetry]
    /\ UNCHANGED <<state, cur, regions, brk>>

Fault(p, a, acc) ==
    /\ cur = p /\ state[p] = "live" /\ retry[p] \in {NoRetry, <<a, acc>>}
    /\ ~Allowed(Translation(p, a), acc)
    /\ Served(p, a, acc)
    /\ retry' = [retry EXCEPT ![p] = <<a, acc>>]
    /\ UNCHANGED <<state, cur, regions, brk>>

(* copyout: user_ok looks at the page table and calls fault_in; the copy   *)
(* that follows goes through the processor's translation.  The kernel is   *)
(* not preempted in between.                                               *)
UserOk(p, a) ==
    /\ "copyout" \in Calls /\ Running(p)
    /\ \/ /\ ~Allowed(pt[p][a], "w")
          /\ Served(p, a, "w")
       \/ /\ Allowed(pt[p][a], "w")
          /\ UNCHANGED <<fref, data, pt, tlb>>
    /\ retry' = [retry EXCEPT ![p] = <<a, "copy">>]
    /\ UNCHANGED <<state, cur, regions, brk>>

CopyOut(p, a, v) ==
    /\ cur = p /\ retry[p] = <<a, "copy">>
    /\ Touch(p, a, "w", v)
    /\ retry' = [retry EXCEPT ![p] = NoRetry]
    /\ UNCHANGED <<state, cur, regions, brk>>

(* scheduler: set_ptbase writes CR3, which forgets the translations *)
Switch(p) ==
    /\ state[p] = "live" /\ p # cur
    /\ cur # None => retry[cur][2] # "copy"
    /\ cur' = p
    /\ tlb' = NoTlb
    /\ UNCHANGED <<state, fref, data, pt, regions, brk, retry>>

--------------------------------------------------------------------------------
Sbrk(p, n) ==
    /\ "sbrk" \in Calls /\ Running(p)
    /\ LET old == brk[p]
           nb  == Wrapped(old + n)
           hs  == {i \in DOMAIN regions[p] : regions[p][i].kind = "heap"}
           h   == Max(hs)
           hst == regions[p][h].start
       IN  /\ hs # {}
           /\ ~(n > 0 /\ nb < old) /\ ~(n < 0 /\ nb > old) /\ HeapStart <= nb /\ nb <= MMAP_TOP
           /\ nb <= HeapLimit
           /\ \A i \in DOMAIN regions[p] \ {h} :
                 LET r == regions[p][i] IN ~(r.start < nb /\ r.end > hst /\ r.start >= hst)
           /\ IF n < 0 THEN FreeUser(p, nb, old) ELSE UNCHANGED <<fref, pt, tlb>>
           /\ brk' = [brk EXCEPT ![p] = nb]
           /\ regions' = [regions EXCEPT ![p][h].end = nb]
    /\ UNCHANGED <<state, cur, data, retry>>

(* do_munmap: unmap_range *)
Munmap(p, a, len) ==
    /\ "munmap" \in Calls /\ Running(p) /\ USER_BASE <= a /\ a + len < Space
    /\ FreeUser(p, a, a + len)
    /\ \E split \in {TRUE, "split" \notin Failures} :
          regions' = [regions EXCEPT ![p] = CutRegions(@, a, a + len, split)]
    /\ UNCHANGED <<state, cur, data, brk, retry>>

(* The placement loop of do_mmap; None where it gives up *)
Place(rs, b, len) ==
    LET Try[n \in 0 .. Len(rs), s \in Pages] ==
            LET hit == {i \in DOMAIN rs : rs[i].start < Wrapped(s + len) /\ rs[i].end > s}
            IN  CASE s < b \/ s < USER_BASE -> None
                  [] hit = {}               -> s
                  [] n = 0                  -> None
                  [] OTHER                  -> Try[n - 1, Wrapped(rs[Min(hit)].start - len)]
    IN  Try[Len(rs), MMAP_TOP - len]

(* The end of do_mmap, on the regions rs, the page table t, the counts     *)
(* refs and the translations kept, as the removal of what was there left   *)
(* them.  A shared mapping gets all its pages, or everything in its range  *)
(* is removed again.                                                       *)
MapAt(p, start, len, prot, shared, rs, t, refs, kept) ==
    LET end  == Wrapped(start + len)
        r    == Region(start, end, prot, shared, "mmap")
        Rng  == {a \in Pages : start <= a /\ a < end}
        S    == {a \in Rng : t[a].f = None}
        free == {f \in Frames : refs[f] = 0}
        at   == Placed(S, free)
    IN  \/ /\ \/ ~shared /\ regions' = [regions EXCEPT ![p] = AddRegion(rs, r)]
              \/ "region" \in Failures /\ regions' = [regions EXCEPT ![p] = rs]
           /\ pt' = [pt EXCEPT ![p] = t] /\ fref' = refs /\ tlb' = kept
           /\ UNCHANGED data
        \/ /\ shared /\ Cardinality(free) >= Cardinality(S)
           /\ regions' = [regions EXCEPT ![p] = AddRegion(rs, r)]
           /\ pt' = [pt EXCEPT ![p] = [a \in Pages |-> IF a \in S THEN RegionPte(r, at[a]) ELSE t[a]]]
           /\ fref' = Given(refs, at)
           /\ data' = Filled(at, Zero)
           /\ tlb' = [a \in Pages |-> IF a \in S THEN NoPte ELSE kept[a]]
        \/ /\ shared /\ Cardinality(free) < Cardinality(S)
           /\ regions' = [regions EXCEPT ![p] = rs]
           /\ pt' = [pt EXCEPT ![p] = [a \in Pages |-> IF a \in Rng THEN NoPte ELSE t[a]]]
           /\ fref' = Released(refs, t, Rng)
           /\ tlb' = [a \in Pages |-> IF a \in Rng THEN NoPte ELSE kept[a]]
           /\ UNCHANGED data

Mmap(p, len, prot, shared) ==
    /\ "mmap" \in Calls /\ Running(p)
    /\ LET start == Place(regions[p], brk[p], len)
       IN  start # None /\ MapAt(p, start, len, prot, shared, regions[p], pt[p], fref, tlb)
    /\ UNCHANGED <<state, cur, brk, retry>>

MmapFixed(p, a, len, prot, shared) ==
    /\ "fixed" \in Calls /\ Running(p)
    /\ USER_BASE <= a /\ a + len <= STACK_LOW
    /\ LET S == a .. a + len - 1
           t == [b \in Pages |-> IF b \in S THEN NoPte ELSE pt[p][b]]
       IN  \E split \in {TRUE, "split" \notin Failures} :
              MapAt(p, a, len, prot, shared, CutRegions(regions[p], a, a + len, split),
                    t, Released(fref, pt[p], S), Flushed(pt[p], S))
    /\ UNCHANGED <<state, cur, brk, retry>>

--------------------------------------------------------------------------------
(* A slip: the parent may go on writing *)
CowPteWritable(p, a) ==
    LET i   == FindRegion(regions[p], a)
        pte == pt[p][a]
    IN  IF pte.f # None /\ i # 0 /\ ~regions[p][i].shared /\ (pte.w \/ pte.cow)
        THEN [pte EXCEPT !.cow = TRUE] ELSE pte

(* fork_space over the pages below n: private writable pages become copy   *)
(* on write in the parent, and the child gets the same entry.              *)
CowPte(p, a) ==
    LET i   == FindRegion(regions[p], a)
        pte == pt[p][a]
    IN  IF pte.f # None /\ i # 0 /\ ~regions[p][i].shared /\ (pte.w \/ pte.cow)
        THEN [pte EXCEPT !.w = FALSE, !.cow = TRUE] ELSE pte

CowTable(p, n) == [a \in Pages |-> IF a < n THEN CowPte(p, a) ELSE pt[p][a]]

(* A slip: the shared frames are not counted *)
ForkNoRef(p, c) ==
    /\ "fork" \in Calls /\ Running(p) /\ state[c] = "unused"
    /\ pt' = [pt EXCEPT ![p] = CowTable(p, Space), ![c] = CowTable(p, Space)]
    /\ regions' = [regions EXCEPT ![c] = regions[p]]
    /\ brk' = [brk EXCEPT ![c] = brk[p]]
    /\ state' = [state EXCEPT ![c] = "live"]
    /\ tlb' = NoTlb
    /\ UNCHANGED <<cur, data, retry, fref>>

(* A slip: no flush after the entries have changed *)
ForkNoFlush(p, c) ==
    /\ "fork" \in Calls /\ Running(p) /\ state[c] = "unused"
    /\ pt' = [pt EXCEPT ![p] = CowTable(p, Space), ![c] = CowTable(p, Space)]
    /\ fref' = [f \in Frames |-> fref[f] + Cardinality({a \in Pages : pt[p][a].f = f})]
    /\ regions' = [regions EXCEPT ![c] = regions[p]]
    /\ brk' = [brk EXCEPT ![c] = brk[p]]
    /\ state' = [state EXCEPT ![c] = "live"]
    /\ UNCHANGED <<cur, data, retry, tlb>>

Fork(p, c) ==
    /\ "fork" \in Calls /\ Running(p) /\ state[c] = "unused"
    /\ pt' = [pt EXCEPT ![p] = CowTable(p, Space), ![c] = CowTable(p, Space)]
    /\ fref' = [f \in Frames |-> fref[f] + Cardinality({a \in Pages : pt[p][a].f = f})]
    /\ regions' = [regions EXCEPT ![c] = regions[p]]
    /\ brk' = [brk EXCEPT ![c] = brk[p]]
    /\ state' = [state EXCEPT ![c] = "live"]
    /\ tlb' = NoTlb
    /\ UNCHANGED <<cur, data, retry>>

(* No page table for page n: what the child got is released again, and the *)
(* entries already changed in the parent stay, with translations unflushed.*)
ForkFails(p, n) ==
    /\ "fork" \in Calls /\ "table" \in Failures /\ Running(p) /\ pt[p][n].f # None
    /\ pt' = [pt EXCEPT ![p] = CowTable(p, n + 1)]
    /\ UNCHANGED <<state, cur, fref, data, regions, brk, tlb, retry>>

ExecRegions == <<Region(USER_BASE, HeapStart, {"w", "x"}, FALSE, "text"),
                 Region(HeapStart, HeapStart, {"w"}, FALSE, "heap"),
                 Region(STACK_LOW, STACK_TOP, {"w"}, FALSE, "stack")>>

(* The pages exec_image fills: the program and the top of the stack *)
ExecPages == (USER_BASE .. HeapStart - 1) \cup {STACK_TOP - 1}

ExecTable(at) ==
    [a \in Pages |-> IF a \in ExecPages THEN [f |-> at[a], w |-> TRUE, x |-> a < HeapStart, cow |-> FALSE]
                     ELSE NoPte]

(* The first program's exec finds the frames it needs *)
ASSUME ExecFits == NPROC > 0 /\ Cardinality(ExecPages) <= NFRAMES

(* exec_image builds the new space before it gives up the old one *)
Exec(p) ==
    /\ "exec" \in Calls /\ Running(p)
    /\ Cardinality(FreeFrames) >= Cardinality(ExecPages)
    /\ LET at == Placed(ExecPages, FreeFrames)
       IN  /\ fref' = Given(Released(fref, pt[p], Pages), at)
           /\ data' = Filled(at, Image)
           /\ pt' = [pt EXCEPT ![p] = ExecTable(at)]
    /\ regions' = [regions EXCEPT ![p] = ExecRegions]
    /\ brk' = [brk EXCEPT ![p] = HeapStart]
    /\ tlb' = NoTlb
    /\ UNCHANGED <<state, cur, retry>>

(* A process ends, by itself or by the signal of a fault; its pages stay   *)
(* until release_proc.                                                     *)
Exit(p) ==
    /\ "exit" \in Calls /\ cur = p /\ state[p] = "live" /\ retry[p][2] # "copy"
    /\ state' = [state EXCEPT ![p] = "zombie"]
    /\ cur' = None
    /\ tlb' = NoTlb
    /\ retry' = [retry EXCEPT ![p] = NoRetry]
    /\ UNCHANGED <<fref, data, pt, regions, brk>>

Reap(p) ==
    /\ state[p] = "zombie"
    /\ state' = [state EXCEPT ![p] = "unused"]
    /\ fref' = Released(fref, pt[p], Pages)
    /\ pt' = [pt EXCEPT ![p] = EmptyPt]
    /\ regions' = [regions EXCEPT ![p] = <<>>]
    /\ brk' = [brk EXCEPT ![p] = 0]
    /\ UNCHANGED <<cur, data, tlb, retry>>

--------------------------------------------------------------------------------
(* The first process after its exec *)
Init ==
    /\ state = [p \in Procs |-> IF p = 1 THEN "live" ELSE "unused"]
    /\ cur = 1
    /\ fref = [f \in Frames |-> IF f <= Cardinality(ExecPages) THEN 1 ELSE 0]
    /\ data = [f \in Frames |-> IF f <= Cardinality(ExecPages) THEN Image ELSE Zero]
    /\ pt = [p \in Procs |-> IF p = 1 THEN ExecTable([a \in ExecPages |-> Rank(ExecPages, a)]) ELSE EmptyPt]
    /\ regions = [p \in Procs |-> IF p = 1 THEN ExecRegions ELSE <<>>]
    /\ brk = [p \in Procs |-> IF p = 1 THEN HeapStart ELSE 0]
    /\ tlb = NoTlb
    /\ retry = [p \in Procs |-> NoRetry]

Next ==
    \E p \in Procs :
        \/ \E a \in Touches, acc \in Accesses, v \in {2} : Access(p, a, acc, v) \/ Fault(p, a, acc)
        \/ \E a \in Touches : UserOk(p, a) \/ CopyOut(p, a, 2) \/ ForkFails(p, a)
        \/ Switch(p) \/ Exec(p) \/ Exit(p) \/ Reap(p)
        \/ \E c \in Procs : Fork(p, c)
        \/ \E n \in {-1, 1} : Sbrk(p, n)
        \/ \E a \in Addrs, len \in 1 .. MaxMap : Munmap(p, a, len)
        \/ \E len \in 1 .. MaxMap, prot \in Prots, s \in Shares :
              \/ Mmap(p, len, prot, s)
              \/ \E a \in Addrs : MmapFixed(p, a, len, prot, s)

Spec == Init /\ [][Next]_vars

--------------------------------------------------------------------------------
(* Frames and page tables hold what mm.c declares *)
Ptes == [f : Frames \cup {None}, w : BOOLEAN, x : BOOLEAN, cow : BOOLEAN]

TypeOK ==
    /\ state \in [Procs -> {"unused", "live", "zombie"}]
    /\ cur \in Procs \cup {None}
    /\ fref \in [Frames -> Nat] /\ data \in [Frames -> Values]
    /\ pt \in [Procs -> [Pages -> Ptes]] /\ tlb \in [Pages -> Ptes]

(* Every frame is counted once for every page table entry that names it,   *)
(* over copy on write, fork, failed calls, exec and exit: a frame with too *)
(* few references would be handed out while it is in use                   *)
(* (frame_alloc, frame_free, frame_ref).                                   *)
FramesCounted ==
    \A f \in Frames :
        fref[f] = Cardinality({x \in Procs \X Pages : pt[x[1]][x[2]].f = f})

(* The translations the processor keeps for the running process never lead *)
(* elsewhere than its page table does, and never refuse a write that       *)
(* user_ok has allowed (flush_if_current, tlbflush, set_ptbase).           *)
TlbAgrees ==
    \A a \in Pages : tlb[a].f # None =>
        /\ cur # None /\ tlb[a].f = pt[cur][a].f
        /\ pt[cur][a].w => tlb[a].w

(* A translation that still allows a write which the page table no longer  *)
(* allows, as a failed fork leaves it, is for a frame nobody else refers   *)
(* to (fork_space, tlbflush).                                              *)
WritesAlone ==
    \A a \in Pages : tlb[a].f # None /\ tlb[a].w /\ ~pt[cur][a].w => fref[tlb[a].f] = 1

(* A served fault lets the access through when it is repeated, so that no  *)
(* instruction faults for ever (fault_in, and the return of trap without a *)
(* signal).                                                                *)
FaultResolved ==
    \A p \in Procs : retry[p] # NoRetry =>
        Allowed(pt[p][retry[p][1]], IF retry[p][2] = "copy" THEN "w" ELSE retry[p][2])

(* No page lies in two regions of a process, so that its protection and    *)
(* its sharing are those of one region, also when munmap has cut the heap  *)
(* behind its first page or in two (add_region, unmap_range, do_mmap,      *)
(* do_sbrk).  A longer mapping that begins below the upper of two pieces   *)
(* of the heap is not seen by do_sbrk (proc.c:695): kept out of the run.   *)
RegionsDisjoint ==
    \A p \in Procs, a \in Pages :
        Cardinality({i \in DOMAIN regions[p] : Within(regions[p][i], a)}) <= 1

(* Every page a process can reach lies in one of its regions: what munmap  *)
(* or sbrk has taken away is gone from the page table too (free_user and   *)
(* the region list change together).                                       *)
PagesInRegions ==
    \A p \in Procs, a \in Pages : pt[p][a].f # None => FindRegion(regions[p], a) # 0

(* The translations the processor keeps are the page table's, and a fault  *)
(* that was served is not repeated (fault_in, the flushes of do_fork and   *)
(* free_user, cpu.c pg_translate).                                         *)
FaultsServed == TlbAgrees /\ WritesAlone /\ FaultResolved

(* Regions are apart and cover what is mapped, whatever was mapped, cut,   *)
(* moved or given back.                                                    *)
RegionsSound == RegionsDisjoint /\ PagesInRegions
================================================================================
