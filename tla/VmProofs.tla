------------------------------ MODULE VmProofs -------------------------------
(* The counts of page frames, the translations the processor keeps and the *)
(* faults that are served, for any number of processes, frames and pages.  *)
(* Every operation changes the page table of one process, fork also that   *)
(* of the child, so the proofs first say how the counts change with one    *)
(* table: pages given back (free_user) and pages placed (alloc_user).      *)
EXTENDS Vm, Extremes, FiniteSetTheorems, TLAPS

(* The pages of a table that name frame f, and the entries of all tables   *)
Held(t, f)  == {a \in Pages : t[a].f = f}
Named(q, f) == {x \in Procs \X Pages : q[x[1]][x[2]].f = f}

(* The counts refs are those of the page tables q                          *)
Counts(refs, q) == \A f \in Frames : refs[f] = Cardinality(Named(q, f))

Tables == [Pages -> Ptes]

(* The members of a set of numbers have the ranks from 1 on, one each      *)
LEMMA RankOrder ==
    ASSUME NEW S, S \subseteq Int, IsFiniteSet(S)
    PROVE  /\ \A a \in S : Rank(S, a) \in 1 .. Cardinality(S)
           /\ \A a, b \in S : Rank(S, a) = Rank(S, b) => a = b
           /\ \A k \in 1 .. Cardinality(S) : \E a \in S : Rank(S, a) = k
  <1>. DEFINE Low(a) == {b \in S : b <= a}
  <1>0. Cardinality(S) \in Nat
    BY FS_CardinalityType
  <1>1. ASSUME NEW a \in S
        PROVE  /\ IsFiniteSet(Low(a)) /\ Cardinality(Low(a)) \in Nat
               /\ Cardinality(Low(a)) <= Cardinality(S) /\ Cardinality(Low(a)) # 0
    <2>1. Low(a) \in SUBSET S /\ a \in Low(a)
      OBVIOUS
    <2>. HIDE DEF Low
    <2>2. IsFiniteSet(Low(a)) /\ Cardinality(Low(a)) <= Cardinality(S)
      BY <2>1, FS_Subset
    <2>3. Cardinality(Low(a)) \in Nat
      BY <2>2, FS_CardinalityType
    <2>4. Cardinality(Low(a)) # 0
      BY ZenonT(30), <2>1, <2>2, FS_EmptySet
    <2>. QED BY <2>2, <2>3, <2>4
  <1>2. ASSUME NEW a \in S, NEW b \in S, a < b
        PROVE  Cardinality(Low(a)) # Cardinality(Low(b))
    <2>0. \A c \in S : c <= a => c <= b
      BY <1>2
    <2>a. b \in Int /\ b <= b /\ ~(b <= a)
      BY <1>2
    <2>1. Low(a) \in SUBSET Low(b) /\ b \in Low(b) /\ b \notin Low(a)
      BY ZenonT(30), <2>a, <2>0
    <2>. HIDE DEF Low
    <2>2. IsFiniteSet(Low(b))
      BY <1>1
    <2>3. Cardinality(Low(b)) = Cardinality(Low(a)) => Low(b) = Low(a)
      BY ZenonT(30), <2>1, <2>2, FS_Subset
    <2>. QED BY <2>1, <2>3
  <1>. DEFINE rank == [a \in S |-> Cardinality(Low(a))]
  <1>3. rank \in Injection(S, 1 .. Cardinality(S))
    <2>. HIDE DEF Low
    <2>1. rank \in [S -> 1 .. Cardinality(S)]
      BY <1>0, <1>1
    <2>2. ASSUME NEW a \in S, NEW b \in S, rank[a] = rank[b]
          PROVE  a = b
      <3>1. a \in Int /\ b \in Int /\ Cardinality(Low(a)) = Cardinality(Low(b))
        BY <2>2
      <3>2. ~(a < b) /\ ~(b < a)
        BY <1>2, <3>1
      <3>. QED BY <3>1, <3>2
    <2>. HIDE DEF rank
    <2>. QED BY <2>1, <2>2 DEF Injection, IsInjective
  <1>4. IsFiniteSet(1 .. Cardinality(S)) /\ Cardinality(1 .. Cardinality(S)) = Cardinality(S)
    BY <1>0, FS_Interval
  <1>5. rank \in Surjection(S, 1 .. Cardinality(S))
    <2>. HIDE DEF rank
    <2>. QED BY <1>3, <1>4, FS_Injection
  <1>6. \A a \in S : rank[a] = Rank(S, a)
    BY DEF Rank
  <1>. HIDE DEF rank
  <1>7. /\ rank \in [S -> 1 .. Cardinality(S)]
        /\ \A a, b \in S : rank[a] = rank[b] => a = b
        /\ \A k \in 1 .. Cardinality(S) : \E a \in S : rank[a] = k
    BY <1>3, <1>5 DEF Injection, Surjection, IsInjective
  <1>. QED BY <1>6, <1>7

(* alloc_user: where there are enough frames, each page gets one of its    *)
(* own                                                                     *)
LEMMA PlacedApart ==
    ASSUME NEW S, S \subseteq Int, IsFiniteSet(S), NEW free, free \subseteq Int, IsFiniteSet(free),
           Cardinality(S) <= Cardinality(free)
    PROVE  /\ Placed(S, free) \in [S -> free]
           /\ \A a, b \in S : Placed(S, free)[a] = Placed(S, free)[b] => a = b
  <1>0. Cardinality(S) \in Nat /\ Cardinality(free) \in Nat
    BY FS_CardinalityType
  <1>1. \A a \in S : Rank(S, a) \in 1 .. Cardinality(S)
    BY ZenonT(30), RankOrder
  <1>2. \A a, b \in S : Rank(S, a) = Rank(S, b) => a = b
    BY ZenonT(30), RankOrder
  <1>3. \A k \in 1 .. Cardinality(free) : \E f \in free : Rank(free, f) = k
    BY ZenonT(30), RankOrder
  <1>4. \A a \in S : \E f \in free : Rank(free, f) = Rank(S, a)
    <2>. TAKE a \in S
    <2>1. Rank(S, a) \in 1 .. Cardinality(free)
      BY <1>0, <1>1
    <2>. QED BY <1>3, <2>1
  <1>5. \A a \in S : Placed(S, free)[a] \in free /\ Rank(free, Placed(S, free)[a]) = Rank(S, a)
    BY <1>4 DEF Placed
  <1>6. Placed(S, free) \in [S -> free]
    BY <1>4, <1>5 DEF Placed
  <1>. QED BY <1>2, <1>5, <1>6

LEMMA Sizes ==
    /\ IsFiniteSet(Procs) /\ IsFiniteSet(Pages) /\ IsFiniteSet(Frames)
    /\ Procs \subseteq Nat /\ Pages \subseteq Nat /\ Frames \subseteq Nat
    /\ None \notin Procs /\ None \notin Frames
  <1>1. NPROC \in Nat /\ NFRAMES \in Nat /\ Space \in Nat
    BY VmAssumption
  <1>2. IsFiniteSet(Procs)
    BY <1>1, FS_Interval DEF Procs
  <1>3. IsFiniteSet(Pages)
    BY <1>1, FS_Interval DEF Pages
  <1>4. IsFiniteSet(Frames)
    BY <1>1, FS_Interval DEF Frames
  <1>. QED BY <1>1, <1>2, <1>3, <1>4 DEF Procs, Pages, Frames, None

LEMMA ExecWithin == ExecPages \subseteq Pages
  <1>1. /\ USER_BASE \in Nat /\ HeapStart \in Nat /\ STACK_TOP \in Nat /\ Space \in Nat
        /\ 0 < USER_BASE /\ USER_BASE < HeapStart /\ HeapStart < STACK_TOP /\ STACK_TOP < Space
    BY VmAssumption
  <1>. QED BY <1>1 DEF ExecPages, Pages

(* One page table changes: only its own entries count anew                 *)
LEMMA RowChanged ==
    ASSUME NEW q, NEW r, NEW p \in Procs, \A o \in Procs \ {p} : r[o] = q[o], NEW f
    PROVE  /\ Cardinality(Named(r, f)) = Cardinality(Named(q, f)) - Cardinality(Held(q[p], f))
                                                                + Cardinality(Held(r[p], f))
           /\ Cardinality(Named(q, f)) \in Nat /\ Cardinality(Named(r, f)) \in Nat
  <1>1. OneRow(Procs, Pages, p, Named(q, f), Named(r, f))
    BY Sizes DEF OneRow, Named
  <1>2. Row(Pages, p, Named(q, f)) = Held(q[p], f) /\ Row(Pages, p, Named(r, f)) = Held(r[p], f)
    BY DEF Row, Named, Held
  <1>. QED BY <1>1, <1>2, RowCount

(* The sizes of what a table holds                                         *)
LEMMA HeldSizes ==
    ASSUME NEW t, NEW f
    PROVE  IsFiniteSet(Held(t, f)) /\ Cardinality(Held(t, f)) \in Nat
  <1>1. Held(t, f) \in SUBSET Pages
    BY DEF Held
  <1>2. IsFiniteSet(Held(t, f))
    BY <1>1, Sizes, FS_Subset
  <1>. QED BY <1>2, FS_CardinalityType

(* A frame without references is named nowhere                             *)
LEMMA FreeUnnamed ==
    ASSUME NEW refs, NEW q, Counts(refs, q), NEW f \in Frames, refs[f] = 0
    PROVE  \A p \in Procs : Held(q[p], f) = {}
  <1>1. Named(q, f) \in SUBSET (Procs \X Pages)
    BY DEF Named
  <1>2. IsFiniteSet(Procs \X Pages)
    BY Sizes, FS_Product
  <1>3. IsFiniteSet(Named(q, f)) /\ Cardinality(Named(q, f)) = 0
    BY <1>1, <1>2, FS_Subset DEF Counts
  <1>4. Named(q, f) = {}
    BY ZenonT(30), <1>3, FS_EmptySet
  <1>5. ASSUME NEW p \in Procs, NEW a \in Pages, q[p][a].f = f
        PROVE  FALSE
    <2>1. <<p, a>> \in Named(q, f)
      BY <1>5 DEF Named
    <2>. QED BY <1>4, <2>1
  <1>. QED BY <1>5 DEF Held

(* The counts are those of the tables after table p became t               *)
LEMMA CountsChanged ==
    ASSUME NEW refs, NEW q, Counts(refs, q), NEW p \in Procs, NEW r, NEW to,
           \A o \in Procs \ {p} : r[o] = q[o],
           \A f \in Frames : to[f] = refs[f] - Cardinality(Held(q[p], f)) + Cardinality(Held(r[p], f))
    PROVE  Counts(to, r)
  <1>. SUFFICES ASSUME NEW f \in Frames PROVE to[f] = Cardinality(Named(r, f))
    BY DEF Counts
  <1>1. Cardinality(Named(r, f)) = Cardinality(Named(q, f)) - Cardinality(Held(q[p], f))
                                                          + Cardinality(Held(r[p], f))
    BY RowChanged
  <1>2. refs[f] = Cardinality(Named(q, f))
    BY DEF Counts
  <1>. QED BY <1>1, <1>2

(* The pages of S are given back, in table p                               *)
Freeing(q, p, S, r) ==
    /\ p \in Procs /\ S \subseteq Pages
    /\ \A o \in Procs \ {p} : r[o] = q[o]
    /\ \A a \in Pages : r[p][a] = IF a \in S THEN NoPte ELSE q[p][a]

(* free_user keeps the counts                                              *)
LEMMA CountsFreed ==
    ASSUME NEW refs, NEW q, Counts(refs, q), NEW p, NEW S, NEW r, Freeing(q, p, S, r)
    PROVE  Counts(Released(refs, q[p], S), r)
  <1>. USE DEF Freeing
  <1>1. ASSUME NEW f \in Frames
        PROVE  Released(refs, q[p], S)[f] = refs[f] - Cardinality(Held(q[p], f)) + Cardinality(Held(r[p], f))
    <2>. DEFINE H == Held(q[p], f)
                G == {a \in S : q[p][a].f = f}
    <2>0. f # None
      BY Sizes
    <2>1. Held(r[p], f) = H \ G
      <3>1. \A a \in Pages : r[p][a].f = f <=> q[p][a].f = f /\ a \notin S
        BY <2>0 DEF NoPte
      <3>. QED BY <3>1 DEF Held
    <2>2. G \subseteq H
      BY DEF Held
    <2>3. IsFiniteSet(H)
      BY HeldSizes
    <2>4. Released(refs, q[p], S)[f] = refs[f] - Cardinality(G)
      BY DEF Released
    <2>. HIDE DEF H, G
    <2>5. /\ Cardinality(H \ G) = Cardinality(H) - Cardinality(G)
          /\ Cardinality(H) \in Nat /\ Cardinality(G) \in Nat
      BY ZenonT(30), <2>2, <2>3, RestCount
    <2>6. refs[f] \in Nat
      BY ZenonT(30), RowChanged DEF Counts
    <2>. QED BY <2>1, <2>4, <2>5, <2>6 DEF H
  <1>2. \A f \in Frames :
           Released(refs, q[p], S)[f] = refs[f] - Cardinality(Held(q[p], f)) + Cardinality(Held(r[p], f))
    BY <1>1
  <1>. QED BY <1>2, CountsChanged

(* The pages of S get free frames, each its own, in table p                *)
Placing(refs, q, p, S, at, r) ==
    /\ p \in Procs /\ S \subseteq Pages /\ at \in [S -> Frames]
    /\ \A a \in S : refs[at[a]] = 0 /\ q[p][a].f = None /\ r[p][a].f = at[a]
    /\ \A a, b \in S : at[a] = at[b] => a = b
    /\ \A o \in Procs \ {p} : r[o] = q[o]
    /\ \A a \in Pages \ S : r[p][a] = q[p][a]

(* alloc_user keeps the counts                                             *)
LEMMA CountsGiven ==
    ASSUME NEW refs, NEW q, Counts(refs, q), NEW p, NEW S, NEW at, NEW r, Placing(refs, q, p, S, at, r)
    PROVE  Counts(Given(refs, at), r)
  <1>. USE DEF Placing
  <1>1. ASSUME NEW f \in Frames
        PROVE  Given(refs, at)[f] = refs[f] - Cardinality(Held(q[p], f)) + Cardinality(Held(r[p], f))
    <2>0. refs[f] \in Nat /\ Cardinality(Held(q[p], f)) \in Nat
      <3>1. Cardinality(Named(q, f)) \in Nat
        BY ZenonT(30), RowChanged
      <3>. QED BY <3>1, HeldSizes DEF Counts
    <2>1. CASE \E a \in S : at[a] = f
      <3>1. PICK a \in S : at[a] = f
        BY <2>1
      <3>2. refs[f] = 0 /\ Given(refs, at)[f] = 1
        BY <2>1, <3>1 DEF Given
      <3>3. Held(q[p], f) = {}
        BY ZenonT(30), <3>2, FreeUnnamed
      <3>4. Held(r[p], f) = {a}
        BY <3>1, <3>3 DEF Held
      <3>5. Cardinality(Held(q[p], f)) = 0 /\ Cardinality(Held(r[p], f)) = 1
        BY ZenonT(30), <3>3, <3>4, FS_EmptySet, FS_Singleton
      <3>. QED BY <3>2, <3>5
    <2>2. CASE ~\E a \in S : at[a] = f
      <3>1. Given(refs, at)[f] = refs[f]
        BY <2>2 DEF Given
      <3>2. Held(r[p], f) = Held(q[p], f)
        <4>1. f # None
          BY Sizes
        <4>2. \A a \in Pages : r[p][a].f = f <=> q[p][a].f = f
          BY <2>2, <4>1
        <4>. QED BY <4>2 DEF Held
      <3>. QED BY <2>0, <3>1, <3>2
    <2>. QED BY <2>1, <2>2
  <1>2. \A f \in Frames :
           Given(refs, at)[f] = refs[f] - Cardinality(Held(q[p], f)) + Cardinality(Held(r[p], f))
    BY <1>1
  <1>. QED BY <1>2, CountsChanged

(* The invariant: types, counts and translations kept, a slot that is not  *)
(* in use has no pages, and the page directory in CR3 is that of a live    *)
(* process                                                                 *)
CoreInv ==
    /\ TypeOK /\ Counts(fref, pt) /\ TlbAgrees
    /\ \A p \in Procs : state[p] = "unused" => pt[p] = EmptyPt
    /\ cur # None => state[cur] = "live"

(* The entries that are made *)
LEMMA Entries ==
    /\ NoPte \in Ptes /\ EmptyPt \in Tables /\ NoTlb \in Tables
    /\ \A r, f : f \in Frames => RegionPte(r, f) \in Ptes
    /\ \A r, f : RegionPte(r, f).f = f
    /\ NoPte.f = None /\ ~NoPte.w
  BY DEF NoPte, EmptyPt, NoTlb, Ptes, Tables, RegionPte

(* frame_alloc                                                             *)
LEMMA LowestFree ==
    ASSUME FreeFrames # {}
    PROVE  Min(FreeFrames) \in Frames /\ fref[Min(FreeFrames)] = 0
  <1>1. FreeFrames \subseteq Nat
    BY ZenonT(30), Sizes DEF FreeFrames
  <1>2. \E n \in FreeFrames : \A m \in FreeFrames : n <= m
    BY ZenonT(30), <1>1, LeastMember
  <1>3. Min(FreeFrames) \in FreeFrames
    BY <1>2 DEF Min
  <1>. QED BY <1>3 DEF FreeFrames

(* What is counted is a number                                             *)
LEMMA CountsNat ==
    ASSUME NEW refs, NEW q, Counts(refs, q)
    PROVE  \A f \in Frames : refs[f] \in Nat
  <1>. SUFFICES ASSUME NEW f \in Frames PROVE refs[f] \in Nat
    OBVIOUS
  <1>1. Named(q, f) \in SUBSET (Procs \X Pages)
    BY DEF Named
  <1>2. IsFiniteSet(Procs \X Pages)
    BY Sizes, FS_Product
  <1>3. IsFiniteSet(Named(q, f))
    BY <1>1, <1>2, FS_Subset
  <1>. QED BY <1>3, FS_CardinalityType DEF Counts

(* Tables that name the same frames count the same                         *)
LEMMA CountsSame ==
    ASSUME NEW refs, NEW q, Counts(refs, q), NEW r,
           \A p \in Procs, a \in Pages : r[p][a].f = q[p][a].f
    PROVE  Counts(refs, r)
  <1>1. \A f : Named(r, f) = Named(q, f)
    BY DEF Named
  <1>. QED BY <1>1 DEF Counts

(* A user's access or the kernel's copy goes through                       *)
LEMMA TouchCore ==
    ASSUME CoreInv, NEW p \in Procs, cur = p, NEW a \in Pages, NEW acc, Touch(p, a, acc, 2),
           UNCHANGED <<state, cur>>
    PROVE  CoreInv'
  <1>. DEFINE e == Translation(p, a)
  <1>1. e \in Ptes /\ e.f # None /\ tlb' = [tlb EXCEPT ![a] = e] /\ UNCHANGED <<fref, pt>>
    BY DEF CoreInv, TypeOK, Touch, Allowed, Translation
  <1>2. e.f = pt[p][a].f /\ (pt[p][a].w => e.w)
    BY DEF CoreInv, TlbAgrees, Translation
  <1>3. data' \in [Frames -> Values]
    BY ZenonT(30), <1>1 DEF CoreInv, TypeOK, Touch, Values
  <1>. HIDE DEF e
  <1>4. TypeOK'
    BY <1>1, <1>3 DEF CoreInv, TypeOK
  <1>5. TlbAgrees'
    <2>1. tlb'[a] = e /\ \A b \in Pages : b # a => tlb'[b] = tlb[b]
      BY <1>1 DEF CoreInv, TypeOK
    <2>2. cur' = p /\ pt' = pt /\ p # None
      BY <1>1, Sizes
    <2>. QED BY <1>2, <2>1, <2>2 DEF CoreInv, TlbAgrees
  <1>. QED BY <1>1, <1>4, <1>5 DEF CoreInv, Counts, Named

(* fault_in                                                                *)
LEMMA ServedCore ==
    ASSUME CoreInv, NEW p \in Procs, cur = p, NEW a \in Pages, NEW acc, Served(p, a, acc),
           UNCHANGED <<state, cur>>
    PROVE  CoreInv' /\ \A q \in Procs \ {p} : pt'[q] = pt[q]
  <1>. DEFINE i == FindRegion(regions[p], a)
              n == Min(FreeFrames)
              o == pt[p][a].f
  <1>0. /\ pt \in [Procs -> Tables] /\ fref \in [Frames -> Nat] /\ data \in [Frames -> Values]
        /\ tlb \in Tables /\ Counts(fref, pt) /\ state[p] = "live" /\ p # None
        /\ o \in Frames \cup {None}
    BY Sizes DEF CoreInv, TypeOK, Tables, Ptes
  <1>1. ASSUME FreeFrames # {}, o = None,
               fref' = [fref EXCEPT ![n] = 1], data' = [data EXCEPT ![n] = Zero],
               pt' = [pt EXCEPT ![p][a] = RegionPte(regions[p][i], n)]
        PROVE  Counts(fref, pt)' /\ n \in Frames /\ data' \in [Frames -> Values]
    <2>1. n \in Frames /\ fref[n] = 0
      BY <1>1, LowestFree
    <2>. HIDE DEF n, i
    <2>. DEFINE at == [b \in {a} |-> n]
    <2>2. Given(fref, at) = fref'
      BY ZenonT(30), <1>0, <1>1, <2>1 DEF Given
    <2>3. pt'[p][a].f = n
      <3>1. pt'[p][a] = RegionPte(regions[p][i], n)
        BY <1>0, <1>1 DEF Tables
      <3>. QED BY <3>1, Entries
    <2>4. (\A b \in Pages \ {a} : pt'[p][b] = pt[p][b]) /\ (\A q \in Procs \ {p} : pt'[q] = pt[q])
      BY <1>0, <1>1
    <2>5. at \in [{a} -> Frames] /\ at[a] = n
      BY <2>1
    <2>. HIDE DEF at
    <2>6. Placing(fref, pt, p, {a}, at, pt')
      BY <1>0, <1>1, <2>1, <2>3, <2>4, <2>5 DEF Placing
    <2>8. Counts(Given(fref, at), pt')
      BY <1>0, <2>6, CountsGiven
    <2>7. data' \in [Frames -> Values]
      BY ZenonT(30), <1>0, <1>1 DEF Values, Zero
    <2>. QED BY <2>1, <2>2, <2>7, <2>8 DEF Counts
  <1>2. ASSUME FreeFrames # {}, o # None, fref[o] > 1,
               fref' = [fref EXCEPT ![n] = 1, ![o] = @ - 1], data' = [data EXCEPT ![n] = data[o]],
               pt' = [pt EXCEPT ![p][a] = RegionPte(regions[p][i], n)]
        PROVE  Counts(fref, pt)' /\ n \in Frames /\ data' \in [Frames -> Values]
    <2>1. n \in Frames /\ fref[n] = 0
      BY <1>2, LowestFree
    <2>2. o \in Frames /\ o # n /\ o = pt[p][a].f
      BY <1>0, <1>2, <2>1
    <2>. HIDE DEF n, i, o
    <2>3. pt'[p][a].f = n
      <3>1. pt'[p][a] = RegionPte(regions[p][i], n)
        BY <1>0, <1>2 DEF Tables
      <3>. QED BY <3>1, Entries
    <2>4. (\A b \in Pages \ {a} : pt'[p][b] = pt[p][b]) /\ (\A q \in Procs \ {p} : pt'[q] = pt[q])
      BY <1>0, <1>2
    <2>5. ASSUME NEW f \in Frames
          PROVE  fref'[f] = fref[f] - Cardinality(Held(pt[p], f)) + Cardinality(Held(pt'[p], f))
      <3>0. fref[f] \in Nat /\ IsFiniteSet(Held(pt[p], f)) /\ Cardinality(Held(pt[p], f)) \in Nat
        BY <1>0, HeldSizes
      <3>1. CASE f = n
        <4>1. Held(pt[p], f) = {}
          BY <1>0, <2>1, <3>1, FreeUnnamed
        <4>2. Held(pt'[p], f) = {a}
          BY <2>3, <2>4, <3>1, <4>1 DEF Held
        <4>3. Cardinality(Held(pt[p], f)) = 0 /\ Cardinality(Held(pt'[p], f)) = 1
          BY <4>1, <4>2, FS_EmptySet, FS_Singleton
        <4>4. fref'[f] = 1 /\ fref[f] = 0
          BY <1>0, <1>2, <2>1, <2>2, <3>1
        <4>. QED BY <4>3, <4>4
      <3>2. CASE f = o
        <4>1. Held(pt'[p], f) = Held(pt[p], f) \ {a} /\ a \in Held(pt[p], f)
          BY <2>2, <2>3, <2>4, <3>2 DEF Held
        <4>2. Cardinality(Held(pt'[p], f)) = Cardinality(Held(pt[p], f)) - 1
          BY ZenonT(30), <3>0, <4>1, FS_RemoveElement
        <4>3. fref'[f] = fref[f] - 1
          BY <1>0, <1>2, <2>1, <2>2, <3>2
        <4>. QED BY <3>0, <4>2, <4>3
      <3>3. CASE f # n /\ f # o
        <4>1. Held(pt'[p], f) = Held(pt[p], f)
          BY <2>2, <2>3, <2>4, <3>3 DEF Held
        <4>2. fref'[f] = fref[f]
          BY <1>0, <1>2, <3>3
        <4>. QED BY <3>0, <4>1, <4>2
      <3>. QED BY <3>1, <3>2, <3>3
    <2>6. Counts(fref', pt')
      BY <1>0, <2>4, <2>5, CountsChanged
    <2>7. data' \in [Frames -> Values]
      BY ZenonT(30), <1>0, <1>2, <2>2
    <2>. QED BY <2>1, <2>6, <2>7 DEF Counts
  <1>3. ASSUME o # None, pt' = [pt EXCEPT ![p][a] = RegionPte(regions[p][i], o)], UNCHANGED <<fref, data>>
        PROVE  Counts(fref, pt)'
    <2>1. \A q \in Procs, b \in Pages : pt'[q][b].f = pt[q][b].f
      BY <1>0, <1>3, Entries
    <2>2. Counts(fref, pt')
      BY <1>0, <2>1, CountsSame
    <2>. QED BY ZenonT(30), <1>3, <2>2 DEF Counts
  <1>4. ASSUME NEW f \in Frames, Counts(fref, pt)', data' \in [Frames -> Values],
               pt' = [pt EXCEPT ![p][a] = RegionPte(regions[p][i], f)],
               tlb' = [tlb EXCEPT ![a] = NoPte], fref' \in [Frames -> Nat]
        PROVE  CoreInv' /\ \A q \in Procs \ {p} : pt'[q] = pt[q]
    <2>. HIDE DEF i, n, o
    <2>1. RegionPte(regions[p][i], f) \in Ptes /\ NoPte \in Ptes /\ NoPte.f = None
      BY Entries
    <2>2. pt' \in [Procs -> [Pages -> Ptes]] /\ tlb' \in [Pages -> Ptes]
      BY <1>0, <1>4, <2>1 DEF Tables
    <2>3. TypeOK'
      BY <1>4, <2>2 DEF CoreInv, TypeOK
    <2>4. \A q \in Procs \ {p} : pt'[q] = pt[q]
      BY <1>0, <1>4
    <2>5. TlbAgrees'
      <3>1. \A b \in Pages : b # a => tlb'[b] = tlb[b] /\ pt'[p][b] = pt[p][b]
        BY <1>0, <1>4 DEF Tables
      <3>2. tlb'[a].f = None
        BY <1>0, <1>4, <2>1 DEF Tables
      <3>. QED BY <3>1, <3>2 DEF CoreInv, TlbAgrees
    <2>. QED BY <1>0, <1>4, <2>3, <2>4, <2>5 DEF CoreInv
  <1>5. UNCHANGED <<fref, data, pt, tlb>> => CoreInv'
    BY DEF CoreInv, TypeOK, Counts, Named, TlbAgrees
  <1>. QED
    <2>. HIDE DEF i, n
    <2>1. ASSUME FreeFrames # {}, o = None,
                 fref' = [fref EXCEPT ![n] = 1], data' = [data EXCEPT ![n] = Zero],
                 pt' = [pt EXCEPT ![p][a] = RegionPte(regions[p][i], n)], tlb' = [tlb EXCEPT ![a] = NoPte]
          PROVE  CoreInv' /\ \A q \in Procs \ {p} : pt'[q] = pt[q]
      <3>1. Counts(fref, pt)' /\ n \in Frames /\ data' \in [Frames -> Values]
        BY <1>1, <2>1
      <3>2. fref' \in [Frames -> Nat]
        BY ZenonT(30), <1>0, <2>1
      <3>. QED BY ZenonT(30), <1>4, <2>1, <3>1, <3>2
    <2>2. ASSUME FreeFrames # {}, o # None, fref[o] > 1,
                 fref' = [fref EXCEPT ![n] = 1, ![o] = @ - 1], data' = [data EXCEPT ![n] = data[o]],
                 pt' = [pt EXCEPT ![p][a] = RegionPte(regions[p][i], n)], tlb' = [tlb EXCEPT ![a] = NoPte]
          PROVE  CoreInv' /\ \A q \in Procs \ {p} : pt'[q] = pt[q]
      <3>1. Counts(fref, pt)' /\ n \in Frames /\ data' \in [Frames -> Values]
        BY <1>2, <2>2
      <3>2. fref' \in [Frames -> Nat]
        BY <1>0, <2>2
      <3>. QED BY ZenonT(30), <1>4, <2>2, <3>1, <3>2
    <2>3. ASSUME o # None, pt' = [pt EXCEPT ![p][a] = RegionPte(regions[p][i], o)],
                 tlb' = [tlb EXCEPT ![a] = NoPte], UNCHANGED <<fref, data>>
          PROVE  CoreInv' /\ \A q \in Procs \ {p} : pt'[q] = pt[q]
      <3>1. Counts(fref, pt)'
        BY <1>3, <2>3
      <3>. QED BY ZenonT(30), <1>0, <1>4, <2>3, <3>1
    <2>. QED BY <1>5, <2>1, <2>2, <2>3 DEF Served, i, n

(* The translations kept in k lead where the table t does                  *)
Agree(k, t) == \A a \in Pages : k[a].f # None => k[a].f = t[a].f /\ (t[a].w => k[a].w)

(* Table t for process p goes with the counts refs and the translations k  *)
Base(p, t, refs, k) ==
    /\ t \in Tables /\ refs = [f \in Frames |-> refs[f]] /\ Counts(refs, [pt EXCEPT ![p] = t])
    /\ k \in Tables /\ Agree(k, t)

(* The running process gets such a table                                   *)
LEMMA RowCore ==
    ASSUME CoreInv, NEW p \in Procs, cur = p, NEW t, Base(p, t, fref', tlb'), pt' = [pt EXCEPT ![p] = t],
           data' \in [Frames -> Values], UNCHANGED <<state, cur>>
    PROVE  CoreInv' /\ \A q \in Procs \ {p} : pt'[q] = pt[q]
  <1>1. pt \in [Procs -> Tables] /\ state[p] = "live" /\ p # None
    BY Sizes DEF CoreInv, TypeOK, Tables
  <1>2. \A q \in Procs \ {p} : pt'[q] = pt[q]
    BY <1>1
  <1>3. pt' \in [Procs -> Tables] /\ pt'[p] = t
    BY <1>1 DEF Base
  <1>4. Counts(fref', pt') /\ fref' = [f \in Frames |-> fref'[f]]
    BY DEF Base
  <1>5. fref' \in [Frames -> Nat]
    BY <1>4, CountsNat
  <1>6. TypeOK'
    BY <1>3, <1>5 DEF CoreInv, TypeOK, Tables, Base
  <1>7. TlbAgrees'
    BY <1>1, <1>3 DEF TlbAgrees, Base, Agree
  <1>. QED BY <1>1, <1>2, <1>4, <1>6, <1>7 DEF CoreInv, Counts, Named

(* free_user over the pages of S                                           *)
LEMMA FreedBase ==
    ASSUME CoreInv, NEW p \in Procs, cur = p, NEW S, S \subseteq Pages,
           NEW t, t = [a \in Pages |-> IF a \in S THEN NoPte ELSE pt[p][a]]
    PROVE  Base(p, t, Released(fref, pt[p], S), Flushed(pt[p], S))
  <1>1. pt \in [Procs -> Tables] /\ tlb \in Tables /\ Counts(fref, pt)
    BY DEF CoreInv, TypeOK, Tables
  <1>2. NoPte \in Ptes /\ NoPte.f = None
    BY Entries
  <1>3. t \in Tables /\ Flushed(pt[p], S) \in Tables
    BY <1>1, <1>2 DEF Tables, Flushed
  <1>4. Agree(Flushed(pt[p], S), t)
    <2>1. ASSUME NEW a \in Pages, Flushed(pt[p], S)[a].f # None
          PROVE  a \notin S /\ Flushed(pt[p], S)[a] = tlb[a]
      <3>1. Flushed(pt[p], S)[a] = tlb[a] /\ (a \in S => pt[p][a].f = None)
        BY <1>2, <2>1 DEF Flushed
      <3>2. tlb[a].f = pt[p][a].f
        BY <2>1, <3>1 DEF CoreInv, TlbAgrees
      <3>. QED BY <2>1, <3>1, <3>2
    <2>2. \A a \in Pages : a \notin S => t[a] = pt[p][a]
      OBVIOUS
    <2>. QED BY <2>1, <2>2 DEF Agree, CoreInv, TlbAgrees
  <1>. DEFINE r == [pt EXCEPT ![p] = t]
  <1>5. Freeing(pt, p, S, r)
    BY <1>1 DEF Freeing
  <1>. HIDE DEF r
  <1>6. Counts(Released(fref, pt[p], S), r)
    BY <1>1, <1>5, CountsFreed
  <1>7. Released(fref, pt[p], S) = [f \in Frames |-> Released(fref, pt[p], S)[f]]
    BY DEF Released
  <1>. QED BY <1>3, <1>4, <1>6, <1>7 DEF Base, r

LEMMA FreeCore ==
    ASSUME CoreInv, NEW p \in Procs, cur = p, NEW lo, NEW hi, FreeUser(p, lo, hi), UNCHANGED <<state, cur, data>>
    PROVE  CoreInv' /\ \A q \in Procs \ {p} : pt'[q] = pt[q]
  <1>. DEFINE S == {a \in Pages : lo <= a /\ a < hi}
              t == [a \in Pages |-> IF a \in S THEN NoPte ELSE pt[p][a]]
  <1>1. fref' = Released(fref, pt[p], S) /\ tlb' = Flushed(pt[p], S)
    BY DEF FreeUser
  <1>2. pt' = [pt EXCEPT ![p] = t]
    BY DEF FreeUser, CoreInv, TypeOK
  <1>3. S \subseteq Pages /\ data' \in [Frames -> Values]
    BY DEF CoreInv, TypeOK
  <1>. HIDE DEF S
  <1>4. Base(p, t, fref', tlb')
    BY <1>1, <1>3, FreedBase
  <1>. HIDE DEF t
  <1>. QED BY ZenonT(30), <1>2, <1>3, <1>4, RowCore

(* The end of do_mmap                                                      *)
LEMMA MapCore ==
    ASSUME CoreInv, NEW p \in Procs, cur = p, NEW start, NEW len, NEW prot, NEW shared, NEW rs,
           NEW t, NEW refs, NEW kept, Base(p, t, refs, kept),
           MapAt(p, start, len, prot, shared, rs, t, refs, kept), UNCHANGED <<state, cur>>
    PROVE  CoreInv' /\ \A q \in Procs \ {p} : pt'[q] = pt[q]
  <1>. DEFINE end  == Wrapped(start + len)
              g    == Region(start, end, prot, shared, "mmap")
              Rng  == {a \in Pages : start <= a /\ a < end}
              S    == {a \in Rng : t[a].f = None}
              free == {f \in Frames : refs[f] = 0}
              at   == Placed(S, free)
              q    == [pt EXCEPT ![p] = t]
              t2   == [a \in Pages |-> IF a \in S THEN RegionPte(g, at[a]) ELSE t[a]]
              k2   == [a \in Pages |-> IF a \in S THEN NoPte ELSE kept[a]]
              t3   == [a \in Pages |-> IF a \in Rng THEN NoPte ELSE t[a]]
              k3   == [a \in Pages |-> IF a \in Rng THEN NoPte ELSE kept[a]]
  <1>0. /\ pt \in [Procs -> Tables] /\ t \in Tables /\ kept \in Tables /\ data \in [Frames -> Values]
        /\ NoPte \in Ptes /\ NoPte.f = None /\ Counts(refs, q) /\ Agree(kept, t) /\ q[p] = t
        /\ \A o \in Procs \ {p} : q[o] = pt[o]
    BY Entries DEF CoreInv, TypeOK, Base, Tables
  <1>1. S \subseteq Pages /\ Rng \subseteq Pages /\ \A a \in S : t[a].f = None
    OBVIOUS
  <1>2. \/ pt' = [pt EXCEPT ![p] = t] /\ fref' = refs /\ tlb' = kept /\ UNCHANGED data
        \/ /\ Cardinality(free) >= Cardinality(S) /\ pt' = [pt EXCEPT ![p] = t2]
           /\ fref' = Given(refs, at) /\ data' = Filled(at, Zero) /\ tlb' = k2
        \/ pt' = [pt EXCEPT ![p] = t3] /\ fref' = Released(refs, t, Rng) /\ tlb' = k3 /\ UNCHANGED data
    BY ZenonT(30) DEF MapAt
  <1>. HIDE DEF S, Rng, g, end
  <1>3. ASSUME pt' = [pt EXCEPT ![p] = t], fref' = refs, tlb' = kept, UNCHANGED data
        PROVE  CoreInv' /\ \A o \in Procs \ {p} : pt'[o] = pt[o]
    <2>1. data' \in [Frames -> Values] /\ Base(p, t, fref', tlb')
      BY <1>0, <1>3
    <2>. QED BY ZenonT(30), <1>3, <2>1, RowCore
  <1>4. ASSUME Cardinality(free) >= Cardinality(S), pt' = [pt EXCEPT ![p] = t2],
               fref' = Given(refs, at), data' = Filled(at, Zero), tlb' = k2
        PROVE  CoreInv' /\ \A o \in Procs \ {p} : pt'[o] = pt[o]
    <2>1. /\ S \subseteq Int /\ IsFiniteSet(S) /\ free \subseteq Int /\ IsFiniteSet(free)
          /\ Cardinality(S) \in Nat /\ Cardinality(free) \in Nat
      <3>1. S \in SUBSET Pages /\ free \in SUBSET Frames
        BY <1>1
      <3>. HIDE DEF free
      <3>2. IsFiniteSet(S) /\ IsFiniteSet(free)
        BY ZenonT(30), <3>1, Sizes, FS_Subset
      <3>3. S \subseteq Int /\ free \subseteq Int
        <4>1. Pages \subseteq Int /\ Frames \subseteq Int
          BY Sizes
        <4>. QED BY ZenonT(30), <3>1, <4>1
      <3>4. Cardinality(S) \in Nat /\ Cardinality(free) \in Nat
        BY ZenonT(30), <3>2, FS_CardinalityType
      <3>. QED BY <3>2, <3>3, <3>4
    <2>2. \A f \in free : f \in Frames /\ refs[f] = 0
      OBVIOUS
    <2>3. at \in [S -> free] /\ \A a, b \in S : at[a] = at[b] => a = b
      <3>. HIDE DEF free
      <3>1. Cardinality(S) <= Cardinality(free)
        BY <1>4, <2>1
      <3>. QED BY ZenonT(30), <2>1, <3>1, PlacedApart
    <2>. HIDE DEF free, at, q
    <2>4. t2 \in Tables /\ \A a \in S : t2[a].f = at[a]
      <3>1. \A a \in S : RegionPte(g, at[a]) \in Ptes /\ RegionPte(g, at[a]).f = at[a]
        BY <2>2, <2>3, Entries
      <3>. QED BY <1>0, <1>1, <3>1 DEF Tables
    <2>5. \A a \in Pages \ S : t2[a] = t[a]
      OBVIOUS
    <2>6. k2 \in Tables
      BY <1>0 DEF Tables
    <2>7. Agree(k2, t2)
      BY <1>0, <2>5 DEF Agree
    <2>8. pt'[p] = t2 /\ \A o \in Procs \ {p} : pt'[o] = pt[o]
      BY <1>0, <1>4
    <2>. HIDE DEF t2, k2
    <2>9. Placing(refs, q, p, S, at, pt')
      BY <1>0, <1>1, <2>2, <2>3, <2>4, <2>5, <2>8 DEF Placing
    <2>10. Counts(fref', pt')
      BY <1>0, <1>4, <2>9, CountsGiven
    <2>11. fref' = [f \in Frames |-> fref'[f]] /\ data' \in [Frames -> Values]
      BY <1>0, <1>4 DEF Given, Filled, Values, Zero
    <2>12. Base(p, t2, fref', tlb')
      BY <1>4, <2>4, <2>6, <2>7, <2>10, <2>11 DEF Base
    <2>. QED BY ZenonT(30), <1>4, <2>11, <2>12, RowCore
  <1>5. ASSUME pt' = [pt EXCEPT ![p] = t3], fref' = Released(refs, t, Rng), tlb' = k3, UNCHANGED data
        PROVE  CoreInv' /\ \A o \in Procs \ {p} : pt'[o] = pt[o]
    <2>1. t3 \in Tables /\ k3 \in Tables
      BY <1>0 DEF Tables
    <2>2. Agree(k3, t3)
      BY <1>0 DEF Agree
    <2>3. (\A a \in Pages : t3[a] = IF a \in Rng THEN NoPte ELSE q[p][a])
      BY <1>0
    <2>4. pt'[p] = t3 /\ \A o \in Procs \ {p} : pt'[o] = q[o]
      BY <1>0, <1>5
    <2>. HIDE DEF t3, k3, q
    <2>8. Freeing(q, p, Rng, pt')
      BY <1>1, <2>3, <2>4 DEF Freeing
    <2>5. Counts(Released(refs, q[p], Rng), pt')
      BY <1>0, <2>8, CountsFreed
    <2>6. fref' = [f \in Frames |-> fref'[f]] /\ data' \in [Frames -> Values]
      BY <1>0, <1>5 DEF Released
    <2>7. Base(p, t3, fref', tlb')
      BY <1>0, <1>5, <2>1, <2>2, <2>5, <2>6 DEF Base
    <2>. QED BY ZenonT(30), <1>5, <2>6, <2>7, RowCore
  <1>. HIDE DEF free, at, q, t2, k2, t3, k3
  <1>. QED BY <1>2, <1>3, <1>4, <1>5

LEMMA ForkCore ==
    ASSUME CoreInv, NEW p \in Procs, NEW c \in Procs, Fork(p, c)
    PROVE  CoreInv' /\ \A q \in Procs \ {p, c} : pt'[q] = pt[q]
  <1>. DEFINE t == CowTable(p, Space)
              q == [pt EXCEPT ![p] = t]
  <1>1. /\ cur = p /\ state[p] = "live" /\ state[c] = "unused" /\ c # p
        /\ pt' = [pt EXCEPT ![p] = t, ![c] = t] /\ state' = [state EXCEPT ![c] = "live"]
        /\ fref' = [f \in Frames |-> fref[f] + Cardinality({a \in Pages : pt[p][a].f = f})]
        /\ tlb' = NoTlb /\ UNCHANGED <<cur, data>>
    BY DEF Fork, Running
  <1>2. /\ pt \in [Procs -> Tables] /\ fref \in [Frames -> Nat] /\ Counts(fref, pt) /\ pt[c] = EmptyPt
        /\ state \in [Procs -> {"unused", "live", "zombie"}] /\ p # None /\ NoTlb \in Tables
    BY <1>1, Sizes, Entries DEF CoreInv, TypeOK, Tables
  <1>3. t \in Tables /\ \A a \in Pages : t[a].f = pt[p][a].f
    <2>1. pt[p] \in [Pages -> Ptes]
      BY <1>2 DEF Tables
    <2>2. \A a \in Pages : CowPte(p, a) \in Ptes /\ CowPte(p, a).f = pt[p][a].f
      BY ZenonT(30), <2>1 DEF CowPte, Ptes
    <2>. QED BY <2>1, <2>2 DEF CowTable, Tables
  <1>. HIDE DEF t
  <1>4. Counts(fref, q)
    <2>1. \A o \in Procs, a \in Pages : q[o][a].f = pt[o][a].f
      BY <1>2, <1>3
    <2>. HIDE DEF q
    <2>. QED BY <1>2, <2>1, CountsSame
  <1>5. q[c] = EmptyPt /\ pt'[c] = t /\ (\A o \in Procs \ {c} : pt'[o] = q[o])
        /\ (\A o \in Procs \ {p, c} : pt'[o] = pt[o]) /\ pt' \in [Procs -> Tables]
    BY <1>1, <1>2, <1>3
  <1>. HIDE DEF q
  <1>6. Counts(fref', pt')
    <2>1. ASSUME NEW f \in Frames
          PROVE  fref'[f] = fref[f] - Cardinality(Held(q[c], f)) + Cardinality(Held(pt'[c], f))
      <3>1. Held(q[c], f) = {}
        BY <1>5, Sizes DEF Held, EmptyPt, NoPte
      <3>2. Held(pt'[c], f) = {a \in Pages : pt[p][a].f = f}
        BY <1>3, <1>5 DEF Held
      <3>3. Cardinality(Held(q[c], f)) = 0
        BY <3>1, FS_EmptySet
      <3>4. fref[f] \in Nat /\ Cardinality(Held(pt'[c], f)) \in Nat
        BY <1>2, HeldSizes
      <3>5. fref'[f] = fref[f] + Cardinality(Held(pt'[c], f))
        BY ZenonT(30), <1>1, <3>2
      <3>. QED BY <3>3, <3>4, <3>5
    <2>. QED BY <1>4, <1>5, <2>1, CountsChanged
  <1>7. fref' \in [Frames -> Nat]
    BY <1>1, <1>6, CountsNat
  <1>8. TypeOK'
    BY ZenonT(30), <1>1, <1>2, <1>5, <1>7 DEF CoreInv, TypeOK, Tables
  <1>9. TlbAgrees'
    BY <1>1, Entries DEF TlbAgrees, NoTlb, EmptyPt
  <1>10. \A o \in Procs : state'[o] = "unused" => pt'[o] = EmptyPt
    BY <1>1, <1>2, <1>5 DEF CoreInv
  <1>11. state'[cur'] = "live"
    BY <1>1, <1>2
  <1>. QED BY <1>5, <1>6, <1>8, <1>9, <1>10, <1>11 DEF CoreInv, Counts, Named

LEMMA ForkFailsCore ==
    ASSUME CoreInv, NEW p \in Procs, NEW n, ForkFails(p, n)
    PROVE  CoreInv' /\ \A q \in Procs \ {p} : pt'[q] = pt[q]
  <1>. DEFINE t == CowTable(p, n + 1)
  <1>1. cur = p /\ pt' = [pt EXCEPT ![p] = t] /\ UNCHANGED <<state, cur, fref, data, tlb>>
    BY DEF ForkFails, Running
  <1>2. /\ pt \in [Procs -> Tables] /\ fref \in [Frames -> Nat] /\ Counts(fref, pt) /\ tlb \in Tables
        /\ data \in [Frames -> Values] /\ pt[p] \in [Pages -> Ptes]
    BY DEF CoreInv, TypeOK, Tables
  <1>3. \A a \in Pages : t[a] \in Ptes /\ t[a].f = pt[p][a].f /\ (t[a].w => pt[p][a].w)
    <2>1. \A a \in Pages : CowPte(p, a) \in Ptes /\ CowPte(p, a).f = pt[p][a].f /\ (CowPte(p, a).w => pt[p][a].w)
      BY ZenonT(30), <1>2 DEF CowPte, Ptes
    <2>. QED BY <1>2, <2>1 DEF CowTable
  <1>4. t \in Tables
    BY <1>3 DEF CowTable, Tables
  <1>. HIDE DEF t
  <1>5. Counts(fref, pt')
    <2>1. \A o \in Procs, a \in Pages : pt'[o][a].f = pt[o][a].f
      BY <1>1, <1>2, <1>3
    <2>. QED BY <1>2, <2>1, CountsSame
  <1>6. Agree(tlb, t)
    BY <1>1, <1>3 DEF Agree, CoreInv, TlbAgrees
  <1>7. Base(p, t, fref', tlb') /\ data' \in [Frames -> Values]
    BY <1>1, <1>2, <1>4, <1>5, <1>6 DEF Base
  <1>. QED BY ZenonT(30), <1>1, <1>7, RowCore

LEMMA ExecCore ==
    ASSUME CoreInv, NEW p \in Procs, Exec(p)
    PROVE  CoreInv' /\ \A q \in Procs \ {p} : pt'[q] = pt[q]
  <1>. DEFINE at   == Placed(ExecPages, FreeFrames)
              t    == ExecTable(at)
              refs == Released(fref, pt[p], Pages)
              q    == [pt EXCEPT ![p] = EmptyPt]
  <1>1. /\ cur = p /\ Cardinality(FreeFrames) >= Cardinality(ExecPages)
        /\ fref' = Given(refs, at) /\ data' = Filled(at, Image) /\ pt' = [pt EXCEPT ![p] = t]
        /\ tlb' = NoTlb /\ UNCHANGED <<state, cur>>
    BY DEF Exec, Running
  <1>2. /\ pt \in [Procs -> Tables] /\ fref \in [Frames -> Nat] /\ Counts(fref, pt)
        /\ data \in [Frames -> Values] /\ NoTlb \in Tables
    BY Entries DEF CoreInv, TypeOK, Tables
  <1>3. at \in [ExecPages -> Frames] /\ (\A a \in ExecPages : fref[at[a]] = 0)
        /\ \A a, b \in ExecPages : at[a] = at[b] => a = b
    <2>1. ExecPages \in SUBSET Pages /\ FreeFrames \in SUBSET Frames
      BY ExecWithin DEF FreeFrames
    <2>2. IsFiniteSet(ExecPages) /\ IsFiniteSet(FreeFrames)
      BY ZenonT(30), <2>1, Sizes, FS_Subset
    <2>3. ExecPages \subseteq Int /\ FreeFrames \subseteq Int
      BY <2>1, Sizes
    <2>4. Cardinality(ExecPages) \in Nat /\ Cardinality(FreeFrames) \in Nat
      BY ZenonT(30), <2>2, FS_CardinalityType
    <2>5. Cardinality(ExecPages) <= Cardinality(FreeFrames)
      BY <1>1, <2>4
    <2>6. at \in [ExecPages -> FreeFrames] /\ \A a, b \in ExecPages : at[a] = at[b] => a = b
      BY ZenonT(30), <2>2, <2>3, <2>5, PlacedApart
    <2>. HIDE DEF at
    <2>. QED BY <2>6 DEF FreeFrames
  <1>. HIDE DEF at
  <1>4. t \in Tables /\ (\A a \in ExecPages : t[a].f = at[a]) /\ (\A a \in Pages \ ExecPages : t[a] = NoPte)
    BY <1>3, ExecWithin, Entries DEF ExecTable, Tables, Ptes
  <1>. HIDE DEF t
  <1>5. q[p] = EmptyPt /\ \A o \in Procs \ {p} : q[o] = pt[o]
    BY <1>2
  <1>6. pt'[p] = t /\ \A o \in Procs \ {p} : pt'[o] = q[o] /\ pt'[o] = pt[o]
    BY <1>1, <1>2
  <1>. HIDE DEF q
  <1>7. Counts(refs, q)
    <2>1. Freeing(pt, p, Pages, q)
      BY <1>5 DEF Freeing, EmptyPt
    <2>. QED BY <1>2, <2>1, CountsFreed
  <1>8. \A a \in ExecPages : refs[at[a]] = 0
    <2>. TAKE a \in ExecPages
    <2>1. Held(pt[p], at[a]) = {} /\ at[a] \in Frames
      BY <1>2, <1>3, FreeUnnamed
    <2>2. refs[at[a]] = fref[at[a]] - Cardinality(Held(pt[p], at[a]))
      BY <2>1 DEF Released, Held
    <2>3. Cardinality({}) = 0
      BY FS_EmptySet
    <2>. QED BY <1>3, <2>1, <2>2, <2>3
  <1>. HIDE DEF refs
  <1>9. Placing(refs, q, p, ExecPages, at, pt')
    <2>1. \A a \in Pages : q[p][a] = NoPte
      BY <1>5 DEF EmptyPt
    <2>. QED BY <1>3, <1>4, <1>5, <1>6, <1>8, <2>1, ExecWithin, Entries DEF Placing
  <1>10. Counts(fref', pt')
    BY <1>1, <1>7, <1>9, CountsGiven
  <1>11. fref' = [f \in Frames |-> fref'[f]] /\ data' \in [Frames -> Values]
    BY <1>1, <1>2 DEF Given, Filled, Values, Image
  <1>12. Agree(NoTlb, t)
    BY Entries DEF Agree, NoTlb, EmptyPt
  <1>13. Base(p, t, fref', tlb')
    BY <1>1, <1>2, <1>4, <1>10, <1>11, <1>12 DEF Base
  <1>. QED BY ZenonT(30), <1>1, <1>11, <1>13, RowCore

LEMMA ReapCore ==
    ASSUME CoreInv, NEW p \in Procs, Reap(p)
    PROVE  CoreInv' /\ \A q \in Procs \ {p} : pt'[q] = pt[q]
  <1>1. /\ state[p] = "zombie" /\ state' = [state EXCEPT ![p] = "unused"]
        /\ fref' = Released(fref, pt[p], Pages) /\ pt' = [pt EXCEPT ![p] = EmptyPt]
        /\ UNCHANGED <<cur, data, tlb>>
    BY DEF Reap
  <1>2. /\ pt \in [Procs -> Tables] /\ fref \in [Frames -> Nat] /\ Counts(fref, pt)
        /\ state \in [Procs -> {"unused", "live", "zombie"}] /\ EmptyPt \in Tables
    BY Entries DEF CoreInv, TypeOK, Tables
  <1>3. /\ pt' \in [Procs -> Tables] /\ pt'[p] = EmptyPt /\ \A q \in Procs \ {p} : pt'[q] = pt[q]
        /\ state' \in [Procs -> {"unused", "live", "zombie"}]
    BY <1>1, <1>2
  <1>4. Counts(fref', pt')
    <2>1. Freeing(pt, p, Pages, pt')
      BY <1>3 DEF Freeing, EmptyPt
    <2>. QED BY <1>1, <1>2, <2>1, CountsFreed
  <1>5. fref' \in [Frames -> Nat]
    BY <1>1, <1>4, CountsNat DEF Released
  <1>6. TypeOK'
    BY <1>1, <1>3, <1>5 DEF CoreInv, TypeOK, Tables
  <1>7. cur # None => cur \in Procs \ {p}
    BY <1>1 DEF CoreInv, TypeOK
  <1>8. TlbAgrees'
    BY <1>1, <1>3, <1>7 DEF CoreInv, TlbAgrees
  <1>9. \A o \in Procs : state'[o] = "unused" => pt'[o] = EmptyPt
    BY <1>1, <1>2, <1>3 DEF CoreInv
  <1>10. cur' # None => state'[cur'] = "live"
    BY <1>1, <1>2, <1>7 DEF CoreInv
  <1>. QED BY <1>3, <1>4, <1>6, <1>8, <1>9, <1>10 DEF CoreInv, Counts, Named

(* What a running process does to its own pages, between faults            *)
Remaps(p) ==
    \/ Exec(p)
    \/ \E a \in Touches : ForkFails(p, a)
    \/ \E n \in {-1, 1} : Sbrk(p, n)
    \/ \E a \in Addrs, len \in 1 .. MaxMap : Munmap(p, a, len)
    \/ \E len \in 1 .. MaxMap, prot \in Prots, s \in Shares :
          Mmap(p, len, prot, s) \/ \E a \in Addrs : MmapFixed(p, a, len, prot, s)

LEMMA MmapCore ==
    ASSUME CoreInv, NEW p \in Procs, NEW len \in 1 .. MaxMap, NEW prot, NEW s,
           Mmap(p, len, prot, s) \/ \E a \in Addrs : MmapFixed(p, a, len, prot, s)
    PROVE  CoreInv' /\ \A q \in Procs \ {p} : pt'[q] = pt[q]
  <1>1. ASSUME Mmap(p, len, prot, s)
        PROVE  CoreInv' /\ \A q \in Procs \ {p} : pt'[q] = pt[q]
    <2>. DEFINE start == Place(regions[p], brk[p], len)
    <2>1. /\ MapAt(p, start, len, prot, s, regions[p], pt[p], fref, tlb)
          /\ UNCHANGED <<state, cur>> /\ cur = p
      BY <1>1 DEF Mmap, Running
    <2>2. Base(p, pt[p], fref, tlb)
      <3>1. [pt EXCEPT ![p] = pt[p]] = pt
        BY DEF CoreInv, TypeOK
      <3>2. pt[p] \in Tables /\ fref = [f \in Frames |-> fref[f]] /\ tlb \in Tables /\ p # None
        BY Sizes DEF CoreInv, TypeOK, Tables
      <3>3. Agree(tlb, pt[p])
        BY <2>1 DEF CoreInv, TlbAgrees, Agree
      <3>. QED BY <3>1, <3>2, <3>3 DEF Base, CoreInv
    <2>. HIDE DEF start
    <2>. QED BY <2>1, <2>2, MapCore
  <1>2. ASSUME NEW a \in Addrs, MmapFixed(p, a, len, prot, s)
        PROVE  CoreInv' /\ \A q \in Procs \ {p} : pt'[q] = pt[q]
    <2>. DEFINE S == a .. a + len - 1
                t == [b \in Pages |-> IF b \in S THEN NoPte ELSE pt[p][b]]
                rs(split) == CutRegions(regions[p], a, a + len, split)
    <2>1. /\ \E split \in {TRUE, "split" \notin Failures} :
                MapAt(p, a, len, prot, s, rs(split), t, Released(fref, pt[p], S), Flushed(pt[p], S))
          /\ UNCHANGED <<state, cur>> /\ cur = p
      BY ZenonT(30), <1>2 DEF MmapFixed, Running
    <2>2. S \subseteq Pages
      <3>1. /\ a \in Nat /\ USER_BASE <= a /\ a + len <= STACK_LOW /\ USER_BASE \in Nat /\ STACK_LOW \in Nat
            /\ MaxMap \in Nat /\ STACK_LOW < STACK_TOP /\ STACK_TOP < Space /\ STACK_TOP \in Nat /\ Space \in Nat
        BY <1>2, VmAssumption DEF MmapFixed
      <3>. QED BY <3>1 DEF Pages
    <2>. HIDE DEF S, rs
    <2>3. Base(p, t, Released(fref, pt[p], S), Flushed(pt[p], S))
      BY <2>1, <2>2, FreedBase
    <2>. HIDE DEF t
    <2>. QED BY <2>1, <2>3, MapCore
  <1>. QED BY <1>1, <1>2

LEMMA RemapsCore ==
    ASSUME CoreInv, NEW p \in Procs, Remaps(p)
    PROVE  /\ CoreInv' /\ Running(p) /\ UNCHANGED <<state, retry>>
           /\ \A q \in Procs \ {p} : pt'[q] = pt[q]
  <1>. DEFINE Kept == CoreInv' /\ \A q \in Procs \ {p} : pt'[q] = pt[q]
  <1>1. Running(p) /\ UNCHANGED <<state, retry>>
    BY ZenonT(30) DEF Remaps, Exec, ForkFails, Sbrk, Munmap, Mmap, MmapFixed
  <1>2. ASSUME Exec(p) PROVE Kept
    BY <1>2, ExecCore
  <1>3. ASSUME NEW a \in Touches, ForkFails(p, a) PROVE Kept
    BY <1>3, ForkFailsCore
  <1>4. ASSUME NEW n \in {-1, 1}, Sbrk(p, n) PROVE Kept
    <2>1. cur = p /\ UNCHANGED <<state, cur, data>>
      BY <1>4 DEF Sbrk, Running
    <2>2. FreeUser(p, Wrapped(brk[p] + n), brk[p]) \/ UNCHANGED <<fref, pt, tlb>>
      BY <1>4 DEF Sbrk
    <2>3. ASSUME UNCHANGED <<fref, pt, tlb>> PROVE Kept
      BY <2>1, <2>3 DEF CoreInv, TypeOK, Counts, Named, TlbAgrees
    <2>4. ASSUME FreeUser(p, Wrapped(brk[p] + n), brk[p]) PROVE Kept
      BY <2>1, <2>4, FreeCore
    <2>. QED BY <2>2, <2>3, <2>4
  <1>5. ASSUME NEW a \in Addrs, NEW len \in 1 .. MaxMap, Munmap(p, a, len) PROVE Kept
    <2>1. cur = p /\ UNCHANGED <<state, cur, data>> /\ FreeUser(p, a, a + len)
      BY <1>5 DEF Munmap, Running
    <2>. QED BY <2>1, FreeCore
  <1>6. ASSUME NEW len \in 1 .. MaxMap, NEW prot \in Prots, NEW s \in Shares,
               Mmap(p, len, prot, s) \/ \E a \in Addrs : MmapFixed(p, a, len, prot, s)
        PROVE  Kept
    BY ZenonT(30), <1>6, MmapCore
  <1>. HIDE DEF Kept
  <1>7. Kept
    BY <1>2, <1>3, <1>4, <1>5, <1>6 DEF Remaps
  <1>. QED BY <1>1, <1>7 DEF Kept

(* The steps, by what they do                                              *)
Steps(p) ==
    \/ \E a \in Touches, acc \in Accesses : Access(p, a, acc, 2) \/ Fault(p, a, acc)
    \/ \E a \in Touches : UserOk(p, a) \/ CopyOut(p, a, 2)
    \/ Switch(p) \/ Exit(p) \/ Reap(p) \/ Remaps(p)
    \/ \E c \in Procs : Fork(p, c)

LEMMA NextSteps == Next => \E p \in Procs : Steps(p)
  <1>. SUFFICES ASSUME NEW p \in Procs,
        \/ \E a \in Touches, acc \in Accesses, v \in {2} : Access(p, a, acc, v) \/ Fault(p, a, acc)
        \/ \E a \in Touches : UserOk(p, a) \/ CopyOut(p, a, 2) \/ ForkFails(p, a)
        \/ Switch(p) \/ Exec(p) \/ Exit(p) \/ Reap(p)
        \/ \E c \in Procs : Fork(p, c)
        \/ \E n \in {-1, 1} : Sbrk(p, n)
        \/ \E a \in Addrs, len \in 1 .. MaxMap : Munmap(p, a, len)
        \/ \E len \in 1 .. MaxMap, prot \in Prots, s \in Shares :
              Mmap(p, len, prot, s) \/ \E a \in Addrs : MmapFixed(p, a, len, prot, s)
                PROVE  Steps(p)
    BY ZenonT(30) DEF Next
  <1>. QED BY ZenonT(30) DEF Steps, Remaps

LEMMA Touched == Touches \subseteq Pages
  <1>1. /\ Touches \subseteq USER_BASE .. STACK_TOP - 1 /\ USER_BASE \in Nat
        /\ STACK_TOP \in Nat /\ Space \in Nat /\ STACK_TOP < Space
    BY VmAssumption
  <1>. QED BY <1>1 DEF Pages

LEMMA CoreStep ==
    ASSUME CoreInv, [Next]_vars
    PROVE  CoreInv'
  <1>1. CASE UNCHANGED vars
    BY <1>1 DEF vars, CoreInv, TypeOK, Counts, Named, TlbAgrees
  <1>2. ASSUME NEW p \in Procs, Steps(p) PROVE CoreInv'
    <2>1. ASSUME NEW a \in Touches, NEW acc \in Accesses, Access(p, a, acc, 2) PROVE CoreInv'
      <3>1. cur = p /\ Touch(p, a, acc, 2) /\ UNCHANGED <<state, cur>> /\ a \in Pages
        BY <2>1, Touched DEF Access
      <3>. QED BY <3>1, TouchCore
    <2>2. ASSUME NEW a \in Touches, NEW acc \in Accesses, Fault(p, a, acc) PROVE CoreInv'
      <3>1. cur = p /\ Served(p, a, acc) /\ UNCHANGED <<state, cur>> /\ a \in Pages
        BY <2>2, Touched DEF Fault
      <3>. QED BY <3>1, ServedCore
    <2>3. ASSUME NEW a \in Touches, UserOk(p, a) PROVE CoreInv'
      <3>1. /\ cur = p /\ (Served(p, a, "w") \/ UNCHANGED <<fref, data, pt, tlb>>)
            /\ UNCHANGED <<state, cur>> /\ a \in Pages
        BY <2>3, Touched DEF UserOk, Running
      <3>2. UNCHANGED <<fref, data, pt, tlb>> => CoreInv'
        BY <3>1 DEF CoreInv, TypeOK, Counts, Named, TlbAgrees
      <3>. QED BY <3>1, <3>2, ServedCore
    <2>4. ASSUME NEW a \in Touches, CopyOut(p, a, 2) PROVE CoreInv'
      <3>1. cur = p /\ Touch(p, a, "w", 2) /\ UNCHANGED <<state, cur>> /\ a \in Pages
        BY <2>4, Touched DEF CopyOut
      <3>. QED BY <3>1, TouchCore
    <2>5. ASSUME Switch(p) \/ Exit(p) PROVE CoreInv'
      <3>1. /\ tlb' = NoTlb /\ UNCHANGED <<fref, data, pt>>
            /\ \/ state[p] = "live" /\ cur' = p /\ state' = state
               \/ cur' = None /\ state' = [state EXCEPT ![p] = "zombie"]
        BY <2>5 DEF Switch, Exit
      <3>2. state \in [Procs -> {"unused", "live", "zombie"}] /\ NoTlb \in Tables
        BY Entries DEF CoreInv, TypeOK
      <3>3. TypeOK'
        BY <3>1, <3>2 DEF CoreInv, TypeOK, Tables
      <3>4. TlbAgrees'
        BY <3>1, Entries DEF TlbAgrees, NoTlb, EmptyPt
      <3>5. \A q \in Procs : state'[q] = "unused" => state[q] = "unused"
        BY <3>1, <3>2
      <3>6. cur' # None => state'[cur'] = "live"
        BY <3>1
      <3>. QED BY <3>1, <3>3, <3>4, <3>5, <3>6 DEF CoreInv, Counts, Named
    <2>. QED BY <1>2, <2>1, <2>2, <2>3, <2>4, <2>5, ReapCore, RemapsCore, ForkCore DEF Steps
  <1>. QED BY <1>1, <1>2, NextSteps

LEMMA CoreInit == Init => CoreInv
  <1>. SUFFICES ASSUME Init PROVE CoreInv
    OBVIOUS
  <1>. DEFINE at   == [a \in ExecPages |-> Rank(ExecPages, a)]
              t    == ExecTable(at)
              none == [f \in Frames |-> 0]
              q    == [p \in Procs |-> EmptyPt]
              N    == Cardinality(ExecPages)
  <1>0. /\ state = [p \in Procs |-> IF p = 1 THEN "live" ELSE "unused"] /\ cur = 1
        /\ fref = [f \in Frames |-> IF f <= N THEN 1 ELSE 0]
        /\ data = [f \in Frames |-> IF f <= N THEN Image ELSE Zero]
        /\ pt = [p \in Procs |-> IF p = 1 THEN t ELSE EmptyPt] /\ tlb = NoTlb
    BY DEF Init
  <1>1. 1 \in Procs /\ N \in Nat /\ N <= NFRAMES /\ NFRAMES \in Nat /\ IsFiniteSet(ExecPages) /\ ExecPages \subseteq Int
    <2>1. NPROC \in Nat /\ NPROC > 0 /\ N <= NFRAMES /\ NFRAMES \in Nat
      BY VmAssumption, ExecFits
    <2>2. ExecPages \in SUBSET Pages
      BY ExecWithin
    <2>3. IsFiniteSet(ExecPages)
      BY ZenonT(30), <2>2, Sizes, FS_Subset
    <2>4. ExecPages \subseteq Int
      BY <2>2, Sizes
    <2>5. N \in Nat
      BY <2>3, FS_CardinalityType
    <2>. QED BY <2>1, <2>3, <2>4, <2>5 DEF Procs
  <1>2. /\ \A a \in ExecPages : Rank(ExecPages, a) \in 1 .. N
        /\ \A a, b \in ExecPages : Rank(ExecPages, a) = Rank(ExecPages, b) => a = b
        /\ \A k \in 1 .. N : \E a \in ExecPages : Rank(ExecPages, a) = k
    BY ZenonT(30), <1>1, RankOrder
  <1>. HIDE DEF N
  <1>3. at \in [ExecPages -> Frames] /\ (\A a, b \in ExecPages : at[a] = at[b] => a = b)
    BY <1>1, <1>2 DEF Frames
  <1>4. Given(none, at) = fref
    <2>1. ASSUME NEW f \in Frames
          PROVE  (\E a \in ExecPages : at[a] = f) <=> f <= N
      <3>1. f <= N => f \in 1 .. N
        BY <1>1 DEF Frames
      <3>. QED BY <1>1, <1>2, <3>1
    <2>. HIDE DEF at
    <2>2. DOMAIN at = ExecPages
      BY <1>3
    <2>. QED BY <1>0, <2>1, <2>2 DEF Given
  <1>. HIDE DEF at
  <1>5. t \in Tables /\ (\A a \in ExecPages : t[a].f = at[a]) /\ (\A a \in Pages \ ExecPages : t[a] = NoPte)
    BY <1>3, ExecWithin, Entries DEF ExecTable, Tables, Ptes
  <1>. HIDE DEF t
  <1>6. Counts(none, q)
    <2>1. \A f \in Frames : Named(q, f) = {}
      BY Sizes DEF Named, EmptyPt, NoPte
    <2>. QED BY <2>1, FS_EmptySet DEF Counts
  <1>7. Placing(none, q, 1, ExecPages, at, pt)
    <2>1. \A a \in Pages : q[1][a] = NoPte
      BY <1>1 DEF EmptyPt
    <2>2. \A a \in ExecPages : none[at[a]] = 0
      BY <1>3
    <2>3. pt[1] = t /\ \A o \in Procs \ {1} : pt[o] = q[o]
      BY <1>0, <1>1
    <2>. HIDE DEF none, q
    <2>. QED BY <1>1, <1>3, <1>5, <2>1, <2>2, <2>3, ExecWithin, Entries DEF Placing
  <1>8. Counts(fref, pt)
    <2>. HIDE DEF none, q
    <2>. QED BY <1>4, <1>6, <1>7, CountsGiven
  <1>9. fref \in [Frames -> Nat] /\ data \in [Frames -> Values]
    BY <1>0 DEF Values, Image, Zero
  <1>10. pt \in [Procs -> Tables] /\ tlb \in Tables /\ EmptyPt \in Tables
    BY <1>0, <1>5, Entries
  <1>11. TypeOK
    BY <1>0, <1>1, <1>9, <1>10 DEF TypeOK, Tables
  <1>12. TlbAgrees
    BY <1>0, Entries DEF TlbAgrees, NoTlb, EmptyPt
  <1>13. \A p \in Procs : state[p] = "unused" => pt[p] = EmptyPt
    BY <1>0
  <1>. QED BY <1>0, <1>1, <1>8, <1>11, <1>12, <1>13 DEF CoreInv

(* Over faults, copy on write, fork and failed forks, mmap, munmap, sbrk,  *)
(* exec and exit, every frame has as many references as page table entries *)
(* name it (frame_alloc, frame_ref, frame_free).                           *)
THEOREM FramesStayCounted == Spec => []FramesCounted
  <1>1. CoreInv /\ [Next]_vars => CoreInv'
    BY CoreStep
  <1>2. CoreInv => FramesCounted
    BY DEF CoreInv, Counts, Named, FramesCounted
  <1>. QED BY <1>1, <1>2, CoreInit, PTL DEF Spec

(* The translations the processor keeps lead where the page table of the   *)
(* running process does, also where a failed fork left them unflushed      *)
(* (flush_if_current, tlbflush, set_ptbase).                               *)
THEOREM TranslationsAgree == Spec => []TlbAgrees
  <1>1. CoreInv /\ [Next]_vars => CoreInv'
    BY CoreStep
  <1>2. CoreInv => TlbAgrees
    BY DEF CoreInv
  <1>. QED BY <1>1, <1>2, CoreInit, PTL DEF Spec

(* Accesses to be repeated are of the right kind, and only live processes  *)
(* have one                                                                *)
FaultInv ==
    /\ CoreInv /\ FaultResolved
    /\ retry \in [Procs -> (Touches \X {"r", "w", "copy"}) \cup {NoRetry}]
    /\ \A p \in Procs : state[p] # "live" => retry[p] = NoRetry

(* After fault_in the page table allows the access                         *)
LEMMA ServedAllows ==
    ASSUME CoreInv, NEW p \in Procs, NEW a \in Pages, NEW acc \in {"r", "w"}, Served(p, a, acc)
    PROVE  Allowed(pt'[p][a], acc)
  <1>. DEFINE i == FindRegion(regions[p], a)
              n == Min(FreeFrames)
              o == pt[p][a].f
  <1>0. pt \in [Procs -> Tables]
    BY DEF CoreInv, TypeOK, Tables
  <1>1. acc = "w" => "w" \in regions[p][i].prot
    BY DEF Served
  <1>2. \/ FreeFrames # {} /\ pt' = [pt EXCEPT ![p][a] = RegionPte(regions[p][i], n)]
        \/ o # None /\ pt' = [pt EXCEPT ![p][a] = RegionPte(regions[p][i], o)]
        \/ o # None /\ (acc = "w" => pt[p][a].w) /\ UNCHANGED pt
    BY DEF Served
  <1>3. FreeFrames # {} => n # None
    BY LowestFree, Sizes
  <1>. HIDE DEF i, n
  <1>4. \A f : f # None => Allowed(RegionPte(regions[p][i], f), acc)
    BY ZenonT(30), <1>1 DEF Allowed, RegionPte
  <1>5. \A f : pt' = [pt EXCEPT ![p][a] = RegionPte(regions[p][i], f)] => pt'[p][a] = RegionPte(regions[p][i], f)
    BY <1>0 DEF Tables
  <1>6. ASSUME o # None, acc = "w" => pt[p][a].w, UNCHANGED pt PROVE Allowed(pt'[p][a], acc)
    BY <1>6 DEF Allowed
  <1>. QED BY <1>2, <1>3, <1>4, <1>5, <1>6

(* Other processes keep their pages and what they repeat                   *)
LEMMA OthersResolved ==
    ASSUME FaultInv, CoreInv', NEW p \in Procs, NEW x \in (Touches \X {"r", "w", "copy"}) \cup {NoRetry},
           retry' = [retry EXCEPT ![p] = x], \A q \in Procs \ {p} : pt'[q] = pt[q],
           x # NoRetry => /\ state'[p] = "live"
                          /\ Allowed(pt'[p][x[1]], IF x[2] = "copy" THEN "w" ELSE x[2]),
           \A q \in Procs \ {p} : state'[q] = state[q]
    PROVE  FaultInv'
  <1>1. retry' \in [Procs -> (Touches \X {"r", "w", "copy"}) \cup {NoRetry}] /\ retry'[p] = x
        /\ \A q \in Procs \ {p} : retry'[q] = retry[q]
    BY DEF FaultInv
  <1>2. FaultResolved'
    <2>. SUFFICES ASSUME NEW q \in Procs, retry'[q] # NoRetry
                  PROVE  Allowed(pt'[q][retry'[q][1]], IF retry'[q][2] = "copy" THEN "w" ELSE retry'[q][2])
      BY DEF FaultResolved, Allowed, NoRetry
    <2>1. CASE q = p
      BY <1>1, <2>1
    <2>2. CASE q # p
      <3>1. retry'[q] = retry[q] /\ pt'[q] = pt[q]
        BY <1>1, <2>2
      <3>. QED BY <3>1 DEF FaultInv, FaultResolved
    <2>. QED BY <2>1, <2>2
  <1>3. \A q \in Procs : state'[q] # "live" => retry'[q] = NoRetry
    BY <1>1 DEF FaultInv
  <1>. QED BY <1>1, <1>2, <1>3 DEF FaultInv, NoRetry

LEMMA FaultStep ==
    ASSUME FaultInv, [Next]_vars, Accesses \subseteq {"r", "w"}
    PROVE  FaultInv'
  <1>0. CoreInv'
    BY CoreStep DEF FaultInv
  <1>1. CASE UNCHANGED vars
    BY <1>0, <1>1 DEF vars, FaultInv, FaultResolved, Allowed, NoRetry
  <1>a. /\ CoreInv /\ retry \in [Procs -> (Touches \X {"r", "w", "copy"}) \cup {NoRetry}]
        /\ state \in [Procs -> {"unused", "live", "zombie"}]
    BY DEF FaultInv, CoreInv, TypeOK
  <1>2. ASSUME NEW p \in Procs, Steps(p) PROVE FaultInv'
    <2>. DEFINE Goes(x) == retry' = [retry EXCEPT ![p] = x]
                Others  == /\ \A q \in Procs \ {p} : pt'[q] = pt[q]
                           /\ \A q \in Procs \ {p} : state'[q] = state[q]
    <2>0. ASSUME Others, Goes(NoRetry) PROVE FaultInv'
      BY ZenonT(30), <1>0, <2>0, OthersResolved
    <2>00. ASSUME Others, UNCHANGED retry, retry[p] = NoRetry PROVE FaultInv'
      <3>1. Goes(NoRetry)
        BY <1>a, <2>00
      <3>. QED BY ZenonT(30), <2>0, <2>00, <3>1
    <2>1. ASSUME NEW a \in Touches, NEW acc \in Accesses, Access(p, a, acc, 2) PROVE FaultInv'
      BY <2>0, <2>1 DEF Access, Touch
    <2>2. ASSUME NEW a \in Touches, NEW acc \in Accesses, Fault(p, a, acc) PROVE FaultInv'
      <3>1. /\ cur = p /\ state[p] = "live" /\ Served(p, a, acc) /\ UNCHANGED <<state, cur>>
            /\ a \in Pages /\ Goes(<<a, acc>>) /\ acc \in {"r", "w"}
        BY ZenonT(30), <2>2, Touched DEF Fault
      <3>2. Others
        BY <1>a, <3>1, ServedCore
      <3>3. Allowed(pt'[p][a], acc)
        BY <1>a, <3>1, ServedAllows
      <3>4. <<a, acc>> \in Touches \X {"r", "w", "copy"} /\ <<a, acc>>[1] = a /\ <<a, acc>>[2] = acc /\ acc # "copy"
        BY <3>1
      <3>. QED BY ZenonT(30), <1>0, <3>1, <3>2, <3>3, <3>4, OthersResolved
    <2>3. ASSUME NEW a \in Touches, UserOk(p, a) PROVE FaultInv'
      <3>1. /\ cur = p /\ state[p] = "live" /\ UNCHANGED <<state, cur>>
            /\ Served(p, a, "w") \/ (Allowed(pt[p][a], "w") /\ UNCHANGED pt)
            /\ a \in Pages /\ Goes(<<a, "copy">>)
        BY <2>3, Touched DEF UserOk, Running
      <3>2. Others
        BY <1>a, <3>1, ServedCore
      <3>3. Allowed(pt'[p][a], "w")
        <4>1. ASSUME Served(p, a, "w") PROVE Allowed(pt'[p][a], "w")
          BY <1>a, <3>1, <4>1, ServedAllows
        <4>2. ASSUME Allowed(pt[p][a], "w"), UNCHANGED pt PROVE Allowed(pt'[p][a], "w")
          BY <4>2
        <4>. QED BY <3>1, <4>1, <4>2
      <3>4. /\ <<a, "copy">> \in Touches \X {"r", "w", "copy"}
            /\ <<a, "copy">>[1] = a /\ <<a, "copy">>[2] = "copy"
        OBVIOUS
      <3>. QED BY ZenonT(30), <1>0, <3>1, <3>2, <3>3, <3>4, OthersResolved
    <2>4. ASSUME NEW a \in Touches, CopyOut(p, a, 2) PROVE FaultInv'
      BY <2>0, <2>4 DEF CopyOut, Touch
    <2>5. ASSUME Exit(p) PROVE FaultInv'
      BY <1>a, <2>0, <2>5 DEF Exit
    <2>6. ASSUME Switch(p) PROVE FaultInv'
      BY <1>0, <2>6 DEF Switch, FaultInv, FaultResolved, Allowed, NoRetry
    <2>7. ASSUME Reap(p) PROVE FaultInv'
      <3>1. Others /\ UNCHANGED retry /\ retry[p] = NoRetry
        BY <1>a, <2>7 DEF Reap, FaultInv
      <3>. QED BY <2>00, <3>1
    <2>8. ASSUME Remaps(p) PROVE FaultInv'
      <3>1. Others /\ UNCHANGED retry /\ Running(p)
        BY <1>a, <2>8, RemapsCore
      <3>. QED BY <2>00, <3>1 DEF Running
    <2>9. ASSUME NEW c \in Procs, Fork(p, c) PROVE FaultInv'
      <3>1. /\ UNCHANGED retry /\ Running(p) /\ state[c] = "unused" /\ state' = [state EXCEPT ![c] = "live"]
        BY <2>9 DEF Fork
      <3>2. \A q \in Procs \ {p, c} : pt'[q] = pt[q]
        BY <1>a, <2>9, ForkCore
      <3>3. retry[p] = NoRetry /\ retry[c] = NoRetry
        BY <3>1 DEF FaultInv, Running
      <3>4. \A q \in Procs : state'[q] # "live" => state[q] # "live"
        BY <1>a, <3>1
      <3>5. FaultResolved'
        <4>. SUFFICES ASSUME NEW q \in Procs, retry'[q] # NoRetry
                      PROVE  Allowed(pt'[q][retry'[q][1]], IF retry'[q][2] = "copy" THEN "w" ELSE retry'[q][2])
          BY DEF FaultResolved, Allowed, NoRetry
        <4>1. retry'[q] = retry[q] /\ pt'[q] = pt[q]
          BY <3>1, <3>2, <3>3
        <4>. QED BY <4>1 DEF FaultInv, FaultResolved
      <3>. QED BY <1>0, <3>1, <3>4, <3>5 DEF FaultInv, NoRetry
    <2>. HIDE DEF Goes, Others
    <2>. QED BY <1>2, <2>1, <2>2, <2>3, <2>4, <2>5, <2>6, <2>7, <2>8, <2>9 DEF Steps
  <1>. QED BY <1>1, <1>2, NextSteps

(* Where programs read and write, and no page without the right to execute *)
(* is executed, every fault that is served lets the access through when it *)
(* is repeated (fault_in, the return of trap without a signal, user_ok).   *)
THEOREM FaultsStayResolved ==
    ASSUME Accesses \subseteq {"r", "w"}
    PROVE  Spec => []FaultResolved
  <1>1. Init => FaultInv
    <2>. SUFFICES ASSUME Init PROVE FaultInv
      OBVIOUS
    <2>1. CoreInv /\ retry = [p \in Procs |-> NoRetry]
      BY CoreInit DEF Init
    <2>. QED BY <2>1 DEF FaultInv, FaultResolved
  <1>2. FaultInv /\ [Next]_vars => FaultInv'
    BY FaultStep
  <1>3. FaultInv => FaultResolved
    BY DEF FaultInv
  <1>. QED BY <1>1, <1>2, <1>3, PTL DEF Spec
================================================================================
