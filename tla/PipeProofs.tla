----------------------------- MODULE PipeProofs ------------------------------
(* The references to the open files and the ends of the pipes, for tables  *)
(* of any size.  close, exec, exit and dup2 take several references at     *)
(* once, so the proofs first say what file_close leaves of the tables for  *)
(* any number of references gone, then treat the calls one by one.         *)
EXTENDS Pipe, Extremes, FiniteSetTheorems, TLAPS

(* The tables that carry references, as their declarations allow           *)
FileRecs == [ref : Nat, rp : Pipes \cup {None}, wp : Pipes \cup {None},
             rd : BOOLEAN, wr : BOOLEAN, nonblock : BOOLEAN]

TableTypes ==
    /\ files \in [Files -> FileRecs]
    /\ devs \in [Devs -> [used : BOOLEAN, ab : Pipes \cup {None}, ba : Pipes \cup {None},
                          opened : SUBSET {2, 3}]]
    /\ fds \in [Procs -> [FDs -> Files \cup {None}]]
    /\ cloexec \in [Procs -> SUBSET FDs]
    /\ call = [p \in Procs |-> call[p]] /\ \A p \in Procs : "op" \in DOMAIN call[p]

(* The inductive invariant: an unused process has no descriptors, so that  *)
(* fork overwrites none                                                    *)
RefInv ==
    /\ TableTypes
    /\ RefsCounted
    /\ \A p \in Procs : call[p] = Unused => \A d \in FDs : fds[p][d] = None

(* The descriptors that name f, in all tables and in one of them           *)
Held(F, f) == {x \in Procs \X FDs : F[x[1]][x[2]] = f}
Own(R, f)  == {d \in FDs : R[d] = f}

(* The tables are finite                                                   *)
LEMMA TablesFinite ==
    /\ IsFiniteSet(Procs) /\ IsFiniteSet(FDs) /\ IsFiniteSet(Files) /\ IsFiniteSet(Pipes)
    /\ Procs \subseteq Nat /\ FDs \subseteq Nat /\ Files \subseteq Nat /\ Pipes \subseteq Nat
    /\ None \notin Files /\ None \notin Pipes
  <1>1. NPROC \in Int /\ NFILE \in Int /\ NOFILE - 1 \in Int /\ NPIPE \in Int
    BY PipeAssumption
  <1>2. IsFiniteSet(1 .. NPROC) /\ IsFiniteSet(0 .. NOFILE - 1) /\ IsFiniteSet(1 .. NFILE) /\ IsFiniteSet(1 .. NPIPE)
    BY <1>1, FS_Interval
  <1>. QED BY <1>1, <1>2 DEF Procs, FDs, Files, Pipes, None

(* The search for a free slot finds one (file_alloc, fd_alloc, sys_pipe)   *)
LEMMA MinIsIn ==
    ASSUME NEW S, S \subseteq Nat, S # {}
    PROVE  Min(S) \in S
  BY ZenonT(30), LeastMember DEF Min

(* A search and the next one, among two or more                            *)
LEMMA TwoLeast ==
    ASSUME NEW S, S \subseteq Nat, IsFiniteSet(S), Cardinality(S) >= 2
    PROVE  Min(S) \in S /\ Min(S \ {Min(S)}) \in S /\ Min(S \ {Min(S)}) # Min(S)
  <1>1. S # {}
    BY FS_EmptySet
  <1>2. Min(S) \in S
    BY ZenonT(30), <1>1, MinIsIn
  <1>. DEFINE m == Min(S)
              T == S \ {m}
  <1>3. T # {}
    <2>1. SUFFICES ASSUME T = {} PROVE FALSE
      OBVIOUS
    <2>2. S = {m}
      BY <1>2, <2>1
    <2>3. Cardinality(S) = 1
      BY ZenonT(30), <2>2, FS_Singleton
    <2>. QED BY <2>3
  <1>4. Min(T) \in T
    BY ZenonT(30), <1>3, MinIsIn
  <1>. QED BY <1>2, <1>4

(* Where one table changes, the holders of a file change by that table     *)
LEMMA FdsCount ==
    ASSUME NEW E, NEW F, NEW p \in Procs, NEW f,
           \A q \in Procs \ {p}, d \in FDs : F[q][d] = E[q][d]
    PROVE  /\ Cardinality(Held(F, f)) = Cardinality(Held(E, f)) - Cardinality(Own(E[p], f))
                                                                + Cardinality(Own(F[p], f))
           /\ Cardinality(Held(E, f)) \in Nat /\ Cardinality(Held(F, f)) \in Nat
           /\ Cardinality(Own(E[p], f)) \in Nat /\ Cardinality(Own(F[p], f)) \in Nat
           /\ Cardinality(Own(E[p], f)) <= Cardinality(Held(E, f))
  <1>1. OneRow(Procs, FDs, p, Held(E, f), Held(F, f))
    BY TablesFinite DEF OneRow, Held
  <1>2. Row(FDs, p, Held(E, f)) = Own(E[p], f) /\ Row(FDs, p, Held(F, f)) = Own(F[p], f)
    BY DEF Row, Held, Own
  <1>. QED BY <1>1, <1>2, RowCount

(* RefsCounted, by the sets above                                          *)
LEMMA CountedHeld ==
    /\ RefsCounted <=> \A f \in Files : files[f].ref = Cardinality(Held(fds, f))
    /\ RefsCounted' <=> \A f \in Files : files'[f].ref = Cardinality(Held(fds', f))
  BY DEF RefsCounted, Held

(* A step that changes one table keeps the counts when it changes the      *)
(* count of every file by as much                                          *)
LEMMA OneTable ==
    ASSUME RefInv, NEW p \in Procs,
           \A q \in Procs \ {p}, d \in FDs : fds'[q][d] = fds[q][d],
           \A f \in Files : files'[f].ref = files[f].ref - Cardinality(Own(fds[p], f))
                                                         + Cardinality(Own(fds'[p], f))
    PROVE  RefsCounted'
  <1>1. \A f \in Files : files[f].ref = Cardinality(Held(fds, f))
    BY CountedHeld DEF RefInv
  <1>2. \A f \in Files : files'[f].ref = Cardinality(Held(fds', f))
    <2>. TAKE f \in Files
    <2>. DEFINE E == fds
                F == fds'
    <2>5. \A q \in Procs \ {p}, d \in FDs : F[q][d] = E[q][d]
      OBVIOUS
    <2>. HIDE DEF E, F
    <2>4. Cardinality(Held(F, f)) = Cardinality(Held(E, f)) - Cardinality(Own(E[p], f))
                                                            + Cardinality(Own(F[p], f))
      BY <2>5, FdsCount
    <2>1. Cardinality(Held(fds', f)) = Cardinality(Held(fds, f)) - Cardinality(Own(fds[p], f))
                                                                 + Cardinality(Own(fds'[p], f))
      BY <2>4 DEF E, F
    <2>2. files[f].ref = Cardinality(Held(fds, f))
      BY <1>1
    <2>3. files'[f].ref = files[f].ref - Cardinality(Own(fds[p], f)) + Cardinality(Own(fds'[p], f))
      OBVIOUS
    <2>. QED BY <2>1, <2>2, <2>3, Zenon
  <1>. QED BY <1>2, CountedHeld

(* What a table holds is counted                                           *)
LEMMA OwnCounted ==
    ASSUME RefInv, NEW p \in Procs, NEW f \in Files
    PROVE  /\ Cardinality(Own(fds[p], f)) \in Nat /\ files[f].ref \in Nat
           /\ Cardinality(Own(fds[p], f)) <= files[f].ref
           /\ IsFiniteSet(Own(fds[p], f))
  <1>1. files[f].ref = Cardinality(Held(fds, f))
    BY CountedHeld DEF RefInv
  <1>2. /\ Cardinality(Held(fds, f)) \in Nat /\ Cardinality(Own(fds[p], f)) \in Nat
        /\ Cardinality(Own(fds[p], f)) <= Cardinality(Held(fds, f))
    BY ZenonT(30), FdsCount
  <1>3. Own(fds[p], f) \in SUBSET FDs
    BY DEF Own
  <1>. QED BY <1>1, <1>2, <1>3, TablesFinite, FS_Subset

(* A file without references has no descriptor                             *)
LEMMA FreeUnheld ==
    ASSUME RefInv, NEW p \in Procs, NEW f \in Files, files[f].ref = 0
    PROVE  \A d \in FDs : fds[p][d] # f
  <1>1. Cardinality(Own(fds[p], f)) = 0 /\ IsFiniteSet(Own(fds[p], f))
    BY OwnCounted
  <1>2. Own(fds[p], f) = {}
    BY <1>1, FS_EmptySet
  <1>. QED BY <1>2 DEF Own

(* file_close takes references from files that have as many               *)
LEMMA AfterClose ==
    ASSUME files \in [Files -> FileRecs], NEW gone \in [Files -> Nat],
           \A f \in Files : gone[f] <= files[f].ref
    PROVE  /\ FilesAfter(gone) \in [Files -> FileRecs]
           /\ \A f \in Files : FilesAfter(gone)[f].ref = files[f].ref - gone[f]
  <1>1. ASSUME NEW f \in Files
        PROVE  /\ FilesAfter(gone)[f].ref = files[f].ref - gone[f]
               /\ FilesAfter(gone)[f] \in FileRecs
    <2>1. files[f] \in FileRecs /\ files[f].ref \in Nat /\ gone[f] \in Nat /\ gone[f] <= files[f].ref
      BY DEF FileRecs
    <2>2. FilesAfter(gone)[f] = IF f \in Ended(gone) THEN FreeFile ELSE [files[f] EXCEPT !.ref = @ - gone[f]]
      BY DEF FilesAfter
    <2>3. CASE f \in Ended(gone)
      BY <2>1, <2>2, <2>3 DEF Ended, FreeFile, FileRecs
    <2>4. CASE f \notin Ended(gone)
      BY <2>1, <2>2, <2>4 DEF FileRecs
    <2>. QED BY <2>3, <2>4
  <1>. QED BY ZenonT(30), <1>1 DEF FilesAfter

(* file_close on some descriptors of a process                             *)
LEMMA ClosedCounted ==
    ASSUME RefInv, NEW p \in Procs, NEW D, D \subseteq FDs, CloseFds(p, D),
           \A q \in Procs \ {p}, d \in FDs : fds'[q][d] = fds[q][d],
           \A d \in FDs : fds'[p][d] = IF d \in D THEN None ELSE fds[p][d]
    PROVE  RefsCounted' /\ files' \in [Files -> FileRecs]
  <1>. DEFINE gone == [f \in Files |-> Cardinality({d \in D : fds[p][d] = f})]
  <1>1. files' = FilesAfter(gone)
    BY DEF CloseFds
  <1>2. ASSUME NEW f \in Files
        PROVE  /\ gone[f] \in Nat /\ files[f].ref \in Nat /\ gone[f] <= files[f].ref
               /\ gone[f] = Cardinality(Own(fds[p], f)) - Cardinality(Own(fds'[p], f))
               /\ Cardinality(Own(fds[p], f)) \in Nat /\ Cardinality(Own(fds'[p], f)) \in Nat
    <2>. DEFINE G == {d \in D : fds[p][d] = f}
    <2>1. G \subseteq Own(fds[p], f)
      BY DEF Own
    <2>2. Own(fds'[p], f) = Own(fds[p], f) \ G
      BY ZenonT(30), TablesFinite DEF Own
    <2>3. /\ Cardinality(Own(fds[p], f)) \in Nat /\ files[f].ref \in Nat
          /\ Cardinality(Own(fds[p], f)) <= files[f].ref
          /\ IsFiniteSet(Own(fds[p], f))
      BY OwnCounted
    <2>4. gone[f] = Cardinality(G)
      OBVIOUS
    <2>. HIDE DEF G, gone
    <2>5. /\ Cardinality(Own(fds[p], f) \ G) = Cardinality(Own(fds[p], f)) - Cardinality(G)
          /\ Cardinality(G) \in Nat /\ Cardinality(Own(fds[p], f) \ G) \in Nat
      BY <2>1, <2>3, RestCount
    <2>6. /\ Cardinality(Own(fds'[p], f)) = Cardinality(Own(fds[p], f)) - Cardinality(G)
          /\ Cardinality(Own(fds'[p], f)) \in Nat
      BY <2>2, <2>5, Zenon
    <2>. QED BY <2>3, <2>4, <2>5, <2>6
  <1>. HIDE DEF gone
  <1>3. gone \in [Files -> Nat]
    BY <1>2 DEF gone
  <1>4. files' \in [Files -> FileRecs] /\ \A f \in Files : files'[f].ref = files[f].ref - gone[f]
    BY <1>1, <1>2, <1>3, AfterClose DEF RefInv, TableTypes
  <1>5. \A f \in Files : files'[f].ref = files[f].ref - Cardinality(Own(fds[p], f))
                                                      + Cardinality(Own(fds'[p], f))
    BY <1>2, <1>4
  <1>. QED BY <1>4, <1>5, OneTable

(* Two tables that differ at n alone                                       *)
DifferAt(n, R, Q) == n \in FDs /\ \A d \in FDs \ {n} : Q[d] = R[d]

(* One entry of a table changes                                            *)
LEMMA OwnPut ==
    ASSUME NEW R, NEW Q, NEW n, DifferAt(n, R, Q), NEW f
    PROVE  Cardinality(Own(Q, f)) = Cardinality(Own(R, f)) - (IF R[n] = f THEN 1 ELSE 0)
                                                           + (IF Q[n] = f THEN 1 ELSE 0)
  <1>. DEFINE A == Own(R, f)
              B == Own(Q, f)
  <1>1. IsFiniteSet(A) /\ IsFiniteSet(B)
    <2>1. A \in SUBSET FDs /\ B \in SUBSET FDs
      BY DEF Own
    <2>. QED BY <2>1, TablesFinite, FS_Subset
  <1>2. A \ {n} = B \ {n} /\ (n \in A <=> R[n] = f) /\ (n \in B <=> Q[n] = f)
    BY DEF Own, DifferAt
  <1>. HIDE DEF A, B
  <1>3. /\ Cardinality(A \ {n}) = IF n \in A THEN Cardinality(A) - 1 ELSE Cardinality(A)
        /\ Cardinality(B \ {n}) = IF n \in B THEN Cardinality(B) - 1 ELSE Cardinality(B)
    BY ZenonT(30), <1>1, FS_RemoveElement
  <1>4. Cardinality(A \ {n}) = Cardinality(B \ {n})
    BY <1>2, Zenon
  <1>5. Cardinality(A) \in Nat /\ Cardinality(B) \in Nat
    BY <1>1, FS_CardinalityType
  <1>6. Cardinality(B) = Cardinality(A) - (IF n \in A THEN 1 ELSE 0) + (IF n \in B THEN 1 ELSE 0)
    BY <1>3, <1>4, <1>5
  <1>7. Cardinality(B) = Cardinality(A) - (IF R[n] = f THEN 1 ELSE 0) + (IF Q[n] = f THEN 1 ELSE 0)
    BY <1>2, <1>6
  <1>. QED BY <1>7 DEF A, B

(* A step that leaves descriptors and counts alone                         *)
LEMMA RefsSteady ==
    ASSUME RefInv, TableTypes', fds' = fds, \A f \in Files : files'[f].ref = files[f].ref,
           \A q \in Procs : call'[q] = Unused => call[q] = Unused
    PROVE  RefInv'
  <1>1. RefsCounted'
    BY DEF RefInv, RefsCounted
  <1>2. \A p \in Procs : call'[p] = Unused => \A d \in FDs : fds'[p][d] = None
    BY DEF RefInv
  <1>. QED BY <1>1, <1>2 DEF RefInv

(* close, and the control message of another process                       *)
LEMMA CloseRefs ==
    ASSUME RefInv, NEW p \in Procs, NEW d \in FDs, CloseFds(p, {d}),
           fds' = [fds EXCEPT ![p][d] = None], cloexec' = [cloexec EXCEPT ![p] = @ \ {d}],
           devs' = devs, call' = call
    PROVE  RefInv'
  <1>. USE DEF RefInv, TableTypes
  <1>1. /\ \A q \in Procs \ {p}, e \in FDs : fds'[q][e] = fds[q][e]
        /\ \A e \in FDs : fds'[p][e] = IF e \in {d} THEN None ELSE fds[p][e]
        /\ fds' \in [Procs -> [FDs -> Files \cup {None}]]
    OBVIOUS
  <1>2. RefsCounted' /\ files' \in [Files -> FileRecs]
    BY <1>1, ClosedCounted
  <1>3. \A q \in Procs : call'[q] = Unused => \A e \in FDs : fds'[q][e] = None
    BY <1>1
  <1>. QED BY <1>1, <1>2, <1>3

(* exec closes the marked descriptors                                      *)
LEMMA ExecRefs ==
    ASSUME RefInv, NEW p \in Procs, Exec(p)
    PROVE  RefInv'
  <1>. USE DEF RefInv, TableTypes
  <1>0. cloexec[p] \subseteq FDs
    OBVIOUS
  <1>1. /\ \A q \in Procs \ {p}, e \in FDs : fds'[q][e] = fds[q][e]
        /\ \A e \in FDs : fds'[p][e] = IF e \in cloexec[p] THEN None ELSE fds[p][e]
        /\ fds' \in [Procs -> [FDs -> Files \cup {None}]]
    BY DEF Exec
  <1>2. RefsCounted' /\ files' \in [Files -> FileRecs]
    BY <1>0, <1>1, ClosedCounted DEF Exec
  <1>3. \A q \in Procs : call'[q] = Unused => \A e \in FDs : fds'[q][e] = None
    BY <1>1 DEF Exec
  <1>. QED BY <1>1, <1>2, <1>3 DEF Exec

(* exit closes them all                                                    *)
LEMMA ExitRefs ==
    ASSUME RefInv, NEW p \in Procs, Exit(p)
    PROVE  RefInv'
  <1>. USE DEF RefInv, TableTypes
  <1>1. /\ \A q \in Procs \ {p}, e \in FDs : fds'[q][e] = fds[q][e]
        /\ \A e \in FDs : fds'[p][e] = IF e \in FDs THEN None ELSE fds[p][e]
        /\ fds' \in [Procs -> [FDs -> Files \cup {None}]]
    BY DEF Exit
  <1>2. RefsCounted' /\ files' \in [Files -> FileRecs]
    BY <1>1, ClosedCounted DEF Exit
  <1>3. \A q \in Procs : call'[q] = Unused => \A e \in FDs : fds'[q][e] = None
    BY <1>1 DEF Exit
  <1>. QED BY <1>1, <1>2, <1>3 DEF Exit, Unused

(* A descriptor that was free and the reference it counts for             *)
LEMMA OneNew ==
    ASSUME RefInv, NEW p \in Procs, NEW n \in FDs, NEW g \in Files, fds[p][n] = None, fds'[p][n] = g,
           \A q \in Procs \ {p}, d \in FDs : fds'[q][d] = fds[q][d],
           \A d \in FDs \ {n} : fds'[p][d] = fds[p][d],
           \A f \in Files : files'[f].ref = files[f].ref + (IF f = g THEN 1 ELSE 0)
    PROVE  RefsCounted'
  <1>1. \A f \in Files : files'[f].ref = files[f].ref - Cardinality(Own(fds[p], f))
                                                      + Cardinality(Own(fds'[p], f))
    <2>. TAKE f \in Files
    <2>. DEFINE R == fds[p]
                Q == fds'[p]
    <2>1. DifferAt(n, R, Q)
      BY DEF DifferAt
    <2>2. Cardinality(Own(R, f)) \in Nat /\ files[f].ref \in Nat
      BY OwnCounted
    <2>3. R[n] = None /\ Q[n] = g /\ None # f
      BY TablesFinite
    <2>. HIDE DEF R, Q
    <2>4. Cardinality(Own(Q, f)) = Cardinality(Own(R, f)) - (IF R[n] = f THEN 1 ELSE 0)
                                                          + (IF Q[n] = f THEN 1 ELSE 0)
      BY <2>1, OwnPut
    <2>5. files'[f].ref = files[f].ref + (IF f = g THEN 1 ELSE 0)
      OBVIOUS
    <2>6. files'[f].ref = files[f].ref - Cardinality(Own(R, f)) + Cardinality(Own(Q, f))
      BY <2>2, <2>3, <2>4, <2>5
    <2>. QED BY <2>6 DEF R, Q
  <1>. QED BY <1>1, OneTable

(* A reference more to one file                                            *)
LEMMA OneMore ==
    ASSUME NEW F \in [Files -> FileRecs], NEW g \in Files
    PROVE  /\ [F EXCEPT ![g].ref = @ + 1] \in [Files -> FileRecs]
           /\ \A f \in Files :
                /\ F[f].ref \in Nat
                /\ [F EXCEPT ![g].ref = @ + 1][f].ref = F[f].ref + (IF f = g THEN 1 ELSE 0)
                /\ [F EXCEPT ![g].ref = @ + 1][f].rd = F[f].rd /\ [F EXCEPT ![g].ref = @ + 1][f].wr = F[f].wr
                /\ [F EXCEPT ![g].ref = @ + 1][f].rp = F[f].rp /\ [F EXCEPT ![g].ref = @ + 1][f].wp = F[f].wp
  <1>. DEFINE G == [F EXCEPT ![g].ref = @ + 1]
              new == [F[g] EXCEPT !.ref = @ + 1]
  <1>1. \A f \in Files : F[f] \in FileRecs /\ F[f].ref \in Nat
    BY DEF FileRecs
  <1>2. G = [F EXCEPT ![g] = new]
    OBVIOUS
  <1>3. /\ new \in FileRecs /\ new.ref = F[g].ref + 1 /\ new.rd = F[g].rd /\ new.wr = F[g].wr
        /\ new.rp = F[g].rp /\ new.wp = F[g].wp
    BY <1>1 DEF FileRecs
  <1>. HIDE DEF new
  <1>4. G[g] = new /\ \A f \in Files : f # g => G[f] = F[f]
    BY <1>2
  <1>5. G \in [Files -> FileRecs]
    BY <1>2, <1>3
  <1>. HIDE DEF G
  <1>6. ASSUME NEW f \in Files
        PROVE  /\ G[f].ref = F[f].ref + (IF f = g THEN 1 ELSE 0)
               /\ G[f].rd = F[f].rd /\ G[f].wr = F[f].wr /\ G[f].rp = F[f].rp /\ G[f].wp = F[f].wp
    <2>1. F[f].ref \in Nat
      BY <1>1
    <2>2. CASE f = g
      BY <1>3, <1>4, <2>2
    <2>3. CASE f # g
      <3>1. G[f] = F[f]
        BY <1>4, <2>3
      <3>. QED BY <2>1, <2>3, <3>1
    <2>. QED BY <2>2, <2>3
  <1>7. \A f \in Files : F[f].ref \in Nat
    BY <1>1
  <1>. QED BY <1>5, <1>6, <1>7 DEF G

(* dup takes the lowest free descriptor                                    *)
LEMMA DupRefs ==
    ASSUME RefInv, NEW p \in Procs, NEW d \in FDs, Dup(p, d)
    PROVE  RefInv'
  <1>. DEFINE n == Min(FdFree(p))
              g == fds[p][d]
  <1>1. n \in FDs /\ fds[p][n] = None
    <2>1. FdFree(p) \subseteq Nat /\ FdFree(p) # {}
      BY TablesFinite DEF FdFree, Dup
    <2>2. n \in FdFree(p)
      BY <2>1, MinIsIn
    <2>. QED BY <2>2 DEF FdFree
  <1>2. g \in Files
    BY DEF Dup, RefInv, TableTypes
  <1>3. /\ fds' = [fds EXCEPT ![p][n] = g]
        /\ cloexec' = [cloexec EXCEPT ![p] = @ \ {n}]
        /\ files' = [files EXCEPT ![g].ref = @ + 1]
        /\ devs' = devs /\ call' = call
    BY DEF Dup
  <1>4. call[p] # Unused
    BY DEF Dup, UserMode, User, Unused
  <1>. HIDE DEF n, g
  <1>5. /\ fds' \in [Procs -> [FDs -> Files \cup {None}]]
        /\ \A q \in Procs \ {p}, e \in FDs : fds'[q][e] = fds[q][e]
        /\ \A e \in FDs \ {n} : fds'[p][e] = fds[p][e]
        /\ fds'[p][n] = g
    BY <1>1, <1>2, <1>3 DEF RefInv, TableTypes
  <1>6. /\ files' \in [Files -> FileRecs]
        /\ \A f \in Files : files'[f].ref = files[f].ref + (IF f = g THEN 1 ELSE 0)
    BY <1>2, <1>3, OneMore DEF RefInv, TableTypes
  <1>8. RefsCounted'
    BY <1>1, <1>2, <1>5, <1>6, OneNew
  <1>9. TableTypes'
    BY <1>3, <1>5, <1>6 DEF RefInv, TableTypes
  <1>10. \A q \in Procs : call'[q] = Unused => \A e \in FDs : fds'[q][e] = None
    BY <1>3, <1>4, <1>5 DEF RefInv
  <1>. QED BY <1>8, <1>9, <1>10 DEF RefInv

(* dup2: a closed reference of b, then one more of a                       *)
LEMMA Dup2Refs ==
    ASSUME RefInv, NEW p \in Procs, NEW a \in FDs, NEW b \in FDs, Dup2(p, a, b)
    PROVE  RefInv'
  <1>. DEFINE g == fds[p][a]
              gone == [f \in Files |-> IF fds[p][b] = f THEN 1 ELSE 0]
              F == FilesAfter(gone)
  <1>1. g \in Files
    BY DEF Dup2, RefInv, TableTypes
  <1>2. /\ fds' = [fds EXCEPT ![p][b] = g]
        /\ cloexec' = [cloexec EXCEPT ![p] = @ \ {b}]
        /\ files' = [F EXCEPT ![g].ref = @ + 1]
        /\ devs' = devs /\ call' = call
    BY DEF Dup2
  <1>3. call[p] # Unused
    BY DEF Dup2, UserMode, User, Unused
  <1>4. /\ gone \in [Files -> Nat]
        /\ \A f \in Files : gone[f] = IF fds[p][b] = f THEN 1 ELSE 0
    OBVIOUS
  <1>5. \A f \in Files : gone[f] <= files[f].ref
    <2>. TAKE f \in Files
    <2>1. files[f].ref \in Nat /\ (files[f].ref = 0 => fds[p][b] # f)
      BY OwnCounted, FreeUnheld
    <2>. QED BY <2>1, <1>4
  <1>. HIDE DEF gone
  <1>6. /\ F \in [Files -> FileRecs]
        /\ \A f \in Files : F[f].ref = files[f].ref - gone[f]
    BY ZenonT(30), <1>4, <1>5, AfterClose DEF RefInv, TableTypes
  <1>. HIDE DEF F, g
  <1>7. /\ files' \in [Files -> FileRecs]
        /\ \A f \in Files : files'[f].ref = F[f].ref + (IF f = g THEN 1 ELSE 0)
    BY <1>1, <1>2, <1>6, OneMore
  <1>8. /\ fds' \in [Procs -> [FDs -> Files \cup {None}]]
        /\ \A q \in Procs \ {p}, e \in FDs : fds'[q][e] = fds[q][e]
        /\ \A e \in FDs \ {b} : fds'[p][e] = fds[p][e]
        /\ fds'[p][b] = g
    BY <1>1, <1>2 DEF RefInv, TableTypes
  <1>9. \A f \in Files : files'[f].ref = files[f].ref - Cardinality(Own(fds[p], f))
                                                      + Cardinality(Own(fds'[p], f))
    <2>. TAKE f \in Files
    <2>. DEFINE R == fds[p]
                Q == fds'[p]
    <2>1. (\A e \in FDs \ {b} : Q[e] = R[e]) /\ Q[b] = g /\ gone[f] = IF R[b] = f THEN 1 ELSE 0
      BY <1>4, <1>8
    <2>2. Cardinality(Own(R, f)) \in Nat /\ files[f].ref \in Nat
      BY OwnCounted
    <2>. HIDE DEF R, Q
    <2>3. Cardinality(Own(Q, f)) = Cardinality(Own(R, f)) - (IF R[b] = f THEN 1 ELSE 0)
                                                          + (IF Q[b] = f THEN 1 ELSE 0)
      BY <2>1, OwnPut DEF DifferAt
    <2>4. files'[f].ref = files[f].ref - gone[f] + (IF f = g THEN 1 ELSE 0)
      BY <1>6, <1>7
    <2>5. files'[f].ref = files[f].ref - Cardinality(Own(R, f)) + Cardinality(Own(Q, f))
      BY <2>1, <2>2, <2>3, <2>4
    <2>. QED BY <2>5 DEF R, Q
  <1>10. RefsCounted'
    BY <1>8, <1>9, OneTable
  <1>11. TableTypes'
    BY <1>2, <1>7, <1>8 DEF RefInv, TableTypes
  <1>12. \A q \in Procs : call'[q] = Unused => \A e \in FDs : fds'[q][e] = None
    BY <1>2, <1>3, <1>8 DEF RefInv
  <1>. QED BY <1>10, <1>11, <1>12 DEF RefInv

(* fork gives the child, which had none, the descriptors of its parent     *)
LEMMA ForkRefs ==
    ASSUME RefInv, NEW p \in Procs, NEW c \in Procs, Fork(p, c)
    PROVE  RefInv'
  <1>1. /\ files' = [f \in Files |-> [files[f] EXCEPT !.ref = @ + Cardinality(Own(fds[p], f))]]
        /\ fds' = [fds EXCEPT ![c] = fds[p]]
        /\ cloexec' = [cloexec EXCEPT ![c] = cloexec[p]]
        /\ call' = [call EXCEPT ![c] = User]
        /\ devs' = devs
        /\ call[c] = Unused
    BY DEF Fork, Own
  <1>2. call[p] # Unused /\ User # Unused /\ c # p
    BY <1>1 DEF Fork, UserMode, User, Unused
  <1>3. /\ fds' \in [Procs -> [FDs -> Files \cup {None}]]
        /\ \A q \in Procs \ {c}, e \in FDs : fds'[q][e] = fds[q][e]
        /\ fds'[c] = fds[p]
        /\ \A e \in FDs : fds[c][e] = None
    BY <1>1 DEF RefInv, TableTypes
  <1>4. ASSUME NEW f \in Files
        PROVE  /\ files'[f] \in FileRecs
               /\ files'[f].ref = files[f].ref - Cardinality(Own(fds[c], f)) + Cardinality(Own(fds'[c], f))
    <2>. DEFINE n == Cardinality(Own(fds[p], f))
    <2>1. files'[f] = [files[f] EXCEPT !.ref = @ + n]
      BY <1>1
    <2>2. n \in Nat /\ files[f].ref \in Nat
      BY OwnCounted
    <2>3. files[f] \in FileRecs
      BY DEF RefInv, TableTypes
    <2>4. Own(fds[c], f) = {} /\ Own(fds'[c], f) = Own(fds[p], f)
      BY ZenonT(30), <1>3, TablesFinite DEF Own
    <2>5. Cardinality(Own(fds[c], f)) = 0 /\ Cardinality(Own(fds'[c], f)) = n
      BY <2>4, FS_EmptySet, Zenon
    <2>. HIDE DEF n
    <2>6. files'[f] \in FileRecs /\ files'[f].ref = files[f].ref + n
      BY <2>1, <2>2, <2>3 DEF FileRecs
    <2>7. files'[f].ref = files[f].ref - 0 + n
      BY <2>2, <2>6
    <2>. QED BY <2>5, <2>6, <2>7, Zenon
  <1>5. RefsCounted'
    BY <1>3, <1>4, OneTable
  <1>6. files' \in [Files -> FileRecs]
    BY <1>1, <1>4
  <1>7. TableTypes'
    BY <1>1, <1>3, <1>6 DEF RefInv, TableTypes, User
  <1>8. \A q \in Procs : call'[q] = Unused => \A e \in FDs : fds'[q][e] = None
    BY <1>1, <1>2, <1>3 DEF RefInv, TableTypes
  <1>. QED BY <1>5, <1>7, <1>8 DEF RefInv

(* sys_pipe has two free files and two free descriptors, or changes none   *)
LEMMA PipeSlots ==
    ASSUME RefInv, NEW p \in Procs, PipeCall(p)
    PROVE  /\ Min(PipeFree) \in Pipes /\ ~pipes[Min(PipeFree)].used
           /\ LET rf == Min(FileFree)
                  wf == Min(FileFree \ {rf})
              IN  /\ rf \in Files /\ wf \in Files /\ rf # wf
                  /\ files[rf].ref = 0 /\ files[wf].ref = 0
           /\ Cardinality(FdFree(p)) >= 2 =>
                LET rd == Min(FdFree(p))
                    wd == Min(FdFree(p) \ {rd})
                IN  /\ rd \in FDs /\ wd \in FDs /\ rd # wd
                    /\ fds[p][rd] = None /\ fds[p][wd] = None
  <1>2. PipeFree \subseteq Nat /\ PipeFree # {} /\ Cardinality(FileFree) >= 2
    BY TablesFinite DEF PipeCall, PipeFree
  <1>3. FileFree \subseteq Nat /\ FdFree(p) \subseteq Nat
    BY ZenonT(30), TablesFinite DEF FileFree, FdFree
  <1>4. IsFiniteSet(FileFree) /\ IsFiniteSet(FdFree(p))
    <2>1. FileFree \in SUBSET Files /\ FdFree(p) \in SUBSET FDs
      BY DEF FileFree, FdFree
    <2>. QED BY ZenonT(30), <2>1, TablesFinite, FS_Subset
  <1>5. Min(PipeFree) \in PipeFree
    BY ZenonT(30), <1>2, MinIsIn
  <1>6. /\ Min(FileFree) \in FileFree /\ Min(FileFree \ {Min(FileFree)}) \in FileFree
        /\ Min(FileFree \ {Min(FileFree)}) # Min(FileFree)
    BY ZenonT(30), <1>2, <1>3, <1>4, TwoLeast
  <1>7. Cardinality(FdFree(p)) >= 2 =>
           /\ Min(FdFree(p)) \in FdFree(p) /\ Min(FdFree(p) \ {Min(FdFree(p))}) \in FdFree(p)
           /\ Min(FdFree(p) \ {Min(FdFree(p))}) # Min(FdFree(p))
    BY <1>3, <1>4, TwoLeast
  <1>8. \A f \in FileFree : f \in Files /\ files[f].ref = 0
    BY DEF FileFree
  <1>9. \A d \in FdFree(p) : d \in FDs /\ fds[p][d] = None
    BY DEF FdFree
  <1>10. \A k \in PipeFree : k \in Pipes /\ ~pipes[k].used
    BY DEF PipeFree
  <1>. QED BY <1>5, <1>6, <1>7, <1>8, <1>9, <1>10

(* sys_pipe *)
LEMMA PipeRefs ==
    ASSUME RefInv, NEW p \in Procs, PipeCall(p)
    PROVE  RefInv'
  <1>. DEFINE k  == Min(PipeFree)
              rf == Min(FileFree)
              wf == Min(FileFree \ {rf})
              rd == Min(FdFree(p))
              wd == Min(FdFree(p) \ {rd})
              rnew == [FreeFile EXCEPT !.ref = 1, !.rp = k, !.wp = k, !.rd = TRUE]
              wnew == [FreeFile EXCEPT !.ref = 1, !.rp = k, !.wp = k, !.wr = TRUE]
  <1>1. k \in Pipes /\ rf \in Files /\ wf \in Files /\ rf # wf /\ files[rf].ref = 0 /\ files[wf].ref = 0
    BY ZenonT(30), PipeSlots
  <1>2. devs' = devs /\ call' = call
    BY DEF PipeCall
  <1>3. CASE Cardinality(FdFree(p)) < 2
    <2>1. ~(Cardinality(FdFree(p)) >= 2)
      <3>1. IsFiniteSet(FdFree(p))
        <4>1. FdFree(p) \in SUBSET FDs
          BY DEF FdFree
        <4>. QED BY <4>1, TablesFinite, FS_Subset
      <3>2. Cardinality(FdFree(p)) \in Nat
        BY <3>1, FS_CardinalityType
      <3>. QED BY <1>3, <3>2
    <2>2. files' = files /\ fds' = fds /\ cloexec' = cloexec
      BY <2>1 DEF PipeCall
    <2>3. TableTypes'
      BY <1>2, <2>2 DEF RefInv, TableTypes
    <2>. QED BY <1>2, <2>2, <2>3, RefsSteady
  <1>4. CASE Cardinality(FdFree(p)) >= 2
    <2>1. rd \in FDs /\ wd \in FDs /\ rd # wd /\ fds[p][rd] = None /\ fds[p][wd] = None
      BY <1>4, PipeSlots
    <2>2. /\ files' = [files EXCEPT ![rf] = rnew, ![wf] = wnew]
          /\ fds' = [fds EXCEPT ![p][rd] = rf, ![p][wd] = wf]
          /\ cloexec' = [cloexec EXCEPT ![p] = @ \ {rd, wd}]
      BY ZenonT(30), <1>4 DEF PipeCall
    <2>3. call[p] # Unused
      BY DEF PipeCall, UserMode, User, Unused
    <2>4. rnew \in FileRecs /\ wnew \in FileRecs /\ rnew.ref = 1 /\ wnew.ref = 1
      BY ZenonT(30), <1>1 DEF FreeFile, FileRecs
    <2>. HIDE DEF k, rf, wf, rd, wd, rnew, wnew
    <2>5. /\ files' \in [Files -> FileRecs]
          /\ files'[rf] = rnew /\ files'[wf] = wnew
          /\ \A f \in Files \ {rf, wf} : files'[f] = files[f]
      BY <1>1, <2>2, <2>4 DEF RefInv, TableTypes
    <2>6. /\ fds' \in [Procs -> [FDs -> Files \cup {None}]]
          /\ \A q \in Procs \ {p}, e \in FDs : fds'[q][e] = fds[q][e]
          /\ \A e \in FDs \ {rd, wd} : fds'[p][e] = fds[p][e]
          /\ fds'[p][rd] = rf /\ fds'[p][wd] = wf
      BY <1>1, <2>1, <2>2 DEF RefInv, TableTypes
    <2>7. \A f \in Files : files'[f].ref = files[f].ref - Cardinality(Own(fds[p], f))
                                                        + Cardinality(Own(fds'[p], f))
      <3>. TAKE f \in Files
      <3>. DEFINE R == fds[p]
                  M == [fds[p] EXCEPT ![rd] = rf]
                  Q == fds'[p]
      <3>1. DifferAt(rd, R, M)
        BY <2>1 DEF DifferAt, RefInv, TableTypes
      <3>9. R[rd] = None /\ M[rd] = rf /\ M[wd] = None /\ Q[wd] = wf
        BY <2>1, <2>6 DEF RefInv, TableTypes
      <3>2. DifferAt(wd, M, Q)
        BY <2>1, <2>6 DEF DifferAt, RefInv, TableTypes
      <3>3. Cardinality(Own(R, f)) \in Nat /\ files[f].ref \in Nat
        BY OwnCounted
      <3>. HIDE DEF R, M, Q
      <3>4. Cardinality(Own(M, f)) = Cardinality(Own(R, f)) - (IF R[rd] = f THEN 1 ELSE 0)
                                                            + (IF M[rd] = f THEN 1 ELSE 0)
        BY <3>1, OwnPut
      <3>5. Cardinality(Own(Q, f)) = Cardinality(Own(M, f)) - (IF M[wd] = f THEN 1 ELSE 0)
                                                            + (IF Q[wd] = f THEN 1 ELSE 0)
        BY <3>2, OwnPut
      <3>6. Cardinality(Own(Q, f)) = Cardinality(Own(R, f)) + (IF f \in {rf, wf} THEN 1 ELSE 0)
        BY <1>1, <3>9, <3>3, <3>4, <3>5, TablesFinite
      <3>7. files'[f].ref = files[f].ref + (IF f \in {rf, wf} THEN 1 ELSE 0)
        <4>1. CASE f = rf
          BY <1>1, <2>4, <2>5, <4>1
        <4>2. CASE f = wf
          BY <1>1, <2>4, <2>5, <4>2
        <4>3. CASE f \notin {rf, wf}
          <5>1. files'[f] = files[f]
            BY <2>5, <4>3
          <5>. QED BY <3>3, <4>3, <5>1
        <4>. QED BY <4>1, <4>2, <4>3
      <3>8. files'[f].ref = files[f].ref - Cardinality(Own(R, f)) + Cardinality(Own(Q, f))
        BY <3>3, <3>6, <3>7
      <3>. QED BY <3>8 DEF R, Q
    <2>8. RefsCounted'
      BY <2>6, <2>7, OneTable
    <2>9. TableTypes'
      BY <1>2, <2>2, <2>5, <2>6 DEF RefInv, TableTypes
    <2>10. \A q \in Procs : call'[q] = Unused => \A e \in FDs : fds'[q][e] = None
      BY <1>2, <2>3, <2>6 DEF RefInv
    <2>. QED BY <2>8, <2>9, <2>10 DEF RefInv
  <1>5. Cardinality(FdFree(p)) \in Nat
    <2>1. FdFree(p) \in SUBSET FDs
      BY DEF FdFree
    <2>2. IsFiniteSet(FdFree(p))
      BY <2>1, TablesFinite, FS_Subset
    <2>. QED BY <2>2, FS_CardinalityType
  <1>. QED BY <1>3, <1>4, <1>5

(* pipe9_open *)
LEMMA OpenRefs ==
    ASSUME RefInv, NEW p \in Procs, NEW d \in Devs, NEW e \in {2, 3}, NEW r \in BOOLEAN, NEW w \in BOOLEAN,
           OpenEnd(p, d, e, r, w)
    PROVE  RefInv'
  <1>. DEFINE g == Min(FileFree)
              n == Min(FdFree(p))
              in  == IF e = 2 THEN devs[d].ba ELSE devs[d].ab
              out == IF e = 2 THEN devs[d].ab ELSE devs[d].ba
              new == [FreeFile EXCEPT !.ref = 1, !.rp = in, !.wp = out, !.rd = r, !.wr = w]
  <1>1. call' = call /\ devs' = [devs EXCEPT ![d].opened = @ \cup {e}]
    BY DEF OpenEnd
  <1>2. devs' \in [Devs -> [used : BOOLEAN, ab : Pipes \cup {None}, ba : Pipes \cup {None}, opened : SUBSET {2, 3}]]
    <2>. DEFINE y == devs[d]
                x == [y EXCEPT !.opened = @ \cup {e}]
    <2>1. devs' = [devs EXCEPT ![d] = x]
      BY <1>1
    <2>3. y \in [used : BOOLEAN, ab : Pipes \cup {None}, ba : Pipes \cup {None}, opened : SUBSET {2, 3}]
      BY DEF RefInv, TableTypes
    <2>. HIDE DEF y
    <2>2. x \in [used : BOOLEAN, ab : Pipes \cup {None}, ba : Pipes \cup {None}, opened : SUBSET {2, 3}]
      <3>1. y.opened \cup {e} \in SUBSET {2, 3}
        BY <2>3
      <3>. QED BY <2>3, <3>1
    <2>. HIDE DEF x
    <2>. QED BY <2>1, <2>2 DEF RefInv, TableTypes
  <1>3. g \in Files /\ files[g].ref = 0
    <2>1. FileFree \subseteq Nat /\ FileFree # {}
      BY TablesFinite DEF FileFree, OpenEnd
    <2>2. g \in FileFree
      BY ZenonT(30), <2>1, MinIsIn
    <2>. QED BY <2>2 DEF FileFree
  <1>4. in \in Pipes \cup {None} /\ out \in Pipes \cup {None}
    BY DEF RefInv, TableTypes
  <1>5. new \in FileRecs /\ new.ref = 1
    <2>. HIDE DEF in, out
    <2>. QED BY ZenonT(30), <1>4 DEF FreeFile, FileRecs
  <1>6. CASE FdFree(p) = {}
    <2>1. files' = files /\ fds' = fds /\ cloexec' = cloexec
      BY <1>6 DEF OpenEnd
    <2>2. TableTypes'
      BY <1>1, <1>2, <2>1 DEF RefInv, TableTypes
    <2>. QED BY <1>1, <2>1, <2>2, RefsSteady
  <1>7. CASE FdFree(p) # {}
    <2>1. n \in FDs /\ fds[p][n] = None
      <3>1. FdFree(p) \subseteq Nat
        BY TablesFinite DEF FdFree
      <3>2. n \in FdFree(p)
        BY <1>7, <3>1, MinIsIn
      <3>. QED BY <3>2 DEF FdFree
    <2>2. /\ files' = [files EXCEPT ![g] = new]
          /\ fds' = [fds EXCEPT ![p][n] = g]
          /\ cloexec' = [cloexec EXCEPT ![p] = @ \ {n}]
      BY <1>7 DEF OpenEnd
    <2>3. call[p] # Unused
      <3>1. UserMode(p)
        BY DEF OpenEnd
      <3>. QED BY <3>1 DEF UserMode, User, Unused
    <2>. HIDE DEF g, n, in, out, new
    <2>4. /\ files' \in [Files -> FileRecs]
          /\ files'[g] = new
          /\ \A f \in Files \ {g} : files'[f] = files[f]
      BY <1>3, <1>5, <2>2 DEF RefInv, TableTypes
    <2>5. /\ fds' \in [Procs -> [FDs -> Files \cup {None}]]
          /\ \A q \in Procs \ {p}, x \in FDs : fds'[q][x] = fds[q][x]
          /\ \A x \in FDs \ {n} : fds'[p][x] = fds[p][x]
          /\ fds'[p][n] = g
      BY <1>3, <2>1, <2>2 DEF RefInv, TableTypes
    <2>6. \A f \in Files : files'[f].ref = files[f].ref + (IF f = g THEN 1 ELSE 0)
      <3>1. ASSUME NEW f \in Files, f # g PROVE files'[f].ref = files[f].ref + 0
        <4>1. files'[f] = files[f] /\ files[f].ref \in Nat
          BY <2>4, <3>1, OwnCounted
        <4>. QED BY <4>1
      <3>. QED BY <1>3, <1>5, <2>4, <3>1
    <2>7. RefsCounted'
      BY <1>3, <2>1, <2>5, <2>6, OneNew
    <2>8. TableTypes'
      BY <1>1, <1>2, <2>2, <2>4, <2>5 DEF RefInv, TableTypes
    <2>9. \A q \in Procs : call'[q] = Unused => \A x \in FDs : fds'[q][x] = None
      BY <1>1, <2>3, <2>5 DEF RefInv
    <2>. QED BY <2>7, <2>8, <2>9 DEF RefInv
  <1>. QED BY <1>6, <1>7

(* A step within a call changes no descriptor                              *)
LEMMA CallRefs ==
    ASSUME RefInv, NEW p \in Procs, NEW x, "op" \in DOMAIN x, x # Unused, call' = [call EXCEPT ![p] = x],
           UNCHANGED <<files, devs, fds, cloexec>>
    PROVE  RefInv'
  <1>1. TableTypes'
    BY DEF RefInv, TableTypes
  <1>2. \A q \in Procs : call'[q] = Unused => call[q] = Unused
    BY DEF RefInv, TableTypes
  <1>. QED BY <1>1, <1>2, RefsSteady

(* read, write and poll, from their start or from their sleep              *)
LEMMA TransferRefs ==
    ASSUME RefInv, NEW p \in Procs, Transfer(p) \/ Resume(p)
    PROVE  RefInv'
  <1>0. "op" \in DOMAIN User /\ User # Unused
    BY DEF User, Unused
  <1>1. ASSUME NEW c, c.op = "read", "op" \in DOMAIN c, ReadFrom(p, c), UNCHANGED <<files, devs, fds, cloexec>>
        PROVE  RefInv'
    <2>1. call' = [call EXCEPT ![p] = User] \/ call' = [call EXCEPT ![p] = c]
      BY <1>1 DEF ReadFrom, Return
    <2>2. c # Unused
      BY <1>1 DEF Unused
    <2>. QED BY <1>0, <1>1, <2>1, <2>2, CallRefs
  <1>2. ASSUME NEW c, c.op = "write", "op" \in DOMAIN c, WriteFrom(p, c), UNCHANGED <<files, devs, fds, cloexec>>
        PROVE  RefInv'
    <2>1. PICK n : call' = [call EXCEPT ![p] = User] \/ call' = [call EXCEPT ![p] = [c EXCEPT !.pos = n]]
      BY <1>2 DEF WriteFrom, Return
    <2>. DEFINE x == [c EXCEPT !.pos = n]
    <2>2. "op" \in DOMAIN x /\ x.op = "write"
      BY <1>2
    <2>. HIDE DEF x
    <2>3. x # Unused
      BY <2>2 DEF Unused
    <2>4. call' = [call EXCEPT ![p] = User] \/ call' = [call EXCEPT ![p] = x]
      BY <2>1 DEF x
    <2>. QED BY <1>0, <1>2, <2>2, <2>3, <2>4, CallRefs
  <1>3. ASSUME NEW c, c.op = "poll", "op" \in DOMAIN c, NEW t, PollFrom(p, c, t), UNCHANGED <<files, devs, fds, cloexec>>
        PROVE  RefInv'
    <2>1. call' = [call EXCEPT ![p] = User] \/ call' = [call EXCEPT ![p] = c]
      BY <1>3 DEF PollFrom, Return
    <2>2. c # Unused
      BY <1>3 DEF Unused
    <2>. QED BY <1>0, <1>3, <2>1, <2>2, CallRefs
  <1>4. "op" \in DOMAIN call[p]
    BY DEF RefInv, TableTypes
  <1>5. ASSUME NEW d \in FDs, NEW n, Read(p, d, n) PROVE RefInv'
    BY <1>1, <1>5 DEF Read
  <1>6. ASSUME NEW d \in FDs, NEW s, Write(p, d, s) PROVE RefInv'
    BY <1>2, <1>6 DEF Write
  <1>7. ASSUME NEW d \in FDs, NEW v, NEW t, Poll(p, d, v, t) PROVE RefInv'
    BY ZenonT(30), <1>3, <1>7 DEF Poll
  <1>8. ASSUME ReadOn(p) PROVE RefInv'
    BY <1>1, <1>4, <1>8 DEF ReadOn
  <1>9. ASSUME WriteOn(p) PROVE RefInv'
    BY <1>2, <1>4, <1>9 DEF WriteOn
  <1>10. ASSUME PollOn(p) PROVE RefInv'
    BY <1>3, <1>4, <1>10 DEF PollOn
  <1>. QED BY <1>5, <1>6, <1>7, <1>8, <1>9, <1>10 DEF Transfer, Resume

(* F_SETFL, F_SETFD, timers, signals, and the device                       *)
LEMMA OtherRefs ==
    ASSUME RefInv, NEW p \in Procs
    PROVE  /\ \A d \in FDs, b \in BOOLEAN : SetFl(p, d, b) => RefInv'
           /\ \A d \in FDs : SetFd(p, d) => RefInv'
           /\ PollTimeout(p) \/ Signal(p) \/ Deliver(p) => RefInv'
           /\ Attach(p) => RefInv'
           /\ \A d \in Devs : ReleaseDev(d) => RefInv'
  <1>1. ASSUME NEW d \in FDs, NEW b \in BOOLEAN, SetFl(p, d, b) PROVE RefInv'
    <2>. DEFINE g == fds[p][d]
                new == [files[g] EXCEPT !.nonblock = b]
    <2>1. g \in Files
      BY <1>1 DEF SetFl, RefInv, TableTypes
    <2>2. files' = [files EXCEPT ![g] = new] /\ UNCHANGED <<devs, fds, cloexec, call>>
      BY <1>1 DEF SetFl
    <2>3. files[g] \in FileRecs
      BY <2>1 DEF RefInv, TableTypes
    <2>4. new \in FileRecs /\ new.ref = files[g].ref
      BY <2>3 DEF FileRecs
    <2>. HIDE DEF g, new
    <2>5. files' \in [Files -> FileRecs] /\ \A f \in Files : files'[f].ref = files[f].ref
      BY <2>1, <2>2, <2>4 DEF RefInv, TableTypes
    <2>6. TableTypes'
      BY <2>2, <2>5 DEF RefInv, TableTypes
    <2>. QED BY <2>2, <2>5, <2>6, RefsSteady
  <1>2. ASSUME NEW d \in FDs, SetFd(p, d) PROVE RefInv'
    <2>1. UNCHANGED <<files, devs, fds, call>> /\ cloexec' = [cloexec EXCEPT ![p] = @ \cup {d}]
      BY <1>2 DEF SetFd
    <2>2. TableTypes'
      BY <2>1 DEF RefInv, TableTypes
    <2>. QED BY <2>1, <2>2, RefsSteady
  <1>3. ASSUME PollTimeout(p) \/ Signal(p) \/ Deliver(p) PROVE RefInv'
    <2>1. UNCHANGED <<files, devs, fds, cloexec, call>>
      BY <1>3 DEF PollTimeout, Signal, Deliver
    <2>2. TableTypes'
      BY <2>1 DEF RefInv, TableTypes
    <2>. QED BY <2>1, <2>2, RefsSteady
  <1>4. ASSUME Attach(p) PROVE RefInv'
    <2>1. UNCHANGED <<files, fds, cloexec, call>>
      BY <1>4 DEF Attach
    <2>. DEFINE a == Min(PipeFree)
                b == Min(PipeFree \ {a})
    <2>2. PICK d \in Devs : devs' = [devs EXCEPT ![d] = [used |-> TRUE, ab |-> a, ba |-> b, opened |-> {}]]
      BY ZenonT(30), <1>4 DEF Attach
    <2>3. a \in Pipes /\ b \in Pipes
      <3>1. PipeFree \subseteq Nat /\ PipeFree \in SUBSET Pipes /\ Cardinality(PipeFree) >= 2
        BY <1>4, TablesFinite DEF Attach, PipeFree
      <3>2. IsFiniteSet(PipeFree)
        BY ZenonT(30), <3>1, TablesFinite, FS_Subset
      <3>. QED BY ZenonT(30), <3>1, <3>2, TwoLeast
    <2>. HIDE DEF a, b
    <2>4. TableTypes'
      BY <2>1, <2>2, <2>3 DEF RefInv, TableTypes
    <2>. QED BY <2>1, <2>4, RefsSteady
  <1>5. ASSUME NEW d \in Devs, ReleaseDev(d) PROVE RefInv'
    <2>1. UNCHANGED <<files, fds, cloexec, call>> /\ devs' = [devs EXCEPT ![d].used = FALSE]
      BY <1>5 DEF ReleaseDev
    <2>2. TableTypes'
      BY ZenonT(30), <2>1 DEF RefInv, TableTypes
    <2>. QED BY <2>1, <2>2, RefsSteady
  <1>. QED BY <1>1, <1>2, <1>3, <1>4, <1>5

(* Every step keeps the references counted                                 *)
LEMMA RefStep ==
    ASSUME RefInv, [Next]_vars
    PROVE  RefInv'
  <1>1. CASE UNCHANGED vars
    BY <1>1 DEF vars, RefInv, TableTypes, RefsCounted
  <1>2. ASSUME NEW p \in Procs, Table(p) PROVE RefInv'
    <2>1. ASSUME NEW d \in FDs, Close(p, d) PROVE RefInv'
      BY ZenonT(30), <2>1, CloseRefs DEF Close
    <2>2. ASSUME NEW q \in Procs, NEW d \in FDs, CtlClose(p, q, d) PROVE RefInv'
      BY ZenonT(30), <2>2, CloseRefs DEF CtlClose
    <2>3. ASSUME NEW d \in Devs, NEW e \in {2, 3}, NEW m \in {<<TRUE, FALSE>>, <<FALSE, TRUE>>, <<TRUE, TRUE>>},
                 OpenEnd(p, d, e, m[1], m[2])
          PROVE  RefInv'
      <3>1. m[1] \in BOOLEAN /\ m[2] \in BOOLEAN
        <4>1. CASE m = <<TRUE, FALSE>>
          BY <4>1
        <4>2. CASE m = <<FALSE, TRUE>>
          BY <4>2
        <4>3. CASE m = <<TRUE, TRUE>>
          BY <4>3
        <4>. QED BY ZenonT(30), <4>1, <4>2, <4>3
      <3>. QED BY <2>3, <3>1, OpenRefs
    <2>. QED BY ZenonT(30), <1>2, <2>1, <2>2, <2>3, DupRefs, Dup2Refs, ForkRefs, ExecRefs, ExitRefs, PipeRefs, OtherRefs
             DEF Table
  <1>3. ASSUME NEW p \in Procs, Transfer(p) \/ Resume(p) PROVE RefInv'
    BY <1>3, TransferRefs
  <1>4. ASSUME NEW p \in Procs, PollTimeout(p) \/ Signal(p) \/ Deliver(p) PROVE RefInv'
    BY <1>4, OtherRefs
  <1>5. ASSUME NEW d \in Devs, ReleaseDev(d) PROVE RefInv'
    <2>1. 1 \in Procs
      BY PipeAssumption DEF Procs
    <2>. QED BY <1>5, <2>1, OtherRefs
  <1>. QED BY <1>1, <1>2, <1>3, <1>4, <1>5 DEF Next

(* At the start nobody has a descriptor                                    *)
LEMMA RefInit ==
    ASSUME Init
    PROVE  RefInv
  <1>1. TableTypes
    BY DEF Init, TableTypes, FreeFile, FileRecs, FreeDev, User, Unused
  <1>2. \A f \in Files : Held(fds, f) = {}
    BY TablesFinite DEF Init, Held
  <1>3. \A f \in Files : files[f].ref = 0
    BY DEF Init, FreeFile
  <1>4. RefsCounted
    <2>1. \A f \in Files : files[f].ref = Cardinality(Held(fds, f))
      BY <1>2, <1>3, FS_EmptySet
    <2>. QED BY <2>1, CountedHeld
  <1>5. \A p \in Procs : \A d \in FDs : fds[p][d] = None
    BY DEF Init
  <1>. QED BY <1>1, <1>4, <1>5 DEF RefInv

(* A file is counted once for every descriptor that names it, for any      *)
(* numbers of processes, files, descriptors and pipes and whatever calls   *)
(* are made, the pipe device and failing calls included (file_alloc,       *)
(* file_dup, file_close, do_rfork, do_exec, do_exit).                      *)
THEOREM RefsStayCounted == Spec => []RefsCounted
  <1>1. Init => RefInv
    BY RefInit
  <1>2. RefInv /\ [Next]_vars => RefInv'
    BY RefStep
  <1>3. RefInv => RefsCounted
    BY DEF RefInv
  <1>. QED BY <1>1, <1>2, <1>3, PTL DEF Spec

(* The open files at the two ends of a pipe                                *)
REnds(F, k) == {f \in Files : F[f].ref > 0 /\ F[f].rd /\ F[f].rp = k}
WEnds(F, k) == {f \in Files : F[f].ref > 0 /\ F[f].wr /\ F[f].wp = k}

(* EndsCounted for the tables F of files and P of pipes, without devices   *)
EndsOf(F, P) ==
    \A k \in Pipes :
        /\ P[k].readers = Cardinality(REnds(F, k))
        /\ P[k].writers = Cardinality(WEnds(F, k))
        /\ P[k].readers + P[k].writers > 0 => P[k].used
        /\ P[k].used => \E f \in Files : F[f].ref > 0 /\ k \in {F[f].rp, F[f].wp}

(* An open file has its pipes                                              *)
OnPipes(F) == \A f \in Files : F[f].ref > 0 => F[f].rp \in Pipes /\ F[f].wp \in Pipes

PipeFields == {"used", "nread", "nwrite", "readers", "writers", "buf"}

IsPipe(x) == DOMAIN x = PipeFields /\ x = [i \in PipeFields |-> x[i]]

PipeShape == pipes = [k \in Pipes |-> pipes[k]] /\ \A k \in Pipes : IsPipe(pipes[k])

(* The inductive invariant: the references are counted as well, since a    *)
(* file is at an end as long as it has one                                 *)
EndInv ==
    /\ RefInv
    /\ PipeShape
    /\ EndsOf(files, pipes)
    /\ OnPipes(files)
    /\ \A d \in Devs : ~devs[d].used

(* The ends of a pipe are finitely many                                    *)
LEMMA EndsFinite ==
    ASSUME NEW F, NEW k
    PROVE  /\ IsFiniteSet(REnds(F, k)) /\ Cardinality(REnds(F, k)) \in Nat
           /\ IsFiniteSet(WEnds(F, k)) /\ Cardinality(WEnds(F, k)) \in Nat
           /\ (Cardinality(REnds(F, k)) = 0 <=> REnds(F, k) = {})
           /\ (Cardinality(WEnds(F, k)) = 0 <=> WEnds(F, k) = {})
  <1>1. REnds(F, k) \in SUBSET Files /\ WEnds(F, k) \in SUBSET Files
    BY DEF REnds, WEnds
  <1>2. IsFiniteSet(REnds(F, k)) /\ IsFiniteSet(WEnds(F, k))
    BY ZenonT(30), <1>1, TablesFinite, FS_Subset
  <1>. QED BY <1>2, FS_CardinalityType, FS_EmptySet

(* Without devices in use, EndsCounted speaks of the open files alone      *)
LEMMA EndsAlone ==
    ASSUME \A d \in Devs : ~devs[d].used
    PROVE  EndsCounted <=> EndsOf(files, pipes)
  <1>1. \A k \in Pipes, in \in BOOLEAN, e \in {2, 3} : Kept(k, in, e) = 0
    <2>. SUFFICES ASSUME NEW k \in Pipes, NEW in \in BOOLEAN, NEW e \in {2, 3} PROVE Kept(k, in, e) = 0
      OBVIOUS
    <2>. DEFINE K == {d \in Devs : /\ devs[d].used /\ e \notin devs[d].opened
                                   /\ k = IF in THEN devs[d].ba ELSE devs[d].ab}
    <2>1. K = {}
      OBVIOUS
    <2>2. Kept(k, in, e) = Cardinality(K)
      BY DEF Kept
    <2>. HIDE DEF K
    <2>. QED BY <2>1, <2>2, FS_EmptySet
  <1>2. ASSUME NEW k \in Pipes
        PROVE  /\ Cardinality(REnds(files, k)) + Kept(k, TRUE, 2) + Kept(k, FALSE, 3) = Cardinality(REnds(files, k))
               /\ Cardinality(WEnds(files, k)) + Kept(k, FALSE, 2) + Kept(k, TRUE, 3) = Cardinality(WEnds(files, k))
    <2>. DEFINE r == Cardinality(REnds(files, k))
                w == Cardinality(WEnds(files, k))
    <2>1. r \in Nat /\ w \in Nat
      BY EndsFinite
    <2>2. Kept(k, TRUE, 2) = 0 /\ Kept(k, FALSE, 3) = 0 /\ Kept(k, FALSE, 2) = 0 /\ Kept(k, TRUE, 3) = 0
      BY ZenonT(30), <1>1
    <2>3. r + 0 + 0 = r /\ w + 0 + 0 = w
      BY <2>1
    <2>. QED BY ZenonT(30), <2>2, <2>3
  <1>3. ~\E d \in Devs : devs[d].used
    OBVIOUS
  <1>4. EndsCounted <=>
          \A k \in Pipes :
             /\ pipes[k].readers = Cardinality(REnds(files, k)) + Kept(k, TRUE, 2) + Kept(k, FALSE, 3)
             /\ pipes[k].writers = Cardinality(WEnds(files, k)) + Kept(k, FALSE, 2) + Kept(k, TRUE, 3)
             /\ pipes[k].readers + pipes[k].writers > 0 => pipes[k].used
             /\ pipes[k].used => \/ \E f \in Files : files[f].ref > 0 /\ k \in {files[f].rp, files[f].wp}
                                 \/ \E d \in Devs : devs[d].used /\ k \in {devs[d].ab, devs[d].ba}
    BY DEF EndsCounted, REnds, WEnds
  <1>. QED BY ZenonT(30), <1>2, <1>3, <1>4 DEF EndsOf

(* What keeps the open files and the ends keeps the counts                 *)
LEMMA SameEnds ==
    ASSUME NEW F, NEW P, NEW G, NEW Q, EndsOf(F, P),
           \A f \in Files : G[f].ref > 0 <=> F[f].ref > 0,
           \A f \in Files : F[f].ref > 0 => /\ G[f].rd = F[f].rd /\ G[f].wr = F[f].wr
                                            /\ G[f].rp = F[f].rp /\ G[f].wp = F[f].wp,
           \A k \in Pipes : /\ Q[k].readers = P[k].readers /\ Q[k].writers = P[k].writers
                            /\ (Q[k].used <=> P[k].used)
    PROVE  EndsOf(G, Q)
  <1>1. \A k \in Pipes : REnds(G, k) = REnds(F, k) /\ WEnds(G, k) = WEnds(F, k)
    BY DEF REnds, WEnds
  <1>. QED BY <1>1 DEF EndsOf

(* What file_close leaves of files and pipes                               *)
LEMMA AfterEnds ==
    ASSUME files \in [Files -> FileRecs], PipeShape, EndsOf(files, pipes),
           NEW gone \in [Files -> Nat], \A f \in Files : gone[f] <= files[f].ref
    PROVE  /\ EndsOf(FilesAfter(gone), PipesAfter(gone))
           /\ OnPipes(files) => OnPipes(FilesAfter(gone))
           /\ pipes' = PipesAfter(gone) => PipeShape'
           /\ \A k \in Pipes :
                /\ PipesAfter(gone)[k].nread = pipes[k].nread /\ PipesAfter(gone)[k].nwrite = pipes[k].nwrite
                /\ k \notin Touched(gone) => /\ PipesAfter(gone)[k].readers = pipes[k].readers
                                             /\ PipesAfter(gone)[k].writers = pipes[k].writers
                                             /\ (PipesAfter(gone)[k].used <=> pipes[k].used)
  <1>. DEFINE F == FilesAfter(gone)
              P == PipesAfter(gone)
              E == Ended(gone)
              RG(k) == {f \in E : files[f].rd /\ files[f].rp = k}
              WG(k) == {f \in E : files[f].wr /\ files[f].wp = k}
              gonePipe(k, r, w) == k \in Touched(gone) /\ r <= 0 /\ w <= 0
  <1>1. ASSUME NEW f \in Files
        PROVE  /\ f \in E => files[f].ref > 0 /\ ~(F[f].ref > 0)
               /\ f \notin E => /\ F[f].ref > 0 <=> files[f].ref > 0
                                /\ F[f].rd = files[f].rd /\ F[f].wr = files[f].wr
                                /\ F[f].rp = files[f].rp /\ F[f].wp = files[f].wp
    <2>1. files[f] \in FileRecs /\ files[f].ref \in Nat /\ gone[f] \in Nat /\ gone[f] <= files[f].ref
      BY DEF FileRecs
    <2>2. F[f] = IF f \in E THEN FreeFile ELSE [files[f] EXCEPT !.ref = @ - gone[f]]
      BY DEF FilesAfter
    <2>3. CASE f \in E
      <3>1. F[f] = FreeFile
        BY <2>2, <2>3
      <3>2. gone[f] > 0 /\ files[f].ref = gone[f]
        BY <2>3 DEF Ended
      <3>. HIDE DEF F, E
      <3>3. F[f].ref = 0
        BY <3>1 DEF FreeFile
      <3>. QED BY <2>1, <2>3, <3>2, <3>3
    <2>4. CASE f \notin E
      <3>1. F[f] = [files[f] EXCEPT !.ref = files[f].ref - gone[f]]
        BY <2>2, <2>4
      <3>2. ~(gone[f] > 0 /\ files[f].ref = gone[f])
        BY <2>4 DEF Ended
      <3>. HIDE DEF F, E
      <3>3. /\ F[f].ref = files[f].ref - gone[f]
            /\ F[f].rd = files[f].rd /\ F[f].wr = files[f].wr
            /\ F[f].rp = files[f].rp /\ F[f].wp = files[f].wp
        BY <2>1, <3>1 DEF FileRecs
      <3>. QED BY <2>1, <2>4, <3>2, <3>3
    <2>. QED BY <2>3, <2>4
  <1>2. E \subseteq Files
    BY DEF Ended
  <1>3. ASSUME NEW k \in Pipes
        PROVE  /\ P[k].readers = pipes[k].readers - Cardinality(RG(k))
               /\ P[k].writers = pipes[k].writers - Cardinality(WG(k))
               /\ (P[k].used <=> (pipes[k].used /\ ~gonePipe(k, P[k].readers, P[k].writers)))
               /\ P[k].nread = pipes[k].nread /\ P[k].nwrite = pipes[k].nwrite
               /\ IsPipe(P[k])
    <2>. DEFINE r == pipes[k].readers - Cardinality(RG(k))
                w == pipes[k].writers - Cardinality(WG(k))
                u == pipes[k].used /\ ~gonePipe(k, r, w)
                x == pipes[k]
                y == P[k]
    <2>1. y = [x EXCEPT !.readers = r, !.writers = w, !.used = u]
      BY DEF PipesAfter
    <2>2. IsPipe(x)
      BY DEF PipeShape
    <2>. HIDE DEF r, w, u, x, y, P
    <2>3. /\ y.readers = r /\ y.writers = w /\ y.used = u
          /\ y.nread = x.nread /\ y.nwrite = x.nwrite
          /\ IsPipe(y)
      BY ZenonT(30), <2>1, <2>2 DEF IsPipe, PipeFields
    <2>. QED BY ZenonT(30), <2>3 DEF r, w, u, x, y
  <1>4. ASSUME NEW k \in Pipes
        PROVE  /\ RG(k) \subseteq REnds(files, k) /\ REnds(F, k) = REnds(files, k) \ RG(k)
               /\ WG(k) \subseteq WEnds(files, k) /\ WEnds(F, k) = WEnds(files, k) \ WG(k)
    <2>. HIDE DEF F, E
    <2>. QED BY <1>1, <1>2 DEF REnds, WEnds
  <1>5. ASSUME NEW k \in Pipes
        PROVE  /\ P[k].readers = Cardinality(REnds(F, k)) /\ P[k].writers = Cardinality(WEnds(F, k))
               /\ P[k].readers \in Nat /\ P[k].writers \in Nat
               /\ P[k].readers <= pipes[k].readers /\ P[k].writers <= pipes[k].writers
               /\ pipes[k].readers \in Nat /\ pipes[k].writers \in Nat
    <2>. DEFINE A == REnds(files, k)
                B == RG(k)
                C == WEnds(files, k)
                D == WG(k)
    <2>1. IsFiniteSet(A) /\ IsFiniteSet(C) /\ B \subseteq A /\ D \subseteq C
      BY <1>4, EndsFinite
    <2>2. REnds(F, k) = A \ B /\ WEnds(F, k) = C \ D
      BY <1>4
    <2>3. pipes[k].readers = Cardinality(A) /\ pipes[k].writers = Cardinality(C)
      BY DEF EndsOf
    <2>4. P[k].readers = pipes[k].readers - Cardinality(B) /\ P[k].writers = pipes[k].writers - Cardinality(D)
      BY ZenonT(30), <1>3
    <2>. HIDE DEF A, B, C, D, F, P
    <2>5. /\ Cardinality(A \ B) = Cardinality(A) - Cardinality(B)
          /\ Cardinality(A) \in Nat /\ Cardinality(B) \in Nat /\ Cardinality(A \ B) \in Nat
          /\ Cardinality(C \ D) = Cardinality(C) - Cardinality(D)
          /\ Cardinality(C) \in Nat /\ Cardinality(D) \in Nat /\ Cardinality(C \ D) \in Nat
      BY ZenonT(30), <2>1, RestCount
    <2>6. Cardinality(REnds(F, k)) = Cardinality(A \ B) /\ Cardinality(WEnds(F, k)) = Cardinality(C \ D)
      BY <2>2, Zenon
    <2>. QED BY <2>3, <2>4, <2>5, <2>6
  <1>6. ASSUME NEW k \in Pipes
        PROVE  P[k].readers + P[k].writers > 0 => P[k].used
    <2>1. pipes[k].readers + pipes[k].writers > 0 => pipes[k].used
      BY DEF EndsOf
    <2>2. /\ P[k].readers \in Nat /\ P[k].writers \in Nat
          /\ P[k].readers <= pipes[k].readers /\ P[k].writers <= pipes[k].writers
          /\ pipes[k].readers \in Nat /\ pipes[k].writers \in Nat
      BY <1>5
    <2>3. P[k].used <=> (pipes[k].used /\ ~gonePipe(k, P[k].readers, P[k].writers))
      BY ZenonT(30), <1>3
    <2>. HIDE DEF P
    <2>. QED BY <2>1, <2>2, <2>3
  <1>7. ASSUME NEW k \in Pipes, P[k].used
        PROVE  \E f \in Files : F[f].ref > 0 /\ k \in {F[f].rp, F[f].wp}
    <2>1. pipes[k].used /\ ~gonePipe(k, P[k].readers, P[k].writers)
      BY ZenonT(30), <1>3, <1>7
    <2>2. CASE k \notin Touched(gone)
      <3>1. PICK f \in Files : files[f].ref > 0 /\ k \in {files[f].rp, files[f].wp}
        BY <2>1 DEF EndsOf
      <3>2. f \notin E
        BY <2>2, <3>1 DEF Touched
      <3>. QED BY <1>1, <3>1, <3>2
    <2>3. CASE ~(P[k].readers <= 0)
      <3>1. REnds(F, k) # {}
        BY <1>5, <2>3, EndsFinite
      <3>. QED BY <3>1 DEF REnds
    <2>4. CASE ~(P[k].writers <= 0)
      <3>1. WEnds(F, k) # {}
        BY <1>5, <2>4, EndsFinite
      <3>. QED BY <3>1 DEF WEnds
    <2>. QED BY <2>1, <2>2, <2>3, <2>4
  <1>8. EndsOf(F, P)
    <2>. HIDE DEF F, P
    <2>. QED BY <1>5, <1>6, <1>7 DEF EndsOf
  <1>9. ASSUME pipes' = P PROVE PipeShape'
    <2>1. P = [k \in Pipes |-> P[k]]
      BY DEF PipesAfter
    <2>. HIDE DEF P
    <2>. QED BY ZenonT(30), <1>3, <1>9, <2>1 DEF PipeShape
  <1>10. ASSUME NEW k \in Pipes, k \notin Touched(gone)
         PROVE  P[k].readers = pipes[k].readers /\ P[k].writers = pipes[k].writers /\ (P[k].used <=> pipes[k].used)
    <2>1. RG(k) = {} /\ WG(k) = {}
      BY <1>2, <1>10 DEF Touched
    <2>. DEFINE B == RG(k)
                D == WG(k)
    <2>2. P[k].readers = pipes[k].readers - Cardinality(B) /\ P[k].writers = pipes[k].writers - Cardinality(D)
      BY ZenonT(30), <1>3
    <2>3. P[k].used <=> (pipes[k].used /\ ~gonePipe(k, P[k].readers, P[k].writers))
      BY ZenonT(30), <1>3
    <2>4. Cardinality({}) = 0
      BY FS_EmptySet
    <2>5. pipes[k].readers \in Nat /\ pipes[k].writers \in Nat
      BY <1>5
    <2>. HIDE DEF P, B, D
    <2>6. Cardinality(B) = 0 /\ Cardinality(D) = 0
      BY <2>1, <2>4, Zenon DEF B, D
    <2>7. P[k].readers = pipes[k].readers /\ P[k].writers = pipes[k].writers
      BY <2>2, <2>5, <2>6
    <2>8. P[k].used <=> pipes[k].used
      BY <1>10, <2>3
    <2>. QED BY <2>7, <2>8
  <1>11. OnPipes(files) => OnPipes(F)
    <2>. HIDE DEF F, E
    <2>. QED BY <1>1 DEF OnPipes
  <1>. QED BY ZenonT(30), <1>3, <1>8, <1>9, <1>10, <1>11

(* file_close never takes more references than there are                   *)
LEMMA GoneCounted ==
    ASSUME RefInv, NEW p \in Procs, NEW D, D \subseteq FDs,
           NEW gone, gone = [f \in Files |-> Cardinality({d \in D : fds[p][d] = f})]
    PROVE  gone \in [Files -> Nat] /\ \A f \in Files : gone[f] <= files[f].ref
  <1>1. ASSUME NEW f \in Files PROVE gone[f] \in Nat /\ gone[f] <= files[f].ref
    <2>. DEFINE G == {d \in D : fds[p][d] = f}
    <2>1. G \subseteq Own(fds[p], f)
      BY DEF Own
    <2>2. /\ Cardinality(Own(fds[p], f)) \in Nat /\ files[f].ref \in Nat
          /\ Cardinality(Own(fds[p], f)) <= files[f].ref
          /\ IsFiniteSet(Own(fds[p], f))
      BY OwnCounted
    <2>3. gone[f] = Cardinality(G)
      OBVIOUS
    <2>. HIDE DEF G
    <2>4. Cardinality(G) \in Nat /\ Cardinality(G) <= Cardinality(Own(fds[p], f))
      BY <2>1, <2>2, FS_Subset, FS_CardinalityType
    <2>. QED BY <2>2, <2>3, <2>4
  <1>. QED BY <1>1

(* A file with a descriptor has a reference                                *)
LEMMA HeldCounted ==
    ASSUME RefInv, NEW p \in Procs, NEW d \in FDs, fds[p][d] \in Files
    PROVE  /\ 1 <= files[fds[p][d]].ref
           /\ \A q \in Procs, e \in FDs : fds[q][e] = fds[p][d] /\ <<q, e>> # <<p, d>> => 2 <= files[fds[p][d]].ref
  <1>. DEFINE f == fds[p][d]
              S == Held(fds, f)
  <1>1. <<p, d>> \in S /\ \A q \in Procs, e \in FDs : fds[q][e] = f => <<q, e>> \in S
    BY DEF Held
  <1>2. files[f].ref = Cardinality(S)
    BY CountedHeld DEF RefInv
  <1>3. IsFiniteSet(S)
    <2>1. S \in SUBSET (Procs \X FDs)
      BY DEF Held
    <2>. QED BY ZenonT(30), <2>1, TablesFinite, FS_Product, FS_Subset
  <1>. HIDE DEF f, S
  <1>4. Cardinality(S) \in Nat
    BY <1>3, FS_CardinalityType
  <1>5. 1 <= Cardinality(S)
    BY <1>1, <1>3, <1>4, FS_EmptySet
  <1>6. ASSUME NEW q \in Procs, NEW e \in FDs, <<q, e>> \in S, <<q, e>> # <<p, d>>
        PROVE  2 <= Cardinality(S)
    <2>. DEFINE x == <<p, d>>
                y == <<q, e>>
    <2>1. x \in S /\ y \in S /\ x # y
      BY <1>1, <1>6
    <2>. HIDE DEF x, y
    <2>2. {x, y} \subseteq S
      BY <2>1
    <2>3. Cardinality({x, y}) = 2
      <3>1. IsFiniteSet({x}) /\ Cardinality({x}) = 1
        BY FS_Singleton
      <3>2. {x, y} = {x} \cup {y} /\ y \notin {x}
        BY <2>1
      <3>3. Cardinality({x} \cup {y}) = Cardinality({x}) + 1
        BY ZenonT(30), <3>1, <3>2, FS_AddElement
      <3>4. Cardinality({x, y}) = Cardinality({x} \cup {y})
        BY <3>2, Zenon
      <3>. QED BY <3>1, <3>3, <3>4
    <2>. QED BY <1>3, <1>4, <2>2, <2>3, FS_Subset
  <1>. QED BY ZenonT(30), <1>1, <1>2, <1>5, <1>6 DEF f

(* What a step must keep besides the references                            *)
EndsKept == PipeShape /\ EndsOf(files, pipes) /\ OnPipes(files)

(* close, exec, exit and the control message                               *)
LEMMA CloseEnds ==
    ASSUME EndInv, NEW p \in Procs, NEW D, D \subseteq FDs, CloseFds(p, D)
    PROVE  EndsKept'
  <1>. DEFINE gone == [f \in Files |-> Cardinality({d \in D : fds[p][d] = f})]
  <1>1. files' = FilesAfter(gone) /\ pipes' = PipesAfter(gone)
    BY DEF CloseFds
  <1>2. gone \in [Files -> Nat] /\ \A f \in Files : gone[f] <= files[f].ref
    BY ZenonT(30), GoneCounted DEF EndInv
  <1>. HIDE DEF gone
  <1>3. EndsOf(FilesAfter(gone), PipesAfter(gone)) /\ PipeShape' /\ OnPipes(FilesAfter(gone))
    BY <1>1, <1>2, AfterEnds DEF EndInv, RefInv, TableTypes
  <1>. QED BY <1>1, <1>3 DEF EndsKept

(* A step that adds references to files that have some, or changes flags   *)
(* that are not those of an end                                            *)
LEMMA SteadyEnds ==
    ASSUME EndInv, pipes' = pipes,
           \A f \in Files : /\ files'[f].ref > 0 <=> files[f].ref > 0
                            /\ files'[f].rd = files[f].rd /\ files'[f].wr = files[f].wr
                            /\ files'[f].rp = files[f].rp /\ files'[f].wp = files[f].wp
    PROVE  EndsKept'
  <1>1. PipeShape'
    BY DEF EndInv, PipeShape
  <1>. DEFINE F == files
              G == files'
              P == pipes
              Q == pipes'
  <1>2. EndsOf(F, P)
    BY DEF EndInv
  <1>3. /\ \A f \in Files : G[f].ref > 0 <=> F[f].ref > 0
        /\ \A f \in Files : F[f].ref > 0 => /\ G[f].rd = F[f].rd /\ G[f].wr = F[f].wr
                                            /\ G[f].rp = F[f].rp /\ G[f].wp = F[f].wp
        /\ \A k \in Pipes : /\ Q[k].readers = P[k].readers /\ Q[k].writers = P[k].writers
                            /\ (Q[k].used <=> P[k].used)
    OBVIOUS
  <1>. HIDE DEF F, G, P, Q
  <1>4. EndsOf(G, Q)
    BY <1>2, <1>3, SameEnds
  <1>5. OnPipes(G)
    BY DEF EndInv, OnPipes, G
  <1>. QED BY <1>1, <1>4, <1>5 DEF EndsKept, G, Q

(* dup *)
LEMMA DupEnds ==
    ASSUME EndInv, NEW p \in Procs, NEW d \in FDs, Dup(p, d)
    PROVE  EndsKept'
  <1>. DEFINE g == fds[p][d]
  <1>1. g \in Files /\ files \in [Files -> FileRecs]
    BY DEF Dup, EndInv, RefInv, TableTypes
  <1>2. files' = [files EXCEPT ![g].ref = @ + 1] /\ pipes' = pipes
    BY DEF Dup
  <1>3. 1 <= files[g].ref
    BY <1>1, HeldCounted DEF EndInv
  <1>. HIDE DEF g
  <1>4. \A f \in Files :
          /\ files[f].ref \in Nat
          /\ files'[f].ref = files[f].ref + (IF f = g THEN 1 ELSE 0)
          /\ files'[f].rd = files[f].rd /\ files'[f].wr = files[f].wr
          /\ files'[f].rp = files[f].rp /\ files'[f].wp = files[f].wp
    BY <1>1, <1>2, OneMore
  <1>5. \A f \in Files : files'[f].ref > 0 <=> files[f].ref > 0
    BY <1>1, <1>3, <1>4
  <1>. QED BY <1>2, <1>4, <1>5, SteadyEnds

(* F_SETFL *)
LEMMA SetFlEnds ==
    ASSUME EndInv, NEW p \in Procs, NEW d \in FDs, NEW b \in BOOLEAN, SetFl(p, d, b)
    PROVE  EndsKept'
  <1>. DEFINE g == fds[p][d]
              new == [files[g] EXCEPT !.nonblock = b]
  <1>1. g \in Files /\ files \in [Files -> FileRecs] /\ files[g] \in FileRecs
    BY DEF SetFl, EndInv, RefInv, TableTypes
  <1>2. files' = [files EXCEPT ![g] = new] /\ pipes' = pipes
    BY DEF SetFl
  <1>3. /\ new.ref = files[g].ref /\ new.rd = files[g].rd /\ new.wr = files[g].wr
        /\ new.rp = files[g].rp /\ new.wp = files[g].wp
    BY <1>1 DEF FileRecs
  <1>. HIDE DEF g, new
  <1>4. \A f \in Files : f # g => files'[f] = files[f]
    BY <1>1, <1>2
  <1>5. files'[g] = new
    BY <1>1, <1>2
  <1>. QED BY <1>2, <1>3, <1>4, <1>5, SteadyEnds

(* fork *)
LEMMA ForkEnds ==
    ASSUME EndInv, NEW p \in Procs, NEW c \in Procs, Fork(p, c)
    PROVE  EndsKept'
  <1>1. pipes' = pipes
    BY DEF Fork
  <1>2. ASSUME NEW f \in Files
        PROVE  /\ files'[f].ref > 0 <=> files[f].ref > 0
               /\ files'[f].rd = files[f].rd /\ files'[f].wr = files[f].wr
               /\ files'[f].rp = files[f].rp /\ files'[f].wp = files[f].wp
    <2>. DEFINE n == Cardinality(Own(fds[p], f))
    <2>1. files'[f] = [files[f] EXCEPT !.ref = @ + n]
      BY DEF Fork, Own
    <2>2. n \in Nat /\ n <= files[f].ref /\ files[f].ref \in Nat
      BY OwnCounted DEF EndInv
    <2>3. files[f] \in FileRecs
      BY DEF EndInv, RefInv, TableTypes
    <2>. HIDE DEF n
    <2>4. /\ files'[f].ref = files[f].ref + n
          /\ files'[f].rd = files[f].rd /\ files'[f].wr = files[f].wr
          /\ files'[f].rp = files[f].rp /\ files'[f].wp = files[f].wp
      BY <2>1, <2>3 DEF FileRecs
    <2>. QED BY <2>2, <2>4
  <1>. QED BY <1>1, <1>2, SteadyEnds

(* dup2: the file of a keeps a reference when that of b is closed          *)
LEMMA Dup2Ends ==
    ASSUME EndInv, NEW p \in Procs, NEW a \in FDs, NEW b \in FDs, Dup2(p, a, b)
    PROVE  EndsKept'
  <1>. DEFINE g == fds[p][a]
              gone == [f \in Files |-> IF fds[p][b] = f THEN 1 ELSE 0]
              F == FilesAfter(gone)
              P == PipesAfter(gone)
  <1>1. g \in Files /\ files \in [Files -> FileRecs] /\ RefInv /\ a # b
    BY DEF Dup2, EndInv, RefInv, TableTypes
  <1>2. files' = [F EXCEPT ![g].ref = @ + 1] /\ pipes' = P
    BY DEF Dup2
  <1>3. gone \in [Files -> Nat]
    OBVIOUS
  <1>4. ASSUME NEW f \in Files
        PROVE  gone[f] \in Nat /\ files[f].ref \in Nat /\ gone[f] <= files[f].ref /\ (f = g => gone[f] < files[f].ref)
    <2>1. files[f].ref \in Nat
      BY <1>1 DEF FileRecs
    <2>2. CASE fds[p][b] = f /\ f # g
      <3>1. 1 <= files[f].ref
        BY <1>1, <2>2, HeldCounted
      <3>. QED BY <2>1, <2>2, <3>1
    <2>3. CASE fds[p][b] = f /\ f = g
      <3>1. 2 <= files[f].ref
        <4>1. <<p, b>> # <<p, a>>
          BY <1>1
        <4>. QED BY <1>1, <2>3, <4>1, HeldCounted
      <3>. QED BY <2>1, <2>3, <3>1
    <2>4. CASE fds[p][b] # f
      <3>1. f = g => 1 <= files[f].ref
        BY <1>1, HeldCounted
      <3>. QED BY <2>1, <2>4, <3>1
    <2>. QED BY <2>2, <2>3, <2>4
  <1>. HIDE DEF gone
  <1>5. /\ F \in [Files -> FileRecs]
        /\ \A f \in Files : F[f].ref = files[f].ref - gone[f]
    BY <1>1, <1>3, <1>4, AfterClose
  <1>6. EndsOf(F, P) /\ PipeShape' /\ OnPipes(F)
    BY <1>1, <1>2, <1>3, <1>4, AfterEnds DEF EndInv
  <1>. HIDE DEF g, F, P
  <1>7. F[g].ref > 0 /\ \A f \in Files : F[f].ref \in Nat
    BY <1>1, <1>4, <1>5
  <1>. DEFINE G == files'
              Q == pipes'
  <1>8. \A f \in Files :
          /\ G[f].ref = F[f].ref + (IF f = g THEN 1 ELSE 0)
          /\ G[f].rd = F[f].rd /\ G[f].wr = F[f].wr /\ G[f].rp = F[f].rp /\ G[f].wp = F[f].wp
    BY <1>1, <1>2, <1>5, OneMore
  <1>9. \A k \in Pipes : /\ Q[k].readers = P[k].readers /\ Q[k].writers = P[k].writers
                         /\ (Q[k].used <=> P[k].used)
    BY <1>2
  <1>. HIDE DEF G, Q
  <1>10. \A f \in Files : G[f].ref > 0 <=> F[f].ref > 0
    BY <1>1, <1>7, <1>8
  <1>11. EndsOf(G, Q)
    BY <1>6, <1>8, <1>9, <1>10, SameEnds
  <1>12. OnPipes(G)
    BY <1>6, <1>8, <1>10 DEF OnPipes
  <1>. QED BY <1>6, <1>11, <1>12 DEF EndsKept, G, Q

(* A transfer moves a counter and fills the buffer                         *)
LEMMA MovedEnds ==
    ASSUME EndInv, files' = files, NEW k, NEW x, NEW y, NEW z,
           \/ pipes' = pipes
           \/ pipes' = [pipes EXCEPT ![k].nread = x]
           \/ pipes' = [pipes EXCEPT ![k].nwrite = y, ![k].buf = z]
    PROVE  EndsKept'
  <1>1. PipeShape
    BY DEF EndInv
  <1>2. pipes' = [l \in Pipes |-> pipes'[l]]
    BY <1>1 DEF PipeShape
  <1>3. ASSUME NEW l \in Pipes
        PROVE  /\ IsPipe(pipes'[l])
               /\ pipes'[l].readers = pipes[l].readers /\ pipes'[l].writers = pipes[l].writers
               /\ (pipes'[l].used <=> pipes[l].used)
    <2>. DEFINE v == pipes[l]
                w == pipes'[l]
    <2>1. IsPipe(v)
      BY <1>1 DEF PipeShape
    <2>2. w \in {v, [v EXCEPT !.nread = x], [v EXCEPT !.nwrite = y, !.buf = z]}
      BY ZenonT(30), <1>1 DEF PipeShape
    <2>. HIDE DEF v, w
    <2>3. IsPipe(w) /\ w.readers = v.readers /\ w.writers = v.writers /\ w.used = v.used
      BY ZenonT(30), <2>1, <2>2 DEF IsPipe, PipeFields
    <2>. QED BY <2>3 DEF v, w
  <1>4. PipeShape'
    BY <1>2, <1>3 DEF PipeShape
  <1>. DEFINE F == files
              G == files'
              P == pipes
              Q == pipes'
  <1>5. EndsOf(F, P)
    BY DEF EndInv
  <1>6. /\ \A f \in Files : G[f] = F[f]
        /\ \A l \in Pipes : /\ Q[l].readers = P[l].readers /\ Q[l].writers = P[l].writers
                            /\ (Q[l].used <=> P[l].used)
    BY <1>3
  <1>. HIDE DEF F, G, P, Q
  <1>7. EndsOf(G, Q)
    BY <1>5, <1>6, SameEnds
  <1>8. OnPipes(G)
    BY DEF EndInv, OnPipes, G
  <1>. QED BY <1>4, <1>7, <1>8 DEF EndsKept, G, Q

(* read, write and poll                                                    *)
LEMMA TransferEnds ==
    ASSUME EndInv, NEW p \in Procs, Transfer(p) \/ Resume(p)
    PROVE  EndsKept'
  <1>0. files' = files
    BY ZenonT(30) DEF Transfer, Resume, Read, Write, Poll, ReadOn, WriteOn, PollOn
  <1>1. ASSUME NEW c, ReadFrom(p, c) PROVE EndsKept'
    <2>1. PICK k, x : pipes' = pipes \/ pipes' = [pipes EXCEPT ![k].nread = x]
      BY ZenonT(30), <1>1 DEF ReadFrom
    <2>. QED BY ZenonT(30), <1>0, <2>1, MovedEnds
  <1>2. ASSUME NEW c, WriteFrom(p, c) PROVE EndsKept'
    <2>2. PICK k, s, m, n : pipes' = pipes \/ pipes' = Poured(k, s, m, n)
      BY <1>2 DEF WriteFrom
    <2>3. PICK y, z : Poured(k, s, m, n) = [pipes EXCEPT ![k].nwrite = y, ![k].buf = z]
      BY ZenonT(30) DEF Poured
    <2>1. pipes' = pipes \/ pipes' = [pipes EXCEPT ![k].nwrite = y, ![k].buf = z]
      BY <2>2, <2>3
    <2>. QED BY <1>0, <2>1, MovedEnds
  <1>3. ASSUME pipes' = pipes PROVE EndsKept'
    BY <1>0, <1>3, MovedEnds
  <1>. QED BY ZenonT(30), <1>1, <1>2, <1>3 DEF Transfer, Resume, Read, Write, Poll, ReadOn, WriteOn, PollOn

(* sys_pipe: the unused pipe it takes has no ends                          *)
LEMMA PipeEnds ==
    ASSUME EndInv, NEW p \in Procs, PipeCall(p)
    PROVE  EndsKept'
  <1>. DEFINE k  == Min(PipeFree)
              rf == Min(FileFree)
              wf == Min(FileFree \ {rf})
              rnew == [FreeFile EXCEPT !.ref = 1, !.rp = k, !.wp = k, !.rd = TRUE]
              wnew == [FreeFile EXCEPT !.ref = 1, !.rp = k, !.wp = k, !.wr = TRUE]
              held == [ZeroPipe EXCEPT !.used = TRUE, !.readers = 1, !.writers = 1]
  <1>1. /\ k \in Pipes /\ ~pipes[k].used
        /\ rf \in Files /\ wf \in Files /\ rf # wf /\ files[rf].ref = 0 /\ files[wf].ref = 0
    BY ZenonT(30), PipeSlots DEF EndInv
  <1>2. \/ pipes' = [pipes EXCEPT ![k] = ZeroPipe] /\ files' = files
        \/ /\ pipes' = [pipes EXCEPT ![k] = held]
           /\ files' = [files EXCEPT ![rf] = rnew, ![wf] = wnew]
    BY ZenonT(30) DEF PipeCall
  <1>3. /\ rnew.ref = 1 /\ rnew.rp = k /\ rnew.wp = k /\ rnew.rd /\ ~rnew.wr
        /\ wnew.ref = 1 /\ wnew.rp = k /\ wnew.wp = k /\ wnew.wr /\ ~wnew.rd
    BY DEF FreeFile
  <1>4. /\ IsPipe(ZeroPipe) /\ ZeroPipe.readers = 0 /\ ZeroPipe.writers = 0 /\ ~ZeroPipe.used
        /\ IsPipe(held) /\ held.readers = 1 /\ held.writers = 1 /\ held.used
    BY ZenonT(30) DEF ZeroPipe, IsPipe, PipeFields
  <1>5. REnds(files, k) = {} /\ WEnds(files, k) = {}
    <2>1. /\ pipes[k].readers = Cardinality(REnds(files, k)) /\ pipes[k].writers = Cardinality(WEnds(files, k))
          /\ ~(pipes[k].readers + pipes[k].writers > 0)
      BY <1>1 DEF EndInv, EndsOf
    <2>. HIDE DEF k
    <2>. QED BY <2>1, EndsFinite
  <1>6. PipeShape /\ EndsOf(files, pipes) /\ files \in [Files -> FileRecs]
    BY DEF EndInv, RefInv, TableTypes
  <1>. HIDE DEF k, rf, wf, rnew, wnew, held
  <1>7. /\ pipes' = [l \in Pipes |-> pipes'[l]]
        /\ \A l \in Pipes : l # k => pipes'[l] = pipes[l]
        /\ pipes'[k] \in {ZeroPipe, held}
    BY <1>1, <1>2, <1>6 DEF PipeShape
  <1>8. PipeShape'
    BY <1>4, <1>6, <1>7 DEF PipeShape
  <1>9. Cardinality({}) = 0
    BY FS_EmptySet
  <1>10. CASE pipes' = [pipes EXCEPT ![k] = ZeroPipe] /\ files' = files
    <2>1. ASSUME NEW l \in Pipes
          PROVE  /\ pipes'[l].readers = Cardinality(REnds(files, l))
                 /\ pipes'[l].writers = Cardinality(WEnds(files, l))
                 /\ pipes'[l].readers + pipes'[l].writers > 0 => pipes'[l].used
                 /\ pipes'[l].used => \E f \in Files : files[f].ref > 0 /\ l \in {files[f].rp, files[f].wp}
      <3>1. CASE l = k
        <4>1. pipes'[l] = ZeroPipe
          BY <1>1, <1>6, <1>10, <3>1 DEF PipeShape
        <4>2. Cardinality(REnds(files, l)) = 0 /\ Cardinality(WEnds(files, l)) = 0
          BY <1>5, <1>9, <3>1, Zenon
        <4>. QED BY <1>4, <4>1, <4>2
      <3>2. CASE l # k
        BY <1>6, <1>7, <3>2 DEF EndsOf
      <3>. QED BY <3>1, <3>2
    <2>2. OnPipes(files)
      BY DEF EndInv
    <2>. QED BY <1>8, <1>10, <2>1, <2>2 DEF EndsKept, EndsOf
  <1>11. CASE pipes' = [pipes EXCEPT ![k] = held] /\ files' = [files EXCEPT ![rf] = rnew, ![wf] = wnew]
    <2>. DEFINE G == files'
    <2>1. G[rf] = rnew /\ G[wf] = wnew /\ \A f \in Files : f \notin {rf, wf} => G[f] = files[f]
      BY <1>1, <1>6, <1>11
    <2>2. ASSUME NEW f \in Files, f \notin {rf, wf} PROVE G[f] = files[f]
      BY <2>1, <2>2
    <2>. HIDE DEF G
    <2>3. REnds(G, k) = {rf} /\ WEnds(G, k) = {wf}
      BY <1>1, <1>3, <1>5, <2>1 DEF REnds, WEnds
    <2>4. ASSUME NEW l \in Pipes, l # k
          PROVE  REnds(G, l) = REnds(files, l) /\ WEnds(G, l) = WEnds(files, l)
      BY <1>1, <1>3, <2>1, <2>4 DEF REnds, WEnds
    <2>5. Cardinality(REnds(G, k)) = 1 /\ Cardinality(WEnds(G, k)) = 1
      BY <2>3, FS_Singleton, Zenon
    <2>6. ASSUME NEW l \in Pipes
          PROVE  /\ pipes'[l].readers = Cardinality(REnds(G, l))
                 /\ pipes'[l].writers = Cardinality(WEnds(G, l))
                 /\ pipes'[l].readers + pipes'[l].writers > 0 => pipes'[l].used
                 /\ pipes'[l].used => \E f \in Files : G[f].ref > 0 /\ l \in {G[f].rp, G[f].wp}
      <3>1. CASE l = k
        <4>1. pipes'[l] = held
          BY <1>1, <1>6, <1>11, <3>1 DEF PipeShape
        <4>2. G[rf].ref > 0 /\ l \in {G[rf].rp, G[rf].wp}
          BY <1>3, <2>1, <3>1
        <4>3. pipes'[l].readers = 1 /\ pipes'[l].writers = 1 /\ pipes'[l].used
          BY <1>4, <4>1
        <4>. QED BY <1>1, <2>5, <3>1, <4>2, <4>3
      <3>2. CASE l # k
        <4>1. pipes'[l] = pipes[l] /\ REnds(G, l) = REnds(files, l) /\ WEnds(G, l) = WEnds(files, l)
          BY <1>7, <2>4, <3>2
        <4>2. /\ pipes[l].readers = Cardinality(REnds(files, l))
              /\ pipes[l].writers = Cardinality(WEnds(files, l))
              /\ pipes[l].readers + pipes[l].writers > 0 => pipes[l].used
              /\ pipes[l].used => \E f \in Files : files[f].ref > 0 /\ l \in {files[f].rp, files[f].wp}
          BY <1>6 DEF EndsOf
        <4>3. ASSUME NEW f \in Files, files[f].ref > 0 PROVE G[f] = files[f]
          BY <1>1, <2>1, <4>3
        <4>. QED BY <4>1, <4>2, <4>3
      <3>. QED BY <3>1, <3>2
    <2>7. OnPipes(G)
      <3>1. OnPipes(files)
        BY DEF EndInv
      <3>. QED BY <1>1, <1>3, <2>1, <3>1 DEF OnPipes
    <2>. QED BY <1>8, <2>6, <2>7 DEF EndsKept, EndsOf, G
  <1>. QED BY <1>2, <1>10, <1>11

(* Every step but those of the device keeps the ends counted               *)
LEMMA EndStep ==
    ASSUME EndInv, "attach" \notin Calls, [Next]_vars
    PROVE  EndInv'
  <1>1. RefInv'
    BY RefStep DEF EndInv
  <1>2. ASSUME UNCHANGED vars PROVE devs' = devs /\ EndsKept'
    BY <1>2 DEF vars, EndInv, EndsKept, PipeShape, EndsOf, REnds, WEnds, OnPipes
  <1>3. ASSUME NEW p \in Procs, Table(p) PROVE devs' = devs /\ EndsKept'
    <2>1. ASSUME NEW d \in FDs, Close(p, d) PROVE devs' = devs /\ EndsKept'
      BY <2>1, CloseEnds DEF Close
    <2>2. ASSUME NEW q \in Procs, NEW d \in FDs, CtlClose(p, q, d) PROVE devs' = devs /\ EndsKept'
      BY <2>2, CloseEnds DEF CtlClose
    <2>3. ASSUME Exec(p) PROVE devs' = devs /\ EndsKept'
      <3>1. cloexec[p] \subseteq FDs
        BY DEF EndInv, RefInv, TableTypes
      <3>. QED BY <2>3, <3>1, CloseEnds DEF Exec
    <2>4. ASSUME Exit(p) PROVE devs' = devs /\ EndsKept'
      BY <2>4, CloseEnds DEF Exit
    <2>5. ASSUME NEW d \in FDs, Dup(p, d) PROVE devs' = devs /\ EndsKept'
      BY ZenonT(30), <2>5, DupEnds DEF Dup
    <2>6. ASSUME NEW d \in FDs, SetFd(p, d) PROVE devs' = devs /\ EndsKept'
      BY <2>6, SteadyEnds DEF SetFd
    <2>7. ASSUME NEW d \in FDs, NEW b \in BOOLEAN, SetFl(p, d, b) PROVE devs' = devs /\ EndsKept'
      BY ZenonT(30), <2>7, SetFlEnds DEF SetFl
    <2>8. ASSUME NEW a \in FDs, NEW b \in FDs, Dup2(p, a, b) PROVE devs' = devs /\ EndsKept'
      BY <2>8, Dup2Ends DEF Dup2
    <2>9. ASSUME NEW c \in Procs, Fork(p, c) PROVE devs' = devs /\ EndsKept'
      BY ZenonT(30), <2>9, ForkEnds DEF Fork
    <2>10. ASSUME PipeCall(p) PROVE devs' = devs /\ EndsKept'
      BY ZenonT(30), <2>10, PipeEnds DEF PipeCall
    <2>11. /\ ~Attach(p)
           /\ \A d \in Devs, e \in {2, 3} :
                \A m \in {<<TRUE, FALSE>>, <<FALSE, TRUE>>, <<TRUE, TRUE>>} : ~OpenEnd(p, d, e, m[1], m[2])
      <3>1. ~Attach(p)
        BY DEF Attach
      <3>2. ASSUME NEW d \in Devs, NEW e \in {2, 3}, NEW r, NEW w, OpenEnd(p, d, e, r, w) PROVE "attach" \in Calls
        BY <3>2, Zenon DEF OpenEnd
      <3>. QED BY ZenonT(30), <3>1, <3>2
    <2>. QED BY ZenonT(30), <1>3, <2>1, <2>2, <2>3, <2>4, <2>5, <2>6, <2>7, <2>8, <2>9, <2>10, <2>11 DEF Table
  <1>4. ASSUME NEW p \in Procs, Transfer(p) \/ Resume(p) PROVE devs' = devs /\ EndsKept'
    <2>1. devs' = devs
      BY ZenonT(30), <1>4 DEF Transfer, Resume, Read, Write, Poll, ReadOn, WriteOn, PollOn
    <2>. QED BY <1>4, <2>1, TransferEnds
  <1>5. ASSUME NEW p \in Procs, PollTimeout(p) \/ Signal(p) \/ Deliver(p) PROVE devs' = devs /\ EndsKept'
    <2>1. devs' = devs /\ files' = files /\ pipes' = pipes
      BY <1>5 DEF PollTimeout, Signal, Deliver
    <2>. QED BY <2>1, SteadyEnds
  <1>6. \A d \in Devs : ~ReleaseDev(d)
    BY DEF ReleaseDev
  <1>7. devs' = devs /\ EndsKept'
    BY <1>2, <1>3, <1>4, <1>5, <1>6 DEF Next
  <1>. QED BY <1>1, <1>7 DEF EndInv, EndsKept

(* At the start there are no ends                                          *)
LEMMA EndInit ==
    ASSUME Init
    PROVE  EndInv
  <1>1. RefInv
    BY RefInit
  <1>2. IsPipe(ZeroPipe) /\ ZeroPipe.readers = 0 /\ ZeroPipe.writers = 0 /\ ~ZeroPipe.used
    BY ZenonT(30) DEF ZeroPipe, IsPipe, PipeFields
  <1>3. PipeShape
    BY <1>2 DEF Init, PipeShape
  <1>4. \A k \in Pipes : REnds(files, k) = {} /\ WEnds(files, k) = {}
    BY DEF Init, FreeFile, REnds, WEnds
  <1>5. \A k \in Pipes : Cardinality(REnds(files, k)) = 0 /\ Cardinality(WEnds(files, k)) = 0
    BY <1>4, FS_EmptySet, Zenon
  <1>6. \A k \in Pipes : pipes[k] = ZeroPipe
    BY DEF Init
  <1>7. EndsOf(files, pipes)
    BY <1>2, <1>5, <1>6 DEF EndsOf
  <1>8. \A d \in Devs : ~devs[d].used
    BY DEF Init, FreeDev
  <1>9. OnPipes(files)
    BY DEF Init, FreeFile, OnPipes
  <1>. QED BY <1>1, <1>3, <1>7, <1>8, <1>9 DEF EndInv

(* readers and writers count the open files at the ends of every pipe, and *)
(* a pipe is in use as long as it has an end, as long as nobody uses the   *)
(* pipe device, whose pipes outlive their ends (sys_pipe, file_close,      *)
(* pipe_check, do_rfork, do_exec, do_exit).                                *)
THEOREM EndsStayCounted ==
    ASSUME "attach" \notin Calls
    PROVE  Spec => []EndsCounted
  <1>1. Init => EndInv
    BY EndInit
  <1>2. EndInv /\ [Next]_vars => EndInv'
    BY EndStep
  <1>3. EndInv => EndsCounted
    BY EndsAlone DEF EndInv
  <1>. QED BY <1>1, <1>2, <1>3, PTL DEF Spec
================================================================================
