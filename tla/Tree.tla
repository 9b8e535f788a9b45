-------------------------------- MODULE Tree --------------------------------
(***************************************************************************)
(* What the file calls promise.  Files, directories and links are nodes;   *)
(* a directory gives names to nodes.  A node is there as long as it has a  *)
(* name or a process is in it or has it open.  A call that fails changes   *)
(* nothing, save that a write may stop early, with the file as long as     *)
(* where it stopped.  Nothing is promised after a stop of the machine.     *)
(***************************************************************************)
EXTENDS Integers, Sequences

CONSTANTS Procs, Names, Cells, Nil

VARIABLES tree, cwd, fd

vars == <<tree, cwd, fd>>

Root == 1
Gone == [i \in {} |-> 0]
Empty(kind, up) == [kind |-> kind, data |-> <<>>, up |-> up, ents |-> {}]

Init == Root \in DOMAIN tree /\ cwd = [p \in Procs |-> 0] /\ fd = [p \in Procs |-> 0]

(* The nodes of T that have a name or are held *)
Keep(T, c, f) ==
    LET live == {Root} \cup {e[2] : e \in UNION {T[d].ents : d \in DOMAIN T}}
                       \cup {c[p] : p \in Procs} \cup {f[p] : p \in Procs}
    IN  [i \in live \cap DOMAIN T |-> T[i]]

IsDir(T, d)       == d \in DOMAIN T /\ T[d].kind = "dir"
Used(T, d)        == {e[1] : e \in T[d].ents}
New(T, i, node)   == [j \in DOMAIN T \cup {i} |-> IF j = i THEN node ELSE T[j]]
Enter(T, d, n, i) == [T EXCEPT ![d].ents = @ \cup {<<n, i>>}]
Drop(T, d, n)     == [T EXCEPT ![d].ents = {e \in @ : e[1] # n}]

(* s with the cells src from off on; what lies between reads as zero *)
Splice(s, src, off) ==
    [k \in 1 .. (IF off + Len(src) > Len(s) THEN off + Len(src) ELSE Len(s)) |->
        IF k \in off + 1 .. off + Len(src) THEN src[k - off] ELSE IF k <= Len(s) THEN s[k] ELSE Nil]
Cut(s, len) == [k \in 1 .. len |-> IF k <= Len(s) THEN s[k] ELSE Nil]

(* The steps, from the files T, current directories c and open files f to  *)
(* U, d and g.                                                             *)
Create(T, c, f, U, d, g) ==
    \E dir \in DOMAIN T, i \in DOMAIN U \ DOMAIN T, n \in Names :
        /\ IsDir(T, dir) /\ n \notin Used(T, dir)
        /\ \/ g = f /\ U[i].kind \in {"dir", "link"}
           \/ \E p \in Procs : f[p] = 0 /\ g = [f EXCEPT ![p] = i] /\ U[i].kind = "file" /\ U[i].data = <<>>
        /\ U[i] = [Empty(U[i].kind, IF U[i].kind = "dir" THEN dir ELSE 0) EXCEPT !.data = U[i].data]
        /\ U = Enter(New(T, i, U[i]), dir, n, i)
        /\ d = c

(* A write puts a run of one byte at some offset *)
Change(T, c, f, U, d, g) ==
    \E p \in Procs :
        LET i == g[p]
        IN  /\ i \in DOMAIN T /\ T[i].kind = "file"
            /\ \/ f = g /\ \E off, end \in 0 .. Len(U[i].data), x \in Cells :
                     U = [T EXCEPT ![i].data = Splice(@, [k \in 1 .. end - off |-> x], off)]
               \/ f = g /\ U = [T EXCEPT ![i].data = Cut(@, Len(U[i].data))]
               \/ f = [g EXCEPT ![p] = 0] /\ U = [T EXCEPT ![i].data = <<>>]
            /\ d = c

Link(T, c, f, U, d, g) ==
    /\ c = d /\ f = g
    /\ \E dir, i \in DOMAIN T, n \in Names :
          IsDir(T, dir) /\ n \notin Used(T, dir) /\ T[i].kind # "dir" /\ U = Enter(T, dir, n, i)

Unlink(T, c, f, U, d, g) ==
    /\ c = d /\ f = g
    /\ \E dir \in DOMAIN T : \E e \in T[dir].ents :
          T[e[2]].ents = {} /\ U = Keep(Drop(T, dir, e[1]), c, f)

Move(T, c, f, U, d, g) ==
    /\ c = d /\ f = g
    /\ \E od, nd \in DOMAIN T : \E s \in T[od].ents, nn \in Names :
        LET V == Enter(Drop(Drop(T, nd, nn), od, s[1]), nd, nn, s[2])
        IN  /\ IsDir(T, nd)
            /\ \A o \in T[nd].ents : o[1] = nn => /\ o[2] # s[2] /\ T[o[2]].ents = {}
                                                  /\ T[o[2]].kind = "dir" <=> T[s[2]].kind = "dir"
            /\ U = Keep(IF T[s[2]].kind = "dir" THEN [V EXCEPT ![s[2]].up = nd] ELSE V, c, f)

Hold(T, c, f, U, d, g) ==
    /\ \E p \in Procs :
        \/ /\ c = d /\ g = [f EXCEPT ![p] = g[p]]
           /\ g[p] = 0 \/ (f[p] = 0 /\ g[p] \in DOMAIN T /\ T[g[p]].kind = "file")
        \/ f = g /\ d = [c EXCEPT ![p] = d[p]] /\ (d[p] = 0 \/ IsDir(T, d[p]))
    /\ U = Keep(T, d, g)

Stop(T, U, d, g) == U = Gone /\ (T = Gone \/ \A p \in Procs : d[p] = 0 /\ g[p] = 0)

Step(T, c, f, U, d, g) ==
    \/ T = U /\ c = d /\ f = g
    \/ Stop(T, U, d, g)
    \/ Hold(T, c, f, U, d, g)
    \/ Create(T, c, f, U, d, g)
    \/ Change(T, c, f, U, d, g)
    \/ Link(T, c, f, U, d, g)
    \/ Unlink(T, c, f, U, d, g)
    \/ Move(T, c, f, U, d, g)

Next == Step(tree, cwd, fd, tree', cwd', fd')
Spec == Init /\ [][Next]_vars
=============================================================================
