---------------------------------- MODULE Fifo ----------------------------------
(***************************************************************************)
(* What a pipe promises: a bounded queue of bytes for every pipe in use.   *)
(* Bytes leave in the order in which they were written, none is lost,      *)
(* repeated or invented, and a pipe starts empty when it is handed out.    *)
(***************************************************************************)
EXTENDS Naturals, Sequences, SequencesExt

CONSTANTS Chans, Values, Capacity

VARIABLES open, q

vars == <<open, q>>

Init == open = {} /\ q = [c \in Chans |-> <<>>]

New(D) == D \cap open = {} /\ open' = open \cup D /\ UNCHANGED q

Put(c) == /\ c \in open
          /\ \E s \in BoundedSeq(Values, Capacity - Len(q[c])) :
                q' = [q EXCEPT ![c] = @ \o s]
          /\ UNCHANGED open

Get(c) == /\ c \in open
          /\ \E n \in 1 .. Len(q[c]) : q' = [q EXCEPT ![c] = SubSeq(@, n + 1, Len(@))]
          /\ UNCHANGED open

Close(D) == /\ open' = open \ D
            /\ q' = [c \in Chans |-> IF c \in D THEN <<>> ELSE q[c]]

Next == \/ \E D \in SUBSET Chans : New(D)
        \/ \E c \in Chans : Put(c) \/ Get(c)
        \/ \E D \in SUBSET open : Close(D)

Spec == Init /\ [][Next]_vars
================================================================================
