-------------------------------- MODULE Notes --------------------------------
(***************************************************************************)
(* Notes (os/kernel/note.c) of one process beside its signals (signal.c    *)
(* deliver_signals) and its faults (trap.c).  The process runs its main    *)
(* program, its note handler or its handler of INT; what a handler         *)
(* interrupts is saved on the user stack, where a note's frame is found    *)
(* again at noteureg and a signal's on top.  Handlers leave through noted  *)
(* and sigreturn.                                                          *)
(***************************************************************************)
EXTENDS Integers, Sequences, FiniteSets

CONSTANTS NNOTE, MaxNotes, MaxSteps

VARIABLES nt, sg, frame, ustack, told

Sigs == {"INT", "TSTP", "KILL"}

(* A note is its number and the signal its text stands for (note_signal)   *)
NoNotes == [notify |-> FALSE, q |-> <<>>, innote |-> FALSE, cur |-> "", noteureg |-> 0]

(* sg: the signals, and whether the process is in the kernel or has ended. *)
(* told: how many notes were posted, the numbers of those accepted and not *)
(* handled, whether one was handled before its turn, and the steps the     *)
(* main program took.                                                      *)
NInit ==
    /\ nt = NoNotes
    /\ sg = [pend |-> {}, caught |-> FALSE, masked |-> FALSE, kernel |-> FALSE, dead |-> FALSE]
    /\ frame = [who |-> "main", at |-> 0]
    /\ ustack = <<>>
    /\ told = [n |-> 0, wait |-> {}, early |-> FALSE, steps |-> 0]

Alive == ~sg.dead
InUser == Alive /\ ~sg.kernel

(* The note s taken into the queue, or dropped when it is full             *)
Accepts(t) == Len(t.nt.q) < NNOTE
Queued(t, s) ==
    IF ~Accepts(t) THEN [t EXCEPT !.told.n = @ + 1]
    ELSE [t EXCEPT !.nt.q = Append(@, [n |-> t.told.n, sig |-> s]), !.told.n = @ + 1, !.told.wait = @ \cup {t.told.n}]

Now == [nt |-> nt, sg |-> sg, frame |-> frame, ustack |-> ustack, told |-> told]
Becomes(t) == nt' = t.nt /\ sg' = t.sg /\ frame' = t.frame /\ ustack' = t.ustack /\ told' = t.told

(* Another process writes a note: a signal to one without a handler        *)
post_note == \E s \in Sigs :
    /\ Alive /\ sg.kernel /\ told.n < MaxNotes
    /\ IF nt.notify THEN Becomes(Queued(Now, s)) ELSE Becomes([Now EXCEPT !.sg.pend = @ \cup {s}])

send_signal == \E s \in Sigs :
    /\ Alive /\ sg.kernel /\ told.n < MaxNotes
    /\ Becomes([Now EXCEPT !.sg.pend = @ \cup {s}])

(* Calls of the process                                                    *)
sys_notify == \E fn \in BOOLEAN : InUser /\ Becomes([Now EXCEPT !.nt.notify = fn, !.sg.kernel = TRUE])
sys_sigaction == \E h \in BOOLEAN : InUser /\ Becomes([Now EXCEPT !.sg.caught = h, !.sg.kernel = TRUE])
OtherTrap == InUser /\ Becomes([Now EXCEPT !.sg.kernel = TRUE])
Step == InUser /\ frame.who = "main" /\ told.steps < MaxSteps /\ Becomes([Now EXCEPT !.frame.at = @ + 1, !.told.steps = @ + 1])

(* exec frees the notes and resets the handler of the signal               *)
exec_image ==
    /\ InUser
    /\ Becomes([nt |-> NoNotes, sg |-> [sg EXCEPT !.caught = FALSE, !.kernel = TRUE], frame |-> [who |-> "main", at |-> 0],
                ustack |-> <<>>, told |-> [told EXCEPT !.wait = {}, !.steps = 0]])

Below(u, i) == SubSeq(u, 1, i - 1)

sys_sigreturn ==
    /\ InUser /\ frame.who = "sig"
    /\ LET top == ustack[Len(ustack)]
       IN  Becomes([Now EXCEPT !.frame = top.frame, !.sg.masked = top.masked, !.sg.kernel = TRUE, !.ustack = Below(@, Len(ustack))])

(* The default action of a note that is handled: the end, or a stop        *)
NoteEnds(s) == s # "TSTP"

sys_noted == \E how \in {"NCONT", "NDFLT"} :
    /\ InUser /\ frame.who = "note" /\ nt.innote
    /\ LET back == [Now EXCEPT !.frame = ustack[nt.noteureg].frame, !.ustack = Below(@, nt.noteureg),
                               !.nt.innote = FALSE, !.sg.kernel = TRUE]
       IN  Becomes(IF how = "NDFLT" /\ NoteEnds(nt.cur) THEN [back EXCEPT !.sg.dead = TRUE] ELSE back)

(* A fault is a note to a process with a handler that handles none now     *)
Fault ==
    /\ InUser /\ told.n < MaxNotes
    /\ Becomes(IF nt.notify /\ ~nt.innote THEN [Queued(Now, "SEGV") EXCEPT !.sg.kernel = TRUE]
               ELSE [Now EXCEPT !.sg.dead = TRUE])

rest(q) == Tail(q)

(* Slip: a note waits for no other to be handled                           *)
nested(t) == t.nt.notify /\ t.nt.q # <<>>

notes_pending(t) == t.nt.notify /\ ~t.nt.innote /\ t.nt.q # <<>>

Saved(t) == [frame |-> t.frame, masked |-> t.sg.masked]

deliver_note(t) ==
    IF ~notes_pending(t) THEN t
    ELSE LET x == t.nt.q[1]
         IN  [t EXCEPT !.nt.q = rest(@), !.nt.cur = x.sig, !.nt.innote = TRUE, !.nt.noteureg = Len(t.ustack) + 1,
                       !.ustack = Append(@, Saved(t)), !.frame = [who |-> "note", at |-> x.n],
                       !.told.early = @ \/ \E w \in t.told.wait : w < x.n, !.told.wait = @ \ {x.n}]

push_frame(t) == [t EXCEPT !.ustack = Append(@, Saved(t)), !.frame = [who |-> "sig", at |-> 0], !.sg.masked = TRUE]

(* A signal with its default action: a note if there is a handler, the end *)
(* of the process, or a stop that some other process ends                  *)
Default(t, s) ==
    IF s \notin t.sg.pend THEN t
    ELSE LET u == [t EXCEPT !.sg.pend = @ \ {s}]
         IN  IF s # "KILL" /\ u.nt.notify THEN Queued(u, s)
             ELSE IF s = "TSTP" THEN u ELSE [u EXCEPT !.sg.dead = TRUE]

(* Back to user mode: INT, KILL and TSTP in the order of their numbers,    *)
(* then the first note                                                     *)
deliver_signals ==
    /\ Alive /\ sg.kernel
    /\ LET t   == [Now EXCEPT !.sg.kernel = FALSE]
           int == "INT" \in t.sg.pend /\ ~t.sg.masked
       IN  IF int /\ t.sg.caught THEN Becomes(push_frame([t EXCEPT !.sg.pend = @ \ {"INT"}]))
           ELSE LET u == IF int THEN Default(t, "INT") ELSE t
                    v == IF u.sg.dead THEN u ELSE Default(u, "KILL")
                    w == IF v.sg.dead THEN v ELSE Default(v, "TSTP")
                IN  Becomes(IF w.sg.dead THEN w ELSE deliver_note(w))

NNext ==
    \/ post_note \/ send_signal \/ sys_notify \/ sys_sigaction \/ OtherTrap \/ Step \/ exec_image
    \/ sys_sigreturn \/ sys_noted \/ Fault \/ deliver_signals

(***************************************************************************)
(* Properties                                                              *)
(***************************************************************************)
Frames == [i \in 1 .. Len(ustack) |-> ustack[i].frame] \o <<frame>>

(* The handler of notes is not entered again before it calls noted, also   *)
(* with a signal's handler below or above it, noteureg stays the frame it  *)
(* interrupted, and the main program goes on exactly where it was          *)
(* (deliver_note, sys_noted, sys_sigreturn).                               *)
NotesNest == Alive =>
    /\ Cardinality({i \in 1 .. Len(Frames) : Frames[i].who = "note"}) = IF nt.innote THEN 1 ELSE 0
    /\ nt.innote => Frames[nt.noteureg + 1].who = "note"
    /\ Frames[1] = [who |-> "main", at |-> told.steps]

(* Notes are handled in the order they came, and each that was accepted is *)
(* handled or still waits, also when the handler was taken away and put    *)
(* back (post_note, signal_to_note, deliver_note).                         *)
NotesInOrder == ~told.early /\ (Alive => told.wait = {nt.q[i].n : i \in 1 .. Len(nt.q)})

(* Notes come out one at a time, in order, and return where they came from *)
(* (post_note, deliver_note, sys_noted).                                   *)
NotesSound == NotesNest /\ NotesInOrder
=============================================================================
