-------------------------------- MODULE MCIo ---------------------------------
(***************************************************************************)
(* Terminals and sockets.  The two do not meet here: part says which one a *)
(* behaviour is of.  While it is of sockets the terminals stay as they are *)
(* at the start; while it is of terminals there are no sockets (s1 to s7   *)
(* are 0).                                                                 *)
(***************************************************************************)
EXTENDS Tty

CONSTANT Users

VARIABLES part, s1, s2, s3, s4, s5, s6, s7

svars == <<s1, s2, s3, s4, s5, s6, s7>>

S == INSTANCE Sock WITH socks <- s1, file <- s2, fds <- s3, node <- s4, call <- s5, next_sock_id <- s6, load <- s7,
         Procs <- Users, Paths <- {"x"}, NSOCK <- 4, NFILE <- 4, NOFILE <- 2, RINGSIZE <- 2, DGRAM_LIMIT <- 2,
         ACCEPTMAX <- 2, MaxSocks <- 5, MaxOut <- 3, Loads <- {"stream", "pairs", "listen", "queue", "dgram"}

IoInit ==
    \/ part = "tty" /\ MCInit /\ s1 = 0 /\ s2 = 0 /\ s3 = 0 /\ s4 = 0 /\ s5 = 0 /\ s6 = 0 /\ s7 = 0
    \/ part = "sock" /\ load = "con" /\ keys = 0 /\ Begin(0, Jobs) /\ S!MCInit

IoNext ==
    /\ UNCHANGED part
    /\ \/ part = "tty" /\ MCNext /\ UNCHANGED svars
       \/ part = "sock" /\ S!MCNext /\ UNCHANGED <<vars, load, keys>>

IoSpec == IoInit /\ [][IoNext]_<<part, svars, vars, load, keys>>

(* The two users of sockets may change places                              *)
Symmetry == Permutations(Users)

(* Sockets come and go without a trace: pointers are mutual, every socket  *)
(* can be closed, bytes and datagrams arrive in order at the one they were *)
(* sent to, and nobody sleeps in a call that could go on (sock.c).         *)
SocketsSound == part = "sock" => S!SocketsSound
=============================================================================
