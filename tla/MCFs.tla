-------------------------------- MODULE MCFs --------------------------------
(* Small instances of Fs for TLC.  The programs that run do one of several *)
(* kinds of work, which the initial state chooses.                         *)
EXTENDS Fs

CONSTANT Loads    \* the kinds of work to choose from

VARIABLE load

(* The disks to start with: empty, or filled to the brim in two ways *)
File(path, len) == [kind |-> "file", path |-> path, data |-> [k \in 1 .. len |-> Byte(1)]]
Nested == <<[kind |-> "dir", path |-> <<"a">>], File(<<"a", "b">>, 1)>>
Linked == <<File(<<"b">>, 3), [kind |-> "link", path |-> <<"a">>, data |-> <<Byte(2)>>]>>
MCMade == {<<>>, Nested, Linked}

(* calls: what the programs call; write: offset, length and byte of        *)
(* writes; trunc: lengths of truncations; crash: whether the machine may   *)
(* stop; made: the disks to start with.  With "again" a disk on which a    *)
(* call was cut short is mounted and used further.                         *)
Work ==
    [dirs  |-> [names |-> Names, calls |-> {"mkdir", "remove", "rename", "chdir"},
                write |-> {}, trunc |-> {}, crash |-> TRUE, made |-> {Nested}],
     links |-> [names |-> Names, calls |-> {"creat", "open", "remove", "rename", "link", "umount",
                                            "chdir", "rmdir"},
                write |-> {}, trunc |-> {}, crash |-> TRUE, made |-> {<<>>}],
     data  |-> [names |-> {"a"}, calls |-> {"creat", "open", "remove"},
                write |-> {<<0, 3, 1>>, <<5, 2, 2>>, <<9, 2, 1>>}, trunc |-> {0, 1, 4, 7},
                crash |-> FALSE, made |-> {<<>>}],
     fill  |-> [names |-> Names, calls |-> {"creat", "symlink", "remove"},
                write |-> {<<1, 4, 1>>}, trunc |-> {}, crash |-> FALSE, made |-> {Linked}],
     stop  |-> [names |-> Names, calls |-> {"creat", "remove"},
                write |-> {<<1, 4, 1>>}, trunc |-> {}, crash |-> TRUE, made |-> {Linked}],
     again |-> [names |-> Names, calls |-> {"creat", "remove", "again"},
                write |-> {<<1, 4, 1>>}, trunc |-> {}, crash |-> TRUE, made |-> {<<>>}],
     short |-> [names |-> Names, calls |-> {"symlink", "remove", "again"},
                write |-> {}, trunc |-> {}, crash |-> TRUE, made |-> {<<>>, Linked}]]

Does(c) == c \in Work[load].calls

(* mkdir and symlink run with room to spare *)
Room == NBlocks - Cardinality(disk.bm) >= 2

(* Nothing is made in a directory that was removed while a process is in it *)
There(dir) == disk.ino[dir].nlink > 0

Program(p) ==
    \/ Close(p)
    \/ \E w \in Work[load].write : Write(p, w[1], [k \in 1 .. w[2] |-> Byte(w[3])])
    \/ \E len \in Work[load].trunc : Ftruncate(p, len)
    \/ Does("chdir") /\ Leave(p)
    \/ \E dir \in Inodes, n \in Work[load].names :
          /\ InPath(p, dir)
          /\ \/ There(dir) /\ Does("creat") /\ Open(p, dir, n, TRUE, FALSE)
             \/ Does("open") /\ \E t \in BOOLEAN : (t => Work[load].trunc # {}) /\ Open(p, dir, n, FALSE, t)
             \/ There(dir) /\ Room /\ Does("mkdir") /\ Mkdir(p, dir, n)
             \/ There(dir) /\ Room /\ Does("symlink") /\ Symlink(p, dir, n, <<Byte(2)>>)
             \/ Does("remove") /\ Unlink(p, dir, n, FALSE)
             \/ Does("rmdir") /\ Unlink(p, dir, n, TRUE)
             \/ Does("chdir") /\ (Chdir(p, dir, n) \/ Chdir(p, dir, "."))
             \/ \E nd \in Inodes, nn \in Work[load].names :
                   /\ InPath(p, nd) /\ There(nd)
                   /\ \/ Does("rename") /\ Rename(p, dir, n, nd, nn)
                      \/ Does("link") /\ Link(p, dir, n, nd, nn)

MCInit == Init /\ load \in Loads /\ fragile = Work[load].crash
          /\ disk \in {image(create, args) : args \in Work[load].made}
MCNext ==
    /\ \/ \E p \in Procs : Program(p)
       \/ (torn.is => Does("again")) /\ Mount
       \/ Does("umount") /\ Umount
    /\ torn.is /\ mounted => mounted'    \* one stop
    /\ UNCHANGED load
MCSpec == MCInit /\ [][MCNext]_<<vars, load>>
=============================================================================
