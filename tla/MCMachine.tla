------------------------------ MODULE MCMachine ------------------------------
(***************************************************************************)
(* The machine and what is built for it: the processor's caches, with      *)
(* their own variables, and the arithmetic of the processor, the encoding  *)
(* of its instructions, its devices, its traps, the stub for a debugger,   *)
(* the preprocessor, the assembler and linker and the C library, which     *)
(* share the variables v1, v2 and so on.  The parts do not meet here: part *)
(* says which one a behaviour is of, and the others stay as they are at    *)
(* the start.                                                              *)
(***************************************************************************)
EXTENDS Caches, TLC

CONSTANT MaxWrites   \* changes of memory and of the page table

VARIABLES part, written, v1, v2, v3, v4, v5, v6, v7, v8, v9, v10

cvars  == <<pm, pt, tlb, tlb_gen, ftag, fppn, dc, dc_on, user, agrees, written>>
shared == <<v1, v2, v3, v4, v5, v6, v7, v8, v9, v10>>
all    == <<part, cvars, shared>>

(* The entries a page table may have                                       *)
MCPtes == {[ppn |-> 0, u |-> TRUE], [ppn |-> 1, u |-> TRUE], [ppn |-> 1, u |-> FALSE]}

(* The contexts of programs: any two differ, and they tell every register, *)
(* the flags and the stack pointer apart                                   *)
Contexts ==
    LET c == [r0 |-> 0, r4 |-> 0, fl |-> 0, pc |-> 0, sp |-> 0]
    IN  {c, [c EXCEPT !.r0 = 1], [c EXCEPT !.r4 = 1], [c EXCEPT !.fl = 1, !.pc = 1], [c EXCEPT !.sp = 1, !.r0 = 1]}

A == INSTANCE Alu WITH r <- v1, fl <- v2, prog <- v3, at <- v4, err <- v5, start <- v6, W <- 3, H <- 2
I == INSTANCE Isa WITH itext <- v1, ipc <- v2, ibytes <- v3, iback <- v4, iagain <- v5, M16 <- 16, M32 <- 64, IRegs <-
         {0, 5}, IVals <- {-2, 0, 3, 7}, IPcs <- {0, 8, 60}
D == INSTANCE Devices WITH dv <- v1, md <- v2, ideal <- v3, uses <- v4, POLL_INTERVAL <- 3, RXBUF <- 3, DISK_DELAY <-
         2, NSEC <- 1, ILIMIT <- 7, TXTIME <- 2, Uses <- {{"timer", "net"}, {"uart", "timer"}, {"disk"}}
P == INSTANCE Cpu WITH cp <- v1, stk <- v2, slots <- v3, cur <- v4, pend <- v5, lost <- v6, Slots <- {1, 2}, Lines <-
         {0, 1}, Values <- {0, 1}, Context <- Contexts
T == INSTANCE Toolchain WITH files <- v1, how <- v2, as <- v3, objs <- v4, out <- v5, mem <- v6, Locals <- {".l"},
         BYTE <- 8, MAXSPACE <- 64, FLAT_LIMIT <- 32, MAXINC <- 2, MAXMACDEPTH <- 3, PAGE <- 16, RamSize <- 200,
         ROM_BASE <- 40, ROM_SIZE <- 24, Programs <- {"objects", "far", "library", "clash", "macros", "raw", "flat"}
L == INSTANCE Libc WITH hp <- v1, blocks <- v2, cells <- v3, file <- v4, fp <- v5, ideal <- v6, same <- v7,
         term <- v8, outbuf <- v9, said <- v10, SPLIT <- 4, TOP <- 14, Names <- {1, 2, 3}, Sizes <- {1, 9, 24}, BUFSIZ <- 2,
         MaxLen <- 4
R == INSTANCE Pp WITH src <- v1, ps <- v2, tree <- v3, value <- v4, MAXINC <- 2, W <- 4
G == INSTANCE Gdb WITH toStub <- v1, toClient <- v2, stub <- v3, bps <- v4, mem <- v5, cpu <- v6, passed <- v7,
         dbg <- v8, MAXBP <- 2, POLL <- 2, ADDRS <- 4, MaxRequests <- 4, MaxBreaks <- 1

MachineInit ==
    /\ CInit /\ written = 0
    /\ \/ part = "alu" /\ A!MCInit /\ v7 = 0 /\ v8 = 0 /\ v9 = 0 /\ v10 = 0
       \/ part = "isa" /\ I!IsaInit /\ v6 = 0 /\ v7 = 0 /\ v8 = 0 /\ v9 = 0 /\ v10 = 0
       \/ part = "devices" /\ D!DevInit /\ v5 = 0 /\ v6 = 0 /\ v7 = 0 /\ v8 = 0 /\ v9 = 0 /\ v10 = 0
       \/ part = "cpu" /\ P!PInit /\ v7 = 0 /\ v8 = 0 /\ v9 = 0 /\ v10 = 0
       \/ part = "tools" /\ T!MCToolsInit /\ v7 = 0 /\ v8 = 0 /\ v9 = 0 /\ v10 = 0
       \/ part = "heap" /\ L!HInit /\ L!SInit
       \/ part = "file" /\ L!HInit /\ L!SInit
       \/ part = "terminal" /\ L!HInit /\ L!SInit
       \/ part = "pp" /\ R!PpInit /\ v5 = 0 /\ v6 = 0 /\ v7 = 0 /\ v8 = 0 /\ v9 = 0 /\ v10 = 0
       \/ part = "gdb" /\ G!GInit /\ v9 = 0 /\ v10 = 0
       \/ part = "caches" /\ v1 = 0 /\ v2 = 0 /\ v3 = 0 /\ v4 = 0 /\ v5 = 0 /\ v6 = 0 /\ v7 = 0 /\ v8 = 0 /\ v9 = 0
          /\ v10 = 0

CachesNext ==
    \/ (Execute \/ Access \/ Mode) /\ UNCHANGED written
    \/ /\ written < MaxWrites /\ written' = written + 1
       /\ Store \/ Transfer \/ mem_poke \/ Remap \/ Switch \/ cpu_set_dcache

MachineNext ==
    /\ UNCHANGED part
    /\ \/ part = "alu" /\ A!MCNext /\ UNCHANGED <<cvars, v7, v8, v9, v10>>
       \/ part = "isa" /\ I!IsaNext /\ UNCHANGED <<cvars, v6, v7, v8, v9, v10>>
       \/ part = "devices" /\ D!DevNext /\ UNCHANGED <<cvars, v5, v6, v7, v8, v9, v10>>
       \/ part = "cpu" /\ P!PNext /\ UNCHANGED <<cvars, v7, v8, v9, v10>>
       \/ part = "tools" /\ T!ToolsNext /\ UNCHANGED <<cvars, v7, v8, v9, v10>>
       \/ part = "heap" /\ L!HNext /\ UNCHANGED <<cvars, v4, v5, v6, v7, v8, v9, v10>>
       \/ part = "file" /\ L!FileNext /\ UNCHANGED <<cvars, v1, v2, v3>>
       \/ part = "terminal" /\ L!TermNext /\ UNCHANGED <<cvars, v1, v2, v3>>
       \/ part = "pp" /\ R!PpNext /\ UNCHANGED <<cvars, v5, v6, v7, v8, v9, v10>>
       \/ part = "gdb" /\ G!GNext /\ UNCHANGED <<cvars, v9, v10>>
       \/ part = "caches" /\ CachesNext /\ UNCHANGED shared

MachineSpec == MachineInit /\ [][MachineNext]_all

(* An instruction does what is written in the source: assembler, processor *)
(* and disassembler agree on its bytes, and what it computes, with the     *)
(* flags it leaves, is the arithmetic of words at every operand width      *)
(* (assembler.c, dis.c, cpu.c execute_instruction).                        *)
InstructionsRight == (part = "alu" => A!ArithmeticRight) /\ (part = "isa" => I!EncodingAgrees)

(* Device time kept lazily is device time: no event is passed, the timer   *)
(* counts as if it counted every instruction and loses no tick, and keys   *)
(* are heard in order (dev.c schedule, timer_sync, dev_poll, dev_wfi).     *)
EventsKept == part = "devices" => D!EventsKept

(* Traps, switches and idling disturb nobody: a program finds what it      *)
(* left, kernel code what swtch must keep, an entry an empty stack; the    *)
(* processor waits only when nobody can run and uses nothing that was      *)
(* freed (entry.s, trap.c, scheduler, cpu_idle).                           *)
SwitchesSound == part = "cpu" => P!SwitchesSound

(* The program in memory is the one that was written: the preprocessor     *)
(* gives the source's live lines with their macros replaced, the linker    *)
(* takes the members that are needed, every byte has a place of its own,   *)
(* and every reference reaches its label (pp.c, assembler.c, tlink.c).     *)
ProgramsAsWritten == (part = "pp" => R!PreprocessesRight) /\ (part = "tools" => T!LinksSound)

(* The C library keeps what programs give it: blocks of the heap keep      *)
(* their contents and tile it, and streams read, write and tell as if      *)
(* there were no buffer (stdlib.c malloc, free, realloc; stdio.c).         *)
BytesKept == part \in {"heap", "file", "terminal"} => L!BytesKept

(* The debugger and the stub agree: every request has its one answer, a    *)
(* run stops where it should, and breakpoints and memory are what the      *)
(* debugger was told (src/gdb.c).                                          *)
StubAgrees == part = "gdb" => G!StubAgrees
=============================================================================
