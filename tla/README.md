# TLA+ models of tortoise

tortoise is a 32-bit computer in C: an emulator of a processor and its devices,
an assembler, linker and C compiler for it, and a multi-user operating system
with its library and programs. This directory holds TLA+ modules that model the
parts whose correctness depends on the order of events or on arithmetic at its
edges, the TLC instances that check them, and proofs that TLAPS checks.
`PROJECT.json` lists the parts of the system, the runs, the source lines behind
every definition, the hazards of the code and the properties that cover them.

## The system and its parts

| Part | Sources | Modules |
|---|---|---|
| processes, signals, job control | `os/kernel/proc.c`, `signal.c`, `trap.c`, half of `tty.c` | `Proc` |
| notes | `os/kernel/note.c`, `signal.c` | `Notes` |
| open files, pipes, poll | `os/kernel/file.c`, part of `dev9.c`, `procfs.c` | `Pipe`, `Fifo` |
| process memory | `os/kernel/mm.c`, part of `proc.c`, `trap.c`, `src/cpu.c` | `Vm`, `Memory` |
| TCP | `os/kernel/tcp.c`, part of `sock.c` | `Tcp` |
| IP, ARP, ICMP, UDP, `/net` | `os/kernel/inet.c`, `netfs.c`, part of `sock.c`, `src/net.c` | `Inet` |
| Unix sockets | `os/kernel/sock.c` | `Sock` |
| terminals, pseudo terminals | `os/kernel/tty.c`, `pty.c` | `Tty` |
| disk file system, vnodes | `os/kernel/tfs.c`, `vfs.c`, `file.c`, `tools/tdisk.c` | `Fs`, `Tree` |
| block cache, raw disks | `os/kernel/tfs.c`, `devfs.c` | `Blocks` |
| namespaces, mounts, memory file system | `os/kernel/ns.c`, `vfs.c`, `ramfs.c` | `Names` |
| 9P client and server | `os/kernel/mnt.c`, `lib/9p.c`, `os/bin/ramfs9.c` | `P9` |
| 9P messages as bytes | `lib/9pconv.c`, `os/kernel/p9.c` | `Conv` |
| environment groups, posted services | `os/kernel/env.c`, `srv.c` | `Groups` |
| credentials | `os/kernel/cred.c`, part of `proc.c` | `Cred` |
| kernel heap, log, timers | `os/kernel/kmem.c`, part of `mm.c` | `Kmem` |
| traps and context switches | `os/kernel/entry.s`, `trap.c`, `proc.c`, `src/cpu.c` | `Cpu` |
| processor: arithmetic, encoding, caches | `src/cpu.c`, `src/dis.c`, `assembler/assembler.c` | `Alu`, `Isa`, `Caches` |
| devices | `src/dev.c`, `src/net.c` | `Devices` |
| debugger stub | `src/gdb.c` | `Gdb` |
| assembler, linker, loader | `assembler/assembler.c`, `tools/tlink.c`, `src/emu.c` | `Toolchain` |
| preprocessor | `cc/pp.c` | `Pp` |
| C library: heap, streams | `lib/stdlib.c`, `lib/stdio.c` | `Libc` |

How they interact. Every system call runs in the kernel on one processor
without preemption. It is cut only where it sleeps on a wait queue, and
interrupts are taken only in user mode or in the idle loop (`Cpu` has the
mechanism). So the unit of interleaving of the kernel's modules is the stretch
of a call between two sleeps, and each such stretch is one action. What makes
the code hard is what happens across a sleep: a wakeup that is missed, a
pointer or a number read before it and used after it, a signal that ends it, a
call that is repeated, a slot that was freed and handed out again. In the
network and in 9P, messages are lost, late or answered after the asker has
given up. On the disk, the machine may stop between two sector writes.

Where two parts are in different modules, the one states what the other relies
on. `Proc` has the signals and the sleeping that `Pipe`, `Tty`, `Sock` and `P9`
take as a step that may come at any time. `Kmem` has the timers whose firing is
such a step. `Blocks` shows that reading a block gives what the disk holds,
which `Fs` assumes; `Conv` that a 9P message arrives as it was packed, which
`P9` assumes. `Cpu` shows that a switch gives a process back its registers,
which every kernel module assumes, and `Caches` that the processor's caches
cannot be seen, which `Cpu` and `Alu` assume; the exception, the translations
that outlive a change of a page table, is modelled in `Vm` with the kernel's
flushes.

## Conventions

* A module has the names of the code's functions where it models them. Calls
  of the kernel are actions; helpers that compute are operators, often from one
  record of state to the next.
* Slots of a table are small numbers and are taken as the code takes them, so
  that a freed slot is handed out again.
* An `MC` module gives the constants small values and defines several *loads*:
  which calls the programs make, with which arguments. The initial state
  chooses one, so that one run asks the same question of all of them.
  `MCKernel`, `MCMachine` and `MCIo` hold several independent modules; `part`
  says which one a behaviour is of. The others keep their initial values.
* A definition whose comment calls it a slip is a plausible mistake by which a
  property is tested. No specification uses it.
* `CHECK_DEADLOCK FALSE` is set everywhere: programs may end and all bounded
  work may be done.

## Modules

### Processes and memory

**Proc.** Slots of the process table with state, number, parent, group,
session, pending and blocked signals, handlers, the call a process is in and
the stack of handler frames; the terminal's session and foreground group; `cur`
is `curproc`. Actions are the scheduler's choice, `fork`, `exec`, `exit`,
`waitpid`, `pause`, `kill`, `sigaction`, `sigprocmask`, `sigreturn`, `setpgid`,
`setsid`, acquiring and setting the terminal, access and keys of the terminal,
delivery of signals on the way to user mode, the repetition of an interrupted
call, and the waits of a 9P call: for the channel and for an answer, which
signals end, and for sending, for the rest of an answer and for the answer to a
flush, which `nointr` (`mnt.c:112`, `135`, `155`) shields from them, KILL
included. Numbers wrap at `PidLimit`. Left out: `nice`, `sa_mask`,
`SA_NODEFER`, `SA_RESETHAND`, permissions of `kill`, more than one terminal.
`do_exit` is one step.

**Notes.** One process with a queue of notes beside its signals and faults;
what a handler interrupts is saved on the user stack and found again by `noted`
and `sigreturn`. Texts of notes and a fork inside a handler are left out.

**Pipe, Fifo.** `Pipe` has the open file table with its counts, the descriptors
of each process, pipes with wrapping counters, the pipe device and the calls
that sleep; poll looks at one descriptor. `Fifo` is what a pipe promises, a
bounded queue. `IsQueue` states that `Pipe` implements `Fifo` when the ring is
read between the two counters. A pipe device keeps its pipes after both of its
files are closed (`dev9.c:352`, `file.c:426`); load `device` closes its files
only at exit. In load `ctl` no pipe is made while a call is under way
(`procfs.c:411` closes a descriptor that may be in use).

**Vm, Memory.** `Vm` has frames with reference counts, regions and page table of
each process, and the processor's translations, which stay until the code
flushes them. `Memory` is what programs rely on: private pages are private,
shared ones shared, fork copies. `IsMemory` states that copy on write with
counted frames implements it. Addresses are page numbers modulo `Space`. Frames
of page tables appear only by the failure to get one (`Failures`). Kept out of
the run: a fetch from a page without X (`mm.c:322` reports it as served and it
repeats), `munmap` of the heap's first page, a mapping of several pages across
the gap between two pieces of a heap that was shrunk (`do_sbrk` then grows the
upper piece into it, `proc.c:695`), `kmalloc` failing inside a split of a region
(`mm.c:364`), a placement that wraps below zero (`mm.c:397`). `munmap` cuts the
heap behind its first page (load `map`) and in two (load `pieces`).

**Cred.** The ids of one process under the set calls and exec; `mayhold` is
what it may still have.

### Files

**Fs, Tree.** The disk as bitmap, counts, inodes and blocks of `BSIZE` cells.
Every operation of `tfs.c` is the sequence of its sector writes, and the
machine may stop between any two. The vnode cache of `vfs.c` with its counts is
above it, and `tdisk`, which made the disk, below. `Tree` is what the file calls
promise; `IsTree` states that the calls implement it while the machine does not
stop. The disk a stop leaves is mounted and used further with `creat`, `write`,
`symlink` and `unlink` (loads `again`, `short`). After a stop `DiskSound` asks
that no block has two owners, that an entry names an inode in use, that vnodes
agree with inodes and that a renamed file keeps a name; it asks for exact counts
of blocks, inodes and links only where no call was cut short. Kept out: further
use after a stop in `rename` or `link`, which leaves two names for one count
(`tfs.c:602`), and a stop in a truncation (`tfs.c:313`). Each process has one
descriptor. Triple indirect blocks, modes, owners and times are left out. Guards keep
out what the code does wrong on its own terms: creating in a removed working
directory (`There`; `tfs.c:443` leaks an inode), `mkdir` and `symlink` without
space for their block (`Room`; `tfs.c:487`, `614`). A stop leaves orphans that
are never reclaimed (`tfs.c:693`): `DiskSound` asks for safety, not for thrift.

**Blocks.** Cache lines in sets and ways with write-through, failing transfers,
and the raw disk beside the file system. A raw write that fails half way returns
before the cache is emptied (`devfs.c:110`): the property excludes that disk
until the cache is emptied of it.

**Names.** Mount tables shared, copied or cleaned by rfork; bind, mount,
unmount, union directories, walks with links and the way up, over memory file
systems whose nodes and pages are modelled with them. No call sleeps; sleeping
walks are in `P9`. The text of `/proc/N/ns`, permissions and device names are
left out.

**P9, Conv.** Processes share one channel of a 9P mount: each waits for it, sends
a message, waits for the answer, and may be interrupted at both waits, when it
flushes. The server is the loop of `lib/9p.c` with the fids of `ramfs9`. It may
die, and the mount may be taken away. A fid whose Twalk was broken off by a
signal after it was sent (`mnt.c:163`), or whose Tclunk or Tremove was before
(`mnt.c:143`), stays at the server until it ends, since nobody keeps its number:
`FidsReturned` excepts those (`sig.left`) and no others. The run opens no file while a close waits
for the server (`file.c:33` frees the slot first) and renames no file to its own
name (`mnt.c:545` removes it). `Conv` packs and unpacks all messages and
directory entries byte by byte, cut and changed ones too.

**Groups.** Environment groups shared, copied, emptied and left, with variables
as files, and posted descriptors; the heap may be full. A file on a variable
stands for a slot of its group: once the variable is removed, the file reaches
whichever variable has the slot (`env.c:108`), and `WritesReach` says that much.
The last close of a file of a 9P mount sleeps; its slot is free before
(`file.c:33`), and `s_unlink` takes the post off only afterwards (`srv.c:66`), so
that others can take the file or its slot meanwhile. The model has these steps,
and `PostsCounted` excepts the files they touched (`spoilt`). Bounds: the closes
of an exit do not sleep, and an open of a post finds a free descriptor. The loads
take two groups with two variables each (`env`), more groups with one
(`groups`), a post whose file is of a 9P mount (`far`), and two posts (`posts`).

**Kmem.** The table of timers as sleep, alarm, poll, sockets and terminals use
it, over a tick count that wraps; the heap by classes and by runs of pages; the
ring of the log (`klog_len` stops short of its wrap at 2^32).

### Devices and networks

**Tty.** The line discipline in canonical and raw mode under the console, whose
keys come through the UART's interrupt, and under pseudo terminals. The
processes form a session with groups, ignored signals and a foreground group, so
that `background_check` refuses, signals or lets pass. `queue` and `line` are the
input as a user thinks of it. An interrupt key holds the keys behind it back
until somebody begins to wait anew (`tty.c:60`, `74`); a sleeper whom its signal
does not reach, such as the shell, waits through that, and `KeysComing` excepts
exactly this sleeper. Kept out: line ends beyond a full ring (`tty.c:90`),
settings changed while somebody reads (`tty.c:380`), the hangup of a raw reader
(`tty.c:204`).

**Sock.** Unix sockets as slots that point at each other: streams, datagrams,
listeners with their queues, pairs, shutdown, close, poll. Kept out: a datagram
sender that sleeps on a receiver which is closed (`sock.c:434`), a connect to a
listener that closes while it sleeps (`sock.c:324`), `socket` and `accept` with
a full file table (`sock.c:259`, `412`).

**Tcp.** Two hosts run `tcp.c` against each other over a set of segments of
which any may be delivered, delivered and kept, or lost. `tcp_input` is split at
its early returns; `Output` sends what the window allows, then the FIN, then an
acknowledgement. Sequence numbers count modulo `SeqMod`; in the instances the
client's wrap inside its data and the server's behind its SYN. The n-th byte a program writes is n. A running timer may go off at
any step. One connection for a listener; no MSS option; allocations succeed.
In load `window`, where nothing is lost or overtaken, a sender with nothing under
way behind a closed window waits only while there is no room to announce
(`WindowTold`). One stall is excepted: a probe sends a byte that `snd_max` does
not count (`tcp.c:680`), and when it is taken its acknowledgement is refused
together with the window (`tcp.c:419`). Where an announcement is lost or
overtaken, `NobodyStuck` asks for the running timer alone, not that the probe's
answer is heard. Not stated as properties: a half-open child may stay (`688`), `FIN_WAIT_2` has no
timer (`426`).

**Inet.** Hosts on an Ethernet that loses frames: ARP with waiting packets,
routes, the loopback queue, UDP, ICMP, the driver's queue and interrupt, the
ioctls, connections and raw frames below `/net`. Checksums, lengths, fragments
and the text of the files are left out. `eth_intr` is one step, so that the order
of its acknowledgement and its reading of the status is not tested. A status file may outlive its connection
(`netfs.c:589`).

**Devices.** Interrupt controller, timer, UART, disks and transmitter, whose time
is the number of instructions; the processor calls them when the count reaches
the next event, and WFI moves the count. `ideal` is a timer advanced at every
instruction. Snapshots, display and the input of the network are left out.

### Processor and tools

**Alu** gives the arithmetic and flags of `cpu.c` on registers of `W` bits and
is checked against integer arithmetic: results and flags of the 16 bit, the 32
bit and the extended instructions, each with every operand, bit by bit for logic,
shifts and rotations, and what conditional jumps make of a comparison. Not
promised: C and V of 16 bit sums of registers that hold more than 16 bits, and C
of their products that leave 32. The 32 bit forms with an immediate leave V
clear, except for a product; that is stated as it is. **Isa** has the encoding as
assembler, disassembler and processor know it. **Caches** has the translations by
generation number, the page of the last fetch and the decoded instructions.
**Cpu** has trap entry and return, switching, idling, and the freeing of stacks
and page tables; the bodies of C functions are a choice of what they may do.

**Gdb** is the stub with packets, acknowledgements, run control, the table of
breakpoints, which becomes full, and reads and writes of memory, while the
program stores into it. A write of several bytes that fails at a later one leaves
the earlier ones written and answers E01 (`gdb.c:188`): the debugger then knows
nothing of the bytes it named, and `BreakpointsAgree` excepts them. A run also
takes away what it knew. Left out: hexadecimal digits, malformed and over-long
packets, a connection that breaks.

**Toolchain** goes from the lines of files through macros, two passes,
relocation and linking to the image in memory: a TEX1 image, or the plain bytes
of a flat one (the assembler's, or the linker's with `-b`), which go to address 0
or into the ROM. Plain bytes are where they say only if they were made for that
place and fit, and their `.bss` is not cleared; `LabelsLoaded` asks no more. Two
things the assembler allows are in the model and excepted from `RefsReach`. An
`.equ` that is used before it stands, and itself names something behind it or in
another file, has the value of the first pass, in which that name was still zero;
the assembler emits it without an error (`assembler.c:556-572`, `1211-1225`). And
`.org` may go back, down to the origin, over bytes that are then written again
(`assembler.c:1186-1194`): the last ones stay. Kept out: `.align` above 4 in
objects, which the linker does not honour, and expressions beyond sums.

**Pp** expands macros with arguments, `#` and `##`, and evaluates `#if`, and is
checked against a reference. The evaluator is given the texts of trees of two
operators, of some with `?:`, and every text of up to five tokens out of a
number, brackets, `-`, `?` and `:`, so that the errors are covered too. It divides before it knows whether the operand is needed: a division
by zero behind `&&`, `||` or `?:` is an error (`pp.c:617`), which the reference
states as it is. Shifts by counts beyond the width are left out, since C leaves
them undefined.

**Libc** has `malloc`, `realloc` and `free` and the streams of `stdio.c` over a
file and a terminal; the file is written as `do_write` and `writei` of the kernel
do. Reads may fail, which is no end of file, and the program goes on with
`clearerr`. Kept out: positions of an append stream with pending bytes
(`stdio.c:473`), use of a stream after a write that failed.

## Runs

| Run | Shows |
|---|---|
| `proc` | Numbers are unique and parents alive under reuse (`KinKnown`); nobody sleeps in `waitpid` on something to report (`WaitersHear`); a group lies in one session, the two orphan tests agree, a terminal belongs to a living session (`SessionsAgree`); a process with KILL pending is runnable, or asleep where a 9P call has `nointr` set (`KillNotDeferred`); handlers nest (`HandlersNest`); an exit continues the groups it orphans (`ExitContinuesOrphans`); a signal without handler never ends a call (`UncaughtNeverInterrupts`) |
| `pipe` | Descriptors and ends of pipes are counted exactly (`RefsCounted`, `EndsCounted`); sleepers are woken (`SleepersWoken`); a pipe is a bounded queue (`IsQueue`) |
| `live` | Who was sent KILL ends (`KillEnds`); `waitpid`, `read`, `write` and `poll` end once they can (`CallsEnd`) |
| `vm` | Frames are counted exactly (`FramesCounted`); the translations kept never lead astray and a served fault is not repeated (`FaultsServed`); regions are apart and cover what is mapped (`RegionsSound`); copy on write implements `Memory` (`IsMemory`) |
| `tcp` | The streams arrive whole and in order, and their end behind the last byte (`StreamSound`); timers run while anything is unacknowledged, nobody sleeps in a call that could go on, and an opened window is announced, but for the probe's stall (`NobodyStuck`) |
| `fs` | Blocks have one owner, entries name inodes in use and renamed files keep a name, also after a stop between two sector writes and in further use; without a stop blocks, links and inodes are counted (`DiskSound`); the calls implement `Tree` (`IsTree`) |
| `inet` | Waiting packets are sent or given up, queues are emptied (`PacketsGoOn`); what is learnt is right, ports are apart, a socket gets what was sent to its address and port, and by its peer if it has one (`RightReceiver`) |
| `io` | Unix sockets (`SocketsSound`) and terminals (`TtySound`): peers are mutual, bytes and keys arrive in order, nobody sleeps in a call that could go on |
| `kernel` | 9P (`ProtocolSound`), namespaces (`NamesSound`), notes (`NotesSound`), timers (`TimersSound`), heap and log (`HeapSound`), block cache (`CacheSound`), ids (`NothingRegained`), environment groups and services (`GroupsSound`) |
| `machine` | Arithmetic and encoding (`InstructionsRight`), devices (`EventsKept`), traps and switches (`SwitchesSound`), the processor's caches (`CachesInvisible`), assembler, linker, loaders and preprocessor (`ProgramsAsWritten`), the C library's heap and streams (`BytesKept`), the debugger's stub (`StubAgrees`) |
| `tcp_handshake` | *Violated* (`OneLossSurvived`): losing only the last acknowledgement of the handshake makes the connection fail, because the client does not answer the repeated SYN and ACK |
| `timer_late` | *Violated* (`TimerOnTime`): WFI reckons the next timer event from an old phase, so that the timer's line is raised late |

**Bounds.** TLC explores every instance completely. The bounds are chosen so that
each limit is reached and the cases beyond it happen: four process slots and four
numbers, so that both are reused; pipes of two bytes with transfers of up to four
and counters that wrap at four; four frames for two processes, so that
allocations fail half way; one or two retries before giving up; up to three
segments in the network, with sequence numbers that wrap; a disk of five blocks
of two cells that fills up; one ARP entry, so that it is evicted; rings of three
keys; two timer slots for two processes and a tick count that wraps at six with
waits of one tick and of half the period; a table of two breakpoints for three
addresses; registers of a few bits, for which all
operands are tried. What a larger instance would add is more of the same
actors; for the tables of `Proc`, `Pipe`, `Vm`, `Kmem`, `Blocks`, `Cred` and
`Caches` the proofs below remove the bound.

**Fairness** is assumed in `live` only. A runnable process is scheduled, even if
it is made to wait again and again, because `schedule` goes round the table and
the clock interrupt takes the processor away. A process in the kernel goes on,
because the kernel is not preempted. A timer that is due goes off at the next
tick. Nothing is assumed of what programs choose to do. The two violated
properties are safety properties.

## Proofs

TLAPS checks the following for every value of the constants. TLC checks the same
properties, and has checked the inductive invariants, on the instances above.

**`Extremes`**: a non-empty set of numbers has a least and, if bounded, a
greatest member; how the size of a relation changes when one row of it does;
arithmetic modulo a period for operands that wrap at most once. The other proof
modules cite these.

**`ProcProofs`** (assumption `ProcAssumption`: at least one slot, numbers beyond
2, the signals the kernel itself sends are signals, KILL and STOP are not caught).
`TypeCorrect`, `KinStaysKnown`, `OrphanTestsEqual`
and `SessionsStayWhole` rest on one inductive invariant,
`TableInv`, which joins the types with the properties and what they need: links
to parents, groups and sessions survive the reuse of numbers because an ended
process keeps its number until it is reaped, and because `alloc_pid` takes a
number that is in use neither as process nor as group or session. There is one
lemma for each action. `KillUndeferred` takes from it that the one that runs is
`cur` and goes over the places where a process falls asleep or is stopped: each
but those under `nointr` has looked for signals before, KILL is in no mask, and
`send_signal` wakes whoever sleeps elsewhere.

**`SignalProofs`**. `UncaughtRepeats` needs that a slot `fork` takes has no failed
call left in it. `OrphansContinue` follows each child that an exit hands to init:
a group is told when its last child is passed on, or as the group of the exiting
process itself; only `do_exit` makes zombies. `HandlersStayNested` needs that
KILL and STOP are never caught nor in a mask, and assumes that programs do not
call `sigprocmask`, with which handlers need not nest. `WaitersAlwaysHear` needs
that no process is its own parent, that a free slot has no report, and that a
process in `waitpid` keeps its arguments over handlers. It assumes
`GroupsSettled`: nobody calls `setpgid` or `setsid`, or waits are for any child
or for one number. Otherwise it is false of the code: a child with a report that
joins the group somebody waits for does not wake them.

**`PipeProofs`** (assumption `PipeAssumption`: sizes are positive and the period of
the counters is a larger multiple of the pipe's size, as 2^32 is of 512).
`RefsStayCounted`: a file counts its descriptors, over all calls
and the pipe device. Its invariant adds only that an unused process has no
descriptors; the work is in counting what `fork`, `exec` and `exit` do to a whole
row of descriptors. `EndsStayCounted` (no pipe device: `"attach" \notin Calls`)
adds the shape of pipes and that an open file has its pipes. With the device it
is false: a device keeps pointers to pipes that count as free (`dev9.c:352`,
`file.c:426`), which the load of run `pipe` does not go into.

**`SleepProofs`**, the two halves of `SleepersWoken`. `WritersStayWoken` (no pipe
device) adds that counters are in range, that a pipe is never over full, and that
a process sleeps only inside the call that put it to sleep. `ReadersStayWoken`
adds that transfers block and that no signal is pending inside a call. It assumes
`PlainCalls`: no device, no signals, no `fcntl` to non-blocking, and no close
from outside together with poll. These are needed: a write that is cut short or
does not block leaves bytes without a wakeup (`file.c:247`), and a close through
`/proc` of a descriptor that is being polled wakes nobody (`procfs.c:411`).

**`VmProofs`** (assumptions `VmAssumption` and `ExecFits`: an image fits in the
frames). `FramesStayCounted` and `TranslationsAgree` have the invariant `CoreInv`:
types, the counts, the agreement of translations, that an unused slot has an empty
table, and that the running process is live. Each action changes one table, or
two in fork, and the lemmas count by rows; that `alloc_user` gives every page a
frame of its own is proved by ranks. `FaultsStayResolved` adds that the access to
be repeated is within what the table now allows. It assumes that programs read
and write: an instruction fetch from a page without X is reported as served and
repeats (`mm.c:322`).

**`KernelProofs`**. Timers: `TimersStayOwned` (any delays) is inductive with its
types. `TimersStaySound` adds that a timer's time is as many ticks away as its
owner has left, modulo the period, and assumes that no wait is longer than half
the period, the reach of the signed comparison in `timer_tick`. Blocks:
`CacheStaysDisk` adds that a line lies in the set of its block; any numbers of
disks, sets and ways. Ids: `GivenUpIsGone` adds that root may hold everything.

**`CachesProofs`**. `CachesUnseen` adds to its invariant that no cached generation
is ahead of the current one, that the page of the last fetch has a current
translation, and the shape of decoded instructions. It assumes that the longest
instruction fits in a page (6 bytes and 4096 in the code).

**Only model-checked.** Liveness, which the prover has no rules for. What is
computed by recursion, because induction over data is out of the provers' reach:
`RegionsSound` and the part `WritesAlone` of `FaultsServed`, which need what
cutting and placing of regions returns; the heap, the file systems, 9P messages,
arithmetic, assembler, linker, preprocessor and streams. The refinements
`IsQueue`, `IsMemory` and `IsTree`, whose mappings read sequences and trees. The
invariants of `Tcp`, `Inet`, `Sock`, `Tty`, `P9`, `Names`, `Groups`, `Notes`,
`Devices`, `Cpu` and `Gdb`: they rest on sequences whose contents matter.

## What the models do not cover

Not modelled: the C compiler behind the preprocessor, whose correctness needs a
semantics of C; boot code and start-up, which run once before anything is
concurrent; shells and programs, which transform text, and `init`, whose loop
loses a respawn when `fork` fails (`init.c:109`); string, number, time and
`printf` functions, among them `%10p`, which pads between `0x` and the digits
(`stdio.c:313`); the display; snapshots, which leave out network and input
(`readme.md:127`).

Behaviours of the code that guards of the models keep out, or that the models
reach and no property forbids, beyond those named with their modules above:

* Processes: `setsid` and `setpgid` orphan a group without a check
  (`proc.c:771`); the foreground group may be a number that another session has
  got (`tty.c:76`); `wakeup_one` may be spent on a sleeper that a signal woke
  (`signal.c:45`); `rfork` with a failing `ns_copy` leaves a process without
  namespace (`proc.c:267`).
* Files: `itrunc` frees blocks before it writes the inode (`tfs.c:313`), a write
  that fails may still grow the file (`tfs.c:262`), `rmdir` after a failed
  `mkdir` takes a link from the parent (`tfs.c:545`), a stop between entry and
  count of `t_link` leaves them apart (`tfs.c:602`); `vfs_mount_fs` ignores a full
  mount table (`vfs.c:90`); a memory file made in a removed directory is lost
  (`ramfs.c:126`); a mount entry is kept over a walk that may sleep (`ns.c:574`).
* Kernel: without a timer slot `poll`, terminals and sockets wait without
  timeout, and `sleep` fails; waits above 2^31 ticks end at once; group ids of
  variables beyond 2^24 would collide (`env.c:99`).
* Terminals: `^D` after exactly as many characters as were asked for is read as
  an end of file.
* Tools: an empty argument left of `##` (`pp.c:887`); a macro name whose closing
  parenthesis comes from outside its replacement is replaced again; `fseek` that
  fails drops what was read ahead (`stdio.c:484`); a division by zero in the
  short encoding goes through vector 0 (`cpu.c`).
