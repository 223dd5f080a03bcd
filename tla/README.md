# Verification of the kernel and its programs

TLA+ models of the xv6-derived operating system in this repository: the kernel,
its user library and shell, the programs, and `mkfs`. TLC checks them on small
instances. For six components TLAPS proves the main properties for every
instance. `PROJECT.json` is the index: which definition models which lines, what
each run checks, which hazard each property is about.

## 1. The system

A Unix-like multiprocessor kernel for RISC-V. Each hart runs `scheduler()`;
processes enter the kernel by system calls, page faults and interrupts. Mutual
exclusion is by spinlocks, waiting by `sleep()` and `wakeup()`. Above these lie,
from the bottom up:

- the drivers (`virtio_disk.c`, `uart.c`, `console.c`, the clock in `trap.c`), where
  processes meet interrupt handlers and devices;
- the buffer cache (`bio.c`), the write-ahead log (`log.c`), files and their blocks,
  inodes, directories and names (`fs.c`, `file.c`, `sysfile.c`);
- processes (`proc.c`), memory (`kalloc.c`, `vm.c`, `exec.c`), pipes (`pipe.c`);
- the user library, the shell, init and the programs (`user/`), and the tool
  that builds the disk image (`mkfs/`).

What makes it hard: harts interleave inside every operation; interrupt handlers
wake sleepers and take locks; the machine may stop during a commit; slots of the
tables are recycled while pointers to them are held; counters wrap; bounded rings
and tables fill up; `kill()` wakes a process out of any sleep; and most calls can
fail half way.

## 2. Modules

| module | models | a step is |
|---|---|---|
| `Log` | `log.c`; of `bio.c` pinning and recycling | a critical section of `log.lock`, or one `bwrite()` |
| `Transactions` | what the log promises: atomic, durable groups of writes | begin, write, end, commit, restart |
| `Proc` | fork, exit, wait, kill, getppid; the killed tests of `usertrap()`; the loop of `user/init.c` | a stretch under `wait_lock` or `p->lock` |
| `Family` | what fork, exit and wait promise: a tree of ids | issue, born, die, reap |
| `Sched` | `scheduler()` with its policies, `sched()`, `yield()`, `sleep()`, `wakeup()`, `kill()`; `sleeplock.c` | up to the next point where another hart can see a difference |
| `Pipe` | `pipe.c`, and the file references that close its ends | one turn of the loops under `pi->lock` |
| `Channel` | what a pipe promises: a bounded queue | put, take, lose, done |
| `Bcache` | `bio.c` and its callers in `log.c` | a critical section of `bcache.lock` or of a buffer's sleeplock |
| `Spinlock` | `spinlock.c`: `noff`, `intena`, the panics | operators that other modules use |
| `VirtioDisk` | `virtio_disk.c` over `Spinlock`, with the device, the PLIC, the timer and the scheduler's half of `sleep()` | a stretch up to the next visible write |
| `Console` | `consoleread()`, `consoleintr()` | one character, or one wait |
| `LineQueue` | what the console promises: an edited line in front of a queue | type, erase, hand over, read |
| `Uart` | `uart.c`, `consolewrite()`, the characters of `printf()` | a critical section of `uart_tx_lock`, or one register access |
| `Clock` | `clockintr()`, `sys_sleep()` | a critical section of `tickslock` |
| `Blocks` | the block allocator, `bmap()`, `itrunc()`, `readi()`, `writei()`, `fileread()`, `filewrite()` | what lies between two points where another process can get in |
| `Names` | `iget()`, `iput()`, `ialloc()`, directories, path walks, the open-file table and the calls of `sysfile.c` on names | the same |
| `Vm` | `kalloc.c`, the user half of `vm.c`, `exec()`, fork's, exit's and sbrk's memory | at most one `kalloc()` or `kfree()` |
| `UserCopy` | `copyin()`, `copyout()`, `copyinstr()`, `fetchaddr()`, `fetchstr()` | a whole copy, against a byte-wise definition |
| `ShellParse`, `ShellRun` | `user/sh.c`, `user/init.c` | the parser as a function; one call of a shell process |
| `Umalloc`, `Strings`, `Args` (flags and paths), `Move` | the user library | one call, or one byte of a loop |
| `TextTools` (grep, tail, diff and others), `Games` (xo, c4), `Calendar`, `Mkfs` | the programs, `datetime.c`, `mkfs.c` | functions against a definition; one read, move or file |
| `LogProofs`, `ProcProofs`, `SchedInv`, `SchedProofs`, `BcacheProofs`, `PipeProofs`, `DiskProofs`, `RingTheorems` | | theorems (section 5) |
| `MC*` | | instances for TLC: symmetry sets, argument sets, composition |

`MCDevices` composes the console, the serial port and the clock, `MCPrograms`
everything of `user/`, `mkfs/` and `UserCopy`: the parts share no state, so a run
explores each with the others at rest.

**Log.** The last `EndOp` starts `commit()`: `WriteLog` copies one block to the
log, `WriteHead` is the commit point, `InstallTrans` writes one block home,
`EraseHead` clears the header, `FinishCommit` wakes the sleepers. `ReadHead`,
`InstallTrans` and `EraseHead` are also recovery. `Crash` may come between any
two steps, and may leave the block being written `Torn`: a block is two sectors.
The header fits in one sector, so its write is atomic. `Bread` and `Recycle` let
the cache lose any buffer that is not pinned.

**Proc.** A process is at a place in its call (`pc`). `exit()` holds `wait_lock`
from `reparent()` until it is a zombie, so it is one action; `wait()` is three,
because it tests `killed()` and sleeps in separate critical sections; `fork()` is
three; `getppid()` two, one for each of its unlocked loads. A scan of `proc[]` that
locks one slot at a time may miss a slot freed behind it, so `ForkAlloc` takes any
free slot and `ForkFull` asks only that the last slot is taken; both allow a
little more than the code does. `creator` and `asked` are history.

**Sched.** A spinlock belongs to a hart, and `p->lock` is handed from the process
to the scheduler across `swtch()`. The scan is one step per slot; FCFS and PRIORITY
hold `sched_lock` and the lock of the best candidate while they look at the next
slot. The time stamps `wait_time` are kept as `order`: only their order is compared.
The policy is a compile-time flag, so `Init` chooses one. `ready` and `seen` are
history.

**Pipe.** The counters are taken modulo `WRAP` (2^32 in the code, a multiple of
the ring size here too). `copyin()` and `copyout()` may fail at each byte. `fork()`
copies the ends, `Close` and `Exit` drop them one by one, and whoever drops the
last reference goes on to `pipeclose()` in a step of its own. `got` and `unsaid` are
history.

**Bcache.** The sleeplock is taken by `Bread` after `bget()` let go of `bcache.lock`;
`brelse()` is two actions, as in the code. A process has one buffer at a time, and
a block leaves `logged` when it is installed, not when the commit ends: the order
of log writes and commits is the subject of `Log`. `latest` and `older` are history.

**VirtioDisk.** The device takes requests in order and finishes them in any order.
The interrupt handler runs on any hart whose interrupts are on, and spins on the
lock that a process on another hart holds. `intena` travels with the process
across `sched()`. A ring slot that was read is set to `None`, so that reading it
again, or overwriting one that was not read, does not go unnoticed. `moved` is history.

**Uart, Clock.** The port is written from three sides: the transmit ring under
`uart_tx_lock`, the echo of a key in the interrupt handler, and `printf()` under
`pr.lock`. Each waits for an idle port and then writes, in two steps. `sys_sleep()`
tests its condition, and goes to sleep, in separate steps, because `killed()` is
read before `sleep()` takes `p->lock`: a `kill()` between them finds nobody asleep.

**Blocks.** A byte is known by who wrote it and how much of the `write()` was left.
`text` is history: what a file should hold if each `write()` put the bytes it
counted behind one another, where the shared offset had come to (`pos`). A copy
from user memory that fails half way leaves bytes in the cached buffer that are not
logged; `home` is the block without them, and `Recycle` brings it back.

**Names.** Inodes, directories and path walks. A directory has a length in entries:
`dirlink()` takes a free entry or adds one, and can fail only where that needs a
new block (a full disk in `Blocks`). A failed assertion sets `panicked` and stops
everything. In `Blocks` and `Names` a system call is a transaction, so that what a
crash leaves is the disk after some call (module `Transactions`); `Names` has the
crash as an action.

**Vm.** Pages are counted, not named: a place in a page table holds one page or none,
and the sum of all places and the free list is constant, so that a lost page or a
double free shows. Every `kalloc()` may find the list empty.

**Programs.** The parser, the matcher, the calendar, the games' search and the
string routines are recursive operators, compared with a definition of what
they should return over all short inputs.

Interfaces: `Pipe`, `Log`, `Console`, `Uart` and `Clock` use `sleep()`/`wakeup()` as
atomic, which is what `NoLostWakeup` of `Sched` shows. `Log` lets the cache lose
unpinned buffers, which is what `Bcache` shows can happen; `Bcache` takes the disk
transfer as one step, which `Transferred` of `VirtioDisk` justifies. These
interfaces are not composed formally.

## 3. Runs

Every passing run explores its whole state space.

| run | instance | shows |
|---|---|---|
| `log` | 3 processes, calls of 2 blocks, reservations of 3, `NLOG = LOGSIZE = 2 * MAXOPBLOCKS` as `mkfs` makes it; 2 blocks and 2 values, or 5 blocks and 1 value without crashes | the log implements `Transactions` (`AtomicCommit`); recovery leaves no torn block, pins are exact, no sleeper in `begin_op()` is forgotten (`Consistent`); no panic (`NoPanic`); once nothing new starts, all becomes durable (`Drains`) |
| `proc_life` | 4 slots, 3 processes born after init in any free slot | parent links and init's shell (`Kinship`), no `wait()` asleep with a zombie child (`NoStuckWait`), refinement of `Family` (`FamilyTree`), every orphan reaped (`Reaped`) |
| `sched_harts` | 2 harts, 3 processes, 3 policies, 2 priorities, a sleeplock | no shared stack and true states (`Switching`), lock discipline and exclusion (`Locking`), `NoLostWakeup`, FCFS and priority order (`RightChoice`); no deadlock |
| `pipe` | 2 processes, ring of 2, counters modulo 4, calls of 3 bytes | refinement of `Channel` (`Fifo`), nobody stuck and the page freed once (`PipeSafe`), blocked calls return (`Returns`) |
| `bcache` | 2 processes, 3 buffers, 4 blocks, 2 values | one buffer per block, exact counts, coherence (`CacheRight`), LRU (`LeastRecent`) |
| `disk` | 2 harts, 3 processes, 8 descriptors, indices modulo 16 | descriptors have one owner and no panic (`DiskSafe`), interrupts masked exactly where they must be (`Masks`), no completion or sleeper forgotten (`NobodyStuck`), the data moved once before the call returns (`Transferred`) |
| `devices` | console, port and clock with 2 processes each, rings of 2, wrapping counters | refinement of `LineQueue` (`RefinesLines`), output in order (`OutputInOrder`), nobody stuck (`NobodyStuck`), calls return (`DevicesAnswer`) |
| `blocks` | 2 processes, 2 files, 4 blocks of 2 bytes, 1 direct block, 3 writes of 4 bytes in chunks of 3 | each block has one place (`BlocksOwned`), a file reads as the bytes written through the shared offset (`FilesRight`), the inode on disk is current (`CoreOnDisk`); no deadlock |
| `names` | 2 processes, 3 inodes, 1 open file, names `m` and `n`, 3 entries in a block; files, links and a directory, or a directory in a directory and ".." | link and reference counts (`CountsExact`), names lead to live inodes and only ".." of a removed directory to a panic (`NamesLead`), inodes are freed but for two named ways (`NoLeak`); no deadlock |
| `names_leak` | 2 processes, one name made and removed | **violation** of `IputFrees`, see section 4 |
| `vm` | 2 processes, 19 pages, sizes up to 4 pages | pages conserved, no panic, images complete (`MemoryRight`), a failed call changes nothing (`FailedChangesNothing`) |
| `programs` | all short lines, strings, patterns, files; a tree of 8 names; a 4x4 board; 250 days from several first days | the shell (`ShellRight`, `PipelinesEnd`), the library (`LibraryRight`), mv (`MovesSafely`), the tools (`ToolsRight`), the image (`ImageRight`), copies (`CopiesExact`) |

A run's invariants are conjunctions of the smaller ones that the modules state
one by one, type correctness among them.

Why the bounds suffice for the interesting cases:

- *Log*: group commit, absorption (two calls in one block), a sleeper for space
  and one for a commit, a call cut in the middle. With two blocks the log never
  fills; five are as many as it has room for, and a call let in without a
  reservation overruns it. The general bound is theorem `LogNoPanic`; calls that use
  all they reserve are in section 4.
- *Proc*: init, its shell, a parent and a child are the smallest family in which an
  orphan comes to init without init being woken for another reason. A slot changes
  hands while somebody holds a pointer to it.
- *Sched*: with three processes on two harts one waits while two run, and a scan can
  meet a slot that another hart is just leaving.
- *Pipe*: a call is longer than the ring, so that it sleeps in the middle; the
  counters wrap several times.
- *Bcache*: more blocks than buffers forces recycling; two pins and one held buffer
  use up the cache.
- *Disk*: two requests leave two descriptors, so that the third process gets some and
  must give them back; the ring indices wrap twice around the rings.
- *Devices*: every ring fills, every counter wraps, a line is longer than its buffer.
- *Blocks*: one file can fill the disk, uses the indirect block and ends inside a
  block; the second chunk of a write starts inside a block, and the other process
  writes or truncates between the chunks. Three writes (`MAXCALLS`) let two processes
  alternate in one file and a third write come after a failed one.
- *Names*: two processes meet on one name; an inode number is freed and allocated
  again while the first process still has its table entry. With three entries in a
  block the second name of a directory needs a new block. Two levels of directories
  are what it takes for ".." to lead to a directory that can be removed.
- *Vm*: a page short at every place of every call, in turn.

Deadlock is checked in `log`, `sched_harts`, `disk`, `devices`, `blocks` and `names`.
Elsewhere the system may really stop: all pids used up (`MaxPid` is a bound of the
model), every pipe end closed, no buffer left (a panic), the program at its end.

### Fairness

The scheduler scans from `proc[0]`, so no given runnable process is sure of its turn
(`Sched!GetsTurn`, section 4). Outside `Proc`, fairness is therefore of the processes
together: some process that can go on inside the component goes on. A waiting call is
then shown to end provided that no new ones start.

- `Log`: a commit, a woken process and `end_op()`, together. `Drains` supposes that from
  some moment nobody begins a call, is killed or reads a new block, and that there is
  no crash.
- `Proc`: weakly fair for the rest of a `wait()` that holds `wait_lock`, strongly fair
  for init's steps when `wait_lock` is free: the lock is a spinlock held for short
  stretches. Nothing is asked of user processes.
- `Pipe`: the processes inside the kernel, together. Nobody has to read, write or
  close. `Returns` supposes that no new call starts.
- `Uart`, `Clock`: the writers together, the sleepers together; the handlers, a `printf()`
  that has begun, the port and the timer go on. No key has to arrive. `WriteReturns`
  supposes that no key, `printf()` or new `write()` comes, `SleepEnds` that no new
  `sleep()` starts and that nobody, once woken, is kept from running for a whole turn
  of the tick counter.
- Shell: some process of the shell's tree goes on as long as one can.

## 4. Where the code does less than it says

`names_leak` is the one violation with a run. `iput()` frees an unlinked inode, lets
go of its lock, and only then drops its reference. Another process can get the
number from `ialloc()` and the same table entry from `iget()` in between; if it drops
its own reference first, with no name left, it sees `ref` 2 and does not free the
inode, and the first process takes `ref` to 0 without looking. `fs.c:332` says
"If that was the last reference and the inode has no links to it, free the
inode". `NoLeak`, which the run `names` checks, says that this and an unlinked open
file at a crash are the only ways to lose an inode without links.

The modules also state properties that do not hold and have no run; each can be
given to TLC with the constants named.

- `Proc!StatusDelivered` (`NPROC = 3, MaxPid = 3`, calls fork, exit, wait).
  `proc.h:104` calls `xstate` "Exit status to be returned to parent's wait", and
  `usertests.c:890` expects it. `wait()` copies out a `struct proc_time`, whose first
  field is the pid, and never reads `xstate`. The shell, init and most programs
  pass 0 and are not touched by this; `grind` and `usertests` pass an `int`.
- `Proc!KilledOnRequest` (`KillPids = {0}`, calls fork, kill). `kill()` compares pids
  and not states, a free slot has pid 0, and `allocproc()` does not clear `killed`:
  after `kill(0)` the next process in that slot is born killed.
- `Proc!GetppidRight` (`NPROC = 4, MaxPid = 5`, calls fork, exit, wait, getppid).
  `proc.h:107` says `wait_lock` must be held when using `parent`; `getppid()` does not,
  and when the parent exits and is reaped between the two loads it returns 0 or
  the pid of the slot's next tenant.
- `Proc!KilledExits` under `AllFairSpec` (`NPROC = 3`, `KillPids = {2}`). `wait()` tests
  `killed(p)` and releases `p->lock` before `sleep()` takes it again. A kill in
  between finds nobody asleep, and the victim sleeps until a child exits.
- `Sched!GetsTurn` under `FairSpec` (one hart, `NPROC = 2`, round robin). The scan
  starts at `proc[0]` every time, so a process that only yields is dispatched for
  ever while a later slot waits. `proc.c:573` says "for one scheduling round".
- `Log!NoPanic` with calls as large as they reserve (`MAXOPBLOCKS = OPBLOCKS = 2`,
  `LOGSIZE = NLOG = 4`, 3 blocks). `begin_op()` admits calls until reservations reach
  `LOGSIZE`, but the area `mkfs` makes includes the header, and `log_write()` panics on
  a full log even for a block that would be absorbed. The run `log` has calls of
  `MAXOPBLOCKS - 1` distinct blocks, which are safe there; `LogNoPanic` proves it in
  general for `MAXOPBLOCKS - 2`.
- `Names!NoPanic`, in the run `names`. `create()` counts a new directory's ".." in the
  parent (`sysfile.c:287`, `dp->nlink++;  // for ".."`), and `unlink()` takes the count
  back although the removed directory keeps the entry while it is somebody's current
  directory. With the parent removed and freed too, ".." leads to a free inode, and
  `ilock()` panics with "ilock: no type" (`fs.c:315`). `NamesLead`, which the run checks,
  says that this is the only way to that panic, to "dirlookup not DIR" and to
  "unlink: nlink < 1".
- `syscall.c:64` says `argstr()` returns the length "including nul"; `fetchstr()`, which
  it calls, returns it without, and `UserCopy` models that. No caller uses more
  than the sign.

The passing runs keep these behaviours in the model but for the ones that need
other arguments: `kill(0)` and calls as large as they reserve.

Some passing properties say what the code does, not what one might expect of it.

- A name made in a removed directory that is still a current directory vanishes with
  it; the inode keeps its link. `LinksExact` leaves out these inodes (`stray`), and
  `NoLeak` speaks only of inodes without links.
- After a copy from a bad address, bytes that `write()` did not count may show in the
  file, and may disappear again (`ContentRight`).
- The port may be given three characters at once, by the ring, the echo and `printf()`
  (`PortRoom`); its FIFO holds 16.
- cp ends with success although the reading of a directory failed half way
  (`SuccessIsComplete` leaves this out for copies; mv fails then, since it cannot
  unlink the source).
- diff reads lines into buffers of 128 bytes without a test; `DiffsLines` is about shorter
  lines.
- `mkfs` rounds the root directory's size up to the next block, also where it fills a
  block exactly (`SizesCovered`).

## 5. Proofs

TLAPS proves these theorems for every value of the constants that the named
assumptions allow: any number of processes, harts, buffers and blocks, any ring
size.

| theorem | says |
|---|---|
| `LogProofs!LogConsistent` | `Consistent`: types, no torn block after recovery, durable when quiet, exact pins, no forgotten sleeper |
| `LogProofs!LogAtomicCommit` | `Log` implements `Transactions` |
| `LogProofs!LogNoPanic` | under `Roomy`, no admitted call panics |
| `ProcProofs!ProcKinship` | `Kinship` |
| `ProcProofs!ProcNoStuckWait` | `wait()` never sleeps with a zombie child |
| `ProcProofs!ProcFamilyTree` | `Proc` implements `Family` |
| `SchedProofs!SchedSwitching` | `Switching` |
| `SchedProofs!SchedLocking` | `Locking` |
| `SchedProofs!SchedNoLostWakeup` | `NoLostWakeup` |
| `SchedProofs!SchedRightChoice` | `RightChoice`, an action property |
| `BcacheProofs!BcacheRight` | `CacheRight` |
| `BcacheProofs!BcacheLeastRecent` | `LeastRecent`, an action property |
| `PipeProofs!PipeIsSafe` | `PipeSafe` |
| `PipeProofs!PipeIsFifo` | `Pipe` implements `Channel` |
| `DiskProofs!DiskIsSafe` | `DiskSafe`: no panic, every descriptor free or with one owner |
| `DiskProofs!MasksRight` | `Masks` |
| `DiskProofs!NobodyIsStuck` | `NobodyStuck`: no completion and no sleeper is forgotten |
| `DiskProofs!DataTransferred` | `Transferred`, an action property |

Assumptions: `LogAssumption` (finite sets of processes and blocks, positive sizes,
`MAXOPBLOCKS <= LOGSIZE`, distinct markers), `ProcAssumption` (at least one slot, sets
of numbers as arguments), `SchedAssumption` (at least one slot, the three policies,
priorities 0 to 20), `BcacheAssumption` (at least one buffer, finitely many
processes), `PipeAssumption` (a positive ring size that divides `WRAP` and is
smaller; a process), `DiskAssumption` (at least three descriptors, ring indices
modulo a multiple of their number, distinct markers). TLC evaluates them in the runs.

Each proof has one lemma per action, which shows that the action preserves an
inductive invariant `IInv`; TLC has checked `IInv` on the instances above before.

**Log.** `IInv` adds, phase by phase, how the two headers relate (`HeaderInv`), what
log, cache and disk hold for the listed blocks (`LogInv`), that all other blocks are
clean and intact (`CleanInv`), the pins (`PinInv`) and the counters (`OpsInv`). A crash
keeps it because a block being written is listed in the header whenever its old
contents are needed. For the refinement `durable` is what recovery would restore, so
the only step that changes it is `WriteHead`, the commit point. `LogNoPanic` counts:
one token for each block a call has reserved and not used, and
`Len(lh) + Cardinality(Tokens) <= LOGSIZE`.

**Proc.** `TableInv` says who owns a slot, and that pids are unique; `PcInv` ties each
process's place to the table: who holds `wait_lock` has seen no zombie child, and a
child under construction belongs to exactly one `fork()`. The refinement maps a slot
with a parent to a member of the tree; `ForkAlloc` only issues an id, and `ForkLink`
is the birth.

**Sched.** `HartInv` says which `p->lock` a hart holds at each place, also while it
carries the lock over `swtch()`; `ProcInv` that a process is on one hart and that its
state says which; `LkInv` and `CritInv` do the same for the sleeplock; `WakeInv` is
`NoLostWakeup` with the wakers still in their loop; `ScanInv` that the candidate is
no worse than every slot passed; `OrderInv` that the time stamps order the processes.
`SchedInv` has the invariant and the scheduler's steps, `SchedProofs` the processes'
steps and the theorems.

**Bcache.** `ListInv` (the list is a permutation of the buffers), `BlockInv` (one
buffer per block, one per logged block), `ProcInv` (a process's buffer has the block
it asked for, from `bget()` on, since its reference keeps it from being recycled),
`OwnerInv` (the sleeplock), `DataInv` (a valid buffer has the latest contents, and the
disk has them for blocks that are not logged) and `LruInv` (an unused buffer in front
of another was released later). The counts use the cardinality lemmas of the library.

**Pipe.** `LockInv`, `EndInv`, `CloseInv`, `OpenInv` say who is inside, which ends are
in use and that each end is closed once; `SleepInv` says what a sleeper still waits
for, or who will wake it. For `Fifo` the queue is the ring from `nread` on, `Count` bytes
long. `RingTheorems`, which the disk's proofs use too, has the arithmetic: the count
follows the counters across their wrap, the next entry goes to the cell behind the
last one (`Cells`), and this is none of the others' (`ModDistinct`): the place where
`WRAP` must be a multiple of the ring size.

**VirtioDisk.** `HartInv` says for each place of a process or handler whether interrupts
are on, how deep `push_off()` is nested and who has `vdisk_lock`; a process may come
back on another hart, so it speaks of the hart that runs it. `DescInv`: the three
descriptors of a request are chained, lead back to its buffer, and have no other
owner. `RingInv`: each ring holds the requests from its read index to its write
index, and a request that waits is in exactly one of avail ring, device and used
ring, once. That the rings never overflow is a pigeonhole argument (`Room`): the
second descriptor of a request is never queued, so fewer than `NUM` entries are.
`WorkInv` ties the transfer to the request's place, which gives `Transferred`;
`SleepInv` says what a sleeper waits for. `alloc_desc()` fails only while somebody owns
descriptors (`ShortOwned`), and this is where `NUM >= 3` is needed.

Only model-checked: liveness (`Drains`, `Reaped`, `Returns`, `DevicesAnswer`,
`PipelinesEnd`), which needs `ENABLED`; the recursive operators of the programs,
whose results need induction over data; and the modules without a proof module,
where `Console` and `Vm` would be the next.

## 6. Not modelled

Memory ordering is sequentially consistent, as the fences of `acquire()`,
`release()` and the driver provide. Boot, the set-up of devices and of the kernel's page
table, printing, random numbers and the register saving of traps are straight-line
code or pure I/O. Of the time accounting only the stamps that order FCFS are
modelled. Descriptors are modelled where they matter (pipe ends in `Pipe`, open files
in `Names`, offsets in `Blocks`, the shell's in `ShellRun`), not their copying and
closing by fork and exit in `Names`. The inode table never fills. How many buffers
a commit needs while others hold some (`NBUF = LOGSIZE`) would need `Log` and `Bcache`
composed: the panic "bget: no buffers" is reachable in `Bcache`. The remaining user
programs print what one or two system calls return.
