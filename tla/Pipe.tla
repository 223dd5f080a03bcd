-------------------------------- MODULE Pipe --------------------------------
(***************************************************************************)
(* One pipe of kernel/pipe.c and the file references to its two ends         *)
(* (kernel/file.c): processes write, read, fork, close their ends, are       *)
(* killed and exit.                                                          *)
(*                                                                           *)
(* pi->lock is held from the start of a read or write to its end, but for    *)
(* the sleeps; a step is one turn of the loops in between, since killed(pr)  *)
(* is looked at in every turn and kill() does not take pi->lock.  nread and  *)
(* nwrite are unsigned and wrap around.                                      *)
(***************************************************************************)
EXTENDS Integers

CONSTANTS
  Procs,
  Bytes,
  PIPESIZE,
  WRAP,      \* 2^32 in the code: a multiple of PIPESIZE
  Sizes,     \* arguments n of read() and write()
  None

Ends == {"r", "w"}

ASSUME PipeAssumption ==
  /\ PIPESIZE \in Nat \ {0} /\ WRAP \in Nat /\ WRAP > PIPESIZE
  /\ WRAP % PIPESIZE = 0
  /\ Sizes \subseteq Nat /\ Procs # {}
  /\ None \notin Procs /\ None \notin Bytes /\ None \notin Ends

VARIABLES
  data, nread, nwrite,
  readopen, writeopen,
  lock,        \* the process holding pi->lock
  freed,       \* how often the page has been given to kfree()
  ends,        \* ends each process has open: together, the files' ref
  pc,          \* where each process is
  left,        \* n - i of its read() or write()
  closing,     \* the end it is in pipeclose() for, or None
  killed,
  got,         \* history: the byte just delivered to the reader, or None
  unsaid       \* history: bytes were put since readers were last woken

vars == <<data, nread, nwrite, readopen, writeopen, lock, freed, ends, pc, left,
          closing, killed, got, unsaid>>
ring == <<data, nread, nwrite, got>>
files == <<readopen, writeopen, freed, ends, closing>>

Empty == nread = nwrite
FullLate == nwrite = (nread + PIPESIZE + 1) % WRAP  \* mutant: off by one
Full == nwrite = (nread + PIPESIZE) % WRAP

\* nread++, nwrite++
IncWide(n) == n + 1  \* mutant: does not wrap around
Inc(n) == (n + 1) % WRAP

\* wakeup() on &pi->nread or &pi->nwrite: f is pc after the caller's own move.
WakeReadersNot(f) == f  \* mutant: forgotten
WakeReaders(f) == [p \in Procs |-> IF f[p] = "rsleep" THEN "rwoken" ELSE f[p]]
WakeWritersNot(f) == f  \* mutant: forgotten
WakeWriters(f) == [p \in Procs |-> IF f[p] = "wsleep" THEN "wwoken" ELSE f[p]]

Move(p, l) == [pc EXCEPT ![p] = l]

\* pipealloc() has just made the pipe for one process; they are all alike.
Init ==
  /\ data = [i \in 0 .. PIPESIZE - 1 |-> None]
  /\ nread = 0 /\ nwrite = 0
  /\ readopen = TRUE /\ writeopen = TRUE
  /\ lock = None
  /\ freed = 0
  /\ LET p == CHOOSE q \in Procs : TRUE
     IN  /\ ends = [q \in Procs |-> IF q = p THEN Ends ELSE {}]
         /\ pc = [q \in Procs |-> IF q = p THEN "user" ELSE "none"]
  /\ left = [p \in Procs |-> 0]
  /\ closing = [p \in Procs |-> None]
  /\ killed = [p \in Procs |-> FALSE]
  /\ got = None
  /\ unsaid = FALSE

\* p is in user space and usertrap() lets it make a call.
Free(p) == pc[p] = "user" /\ closing[p] = None /\ ~killed[p]

-----------------------------------------------------------------------------
(* pipewrite() *)

WriteBegin(p, n) ==
  /\ Free(p) /\ "w" \in ends[p] /\ lock = None
  /\ lock' = p
  /\ left' = [left EXCEPT ![p] = n]
  /\ pc' = Move(p, "wloop")
  /\ UNCHANGED <<ring, files, killed, unsaid>>

InLoop(p) == pc[p] = "wloop" /\ left[p] > 0
Refused(p) == ~readopen \/ killed[p]

\* No reader, or killed: return -1, waking nobody.
WriteRefused(p) ==
  /\ InLoop(p) /\ Refused(p)
  /\ lock' = None
  /\ left' = [left EXCEPT ![p] = 0]
  /\ pc' = Move(p, "user")
  /\ UNCHANGED <<ring, files, killed, unsaid>>

WriteSleep(p) ==
  /\ InLoop(p) /\ ~Refused(p) /\ Full
  /\ lock' = None
  /\ unsaid' = FALSE
  /\ pc' = WakeReaders(Move(p, "wsleep"))
  /\ UNCHANGED <<ring, files, left, killed>>

WriteByte(p, b) ==
  /\ InLoop(p) /\ ~Refused(p) /\ ~Full
  /\ data' = [data EXCEPT ![nwrite % PIPESIZE] = b]
  /\ nwrite' = Inc(nwrite)
  /\ left' = [left EXCEPT ![p] = @ - 1]
  /\ unsaid' = TRUE
  /\ UNCHANGED <<nread, got, files, lock, pc, killed>>

\* All is written, or copyin() fails.
WriteEnd(p) ==
  /\ \/ pc[p] = "wloop" /\ left[p] = 0
     \/ InLoop(p) /\ ~Refused(p) /\ ~Full
  /\ lock' = None
  /\ left' = [left EXCEPT ![p] = 0]
  /\ unsaid' = FALSE
  /\ pc' = WakeReaders(Move(p, "user"))
  /\ UNCHANGED <<ring, files, killed>>

-----------------------------------------------------------------------------
(* piperead() *)

ReadBegin(p, n) ==
  /\ Free(p) /\ "r" \in ends[p] /\ lock = None
  /\ lock' = p
  /\ left' = [left EXCEPT ![p] = n]
  /\ pc' = Move(p, "rloop")
  /\ UNCHANGED <<ring, files, killed, unsaid>>

MustWaitAnyway == Empty  \* mutant: does not look whether the writers are gone
MustWait == Empty /\ writeopen

ReadKilled(p) ==
  /\ pc[p] = "rloop" /\ MustWait /\ killed[p]
  /\ lock' = None
  /\ left' = [left EXCEPT ![p] = 0]
  /\ pc' = Move(p, "user")
  /\ UNCHANGED <<ring, files, killed, unsaid>>

ReadSleep(p) ==
  /\ pc[p] = "rloop" /\ MustWait /\ ~killed[p]
  /\ lock' = None
  /\ pc' = Move(p, "rsleep")
  /\ UNCHANGED <<ring, files, left, killed, unsaid>>

ReadCopy(p) ==
  /\ pc[p] = "rloop" /\ ~MustWait
  /\ pc' = Move(p, "rcopy")
  /\ UNCHANGED <<ring, files, lock, left, killed, unsaid>>

ReadByte(p) ==
  /\ pc[p] = "rcopy" /\ left[p] > 0 /\ ~Empty
  /\ nread' = Inc(nread)
  /\ got' = data[nread % PIPESIZE]
  /\ left' = [left EXCEPT ![p] = @ - 1]
  /\ UNCHANGED <<data, nwrite, files, lock, pc, killed, unsaid>>

\* All is read or there is no more; or copyout() fails, after nread++.
ReadEnd(p) ==
  /\ pc[p] = "rcopy"
  /\ IF left[p] > 0 /\ ~Empty THEN nread' = Inc(nread) ELSE UNCHANGED nread
  /\ lock' = None
  /\ left' = [left EXCEPT ![p] = 0]
  /\ pc' = WakeWriters(Move(p, "user"))
  /\ got' = None
  /\ UNCHANGED <<data, nwrite, files, killed, unsaid>>

\* sleep() returns: it takes pi->lock again.
Relock(p) ==
  /\ pc[p] \in {"wwoken", "rwoken"} /\ lock = None
  /\ lock' = p
  /\ pc' = Move(p, IF pc[p] = "wwoken" THEN "wloop" ELSE "rloop")
  /\ UNCHANGED <<ring, files, left, killed, unsaid>>

-----------------------------------------------------------------------------
(* fileclose() and pipeclose(), fork(), kill(), exit() *)

\* p drops its reference; the last one out goes on to pipeclose().
LastAlways(p, e) == TRUE  \* mutant: the reference count is not looked at
Last(p, e) == \A q \in Procs \ {p} : e \notin ends[q]

Close(p, e) ==
  /\ Free(p) \/ (pc[p] = "exit" /\ closing[p] = None)
  /\ e \in ends[p]
  /\ ends' = [ends EXCEPT ![p] = @ \ {e}]
  /\ closing' = [closing EXCEPT ![p] = IF Last(p, e) THEN e ELSE None]
  /\ UNCHANGED <<ring, readopen, writeopen, freed, lock, pc, left, killed, unsaid>>

PipeClose(p) ==
  /\ closing[p] # None /\ lock = None
  /\ IF closing[p] = "w"
     THEN /\ writeopen' = FALSE /\ unsaid' = FALSE
          /\ pc' = WakeReaders(pc)
          /\ UNCHANGED readopen
     ELSE /\ readopen' = FALSE
          /\ pc' = WakeWriters(pc)
          /\ UNCHANGED <<writeopen, unsaid>>
  /\ freed' = IF ~readopen' /\ ~writeopen' THEN freed + 1 ELSE freed
  /\ closing' = [closing EXCEPT ![p] = None]
  /\ UNCHANGED <<ring, lock, ends, left, killed>>

\* fork(): the child's files are filedup()s of the parent's.
Fork(p, q) ==
  /\ Free(p) /\ pc[q] = "none"
  /\ ends' = [ends EXCEPT ![q] = ends[p]]
  /\ pc' = Move(q, "user")
  /\ UNCHANGED <<ring, readopen, writeopen, freed, closing, lock, left, killed, unsaid>>

Kill(q) ==
  /\ pc[q] \notin {"none", "gone"}
  /\ killed' = [killed EXCEPT ![q] = TRUE]
  /\ pc' = Move(q, CASE pc[q] = "rsleep" -> "rwoken" [] pc[q] = "wsleep" -> "wwoken"
                     [] OTHER -> pc[q])
  /\ UNCHANGED <<ring, files, lock, left, unsaid>>

\* exit(), by choice or because usertrap() finds p killed, closes every file.
Exit(p) ==
  /\ pc[p] = "user" /\ closing[p] = None
  /\ pc' = Move(p, "exit")
  /\ UNCHANGED <<ring, files, lock, left, killed, unsaid>>

ExitDone(p) ==
  /\ pc[p] = "exit" /\ closing[p] = None /\ ends[p] = {}
  /\ pc' = Move(p, "gone")
  /\ killed' = [killed EXCEPT ![p] = FALSE]
  /\ UNCHANGED <<ring, files, lock, left, unsaid>>

-----------------------------------------------------------------------------
\* What p does inside the kernel once it has begun.
Inside(p) ==
  \/ WriteRefused(p) \/ WriteSleep(p) \/ WriteEnd(p) \/ \E b \in Bytes : WriteByte(p, b)
  \/ ReadKilled(p) \/ ReadSleep(p) \/ ReadCopy(p) \/ ReadByte(p) \/ ReadEnd(p)
  \/ Relock(p) \/ PipeClose(p)

Next ==
  \E p \in Procs :
    \/ Inside(p)
    \/ \E n \in Sizes : WriteBegin(p, n) \/ ReadBegin(p, n)
    \/ \E e \in Ends : Close(p, e)
    \/ \E q \in Procs : Fork(p, q)
    \/ Kill(p) \/ Exit(p) \/ ExitDone(p)

Spec == Init /\ [][Next]_vars

\* Some process inside the pipe's code goes on while one can: fairness of them
\* together.  No given one is sure of its turn, since scheduler() scans from slot 0.
FairSpec == Spec /\ WF_vars(\E p \in Procs : Inside(p))

-----------------------------------------------------------------------------
(* Properties. *)

Inner == {"wloop", "rloop", "rcopy"}
Asleep == {"wsleep", "rsleep", "wwoken", "rwoken"}

\* Every variable keeps its type.
TypeOK ==
  /\ data \in [0 .. PIPESIZE - 1 -> Bytes \cup {None}]
  /\ nread \in 0 .. WRAP - 1 /\ nwrite \in 0 .. WRAP - 1
  /\ readopen \in BOOLEAN /\ writeopen \in BOOLEAN
  /\ lock \in Procs \cup {None}
  /\ freed \in Nat
  /\ ends \in [Procs -> SUBSET Ends]
  /\ pc \in [Procs -> {"none", "user", "exit", "gone"} \cup Inner \cup Asleep]
  /\ left \in [Procs -> Nat]
  /\ closing \in [Procs -> Ends \cup {None}]
  /\ killed \in [Procs -> BOOLEAN]
  /\ got \in Bytes \cup {None}
  /\ unsaid \in BOOLEAN

\* The ring with its wrapping counters is a queue (module Channel) of at most
\* PIPESIZE bytes, whoever reads and writes and wherever a call is cut short.
Count == (nwrite - nread) % WRAP
queue == [i \in 1 .. Count |-> data[(nread + i - 1) % PIPESIZE]]
C == INSTANCE Channel WITH Room <- PIPESIZE
Fifo == C!CSpec

\* A reader sleeps only while there is nothing to read and somebody may still
\* write.  The exception is a writer killed in the middle: it returns from
\* pipewrite() with pi->lock released and what it has put unsaid.
NoStuckReader ==
  \A p \in Procs : pc[p] = "rsleep" /\ lock = None =>
    (Empty /\ writeopen) \/ unsaid

\* A writer sleeps only while the pipe is full and somebody may still read.
NoStuckWriter ==
  \A p \in Procs : pc[p] = "wsleep" /\ lock = None => Full /\ readopen

\* The page is freed at most once, and then nobody is in the pipe's code or
\* still has an end open; it is freed as soon as the last end is closed.
FreedOnce ==
  /\ freed <= 1
  /\ freed = 1 => \A p \in Procs : ends[p] = {} /\ pc[p] \notin Inner \cup Asleep
  /\ (\A p \in Procs : ends[p] = {} /\ closing[p] = None)
       => freed = 1

\* A call blocked on the pipe returns once the other side has closed, the reader
\* with the end of the data, the writer with an error, provided that read() and
\* write() are not called for ever: a process that calls them again and again from
\* an earlier slot can keep a woken one from ever running.
NoNewCall == \A p \in Procs, n \in Sizes : ~WriteBegin(p, n) /\ ~ReadBegin(p, n)
Returns ==
  <>[][NoNewCall]_vars =>
    \A p \in Procs :
      (\/ pc[p] \in {"rsleep", "rwoken", "rloop"} /\ ~writeopen
       \/ pc[p] \in {"wsleep", "wwoken"} /\ ~readopen)
        ~> pc[p] = "user"

\* Nobody sleeps in piperead() or pipewrite() past what would wake them, and
\* pipeclose() frees the page once and in time.
PipeSafe == TypeOK /\ NoStuckReader /\ NoStuckWriter /\ FreedOnce
=============================================================================
