-------------------------------- MODULE Log --------------------------------
(***************************************************************************)
(* The write-ahead log of kernel/log.c with the parts of the buffer cache   *)
(* (kernel/bio.c) it leans on: a buffer that is pinned stays in memory, one  *)
(* that is not may be recycled at any time and is then read back from disk.  *)
(*                                                                           *)
(* Every action is one critical section of log.lock or one bwrite().  The    *)
(* machine may stop between any two of them and in the middle of a bwrite(): *)
(* a block is two disk sectors, so an interrupted write of a data block may  *)
(* leave it torn.  The header (n and block[]) lies within the first sector,  *)
(* so its write either happens or does not.                                  *)
(***************************************************************************)
EXTENDS Naturals, Sequences, FiniteSets

CONSTANTS
  Procs,        \* processes executing file-system calls
  Blocks,       \* home blocks: the disk blocks outside the log
  Vals,         \* contents of a block
  MAXOPBLOCKS,  \* blocks begin_op() reserves for a call
  LOGSIZE,      \* capacity of logheader.block[]
  NLOG,         \* sb->nlog as mkfs wrote it: the header and NLOG - 1 data blocks
  OPBLOCKS,     \* distinct blocks one call really passes to log_write()
  NoBuf,        \* the block has no buffer in the cache
  Torn          \* contents left by an interrupted write

ASSUME LogAssumption ==
  /\ IsFiniteSet(Procs) /\ IsFiniteSet(Blocks)
  /\ MAXOPBLOCKS \in Nat \ {0} /\ LOGSIZE \in Nat \ {0}
  /\ MAXOPBLOCKS <= LOGSIZE
  /\ NLOG \in Nat \ {0} /\ OPBLOCKS \in Nat
  /\ NoBuf \notin Vals /\ Torn \notin Vals /\ NoBuf # Torn

VARIABLES
  disk,         \* home blocks on disk
  dlog,         \* data blocks of the on-disk log, log.start + 1 + i
  dhead,        \* the on-disk header: the first n entries of block[]
  buf,          \* the buffer cache's copy of each home block, or NoBuf
  pin,          \* references bpin() took on the buffer
  lh,           \* log.lh: the in-memory header
  outstanding,  \* log.outstanding
  committing,   \* log.committing
  phase,        \* where commit() or recover_from_log() is
  tail,         \* its loop counter, counted from 1
  pc,           \* where each process is in begin_op() .. end_op()
  opw,          \* blocks the process's current call has logged
  panicked      \* panic() was called with log.lock held

vars == <<disk, dlog, dhead, buf, pin, lh, outstanding, committing, phase,
          tail, pc, opw, panicked>>
diskVars == <<disk, dlog, dhead>>

Slots == 1 .. NLOG - 1

\* Block b is in header h: the search loop of log_write().
Listed(b, h) == \E i \in 1 .. Len(h) : h[i] = b

\* The home blocks d once recovery has copied the log blocks l of header h.
Restore(d, l, h) ==
  [b \in Blocks |-> IF Listed(b, h)
                    THEN l[CHOOSE i \in 1 .. Len(h) : h[i] = b] ELSE d[b]]

\* What a restart brings back from the disk as it is now.
Recovered == Restore(disk, dlog, dhead)

\* What bread(b) returns.
Cached(b) == IF buf[b] = NoBuf THEN disk[b] ELSE buf[b]

Recovering == phase \in {"boot", "recover"}
Up == ~Recovering /\ ~panicked

\* The loops of write_log() and install_trans() have run over all of log.lh.
LoopDoneEarly == tail >= Len(lh)  \* mutant: stops one block short
LoopDone == tail > Len(lh)

\* begin_op()'s test: no commit running, and room for one more reservation.
AdmitUnreserved ==  \* mutant: forgets what the calls inside have reserved
  ~committing /\ Len(lh) + MAXOPBLOCKS <= LOGSIZE
Admit == ~committing /\ Len(lh) + (outstanding + 1) * MAXOPBLOCKS <= LOGSIZE

\* The two panics of log_write().
TooBigOrOutside == Len(lh) >= LOGSIZE \/ Len(lh) >= NLOG - 1 \/ outstanding < 1

\* bunpin()
BunpinForgotten(f, b) == f  \* mutant: the reference is never dropped
Bunpin(f, b) == [f EXCEPT ![b] = @ - 1]

\* wakeup(&log)
WakeupLost(f) == f  \* mutant: nobody is woken
Wakeup(f) == [p \in Procs |-> IF f[p] = "sleeping" THEN "woken" ELSE f[p]]

Init ==
  /\ disk \in [Blocks -> Vals]
  /\ \E v \in Vals : dlog = [i \in Slots |-> v]
  /\ dhead = <<>>
  /\ buf = [b \in Blocks |-> NoBuf]
  /\ pin = [b \in Blocks |-> 0]
  /\ lh = <<>>
  /\ outstanding = 0
  /\ committing = FALSE
  /\ phase = "boot"
  /\ tail = 1
  /\ pc = [p \in Procs |-> "out"]
  /\ opw = [p \in Procs |-> {}]
  /\ panicked = FALSE

-----------------------------------------------------------------------------
(* Recovery at boot, before any other process exists. *)

\* read_head()
ReadHead ==
  /\ phase = "boot"
  /\ lh' = dhead
  /\ phase' = "recover"
  /\ tail' = 1
  /\ UNCHANGED <<diskVars, buf, pin, outstanding, committing, pc, opw, panicked>>

\* One iteration of install_trans(); bunpin() only when not recovering.
InstallTrans ==
  /\ phase \in {"recover", "install"} /\ ~panicked
  /\ ~LoopDone
  /\ disk' = [disk EXCEPT ![lh[tail]] = dlog[tail]]
  /\ buf' = [buf EXCEPT ![lh[tail]] = dlog[tail]]
  /\ pin' = IF phase = "recover" THEN pin ELSE Bunpin(pin, lh[tail])
  /\ tail' = tail + 1
  /\ UNCHANGED <<dlog, dhead, lh, outstanding, committing, phase, pc, opw, panicked>>

\* log.lh.n = 0; write_head(), which ends both recovery and commit().
EraseHead ==
  /\ phase \in {"recover", "install"} /\ ~panicked
  /\ LoopDone
  /\ lh' = <<>>
  /\ dhead' = <<>>
  /\ phase' = IF phase = "recover" THEN "idle" ELSE "finish"
  /\ UNCHANGED <<disk, dlog, buf, pin, outstanding, committing, tail, pc, opw, panicked>>

-----------------------------------------------------------------------------
(* File-system calls. *)

\* One iteration of begin_op()'s loop; sleep() releases log.lock atomically.
BeginOp(p) ==
  /\ Up /\ pc[p] \in {"out", "woken"}
  /\ IF Admit
     THEN /\ pc' = [pc EXCEPT ![p] = "in"]
          /\ outstanding' = outstanding + 1
     ELSE /\ pc' = [pc EXCEPT ![p] = "sleeping"]
          /\ UNCHANGED outstanding
  /\ UNCHANGED <<diskVars, buf, pin, lh, committing, phase, tail, opw, panicked>>

\* kill() makes a sleeping process runnable; begin_op() just loops.
Kill(p) ==
  /\ Up /\ pc[p] = "sleeping"
  /\ pc' = [pc EXCEPT ![p] = "woken"]
  /\ UNCHANGED <<diskVars, buf, pin, lh, outstanding, committing, phase, tail, opw, panicked>>

\* bread(); modify; log_write(); brelse(): the buffer's sleep-lock is held
\* throughout, so nobody sees the steps in between.  After a panic the lock
\* is never released and the modified buffer stays out of sight.
LogWrite(p, b, v) ==
  /\ Up /\ pc[p] = "in"
  /\ Cardinality(opw[p] \cup {b}) <= OPBLOCKS
  /\ IF TooBigOrOutside
     THEN /\ panicked' = TRUE
          /\ UNCHANGED <<buf, pin, lh, opw>>
     ELSE /\ buf' = [buf EXCEPT ![b] = v]
          /\ opw' = [opw EXCEPT ![p] = @ \cup {b}]
          /\ IF Listed(b, lh)
             THEN UNCHANGED <<pin, lh>>
             ELSE /\ pin' = [pin EXCEPT ![b] = @ + 1]
                  /\ lh' = Append(lh, b)
          /\ UNCHANGED panicked
  /\ UNCHANGED <<diskVars, outstanding, committing, phase, tail, pc>>

\* The critical section that opens end_op(); the last call out commits.
EndOp(p) ==
  /\ Up /\ pc[p] = "in"
  /\ outstanding' = outstanding - 1
  /\ panicked' = committing
  /\ opw' = [opw EXCEPT ![p] = {}]
  /\ tail' = 1
  /\ IF outstanding = 1
     THEN /\ committing' = TRUE
          /\ pc' = [pc EXCEPT ![p] = "commit"]
          /\ phase' = IF lh = <<>> THEN "finish" ELSE "write_log"
     ELSE /\ pc' = Wakeup([pc EXCEPT ![p] = "out"])
          /\ UNCHANGED <<committing, phase>>
  /\ UNCHANGED <<diskVars, buf, pin, lh>>

-----------------------------------------------------------------------------
(* commit(), run by the process whose end_op() found nobody else inside. *)

\* One iteration of write_log().
WriteLog ==
  /\ phase = "write_log" /\ ~panicked
  /\ ~LoopDone
  /\ dlog' = [dlog EXCEPT ![tail] = Cached(lh[tail])]
  /\ buf' = [buf EXCEPT ![lh[tail]] = Cached(lh[tail])]
  /\ tail' = tail + 1
  /\ UNCHANGED <<disk, dhead, pin, lh, outstanding, committing, phase, pc, opw, panicked>>

\* write_head(): the commit point.
WriteHead ==
  /\ phase = "write_log" /\ ~panicked
  /\ LoopDone
  /\ dhead' = lh
  /\ phase' = "install"
  /\ tail' = 1
  /\ UNCHANGED <<disk, dlog, buf, pin, lh, outstanding, committing, pc, opw, panicked>>

\* The critical section that closes end_op().
FinishCommit(p) ==
  /\ phase = "finish" /\ ~panicked /\ pc[p] = "commit"
  /\ committing' = FALSE
  /\ phase' = "idle"
  /\ pc' = Wakeup([pc EXCEPT ![p] = "out"])
  /\ UNCHANGED <<diskVars, buf, pin, lh, outstanding, tail, opw, panicked>>

-----------------------------------------------------------------------------
(* The buffer cache and the machine. *)

\* bread() by any reader, in a call or not: fileread() opens no transaction.
Bread(b) ==
  /\ Up /\ buf[b] = NoBuf
  /\ buf' = [buf EXCEPT ![b] = disk[b]]
  /\ UNCHANGED <<diskVars, pin, lh, outstanding, committing, phase, tail, pc, opw, panicked>>

\* mutant: recycles without looking at the reference count
RecyclePinned(b) ==
  /\ ~panicked /\ buf[b] # NoBuf
  /\ buf' = [buf EXCEPT ![b] = NoBuf]
  /\ UNCHANGED <<diskVars, pin, lh, outstanding, committing, phase, tail, pc, opw, panicked>>

\* bget() recycles a buffer nobody references.
Recycle(b) ==
  /\ ~panicked /\ buf[b] # NoBuf /\ pin[b] = 0
  /\ buf' = [buf EXCEPT ![b] = NoBuf]
  /\ UNCHANGED <<diskVars, pin, lh, outstanding, committing, phase, tail, pc, opw, panicked>>

\* The machine stops, possibly inside the bwrite() that is in progress, and
\* comes back to initlog().
Crash ==
  /\ disk' \in {disk} \cup
       {[disk EXCEPT ![lh[i]] = Torn] :
          i \in {j \in 1 .. Len(lh) : j = tail /\ phase \in {"recover", "install"}}}
  /\ dlog' \in {dlog} \cup
       {[dlog EXCEPT ![i] = Torn] :
          i \in {j \in 1 .. Len(lh) : j = tail /\ phase = "write_log"}}
  /\ buf' = [b \in Blocks |-> NoBuf]
  /\ pin' = [b \in Blocks |-> 0]
  /\ lh' = <<>>
  /\ outstanding' = 0
  /\ committing' = FALSE
  /\ phase' = "boot"
  /\ tail' = 1
  /\ pc' = [p \in Procs |-> "out"]
  /\ opw' = [p \in Procs |-> {}]
  /\ panicked' = FALSE
  /\ UNCHANGED dhead

-----------------------------------------------------------------------------
CommitStep == WriteLog \/ WriteHead \/ InstallTrans \/ EraseHead \/ ReadHead

Next ==
  \/ CommitStep
  \/ \E p \in Procs : BeginOp(p) \/ Kill(p) \/ EndOp(p) \/ FinishCommit(p)
  \/ \E p \in Procs, b \in Blocks, v \in Vals : LogWrite(p, b, v)
  \/ \E b \in Blocks : Bread(b) \/ Recycle(b)
  \/ Crash

Spec == Init /\ [][Next]_vars

\* A call inside ends (it writes finitely often), a woken process looks again,
\* a commit goes on.  Fairness is of these processes together, not of each: under
\* every policy scheduler() runs some process that can run, but the scan from
\* slot 0 need not come to any given one.  Nobody must begin a call.
Work ==
  \/ CommitStep
  \/ \E p \in Procs : \/ pc[p] = "woken" /\ BeginOp(p)
                      \/ EndOp(p) \/ FinishCommit(p)

Fairness == WF_vars(Work)

FairSpec == Spec /\ Fairness
-----------------------------------------------------------------------------
(* Properties. *)

\* Every variable keeps its type; at most LOGSIZE blocks are logged and each
\* of them has a slot in the on-disk log.
TypeOK ==
  /\ disk \in [Blocks -> Vals \cup {Torn}]
  /\ dlog \in [Slots -> Vals \cup {Torn}]
  /\ dhead \in Seq(Blocks) /\ Len(dhead) < NLOG /\ Len(dhead) <= LOGSIZE
  /\ buf \in [Blocks -> Vals \cup {NoBuf}]
  /\ pin \in [Blocks -> Nat]
  /\ lh \in Seq(Blocks) /\ Len(lh) < NLOG /\ Len(lh) <= LOGSIZE
  /\ outstanding \in Nat
  /\ committing \in BOOLEAN
  /\ phase \in {"boot", "recover", "idle", "write_log", "install", "finish"}
  /\ tail \in Nat \ {0}
  /\ pc \in [Procs -> {"out", "woken", "sleeping", "in", "commit"}]
  /\ opw \in [Procs -> SUBSET Blocks]
  /\ panicked \in BOOLEAN

\* No call that begin_op() admitted runs into one of the panics of log_write()
\* ("too big a transaction", "log_write outside of trans") or of end_op()
\* ("log.committing"), as long as calls log at most OPBLOCKS blocks and that is
\* less than the MAXOPBLOCKS they reserve.  (It fails for calls that use all they
\* reserve: the log area has one data block less than LOGSIZE.)
NoPanic == ~panicked

\* The room begin_op()'s test and mkfs's log leave: each call uses less than it
\* reserves, by at least the blocks the log area is short of LOGSIZE.
\* (log_write() panics on a full log even for a block that is already in it.)
Roomy ==
  /\ OPBLOCKS < MAXOPBLOCKS
  /\ LOGSIZE + OPBLOCKS < NLOG - 1 + MAXOPBLOCKS

\* A process asleep in begin_op() always has somebody left to wake it: a call
\* still inside, or a commit in progress.
NoLostWakeup ==
  (\E p \in Procs : pc[p] = "sleeping") => outstanding > 0 \/ committing

\* Wherever the machine stops, what recovery restores has no torn block.
RecoveredIntact == Recovered \in [Blocks -> Vals]

\* Once nobody is inside and no commit is running, everything written so far
\* survives a restart.
QuiescentDurable ==
  Up /\ outstanding = 0 /\ ~committing => Recovered = [b \in Blocks |-> Cached(b)]

\* The cache pins exactly the blocks of the transaction in progress, each once:
\* a missing pin would let a logged block be lost, a surplus one would take a
\* buffer out of the cache for good.
PinsMatchLog ==
  phase # "install" =>
    \A b \in Blocks :
      pin[b] = IF ~Recovering /\ Listed(b, lh) THEN 1 ELSE 0

\* The contents calls see: the cache over the disk, or, until recovery is
\* done, what recovery restores.
View == IF Recovering THEN Recovered ELSE [b \in Blocks |-> Cached(b)]

T == INSTANCE Transactions
       WITH durable <- Recovered, current <- View,
            ops <- {p \in Procs : pc[p] = "in"}

\* The log implements atomic transactions: every call's writes reach the disk
\* all together or not at all, whatever is cached, recycled or interrupted.
AtomicCommit == T!TSpec

\* If the machine stays up and the rest of it comes to rest (no new call starts,
\* nobody kills or reads), every call finishes, including those asleep in
\* begin_op() while end_op() commits, and all their writes become durable.
\* While new calls keep starting this may fail: a process in a late slot that
\* end_op() has woken need never be dispatched.
Quiet ==
  /\ ~Crash /\ \A b \in Blocks : ~Bread(b)
  /\ \A p \in Procs : ~Kill(p) /\ ~(pc[p] = "out" /\ BeginOp(p))
Drains ==
  <>[][Quiet]_vars => <>[](/\ \A p \in Procs : pc[p] = "out"
                    /\ phase = "idle" /\ Recovered = View)

\* At every moment, also in the middle of a commit or of recovery: sleepers have
\* a waker (begin_op(), end_op()), a crash would lose nothing that is committed
\* (commit(), recover_from_log()), and the pins are those of the transaction
\* (log_write(), install_trans()).
Consistent ==
  TypeOK /\ NoLostWakeup /\ RecoveredIntact /\ QuiescentDurable /\ PinsMatchLog
=============================================================================
