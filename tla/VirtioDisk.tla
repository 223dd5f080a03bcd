----------------------------- MODULE VirtioDisk -----------------------------
(***************************************************************************)
(* The driver of kernel/virtio_disk.c with the device as an actor of its     *)
(* own, over kernel/spinlock.c: processes in virtio_disk_rw(), the interrupt *)
(* handler on any hart whose interrupts are on, the timer that takes the     *)
(* hart away, and the scheduler's half of sleep() and yield(), which hands   *)
(* intena from hart to hart.                                                 *)
(*                                                                           *)
(* Every process has a buffer and a block of its own: the buffer cache never *)
(* has two buffers for one block, and a buffer is locked while it is         *)
(* transferred.  A ring slot that was read is set to None, so that reading   *)
(* it again, or overwriting one that was not read, does not go unnoticed.    *)
(* A process is given a hart when it calls and leaves it when it returns:    *)
(* user code and its scheduling are the subject of Sched.                    *)
(***************************************************************************)
EXTENDS Spinlock, FiniteSets

CONSTANTS
  Procs,
  NUM,    \* descriptors, and slots of a ring
  WRAP    \* the ring indices are taken modulo this: 2^16 in the code

ASSUME DiskAssumption ==
  /\ NUM \in Nat /\ NUM >= 3 /\ WRAP \in Nat \ {0} /\ WRAP % NUM = 0
  /\ None \notin Harts \cup Procs \cup {"free"} \cup Int /\ "free" \notin Procs

VARIABLES
  free, next,            \* disk.free[], desc[].next where VNUM_DESC_F_NEXT is set
  addr, info, status,    \* the buffer of desc[]; info[].b, info[].status
  avail, availIdx,       \* disk.avail
  used, usedIdx,         \* disk.used
  used_idx,              \* how far the driver has looked in used
  isr, claimed,          \* the device's interrupt status; the PLIC's claim
  seen, inflight,        \* the device: how far it has looked in avail; its work
  busy,                  \* b->disk
  moved,                 \* history: transfers of b->data since the call
  pc, idx,               \* each process: its place, and idx[]
  chan,                  \* what it sleeps on
  cur,                   \* the process each hart runs
  hpc,                   \* the place of the interrupt handler on the hart
  trapped, saved,        \* the process is inside a timer trap; intena saved by sched()
  panicked

ringVars == <<avail, availIdx, used, usedIdx, used_idx>>
devVars == <<isr, claimed, seen, inflight>>
reqVars == <<free, next, addr, info, status, idx>>
vars == <<lockVars, ringVars, devVars, reqVars, busy, moved, pc, chan, cur, hpc,
          trapped, saved, panicked>>

Desc == 0 .. NUM - 1
IncWide(i) == i + 1  \* mutant: an index wider than 16 bits
Inc(i) == (i + 1) % WRAP
Fn(S, v) == [x \in S |-> v]

Init ==
  /\ LockInit
  /\ free = Fn(Desc, TRUE) /\ next = Fn(Desc, None)
  /\ addr = Fn(Desc, None) /\ info = Fn(Desc, None) /\ status = Fn(Desc, 0)
  /\ avail = Fn(Desc, None) /\ availIdx = 0
  /\ used = Fn(Desc, None) /\ usedIdx = 0 /\ used_idx = 0
  /\ isr = FALSE /\ claimed = FALSE /\ seen = 0 /\ inflight = {}
  /\ busy = Fn(Procs, FALSE) /\ moved = Fn(Procs, 0)
  /\ pc = Fn(Procs, "idle") /\ idx = Fn(Procs, <<>>)
  /\ chan = Fn(Procs, None) /\ cur = Fn(Harts, None) /\ hpc = Fn(Harts, "none")
  /\ trapped = Fn(Procs, FALSE) /\ saved = Fn(Procs, TRUE)
  /\ panicked = FALSE

\* Hart h executes process p, not a handler.
On(h, p) == cur[h] = p /\ hpc[h] = "none" /\ ~trapped[p] /\ ~panicked
Goto(p, l) == pc' = [pc EXCEPT ![p] = l]

\* wakeup(c)
Wakeup(f, c) == [p \in Procs |-> IF f[p] = c THEN None ELSE f[p]]

-----------------------------------------------------------------------------
(* Descriptors. *)

\* What alloc3_desc() takes: the first free ones, at most three.
FirstFree(n) == {i \in Desc : free[i] /\ Cardinality({j \in 0 .. i - 1 : free[j]}) < n}
Got == FirstFree(3)
Pos(S, k) == CHOOSE i \in S : Cardinality({j \in S : j < i}) = k

\* The chain free_chain() follows.
ChainShort(i) == {i, next[i]} \ {None}  \* mutant: stops before the status
Chain(i) == LET n1 == next[i] n2 == IF n1 = None THEN None ELSE next[n1]
            IN  {i, n1, n2} \ {None}

\* free_desc() for all of S: its panics, and its wakeup(&disk.free[0]).
FreeAgain(S) == \E i \in S : free[i]
WakesFreeNot(f) == f  \* mutant: no wakeup
WakesFree(f) == Wakeup(f, "free")

-----------------------------------------------------------------------------
(* virtio_disk_rw(b, write) *)

rwRest == <<devVars, used, usedIdx, used_idx, hpc, trapped>>

\* The call, up to the spin in acquire(&disk.vdisk_lock).
RwCall(h, p) ==
  /\ cur[h] = None /\ hpc[h] = "none" /\ sie[h] /\ ~panicked /\ pc[p] = "idle"
  /\ cur' = [cur EXCEPT ![h] = p]
  /\ push_off(h) /\ panicked' = AcquirePanics(h) /\ Goto(p, "spin")
  /\ UNCHANGED <<holder, avail, availIdx, reqVars, busy, moved, chan, saved, rwRest>>

\* sleep(c, &disk.vdisk_lock): the lock is released and the hart goes back to
\* its scheduler, which releases p->lock: interrupts are on if intena says so.
Sleep(h, p, c, f) ==
  /\ release(h)
  /\ saved' = [saved EXCEPT ![p] = intena[h]]
  /\ chan' = [f EXCEPT ![p] = c] /\ cur' = [cur EXCEPT ![h] = None]

\* The lock is ours, and three descriptors are free: they are formatted.
RwAlloc(h, p) ==
  LET d0 == Pos(Got, 0) d1 == Pos(Got, 1) d2 == Pos(Got, 2)
  IN  /\ On(h, p) /\ pc[p] = "spin" /\ Swap(h) /\ Cardinality(Got) = 3
      /\ free' = [i \in Desc |-> free[i] /\ i \notin Got]
      /\ next' = [next EXCEPT ![d0] = d1, ![d1] = d2, ![d2] = None]
      /\ addr' = [addr EXCEPT ![d1] = p]
      /\ status' = [status EXCEPT ![d0] = 255]
      /\ info' = [info EXCEPT ![d0] = p]
      /\ busy' = [busy EXCEPT ![p] = TRUE]
      /\ idx' = [idx EXCEPT ![p] = <<d0, d1, d2>>]
      /\ Goto(p, "post")
      /\ UNCHANGED <<noff, intena, sie, avail, availIdx, moved, chan, cur, saved,
                     panicked, rwRest>>

\* Fewer are free: alloc3_desc() gives back what it took, with a wakeup for
\* each, and the process sleeps, all under the lock.
RwShort(h, p) ==
  /\ On(h, p) /\ pc[p] = "spin" /\ holder = None /\ Cardinality(Got) < 3
  /\ Sleep(h, p, "free", IF Got = {} THEN chan ELSE WakesFree(chan))
  /\ Goto(p, "again")
  /\ UNCHANGED <<avail, availIdx, reqVars, busy, moved, panicked, rwRest>>

\* disk.avail->ring[...] = idx[0] ...
RwRing(h, p) ==
  /\ On(h, p) /\ pc[p] = "post"
  /\ avail' = [avail EXCEPT ![availIdx % NUM] = idx[p][1]]
  /\ Goto(p, "notify")
  /\ UNCHANGED <<lockVars, availIdx, reqVars, busy, moved, chan, cur, saved, panicked,
                 rwRest>>

\* ... and, after the barrier, disk.avail->idx += 1 and the notification.  The
\* handler needs the lock, so b->disk is still 1: sleep(b, &disk.vdisk_lock).
RwNotify(h, p) ==
  /\ On(h, p) /\ pc[p] = "notify"
  /\ availIdx' = Inc(availIdx)
  /\ panicked' = ReleasePanics(h)
  /\ Sleep(h, p, p, chan) /\ Goto(p, "resumed")
  /\ UNCHANGED <<avail, reqVars, busy, moved, rwRest>>

\* Back from sleep(): acquire(lk), first its push_off().
RwRelock(h, p) ==
  /\ On(h, p) /\ pc[p] \in {"again", "resumed"}
  /\ push_off(h) /\ panicked' = AcquirePanics(h)
  /\ Goto(p, IF pc[p] = "again" THEN "spin" ELSE "respin")
  /\ UNCHANGED <<holder, avail, availIdx, reqVars, busy, moved, chan, cur, saved, rwRest>>

\* while(b->disk == 1) sleep(b, &disk.vdisk_lock)
StillBusyOnce(p) == FALSE  \* mutant: if instead of while
StillBusy(p) == busy[p]
RwWait(h, p) ==
  /\ On(h, p) /\ pc[p] = "respin" /\ holder = None /\ StillBusy(p)
  /\ Sleep(h, p, p, chan) /\ Goto(p, "resumed")
  /\ UNCHANGED <<avail, availIdx, reqVars, busy, moved, panicked, rwRest>>

RwDone(h, p) ==
  LET S == Chain(idx[p][1])
  IN  /\ On(h, p) /\ pc[p] = "respin" /\ holder = None /\ ~StillBusy(p)
      /\ info' = [info EXCEPT ![idx[p][1]] = None]
      /\ free' = [i \in Desc |-> free[i] \/ i \in S]
      /\ next' = [i \in Desc |-> IF i \in S THEN None ELSE next[i]]
      /\ addr' = [i \in Desc |-> IF i \in S THEN None ELSE addr[i]]
      /\ chan' = WakesFree(chan)
      /\ panicked' = FreeAgain(S)
      /\ idx' = [idx EXCEPT ![p] = <<>>]
      /\ moved' = [moved EXCEPT ![p] = 0]
      /\ release(h) /\ Goto(p, "idle") /\ cur' = [cur EXCEPT ![h] = None]
      /\ UNCHANGED <<avail, availIdx, status, busy, saved, rwRest>>

-----------------------------------------------------------------------------
(* virtio_disk_intr(), from devintr() in kerneltrap() or usertrap(). *)

handlerVars == <<free, next, addr, info, idx, moved, pc, cur, trapped, saved>>

\* plic_claim(): one hart gets the interrupt.  The trap turns interrupts off.
IntrEnter(h) ==
  /\ isr /\ ~claimed /\ sie[h] /\ hpc[h] = "none" /\ ~panicked
  /\ claimed' = TRUE
  /\ sie' = [sie EXCEPT ![h] = FALSE]
  /\ intena' = [intena EXCEPT ![h] = IF noff[h] = 0 THEN FALSE ELSE @]
  /\ noff' = [noff EXCEPT ![h] = @ + 1]
  /\ panicked' = AcquirePanics(h)
  /\ hpc' = [hpc EXCEPT ![h] = "spin"]
  /\ UNCHANGED <<holder, ringVars, isr, seen, inflight, status, busy, chan, handlerVars>>

\* The lock, and the acknowledgement before the ring is looked at.
IntrAck(h) ==
  /\ hpc[h] = "spin" /\ Swap(h) /\ ~panicked
  /\ isr' = FALSE
  /\ hpc' = [hpc EXCEPT ![h] = "loop"]
  /\ UNCHANGED <<noff, intena, sie, ringVars, claimed, seen, inflight, status, busy,
                 chan, panicked, handlerVars>>

\* while(disk.used_idx != disk.used->idx)
MoreWorkLess == used_idx < usedIdx  \* mutant: forgets that the indices wrap
MoreWork == used_idx # usedIdx
IntrOne(h) ==
  LET id == used[used_idx % NUM]
  IN  /\ hpc[h] = "loop" /\ MoreWork /\ ~panicked
      /\ panicked' = (status[id] # 0)
      /\ busy' = [busy EXCEPT ![info[id]] = FALSE]
      /\ chan' = Wakeup(chan, info[id])
      /\ used' = [used EXCEPT ![used_idx % NUM] = None]
      /\ used_idx' = Inc(used_idx)
      /\ UNCHANGED <<lockVars, avail, availIdx, usedIdx, devVars, status, hpc, handlerVars>>

\* Release, plic_complete() and the return that turns interrupts on again.
IntrExit(h) ==
  /\ hpc[h] = "loop" /\ ~MoreWork /\ ~panicked
  /\ panicked' = ReleasePanics(h)
  /\ holder' = None
  /\ noff' = [noff EXCEPT ![h] = @ - 1]
  /\ sie' = [sie EXCEPT ![h] = TRUE]
  /\ claimed' = FALSE
  /\ hpc' = [hpc EXCEPT ![h] = "none"]
  /\ UNCHANGED <<intena, ringVars, isr, seen, inflight, status, busy, chan, handlerVars>>

-----------------------------------------------------------------------------
(* The device. *)

\* It takes the next request from the avail ring,
DevTake ==
  /\ seen # availIdx /\ ~panicked
  /\ inflight' = inflight \cup {avail[seen % NUM]}
  /\ avail' = [avail EXCEPT ![seen % NUM] = None]
  /\ seen' = Inc(seen)
  /\ UNCHANGED <<lockVars, availIdx, used, usedIdx, used_idx, isr, claimed, reqVars,
                 busy, moved, pc, chan, cur, hpc, trapped, saved, panicked>>

\* and finishes its work in any order: the data, in either direction, the
\* status, the used ring, the interrupt.
DevDone(d) ==
  /\ d \in inflight /\ ~panicked
  /\ moved' = [moved EXCEPT ![addr[next[d]]] = @ + 1]
  /\ status' = [status EXCEPT ![d] = 0]
  /\ used' = [used EXCEPT ![usedIdx % NUM] = d]
  /\ usedIdx' = Inc(usedIdx)
  /\ isr' = TRUE
  /\ inflight' = inflight \ {d}
  /\ UNCHANGED <<lockVars, avail, availIdx, used_idx, claimed, seen, free, next, addr,
                 info, idx, busy, pc, chan, cur, hpc, trapped, saved, panicked>>

-----------------------------------------------------------------------------
(* The scheduler's side. *)

schedRest == <<holder, ringVars, devVars, reqVars, busy, moved, pc, hpc, panicked>>

\* A timer interrupt in the kernel: kerneltrap() yields, with interrupts off.
TimerYield(h, p) ==
  /\ On(h, p) /\ sie[h]
  /\ sie' = [sie EXCEPT ![h] = FALSE]
  /\ saved' = [saved EXCEPT ![p] = FALSE]
  /\ trapped' = [trapped EXCEPT ![p] = TRUE]
  /\ cur' = [cur EXCEPT ![h] = None]
  /\ UNCHANGED <<noff, intena, chan, schedRest>>

\* The top of scheduler()'s loop: intr_on().
SchedTop(h) ==
  /\ cur[h] = None /\ hpc[h] = "none" /\ ~sie[h] /\ ~panicked
  /\ sie' = [sie EXCEPT ![h] = TRUE]
  /\ UNCHANGED <<noff, intena, chan, cur, trapped, saved, schedRest>>

\* intena as sched() leaves it after swtch().
RestoredNot(h, p) == sie[h]  \* mutant: the value of scheduler()'s own acquire()
Restored(h, p) == saved[p]

\* scheduler() switches to p, and p releases p->lock.
Resume(h, p) ==
  /\ cur[h] = None /\ hpc[h] = "none" /\ sie[h] /\ ~panicked
  /\ pc[p] # "idle" /\ chan[p] = None /\ \A g \in Harts : cur[g] # p
  /\ cur' = [cur EXCEPT ![h] = p]
  /\ sie' = [sie EXCEPT ![h] = Restored(h, p)]
  /\ saved' = [saved EXCEPT ![p] = TRUE]
  /\ UNCHANGED <<noff, intena, chan, trapped, schedRest>>

\* kerneltrap() returns to what the timer interrupted.
TrapReturn(h, p) ==
  /\ cur[h] = p /\ hpc[h] = "none" /\ trapped[p] /\ ~panicked
  /\ trapped' = [trapped EXCEPT ![p] = FALSE]
  /\ sie' = [sie EXCEPT ![h] = TRUE]
  /\ UNCHANGED <<noff, intena, chan, cur, saved, schedRest>>

\* kill() makes a sleeper runnable before its time.
Kill(p) ==
  /\ chan[p] # None /\ ~panicked
  /\ chan' = [chan EXCEPT ![p] = None]
  /\ UNCHANGED <<noff, intena, sie, cur, trapped, saved, schedRest>>

-----------------------------------------------------------------------------
RwStep(h, p) ==
  \/ RwAlloc(h, p) \/ RwShort(h, p) \/ RwRing(h, p) \/ RwNotify(h, p)
  \/ RwRelock(h, p) \/ RwWait(h, p) \/ RwDone(h, p)

IntrStep(h) == IntrAck(h) \/ IntrOne(h) \/ IntrExit(h)

Next ==
  \/ \E h \in Harts : IntrEnter(h) \/ IntrStep(h) \/ SchedTop(h)
  \/ \E h \in Harts, p \in Procs :
       \/ RwCall(h, p) \/ RwStep(h, p)
       \/ TimerYield(h, p) \/ Resume(h, p) \/ TrapReturn(h, p)
  \/ \E p \in Procs : Kill(p)
  \/ DevTake \/ \E d \in Desc : DevDone(d)

Spec == Init /\ [][Next]_vars

-----------------------------------------------------------------------------
(* Properties. *)

\* Every variable keeps its type.
TypeOK ==
  /\ holder \in Harts \cup {None} /\ noff \in [Harts -> 0 .. 1]
  /\ intena \in [Harts -> BOOLEAN] /\ sie \in [Harts -> BOOLEAN]
  /\ free \in [Desc -> BOOLEAN] /\ next \in [Desc -> Desc \cup {None}]
  /\ addr \in [Desc -> Procs \cup {None}]
  /\ info \in [Desc -> Procs \cup {None}] /\ status \in [Desc -> {0, 255}]
  /\ avail \in [Desc -> Desc \cup {None}] /\ used \in [Desc -> Desc \cup {None}]
  /\ {availIdx, usedIdx, used_idx, seen} \subseteq 0 .. WRAP - 1
  /\ inflight \subseteq Desc
  /\ busy \in [Procs -> BOOLEAN] /\ moved \in [Procs -> Nat] /\ cur \in [Harts -> Procs \cup {None}]

\* No double free, no failed status, no lock taken twice by one hart or
\* released by another, no interrupt inside a critical section: the panics of
\* free_desc(), virtio_disk_intr(), acquire(), release() and pop_off().
NoPanic == ~panicked

\* A descriptor belongs to one request or to nobody: nothing leaks when a
\* request has to wait, and nothing the device may still use is free.
Owned(p) == {idx[p][i] : i \in DOMAIN idx[p]}
DescOwned ==
  /\ \A p, q \in Procs : p # q => Owned(p) \cap Owned(q) = {}
  /\ \A d \in Desc : free[d] <=> \A p \in Procs : d \notin Owned(p)
  /\ \A d \in inflight : \E p \in Procs : busy[p] /\ idx[p] # <<>> /\ idx[p][1] = d

\* When virtio_disk_rw() returns the device has moved the data of this very
\* buffer, once, although requests finish out of order and sleepers are woken
\* for nothing.
Transferred ==
  [][\A p \in Procs : pc'[p] = "idle" /\ pc[p] # "idle" => moved[p] = 1]_vars

\* The code of a trap runs with interrupts off until it returns, also when the
\* process was rescheduled in between, on whatever hart; and a process outside
\* traps and critical sections runs with interrupts on.
Masks ==
  \A h \in Harts, p \in Procs : cur[h] = p /\ hpc[h] = "none" =>
    sie[h] = (~trapped[p] /\ pc[p] \in {"again", "resumed"})

\* A completion the driver has not seen always has an interrupt to come, or a
\* handler that will still look at the ring.
NoLostCompletion == used_idx # usedIdx => isr \/ \E h \in Harts : hpc[h] = "loop"

\* Nobody sleeps past the event they wait for: a sleeper on its buffer has a
\* request that is queued, at work or finished but not yet seen, and a sleeper
\* on descriptors has another process left that will free some.
Queued(d) == \E i \in Desc : avail[i] = d \/ used[i] = d
NoStuckSleeper ==
  \A p \in Procs :
    /\ chan[p] = p => busy[p] /\ (Queued(idx[p][1]) \/ idx[p][1] \in inflight)
    /\ chan[p] = "free" => \E q \in Procs : Owned(q) # {}

\* The driver's descriptors (alloc3_desc(), free_chain()) have one owner each,
\* and none of the driver's or the spinlocks' panics is reachable.
DiskSafe == TypeOK /\ NoPanic /\ DescOwned

\* No completion and no sleeper of virtio_disk_rw() is forgotten by the
\* interrupt handler.
NobodyStuck == NoLostCompletion /\ NoStuckSleeper
=============================================================================
