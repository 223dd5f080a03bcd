------------------------------- MODULE Sched --------------------------------
(***************************************************************************)
(* Dispatching: scheduler(), sched(), yield(), sleep(), wakeup() and kill()  *)
(* of kernel/proc.c on several harts, with the spinlocks they take, driven   *)
(* by processes that use one sleeplock (kernel/sleeplock.c) and sleep until  *)
(* a device interrupt wakes them.                                            *)
(*                                                                           *)
(* A spinlock belongs to a hart (lk->cpu).  p->lock is handed over by        *)
(* swtch(): the process takes it, the scheduler of its hart lets it go, and  *)
(* the other way round when it is dispatched.  A step runs from one point    *)
(* where other harts can see a difference to the next; waiting for a lock is *)
(* a guard.  Interrupts are off while a hart holds a spinlock, so a process  *)
(* is preempted only where it holds none.                                    *)
(***************************************************************************)
EXTENDS Integers

CONSTANTS
  Harts,
  NPROC,       \* the processes are the slots 1 .. NPROC
  Policies,    \* SCHED_ flags of trap.c the kernel may be built with
  Priorities,  \* arguments of set_priority()
  None

ASSUME SchedAssumption ==
  /\ NPROC \in Nat \ {0}
  /\ Policies \subseteq {"ROUND_ROBIN", "FCFS", "PRIORITY"}
  /\ Priorities \subseteq 0 .. 20
  /\ None \notin Harts /\ None \notin Int

Procs == 1 .. NPROC

VARIABLES
  state, priority,   \* fields of proc[]
  chan,              \* p->chan: the sleeplock "lk", a device "io", or None
  plock,             \* the hart holding p->lock
  sched_lock,        \* the hart holding it
  lk,                \* the hart holding the sleeplock's spinlock
  locked,            \* lk->locked
  order,             \* order[p]: the processes whose wait_time is before p's
  hpc,               \* where the hart is: in its scheduler, or in a process
  idx, best,         \* the scheduler's p and earliest_p, highest_p or target_p
  proc,              \* c->proc
  pc,                \* where each process is
  back,              \* where yield() returns to
  widx,              \* wakeup()'s p
  policy,            \* the one flag that is set
  ready,             \* history: ready[p] holds p from its wakeup to its dispatch,
                     \* with the processes that were waiting before it
  seen               \* history: runnable since the scan began, priority unchanged

vars == <<state, priority, chan, plock, sched_lock, lk, locked, order, hpc, idx,
          best, proc, pc, back, widx, policy, ready, seen>>
aux == <<policy, seen>>

\* p->wait_time = r_time()
StampNot(p) == order  \* mutant: the old time is kept
Stamp(p) ==
  IF policy = "FCFS"
  THEN [q \in Procs |-> IF q = p THEN Procs \ {p} ELSE order[q] \ {p}]
  ELSE order
Earlier(p, q) == p \in order[q]

\* The history of who was woken when, kept for FCFS.
Arrive(p) ==
  IF policy = "FCFS"
  THEN [ready EXCEPT ![p] = {q \in Procs : q \in ready[q]} \cup {p}]
  ELSE ready
Leave(p) == [q \in Procs |-> IF q = p THEN {} ELSE ready[q] \ {p}]

\* The scan prefers p to the candidate b it holds.
BetterReversed(p, b) ==  \* mutant: a higher number is taken for a higher priority
  b = None \/ priority[p] > priority[b]
Better(p, b) ==
  \/ b = None
  \/ policy = "FCFS" /\ Earlier(p, b)
  \/ policy = "PRIORITY" /\ priority[p] < priority[b]

\* Hart h holds p->lock and nothing else: holding(&p->lock) and noff is 1.
HoldsOnly(h, p) ==
  {q \in Procs : plock[q] = h} = {p} /\ sched_lock # h /\ lk # h

\* acquire(&p->lock)
AcquireNot(h, p) == UNCHANGED plock                    \* mutant: forgotten
AcquireByProc(h, p) == plock' = [plock EXCEPT ![p] = p]  \* mutant: a process as owner
Acquire(h, p) == plock[p] = None /\ plock' = [plock EXCEPT ![p] = h]

\* Hart h executes process p, which is at l.
On(h, p, l) == hpc[h] = "run" /\ proc[h] = p /\ pc[p] = l

Init ==
  /\ state = [p \in Procs |-> "RUNNABLE"]
  /\ priority = [p \in Procs |-> 10]
  /\ chan = [p \in Procs |-> None]
  /\ plock = [p \in Procs |-> None]
  /\ sched_lock = None
  /\ lk = None
  /\ locked = FALSE
  /\ order = [p \in Procs |-> 1 .. p - 1]
  /\ hpc = [h \in Harts |-> "top"]
  /\ idx = [h \in Harts |-> 1]
  /\ best = [h \in Harts |-> None]
  /\ proc = [h \in Harts |-> None]
  /\ pc = [p \in Procs |-> "yielded"]
  /\ back = [p \in Procs |-> "user"]
  /\ widx = [p \in Procs |-> 1]
  /\ policy \in Policies
  /\ ready = [p \in Procs |-> IF policy = "FCFS" THEN 1 .. p ELSE {}]
  /\ seen = {}

-----------------------------------------------------------------------------
(* scheduler() *)

\* intr_on(); acquire(&sched_lock)
SchedTop(h) ==
  /\ hpc[h] = "top" /\ sched_lock = None
  /\ sched_lock' = h
  /\ idx' = [idx EXCEPT ![h] = 1]
  /\ best' = [best EXCEPT ![h] = None]
  /\ hpc' = [hpc EXCEPT ![h] = "scan"]
  /\ seen' = IF policy = "ROUND_ROBIN" THEN {}
             ELSE {p \in Procs : state[p] = "RUNNABLE"}
  /\ UNCHANGED <<state, priority, chan, plock, lk, locked, order, ready, proc, pc,
                 back, widx, policy>>

\* One iteration of the scan: the lock of the best process so far stays held.
ScanStep(h) ==
  LET p == idx[h]
  IN  /\ hpc[h] = "scan" /\ p <= NPROC
      /\ plock[p] = None
      /\ IF state[p] = "RUNNABLE" /\ Better(p, best[h])
         THEN /\ plock' = [q \in Procs |-> IF q = p THEN h
                                           ELSE IF q = best[h] THEN None ELSE plock[q]]
              /\ best' = [best EXCEPT ![h] = p]
              /\ hpc' = [hpc EXCEPT ![h] = IF policy = "ROUND_ROBIN" THEN "chosen"
                                           ELSE "scan"]
         ELSE UNCHANGED <<plock, best, hpc>>
      /\ idx' = [idx EXCEPT ![h] = p + 1]
      /\ UNCHANGED <<state, priority, chan, sched_lock, lk, locked, order, ready,
                     proc, pc, back, widx, aux>>

ScanEnd(h) ==
  /\ hpc[h] = "scan" /\ idx[h] > NPROC
  /\ hpc' = [hpc EXCEPT ![h] = "chosen"]
  /\ UNCHANGED <<state, priority, chan, plock, sched_lock, lk, locked, order, ready,
                 idx, best, proc, pc, back, widx, aux>>

\* A process was found: release sched_lock, mark it RUNNING, swtch() to it.
Dispatch(h) ==
  LET p == best[h]
  IN  /\ hpc[h] = "chosen" /\ p # None
      /\ sched_lock' = None
      /\ state' = [state EXCEPT ![p] = "RUNNING"]
      /\ order' = Stamp(p)
      /\ ready' = Leave(p)
      /\ proc' = [proc EXCEPT ![h] = p]
      /\ hpc' = [hpc EXCEPT ![h] = "run"]
      /\ seen' = {}
      /\ UNCHANGED <<priority, chan, plock, lk, locked, idx, best, pc, back, widx,
                     policy>>

\* None was found: release sched_lock and wait for an interrupt.
Wfi(h) ==
  /\ hpc[h] = "chosen" /\ best[h] = None
  /\ sched_lock' = None
  /\ hpc' = [hpc EXCEPT ![h] = "top"]
  /\ seen' = {}
  /\ UNCHANGED <<state, priority, chan, plock, lk, locked, order, ready, idx, best,
                 proc, pc, back, widx, policy>>

\* swtch() has come back: c->proc = 0, release(&target_p->lock).
Back(h) ==
  /\ hpc[h] = "back"
  /\ plock' = [plock EXCEPT ![best[h]] = None]
  /\ proc' = [proc EXCEPT ![h] = None]
  /\ best' = [best EXCEPT ![h] = None]
  /\ hpc' = [hpc EXCEPT ![h] = "top"]
  /\ UNCHANGED <<state, priority, chan, sched_lock, lk, locked, order, ready, idx,
                 pc, back, widx, aux>>

-----------------------------------------------------------------------------
(* sched(), yield(), sleep(): the process's side of the hand-over. *)

\* sched(): save the context and continue in the scheduler of this hart.
SwtchOut(h, p) ==
  /\ hpc[h] = "run" /\ proc[h] = p /\ pc[p] \in {"yield_sched", "sleep_sched"}
  /\ hpc' = [hpc EXCEPT ![h] = "back"]
  /\ pc' = [pc EXCEPT ![p] = IF @ = "yield_sched" THEN "yielded" ELSE "slept"]
  /\ UNCHANGED <<state, priority, chan, plock, sched_lock, lk, locked, order, ready,
                 idx, best, proc, back, widx, aux>>

\* A timer interrupt where p holds no lock: yield() up to its call of sched().
\* usertrap() and kerneltrap() do not yield under FCFS.
Yield(h, p) ==
  /\ policy # "FCFS"
  /\ hpc[h] = "run" /\ proc[h] = p /\ pc[p] \in {"user", "acquire", "crit"}
  /\ Acquire(h, p)
  /\ state' = [state EXCEPT ![p] = "RUNNABLE"]
  /\ order' = Stamp(p)
  /\ ready' = Arrive(p)
  /\ back' = [back EXCEPT ![p] = pc[p]]
  /\ pc' = [pc EXCEPT ![p] = "yield_sched"]
  /\ UNCHANGED <<priority, chan, sched_lock, lk, locked, hpc, idx, best, proc, widx,
                 aux>>

\* Dispatched again, or for the first time (forkret()): release(&p->lock).
Resume(h, p) ==
  /\ On(h, p, "yielded")
  /\ plock' = [plock EXCEPT ![p] = None]
  /\ pc' = [pc EXCEPT ![p] = back[p]]
  /\ back' = [back EXCEPT ![p] = "user"]
  /\ UNCHANGED <<state, priority, chan, sched_lock, lk, locked, order, ready, hpc,
                 idx, best, proc, widx, aux>>

-----------------------------------------------------------------------------
(* acquiresleep() and releasesleep() *)

AcquireSleep(h, p) ==
  /\ On(h, p, "user")
  /\ pc' = [pc EXCEPT ![p] = "acquire"]
  /\ UNCHANGED <<state, priority, chan, plock, sched_lock, lk, locked, order, ready,
                 hpc, idx, best, proc, back, widx, aux>>

\* while (lk->locked)
TakenNever == FALSE  \* mutant: not looked at
Taken == locked

\* sleep() is called with lk->lk held, and releases it once it has p->lock.
LkReleasedEarly(h) == None  \* mutant: released before p->lock is taken
LkInSleep(h) == h
LkKept == lk  \* mutant: never released
LkAsleep == None

\* With lk->lk held: take the lock, or go to sleep with lk->lk still held.
TryLock(h, p) ==
  /\ On(h, p, "acquire") /\ lk = None
  /\ IF Taken THEN /\ lk' = LkInSleep(h)
                   /\ pc' = [pc EXCEPT ![p] = "sleep"]
                   /\ UNCHANGED locked
              ELSE /\ locked' = TRUE
                   /\ pc' = [pc EXCEPT ![p] = "crit"]
                   /\ UNCHANGED lk
  /\ UNCHANGED <<state, priority, chan, plock, sched_lock, order, ready, hpc, idx,
                 best, proc, back, widx, aux>>

\* sleep(): take p->lock while still holding lk ...
SleepLock(h, p) ==
  /\ On(h, p, "sleep")
  /\ Acquire(h, p)
  /\ pc' = [pc EXCEPT ![p] = "sleep_go"]
  /\ UNCHANGED <<state, priority, chan, sched_lock, lk, locked, order, ready, hpc,
                 idx, best, proc, back, widx, aux>>

\* ... release lk, mark p SLEEPING ...
SleepGo(h, p) ==
  /\ On(h, p, "sleep_go")
  /\ lk' = LkAsleep
  /\ chan' = [chan EXCEPT ![p] = "lk"]
  /\ state' = [state EXCEPT ![p] = "SLEEPING"]
  /\ pc' = [pc EXCEPT ![p] = "sleep_sched"]
  /\ UNCHANGED <<priority, plock, sched_lock, locked, order, ready, hpc, idx, best,
                 proc, back, widx, aux>>

\* ... and after sched(): p->chan = 0, release p->lock; lk is taken again next.
Awake(h, p) ==
  /\ On(h, p, "slept")
  /\ chan' = [chan EXCEPT ![p] = None]
  /\ plock' = [plock EXCEPT ![p] = None]
  /\ pc' = [pc EXCEPT ![p] = IF chan[p] = "lk" THEN "acquire" ELSE "user"]
  /\ UNCHANGED <<state, priority, sched_lock, lk, locked, order, ready, hpc, idx,
                 best, proc, back, widx, aux>>

\* releasesleep(): with lk->lk held, clear locked and begin wakeup(lk).
ReleaseSleep(h, p) ==
  /\ On(h, p, "crit") /\ lk = None
  /\ lk' = h
  /\ locked' = FALSE
  /\ widx' = [widx EXCEPT ![p] = 1]
  /\ pc' = [pc EXCEPT ![p] = "wakeup"]
  /\ UNCHANGED <<state, priority, chan, plock, sched_lock, order, ready, hpc, idx,
                 best, proc, back, aux>>

\* One iteration of wakeup().
WakeupStep(h, p) ==
  LET q == widx[p]
  IN  /\ On(h, p, "wakeup") /\ q <= NPROC
      /\ q # p => plock[q] = None
      /\ IF q # p /\ state[q] = "SLEEPING" /\ chan[q] = "lk"
         THEN /\ state' = [state EXCEPT ![q] = "RUNNABLE"]
              /\ order' = Stamp(q)
              /\ ready' = Arrive(q)
         ELSE UNCHANGED <<state, order, ready>>
      /\ widx' = [widx EXCEPT ![p] = q + 1]
      /\ UNCHANGED <<priority, chan, plock, sched_lock, lk, locked, hpc, idx, best,
                     proc, pc, back, aux>>

WakeupEnd(h, p) ==
  /\ On(h, p, "wakeup") /\ widx[p] > NPROC
  /\ lk' = None
  /\ widx' = [widx EXCEPT ![p] = 1]
  /\ pc' = [pc EXCEPT ![p] = "user"]
  /\ UNCHANGED <<state, priority, chan, plock, sched_lock, locked, order, ready, hpc,
                 idx, best, proc, back, aux>>

-----------------------------------------------------------------------------
(* Sleeping for a device: sleep(), and wakeup() in the interrupt handler. *)

Unlocked == {"user", "acquire", "crit"}

\* A read of the console, a pipe, the clock: sleep() up to its call of sched().
IoSleep(h, p) ==
  /\ On(h, p, "user")
  /\ Acquire(h, p)
  /\ chan' = [chan EXCEPT ![p] = "io"]
  /\ state' = [state EXCEPT ![p] = "SLEEPING"]
  /\ pc' = [pc EXCEPT ![p] = "sleep_sched"]
  /\ UNCHANGED <<priority, sched_lock, lk, locked, order, ready, hpc, idx, best,
                 proc, back, widx, aux>>

\* An interrupt on hart h, idle or in a process that holds no lock, whose
\* handler's wakeup() finds q asleep.
IoWakeup(h, q) ==
  /\ \/ hpc[h] = "top"
     \/ hpc[h] = "run" /\ pc[proc[h]] \in Unlocked
  /\ plock[q] = None /\ state[q] = "SLEEPING" /\ chan[q] = "io"
  /\ state' = [state EXCEPT ![q] = "RUNNABLE"]
  /\ order' = Stamp(q)
  /\ ready' = Arrive(q)
  /\ UNCHANGED <<priority, chan, plock, sched_lock, lk, locked, hpc, idx, best,
                 proc, pc, back, widx, aux>>

-----------------------------------------------------------------------------
(* kill() and set_priority() on process q *)

\* kill(): a sleeper is made runnable; its wait_time stays what it was.  On a
\* process that does not sleep kill() changes nothing here.
Kill(h, p, q) ==
  /\ On(h, p, "user") /\ plock[q] = None
  /\ state[q] = "SLEEPING"
  /\ state' = [state EXCEPT ![q] = "RUNNABLE"]
  /\ UNCHANGED <<priority, chan, plock, sched_lock, lk, locked, order, ready, hpc,
                 idx, best, proc, pc, back, widx, aux>>

\* sys_set_priority(); the other two policies never read p->priority.
SetPriority(h, p, q) ==
  /\ policy = "PRIORITY"
  /\ On(h, p, "user") /\ plock[q] = None
  /\ \E v \in Priorities : priority' = [priority EXCEPT ![q] = v]
  /\ seen' = seen \ {q}
  /\ UNCHANGED <<state, chan, plock, sched_lock, lk, locked, order, ready, hpc, idx,
                 best, proc, pc, back, widx, policy>>

-----------------------------------------------------------------------------
Scheduler(h) ==
  SchedTop(h) \/ ScanStep(h) \/ ScanEnd(h) \/ Dispatch(h) \/ Wfi(h) \/ Back(h)

Process(h, p) ==
  \/ SwtchOut(h, p) \/ Yield(h, p) \/ Resume(h, p)
  \/ AcquireSleep(h, p) \/ TryLock(h, p) \/ SleepLock(h, p) \/ SleepGo(h, p)
  \/ Awake(h, p) \/ ReleaseSleep(h, p) \/ WakeupStep(h, p) \/ WakeupEnd(h, p)
  \/ IoSleep(h, p)
  \/ \E q \in Procs : Kill(h, p, q) \/ SetPriority(h, p, q)

Next ==
  \E h \in Harts : Scheduler(h) \/ \E p \in Procs : Process(h, p) \/ IoWakeup(h, p)

Spec == Init /\ [][Next]_vars

\* A hart keeps executing, and the timer interrupts it again and again.
Fairness ==
  \A h \in Harts :
    /\ WF_vars(Scheduler(h))
    /\ \A p \in Procs : WF_vars(Process(h, p)) /\ SF_vars(Yield(h, p))

FairSpec == Spec /\ Fairness

-----------------------------------------------------------------------------
(* Properties. *)

Runs(h, p) == hpc[h] = "run" /\ proc[h] = p

\* Every variable keeps its type.
TypeOK ==
  /\ state \in [Procs -> {"RUNNABLE", "RUNNING", "SLEEPING"}]
  /\ priority \in [Procs -> 0 .. 20]
  /\ chan \in [Procs -> {None, "lk", "io"}]
  /\ plock \in [Procs -> Harts \cup {None}]
  /\ sched_lock \in Harts \cup {None}
  /\ lk \in Harts \cup {None}
  /\ locked \in BOOLEAN
  /\ hpc \in [Harts -> {"top", "scan", "chosen", "run", "back"}]
  /\ idx \in [Harts -> 1 .. NPROC + 1]
  /\ best \in [Harts -> Procs \cup {None}]
  /\ proc \in [Harts -> Procs \cup {None}]
  /\ pc \in [Procs -> {"user", "acquire", "crit", "sleep", "sleep_go", "sleep_sched",
                       "slept", "wakeup", "yield_sched", "yielded"}]
  /\ back \in [Procs -> {"user", "acquire", "crit"}]
  /\ widx \in [Procs -> 1 .. NPROC + 1]
  /\ policy \in Policies
  /\ order \in [Procs -> SUBSET Procs] /\ ready \in [Procs -> SUBSET Procs]
  /\ seen \subseteq Procs

\* Two harts never execute on one kernel stack, and a hart that has chosen a
\* process finds its context saved: yield() and sleep() mark it runnable or
\* sleeping while it still runs, and only p->lock, held across swtch(), keeps
\* other harts off.
OneStack ==
  /\ \A g, h \in Harts, p \in Procs : Runs(g, p) /\ Runs(h, p) => g = h
  /\ \A h \in Harts : best[h] # None /\ hpc[h] \in {"scan", "chosen"} =>
       /\ pc[best[h]] \in {"yielded", "slept"}
       /\ \A g \in Harts : ~Runs(g, best[h])

\* Whenever p->lock is free, p->state says RUNNING just if some hart executes p.
StateTrue ==
  \A p \in Procs : plock[p] = None =>
    (state[p] = "RUNNING" <=> \E h \in Harts : Runs(h, p))

\* sched() finds what it insists on: p->lock and no other lock held, and a
\* state other than RUNNING.
SchedLocks ==
  \A h \in Harts, p \in Procs :
    Runs(h, p) /\ pc[p] \in {"yield_sched", "sleep_sched"} =>
      HoldsOnly(h, p) /\ state[p] # "RUNNING"

\* No wakeup is lost between acquiresleep()'s look at locked and its sleep: a
\* sleeper's lock is taken, or its holder is still inside releasesleep().
NoLostWakeup ==
  \A p \in Procs : state[p] = "SLEEPING" /\ chan[p] = "lk" /\ lk = None => locked

\* The sleeplock excludes: at most one process is between acquiresleep() and
\* releasesleep(), preempted or not, and locked says whether there is one.
InCrit(p) == pc[p] = "crit" \/ back[p] = "crit"
Exclusion ==
  /\ \A p, q \in Procs : InCrit(p) /\ InCrit(q) => p = q
  /\ locked <=> \E p \in Procs : InCrit(p)

\* "Find process with earliest wait_time (first-come)": of the processes that
\* were runnable when the scan began, FCFS dispatches the one that was woken
\* first, on any number of harts.  (One that kill() made runnable keeps an old
\* wait_time and may overtake them: it is not in ready.)
Before(p, q) == p # q /\ p \in ready[q]
FirstCome ==
  [][\A p, q \in Procs :
       /\ policy = "FCFS" /\ state[p] = "RUNNABLE" /\ state'[p] = "RUNNING"
       /\ q \in seen
       => ~Before(q, p)]_vars

\* "Find process with highest priority (lowest number)": no process that was
\* runnable when the scan began, and whose priority has not been changed since,
\* has a better priority than the one dispatched.
PriorityFirst ==
  [][\A p, q \in Procs :
       /\ policy = "PRIORITY" /\ state[p] = "RUNNABLE" /\ state'[p] = "RUNNING"
       /\ q \in seen
       => priority[p] <= priority[q]]_vars

\* "Give up the CPU for one scheduling round": under round robin a runnable
\* process gets its turn.
GetsTurn ==
  \A p \in Procs : state[p] = "RUNNABLE" ~> state[p] = "RUNNING"

\* Switching (scheduler(), sched(), yield(), sleep()): one hart to a stack, and
\* p->state says where the process is whenever p->lock is free.
Switching == TypeOK /\ OneStack /\ StateTrue

\* Locks across a switch: sched() finds exactly p->lock held, and a sleeplock
\* (acquiresleep(), releasesleep()) excludes although its holder is preempted.
Locking == SchedLocks /\ Exclusion

\* Both ordering policies of scheduler() choose rightly among the processes that
\* were runnable when the scan began.
RightChoice == FirstCome /\ PriorityFirst
=============================================================================
