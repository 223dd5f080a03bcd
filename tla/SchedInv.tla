------------------------------ MODULE SchedInv -------------------------------
(***************************************************************************)
(* The inductive invariant of module Sched, what its conjuncts give to each  *)
(* other, and the proof that the scheduler's own steps preserve it.  Module  *)
(* SchedProofs has the steps of the processes, and the theorems.             *)
(***************************************************************************)
EXTENDS Sched, TLAPS

\* Time for each leaf.
USE SMTT(20), ZenonT(20)

Scanning == {"scan", "chosen"}

\* Where a process that a hart executes holds its own p->lock.
Handing == {"yielded", "slept", "sleep_go", "yield_sched", "sleep_sched"}

\* p->lock belongs to hart h: as the scan's candidate, across swtch(), or in
\* the process that is about to switch out or has just been switched to.
Holds(h, p) ==
  /\ best[h] = p
  /\ hpc[h] \in {"scan", "chosen", "back"} \/ (hpc[h] = "run" /\ pc[p] \in Handing)

\* The scheduler's side: which lock a hart holds where.
HartInv ==
  /\ \A h \in Harts : hpc[h] \in Scanning <=> sched_lock = h
  /\ \A h \in Harts : hpc[h] \in {"run", "back"} => best[h] \in Procs /\ proc[h] = best[h]
  /\ \A h \in Harts, p \in Procs : plock[p] = h <=> Holds(h, p)
  /\ \A h \in Harts : best[h] # None /\ hpc[h] \in Scanning => state[best[h]] = "RUNNABLE"

\* The process's side: a process that no hart executes is inside sched(), and
\* its state is RUNNING just while it is between two calls of sched().
ProcInv ==
  /\ \A g, h \in Harts, p \in Procs : Runs(g, p) /\ Runs(h, p) => g = h
  /\ \A p \in Procs : pc[p] \notin {"yielded", "slept"} => \E h \in Harts : Runs(h, p)
  /\ \A p \in Procs :
       state[p] = "RUNNING" <=>
         /\ \E h \in Harts : Runs(h, p)
         /\ pc[p] \notin {"yield_sched", "sleep_sched"}
  /\ \A p \in Procs : state[p] = "SLEEPING" => pc[p] \in {"sleep_sched", "slept"}

\* The sleeplock's spinlock is held from the look at locked to the sleep, and
\* during wakeup().
LkInv ==
  /\ \A h \in Harts :
       lk = h <=> hpc[h] = "run" /\ pc[proc[h]] \in {"sleep", "sleep_go", "wakeup"}
  /\ \A p \in Procs : pc[p] \in {"sleep", "sleep_go"} => locked

\* Whoever has the sleeplock keeps it while preempted.
CritInv ==
  /\ \A p \in Procs : back[p] # "user" => pc[p] \in {"yield_sched", "yielded"}
  /\ Exclusion

\* wakeup() leaves no sleeper behind it.
Sleeper(q) == state[q] = "SLEEPING" /\ chan[q] = "lk"

WakeInv ==
  /\ NoLostWakeup
  /\ \A p, q \in Procs : pc[p] = "wakeup" /\ q < widx[p] => ~Sleeper(q)

\* The scan's candidate is the best of the processes it has passed.
ScanInv ==
  /\ sched_lock = None => seen = {}
  /\ \A q \in seen : state[q] = "RUNNABLE"
  /\ \A h \in Harts : hpc[h] = "chosen" /\ policy # "ROUND_ROBIN" => idx[h] = NPROC + 1
  /\ \A h \in Harts, q \in seen :
       hpc[h] \in Scanning /\ q < idx[h] =>
         /\ best[h] # None
         /\ policy = "PRIORITY" => priority[best[h]] <= priority[q]
         /\ policy = "FCFS" => best[h] = q \/ Earlier(best[h], q)

\* Under FCFS wait_time orders the processes, and those that wait are woken in
\* that order.
OrderInv ==
  policy = "FCFS" =>
    /\ \A p, q \in Procs : Earlier(p, q) => ~Earlier(q, p)
    /\ \A p, q \in Procs : p # q => Earlier(p, q) \/ Earlier(q, p)
    /\ \A p, q, r \in Procs : Earlier(p, q) /\ Earlier(q, r) => Earlier(p, r)
    /\ \A p \in Procs : state[p] # "RUNNABLE" => ready[p] = {}
    /\ \A p, q \in Procs : p \in ready[q] => p \in ready[p] /\ q \in ready[q]
    /\ \A p, q \in Procs : Before(p, q) => Earlier(p, q)

IInv == TypeOK /\ HartInv /\ ProcInv /\ LkInv /\ CritInv /\ WakeInv
        /\ ScanInv /\ OrderInv

-----------------------------------------------------------------------------

\* What is assumed of the constants.
LEMMA Constants ==
  /\ None \notin Harts /\ None \notin Procs
  /\ NPROC \in Nat /\ Procs = 1 .. NPROC
  /\ Policies \subseteq {"ROUND_ROBIN", "FCFS", "PRIORITY"}
  BY SchedAssumption DEF Procs

\* Priorities can be compared.
LEMMA PriorityInt ==
  ASSUME TypeOK
  PROVE  \A p \in Procs : priority[p] \in Int
<1>1. priority \in [Procs -> 0 .. 20]
  BY ZenonT(40) DEF TypeOK
<1> QED
  BY <1>1

\* The state after boot satisfies the invariant.
LEMMA InitInv == Init => IInv
<1> SUFFICES ASSUME Init PROVE IInv
  BY ZenonT(40)
<1> USE Constants DEF Init
<1>1. TypeOK
  <2>1. /\ order \in [Procs -> SUBSET Procs] /\ ready \in [Procs -> SUBSET Procs]
        /\ idx \in [Harts -> 1 .. NPROC + 1] /\ widx \in [Procs -> 1 .. NPROC + 1]
    OBVIOUS
  <2>2. locked \in BOOLEAN
    BY ZenonT(40)
  <2>3. priority \in [Procs -> 0 .. 20]
    OBVIOUS
  <2> QED
    BY <2>1, <2>2, <2>3, ZenonT(40) DEF TypeOK
<1>2. HartInv
  BY ZenonT(40) DEF HartInv, Holds, Scanning
<1>3. ProcInv
  BY ZenonT(40) DEF ProcInv, Runs
<1>4. LkInv /\ CritInv /\ WakeInv
  BY ZenonT(40) DEF LkInv, CritInv, Exclusion, InCrit, WakeInv, NoLostWakeup, Sleeper
<1>5. ScanInv /\ OrderInv
  BY DEF ScanInv, OrderInv, Scanning, Earlier, Before
<1> QED
  BY <1>1, <1>2, <1>3, <1>4, <1>5, ZenonT(40) DEF IInv

\* The process a hart has chosen is switched out: only p->lock tells, since its
\* state is RUNNABLE from the moment yield() sets it.
LEMMA Candidate ==
  ASSUME TypeOK, HartInv, ProcInv, NEW h \in Harts, best[h] # None, hpc[h] \in Scanning
  PROVE  /\ best[h] \in Procs /\ plock[best[h]] = h /\ state[best[h]] = "RUNNABLE"
         /\ pc[best[h]] \in {"yielded", "slept"}
         /\ \A g \in Harts : ~Runs(g, best[h])
<1>1. best[h] \in Procs /\ plock[best[h]] = h /\ state[best[h]] = "RUNNABLE"
  BY DEF TypeOK, HartInv, Holds, Scanning
<1>2. ASSUME NEW g \in Harts, Runs(g, best[h])
      PROVE  FALSE
  <2>1. pc[best[h]] \in {"yield_sched", "sleep_sched"}
    BY <1>1, <1>2, ZenonT(40) DEF ProcInv
  <2>2. Holds(g, best[h])
    BY <1>1, <1>2, <2>1, ZenonT(40) DEF HartInv, Holds, Runs, Handing
  <2>3. g = h
    BY <1>1, <2>2, ZenonT(40) DEF HartInv
  <2> QED
    BY <1>2, <2>3, ZenonT(40) DEF Runs, Scanning
<1> QED
  BY <1>1, <1>2, ZenonT(40) DEF ProcInv

\* Steps that wake nobody, end no scan and set no priority leave the choice alone.
LEMMA ChoiceFrame ==
  ASSUME ScanInv, OrderInv,
         UNCHANGED <<sched_lock, priority, order, ready, idx, best, policy, seen>>,
         \A h \in Harts : hpc'[h] \in Scanning => hpc'[h] = hpc[h],
         \A p \in Procs : state[p] = "RUNNABLE" => state'[p] = "RUNNABLE",
         seen \subseteq Procs
  PROVE  ScanInv' /\ OrderInv'
<1>1. ScanInv'
  BY ZenonT(40) DEF ScanInv, Scanning, Earlier
<1>2. OrderInv'
  BY ZenonT(40) DEF OrderInv, Earlier, Before
<1> QED
  BY <1>1, <1>2, ZenonT(40)

\* wakeup() of q stamps it as the last of those that wait.
LEMMA ChoiceWake ==
  ASSUME ScanInv, OrderInv, TypeOK, NEW w \in Procs, state[w] = "SLEEPING",
         state' = [state EXCEPT ![w] = "RUNNABLE"],
         order' = Stamp(w), ready' = Arrive(w),
         UNCHANGED <<sched_lock, priority, idx, best, hpc, policy, seen>>,
         \A h \in Harts : hpc[h] \in Scanning => best[h] # w
  PROVE  ScanInv' /\ OrderInv'
<1>1. CASE policy # "FCFS"
  <2>1. order' = order /\ ready' = ready
    BY <1>1, ZenonT(40) DEF Stamp, Arrive
  <2> QED
    BY <2>1, ChoiceFrame, ZenonT(40) DEF TypeOK
<1>2. CASE policy = "FCFS"
  <2>1. \A p, q \in Procs : p \in order'[q] <=> p # w /\ (q = w \/ p \in order[q])
    <3>1. order' = [q \in Procs |-> IF q = w THEN Procs \ {w} ELSE order[q] \ {w}]
      BY <1>2, ZenonT(40) DEF Stamp
    <3> QED
      BY <3>1
  <2>2. \A p, q \in Procs :
          p \in ready'[q] <=> IF q = w THEN p = w \/ p \in ready[p] ELSE p \in ready[q]
    <3>1. ready' = [ready EXCEPT ![w] = {q \in Procs : q \in ready[q]} \cup {w}]
      BY <1>2, ZenonT(40) DEF Arrive
    <3> QED
      BY <3>1 DEF TypeOK
  <2>3. \A q \in Procs : w \notin ready[q]
    BY <1>2, ZenonT(40) DEF OrderInv
  <2>4. w \notin seen
    BY ZenonT(40) DEF ScanInv
  <2>5. ScanInv'
    <3> SUFFICES ASSUME NEW h \in Harts, NEW q \in seen, hpc[h] \in Scanning, q < idx[h]
                 PROVE  best[h] # None /\ (best[h] = q \/ best[h] \in order'[q])
      BY <1>2, <2>4 DEF ScanInv, Scanning, Earlier, TypeOK
    <3>1. best[h] # None /\ (best[h] = q \/ best[h] \in order[q])
      BY <1>2, ZenonT(40) DEF ScanInv, Earlier
    <3> QED
      BY <3>1, <2>1, <2>4, ZenonT(40) DEF TypeOK
  <2>6. OrderInv'
    <3>1. \A p, q \in Procs : p \in order[q] => q \notin order[p]
      BY <1>2, ZenonT(40) DEF OrderInv, Earlier
    <3>2. \A p, q \in Procs : p # q => p \in order[q] \/ q \in order[p]
      BY <1>2, ZenonT(40) DEF OrderInv, Earlier
    <3>3. \A p, q, r \in Procs : p \in order[q] /\ q \in order[r] => p \in order[r]
      BY <1>2, ZenonT(40) DEF OrderInv, Earlier
    <3>4. \A p \in Procs : state'[p] # "RUNNABLE" => ready'[p] = {}
      BY <1>2, <2>2 DEF OrderInv, TypeOK, Arrive
    <3>5. \A p, q \in Procs : p \in ready[q] => p \in ready[p] /\ q \in ready[q]
      BY <1>2, ZenonT(40) DEF OrderInv
    <3>6. \A p, q \in Procs : p # q /\ p \in ready[q] => p \in order[q]
      BY <1>2, ZenonT(40) DEF OrderInv, Earlier, Before
    <3>7. \A p, q \in Procs : p \in order'[q] => q \notin order'[p]
      BY <3>1, <2>1, ZenonT(40)
    <3>8. \A p, q \in Procs : p # q => p \in order'[q] \/ q \in order'[p]
      BY <3>2, <2>1, ZenonT(40)
    <3>9. \A p, q, r \in Procs : p \in order'[q] /\ q \in order'[r] => p \in order'[r]
      BY <3>3, <2>1, ZenonT(40)
    <3>10. \A p, q \in Procs : p \in ready'[q] => p \in ready'[p] /\ q \in ready'[q]
      BY <3>5, <2>2, <2>3, ZenonT(40)
    <3>11. \A p, q \in Procs : p # q /\ p \in ready'[q] => p \in order'[q]
      BY <3>6, <2>1, <2>2, <2>3
    <3> QED
      BY <3>4, <3>7, <3>8, <3>9, <3>10, <3>11, ZenonT(40) DEF OrderInv, Earlier, Before
  <2> QED
    BY <2>5, <2>6, ZenonT(40)
<1> QED
  BY <1>1, <1>2, ZenonT(40)

\* Steps of a scheduler before it switches and after it is switched back to.
LEMMA SchedFrame ==
  ASSUME ProcInv, LkInv, CritInv, WakeInv,
         UNCHANGED <<state, chan, lk, locked, pc, back, widx>>,
         \A g \in Harts : hpc'[g] = "run" <=> hpc[g] = "run",
         \A g \in Harts : hpc[g] = "run" => proc'[g] = proc[g]
  PROVE  ProcInv' /\ LkInv' /\ CritInv' /\ WakeInv'
<1>1. \A g \in Harts, p \in Procs : Runs(g, p)' <=> Runs(g, p)
  BY ZenonT(40) DEF Runs
<1>2. ProcInv'
  BY <1>1, ZenonT(40) DEF ProcInv
<1>3. LkInv'
  BY ZenonT(40) DEF LkInv
<1>4. CritInv'
  BY DEF CritInv, Exclusion, InCrit
<1>5. WakeInv'
  BY ZenonT(40) DEF WakeInv, NoLostWakeup, Sleeper
<1> QED
  BY <1>2, <1>3, <1>4, <1>5, ZenonT(40)

\* Taking sched_lock keeps the invariant: nothing is scanned yet.
LEMMA SchedTopStep ==
  ASSUME IInv, NEW h \in Harts, SchedTop(h)
  PROVE  IInv'
<1>1. /\ hpc[h] = "top" /\ sched_lock = None /\ sched_lock' = h
      /\ idx' = [idx EXCEPT ![h] = 1]
      /\ best' = [best EXCEPT ![h] = None]
      /\ hpc' = [hpc EXCEPT ![h] = "scan"]
      /\ seen' \subseteq Procs /\ \A q \in seen' : state[q] = "RUNNABLE"
      /\ UNCHANGED <<state, priority, chan, plock, lk, locked, order, ready, proc, pc,
                     back, widx, policy>>
  BY ZenonT(40) DEF SchedTop
<1>2. /\ hpc'[h] = "scan" /\ idx'[h] = 1 /\ best'[h] = None
      /\ \A g \in Harts : g # h => hpc'[g] = hpc[g] /\ best'[g] = best[g] /\ hpc[g] \notin Scanning
  BY <1>1, Constants DEF IInv, TypeOK, HartInv
<1>3. TypeOK'
  <2>1. idx' \in [Harts -> 1 .. NPROC + 1]
    BY <1>1, Constants DEF IInv, TypeOK
  <2> QED
    BY <1>1, <2>1, ZenonT(40) DEF IInv, TypeOK
<1>4. HartInv'
  <2>1. ASSUME NEW g \in Harts, NEW p \in Procs PROVE plock'[p] = g <=> Holds(g, p)'
    BY <1>1, <1>2, <2>1, Constants DEF IInv, HartInv, Holds
  <2> QED
    BY <1>1, <1>2, <2>1, Constants DEF IInv, HartInv, Scanning
<1>5. ProcInv' /\ LkInv' /\ CritInv' /\ WakeInv'
  BY <1>1, <1>2, SchedFrame, ZenonT(40) DEF IInv
<1>6. ScanInv'
  <2>1. \A q \in seen' : ~(q < 1)
    BY <1>1, Constants
  <2> QED
    BY <1>1, <1>2, <2>1, Constants DEF ScanInv, Scanning
<1>7. OrderInv'
  BY <1>1, ZenonT(40) DEF IInv, OrderInv, Earlier, Before
<1> QED
  BY <1>3, <1>4, <1>5, <1>6, <1>7, ZenonT(40) DEF IInv

\* A step of the scan keeps the invariant: the best so far is held, and is no
\* worse than any candidate passed.
LEMMA ScanStepStep ==
  ASSUME IInv, NEW h \in Harts, ScanStep(h)
  PROVE  IInv'
<1> DEFINE c == idx[h]
<1> USE Constants DEF IInv
<1>1. /\ c \in Procs /\ plock[c] = None /\ hpc[h] = "scan" /\ sched_lock = h
      /\ idx' = [idx EXCEPT ![h] = c + 1]
      /\ UNCHANGED <<state, priority, chan, sched_lock, lk, locked, order, ready,
                     proc, pc, back, widx, policy, seen>>
  BY DEF ScanStep, TypeOK, HartInv, Scanning, aux
<1>2. idx' \in [Harts -> 1 .. NPROC + 1]
  BY <1>1 DEF TypeOK
<1>3. CASE /\ state[c] = "RUNNABLE" /\ Better(c, best[h])
           /\ plock' = [q \in Procs |-> IF q = c THEN h
                                        ELSE IF q = best[h] THEN None ELSE plock[q]]
           /\ best' = [best EXCEPT ![h] = c]
           /\ hpc' = [hpc EXCEPT ![h] = IF policy = "ROUND_ROBIN" THEN "chosen"
                                        ELSE "scan"]
  <2> HIDE DEF c
  <2>1. TypeOK'
    <3>1. /\ plock' \in [Procs -> Harts \cup {None}]
          /\ best' \in [Harts -> Procs \cup {None}]
          /\ hpc' \in [Harts -> {"top", "scan", "chosen", "run", "back"}]
      BY <1>1, <1>3 DEF TypeOK
    <3> QED
      BY <1>1, <1>2, <3>1, ZenonT(40) DEF TypeOK
  <2>2. hpc'[h] \in Scanning /\ \A g \in Harts : g # h => hpc'[g] = hpc[g]
    BY <1>1, <1>3, ZenonT(40) DEF TypeOK, Scanning
  <2>3. HartInv'
    <3>1. \A g \in Harts, p \in Procs : plock'[p] = g <=> Holds(g, p)'
      BY <1>1, <1>3, <2>2 DEF TypeOK, HartInv, Holds, Scanning, Handing
    <3> QED
      BY <1>1, <1>3, <2>2, <3>1 DEF TypeOK, HartInv, Scanning
  <2>5. ProcInv' /\ LkInv' /\ CritInv' /\ WakeInv'
    BY <1>1, <2>2, SchedFrame, ZenonT(40) DEF Scanning
  <2>7. ScanInv'
    <3>1. \A g \in Harts : hpc'[g] \in Scanning => g = h
      BY <1>1, <1>3, <2>2, ZenonT(40) DEF HartInv, Scanning
    <3> SUFFICES ASSUME NEW q \in seen, q < c + 1
                 PROVE  /\ best'[h] # None
                        /\ policy = "PRIORITY" => priority[best'[h]] <= priority[q]
                        /\ policy = "FCFS" => best'[h] = q \/ Earlier(best'[h], q)
      BY <3>1, <1>1, <1>3, <2>2 DEF ScanInv, Scanning, Earlier, TypeOK
    <3>2. q \in Procs /\ state[q] = "RUNNABLE"
      BY ZenonT(40) DEF ScanInv, TypeOK
    <3>3. q < c =>
            /\ best[h] \in Procs
            /\ policy = "PRIORITY" => priority[best[h]] <= priority[q]
            /\ policy = "FCFS" => best[h] = q \/ Earlier(best[h], q)
      BY <1>1 DEF ScanInv, Scanning, TypeOK, c
    <3>4. q < c \/ q = c
      BY <1>1, <3>2
    <3>5. policy = "FCFS" =>
            \A p, r, t \in Procs : Earlier(p, r) /\ Earlier(r, t) => Earlier(p, t)
      BY ZenonT(40) DEF OrderInv
    <3>6. \A p \in Procs : priority[p] \in Int
      BY PriorityInt, ZenonT(40)
    <3>7. best'[h] = c /\ c # None
      BY <1>1, <1>3 DEF TypeOK
    <3>8. CASE q = c
      BY <3>2, <3>6, <3>7, <3>8
    <3>9. CASE q < c
      <4>1. /\ policy = "FCFS" => Earlier(c, best[h])
            /\ policy = "PRIORITY" => priority[c] < priority[best[h]]
        BY <1>3, <3>3, <3>9, ZenonT(40) DEF Better
      <4> QED
        BY <1>1, <3>2, <3>3, <3>5, <3>6, <3>7, <3>9, <4>1
    <3> QED
      BY <3>4, <3>8, <3>9, ZenonT(40)
  <2>8. OrderInv'
    BY <1>1 DEF OrderInv, Earlier, Before
  <2> QED
    BY <2>1, <2>3, <2>5, <2>7, <2>8, ZenonT(40)
<1>4. CASE ~(state[c] = "RUNNABLE" /\ Better(c, best[h])) /\ UNCHANGED <<plock, best, hpc>>
  <2> HIDE DEF c
  <2>1. TypeOK'
    BY <1>1, <1>2, <1>4, ZenonT(40) DEF TypeOK
  <2>2. HartInv'
    BY <1>1, <1>4 DEF HartInv, Holds
  <2>3. ProcInv' /\ LkInv' /\ CritInv' /\ WakeInv'
    BY <1>1, <1>4, SchedFrame, ZenonT(40)
  <2>5. ScanInv'
    <3>1. \A g \in Harts : hpc'[g] \in Scanning => g = h
      BY <1>1, <1>4, ZenonT(40) DEF HartInv, Scanning
    <3> SUFFICES ASSUME NEW q \in seen, q < c + 1
                 PROVE  /\ best'[h] # None
                        /\ policy = "PRIORITY" => priority[best'[h]] <= priority[q]
                        /\ policy = "FCFS" => best'[h] = q \/ Earlier(best'[h], q)
      BY <3>1, <1>1, <1>4 DEF ScanInv, Scanning, Earlier, TypeOK
    <3>2. q \in Procs /\ state[q] = "RUNNABLE"
      BY ZenonT(40) DEF ScanInv, TypeOK
    <3>3. q < c =>
            /\ best[h] \in Procs
            /\ policy = "PRIORITY" => priority[best[h]] <= priority[q]
            /\ policy = "FCFS" => best[h] = q \/ Earlier(best[h], q)
      BY <1>1 DEF ScanInv, Scanning, TypeOK, c
    <3>4. q < c \/ q = c
      BY <1>1, <3>2
    <3>5. policy = "FCFS" =>
            \A p, r, t \in Procs : Earlier(p, r) /\ Earlier(r, t) => Earlier(p, t)
      BY ZenonT(40) DEF OrderInv
    <3>6. \A p \in Procs : priority[p] \in Int
      BY PriorityInt, ZenonT(40)
    <3>7. policy = "FCFS" => \A p, r \in Procs : p # r => Earlier(p, r) \/ Earlier(r, p)
      BY ZenonT(40) DEF OrderInv
    <3>8. CASE q = c
      <4>1. best[h] \in Procs /\ ~Better(c, best[h])
        BY <1>4, <3>2, <3>8, ZenonT(40) DEF Better, TypeOK
      <4>2. /\ policy = "FCFS" => ~Earlier(c, best[h])
            /\ policy = "PRIORITY" => ~(priority[c] < priority[best[h]])
        BY <4>1, ZenonT(40) DEF Better
      <4>3. best'[h] = best[h] /\ best[h] # None
        BY <1>4, <4>1, Constants, ZenonT(40)
      <4>4. policy = "PRIORITY" => priority[best[h]] <= priority[q]
        <5>1. priority[c] \in Int /\ priority[best[h]] \in Int
          BY <3>2, <3>6, <3>8, <4>1, ZenonT(40)
        <5> QED
          BY <3>8, <4>2, <5>1
      <4>5. policy = "FCFS" => best[h] = q \/ Earlier(best[h], q)
        BY <3>2, <3>7, <3>8, <4>1, <4>2, ZenonT(40)
      <4> QED
        BY <4>3, <4>4, <4>5, ZenonT(40)
    <3>9. CASE q < c
      BY <1>4, <3>3, <3>9, ZenonT(40)
    <3> QED
      BY <3>4, <3>8, <3>9, ZenonT(40)
  <2>6. OrderInv'
    BY <1>1 DEF OrderInv, Earlier, Before
  <2> QED
    BY <2>1, <2>2, <2>3, <2>5, <2>6, ZenonT(40)
<1> QED
  BY <1>3, <1>4, ZenonT(40) DEF ScanStep

\* The end of the scan keeps the invariant.
LEMMA ScanEndStep ==
  ASSUME IInv, NEW h \in Harts, ScanEnd(h)
  PROVE  IInv'
<1>1. /\ hpc[h] = "scan" /\ idx[h] > NPROC
      /\ hpc' = [hpc EXCEPT ![h] = "chosen"]
      /\ UNCHANGED <<state, priority, chan, plock, sched_lock, lk, locked, order, ready,
                     idx, best, proc, pc, back, widx, policy, seen>>
  BY ZenonT(40) DEF ScanEnd, aux
<1>2. hpc'[h] = "chosen" /\ \A g \in Harts : g # h => hpc'[g] = hpc[g]
  BY <1>1, ZenonT(40) DEF IInv, TypeOK
<1>3. TypeOK'
  BY <1>1, ZenonT(40) DEF IInv, TypeOK
<1>4. HartInv'
  BY <1>1, <1>2 DEF IInv, HartInv, Holds, Scanning
<1>5. ProcInv' /\ LkInv' /\ CritInv' /\ WakeInv'
  BY <1>1, <1>2, SchedFrame, ZenonT(40) DEF IInv
<1>6. ScanInv'
  <2>1. idx[h] = NPROC + 1
    <3>1. idx \in [Harts -> 1 .. NPROC + 1]
      BY ZenonT(40) DEF IInv, TypeOK
    <3> QED
      BY <1>1, <3>1, Constants
  <2> QED
    BY <1>1, <1>2, <2>1, ZenonT(40) DEF IInv, ScanInv, Scanning, Earlier
<1>7. OrderInv'
  BY <1>1, ZenonT(40) DEF IInv, OrderInv, Earlier, Before
<1> QED
  BY <1>3, <1>4, <1>5, <1>6, <1>7, ZenonT(40) DEF IInv

\* swtch() to the chosen process keeps the invariant: its lock goes with it.
LEMMA DispatchStep ==
  ASSUME IInv, NEW h \in Harts, Dispatch(h)
  PROVE  IInv'
<1> DEFINE c == best[h]
<1> USE Constants DEF IInv
<1>1. /\ c \in Procs /\ hpc[h] = "chosen" /\ sched_lock = h
      /\ sched_lock' = None /\ seen' = {}
      /\ state' = [state EXCEPT ![c] = "RUNNING"]
      /\ proc' = [proc EXCEPT ![h] = c]
      /\ hpc' = [hpc EXCEPT ![h] = "run"]
      /\ order' = Stamp(c) /\ ready' = Leave(c)
      /\ UNCHANGED <<priority, chan, plock, lk, locked, idx, best, pc, back, widx, policy>>
  BY DEF Dispatch, TypeOK, HartInv, Scanning
<1>2. /\ plock[c] = h /\ state[c] = "RUNNABLE" /\ pc[c] \in {"yielded", "slept"}
      /\ \A g \in Harts : ~Runs(g, c)
  BY <1>1, Candidate, ZenonT(40) DEF Scanning
<1>3. \A g \in Harts, p \in Procs : Runs(g, p)' <=> IF g = h THEN p = c ELSE Runs(g, p)
  BY <1>1 DEF Runs, TypeOK
<1> HIDE DEF c
<1>4. TypeOK'
  <2>1. order' \in [Procs -> SUBSET Procs]
    BY <1>1, ZenonT(40) DEF TypeOK, Stamp
  <2>2. ready' \in [Procs -> SUBSET Procs]
    BY <1>1, ZenonT(40) DEF TypeOK, Leave
  <2>3. locked' \in BOOLEAN /\ policy' \in Policies /\ seen' \subseteq Procs
    BY <1>1, ZenonT(40) DEF TypeOK
  <2>4. /\ state' \in [Procs -> {"RUNNABLE", "RUNNING", "SLEEPING"}]
        /\ proc' \in [Harts -> Procs \cup {None}]
        /\ hpc' \in [Harts -> {"top", "scan", "chosen", "run", "back"}]
        /\ sched_lock' \in Harts \cup {None}
    BY <1>1, ZenonT(40) DEF TypeOK
  <2>5. /\ priority' = priority /\ chan' = chan /\ plock' = plock /\ lk' = lk /\ idx' = idx
        /\ best' = best /\ pc' = pc /\ back' = back /\ widx' = widx
    BY <1>1, ZenonT(40)
  <2> QED
    BY <2>1, <2>2, <2>3, <2>4, <2>5, ZenonT(40) DEF TypeOK
<1>5. HartInv'
  BY <1>1, <1>2 DEF TypeOK, HartInv, Holds, Scanning, Handing, c
<1>6. ProcInv'
  <2>1. \A p \in Procs : (\E g \in Harts : Runs(g, p)') <=> p = c \/ \E g \in Harts : Runs(g, p)
    BY <1>1, <1>2, <1>3 DEF Runs
  <2>2. state'[c] = "RUNNING" /\ \A p \in Procs : p # c => state'[p] = state[p]
    BY <1>1 DEF TypeOK
  <2>3. \A f, g \in Harts, p \in Procs : Runs(f, p)' /\ Runs(g, p)' => f = g
    BY <1>2, <1>3 DEF ProcInv
  <2>4. \A p \in Procs : pc'[p] \notin {"yielded", "slept"} => \E g \in Harts : Runs(g, p)'
    BY <1>1, <2>1, ZenonT(40) DEF ProcInv
  <2>5. \A p \in Procs :
          state'[p] = "RUNNING" <=>
            /\ \E g \in Harts : Runs(g, p)'
            /\ pc'[p] \notin {"yield_sched", "sleep_sched"}
    BY <1>1, <1>2, <2>1, <2>2 DEF ProcInv
  <2>6. \A p \in Procs : state'[p] = "SLEEPING" => pc'[p] \in {"sleep_sched", "slept"}
    BY <1>1, <2>2, ZenonT(40) DEF ProcInv
  <2> QED
    BY <2>3, <2>4, <2>5, <2>6, ZenonT(40) DEF ProcInv
<1>7. LkInv' /\ CritInv' /\ WakeInv'
  <2>1. LkInv'
    BY <1>1, <1>2 DEF TypeOK, LkInv
  <2>2. CritInv'
    BY <1>1 DEF CritInv, Exclusion, InCrit
  <2>3. \A q \in Procs : Sleeper(q)' => Sleeper(q)
    BY <1>1 DEF Sleeper, TypeOK
  <2>4. WakeInv'
    BY <1>1, <2>3 DEF WakeInv, NoLostWakeup, Sleeper
  <2> QED
    BY <2>1, <2>2, <2>4, ZenonT(40)
<1>8. ScanInv'
  BY <1>1 DEF HartInv, ScanInv, Scanning, TypeOK
<1>9. OrderInv'
  <2> SUFFICES ASSUME policy = "FCFS" PROVE OrderInv'
    BY <1>1, ZenonT(40) DEF OrderInv
  <2>1. \A p, q \in Procs : p \in order'[q] <=> p # c /\ (q = c \/ p \in order[q])
    <3>1. order' = [q \in Procs |-> IF q = c THEN Procs \ {c} ELSE order[q] \ {c}]
      BY <1>1, ZenonT(40) DEF Stamp
    <3> QED
      BY <3>1, ZenonT(40)
  <2>2. \A p, q \in Procs : p \in ready'[q] <=> q # c /\ p # c /\ p \in ready[q]
    <3>1. ready' = [q \in Procs |-> IF q = c THEN {} ELSE ready[q] \ {c}]
      BY <1>1, ZenonT(40) DEF Leave
    <3> QED
      BY <3>1, ZenonT(40)
  <2>3. \A p, q \in Procs : p \in order'[q] => q \notin order'[p]
    BY <2>1 DEF OrderInv, Earlier
  <2>4. \A p, q \in Procs : p # q => p \in order'[q] \/ q \in order'[p]
    BY <2>1 DEF OrderInv, Earlier
  <2>5. \A p, q, r \in Procs : p \in order'[q] /\ q \in order'[r] => p \in order'[r]
    BY <2>1 DEF OrderInv, Earlier
  <2>6. \A p \in Procs : state'[p] # "RUNNABLE" => ready'[p] = {}
    <3> SUFFICES ASSUME NEW p \in Procs, state'[p] # "RUNNABLE", NEW q \in ready'[p]
                 PROVE  FALSE
      BY ZenonT(40)
    <3>1. q \in Procs
      BY <1>4, ZenonT(40) DEF TypeOK
    <3>2. p # c /\ q \in ready[p]
      BY <2>2, <3>1, ZenonT(40)
    <3> QED
      BY <1>1, <3>2 DEF OrderInv, TypeOK
  <2>7. \A p, q \in Procs : p \in ready'[q] => p \in ready'[p] /\ q \in ready'[q]
    BY <2>2, ZenonT(40) DEF OrderInv
  <2>8. \A p, q \in Procs : p # q /\ p \in ready'[q] => p \in order'[q]
    BY <2>1, <2>2, ZenonT(40) DEF OrderInv, Earlier, Before
  <2> QED
    BY <2>3, <2>4, <2>5, <2>6, <2>7, <2>8, ZenonT(40) DEF OrderInv, Earlier, Before
<1> QED
  BY <1>4, <1>5, <1>6, <1>7, <1>8, <1>9, ZenonT(40)

\* Waiting for an interrupt keeps the invariant: no lock is held.
LEMMA WfiStep ==
  ASSUME IInv, NEW h \in Harts, Wfi(h)
  PROVE  IInv'
<1>1. /\ hpc[h] = "chosen" /\ best[h] = None /\ sched_lock' = None
      /\ hpc' = [hpc EXCEPT ![h] = "top"] /\ seen' = {}
      /\ UNCHANGED <<state, priority, chan, plock, lk, locked, order, ready, idx, best,
                     proc, pc, back, widx, policy>>
  BY ZenonT(40) DEF Wfi
<1>2. hpc'[h] = "top" /\ \A g \in Harts : g # h => hpc'[g] = hpc[g] /\ hpc[g] \notin Scanning
  BY <1>1 DEF IInv, TypeOK, HartInv, Scanning
<1>3. TypeOK'
  BY <1>1, ZenonT(40) DEF IInv, TypeOK
<1>4. HartInv'
  <2>1. ASSUME NEW g \in Harts, NEW p \in Procs PROVE plock'[p] = g <=> Holds(g, p)'
    BY <1>1, <1>2, <2>1, Constants DEF IInv, HartInv, Holds
  <2> QED
    BY <1>1, <1>2, <2>1, Constants DEF IInv, HartInv, Scanning
<1>5. ProcInv' /\ LkInv' /\ CritInv' /\ WakeInv'
  BY <1>1, <1>2, SchedFrame, ZenonT(40) DEF IInv
<1>6. ScanInv'
  BY <1>1, <1>2, ZenonT(40) DEF ScanInv, Scanning
<1>7. OrderInv'
  BY <1>1, ZenonT(40) DEF IInv, OrderInv, Earlier, Before
<1> QED
  BY <1>3, <1>4, <1>5, <1>6, <1>7, ZenonT(40) DEF IInv

\* The return from swtch() keeps the invariant: the lock is released.
LEMMA BackStep ==
  ASSUME IInv, NEW h \in Harts, Back(h)
  PROVE  IInv'
<1>1. /\ hpc[h] = "back"
      /\ plock' = [plock EXCEPT ![best[h]] = None]
      /\ proc' = [proc EXCEPT ![h] = None]
      /\ best' = [best EXCEPT ![h] = None]
      /\ hpc' = [hpc EXCEPT ![h] = "top"]
      /\ UNCHANGED <<state, priority, chan, sched_lock, lk, locked, order, ready, idx,
                     pc, back, widx, policy, seen>>
  BY ZenonT(40) DEF Back, aux
<1>2. /\ hpc'[h] = "top" /\ best'[h] = None
      /\ \A g \in Harts : g # h => hpc'[g] = hpc[g] /\ best'[g] = best[g] /\ proc'[g] = proc[g]
  BY <1>1, ZenonT(40) DEF IInv, TypeOK
<1>3. TypeOK'
  BY <1>1, ZenonT(40) DEF IInv, TypeOK
<1>4. HartInv'
  <2>1. /\ best[h] \in Procs /\ plock[best[h]] = h /\ plock'[best[h]] = None
        /\ \A p \in Procs : p # best[h] => plock'[p] = plock[p]
    BY <1>1 DEF IInv, TypeOK, HartInv, Holds
  <2>2. ASSUME NEW g \in Harts, NEW p \in Procs PROVE plock'[p] = g <=> Holds(g, p)'
    <3>1. CASE g = h
      BY <1>1, <1>2, <2>1, <3>1, Constants DEF IInv, HartInv, Holds
    <3>2. CASE g # h
      BY <1>1, <1>2, <2>1, <3>2, Constants DEF IInv, HartInv, Holds
    <3> QED
      BY <3>1, <3>2, ZenonT(40)
  <2> QED
    BY <1>1, <1>2, <2>2 DEF IInv, HartInv, Scanning
<1>5. ProcInv' /\ LkInv' /\ CritInv' /\ WakeInv'
  BY <1>1, <1>2, SchedFrame, ZenonT(40) DEF IInv
<1>6. ScanInv'
  BY <1>1, <1>2 DEF IInv, ScanInv, Scanning, Earlier
<1>7. OrderInv'
  BY <1>1, ZenonT(40) DEF IInv, OrderInv, Earlier, Before
<1> QED
  BY <1>3, <1>4, <1>5, <1>6, <1>7, ZenonT(40) DEF IInv
=============================================================================
