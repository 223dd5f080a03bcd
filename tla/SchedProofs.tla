---------------------------- MODULE SchedProofs -----------------------------
(***************************************************************************)
(* Proofs about module Sched, for any number of harts and processes and each *)
(* of the three policies: the processes' steps preserve the invariant of     *)
(* module SchedInv, and what follows from it.                                *)
(***************************************************************************)
EXTENDS SchedInv

\* Time for each leaf.
USE SMTT(20), ZenonT(20)

\* Process p, executed by hart h, goes on to another place of its code.
Moves(h, p) ==
  /\ Runs(h, p) /\ UNCHANGED <<hpc, best, proc, sched_lock>>
  /\ \A q \in Procs : q # p => /\ pc'[q] = pc[q] /\ back'[q] = back[q]
                               /\ plock'[q] = plock[q] /\ state'[q] = state[q]

\* What holds of harts and processes still does when one goes on in its code.
LEMMA ProcMove ==
  ASSUME TypeOK, HartInv, ProcInv, NEW h \in Harts, NEW p \in Procs, Moves(h, p),
         pc'[p] \notin {"yielded", "slept"},
         \A g \in Harts : plock'[p] = g <=> IF g = h THEN pc'[p] \in Handing
                                            ELSE plock[p] = g,
         state'[p] = "RUNNING" <=> pc'[p] \notin {"yield_sched", "sleep_sched"},
         state'[p] = "SLEEPING" => pc'[p] = "sleep_sched"
  PROVE  HartInv' /\ ProcInv'
<1>1. \A g \in Harts : g # h => ~Runs(g, p)
  BY ZenonT(40) DEF Moves, ProcInv
<1>2. \A g \in Harts : best[g] # None /\ hpc[g] \in Scanning => best[g] # p
  BY Candidate DEF Moves
<1>3. ASSUME NEW g \in Harts, NEW q \in Procs
      PROVE  plock'[q] = g <=> Holds(g, q)'
  <2>1. CASE q # p
    BY <1>3, <2>1 DEF Moves, HartInv, Holds
  <2>2. CASE q = p /\ g # h
    BY <1>1, <1>3, <2>2 DEF Moves, HartInv, Holds, Runs
  <2>3. CASE q = p /\ g = h
    BY <2>3, ZenonT(40) DEF Moves, HartInv, Holds, Runs
  <2> QED
    BY <2>1, <2>2, <2>3, ZenonT(40)
<1>4. HartInv'
  BY <1>2, <1>3 DEF Moves, HartInv, TypeOK
<1>5. \A g \in Harts, q \in Procs : Runs(g, q)' <=> Runs(g, q)
  BY ZenonT(40) DEF Moves, Runs
<1>6. ProcInv'
  BY <1>5 DEF Moves, ProcInv
<1> QED
  BY <1>4, <1>6, ZenonT(40)

\* The same for lk, the spinlock of the sleeplock.
LEMMA LkMove ==
  ASSUME TypeOK, HartInv, ProcInv, LkInv, NEW h \in Harts, NEW p \in Procs, Moves(h, p),
         \A g \in Harts : lk' = g <=> IF g = h THEN pc'[p] \in {"sleep", "sleep_go", "wakeup"}
                                      ELSE lk = g,
         \A q \in Procs : pc'[q] \in {"sleep", "sleep_go"} => locked'
  PROVE  LkInv'
<1>1. ASSUME NEW g \in Harts, g # h, hpc[g] = "run"
      PROVE  proc[g] \in Procs /\ proc[g] # p
  BY <1>1 DEF HartInv, ProcInv, Moves, Runs
<1> QED
  BY <1>1 DEF LkInv, Moves, Runs

\* A step that leaves lk and the sleeplock alone, and keeps its process on the
\* same side of lk.
LEMMA LkStay ==
  ASSUME TypeOK, HartInv, ProcInv, LkInv, NEW h \in Harts, NEW p \in Procs, Moves(h, p),
         lk' = lk, locked' = locked,
         pc'[p] \in {"sleep", "sleep_go", "wakeup"} <=> pc[p] \in {"sleep", "sleep_go", "wakeup"},
         pc'[p] \in {"sleep", "sleep_go"} => pc[p] \in {"sleep", "sleep_go"}
  PROVE  LkInv'
<1>1. lk = h <=> pc[p] \in {"sleep", "sleep_go", "wakeup"}
  BY ZenonT(40) DEF LkInv, Moves, Runs
<1>2. \A g \in Harts : lk' = g <=> IF g = h THEN pc'[p] \in {"sleep", "sleep_go", "wakeup"}
                                    ELSE lk = g
  BY <1>1, ZenonT(40)
<1>3. \A q \in Procs : q # p => pc'[q] = pc[q]
  BY ZenonT(40) DEF Moves
<1>4. \A q \in Procs : pc'[q] \in {"sleep", "sleep_go"} => locked'
  BY <1>3, ZenonT(40) DEF LkInv
<1> QED
  BY <1>2, <1>4, LkMove, ZenonT(40)

\* Steps that change neither harts nor processes.
LEMMA StayFrame ==
  ASSUME HartInv, ProcInv, UNCHANGED <<hpc, best, proc, sched_lock, plock, pc, state>>
  PROVE  HartInv' /\ ProcInv'
<1>1. \A h \in Harts, p \in Procs : (Holds(h, p)' <=> Holds(h, p)) /\ (Runs(h, p)' <=> Runs(h, p))
  BY ZenonT(40) DEF Holds, Runs
<1>2. HartInv'
  BY <1>1, ZenonT(40) DEF HartInv
<1>3. ProcInv'
  BY <1>1, ZenonT(40) DEF ProcInv
<1> QED
  BY <1>2, <1>3, ZenonT(40)

\* A sleeper is made runnable.
LEMMA WakeOne ==
  ASSUME TypeOK, HartInv, ProcInv, NEW w \in Procs, state[w] = "SLEEPING",
         state' = [state EXCEPT ![w] = "RUNNABLE"],
         UNCHANGED <<hpc, best, proc, sched_lock, plock, pc>>
  PROVE  HartInv' /\ ProcInv'
<1>1. state'[w] = "RUNNABLE" /\ \A q \in Procs : q # w => state'[q] = state[q]
  BY ZenonT(40) DEF TypeOK
<1>2. HartInv'
  BY <1>1 DEF HartInv, Holds, TypeOK
<1>3. ProcInv'
  BY <1>1 DEF ProcInv, Runs
<1> QED
  BY <1>2, <1>3, ZenonT(40)

\* swtch() to the scheduler keeps the invariant: the lock goes to the hart.
LEMMA SwtchOutStep ==
  ASSUME IInv, NEW h \in Harts, NEW p \in Procs, SwtchOut(h, p)
  PROVE  IInv'
<1>1. /\ Runs(h, p) /\ pc[p] \in {"yield_sched", "sleep_sched"}
      /\ hpc' = [hpc EXCEPT ![h] = "back"]
      /\ pc' = [pc EXCEPT ![p] = IF @ = "yield_sched" THEN "yielded" ELSE "slept"]
      /\ UNCHANGED <<state, priority, chan, plock, sched_lock, lk, locked,
                     order, ready, idx, best, proc, back, widx, policy, seen>>
  BY ZenonT(40) DEF SwtchOut, Runs, aux
<1>2. /\ hpc'[h] = "back" /\ \A g \in Harts : g # h => hpc'[g] = hpc[g]
      /\ pc'[p] \in {"yielded", "slept"} /\ \A q \in Procs : q # p => pc'[q] = pc[q]
      /\ pc'[p] = "yielded" <=> pc[p] = "yield_sched"
  BY <1>1 DEF IInv, TypeOK
<1>3. TypeOK'
  BY <1>1, ZenonT(40) DEF IInv, TypeOK
<1>4. HartInv'
  <2>1. ASSUME NEW g \in Harts, g # h PROVE ~(hpc[g] = "run" /\ best[g] = p)
    BY <1>1, <2>1 DEF IInv, HartInv, ProcInv, Runs
  <2>2. ASSUME NEW g \in Harts, NEW q \in Procs PROVE plock'[q] = g <=> Holds(g, q)'
    BY <1>1, <1>2, <2>1, <2>2 DEF IInv, HartInv, Holds, Handing, Runs
  <2> QED
    BY <1>1, <1>2, <2>2 DEF IInv, HartInv, Scanning, Runs
<1>5. ProcInv'
  <2>1. \A g \in Harts, q \in Procs : Runs(g, q)' <=> Runs(g, q) /\ q # p
    BY <1>1, <1>2 DEF IInv, ProcInv, Runs
  <2> QED
    BY <1>1, <1>2, <2>1 DEF IInv, ProcInv
<1>6. LkInv'
  <2>1. ASSUME NEW g \in Harts, g # h, hpc[g] = "run"
        PROVE  proc[g] \in Procs /\ proc[g] # p
    BY <1>1, <2>1 DEF IInv, HartInv, ProcInv, Runs
  <2> QED
    BY <1>1, <1>2, <2>1 DEF IInv, LkInv, Runs
<1>7. CritInv'
  BY <1>1, <1>2 DEF IInv, CritInv, Exclusion, InCrit, TypeOK
<1>8. WakeInv'
  BY <1>1, <1>2 DEF IInv, WakeInv, NoLostWakeup, Sleeper
<1>9. ScanInv' /\ OrderInv'
  BY <1>1, <1>2, ChoiceFrame, ZenonT(40) DEF IInv, TypeOK, Scanning
<1> QED
  BY <1>3, <1>4, <1>5, <1>6, <1>7, <1>8, <1>9, ZenonT(40) DEF IInv

\* yield() keeps the invariant.
LEMMA YieldStep ==
  ASSUME IInv, NEW h \in Harts, NEW p \in Procs, Yield(h, p)
  PROVE  IInv'
<1>1. /\ Runs(h, p) /\ pc[p] \in Unlocked /\ plock[p] = None /\ policy # "FCFS"
      /\ plock' = [plock EXCEPT ![p] = h]
      /\ state' = [state EXCEPT ![p] = "RUNNABLE"]
      /\ back' = [back EXCEPT ![p] = pc[p]]
      /\ pc' = [pc EXCEPT ![p] = "yield_sched"]
      /\ UNCHANGED <<priority, chan, sched_lock, lk, locked, order, ready,
                     hpc, idx, best, proc, widx, policy, seen>>
  BY ZenonT(40) DEF Yield, Runs, Acquire, Unlocked, Stamp, Arrive, aux
<1>2. Moves(h, p)
  BY <1>1 DEF Moves, IInv, TypeOK
<1>3. TypeOK'
  BY <1>1, ZenonT(40) DEF IInv, TypeOK, Unlocked
<1>4. HartInv' /\ ProcInv'
  <2>1. pc'[p] = "yield_sched" /\ state'[p] = "RUNNABLE"
    BY <1>1, ZenonT(40) DEF IInv, TypeOK
  <2>2. plock'[p] = h /\ plock[p] = None
    BY <1>1, ZenonT(40) DEF IInv, TypeOK
  <2> QED
    BY <1>2, <2>1, <2>2, Constants, ProcMove DEF IInv, Handing
<1>5. LkInv'
  <2>1. /\ pc'[p] \in {"sleep", "sleep_go", "wakeup"} <=> pc[p] \in {"sleep", "sleep_go", "wakeup"}
        /\ pc'[p] \in {"sleep", "sleep_go"} => pc[p] \in {"sleep", "sleep_go"}
    BY <1>1, ZenonT(40) DEF IInv, TypeOK, Unlocked
  <2> QED
    BY <1>2, <1>1, <2>1, LkStay, ZenonT(40) DEF IInv
<1>6. CritInv'
  <2>1. \A q \in Procs : InCrit(q)' <=> InCrit(q)
    <3>1. back[p] = "user" /\ back'[p] = pc[p] /\ pc'[p] = "yield_sched"
      BY <1>1, ZenonT(40) DEF IInv, TypeOK, CritInv, Unlocked
    <3>2. \A q \in Procs : q # p => pc'[q] = pc[q] /\ back'[q] = back[q]
      BY <1>1, ZenonT(40) DEF IInv, TypeOK
    <3> QED
      BY <3>1, <3>2, ZenonT(40) DEF InCrit
  <2> QED
    BY <1>1, <2>1 DEF IInv, TypeOK, CritInv, Exclusion
<1>7. WakeInv'
  BY <1>1 DEF IInv, TypeOK, WakeInv, NoLostWakeup, Sleeper
<1>8. ScanInv' /\ OrderInv'
  BY <1>1, ChoiceFrame, ZenonT(40) DEF IInv, TypeOK
<1> QED
  BY <1>3, <1>4, <1>5, <1>6, <1>7, <1>8, ZenonT(40) DEF IInv

\* The return from yield() keeps the invariant.
LEMMA ResumeStep ==
  ASSUME IInv, NEW h \in Harts, NEW p \in Procs, Resume(h, p)
  PROVE  IInv'
<1>1. /\ Runs(h, p) /\ pc[p] = "yielded"
      /\ plock' = [plock EXCEPT ![p] = None]
      /\ pc' = [pc EXCEPT ![p] = back[p]]
      /\ back' = [back EXCEPT ![p] = "user"]
      /\ UNCHANGED <<state, priority, chan, sched_lock, lk, locked, order,
                     ready, hpc, idx, best, proc, widx, policy, seen>>
  BY ZenonT(40) DEF Resume, Runs, On, aux
<1>2. Moves(h, p)
  BY <1>1 DEF Moves, IInv, TypeOK
<1>3. TypeOK'
  BY <1>1, ZenonT(40) DEF IInv, TypeOK
<1>4. HartInv' /\ ProcInv'
  <2>1. plock[p] = h /\ plock'[p] = None /\ pc'[p] \in {"user", "acquire", "crit"}
    BY <1>1 DEF IInv, TypeOK, HartInv, Holds, Handing, Runs
  <2>2. state[p] = "RUNNING"
    BY <1>1, ZenonT(40) DEF IInv, ProcInv
  <2> QED
    BY <1>2, <1>1, <2>1, <2>2, Constants, ProcMove DEF IInv, Handing
<1>5. LkInv'
  <2>1. pc'[p] \in {"user", "acquire", "crit"} /\ lk # h
    BY <1>1, ZenonT(40) DEF IInv, TypeOK, LkInv, Runs
  <2>2. \A q \in Procs : pc'[q] \in {"sleep", "sleep_go"} => locked'
    BY <1>1, <2>1 DEF IInv, TypeOK, LkInv
  <2> QED
    BY <1>2, <1>1, <2>1, <2>2, LkMove, ZenonT(40) DEF IInv
<1>6. CritInv'
  <2>1. \A q \in Procs : InCrit(q)' <=> InCrit(q)
    BY <1>1, ZenonT(40) DEF IInv, TypeOK, InCrit
  <2> QED
    BY <1>1, <2>1 DEF IInv, TypeOK, CritInv, Exclusion
<1>7. WakeInv'
  BY <1>1 DEF IInv, TypeOK, WakeInv, NoLostWakeup, Sleeper
<1>8. ScanInv' /\ OrderInv'
  BY <1>1, ChoiceFrame, ZenonT(40) DEF IInv, TypeOK
<1> QED
  BY <1>3, <1>4, <1>5, <1>6, <1>7, <1>8, ZenonT(40) DEF IInv

\* Entering acquiresleep() keeps the invariant.
LEMMA AcquireSleepStep ==
  ASSUME IInv, NEW h \in Harts, NEW p \in Procs, AcquireSleep(h, p)
  PROVE  IInv'
<1>1. /\ Runs(h, p) /\ pc[p] = "user"
      /\ pc' = [pc EXCEPT ![p] = "acquire"]
      /\ UNCHANGED <<state, priority, chan, plock, sched_lock, lk, locked,
                     order, ready, hpc, idx, best, proc, back, widx, policy,
                     seen>>
  BY ZenonT(40) DEF AcquireSleep, Runs, On, aux
<1>2. Moves(h, p)
  BY <1>1, ZenonT(40) DEF Moves, IInv, TypeOK
<1>3. TypeOK'
  BY <1>1, ZenonT(40) DEF IInv, TypeOK
<1>4. HartInv' /\ ProcInv'
  <2>1. pc'[p] = "acquire" /\ state'[p] = "RUNNING"
    <3>1. state[p] = "RUNNING"
      BY <1>1, ZenonT(40) DEF IInv, ProcInv
    <3> QED
      BY <1>1, <3>1, ZenonT(40) DEF IInv, TypeOK
  <2>2. plock'[p] = plock[p] /\ plock[p] # h
    BY <1>1, ZenonT(40) DEF IInv, HartInv, Holds, Handing, Runs
  <2> QED
    BY <1>2, <2>1, <2>2, Constants, ProcMove DEF IInv, Handing
<1>5. LkInv'
  <2>1. /\ pc'[p] \in {"sleep", "sleep_go", "wakeup"} <=> pc[p] \in {"sleep", "sleep_go", "wakeup"}
        /\ pc'[p] \in {"sleep", "sleep_go"} => pc[p] \in {"sleep", "sleep_go"}
    BY <1>1, ZenonT(40) DEF IInv, TypeOK
  <2> QED
    BY <1>2, <1>1, <2>1, LkStay, ZenonT(40) DEF IInv
<1>6. CritInv'
  BY <1>1 DEF IInv, TypeOK, CritInv, Exclusion, InCrit
<1>7. WakeInv'
  BY <1>1 DEF IInv, TypeOK, WakeInv, NoLostWakeup, Sleeper
<1>8. ScanInv' /\ OrderInv'
  BY <1>1, ChoiceFrame, ZenonT(40) DEF IInv, TypeOK
<1> QED
  BY <1>3, <1>4, <1>5, <1>6, <1>7, <1>8, ZenonT(40) DEF IInv

\* The test of lk->locked keeps the invariant: one process gets it.
LEMMA TryLockStep ==
  ASSUME IInv, NEW h \in Harts, NEW p \in Procs, TryLock(h, p)
  PROVE  IInv'
<1>1. /\ Runs(h, p) /\ pc[p] = "acquire" /\ lk = None
      /\ IF locked THEN lk' = h /\ pc' = [pc EXCEPT ![p] = "sleep"] /\ locked' = locked
                   ELSE lk' = lk /\ pc' = [pc EXCEPT ![p] = "crit"] /\ locked' = TRUE
      /\ UNCHANGED <<state, priority, chan, plock, sched_lock, order, ready,
                     hpc, idx, best, proc, back, widx, policy, seen>>
  BY ZenonT(40) DEF TryLock, Runs, On, Taken, LkInSleep, aux
<1>2. CASE locked
  <2>1. lk' = h /\ pc' = [pc EXCEPT ![p] = "sleep"] /\ locked' = locked
    BY <1>1, <1>2, ZenonT(40)
  <2>2. Moves(h, p)
    BY <1>1, <2>1, ZenonT(40) DEF Moves, IInv, TypeOK
  <2>3. TypeOK'
    BY <1>1, <2>1, ZenonT(40) DEF IInv, TypeOK
  <2>4. HartInv' /\ ProcInv'
    <3>1. pc'[p] = "sleep" /\ state'[p] = "RUNNING"
      <4>1. state[p] = "RUNNING"
        BY <1>1, ZenonT(40) DEF IInv, ProcInv
      <4> QED
        BY <1>1, <2>1, <4>1, ZenonT(40) DEF IInv, TypeOK
    <3>2. plock'[p] = plock[p] /\ plock[p] # h
      BY <1>1, ZenonT(40) DEF IInv, HartInv, Holds, Handing, Runs
    <3> QED
      BY <2>2, <3>1, <3>2, Constants, ProcMove DEF IInv, Handing
  <2>5. LkInv'
    <3>1. pc'[p] = "sleep"
      BY <1>1, <2>1, ZenonT(40) DEF IInv, TypeOK
    <3> QED
      BY <1>1, <1>2, <2>1, <2>2, <3>1, Constants, LkMove DEF IInv
  <2>6. CritInv'
    BY <1>1, <2>1 DEF IInv, TypeOK, CritInv, Exclusion, InCrit
  <2>7. WakeInv'
    BY <1>1, <1>2, <2>1 DEF IInv, TypeOK, WakeInv, NoLostWakeup, Sleeper
  <2>8. ScanInv' /\ OrderInv'
    BY <1>1, ChoiceFrame, ZenonT(40) DEF IInv, TypeOK
  <2> QED
    BY <2>3, <2>4, <2>5, <2>6, <2>7, <2>8, ZenonT(40) DEF IInv
<1>3. CASE ~locked
  <2>1. lk' = lk /\ pc' = [pc EXCEPT ![p] = "crit"] /\ locked' = TRUE
    BY <1>1, <1>3, ZenonT(40)
  <2>2. Moves(h, p)
    BY <1>1, <2>1, ZenonT(40) DEF Moves, IInv, TypeOK
  <2>3. TypeOK'
    BY <1>1, <2>1, ZenonT(40) DEF IInv, TypeOK
  <2>4. HartInv' /\ ProcInv'
    <3>1. pc'[p] = "crit" /\ state'[p] = "RUNNING"
      <4>1. state[p] = "RUNNING"
        BY <1>1, ZenonT(40) DEF IInv, ProcInv
      <4> QED
        BY <1>1, <2>1, <4>1, ZenonT(40) DEF IInv, TypeOK
    <3>2. plock'[p] = plock[p] /\ plock[p] # h
      BY <1>1, ZenonT(40) DEF IInv, HartInv, Holds, Handing, Runs
    <3> QED
      BY <2>2, <3>1, <3>2, Constants, ProcMove DEF IInv, Handing
  <2>5. LkInv'
    <3>1. pc'[p] = "crit"
      BY <2>1, ZenonT(40) DEF IInv, TypeOK
    <3>2. \A g \in Harts : lk' = g <=> IF g = h THEN pc'[p] \in {"sleep", "sleep_go", "wakeup"}
                                       ELSE lk = g
      <4>1. lk # h
        BY <1>1, Constants, ZenonT(40) DEF IInv, LkInv, Runs
      <4> QED
        BY <2>1, <3>1, <4>1, ZenonT(40)
    <3>3. \A q \in Procs : pc'[q] \in {"sleep", "sleep_go"} => locked'
      BY <2>1, ZenonT(40)
    <3> QED
      BY <2>2, <3>2, <3>3, LkMove, ZenonT(40) DEF IInv
  <2>6. CritInv'
    <3>1. \A q \in Procs : InCrit(q)' <=> q = p
      BY <1>1, <1>3, <2>1 DEF IInv, TypeOK, CritInv, Exclusion, InCrit
    <3> QED
      BY <1>1, <2>1, <3>1 DEF IInv, TypeOK, CritInv, Exclusion
  <2>7. WakeInv'
    BY <1>1, <2>1 DEF IInv, TypeOK, WakeInv, NoLostWakeup, Sleeper
  <2>8. ScanInv' /\ OrderInv'
    BY <1>1, ChoiceFrame, ZenonT(40) DEF IInv, TypeOK
  <2> QED
    BY <2>3, <2>4, <2>5, <2>6, <2>7, <2>8, ZenonT(40) DEF IInv
<1> QED
  BY <1>2, <1>3, ZenonT(40)

\* sleep() taking p->lock keeps the invariant.
LEMMA SleepLockStep ==
  ASSUME IInv, NEW h \in Harts, NEW p \in Procs, SleepLock(h, p)
  PROVE  IInv'
<1>1. /\ Runs(h, p) /\ pc[p] = "sleep" /\ plock[p] = None
      /\ plock' = [plock EXCEPT ![p] = h]
      /\ pc' = [pc EXCEPT ![p] = "sleep_go"]
      /\ UNCHANGED <<state, priority, chan, sched_lock, lk, locked, order,
                     ready, hpc, idx, best, proc, back, widx, policy, seen>>
  BY ZenonT(40) DEF SleepLock, Runs, On, Acquire, aux
<1>2. Moves(h, p)
  BY <1>1 DEF Moves, IInv, TypeOK
<1>3. TypeOK'
  BY <1>1, ZenonT(40) DEF IInv, TypeOK
<1>4. HartInv' /\ ProcInv'
  <2>1. pc'[p] = "sleep_go" /\ state'[p] = "RUNNING"
    <3>1. state[p] = "RUNNING"
      BY <1>1, ZenonT(40) DEF IInv, ProcInv
    <3> QED
      BY <1>1, <3>1, ZenonT(40) DEF IInv, TypeOK
  <2>2. plock'[p] = h /\ plock[p] = None
    BY <1>1, ZenonT(40) DEF IInv, TypeOK
  <2> QED
    BY <1>2, <2>1, <2>2, Constants, ProcMove DEF IInv, Handing
<1>5. LkInv'
  <2>1. /\ pc'[p] \in {"sleep", "sleep_go", "wakeup"} <=> pc[p] \in {"sleep", "sleep_go", "wakeup"}
        /\ pc'[p] \in {"sleep", "sleep_go"} => pc[p] \in {"sleep", "sleep_go"}
    BY <1>1, ZenonT(40) DEF IInv, TypeOK
  <2> QED
    BY <1>2, <1>1, <2>1, LkStay, ZenonT(40) DEF IInv
<1>6. CritInv'
  BY <1>1 DEF IInv, TypeOK, CritInv, Exclusion, InCrit
<1>7. WakeInv'
  BY <1>1 DEF IInv, TypeOK, WakeInv, NoLostWakeup, Sleeper
<1>8. ScanInv' /\ OrderInv'
  BY <1>1, ChoiceFrame, ZenonT(40) DEF IInv, TypeOK
<1> QED
  BY <1>3, <1>4, <1>5, <1>6, <1>7, <1>8, ZenonT(40) DEF IInv

\* Going to sleep keeps the invariant: p->lock is held before lk is released.
LEMMA SleepGoStep ==
  ASSUME IInv, NEW h \in Harts, NEW p \in Procs, SleepGo(h, p)
  PROVE  IInv'
<1>1. /\ Runs(h, p) /\ pc[p] = "sleep_go"
      /\ lk' = None
      /\ chan' = [chan EXCEPT ![p] = "lk"]
      /\ state' = [state EXCEPT ![p] = "SLEEPING"]
      /\ pc' = [pc EXCEPT ![p] = "sleep_sched"]
      /\ UNCHANGED <<priority, plock, sched_lock, locked, order, ready, hpc,
                     idx, best, proc, back, widx, policy, seen>>
  BY ZenonT(40) DEF SleepGo, Runs, On, LkAsleep, aux
<1>2. Moves(h, p)
  BY <1>1, ZenonT(40) DEF Moves, IInv, TypeOK
<1>3. TypeOK'
  BY <1>1, ZenonT(40) DEF IInv, TypeOK
<1>4. HartInv' /\ ProcInv'
  <2>1. pc'[p] = "sleep_sched" /\ state'[p] = "SLEEPING"
    BY <1>1, ZenonT(40) DEF IInv, TypeOK
  <2>2. plock[p] = h /\ plock' = plock
    BY <1>1, ZenonT(90) DEF IInv, HartInv, Holds, Handing, Runs
  <2>3. \A g \in Harts : plock'[p] = g <=> IF g = h THEN pc'[p] \in Handing ELSE plock[p] = g
    BY <2>1, <2>2, ZenonT(40) DEF Handing
  <2> QED
    BY <1>2, <2>1, <2>3, ProcMove, ZenonT(40) DEF IInv
<1>5. LkInv'
  <2>1. pc'[p] = "sleep_sched" /\ \A q \in Procs : q # p => pc'[q] = pc[q]
    BY <1>1, ZenonT(40) DEF IInv, TypeOK
  <2>2. \A g \in Harts : lk' = g <=> IF g = h THEN pc'[p] \in {"sleep", "sleep_go", "wakeup"}
                                     ELSE lk = g
    <3>1. lk = h
      BY <1>1, ZenonT(40) DEF IInv, LkInv, Runs
    <3>2. \A g \in Harts : g # None
      BY Constants, ZenonT(40)
    <3> QED
      BY <1>1, <2>1, <3>1, <3>2, ZenonT(40)
  <2>3. \A q \in Procs : pc'[q] \in {"sleep", "sleep_go"} => locked'
    BY <1>1, <2>1, ZenonT(40) DEF IInv, LkInv
  <2> QED
    BY <1>2, <2>2, <2>3, LkMove, ZenonT(40) DEF IInv
<1>6. CritInv'
  BY <1>1 DEF IInv, TypeOK, CritInv, Exclusion, InCrit
<1>7. WakeInv'
  <2>1. lk = h /\ locked
    BY <1>1, ZenonT(40) DEF IInv, LkInv, Runs
  <2>2. ASSUME NEW r \in Procs, pc'[r] = "wakeup"
        PROVE  FALSE
    <3>1. r # p /\ pc[r] = "wakeup"
      BY <1>1, <2>2, ZenonT(40) DEF IInv, TypeOK
    <3>2. PICK g \in Harts : Runs(g, r)
      BY <3>1, ZenonT(40) DEF IInv, ProcInv
    <3>3. lk = g
      BY <3>1, <3>2, ZenonT(40) DEF IInv, LkInv, Runs
    <3> QED
      BY <1>1, <2>1, <3>1, <3>2, <3>3, ZenonT(40) DEF Runs
  <2> QED
    BY <1>1, <2>1, <2>2, ZenonT(40) DEF WakeInv, NoLostWakeup
<1>8. ScanInv' /\ OrderInv'
  <2>1. state[p] = "RUNNING"
    BY <1>1, ZenonT(40) DEF IInv, ProcInv
  <2> QED
    BY <1>1, <2>1, ChoiceFrame, ZenonT(40) DEF IInv, TypeOK
<1> QED
  BY <1>3, <1>4, <1>5, <1>6, <1>7, <1>8, ZenonT(40) DEF IInv

\* The return from sleep() keeps the invariant.
LEMMA AwakeStep ==
  ASSUME IInv, NEW h \in Harts, NEW p \in Procs, Awake(h, p)
  PROVE  IInv'
<1>1. /\ Runs(h, p) /\ pc[p] = "slept"
      /\ chan' = [chan EXCEPT ![p] = None]
      /\ plock' = [plock EXCEPT ![p] = None]
      /\ pc' = [pc EXCEPT ![p] = IF chan[p] = "lk" THEN "acquire" ELSE "user"]
      /\ UNCHANGED <<state, priority, sched_lock, lk, locked, order, ready,
                     hpc, idx, best, proc, back, widx, policy, seen>>
  BY ZenonT(40) DEF Awake, Runs, On, aux
<1>2. Moves(h, p)
  BY <1>1, ZenonT(40) DEF Moves, IInv, TypeOK
<1>3. TypeOK'
  BY <1>1, ZenonT(40) DEF IInv, TypeOK
<1>4. HartInv' /\ ProcInv'
  <2>1. plock[p] = h /\ plock'[p] = None /\ pc'[p] \in {"user", "acquire"}
    BY <1>1 DEF IInv, TypeOK, HartInv, Holds, Handing, Runs
  <2>2. state[p] = "RUNNING"
    BY <1>1, ZenonT(40) DEF IInv, ProcInv
  <2> QED
    BY <1>2, <1>1, <2>1, <2>2, Constants, ProcMove DEF IInv, Handing
<1>5. LkInv'
  <2>1. /\ pc'[p] \in {"sleep", "sleep_go", "wakeup"} <=> pc[p] \in {"sleep", "sleep_go", "wakeup"}
        /\ pc'[p] \in {"sleep", "sleep_go"} => pc[p] \in {"sleep", "sleep_go"}
    BY <1>1, ZenonT(40) DEF IInv, TypeOK
  <2> QED
    BY <1>2, <1>1, <2>1, LkStay, ZenonT(40) DEF IInv
<1>6. CritInv'
  BY <1>1 DEF IInv, TypeOK, CritInv, Exclusion, InCrit
<1>7. WakeInv'
  <2>1. state[p] = "RUNNING"
    BY <1>1, ZenonT(40) DEF IInv, ProcInv
  <2> QED
    BY <1>1, <2>1 DEF IInv, TypeOK, WakeInv, NoLostWakeup, Sleeper
<1>8. ScanInv' /\ OrderInv'
  BY <1>1, ChoiceFrame, ZenonT(40) DEF IInv, TypeOK
<1> QED
  BY <1>3, <1>4, <1>5, <1>6, <1>7, <1>8, ZenonT(40) DEF IInv

\* releasesleep() keeps the invariant: a wakeup follows.
LEMMA ReleaseSleepStep ==
  ASSUME IInv, NEW h \in Harts, NEW p \in Procs, ReleaseSleep(h, p)
  PROVE  IInv'
<1>1. /\ Runs(h, p) /\ pc[p] = "crit" /\ lk = None
      /\ lk' = h /\ locked' = FALSE
      /\ widx' = [widx EXCEPT ![p] = 1]
      /\ pc' = [pc EXCEPT ![p] = "wakeup"]
      /\ UNCHANGED <<state, priority, chan, plock, sched_lock, order, ready,
                     hpc, idx, best, proc, back, policy, seen>>
  BY ZenonT(40) DEF ReleaseSleep, Runs, On, aux
<1>2. Moves(h, p)
  BY <1>1, ZenonT(40) DEF Moves, IInv, TypeOK
<1>3. TypeOK'
  <2>1. widx' \in [Procs -> 1 .. NPROC + 1]
    BY <1>1, Constants DEF IInv, TypeOK
  <2>2. locked' \in BOOLEAN
    BY <1>1, ZenonT(40)
  <2> QED
    BY <1>1, <2>1, <2>2, ZenonT(40) DEF IInv, TypeOK
<1>4. HartInv' /\ ProcInv'
  <2>1. pc'[p] = "wakeup" /\ state'[p] = "RUNNING"
    <3>1. state[p] = "RUNNING"
      BY <1>1, ZenonT(40) DEF IInv, ProcInv
    <3> QED
      BY <1>1, <3>1, ZenonT(40) DEF IInv, TypeOK
  <2>2. plock'[p] = plock[p] /\ plock[p] # h
    BY <1>1, ZenonT(40) DEF IInv, HartInv, Holds, Handing, Runs
  <2> QED
    BY <1>2, <2>1, <2>2, Constants, ProcMove DEF IInv, Handing
<1>5. LkInv'
  <2>1. ASSUME NEW q \in Procs, pc'[q] \in {"sleep", "sleep_go"}
        PROVE  FALSE
    <3>1. pc[q] \in {"sleep", "sleep_go"}
      BY <1>1, <2>1, ZenonT(40) DEF IInv, TypeOK
    <3>2. PICK g \in Harts : Runs(g, q)
      BY <3>1, ZenonT(40) DEF IInv, ProcInv
    <3>3. lk = g
      BY <3>1, <3>2, ZenonT(40) DEF IInv, LkInv, Runs
    <3> QED
      BY <1>1, <3>3, Constants, ZenonT(40)
  <2>2. pc'[p] = "wakeup"
    BY <1>1, ZenonT(40) DEF IInv, TypeOK
  <2> QED
    BY <1>2, <1>1, <2>1, <2>2, Constants, LkMove DEF IInv
<1>6. CritInv'
  <2>1. \A q \in Procs : ~InCrit(q)'
    BY <1>1 DEF IInv, TypeOK, CritInv, Exclusion, InCrit
  <2> QED
    BY <1>1, <2>1, ZenonT(40) DEF IInv, TypeOK, CritInv, Exclusion
<1>7. WakeInv'
  <2>1. lk' # None
    BY <1>1, Constants, ZenonT(40)
  <2>2. ASSUME NEW r \in Procs, NEW q \in Procs, pc'[r] = "wakeup", q < widx'[r]
        PROVE  ~Sleeper(q)'
    <3>1. CASE r = p
      BY <1>1, <2>2, <3>1, Constants DEF IInv, TypeOK
    <3>2. CASE r # p
      BY <1>1, <2>2, <3>2 DEF IInv, TypeOK, WakeInv, Sleeper
    <3> QED
      BY <3>1, <3>2, ZenonT(40)
  <2> QED
    BY <2>1, <2>2, ZenonT(40) DEF WakeInv, NoLostWakeup
<1>8. ScanInv' /\ OrderInv'
  BY <1>1, ChoiceFrame, ZenonT(40) DEF IInv, TypeOK
<1> QED
  BY <1>3, <1>4, <1>5, <1>6, <1>7, <1>8, ZenonT(40) DEF IInv

\* The end of wakeup() keeps the invariant: every sleeper was passed.
LEMMA WakeupEndStep ==
  ASSUME IInv, NEW h \in Harts, NEW p \in Procs, WakeupEnd(h, p)
  PROVE  IInv'
<1>1. /\ Runs(h, p) /\ pc[p] = "wakeup" /\ widx[p] > NPROC
      /\ lk' = None
      /\ widx' = [widx EXCEPT ![p] = 1]
      /\ pc' = [pc EXCEPT ![p] = "user"]
      /\ UNCHANGED <<state, priority, chan, plock, sched_lock, locked, order,
                     ready, hpc, idx, best, proc, back, policy, seen>>
  BY ZenonT(40) DEF WakeupEnd, Runs, On, aux
<1>2. Moves(h, p)
  BY <1>1, ZenonT(40) DEF Moves, IInv, TypeOK
<1>3. TypeOK'
  <2>1. widx' \in [Procs -> 1 .. NPROC + 1]
    BY <1>1, Constants DEF IInv, TypeOK
  <2> QED
    BY <1>1, <2>1, ZenonT(40) DEF IInv, TypeOK
<1>4. HartInv' /\ ProcInv'
  <2>1. pc'[p] = "user" /\ state'[p] = "RUNNING"
    <3>1. state[p] = "RUNNING"
      BY <1>1, ZenonT(40) DEF IInv, ProcInv
    <3> QED
      BY <1>1, <3>1, ZenonT(40) DEF IInv, TypeOK
  <2>2. plock'[p] = plock[p] /\ plock[p] # h
    BY <1>1, ZenonT(40) DEF IInv, HartInv, Holds, Handing, Runs
  <2> QED
    BY <1>2, <2>1, <2>2, Constants, ProcMove DEF IInv, Handing
<1>5. LkInv'
  <2>1. lk = h /\ pc'[p] = "user" /\ \A q \in Procs : pc'[q] \in {"sleep", "sleep_go"} => locked'
    BY <1>1 DEF IInv, TypeOK, LkInv, Runs
  <2> QED
    BY <1>2, <1>1, <2>1, Constants, LkMove, ZenonT(40) DEF IInv
<1>6. CritInv'
  BY <1>1 DEF IInv, TypeOK, CritInv, Exclusion, InCrit
<1>7. WakeInv'
  <2>1. \A q \in Procs : ~Sleeper(q)
    BY <1>1, Constants DEF IInv, TypeOK, WakeInv
  <2> QED
    BY <1>1, <2>1, ZenonT(40) DEF WakeInv, NoLostWakeup, Sleeper
<1>8. ScanInv' /\ OrderInv'
  BY <1>1, ChoiceFrame, ZenonT(40) DEF IInv, TypeOK
<1> QED
  BY <1>3, <1>4, <1>5, <1>6, <1>7, <1>8, ZenonT(40) DEF IInv

\* Sleeping for a device keeps the invariant.
LEMMA IoSleepStep ==
  ASSUME IInv, NEW h \in Harts, NEW p \in Procs, IoSleep(h, p)
  PROVE  IInv'
<1>1. /\ Runs(h, p) /\ pc[p] = "user" /\ plock[p] = None
      /\ plock' = [plock EXCEPT ![p] = h]
      /\ chan' = [chan EXCEPT ![p] = "io"]
      /\ state' = [state EXCEPT ![p] = "SLEEPING"]
      /\ pc' = [pc EXCEPT ![p] = "sleep_sched"]
      /\ UNCHANGED <<priority, sched_lock, lk, locked, order, ready, hpc, idx,
                     best, proc, back, widx, policy, seen>>
  BY ZenonT(40) DEF IoSleep, Runs, On, Acquire, aux
<1>2. Moves(h, p)
  BY <1>1 DEF Moves, IInv, TypeOK
<1>3. TypeOK'
  BY <1>1, ZenonT(40) DEF IInv, TypeOK
<1>4. HartInv' /\ ProcInv'
  <2>1. pc'[p] = "sleep_sched" /\ state'[p] = "SLEEPING"
    BY <1>1, ZenonT(40) DEF IInv, TypeOK
  <2>2. plock'[p] = h /\ plock[p] = None
    BY <1>1, ZenonT(40) DEF IInv, TypeOK
  <2> QED
    BY <1>2, <2>1, <2>2, Constants, ProcMove DEF IInv, Handing
<1>5. LkInv'
  <2>1. /\ pc'[p] \in {"sleep", "sleep_go", "wakeup"} <=> pc[p] \in {"sleep", "sleep_go", "wakeup"}
        /\ pc'[p] \in {"sleep", "sleep_go"} => pc[p] \in {"sleep", "sleep_go"}
    BY <1>1, ZenonT(40) DEF IInv, TypeOK
  <2> QED
    BY <1>2, <1>1, <2>1, LkStay, ZenonT(40) DEF IInv
<1>6. CritInv'
  BY <1>1 DEF IInv, TypeOK, CritInv, Exclusion, InCrit
<1>7. WakeInv'
  BY <1>1 DEF IInv, TypeOK, WakeInv, NoLostWakeup, Sleeper
<1>8. ScanInv' /\ OrderInv'
  <2>1. state[p] = "RUNNING"
    BY <1>1, ZenonT(40) DEF IInv, ProcInv
  <2> QED
    BY <1>1, <2>1, ChoiceFrame, ZenonT(40) DEF IInv, TypeOK
<1> QED
  BY <1>3, <1>4, <1>5, <1>6, <1>7, <1>8, ZenonT(40) DEF IInv

\* The wakeup of a device's sleeper keeps the invariant.
LEMMA IoWakeupStep ==
  ASSUME IInv, NEW h \in Harts, NEW q \in Procs, IoWakeup(h, q)
  PROVE  IInv'
<1>1. /\ plock[q] = None /\ state[q] = "SLEEPING"
      /\ state' = [state EXCEPT ![q] = "RUNNABLE"]
      /\ order' = Stamp(q) /\ ready' = Arrive(q)
      /\ UNCHANGED <<priority, chan, plock, sched_lock, lk, locked, hpc, idx,
                     best, proc, pc, back, widx, policy, seen>>
  BY ZenonT(40) DEF IoWakeup, aux
<1>2. TypeOK'
  <2>1. order' \in [Procs -> SUBSET Procs] /\ ready' \in [Procs -> SUBSET Procs]
    BY <1>1 DEF IInv, TypeOK, Stamp, Arrive
  <2> QED
    BY <1>1, <2>1, ZenonT(40) DEF IInv, TypeOK
<1>3. HartInv' /\ ProcInv'
  BY <1>1, WakeOne, ZenonT(40) DEF IInv
<1>4. LkInv'
  BY <1>1, ZenonT(40) DEF IInv, LkInv
<1>5. CritInv'
  BY <1>1, ZenonT(40) DEF IInv, CritInv, Exclusion, InCrit
<1>6. WakeInv'
  <2>1. \A r \in Procs : Sleeper(r)' => Sleeper(r)
    BY <1>1, ZenonT(40) DEF IInv, TypeOK, Sleeper
  <2> QED
    BY <1>1, <2>1, ZenonT(40) DEF IInv, WakeInv, NoLostWakeup, Sleeper
<1>7. ScanInv' /\ OrderInv'
  <2>1. \A g \in Harts : hpc[g] \in Scanning => best[g] # q
    BY <1>1, Constants, Candidate DEF IInv
  <2> QED
    BY <1>1, <2>1, ChoiceWake, ZenonT(40) DEF IInv
<1> QED
  BY <1>2, <1>3, <1>4, <1>5, <1>6, <1>7, ZenonT(40) DEF IInv

\* kill() waking a sleeper keeps the invariant.
LEMMA KillStep ==
  ASSUME IInv, NEW h \in Harts, NEW p \in Procs, NEW q \in Procs, Kill(h, p, q)
  PROVE  IInv'
<1>1. /\ plock[q] = None /\ state[q] = "SLEEPING"
      /\ state' = [state EXCEPT ![q] = "RUNNABLE"]
      /\ UNCHANGED <<priority, chan, plock, sched_lock, lk, locked, order,
                     ready, hpc, idx, best, proc, pc, back, widx, policy, seen>>
  BY ZenonT(40) DEF Kill, aux
<1>2. TypeOK'
  BY <1>1, ZenonT(40) DEF IInv, TypeOK
<1>3. HartInv' /\ ProcInv'
  BY <1>1, WakeOne, ZenonT(40) DEF IInv
<1>4. LkInv'
  BY <1>1, ZenonT(40) DEF IInv, LkInv
<1>5. CritInv'
  BY <1>1, ZenonT(40) DEF IInv, CritInv, Exclusion, InCrit
<1>6. WakeInv'
  <2>1. \A r \in Procs : Sleeper(r)' => Sleeper(r)
    BY <1>1, ZenonT(40) DEF IInv, TypeOK, Sleeper
  <2> QED
    BY <1>1, <2>1, ZenonT(40) DEF IInv, WakeInv, NoLostWakeup, Sleeper
<1>7. ScanInv' /\ OrderInv'
  BY <1>1, ChoiceFrame, ZenonT(40) DEF IInv, TypeOK
<1> QED
  BY <1>2, <1>3, <1>4, <1>5, <1>6, <1>7, ZenonT(40) DEF IInv

\* A step of wakeup() keeps the invariant: it passes nobody by who sleeps.
LEMMA WakeupStepStep ==
  ASSUME IInv, NEW h \in Harts, NEW p \in Procs, WakeupStep(h, p)
  PROVE  IInv'
<1> DEFINE w == widx[p]
<1>1. /\ Runs(h, p) /\ pc[p] = "wakeup" /\ w \in Procs /\ widx' = [widx EXCEPT ![p] = w + 1]
      /\ UNCHANGED <<priority, chan, plock, sched_lock, lk, locked, hpc, idx, best,
                     proc, pc, back, policy, seen>>
  BY Constants DEF WakeupStep, On, Runs, IInv, TypeOK, aux
<1>2. widx' \in [Procs -> 1 .. NPROC + 1]
  <2>1. \A i \in 1 .. NPROC : i + 1 \in 1 .. NPROC + 1
    BY Constants
  <2>2. w + 1 \in 1 .. NPROC + 1
    BY <1>1, <2>1, Constants, ZenonT(40)
  <2> QED
    BY <1>1, <2>2, ZenonT(40) DEF IInv, TypeOK
<1>3. CASE UNCHANGED <<state, order, ready>> /\ ~(w # p /\ Sleeper(w))
  <2> HIDE DEF w
  <2>1. TypeOK'
    BY <1>1, <1>2, <1>3, ZenonT(40) DEF IInv, TypeOK
  <2>2. HartInv' /\ ProcInv'
    BY <1>1, <1>3, StayFrame, ZenonT(40) DEF IInv
  <2>3. LkInv' /\ CritInv'
    <3>1. LkInv'
      BY <1>1, ZenonT(40) DEF IInv, LkInv
    <3>2. CritInv'
      BY <1>1, ZenonT(40) DEF IInv, CritInv, Exclusion, InCrit
    <3> QED
      BY <3>1, <3>2, ZenonT(40)
  <2>4. ~Sleeper(w)
    BY <1>1, <1>3, ZenonT(40) DEF IInv, ProcInv, Sleeper
  <2>5. WakeInv'
    <3>1. NoLostWakeup'
      BY <1>1, <1>3, ZenonT(40) DEF IInv, WakeInv, NoLostWakeup
    <3>2. ASSUME NEW r \in Procs, NEW q \in Procs, pc[r] = "wakeup", q < widx'[r]
          PROVE  ~Sleeper(q)
      <4>1. CASE r # p
        BY <1>1, <3>2, <4>1 DEF IInv, TypeOK, WakeInv
      <4>2. CASE r = p
        <5>1. q < w \/ q = w
          BY <1>1, <3>2, <4>2, Constants DEF IInv, TypeOK
        <5>2. q < w => ~Sleeper(q)
          BY <3>2, <4>2, ZenonT(40) DEF IInv, WakeInv, w
        <5> QED
          BY <2>4, <5>1, <5>2, ZenonT(40)
      <4> QED
        BY <4>1, <4>2, ZenonT(40)
    <3> QED
      BY <1>1, <1>3, <3>1, <3>2, ZenonT(40) DEF WakeInv, Sleeper
  <2>6. ScanInv' /\ OrderInv'
    BY <1>1, <1>3, ChoiceFrame, ZenonT(40) DEF IInv, TypeOK
  <2> QED
    BY <2>1, <2>2, <2>3, <2>5, <2>6, ZenonT(40) DEF IInv
<1>4. CASE /\ w # p /\ Sleeper(w) /\ plock[w] = None
           /\ state' = [state EXCEPT ![w] = "RUNNABLE"]
           /\ order' = Stamp(w) /\ ready' = Arrive(w)
  <2> HIDE DEF w
  <2>1. TypeOK'
    <3>1. order' \in [Procs -> SUBSET Procs] /\ ready' \in [Procs -> SUBSET Procs]
      BY <1>1, <1>4 DEF IInv, TypeOK, Stamp, Arrive
    <3> QED
      BY <1>1, <1>2, <1>4, <3>1, ZenonT(40) DEF IInv, TypeOK
  <2>2. HartInv' /\ ProcInv'
    BY <1>1, <1>4, WakeOne, ZenonT(40) DEF IInv, Sleeper
  <2>3. LkInv' /\ CritInv'
    <3>1. LkInv'
      BY <1>1, ZenonT(40) DEF IInv, LkInv
    <3>2. CritInv'
      BY <1>1, ZenonT(40) DEF IInv, CritInv, Exclusion, InCrit
    <3> QED
      BY <3>1, <3>2, ZenonT(40)
  <2>4. state'[w] = "RUNNABLE" /\ \A q \in Procs : Sleeper(q)' => Sleeper(q)
    <3>1. state'[w] = "RUNNABLE" /\ \A q \in Procs : q # w => state'[q] = state[q]
      BY <1>1, <1>4, ZenonT(40) DEF IInv, TypeOK
    <3>2. ASSUME NEW q \in Procs, Sleeper(q)' PROVE Sleeper(q)
      BY <1>1, <3>1, <3>2, ZenonT(40) DEF Sleeper
    <3> QED
      BY <3>1, <3>2, ZenonT(40)
  <2>5. WakeInv'
    <3>1. NoLostWakeup'
      BY <1>1, <2>4, ZenonT(40) DEF IInv, WakeInv, NoLostWakeup, Sleeper
    <3>2. ASSUME NEW r \in Procs, NEW q \in Procs, pc[r] = "wakeup", q < widx'[r]
          PROVE  ~Sleeper(q)'
      <4>1. CASE r # p
        BY <1>1, <2>4, <3>2, <4>1, ZenonT(40) DEF IInv, TypeOK, WakeInv
      <4>2. CASE r = p
        <5>1. q < w \/ q = w
          BY <1>1, <3>2, <4>2, Constants DEF IInv, TypeOK
        <5>2. q < w => ~Sleeper(q)
          BY <3>2, <4>2, ZenonT(40) DEF IInv, WakeInv, w
        <5> QED
          BY <2>4, <5>1, <5>2, ZenonT(40) DEF Sleeper
      <4> QED
        BY <4>1, <4>2, ZenonT(40)
    <3> QED
      BY <1>1, <3>1, <3>2, ZenonT(40) DEF WakeInv
  <2>6. ScanInv' /\ OrderInv'
    <3>1. \A g \in Harts : hpc[g] \in Scanning => best[g] # w
      BY <1>1, <1>4, Constants, Candidate DEF IInv
    <3> QED
      BY <1>1, <1>4, <3>1, ChoiceWake, ZenonT(40) DEF IInv, Sleeper
  <2> QED
    BY <2>1, <2>2, <2>3, <2>5, <2>6, ZenonT(40) DEF IInv
<1> QED
  BY <1>3, <1>4, ZenonT(40) DEF WakeupStep, Sleeper

\* Setting a priority keeps the invariant: the best so far cannot be the one
\* changed, since its lock is held.
LEMMA SetPriorityStep ==
  ASSUME IInv, NEW h \in Harts, NEW p \in Procs, NEW q \in Procs, SetPriority(h, p, q)
  PROVE  IInv'
<1>1. /\ policy = "PRIORITY" /\ plock[q] = None
      /\ \E v \in Priorities : priority' = [priority EXCEPT ![q] = v]
      /\ seen' = seen \ {q}
      /\ UNCHANGED <<state, chan, plock, sched_lock, lk, locked, order, ready,
                     hpc, idx, best, proc, pc, back, widx, policy>>
  BY ZenonT(40) DEF SetPriority, aux
<1>2. TypeOK'
  <2>1. priority' \in [Procs -> 0 .. 20]
    BY <1>1, SchedAssumption DEF IInv, TypeOK
  <2> QED
    BY <1>1, <2>1, ZenonT(40) DEF IInv, TypeOK
<1>3. HartInv' /\ ProcInv'
  BY <1>1, StayFrame, ZenonT(40) DEF IInv
<1>4. LkInv' /\ CritInv' /\ WakeInv'
  <2>1. LkInv'
    BY <1>1, ZenonT(40) DEF IInv, LkInv
  <2>2. CritInv'
    BY <1>1, ZenonT(40) DEF IInv, CritInv, Exclusion, InCrit
  <2>3. WakeInv'
    BY <1>1, ZenonT(40) DEF IInv, WakeInv, NoLostWakeup, Sleeper
  <2> QED
    BY <2>1, <2>2, <2>3, ZenonT(40)
<1>5. ScanInv'
  <2>1. \A r \in Procs : r # q => priority'[r] = priority[r]
    BY <1>1 DEF IInv, TypeOK
  <2>2. \A g \in Harts : hpc[g] \in Scanning => best[g] # q
    BY <1>1, Constants, Candidate DEF IInv
  <2>3. ASSUME NEW g \in Harts, NEW r \in seen', hpc[g] \in Scanning, r < idx[g]
        PROVE  best[g] # None /\ priority'[best[g]] <= priority'[r]
    <3>1. r \in seen /\ r \in Procs /\ r # q
      BY <1>1, <2>3, ZenonT(40) DEF IInv, TypeOK
    <3>2. best[g] # None /\ priority[best[g]] <= priority[r]
      BY <1>1, <2>3, <3>1, ZenonT(40) DEF IInv, ScanInv
    <3>3. best[g] \in Procs /\ best[g] # q
      BY <2>2, <2>3, <3>2, ZenonT(40) DEF IInv, TypeOK
    <3>4. priority'[r] = priority[r] /\ priority'[best[g]] = priority[best[g]]
      BY <2>1, <3>1, <3>3, ZenonT(40)
    <3> QED
      BY <3>2, <3>4, ZenonT(40)
  <2> QED
    BY <1>1, <2>3, ZenonT(40) DEF IInv, ScanInv
<1>6. OrderInv'
  BY <1>1, ZenonT(40) DEF OrderInv
<1> QED
  BY <1>2, <1>3, <1>4, <1>5, <1>6, ZenonT(40) DEF IInv

\* Every step keeps the invariant.
LEMMA NextInv ==
  ASSUME IInv, [Next]_vars
  PROVE  IInv'
<1>1. CASE UNCHANGED vars
  <2>1. UNCHANGED <<state, priority, chan, plock, sched_lock, lk, locked, order, ready,
                    hpc, idx, best, proc, pc, back, widx, policy, seen>>
    BY <1>1, ZenonT(40) DEF vars
  <2>2. TypeOK'
    BY <2>1, ZenonT(40) DEF IInv, TypeOK
  <2>3. HartInv' /\ ProcInv'
    BY <2>1, StayFrame, ZenonT(40) DEF IInv
  <2>4. LkInv' /\ CritInv' /\ WakeInv'
    BY <2>1, SchedFrame, ZenonT(40) DEF IInv
  <2>5. ScanInv' /\ OrderInv'
    BY <2>1, ChoiceFrame, ZenonT(40) DEF IInv, TypeOK
  <2> QED
    BY <2>2, <2>3, <2>4, <2>5, ZenonT(40) DEF IInv
<1>2. ASSUME NEW h \in Harts, Scheduler(h)
      PROVE  IInv'
  BY <1>2, SchedTopStep, ScanStepStep, ScanEndStep, DispatchStep, WfiStep, BackStep, ZenonT(40)
     DEF Scheduler
<1>3. ASSUME NEW h \in Harts, NEW p \in Procs, Process(h, p)
      PROVE  IInv'
  <2>1. CASE \E q \in Procs : Kill(h, p, q) \/ SetPriority(h, p, q)
    BY <2>1, KillStep, SetPriorityStep, ZenonT(40)
  <2>2. CASE SwtchOut(h, p) \/ Yield(h, p) \/ Resume(h, p) \/ AcquireSleep(h, p)
    BY <2>2, SwtchOutStep, YieldStep, ResumeStep, AcquireSleepStep, ZenonT(40)
  <2>3. CASE TryLock(h, p) \/ SleepLock(h, p) \/ SleepGo(h, p) \/ Awake(h, p)
    BY <2>3, TryLockStep, SleepLockStep, SleepGoStep, AwakeStep, ZenonT(40)
  <2>4. CASE ReleaseSleep(h, p) \/ WakeupStep(h, p) \/ WakeupEnd(h, p) \/ IoSleep(h, p)
    BY <2>4, ReleaseSleepStep, WakeupStepStep, WakeupEndStep, IoSleepStep, ZenonT(40)
  <2> QED
    BY <1>3, <2>1, <2>2, <2>3, <2>4, ZenonT(40) DEF Process
<1>4. ASSUME NEW h \in Harts, NEW p \in Procs, IoWakeup(h, p)
      PROVE  IInv'
  BY <1>4, IoWakeupStep, ZenonT(40)
<1> QED
  BY <1>1, <1>2, <1>3, <1>4, ZenonT(40) DEF Next

\* The inductive invariant holds throughout every behaviour of Sched.
THEOREM Invariance == Spec => []IInv
<1>1. Init => IInv
  BY InitInv, ZenonT(40)
<1>2. IInv /\ [Next]_vars => IInv'
  BY NextInv, ZenonT(40)
<1> QED
  BY <1>1, <1>2, PTL DEF Spec

-----------------------------------------------------------------------------

\* The invariant says who runs on which stack.
LEMMA SwitchingHolds ==
  ASSUME IInv
  PROVE  Switching
<1>1. OneStack
  BY Candidate, ZenonT(40) DEF IInv, OneStack, ProcInv, Scanning
<1>2. StateTrue
  <2> SUFFICES ASSUME NEW p \in Procs, plock[p] = None, NEW h \in Harts, Runs(h, p)
               PROVE  pc[p] \notin {"yield_sched", "sleep_sched"}
    BY ZenonT(40) DEF IInv, ProcInv, StateTrue
  <2>1. ~Holds(h, p)
    BY Constants DEF IInv, HartInv
  <2> QED
    BY <2>1, ZenonT(40) DEF IInv, HartInv, Holds, Handing, Runs
<1> QED
  BY <1>1, <1>2, ZenonT(40) DEF IInv, Switching

\* The invariant says who holds which lock.
LEMMA LockingHolds ==
  ASSUME IInv
  PROVE  Locking
<1>1. SchedLocks
  <2> SUFFICES ASSUME NEW h \in Harts, NEW p \in Procs, Runs(h, p),
                      pc[p] \in {"yield_sched", "sleep_sched"}
               PROVE  HoldsOnly(h, p) /\ state[p] # "RUNNING"
    BY ZenonT(40) DEF SchedLocks
  <2>1. \A q \in Procs : plock[q] = h <=> q = p
    BY DEF IInv, HartInv, Holds, Handing, Runs
  <2>2. sched_lock # h /\ lk # h
    BY ZenonT(40) DEF IInv, HartInv, LkInv, Runs, Scanning
  <2>3. HoldsOnly(h, p)
    BY <2>1, <2>2, ZenonT(40) DEF HoldsOnly
  <2> QED
    BY <2>3, ZenonT(40) DEF IInv, ProcInv
<1>2. Exclusion
  BY ZenonT(40) DEF IInv, CritInv
<1> QED
  BY <1>1, <1>2, ZenonT(40) DEF Locking

\* Only the scheduler makes a process RUNNING, and it takes the candidate of a
\* finished scan.
LEMMA ChoiceHolds ==
  ASSUME IInv, Next, NEW p \in Procs, NEW q \in seen,
         policy # "ROUND_ROBIN", state[p] = "RUNNABLE", state'[p] = "RUNNING"
  PROVE  /\ policy = "FCFS" => ~Before(q, p)
         /\ policy = "PRIORITY" => priority[p] <= priority[q]
<1>1. PICK h \in Harts : Dispatch(h)
  <2>1. ASSUME NEW h \in Harts, Scheduler(h), ~Dispatch(h)
        PROVE  state' = state
    BY <2>1, ZenonT(40) DEF Scheduler, SchedTop, ScanStep, ScanEnd, Wfi, Back
  <2>2. ASSUME NEW h \in Harts, NEW r \in Procs, Process(h, r)
        PROVE  state'[p] # "RUNNING"
    <3>1. state' = state
          \/ \E w \in Procs, v \in {"RUNNABLE", "SLEEPING"} : state' = [state EXCEPT ![w] = v]
      <4>1. CASE \E w \in Procs : Kill(h, r, w) \/ SetPriority(h, r, w)
        BY <4>1, ZenonT(40) DEF Kill, SetPriority
      <4>2. CASE SwtchOut(h, r) \/ Yield(h, r) \/ Resume(h, r) \/ AcquireSleep(h, r)
        BY <4>2, ZenonT(40) DEF SwtchOut, Yield, Resume, AcquireSleep
      <4>3. CASE TryLock(h, r) \/ SleepLock(h, r) \/ SleepGo(h, r) \/ Awake(h, r)
        BY <4>3, ZenonT(40) DEF TryLock, SleepLock, SleepGo, Awake
      <4>4. CASE ReleaseSleep(h, r) \/ WakeupEnd(h, r) \/ IoSleep(h, r)
        BY <4>4, ZenonT(40) DEF ReleaseSleep, WakeupEnd, IoSleep
      <4>5. CASE WakeupStep(h, r)
        <5>1. widx[r] <= NPROC => widx[r] \in Procs
          BY Constants DEF IInv, TypeOK
        <5> QED
          BY <4>5, <5>1, ZenonT(40) DEF WakeupStep
      <4> QED
        BY <2>2, <4>1, <4>2, <4>3, <4>4, <4>5, ZenonT(40) DEF Process
    <3> QED
      BY <3>1, ZenonT(40) DEF IInv, TypeOK
  <2>3. ASSUME NEW h \in Harts, NEW r \in Procs, IoWakeup(h, r)
        PROVE  state'[p] # "RUNNING"
    BY <2>3, ZenonT(40) DEF IoWakeup, IInv, TypeOK
  <2> QED
    BY <2>1, <2>2, <2>3, ZenonT(40) DEF Next
<1>2. best[h] = p /\ hpc[h] = "chosen"
  BY <1>1, ZenonT(40) DEF Dispatch, IInv, TypeOK
<1>3. q \in Procs /\ q < idx[h]
  <2>1. q \in Procs
    BY ZenonT(40) DEF IInv, TypeOK
  <2>2. idx[h] = NPROC + 1
    BY <1>2, ZenonT(40) DEF IInv, ScanInv
  <2> QED
    BY <2>1, <2>2, Constants
<1>4. /\ policy = "PRIORITY" => priority[p] <= priority[q]
      /\ policy = "FCFS" => p = q \/ Earlier(p, q)
  BY <1>2, <1>3, ZenonT(40) DEF IInv, ScanInv, Scanning
<1>5. policy = "FCFS" => ~Before(q, p)
  BY <1>3, <1>4, ZenonT(40) DEF IInv, OrderInv, Before
<1> QED
  BY <1>4, <1>5, ZenonT(40)

\* On any number of harts: a kernel stack is executed by at most one of them, and
\* p->state tells the truth whenever p->lock is free (scheduler(), sched(),
\* yield(), sleep()).
THEOREM SchedSwitching == Spec => []Switching
  BY Invariance, SwitchingHolds, PTL

\* sched() always finds exactly p->lock held, and the sleeplock of
\* acquiresleep() and releasesleep() excludes.
THEOREM SchedLocking == Spec => []Locking
  BY Invariance, LockingHolds, PTL

\* No wakeup(lk) is lost between the look at lk->locked and the sleep on it.
THEOREM SchedNoLostWakeup == Spec => []NoLostWakeup
<1>1. IInv => NoLostWakeup
  BY ZenonT(40) DEF IInv, WakeInv
<1> QED
  BY <1>1, Invariance, PTL

\* FCFS dispatches the process that was woken first and PRIORITY one with the
\* best priority, among those that were runnable when the scan began, however
\* many harts wake processes and set priorities meanwhile.
THEOREM SchedRightChoice == Spec => RightChoice
<1> DEFINE
  First == \A p, q \in Procs :
             /\ policy = "FCFS" /\ state[p] = "RUNNABLE" /\ state'[p] = "RUNNING"
             /\ q \in seen
             => ~Before(q, p)
  Best == \A p, q \in Procs :
            /\ policy = "PRIORITY" /\ state[p] = "RUNNABLE" /\ state'[p] = "RUNNING"
            /\ q \in seen
            => priority[p] <= priority[q]
<1>1. IInv /\ [Next]_vars => [First]_vars
  BY ChoiceHolds, ZenonT(40)
<1>2. IInv /\ [Next]_vars => [Best]_vars
  BY ChoiceHolds, ZenonT(40)
<1> QED
  BY <1>1, <1>2, Invariance, PTL DEF Spec, RightChoice, FirstCome, PriorityFirst
=============================================================================
