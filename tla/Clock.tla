------------------------------- MODULE Clock --------------------------------
(***************************************************************************)
(* The clock: clockintr() of kernel/trap.c and sys_sleep() of                *)
(* kernel/sysproc.c, which share `ticks' under tickslock.  A sleeper holds   *)
(* tickslock at the loop's test ("test") and between the test of killed()    *)
(* and sleep() ("going"), where a kill() can still fall: sleep() does not    *)
(* look at it again.                                                         *)
(***************************************************************************)
EXTENDS Integers

CONSTANTS
  Sleepers,
  TICKWRAP,   \* ticks is taken modulo this (2^32)
  MAXSLEEP    \* the longest sleep(), a positive int: less than half of that

ASSUME ClockAssumption ==
  TICKWRAP \in Nat /\ MAXSLEEP \in Nat \ {0} /\ 2 * MAXSLEEP < TICKWRAP

VARIABLES
  ticks,
  spc, ticks0, want,   \* each sleeper: its place, ticks0 and n
  skilled,             \* p->killed
  passed,              \* history: ticks since ticks0 was read, up to TICKWRAP
  slept                \* history: what the last sleep() returned, and did it last

clockVars == <<ticks, spc, ticks0, want, skilled, passed, slept>>

\* ticks is zeroed at boot, and may have come round to any value since.
ClockInit ==
  /\ ticks \in 0 .. TICKWRAP - 1
  /\ spc = [p \in Sleepers |-> "idle"] /\ skilled = [p \in Sleepers |-> FALSE]
  /\ ticks0 = [p \in Sleepers |-> 0] /\ want = [p \in Sleepers |-> 0]
  /\ passed = [p \in Sleepers |-> 0] /\ slept = [p \in Sleepers |-> "enough"]

\* tickslock
Held == \E p \in Sleepers : spc[p] \in {"test", "going"}

\* n < 0 is taken for 0.
SleepCall(p, k) ==
  /\ spc[p] = "idle" /\ ~Held
  /\ spc' = [spc EXCEPT ![p] = "test"]
  /\ ticks0' = [ticks0 EXCEPT ![p] = ticks]
  /\ want' = [want EXCEPT ![p] = IF k < 0 THEN 0 ELSE k]
  /\ passed' = [passed EXCEPT ![p] = 0]
  /\ UNCHANGED <<ticks, skilled, slept>>

\* while(ticks - ticks0 < n): unsigned, so right across the wrap of ticks.
TooEarlyDeadline(p) ==  \* mutant: ticks is compared with a deadline
  ticks < (ticks0[p] + want[p]) % TICKWRAP
TooEarly(p) == (ticks - ticks0[p]) % TICKWRAP < want[p]

SleepReturn(p, how) ==
  /\ spc' = [spc EXCEPT ![p] = "idle"] /\ skilled' = [skilled EXCEPT ![p] = FALSE]
  /\ slept' = [slept EXCEPT ![p] = how]
  /\ ticks0' = [ticks0 EXCEPT ![p] = 0] /\ want' = [want EXCEPT ![p] = 0]
  /\ passed' = [passed EXCEPT ![p] = 0]

SleepTest(p) ==
  /\ spc[p] = "test"
  /\ \/ /\ ~TooEarly(p)
        /\ SleepReturn(p, IF passed[p] >= want[p] THEN "enough" ELSE "short")
     \/ TooEarly(p) /\ skilled[p] /\ SleepReturn(p, "killed")
     \/ /\ TooEarly(p) /\ ~skilled[p] /\ spc' = [spc EXCEPT ![p] = "going"]
        /\ UNCHANGED <<ticks0, want, skilled, passed, slept>>
  /\ UNCHANGED ticks

\* sleep(&ticks, &tickslock): to sleep, and once woken up, back with the lock.
SleepGo(p) ==
  /\ spc[p] = "going" /\ spc' = [spc EXCEPT ![p] = "asleep"]
  /\ UNCHANGED <<ticks, ticks0, want, skilled, passed, slept>>

SleepRelock(p) ==
  /\ spc[p] = "woken" /\ ~Held /\ spc' = [spc EXCEPT ![p] = "test"]
  /\ UNCHANGED <<ticks, ticks0, want, skilled, passed, slept>>

\* clockintr() on hart 0; the only other thing that ends the sleep is kill().
WakesAllNot(f) == f  \* mutant: no wakeup(&ticks)
WakesAll(f) == [p \in Sleepers |-> IF f[p] = "asleep" THEN "woken" ELSE f[p]]
clockintr ==
  /\ ~Held
  /\ ticks' = (ticks + 1) % TICKWRAP
  /\ spc' = WakesAll(spc)
  /\ passed' = [p \in Sleepers |->
                  CASE spc[p] = "idle" -> 0
                    [] passed[p] = TICKWRAP -> TICKWRAP
                    [] OTHER -> passed[p] + 1]
  /\ UNCHANGED <<ticks0, want, skilled, slept>>

SleepKill(p) ==
  /\ spc[p] # "idle"
  /\ skilled' = [skilled EXCEPT ![p] = TRUE]
  /\ spc' = [spc EXCEPT ![p] = IF @ = "asleep" THEN "woken" ELSE @]
  /\ UNCHANGED <<ticks, ticks0, want, passed, slept>>

SleepStep(p) == SleepTest(p) \/ SleepGo(p) \/ SleepRelock(p)

ClockNext ==
  \/ clockintr
  \/ \E p \in Sleepers : \/ SleepStep(p) \/ SleepKill(p)
                         \/ \E k \in -1 .. MAXSLEEP : SleepCall(p, k)

-----------------------------------------------------------------------------
\* sleep(n) returns 0 only when n ticks have passed, wherever the 32-bit counter
\* wraps (sysproc.c:55).
SleepsLongEnough == \A p \in Sleepers : slept[p] # "short"

\* p was kept off the harts for a whole turn of the counter.
TurnLate(p) == passed[p] = TICKWRAP

\* Nobody is left asleep once the time has come, unless they come to look a turn
\* of the counter late.  A kill() between the test and sleep() costs one tick.
NobodyOversleeps ==
  \A p \in Sleepers : spc[p] = "asleep" => passed[p] < want[p] \/ TurnLate(p)

\* sleep() returns, provided that no new sleep() starts (a process that sleeps
\* again and again from an earlier slot can keep a woken one from running) and
\* that no sleeper, once woken, is a turn of the counter late in running.
NoNewSleep == \A p \in Sleepers, k \in -1 .. MAXSLEEP : ~SleepCall(p, k)
SleepEnds ==
  <>[][NoNewSleep]_clockVars =>
    \A p \in Sleepers :
      spc[p] # "idle" ~> (spc[p] = "idle" \/ (spc[p] = "woken" /\ TurnLate(p)))
=============================================================================
