------------------------------ MODULE Spinlock ------------------------------
(***************************************************************************)
(* kernel/spinlock.c on several harts: one lock, the nesting count noff of   *)
(* push_off()/pop_off(), and the interrupt enable bit of each hart.  The     *)
(* operators give the effect of a call on hart h; modules that use the lock  *)
(* put them into their steps.  acquire() is two steps: push_off(), and then  *)
(* the atomic swap that succeeds once the lock is free.                      *)
(***************************************************************************)
EXTENDS Integers

CONSTANTS Harts, None

VARIABLES
  holder,   \* lk->locked and lk->cpu
  noff,     \* cpus[h].noff
  intena,   \* cpus[h].intena
  sie       \* SSTATUS_SIE of hart h

lockVars == <<holder, noff, intena, sie>>

LockInit ==
  /\ holder = None
  /\ noff = [h \in Harts |-> 0]
  /\ intena = [h \in Harts |-> FALSE]
  /\ sie = [h \in Harts |-> TRUE]

\* push_off(): interrupts go off, and the first one remembers what they were.
MaskedNot(h) == sie[h]  \* mutant: without intr_off()
Masked(h) == FALSE
push_off(h) ==
  /\ sie' = [sie EXCEPT ![h] = Masked(h)]
  /\ intena' = [intena EXCEPT ![h] = IF noff[h] = 0 THEN sie[h] ELSE @]
  /\ noff' = [noff EXCEPT ![h] = @ + 1]

\* The swap in acquire(), after which lk->cpu is this hart.
Swap(h) == holder = None /\ holder' = h

\* pop_off(): the last one turns interrupts on if they were on.  While noff is 0
\* intena means nothing, and is kept FALSE.
pop_off(h) ==
  /\ noff' = [noff EXCEPT ![h] = @ - 1]
  /\ sie' = [sie EXCEPT ![h] = @ \/ (noff[h] = 1 /\ intena[h])]
  /\ intena' = [intena EXCEPT ![h] = @ /\ noff[h] > 1]

release(h) == holder' = None /\ pop_off(h)

holding(h) == holder = h

\* The panics of acquire(), before the swap, and of release() and pop_off().
AcquirePanics(h) == holding(h)
ReleasePanics(h) == ~holding(h) \/ sie[h] \/ noff[h] < 1
=============================================================================
