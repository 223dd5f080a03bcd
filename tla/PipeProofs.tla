----------------------------- MODULE PipeProofs ------------------------------
(***************************************************************************)
(* Proofs about module Pipe, for any number of processes, any PIPESIZE and   *)
(* counters of any width that is a multiple of it: the pipe is a queue       *)
(* (module Channel), nobody sleeps past what would wake them, and the page   *)
(* is freed once.                                                            *)
(***************************************************************************)
EXTENDS Pipe, RingTheorems

\* Time for each leaf.
USE SMTT(20), ZenonT(20)

Writing == {"wloop", "wsleep", "wwoken"}
Reading == {"rloop", "rcopy", "rsleep", "rwoken"}

\* pi->lock is held in the loops.
LockInv == \A p \in Procs : pc[p] \in Inner <=> lock = p

\* Whoever is in a call has that end open, and a process that does not live has
\* none.
EndInv ==
  \A p \in Procs :
    /\ pc[p] \in Writing => "w" \in ends[p]
    /\ pc[p] \in Reading => "r" \in ends[p]
    /\ pc[p] \in {"none", "gone"} => ends[p] = {}

\* An end that pipeclose() is called for is open nowhere, and is closed once.
CloseInv ==
  /\ \A p \in Procs : closing[p] # None =>
       pc[p] \in {"user", "exit"} /\ \A q \in Procs : closing[p] \notin ends[q]
  /\ \A p, q \in Procs : closing[p] # None /\ closing[p] = closing[q] => p = q

\* End e is referred to, or about to be closed.
InUse(e) == \E p \in Procs : e \in ends[p] \/ closing[p] = e

OpenInv ==
  /\ readopen <=> InUse("r")
  /\ writeopen <=> InUse("w")
  /\ freed = IF readopen \/ writeopen THEN 0 ELSE 1

\* What the sleepers wait for has not come, or whoever brings it still has to
\* wake them.
SleepInv ==
  \A p \in Procs :
    /\ pc[p] = "rsleep" => (Empty /\ writeopen) \/ unsaid
    /\ pc[p] = "wsleep" => readopen /\ (Full \/ \E q \in Procs : pc[q] = "rcopy")

IInv == TypeOK /\ LockInv /\ EndInv /\ CloseInv /\ OpenInv /\ SleepInv
        /\ Count <= PIPESIZE

-----------------------------------------------------------------------------
(* Arithmetic of the ring *)

\* What is assumed of the constants.
LEMMA Constants ==
  /\ PIPESIZE \in Nat /\ PIPESIZE > 0 /\ WRAP \in Nat /\ WRAP > PIPESIZE
  /\ WRAP % PIPESIZE = 0 /\ Sizes \subseteq Nat /\ Procs # {}
  /\ None \notin Procs /\ None \notin Bytes /\ None # "r" /\ None # "w"
BY PipeAssumption DEF Ends

\* PIPESIZE cells, and counters that wrap around at WRAP.
LEMMA PipeRing ==
  PIPESIZE \in Nat /\ WRAP \in Nat /\ Ring(PIPESIZE, WRAP)
BY Constants DEF Ring

\* Count says when the pipe is empty and when it is full, and follows the
\* counters by one.
LEMMA CountSteps ==
  ASSUME NEW r \in 0 .. WRAP - 1, NEW w \in 0 .. WRAP - 1
  PROVE  /\ Gap(WRAP, r, w) \in 0 .. WRAP - 1
         /\ r = w <=> Gap(WRAP, r, w) = 0
         /\ w = (r + PIPESIZE) % WRAP <=> Gap(WRAP, r, w) = PIPESIZE
         /\ Inc(r) \in 0 .. WRAP - 1
         /\ Gap(WRAP, r, w) < PIPESIZE => Gap(WRAP, r, Inc(w)) = Gap(WRAP, r, w) + 1
         /\ Gap(WRAP, r, w) > 0 => Gap(WRAP, Inc(r), w) = Gap(WRAP, r, w) - 1
<1>1. WRAP \in Nat /\ WRAP > 0 /\ PIPESIZE \in 0 .. WRAP - 1
  BY Constants
<1>2. Inc(r) = Step(WRAP, r) /\ Inc(w) = Step(WRAP, w)
  BY ZenonT(40) DEF Inc, Step
<1>3. Gap(WRAP, r, w) \in 0 .. WRAP - 1 /\ (r = w <=> Gap(WRAP, r, w) = 0)
  BY <1>1, GapRange, ZenonT(40)
<1>4. w = (r + PIPESIZE) % WRAP <=> Gap(WRAP, r, w) = PIPESIZE
  BY <1>1, GapFull
<1>5. Step(WRAP, r) \in 0 .. WRAP - 1
  BY <1>1, StepVal, ZenonT(40)
<1>6. Gap(WRAP, r, w) < WRAP - 1 => Gap(WRAP, r, Step(WRAP, w)) = Gap(WRAP, r, w) + 1
  BY <1>1, GapSteps, ZenonT(40)
<1>7. Gap(WRAP, r, w) > 0 => Gap(WRAP, Step(WRAP, r), w) = Gap(WRAP, r, w) - 1
  BY <1>1, GapSteps, ZenonT(40)
<1>8. Gap(WRAP, r, w) < PIPESIZE => Gap(WRAP, r, w) < WRAP - 1
  BY <1>1, <1>3
<1> QED
  BY <1>2, <1>3, <1>4, <1>5, <1>6, <1>7, <1>8, ZenonT(40)

-----------------------------------------------------------------------------
(* The invariant *)

\* pipealloc() establishes it.
LEMMA InitInv ==
  ASSUME Init PROVE IInv
<1>1. PICK p \in Procs : /\ ends = [q \in Procs |-> IF q = p THEN Ends ELSE {}]
                         /\ pc = [q \in Procs |-> IF q = p THEN "user" ELSE "none"]
  BY Constants, ZenonT(40) DEF Init
<1>2. Count = 0
  <2>1. 0 \in 0 .. WRAP - 1
    BY Constants
  <2>2. Gap(WRAP, 0, 0) = 0
    BY <2>1, CountSteps, ZenonT(40)
  <2> QED
    BY <2>2, ZenonT(40) DEF Init, Count, Gap
<1>3. TypeOK
  <2>1. 0 \in 0 .. WRAP - 1
    BY Constants
  <2>2. ends \in [Procs -> SUBSET Ends] /\ pc \in [Procs -> {"none", "user"}]
    BY <1>1, ZenonT(40) DEF Ends
  <2>3. data \in [0 .. PIPESIZE - 1 -> Bytes \cup {None}] /\ killed \in [Procs -> BOOLEAN]
        /\ left \in [Procs -> Nat] /\ closing \in [Procs -> Ends \cup {None}]
    BY ZenonT(40) DEF Init
  <2> QED
    BY <2>1, <2>2, <2>3, ZenonT(40) DEF Init, TypeOK
<1>4. LockInv /\ EndInv /\ CloseInv /\ SleepInv
  BY <1>1, Constants, ZenonT(40) DEF Init, LockInv, EndInv, CloseInv, SleepInv, Inner, Writing,
     Reading
<1>5. InUse("r") /\ InUse("w")
  BY <1>1, ZenonT(40) DEF InUse, Ends
<1>6. OpenInv
  BY <1>5, ZenonT(40) DEF Init, OpenInv
<1> QED
  BY <1>2, <1>3, <1>4, <1>6, Constants DEF IInv

\* What holds of the counters.
LEMMA CountFacts ==
  ASSUME TypeOK
  PROVE  /\ Count \in 0 .. WRAP - 1
         /\ Empty <=> Count = 0
         /\ Full <=> Count = PIPESIZE
BY CountSteps, ZenonT(40) DEF TypeOK, Count, Gap, Empty, Full

\* A step of p that leaves the ring and the files alone.  What is left to show is
\* what its new place asks for.
LEMMA Steps ==
  ASSUME IInv, NEW p \in Procs, UNCHANGED <<ring, files>>, TypeOK',
         \A q \in Procs \ {p} :
           \/ pc'[q] = pc[q]
           \/ pc[q] = "rsleep" /\ pc'[q] = "rwoken"
           \/ pc[q] = "wsleep" /\ pc'[q] = "wwoken",
         pc'[p] \in Inner <=> lock' = p,
         lock' # lock => lock = None \/ lock = p,
         lock' # lock => lock' = None \/ lock' = p,
         pc'[p] \in Writing => "w" \in ends[p],
         pc'[p] \in Reading => "r" \in ends[p],
         pc'[p] \in {"none", "gone"} => ends[p] = {},
         closing[p] # None => pc'[p] \in {"user", "exit"}
  PROVE  LockInv' /\ EndInv' /\ CloseInv' /\ OpenInv' /\ Count' <= PIPESIZE
<1>1. LockInv'
  <2> SUFFICES ASSUME NEW q \in Procs PROVE pc'[q] \in Inner <=> lock' = q
    BY ZenonT(40) DEF LockInv
  <2>1. CASE q = p
    BY <2>1, ZenonT(40)
  <2>2. CASE q # p
    <3>1. pc'[q] \in Inner <=> pc[q] \in Inner
      BY <2>2, ZenonT(40) DEF Inner
    <3>2. lock' = q <=> lock = q
      BY <2>2, Constants, ZenonT(40)
    <3> QED
      BY <3>1, <3>2, ZenonT(40) DEF IInv, LockInv
  <2> QED
    BY <2>1, <2>2, ZenonT(40)
<1>2. EndInv'
  <2> SUFFICES ASSUME NEW q \in Procs
               PROVE  /\ pc'[q] \in Writing => "w" \in ends[q]
                      /\ pc'[q] \in Reading => "r" \in ends[q]
                      /\ pc'[q] \in {"none", "gone"} => ends[q] = {}
    BY ZenonT(40) DEF EndInv, files
  <2>1. CASE q = p
    BY <2>1, ZenonT(40)
  <2>2. CASE q # p
    BY <2>2, ZenonT(40) DEF IInv, EndInv, Writing, Reading
  <2> QED
    BY <2>1, <2>2, ZenonT(40)
<1>3. CloseInv'
  <2>1. \A q \in Procs : closing[q] # None => pc'[q] \in {"user", "exit"}
    BY ZenonT(40) DEF IInv, CloseInv
  <2> QED
    BY <2>1, ZenonT(40) DEF IInv, CloseInv, files
<1>4. OpenInv'
  BY ZenonT(40) DEF IInv, OpenInv, InUse, files
<1>5. Count' <= PIPESIZE
  BY ZenonT(40) DEF IInv, Count, ring
<1> QED
  BY <1>1, <1>2, <1>3, <1>4, <1>5, ZenonT(40)

\* The sleepers, when a step puts no one to sleep and ends no reader's copying.
LEMMA SleepKept ==
  ASSUME IInv, UNCHANGED <<ring, files, unsaid>>,
         \A q \in Procs : /\ pc'[q] = "rsleep" => pc[q] = "rsleep"
                          /\ pc'[q] = "wsleep" => pc[q] = "wsleep"
                          /\ pc[q] = "rcopy" => pc'[q] = "rcopy"
  PROVE  SleepInv'
BY ZenonT(40) DEF IInv, SleepInv, Empty, Full, ring, files

\* pipewrite() and piperead() take pi->lock.
LEMMA BeginInv ==
  ASSUME IInv, NEW p \in Procs, NEW n \in Sizes, WriteBegin(p, n) \/ ReadBegin(p, n)
  PROVE  IInv'
<1>1. PICK l \in {"wloop", "rloop"} :
        /\ pc[p] = "user" /\ closing[p] = None /\ lock = None /\ lock' = p
        /\ l = "wloop" => "w" \in ends[p]
        /\ l = "rloop" => "r" \in ends[p]
        /\ left' = [left EXCEPT ![p] = n] /\ pc' = [pc EXCEPT ![p] = l]
        /\ UNCHANGED <<ring, files, killed, unsaid>>
  BY ZenonT(40) DEF WriteBegin, ReadBegin, Free, Move
<1>2. TypeOK'
  BY <1>1, Constants, ZenonT(40) DEF IInv, TypeOK, ring, files, Inner
<1>3. pc'[p] = l /\ \A q \in Procs \ {p} : pc'[q] = pc[q]
  BY <1>1, ZenonT(40) DEF IInv, TypeOK
<1>4. LockInv' /\ EndInv' /\ CloseInv' /\ OpenInv' /\ Count' <= PIPESIZE
  BY <1>1, <1>2, <1>3, Steps, ZenonT(40) DEF Inner, Writing, Reading
<1>5. SleepInv'
  BY <1>1, <1>3, SleepKept, ZenonT(40)
<1> QED
  BY <1>2, <1>4, <1>5, ZenonT(40) DEF IInv

\* They return without waking anybody: the pipe has no reader, or p was killed.
LEMMA RefusedInv ==
  ASSUME IInv, NEW p \in Procs, WriteRefused(p) \/ ReadKilled(p)
  PROVE  IInv'
<1>1. /\ pc[p] \in {"wloop", "rloop"} /\ lock' = None
      /\ left' = [left EXCEPT ![p] = 0] /\ pc' = [pc EXCEPT ![p] = "user"]
      /\ UNCHANGED <<ring, files, killed, unsaid>>
  BY ZenonT(40) DEF WriteRefused, ReadKilled, InLoop, Move
<1>2. TypeOK'
  BY <1>1, ZenonT(40) DEF IInv, TypeOK, ring, files
<1>3. pc'[p] = "user" /\ \A q \in Procs \ {p} : pc'[q] = pc[q]
  BY <1>1, ZenonT(40) DEF IInv, TypeOK
<1>4. lock = p
  BY <1>1, ZenonT(40) DEF IInv, LockInv, Inner
<1>5. LockInv' /\ EndInv' /\ CloseInv' /\ OpenInv' /\ Count' <= PIPESIZE
  BY <1>1, <1>2, <1>3, <1>4, Constants, Steps, ZenonT(40) DEF Inner, Writing, Reading
<1>6. SleepInv'
  BY <1>1, <1>3, SleepKept, ZenonT(40)
<1> QED
  BY <1>2, <1>5, <1>6, ZenonT(40) DEF IInv

\* A writer that finds the pipe full wakes the readers and sleeps.
LEMMA WriteSleepInv ==
  ASSUME IInv, NEW p \in Procs, WriteSleep(p)
  PROVE  IInv'
<1>1. /\ pc[p] = "wloop" /\ lock' = None /\ unsaid' = FALSE /\ Full /\ readopen
      /\ UNCHANGED <<ring, files, left, killed>>
  BY ZenonT(40) DEF WriteSleep, InLoop, Refused
<1>2. /\ pc' \in [Procs -> {"none", "user", "exit", "gone"} \cup Inner \cup Asleep]
      /\ pc'[p] = "wsleep"
      /\ \A q \in Procs \ {p} : pc'[q] = IF pc[q] = "rsleep" THEN "rwoken" ELSE pc[q]
  BY ZenonT(40) DEF WriteSleep, Move, WakeReaders, IInv, TypeOK, Inner, Asleep
<1>3. TypeOK'
  BY <1>1, <1>2, ZenonT(40) DEF IInv, TypeOK, ring, files
<1>4. lock = p /\ "w" \in ends[p] /\ closing[p] = None
  BY <1>1, ZenonT(40) DEF IInv, LockInv, EndInv, CloseInv, Inner, Writing
<1>5. LockInv' /\ EndInv' /\ CloseInv' /\ OpenInv' /\ Count' <= PIPESIZE
  BY <1>1, <1>2, <1>3, <1>4, Constants, Steps, ZenonT(40) DEF Inner, Writing, Reading
<1>6. SleepInv'
  <2>1. \A q \in Procs : pc'[q] # "rsleep"
    BY <1>2, ZenonT(40)
  <2>2. readopen' /\ Full'
    BY <1>1, ZenonT(40) DEF Full, ring, files
  <2> QED
    BY <2>1, <2>2, ZenonT(40) DEF SleepInv
<1> QED
  BY <1>3, <1>5, <1>6, ZenonT(40) DEF IInv

\* The end of pipewrite() wakes the readers.
LEMMA WriteEndInv ==
  ASSUME IInv, NEW p \in Procs, WriteEnd(p)
  PROVE  IInv'
<1>1. /\ pc[p] = "wloop" /\ lock' = None /\ unsaid' = FALSE
      /\ left' = [left EXCEPT ![p] = 0]
      /\ UNCHANGED <<ring, files, killed>>
  BY ZenonT(40) DEF WriteEnd, InLoop
<1>2. /\ pc' \in [Procs -> {"none", "user", "exit", "gone"} \cup Inner \cup Asleep]
      /\ pc'[p] = "user"
      /\ \A q \in Procs \ {p} : pc'[q] = IF pc[q] = "rsleep" THEN "rwoken" ELSE pc[q]
  BY ZenonT(40) DEF WriteEnd, Move, WakeReaders, IInv, TypeOK, Inner, Asleep
<1>3. TypeOK'
  BY <1>1, <1>2, ZenonT(40) DEF IInv, TypeOK, ring, files
<1>4. lock = p
  BY <1>1, ZenonT(40) DEF IInv, LockInv, Inner
<1>5. LockInv' /\ EndInv' /\ CloseInv' /\ OpenInv' /\ Count' <= PIPESIZE
  BY <1>1, <1>2, <1>3, <1>4, Constants, Steps, ZenonT(40) DEF Inner, Writing, Reading
<1>6. SleepInv'
  <2>1. \A q \in Procs : pc'[q] # "rsleep"
    BY <1>2, ZenonT(40)
  <2>2. \A q \in Procs : /\ pc'[q] = "wsleep" => pc[q] = "wsleep"
                         /\ pc[q] = "rcopy" => pc'[q] = "rcopy"
    BY <1>1, <1>2, ZenonT(40)
  <2> QED
    BY <1>1, <2>1, <2>2, ZenonT(40) DEF IInv, SleepInv, Full, ring, files
<1> QED
  BY <1>3, <1>5, <1>6, ZenonT(40) DEF IInv

\* A reader sleeps while there is nothing to read and the write end is open.
LEMMA ReadSleepInv ==
  ASSUME IInv, NEW p \in Procs, ReadSleep(p)
  PROVE  IInv'
<1>1. /\ pc[p] = "rloop" /\ lock' = None /\ Empty /\ writeopen
      /\ pc' = [pc EXCEPT ![p] = "rsleep"] /\ UNCHANGED <<ring, files, left, killed, unsaid>>
  BY ZenonT(40) DEF ReadSleep, MustWait, Move
<1>2. TypeOK'
  BY <1>1, ZenonT(40) DEF IInv, TypeOK, ring, files, Asleep
<1>3. pc'[p] = "rsleep" /\ \A q \in Procs \ {p} : pc'[q] = pc[q]
  BY <1>1, ZenonT(40) DEF IInv, TypeOK
<1>4. lock = p /\ "r" \in ends[p] /\ closing[p] = None
  BY <1>1, ZenonT(40) DEF IInv, LockInv, EndInv, CloseInv, Inner, Reading
<1>5. LockInv' /\ EndInv' /\ CloseInv' /\ OpenInv' /\ Count' <= PIPESIZE
  BY <1>1, <1>2, <1>3, <1>4, Constants, Steps, ZenonT(40) DEF Inner, Writing, Reading
<1>6. SleepInv'
  <2>1. Empty' /\ writeopen' /\ (Full <=> Full') /\ readopen' = readopen
    BY <1>1, ZenonT(40) DEF Empty, Full, ring, files
  <2>2. \A q \in Procs : /\ pc'[q] = "wsleep" => pc[q] = "wsleep"
                         /\ pc[q] = "rcopy" => pc'[q] = "rcopy"
    BY <1>1, <1>3, ZenonT(40)
  <2> QED
    BY <2>1, <2>2, ZenonT(40) DEF IInv, SleepInv
<1> QED
  BY <1>2, <1>5, <1>6, ZenonT(40) DEF IInv

\* piperead() goes on to its copying loop, or a sleeper takes pi->lock again.
LEMMA GoOnInv ==
  ASSUME IInv, NEW p \in Procs, ReadCopy(p) \/ Relock(p)
  PROVE  IInv'
<1>1. PICK l \in Inner :
        /\ pc[p] \in {"rloop", "wwoken", "rwoken"} /\ pc' = [pc EXCEPT ![p] = l]
        /\ l \in Writing <=> pc[p] \in Writing
        /\ lock' = p /\ (lock = None \/ lock = p)
        /\ UNCHANGED <<ring, files, left, killed, unsaid>>
  BY ZenonT(40) DEF ReadCopy, Relock, Move, Writing, Inner, IInv, LockInv
<1>2. TypeOK'
  BY <1>1, ZenonT(40) DEF IInv, TypeOK, ring, files
<1>3. pc'[p] = l /\ \A q \in Procs \ {p} : pc'[q] = pc[q]
  BY <1>1, ZenonT(40) DEF IInv, TypeOK
<1>4. LockInv' /\ EndInv' /\ CloseInv' /\ OpenInv' /\ Count' <= PIPESIZE
  <2>1. l \in Writing => "w" \in ends[p]
    BY <1>1, ZenonT(40) DEF IInv, EndInv
  <2>2. l \in Reading => "r" \in ends[p]
    BY <1>1, ZenonT(40) DEF IInv, EndInv, Writing, Reading
  <2>3. closing[p] = None
    BY <1>1, ZenonT(40) DEF IInv, CloseInv
  <2> QED
    BY <1>1, <1>2, <1>3, <2>1, <2>2, <2>3, Steps, ZenonT(40) DEF Inner
<1>5. SleepInv'
  <2>1. \A q \in Procs : /\ pc'[q] = "rsleep" => pc[q] = "rsleep"
                         /\ pc'[q] = "wsleep" => pc[q] = "wsleep"
                         /\ pc[q] = "rcopy" => pc'[q] = "rcopy"
    BY <1>1, <1>3, ZenonT(40) DEF Inner
  <2> QED
    BY <1>1, <2>1, SleepKept, ZenonT(40)
<1> QED
  BY <1>2, <1>4, <1>5, ZenonT(40) DEF IInv

\* kill() makes a sleeper runnable; exit() leaves user space for good.
LEMMA KillExitInv ==
  ASSUME IInv, NEW p \in Procs, Kill(p) \/ Exit(p) \/ ExitDone(p)
  PROVE  IInv'
<1>1. PICK l \in {"none", "user", "exit", "gone"} \cup Inner \cup Asleep :
        /\ pc' = [pc EXCEPT ![p] = l]
        /\ \/ l = pc[p]
           \/ pc[p] = "rsleep" /\ l = "rwoken"
           \/ pc[p] = "wsleep" /\ l = "wwoken"
           \/ pc[p] = "user" /\ l = "exit" /\ closing[p] = None
           \/ pc[p] = "exit" /\ l = "gone" /\ closing[p] = None /\ ends[p] = {}
        /\ UNCHANGED <<ring, files, lock, left, unsaid>>
  BY ZenonT(40) DEF Kill, Exit, ExitDone, Move, IInv, TypeOK, Inner, Asleep
<1>2. killed' \in [Procs -> BOOLEAN]
  BY ZenonT(40) DEF Kill, Exit, ExitDone, IInv, TypeOK
<1>3. TypeOK'
  BY <1>1, <1>2, ZenonT(40) DEF IInv, TypeOK, ring, files
<1>4. pc'[p] = l /\ \A q \in Procs \ {p} : pc'[q] = pc[q]
  BY <1>1, ZenonT(40) DEF IInv, TypeOK
<1>5. LockInv' /\ EndInv' /\ CloseInv' /\ OpenInv' /\ Count' <= PIPESIZE
  <2>1. /\ l \in Inner <=> pc[p] \in Inner
        /\ l \in Writing => pc[p] \in Writing
        /\ l \in Reading => pc[p] \in Reading
    BY <1>1, ZenonT(40) DEF Inner, Writing, Reading
  <2>2. /\ l \in Inner <=> lock = p
        /\ l \in Writing => "w" \in ends[p]
        /\ l \in Reading => "r" \in ends[p]
    BY <2>1, ZenonT(40) DEF IInv, LockInv, EndInv
  <2>3. l \in {"none", "gone"} => ends[p] = {}
    BY <1>1, ZenonT(40) DEF IInv, EndInv
  <2>4. closing[p] # None => l \in {"user", "exit"}
    BY <1>1, ZenonT(40) DEF IInv, CloseInv
  <2> QED
    BY <1>1, <1>3, <1>4, <2>2, <2>3, <2>4, Steps, ZenonT(40)
<1>6. SleepInv'
  <2>1. \A q \in Procs : /\ pc'[q] = "rsleep" => pc[q] = "rsleep"
                         /\ pc'[q] = "wsleep" => pc[q] = "wsleep"
                         /\ pc[q] = "rcopy" => pc'[q] = "rcopy"
    BY <1>1, <1>4, ZenonT(40)
  <2> QED
    BY <1>1, <2>1, SleepKept, ZenonT(40)
<1> QED
  BY <1>3, <1>5, <1>6, ZenonT(40) DEF IInv

\* A byte more, while no writer sleeps.
LEMMA WriteByteInv ==
  ASSUME IInv, NEW p \in Procs, NEW b \in Bytes, WriteByte(p, b)
  PROVE  IInv' /\ Count < PIPESIZE /\ Count' = Count + 1
<1>1. /\ pc[p] = "wloop" /\ left[p] > 0 /\ ~Full
      /\ data' = [data EXCEPT ![nwrite % PIPESIZE] = b] /\ nwrite' = Inc(nwrite)
      /\ left' = [left EXCEPT ![p] = @ - 1] /\ unsaid' = TRUE
      /\ UNCHANGED <<nread, got, files, lock, pc, killed>>
  BY ZenonT(40) DEF WriteByte, InLoop
<1>2. nread \in 0 .. WRAP - 1 /\ nwrite \in 0 .. WRAP - 1 /\ left \in [Procs -> Nat]
      /\ data \in [0 .. PIPESIZE - 1 -> Bytes \cup {None}]
  BY ZenonT(40) DEF IInv, TypeOK
<1>3. Count < PIPESIZE
  BY <1>1, CountFacts, Constants DEF IInv
<1>4. Count' = Count + 1 /\ nwrite' \in 0 .. WRAP - 1
  BY <1>1, <1>2, <1>3, CountSteps, ZenonT(40) DEF Count, Gap
<1>5. TypeOK'
  <2>1. left' \in [Procs -> Nat]
    BY <1>1, <1>2
  <2>2. data' \in [0 .. PIPESIZE - 1 -> Bytes \cup {None}]
    BY <1>1, <1>2, ZenonT(40)
  <2> QED
    BY <1>1, <1>4, <2>1, <2>2, ZenonT(40) DEF IInv, TypeOK, files
<1>6. LockInv' /\ EndInv' /\ CloseInv' /\ OpenInv'
  BY <1>1, ZenonT(40) DEF IInv, LockInv, EndInv, CloseInv, OpenInv, InUse, files
<1>7. SleepInv'
  <2>1. \A q \in Procs : pc[q] # "wsleep"
    <3>1. \A q \in Procs : pc[q] # "rcopy"
      BY <1>1, ZenonT(40) DEF IInv, LockInv, Inner
    <3> QED
      BY <1>1, <3>1, ZenonT(40) DEF IInv, SleepInv
  <2> QED
    BY <1>1, <2>1, ZenonT(40) DEF SleepInv
<1>8. Count' <= PIPESIZE
  <2>1. Count \in Int
    BY CountFacts, Constants DEF IInv
  <2> QED
    BY <1>3, <1>4, <2>1, Constants
<1> QED
  BY <1>3, <1>4, <1>5, <1>6, <1>7, <1>8, ZenonT(40) DEF IInv

\* nread++ leaves a byte less.
LEMMA TakeOne ==
  ASSUME IInv, nread' = Inc(nread), nwrite' = nwrite, ~Empty
  PROVE  nread' \in 0 .. WRAP - 1 /\ Count > 0 /\ Count' = Count - 1 /\ Count' <= PIPESIZE
<1>1. nread \in 0 .. WRAP - 1 /\ nwrite \in 0 .. WRAP - 1
  BY ZenonT(40) DEF IInv, TypeOK
<1>2. Count \in 0 .. WRAP - 1 /\ Count > 0
  BY CountFacts, Constants DEF IInv
<1>3. Count' = Count - 1 /\ nread' \in 0 .. WRAP - 1
  BY <1>1, <1>2, CountSteps, ZenonT(40) DEF Count, Gap
<1> QED
  BY <1>2, <1>3, Constants DEF IInv

\* A byte less, by a reader that will wake the writers.
LEMMA ReadByteInv ==
  ASSUME IInv, NEW p \in Procs, ReadByte(p)
  PROVE  IInv'
<1>1. /\ pc[p] = "rcopy" /\ left[p] > 0 /\ ~Empty
      /\ nread' = Inc(nread) /\ got' = data[nread % PIPESIZE]
      /\ left' = [left EXCEPT ![p] = @ - 1]
      /\ UNCHANGED <<data, nwrite, files, lock, pc, killed, unsaid>>
  BY ZenonT(40) DEF ReadByte
<1>2. nread' \in 0 .. WRAP - 1 /\ Count' <= PIPESIZE
  BY <1>1, TakeOne, ZenonT(40)
<1>3. TypeOK'
  <2>1. left' \in [Procs -> Nat]
    BY <1>1 DEF IInv, TypeOK
  <2>2. nread % PIPESIZE \in 0 .. PIPESIZE - 1
    <3>1. nread \in Int
      BY DEF IInv, TypeOK
    <3> QED
      BY <3>1, ModDef, Constants, ZenonT(40)
  <2>3. got' \in Bytes \cup {None}
    BY <1>1, <2>2, ZenonT(40) DEF IInv, TypeOK
  <2> QED
    BY <1>1, <1>2, <2>1, <2>3, ZenonT(40) DEF IInv, TypeOK, files
<1>4. LockInv' /\ EndInv' /\ CloseInv' /\ OpenInv'
  BY <1>1, ZenonT(40) DEF IInv, LockInv, EndInv, CloseInv, OpenInv, InUse, files
<1>5. SleepInv'
  BY <1>1, ZenonT(40) DEF IInv, SleepInv, files
<1> QED
  BY <1>2, <1>3, <1>4, <1>5, ZenonT(40) DEF IInv

\* The end of piperead() wakes the writers.
LEMMA ReadEndInv ==
  ASSUME IInv, NEW p \in Procs, ReadEnd(p)
  PROVE  IInv'
<1>1. /\ pc[p] = "rcopy" /\ lock' = None /\ got' = None
      /\ left' = [left EXCEPT ![p] = 0]
      /\ UNCHANGED <<data, nwrite, files, killed, unsaid>>
  BY ZenonT(40) DEF ReadEnd
<1>2. nread' = nread \/ (nread' = Inc(nread) /\ ~Empty)
  BY ZenonT(40) DEF ReadEnd
<1>3. nread' \in 0 .. WRAP - 1 /\ Count' <= PIPESIZE
  BY <1>1, <1>2, TakeOne, ZenonT(40) DEF IInv, TypeOK, Count
<1>4. /\ pc' \in [Procs -> {"none", "user", "exit", "gone"} \cup Inner \cup Asleep]
      /\ pc'[p] = "user"
      /\ \A q \in Procs \ {p} : pc'[q] = IF pc[q] = "wsleep" THEN "wwoken" ELSE pc[q]
  BY ZenonT(40) DEF ReadEnd, Move, WakeWriters, IInv, TypeOK, Inner, Asleep
<1>5. TypeOK'
  BY <1>1, <1>3, <1>4, ZenonT(40) DEF IInv, TypeOK, files
<1>6. LockInv'
  <2>1. lock = p
    BY <1>1, ZenonT(40) DEF IInv, LockInv, Inner
  <2> QED
    BY <1>1, <1>4, <2>1, Constants, ZenonT(40) DEF IInv, LockInv, Inner
<1>7. EndInv' /\ CloseInv'
  <2>1. \A q \in Procs : /\ pc'[q] \in Writing => pc[q] \in Writing
                         /\ pc'[q] \in Reading => pc[q] \in Reading
                         /\ pc'[q] \in {"none", "gone"} => pc[q] \in {"none", "gone"}
                         /\ pc[q] \in {"user", "exit"} => pc'[q] \in {"user", "exit"}
    BY <1>1, <1>4, ZenonT(40) DEF Writing, Reading
  <2> QED
    BY <1>1, <2>1, ZenonT(40) DEF IInv, EndInv, CloseInv, files
<1>8. OpenInv'
  BY <1>1, ZenonT(40) DEF IInv, OpenInv, InUse, files
<1>9. SleepInv'
  <2>1. \A q \in Procs : pc'[q] # "wsleep" /\ (pc'[q] = "rsleep" => pc[q] = "rsleep")
    BY <1>4, ZenonT(40)
  <2>2. Empty => Empty'
    BY <1>1, <1>2, ZenonT(40) DEF Empty
  <2> QED
    BY <1>1, <2>1, <2>2, ZenonT(40) DEF IInv, SleepInv, files
<1> QED
  BY <1>3, <1>5, <1>6, <1>7, <1>8, <1>9, ZenonT(40) DEF IInv

-----------------------------------------------------------------------------
(* fileclose(), pipeclose() and fork() *)

\* fileclose(): the end is still in use, by others or by the pipeclose() to come.
LEMMA CloseEndInv ==
  ASSUME IInv, NEW p \in Procs, NEW e \in Ends, Close(p, e)
  PROVE  IInv'
<1>1. /\ pc[p] \in {"user", "exit"} /\ closing[p] = None /\ e \in ends[p]
      /\ ends' = [ends EXCEPT ![p] = @ \ {e}]
      /\ closing' = [closing EXCEPT ![p] = IF Last(p, e) THEN e ELSE None]
      /\ UNCHANGED <<ring, readopen, writeopen, freed, lock, pc, left, killed, unsaid>>
  BY ZenonT(40) DEF Close, Free
<1>2. e # None /\ e \in {"r", "w"}
  BY Constants, ZenonT(40) DEF Ends
<1>3. TypeOK'
  <2>1. ends' \in [Procs -> SUBSET Ends]
    BY <1>1, ZenonT(40) DEF IInv, TypeOK
  <2>2. closing' \in [Procs -> Ends \cup {None}]
    BY <1>1, ZenonT(40) DEF IInv, TypeOK
  <2> QED
    BY <1>1, <2>1, <2>2, ZenonT(40) DEF IInv, TypeOK, ring
<1>4. \A q \in Procs : ends'[q] = IF q = p THEN ends[q] \ {e} ELSE ends[q]
  BY <1>1, ZenonT(40) DEF IInv, TypeOK
<1>5. \A q \in Procs : closing'[q] = IF q = p /\ Last(p, e) THEN e ELSE closing[q]
  BY <1>1, ZenonT(40) DEF IInv, TypeOK
<1>6. LockInv' /\ EndInv' /\ SleepInv' /\ Count' <= PIPESIZE
  <2>1. EndInv'
    BY <1>1, <1>4, ZenonT(40) DEF IInv, EndInv, Writing, Reading
  <2> QED
    BY <1>1, <2>1, ZenonT(40) DEF IInv, LockInv, SleepInv, Empty, Full, Count, ring
<1>7. CloseInv'
  <2>1. \A q \in Procs : closing[q] # e
    BY <1>1, <1>2, ZenonT(40) DEF IInv, CloseInv
  <2>2. Last(p, e) => \A q \in Procs : e \notin ends'[q]
    BY <1>4, ZenonT(40) DEF Last
  <2>3. \A q \in Procs : closing'[q] # None =>
          pc'[q] \in {"user", "exit"} /\ \A q2 \in Procs : closing'[q] \notin ends'[q2]
    BY <1>1, <1>4, <1>5, <2>2 DEF IInv, CloseInv
  <2>4. \A q, q2 \in Procs : closing'[q] # None /\ closing'[q] = closing'[q2] => q = q2
    BY <1>5, <2>1, ZenonT(40) DEF IInv, CloseInv
  <2> QED
    BY <2>3, <2>4, ZenonT(40) DEF CloseInv
<1>8. OpenInv'
  <2>1. ASSUME NEW f \in Ends PROVE InUse(f) <=> InUse(f)'
    <3>1. CASE f # e
      <4>1. f # None
        BY Constants, ZenonT(40) DEF Ends
      <4>2. \A q \in Procs : /\ f \in ends'[q] <=> f \in ends[q]
                             /\ closing'[q] = f <=> closing[q] = f
        BY <1>1, <1>4, <1>5, <3>1, <4>1
      <4> QED
        BY <4>2, ZenonT(40) DEF InUse
    <3>2. CASE f = e /\ Last(p, e)
      BY <1>1, <1>5, <3>2, ZenonT(40) DEF InUse
    <3>3. CASE f = e /\ ~Last(p, e)
      <4>1. PICK q \in Procs \ {p} : e \in ends[q]
        BY <3>3, ZenonT(40) DEF Last
      <4> QED
        BY <1>1, <1>4, <3>3, <4>1, ZenonT(40) DEF InUse
    <3> QED
      BY <3>1, <3>2, <3>3, ZenonT(40)
  <2> QED
    BY <1>1, <2>1, ZenonT(40) DEF IInv, OpenInv, Ends
<1> QED
  BY <1>3, <1>6, <1>7, <1>8, ZenonT(40) DEF IInv

\* pipeclose(): the end that nobody uses any more is shut, those who sleep on the
\* other one wake, and the second call frees the page.
LEMMA PipeCloseInv ==
  ASSUME IInv, NEW p \in Procs, PipeClose(p)
  PROVE  IInv'
<1>1. /\ closing[p] # None /\ lock = None
      /\ closing' = [closing EXCEPT ![p] = None]
      /\ freed' = IF ~readopen' /\ ~writeopen' THEN freed + 1 ELSE freed
      /\ UNCHANGED <<ring, lock, ends, left, killed>>
  BY ZenonT(40) DEF PipeClose
<1>2. /\ closing[p] = "w" =>
           /\ writeopen' = FALSE /\ readopen' = readopen /\ unsaid' = FALSE
           /\ pc' = [q \in Procs |-> IF pc[q] = "rsleep" THEN "rwoken" ELSE pc[q]]
      /\ closing[p] # "w" =>
           /\ readopen' = FALSE /\ writeopen' = writeopen /\ unsaid' = unsaid
           /\ pc' = [q \in Procs |-> IF pc[q] = "wsleep" THEN "wwoken" ELSE pc[q]]
  BY ZenonT(40) DEF PipeClose, WakeReaders, WakeWriters
<1>3. closing[p] \in {"r", "w"}
  BY <1>1, ZenonT(40) DEF IInv, TypeOK, Ends
<1>4. pc' \in [Procs -> {"none", "user", "exit", "gone"} \cup Inner \cup Asleep]
  BY <1>2, ZenonT(40) DEF IInv, TypeOK, Asleep
<1>5. \A q \in Procs : \/ pc'[q] = pc[q]
                       \/ pc[q] = "rsleep" /\ pc'[q] = "rwoken"
                       \/ pc[q] = "wsleep" /\ pc'[q] = "wwoken"
  BY <1>2, ZenonT(40) DEF IInv, TypeOK
<1>6. \A q \in Procs : closing'[q] = IF q = p THEN None ELSE closing[q]
  BY <1>1, ZenonT(40) DEF IInv, TypeOK
<1>7. /\ InUse(closing[p]) /\ ~(\E q \in Procs : closing[p] \in ends[q])
      /\ \A q \in Procs : closing[q] = closing[p] => q = p
  BY <1>1, ZenonT(40) DEF IInv, CloseInv, InUse
<1>8. IF closing[p] = "w"
      THEN /\ writeopen /\ ~writeopen' /\ readopen' = readopen
           /\ ~InUse("w")' /\ (InUse("r")' <=> InUse("r"))
      ELSE /\ readopen /\ ~readopen' /\ writeopen' = writeopen
           /\ ~InUse("r")' /\ (InUse("w")' <=> InUse("w"))
  <2>1. CASE closing[p] = "w"
    BY <1>1, <1>2, <1>6, <1>7, <2>1, Constants DEF IInv, OpenInv, InUse
  <2>2. CASE closing[p] = "r"
    BY <1>1, <1>2, <1>6, <1>7, <2>2, Constants DEF IInv, OpenInv, InUse
  <2> QED
    BY <1>3, <2>1, <2>2, ZenonT(40)
<1>9. OpenInv'
  BY <1>1, <1>8 DEF IInv, OpenInv
<1>10. TypeOK'
  <2>1. freed' \in Nat
    BY <1>1 DEF IInv, TypeOK
  <2>2. readopen' \in BOOLEAN /\ writeopen' \in BOOLEAN /\ unsaid' \in BOOLEAN
    BY <1>2, ZenonT(40) DEF IInv, TypeOK
  <2>3. closing' \in [Procs -> Ends \cup {None}]
    BY <1>1, ZenonT(40) DEF IInv, TypeOK
  <2> QED
    BY <1>1, <1>4, <2>1, <2>2, <2>3, ZenonT(40) DEF IInv, TypeOK, ring
<1>11. LockInv' /\ Count' <= PIPESIZE
  BY <1>1, <1>5, ZenonT(40) DEF IInv, LockInv, Inner, Count, ring
<1>12. EndInv' /\ CloseInv'
  <2>1. \A q \in Procs : /\ pc'[q] \in Writing => pc[q] \in Writing
                         /\ pc'[q] \in Reading => pc[q] \in Reading
                         /\ pc'[q] \in {"none", "gone"} => pc[q] \in {"none", "gone"}
                         /\ pc[q] \in {"user", "exit"} => pc'[q] \in {"user", "exit"}
    BY <1>5, ZenonT(40) DEF Writing, Reading
  <2>2. EndInv'
    BY <1>1, <2>1, ZenonT(40) DEF IInv, EndInv
  <2>3. \A q \in Procs : closing'[q] # None =>
          /\ closing'[q] = closing[q] /\ pc'[q] \in {"user", "exit"}
          /\ \A r \in Procs : closing'[q] \notin ends'[r]
    BY <1>1, <1>6, <2>1 DEF IInv, CloseInv
  <2>4. \A q, r \in Procs : closing'[q] # None /\ closing'[q] = closing'[r] => q = r
    BY <1>6, ZenonT(40) DEF IInv, CloseInv
  <2> QED
    BY <2>2, <2>3, <2>4, ZenonT(40) DEF CloseInv
<1>13. SleepInv'
  <2>1. \A q \in Procs : /\ pc'[q] = "rsleep" => pc[q] = "rsleep" /\ closing[p] # "w"
                         /\ pc'[q] = "wsleep" => pc[q] = "wsleep" /\ closing[p] = "w"
                         /\ pc[q] = "rcopy" => pc'[q] = "rcopy"
    BY <1>2, ZenonT(40) DEF IInv, TypeOK
  <2>2. (Empty <=> Empty') /\ (Full <=> Full')
    BY <1>1, ZenonT(40) DEF Empty, Full, ring
  <2> QED
    BY <1>2, <2>1, <2>2 DEF IInv, SleepInv
<1> QED
  BY <1>9, <1>10, <1>11, <1>12, <1>13, ZenonT(40) DEF IInv

\* fork(): the child has its parent's ends, none of which is being closed.
LEMMA ForkInv ==
  ASSUME IInv, NEW p \in Procs, NEW q \in Procs, Fork(p, q)
  PROVE  IInv'
<1>1. /\ pc[p] = "user" /\ pc[q] = "none"
      /\ ends' = [ends EXCEPT ![q] = ends[p]] /\ pc' = [pc EXCEPT ![q] = "user"]
      /\ UNCHANGED <<ring, readopen, writeopen, freed, closing, lock, left, killed, unsaid>>
  BY ZenonT(40) DEF Fork, Free, Move
<1>2. TypeOK'
  <2>1. ends' \in [Procs -> SUBSET Ends]
    BY <1>1, ZenonT(40) DEF IInv, TypeOK
  <2> QED
    BY <1>1, <2>1, ZenonT(40) DEF IInv, TypeOK, ring
<1>3. \A s \in Procs : /\ pc'[s] = IF s = q THEN "user" ELSE pc[s]
                       /\ ends'[s] = IF s = q THEN ends[p] ELSE ends[s]
  BY <1>1, ZenonT(40) DEF IInv, TypeOK
<1>4. ends[q] = {}
  BY <1>1, ZenonT(40) DEF IInv, EndInv
<1>5. LockInv' /\ EndInv' /\ Count' <= PIPESIZE
  BY <1>1, <1>3 DEF IInv, LockInv, EndInv, Count, ring, Inner, Writing, Reading
<1>6. CloseInv'
  BY <1>1, <1>3 DEF IInv, CloseInv
<1>7. OpenInv'
  <2>1. \A e \in Ends : InUse(e)' <=> InUse(e)
    BY <1>1, <1>3, <1>4, ZenonT(40) DEF InUse
  <2> QED
    BY <1>1, <2>1, ZenonT(40) DEF IInv, OpenInv, Ends
<1>8. SleepInv'
  BY <1>1, <1>3 DEF IInv, SleepInv, Empty, Full, ring
<1> QED
  BY <1>2, <1>5, <1>6, <1>7, <1>8, ZenonT(40) DEF IInv

-----------------------------------------------------------------------------
(* The theorems *)

\* Every step preserves the invariant.
LEMMA NextInv ==
  ASSUME IInv, [Next]_vars PROVE IInv'
<1>1. CASE UNCHANGED vars
  <2>1. TypeOK'
    BY <1>1, ZenonT(40) DEF IInv, vars, TypeOK
  <2>2. LockInv' /\ EndInv' /\ CloseInv' /\ OpenInv' /\ SleepInv' /\ Count' <= PIPESIZE
    BY <1>1, ZenonT(40) DEF IInv, vars, LockInv, EndInv, CloseInv, OpenInv, InUse, SleepInv,
       Empty, Full,
                Count
  <2> QED
    BY <2>1, <2>2, ZenonT(40) DEF IInv
<1>2. ASSUME NEW p \in Procs, Inside(p) PROVE IInv'
  BY <1>2, RefusedInv, WriteSleepInv, WriteEndInv, ReadSleepInv, GoOnInv, WriteByteInv,
     ReadByteInv, ReadEndInv, PipeCloseInv, ZenonT(40) DEF Inside
<1> QED
  BY <1>1, <1>2, BeginInv, CloseEndInv, ForkInv, KillExitInv, ZenonT(40) DEF Next

\* The invariant holds in every reachable state.
THEOREM Invariance == Spec => []IInv
<1>1. Init => IInv
  BY InitInv, ZenonT(40)
<1>2. IInv /\ [Next]_vars => IInv'
  BY NextInv, ZenonT(40)
<1> QED
  BY <1>1, <1>2, PTL DEF Spec

\* Nobody sleeps in piperead() or pipewrite() past what would wake them, and
\* pipeclose() frees the page once, when nobody uses it any more, and in time.
THEOREM PipeIsSafe == Spec => []PipeSafe
<1>1. ASSUME IInv PROVE NoStuckReader /\ NoStuckWriter
  BY <1>1, Constants, ZenonT(40) DEF IInv, SleepInv, LockInv, Inner, NoStuckReader, NoStuckWriter
<1>2. ASSUME IInv PROVE FreedOnce
  <2>1. freed <= 1
    BY <1>2 DEF IInv, OpenInv
  <2>2. ASSUME freed = 1, NEW p \in Procs
        PROVE  ends[p] = {} /\ pc[p] \notin Inner \cup Asleep
    <3>1. ~InUse("r") /\ ~InUse("w")
      BY <1>2, <2>2 DEF IInv, OpenInv
    <3>2. "r" \notin ends[p] /\ "w" \notin ends[p]
      BY <3>1, ZenonT(40) DEF InUse
    <3>3. ends[p] = {}
      BY <1>2, <2>2, <3>2, ZenonT(40) DEF IInv, TypeOK, Ends
    <3>4. pc[p] \notin Inner \cup Asleep
      BY <1>2, <2>2, <3>2, ZenonT(40) DEF IInv, EndInv, TypeOK, Inner, Asleep, Writing, Reading
    <3> QED
      BY <3>3, <3>4
  <2>3. ASSUME \A p \in Procs : ends[p] = {} /\ closing[p] = None PROVE freed = 1
    BY <1>2, <2>3, Constants, ZenonT(40) DEF IInv, OpenInv, InUse
  <2> QED
    BY <2>1, <2>2, <2>3, ZenonT(40) DEF FreedOnce
<1>3. IInv => PipeSafe
  BY <1>1, <1>2, ZenonT(40) DEF IInv, PipeSafe
<1> QED
  BY <1>3, Invariance, PTL

-----------------------------------------------------------------------------
(* The pipe is a queue *)

\* The bytes between the counters.
LEMMA QueueFacts ==
  ASSUME IInv
  PROVE  /\ queue = Window(PIPESIZE, data, nread, Gap(WRAP, nread, nwrite))
         /\ queue \in Seq(Bytes \cup {None}) /\ Len(queue) = Count
<1>1. Count \in Nat /\ nread \in Int /\ data \in [0 .. PIPESIZE - 1 -> Bytes \cup {None}]
  BY CountFacts, Constants DEF IInv, TypeOK
<1>2. queue = Window(PIPESIZE, data, nread, Count) /\ Count = Gap(WRAP, nread, nwrite)
  BY ZenonT(40) DEF queue, Window, Cell, Count, Gap
<1>3. /\ Window(PIPESIZE, data, nread, Count) \in Seq(Bytes \cup {None})
      /\ Len(Window(PIPESIZE, data, nread, Count)) = Count
  <2> DEFINE S == Bytes \cup {None}
  <2>1. PIPESIZE \in Nat /\ PIPESIZE > 0 /\ data \in [0 .. PIPESIZE - 1 -> S]
    BY <1>1, Constants, ZenonT(40)
  <2> HIDE DEF S
  <2>2. /\ Window(PIPESIZE, data, nread, Count) \in Seq(S)
        /\ Len(Window(PIPESIZE, data, nread, Count)) = Count
    BY <1>1, <2>1, WindowSeq
  <2> QED
    BY <2>2, ZenonT(40) DEF S
<1> QED
  BY <1>2, <1>3, ZenonT(40)

\* pipewrite() puts a byte behind the last one and over none that is still to be
\* read.
LEMMA PutStep ==
  ASSUME IInv, NEW p \in Procs, NEW b \in Bytes, WriteByte(p, b)
  PROVE  C!Put
<1> DEFINE S == Bytes \cup {None}
<1>1. /\ data' = [data EXCEPT ![Cell(PIPESIZE, nwrite)] = b]
      /\ nread' = nread /\ got' = got /\ nwrite' = Step(WRAP, nwrite)
  BY ZenonT(40) DEF WriteByte, Cell, Inc, Step
<1>2. Count < PIPESIZE
  BY WriteByteInv, ZenonT(40)
<1>3. /\ nread \in 0 .. WRAP - 1 /\ nwrite \in 0 .. WRAP - 1 /\ b \in S
      /\ data \in [0 .. PIPESIZE - 1 -> S] /\ Count = Gap(WRAP, nread, nwrite)
  BY ZenonT(40) DEF IInv, TypeOK, Count, Gap
<1>4. Gap(WRAP, nread, nwrite) < PIPESIZE /\ Gap(WRAP, nread, nwrite) < WRAP - 1
  <2>1. Gap(WRAP, nread, nwrite) \in 0 .. WRAP - 1
    BY <1>3, CountSteps, ZenonT(40)
  <2>2. PIPESIZE \in Nat /\ WRAP \in Nat /\ WRAP > PIPESIZE
    BY Constants, ZenonT(40)
  <2> QED
    BY <1>2, <1>3, <2>1, <2>2
<1>5. Cell(PIPESIZE, nwrite) \in 0 .. PIPESIZE - 1
  <2>1. nwrite \in Int
    BY <1>3, Constants
  <2> QED
    BY <2>1, CellFacts, Constants, ZenonT(40)
<1>6. data' \in [0 .. PIPESIZE - 1 -> S] /\ data'[Cell(PIPESIZE, nwrite)] = b
  BY <1>1, <1>3, <1>5, ZenonT(40)
<1> HIDE DEF S
<1>7. Window(PIPESIZE, data', nread, Gap(WRAP, nread, nwrite)) = queue
  <2>1. Window(PIPESIZE, data', nread, Gap(WRAP, nread, nwrite))
          = Window(PIPESIZE, data, nread, Gap(WRAP, nread, nwrite))
    <3>1. \A c \in 0 .. PIPESIZE - 1 : c # Cell(PIPESIZE, nwrite) => data'[c] = data[c]
      BY <1>1, <1>3, ZenonT(40)
    <3> QED
      BY <1>3, <1>4, <3>1, PipeRing, WindowKept
  <2> QED
    BY <2>1, QueueFacts, ZenonT(40)
<1>8. Window(PIPESIZE, data', nread, Gap(WRAP, nread, Step(WRAP, nwrite)))
        = Append(Window(PIPESIZE, data', nread, Gap(WRAP, nread, nwrite)),
                 data'[Cell(PIPESIZE, nwrite)])
  BY <1>3, <1>4, <1>6, PipeRing, WindowAppend, ZenonT(40)
<1>9. queue' = Window(PIPESIZE, data', nread', Gap(WRAP, nread', nwrite'))
  BY ZenonT(40) DEF queue, Window, Cell, Count, Gap
<1>10. queue' = Append(queue, b)
  BY <1>1, <1>6, <1>7, <1>8, <1>9, ZenonT(40)
<1>11. Len(queue) < PIPESIZE
  BY <1>2, QueueFacts, ZenonT(40)
<1> QED
  BY <1>1, <1>10, <1>11, ZenonT(40) DEF C!Put

\* nread++ takes the first byte off.
LEMMA TailStep ==
  ASSUME IInv, ~Empty, nread' = Inc(nread), UNCHANGED <<data, nwrite>>
  PROVE  queue # <<>> /\ queue' = Tail(queue) /\ Head(queue) = data[nread % PIPESIZE]
<1> DEFINE S == Bytes \cup {None}
           q == Window(PIPESIZE, data, nread, Gap(WRAP, nread, nwrite))
<1>1. /\ nread \in 0 .. WRAP - 1 /\ nwrite \in 0 .. WRAP - 1 /\ nread # nwrite
      /\ data \in [0 .. PIPESIZE - 1 -> S] /\ nread' = Step(WRAP, nread)
  BY ZenonT(40) DEF IInv, TypeOK, Empty, Inc, Step
<1> HIDE DEF S
<1>2. /\ q # <<>> /\ Head(q) = data[Cell(PIPESIZE, nread)]
      /\ Window(PIPESIZE, data, Step(WRAP, nread), Gap(WRAP, Step(WRAP, nread), nwrite))
           = Tail(q)
  <2>1. PIPESIZE \in Nat /\ WRAP \in Nat /\ Ring(PIPESIZE, WRAP)
    BY PipeRing, ZenonT(40)
  <2>2. ASSUME NEW r \in 0 .. WRAP - 1, NEW w \in 0 .. WRAP - 1, r # w,
               NEW x \in [0 .. PIPESIZE - 1 -> S]
        PROVE  /\ Window(PIPESIZE, x, r, Gap(WRAP, r, w)) # <<>>
               /\ Head(Window(PIPESIZE, x, r, Gap(WRAP, r, w))) = x[Cell(PIPESIZE, r)]
               /\ Window(PIPESIZE, x, Step(WRAP, r), Gap(WRAP, Step(WRAP, r), w))
                    = Tail(Window(PIPESIZE, x, r, Gap(WRAP, r, w)))
    BY <2>1, <2>2, WindowTail, ZenonT(90)
  <2> QED
    BY <1>1, <2>2, ZenonT(40)
<1>3. queue' = Window(PIPESIZE, data', nread', Gap(WRAP, nread', nwrite'))
  BY ZenonT(40) DEF queue, Window, Cell, Count, Gap
<1>4. queue = q
  BY QueueFacts, ZenonT(40)
<1> HIDE DEF q
<1> QED
  BY <1>1, <1>2, <1>3, <1>4, ZenonT(40) DEF Cell

\* piperead() takes the bytes out in the order they went in; one on which
\* copyout() fails is lost.
LEMMA TakeStep ==
  ASSUME IInv, IInv', NEW p \in Procs, ReadByte(p) \/ ReadEnd(p)
  PROVE  C!Take \/ C!Lose \/ C!Done
<1>1. CASE ReadByte(p)
  <2>1. /\ ~Empty /\ nread' = Inc(nread) /\ got' = data[nread % PIPESIZE]
        /\ UNCHANGED <<data, nwrite>>
    BY <1>1, ZenonT(40) DEF ReadByte
  <2> QED
    BY <2>1, TailStep, ZenonT(40) DEF C!Take
<1>2. CASE ReadEnd(p)
  <2>1. /\ got' = None /\ UNCHANGED <<data, nwrite>>
        /\ nread' = nread \/ (nread' = Inc(nread) /\ ~Empty)
    BY <1>2, ZenonT(40) DEF ReadEnd
  <2>2. CASE nread' = nread
    BY <2>1, <2>2, ZenonT(40) DEF C!Done, queue, Count
  <2>3. CASE nread' = Inc(nread) /\ ~Empty
    BY <2>1, <2>3, TailStep, ZenonT(40) DEF C!Lose
  <2> QED
    BY <2>1, <2>2, <2>3, ZenonT(40)
<1> QED
  BY <1>1, <1>2, ZenonT(40)

\* The ring buffer with its wrapping counters implements the queue of module
\* Channel: bytes come out once, in order, and none is overwritten.
THEOREM PipeIsFifo == Spec => Fifo
<1>1. Init => C!CInit
  <2>1. ASSUME Init PROVE queue = <<>> /\ got = None
    <3>1. IInv /\ Empty
      BY <2>1, InitInv, ZenonT(40) DEF Init, Empty
    <3>2. Len(queue) = 0 /\ queue \in Seq(Bytes \cup {None})
      BY <3>1, QueueFacts, CountFacts, ZenonT(40) DEF IInv
    <3>3. queue = <<>>
      BY <3>2
    <3> QED
      BY <2>1, <3>3, ZenonT(40) DEF Init
  <2> QED
    BY <2>1, ZenonT(40) DEF C!CInit
<1>2. IInv /\ [Next]_vars => [C!CNext]_<<queue, got>>
  <2> SUFFICES ASSUME IInv, [Next]_vars PROVE [C!CNext]_<<queue, got>>
    BY ZenonT(40)
  <2>1. IInv'
    BY NextInv, ZenonT(40)
  <2>2. UNCHANGED ring => UNCHANGED <<queue, got>>
    BY ZenonT(40) DEF ring, queue, Count
  <2>3. ASSUME NEW p \in Procs, Inside(p) PROVE [C!CNext]_<<queue, got>>
    <3>1. UNCHANGED ring \/ (\E b \in Bytes : WriteByte(p, b)) \/ ReadByte(p) \/ ReadEnd(p)
      BY <2>3, ZenonT(40) DEF Inside, WriteRefused, WriteSleep, WriteEnd, ReadKilled, ReadSleep,
         ReadCopy,
                  Relock, PipeClose
    <3> QED
      BY <2>1, <2>2, <3>1, PutStep, TakeStep, ZenonT(40) DEF C!CNext
  <2>4. ASSUME NEW p \in Procs,
               \/ \E n \in Sizes : WriteBegin(p, n) \/ ReadBegin(p, n)
               \/ \E e \in Ends : Close(p, e)
               \/ \E q \in Procs : Fork(p, q)
               \/ Kill(p) \/ Exit(p) \/ ExitDone(p)
        PROVE  UNCHANGED ring
    BY <2>4, ZenonT(40) DEF WriteBegin, ReadBegin, Close, Fork, Kill, Exit, ExitDone
  <2>5. UNCHANGED vars => UNCHANGED ring
    BY ZenonT(40) DEF vars, ring
  <2> QED
    BY <2>2, <2>3, <2>4, <2>5, ZenonT(40) DEF Next
<1> QED
  BY <1>1, <1>2, Invariance, PTL DEF Spec, Fifo, C!CSpec
=============================================================================
