----------------------------- MODULE LogProofs -----------------------------
(***************************************************************************)
(* Proofs about Log for every set of processes, blocks and values and every  *)
(* log geometry.                                                             *)
(***************************************************************************)
EXTENDS Log, FiniteSetTheorems, TLAPS

\* Time for each leaf.
USE SMTT(20), ZenonT(20)

Distinct(s) == \A i, j \in 1 .. Len(s) : s[i] = s[j] => i = j

InOps == {p \in Procs : pc[p] = "in"}

\* The in-memory and the on-disk header, phase by phase.
HeaderInv ==
  /\ Distinct(lh) /\ Distinct(dhead)
  /\ phase \in {"boot", "finish"} => lh = <<>>
  /\ phase \in {"idle", "write_log", "finish"} => dhead = <<>>
  /\ phase \in {"recover", "install"} => dhead = lh

\* What the log, the cache and the disk hold for the blocks of a header.
LogInv ==
  /\ \A i \in 1 .. Len(dhead) : dlog[i] \in Vals
  /\ phase \in {"idle", "write_log"} =>
       \A i \in 1 .. Len(lh) : buf[lh[i]] # NoBuf
  /\ phase = "write_log" =>
       \A i \in 1 .. Len(lh) : i < tail => dlog[i] = buf[lh[i]]
  /\ phase = "install" =>
       \A i \in 1 .. Len(lh) : buf[lh[i]] = dlog[i] \/ (buf[lh[i]] = NoBuf /\ i < tail)
  /\ phase \in {"recover", "install"} =>
       \A i \in 1 .. Len(lh) : i < tail => disk[lh[i]] = dlog[i]

\* Blocks the log does not cover are intact on disk and clean in the cache.
CleanInv ==
  /\ \A b \in Blocks : ~Listed(b, dhead) => disk[b] \in Vals
  /\ \A b \in Blocks : Recovering \/ ~Listed(b, lh) => buf[b] \in {NoBuf, disk[b]}

\* Reference counts the log holds on buffers.
PinInv ==
  /\ PinsMatchLog
  /\ phase = "install" =>
       /\ \A i \in 1 .. Len(lh) : pin[lh[i]] = IF i < tail THEN 0 ELSE 1
       /\ \A b \in Blocks : ~Listed(b, lh) => pin[b] = 0

\* Who is inside, who sleeps, who commits.
OpsInv ==
  /\ outstanding = Cardinality(InOps)
  /\ committing <=> phase \in {"write_log", "install", "finish"}
  /\ committing => outstanding = 0
  /\ phase = "idle" /\ outstanding = 0 => lh = <<>>
  /\ NoLostWakeup

IInv == TypeOK /\ HeaderInv /\ LogInv /\ CleanInv /\ PinInv /\ OpsInv

-----------------------------------------------------------------------------

\* The operations between begin_op() and end_op() can be counted.
LEMMA InOpsFinite == IsFiniteSet(InOps) /\ Cardinality(InOps) \in Nat
  BY LogAssumption, FS_Subset, FS_CardinalityType, ZenonT(40) DEF InOps

\* The initial state, a freshly made file system, satisfies the invariant.
LEMMA InitIInv == Init => IInv
<1> SUFFICES ASSUME Init PROVE IInv
  BY ZenonT(40)
<1>1. InOps = {} /\ Cardinality(InOps) = 0
  BY FS_EmptySet, ZenonT(40) DEF Init, InOps
<1>2. TypeOK
  <2>1. lh \in Seq(Blocks) /\ dhead \in Seq(Blocks) /\ Len(lh) = 0 /\ Len(dhead) = 0
    BY DEF Init
  <2>2. disk \in [Blocks -> Vals \cup {Torn}] /\ dlog \in [Slots -> Vals \cup {Torn}]
    BY ZenonT(40) DEF Init, Slots
  <2>3. buf \in [Blocks -> Vals \cup {NoBuf}] /\ pin \in [Blocks -> Nat]
    BY ZenonT(40) DEF Init
  <2>4. pc \in [Procs -> {"out", "woken", "sleeping", "in", "commit"}]
        /\ opw \in [Procs -> SUBSET Blocks]
    BY ZenonT(40) DEF Init
  <2>5. committing \in BOOLEAN /\ panicked \in BOOLEAN
    BY ZenonT(40) DEF Init
  <2> QED
    BY <2>1, <2>2, <2>3, <2>4, <2>5, LogAssumption DEF Init, TypeOK
<1>3. HeaderInv /\ LogInv
  BY DEF Init, HeaderInv, LogInv, Distinct
<1>4. CleanInv
  BY ZenonT(40) DEF Init, CleanInv, Listed
<1>5. PinInv
  BY ZenonT(40) DEF Init, PinInv, PinsMatchLog, Recovering
<1>6. OpsInv
  BY <1>1, ZenonT(40) DEF Init, OpsInv, NoLostWakeup
<1> QED
  BY <1>2, <1>3, <1>4, <1>5, <1>6, ZenonT(40) DEF IInv

\* read_head() at boot.
LEMMA ReadHeadIInv == IInv /\ ReadHead => IInv'
<1> SUFFICES ASSUME IInv, ReadHead PROVE IInv'
  BY ZenonT(40)
<1> USE DEF IInv
<1>1. InOps' = InOps
  BY ZenonT(40) DEF ReadHead, diskVars, InOps
<1>2. TypeOK'
  BY LogAssumption DEF ReadHead, diskVars, TypeOK, Slots
<1>3. HeaderInv'
  BY DEF ReadHead, diskVars, TypeOK, HeaderInv, Distinct
<1>4. LogInv'
  BY DEF ReadHead, diskVars, TypeOK, HeaderInv, LogInv, CleanInv, PinInv, PinsMatchLog, Distinct,
     Recovering, Listed, Slots, Cached
<1>5. CleanInv'
  BY ZenonT(40) DEF ReadHead, diskVars, TypeOK, HeaderInv, LogInv, CleanInv, Listed, Recovering,
     Cached, Slots
<1>6. PinInv'
  BY ZenonT(40) DEF ReadHead, diskVars, TypeOK, HeaderInv, PinInv, PinsMatchLog, Distinct,
     Recovering, Listed
<1>7. OpsInv'
  BY <1>1, ZenonT(40) DEF ReadHead, diskVars, OpsInv, NoLostWakeup, TypeOK
<1> QED
  BY <1>2, <1>3, <1>4, <1>5, <1>6, <1>7, ZenonT(40)

\* One block copied home by install_trans().
LEMMA InstallTransIInv == IInv /\ InstallTrans => IInv'
<1> SUFFICES ASSUME IInv, InstallTrans PROVE IInv'
  BY ZenonT(40)
<1> USE DEF IInv
<1>1. InOps' = InOps
  BY ZenonT(40) DEF InstallTrans, LoopDone, Bunpin, InOps
<1>a. /\ phase \in {"recover", "install"} /\ tail' = tail + 1
      /\ disk' = [disk EXCEPT ![lh[tail]] = dlog[tail]]
      /\ buf' = [buf EXCEPT ![lh[tail]] = dlog[tail]]
      /\ pin' = IF phase = "recover" THEN pin ELSE [pin EXCEPT ![lh[tail]] = @ - 1]
      /\ UNCHANGED <<dlog, dhead, lh, outstanding, committing, phase, pc, opw, panicked>>
  BY ZenonT(40) DEF InstallTrans, Bunpin
<1>b. tail \in 1 .. Len(lh) /\ \A i \in 1 .. Len(lh) : lh[i] \in Blocks
  BY DEF InstallTrans, LoopDone, TypeOK
<1>c. /\ dhead = lh /\ \A i \in 1 .. Len(lh) : dlog[i] \in Vals
      /\ \A i, j \in 1 .. Len(lh) : lh[i] = lh[j] => i = j
  BY <1>a, ZenonT(40) DEF HeaderInv, LogInv, Distinct
<1>d. \A i \in 1 .. Len(lh) : i < tail + 1 <=> i < tail \/ i = tail
  BY <1>b
<1>2. TypeOK'
  <2>1. disk' \in [Blocks -> Vals \cup {Torn}] /\ buf' \in [Blocks -> Vals \cup {NoBuf}]
    BY <1>a, <1>b, <1>c, ZenonT(40) DEF TypeOK
  <2>2. pin' \in [Blocks -> Nat]
    <3>1. CASE phase = "recover"
      BY <1>a, <3>1, ZenonT(40) DEF TypeOK
    <3>2. CASE phase = "install"
      <4>1. pin[lh[tail]] = 1
        <5>1. ~(tail < tail)
          BY <1>b
        <5> QED
          BY <1>b, <3>2, <5>1, ZenonT(40) DEF PinInv
      <4>2. pin[lh[tail]] - 1 \in Nat
        BY <4>1
      <4> QED
        BY <1>a, <3>2, <4>2, ZenonT(40) DEF TypeOK
    <3> QED
      BY <1>a, <3>1, <3>2, ZenonT(40)
  <2>3. tail' \in Nat \ {0}
    BY <1>a, <1>b
  <2> QED
    BY <1>a, <2>1, <2>2, <2>3, ZenonT(40) DEF TypeOK
<1>3. HeaderInv'
  BY <1>a, ZenonT(40) DEF HeaderInv
<1>e. \A i \in 1 .. Len(lh) : /\ buf'[lh[i]] = IF i = tail THEN dlog[i] ELSE buf[lh[i]]
                             /\ disk'[lh[i]] = IF i = tail THEN dlog[i] ELSE disk[lh[i]]
  BY <1>a, <1>b, <1>c, ZenonT(40) DEF TypeOK
<1>4. LogInv'
  <2>1. phase = "install" => \A i \in 1 .. Len(lh) :
          buf'[lh[i]] = dlog[i] \/ (buf'[lh[i]] = NoBuf /\ i < tail')
    BY <1>a, <1>d, <1>e, ZenonT(40) DEF LogInv
  <2>2. \A i \in 1 .. Len(lh) : i < tail' => disk'[lh[i]] = dlog[i]
    BY <1>a, <1>d, <1>e, ZenonT(40) DEF LogInv
  <2>3. lh' = lh /\ dhead' = lh /\ dlog' = dlog /\ phase' = phase
    BY <1>a, <1>c, ZenonT(40)
  <2> QED
    BY <1>a, <1>c, <2>1, <2>2, <2>3, ZenonT(40) DEF LogInv
<1>5. CleanInv'
  <2> SUFFICES ASSUME NEW b \in Blocks
               PROVE  /\ ~Listed(b, dhead) => disk'[b] \in Vals
                      /\ Recovering \/ ~Listed(b, lh) => buf'[b] \in {NoBuf, disk'[b]}
    BY <1>a, ZenonT(40) DEF CleanInv, Listed, Recovering
  <2>1. CASE b = lh[tail]
    BY <1>a, <1>b, <1>c, <2>1, ZenonT(40) DEF Listed, TypeOK
  <2>2. CASE b # lh[tail]
    <3>1. disk'[b] = disk[b] /\ buf'[b] = buf[b]
      BY <1>a, <2>2, ZenonT(40) DEF TypeOK
    <3> QED
      BY <3>1, ZenonT(40) DEF CleanInv
  <2> QED
    BY <2>1, <2>2, ZenonT(40)
<1>6. PinInv'
  <2>1. CASE phase = "recover"
    BY <1>a, <2>1, ZenonT(40) DEF PinInv, PinsMatchLog, Recovering, Listed
  <2>2. CASE phase = "install"
    <3>1. \A i \in 1 .. Len(lh) : pin'[lh[i]] = IF i < tail' THEN 0 ELSE 1
      <4> SUFFICES ASSUME NEW i \in 1 .. Len(lh)
                   PROVE  pin'[lh[i]] = IF i < tail' THEN 0 ELSE 1
        BY ZenonT(40)
      <4>1. pin[lh[i]] = IF i < tail THEN 0 ELSE 1
        BY <2>2, ZenonT(40) DEF PinInv
      <4>2. pin'[lh[i]] = IF i = tail THEN pin[lh[i]] - 1 ELSE pin[lh[i]]
        BY <1>a, <1>b, <1>c, <2>2, ZenonT(40) DEF TypeOK
      <4> QED
        BY <1>a, <1>b, <1>d, <4>1, <4>2
    <3>2. \A b \in Blocks : ~Listed(b, lh) => pin'[b] = 0
      BY <1>a, <1>b, <2>2, ZenonT(40) DEF PinInv, Listed, TypeOK
    <3> QED
      BY <1>a, <2>2, <3>1, <3>2, ZenonT(40) DEF PinInv, PinsMatchLog, Listed
  <2> QED
    BY <1>a, <2>1, <2>2, ZenonT(40)
<1>7. OpsInv'
  BY <1>1, ZenonT(40) DEF InstallTrans, LoopDone, Bunpin, OpsInv, NoLostWakeup, TypeOK
<1> QED
  BY <1>2, <1>3, <1>4, <1>5, <1>6, <1>7, ZenonT(40)

\* The header is cleared.
LEMMA EraseHeadIInv == IInv /\ EraseHead => IInv'
<1> SUFFICES ASSUME IInv, EraseHead PROVE IInv'
  BY ZenonT(40)
<1> USE DEF IInv
<1>1. InOps' = InOps
  BY ZenonT(40) DEF EraseHead, LoopDone, InOps
<1>2. TypeOK'
  BY LogAssumption DEF EraseHead, LoopDone, TypeOK, Slots
<1>3. HeaderInv'
  BY DEF EraseHead, LoopDone, TypeOK, HeaderInv, Distinct
<1>4. LogInv'
  BY DEF EraseHead, LoopDone, TypeOK, HeaderInv, LogInv, CleanInv, PinInv, PinsMatchLog,
     Distinct, Recovering, Listed, Slots, Cached
<1>5. CleanInv'
  <2> SUFFICES ASSUME NEW b \in Blocks
               PROVE  disk[b] \in Vals /\ buf[b] \in {NoBuf, disk[b]}
    BY ZenonT(40) DEF EraseHead, LoopDone, CleanInv
  <2>1. CASE Listed(b, lh)
    <3>1. PICK i \in 1 .. Len(lh) : lh[i] = b
      BY <2>1, ZenonT(40) DEF Listed
    <3>2. disk[b] = dlog[i] /\ dlog[i] \in Vals
      BY <3>1 DEF EraseHead, LoopDone, TypeOK, HeaderInv, LogInv
    <3> QED
      BY <3>1, <3>2, ZenonT(40) DEF EraseHead, LoopDone, LogInv, CleanInv, Recovering, TypeOK
  <2>2. CASE ~Listed(b, lh)
    BY <2>2, ZenonT(40) DEF EraseHead, LoopDone, HeaderInv, CleanInv
  <2> QED
    BY <2>1, <2>2, ZenonT(40)
<1>6. PinInv'
  BY DEF EraseHead, LoopDone, TypeOK, HeaderInv, PinInv, PinsMatchLog, Distinct, Recovering,
     Listed
<1>7. OpsInv'
  BY <1>1, ZenonT(40) DEF EraseHead, LoopDone, OpsInv, NoLostWakeup, TypeOK
<1> QED
  BY <1>2, <1>3, <1>4, <1>5, <1>6, <1>7, ZenonT(40)

\* One block copied to the log.
LEMMA WriteLogIInv == IInv /\ WriteLog => IInv'
<1> SUFFICES ASSUME IInv, WriteLog PROVE IInv'
  BY ZenonT(40)
<1> USE DEF IInv
<1>1. InOps' = InOps
  BY ZenonT(40) DEF WriteLog, LoopDone, InOps
<1>a. /\ phase = "write_log" /\ tail' = tail + 1
      /\ dlog' = [dlog EXCEPT ![tail] = Cached(lh[tail])]
      /\ buf' = [buf EXCEPT ![lh[tail]] = Cached(lh[tail])]
      /\ UNCHANGED <<disk, dhead, pin, lh, outstanding, committing, phase, pc, opw, panicked>>
  BY ZenonT(40) DEF WriteLog
<1>b. /\ tail \in 1 .. Len(lh) /\ \A i \in 1 .. Len(lh) : lh[i] \in Blocks
      /\ \A i \in 1 .. Len(lh) : i \in Slots
  BY LogAssumption DEF WriteLog, LoopDone, TypeOK, Slots
<1>c. Cached(lh[tail]) = buf[lh[tail]] /\ buf[lh[tail]] \in Vals
  BY <1>a, <1>b, ZenonT(40) DEF LogInv, Cached, TypeOK
<1>d. \A i \in 1 .. Len(lh) : i < tail + 1 <=> i < tail \/ i = tail
  BY <1>b
<1>e. buf' = buf
  BY <1>a, <1>b, <1>c, ZenonT(40) DEF TypeOK
<1>2. TypeOK'
  <2>1. dlog' \in [Slots -> Vals \cup {Torn}]
    BY <1>a, <1>b, <1>c, ZenonT(40) DEF TypeOK
  <2>2. tail' \in Nat \ {0}
    BY <1>a, <1>b
  <2> QED
    BY <1>a, <1>e, <2>1, <2>2, ZenonT(40) DEF TypeOK
<1>3. HeaderInv'
  BY <1>a, ZenonT(40) DEF HeaderInv
<1>4. LogInv'
  <2>1. dhead = <<>>
    BY <1>a, ZenonT(40) DEF HeaderInv
  <2>2. 1 .. Len(dhead') = {}
    BY <1>a, <2>1
  <2>3. \A i \in 1 .. Len(lh) : i < tail' => dlog'[i] = buf[lh[i]]
    <3>1. \A i \in 1 .. Len(lh) : dlog'[i] = IF i = tail THEN buf[lh[tail]] ELSE dlog[i]
      BY <1>a, <1>b, <1>c, ZenonT(40) DEF TypeOK
    <3> QED
      BY <1>a, <1>d, <3>1, ZenonT(40) DEF LogInv
  <2> QED
    BY <1>a, <1>e, <2>2, <2>3, ZenonT(40) DEF LogInv
<1>5. CleanInv'
  BY <1>a, <1>e, ZenonT(40) DEF CleanInv, Listed, Recovering
<1>6. PinInv'
  BY <1>a, ZenonT(40) DEF PinInv, PinsMatchLog, Recovering, Listed
<1>7. OpsInv'
  BY <1>1, ZenonT(40) DEF WriteLog, LoopDone, OpsInv, NoLostWakeup, TypeOK
<1> QED
  BY <1>2, <1>3, <1>4, <1>5, <1>6, <1>7, ZenonT(40)

\* The commit point.
LEMMA WriteHeadIInv == IInv /\ WriteHead => IInv'
<1> SUFFICES ASSUME IInv, WriteHead PROVE IInv'
  BY ZenonT(40)
<1> USE DEF IInv
<1>1. InOps' = InOps
  BY ZenonT(40) DEF WriteHead, LoopDone, InOps
<1>2. TypeOK'
  BY LogAssumption DEF WriteHead, LoopDone, TypeOK, Slots
<1>3. HeaderInv'
  BY DEF WriteHead, LoopDone, TypeOK, HeaderInv, Distinct
<1>4. LogInv'
  <2>1. \A i \in 1 .. Len(lh) : dlog[i] = buf[lh[i]] /\ dlog[i] \in Vals
    BY DEF WriteHead, LoopDone, TypeOK, LogInv
  <2> QED
    BY <2>1 DEF WriteHead, LoopDone, TypeOK, HeaderInv, LogInv
<1>5. CleanInv'
  BY DEF WriteHead, LoopDone, TypeOK, HeaderInv, LogInv, CleanInv, Listed, Recovering, Cached,
     Slots
<1>6. PinInv'
  BY DEF WriteHead, LoopDone, TypeOK, HeaderInv, PinInv, PinsMatchLog, Distinct, Recovering,
     Listed
<1>7. OpsInv'
  BY <1>1, ZenonT(40) DEF WriteHead, LoopDone, OpsInv, NoLostWakeup, TypeOK
<1> QED
  BY <1>2, <1>3, <1>4, <1>5, <1>6, <1>7, ZenonT(40)

\* Steps that leave the disk, the cache and the headers alone.
LEMMA DataUnchanged ==
  ASSUME HeaderInv, LogInv, CleanInv, PinInv,
         UNCHANGED <<disk, dlog, dhead, buf, pin, lh, phase, tail>>
  PROVE  HeaderInv' /\ LogInv' /\ CleanInv' /\ PinInv'
<1>1. HeaderInv' /\ LogInv'
  BY DEF HeaderInv, LogInv, Distinct
<1>2. CleanInv' /\ PinInv'
  BY ZenonT(40) DEF CleanInv, PinInv, PinsMatchLog, Listed, Recovering
<1> QED
  BY ZenonT(40), <1>1, <1>2

\* One turn of begin_op()'s loop.
LEMMA BeginOpIInv == ASSUME NEW p \in Procs PROVE IInv /\ BeginOp(p) => IInv'
<1> SUFFICES ASSUME IInv, BeginOp(p) PROVE IInv'
  BY ZenonT(40)
<1> USE DEF IInv
<1>1. TypeOK'
  <2>1. outstanding' \in Nat /\ pc' \in [Procs -> {"out", "woken", "sleeping", "in", "commit"}]
    BY DEF BeginOp, TypeOK
  <2> QED
    BY <2>1, ZenonT(40) DEF BeginOp, diskVars, TypeOK
<1>2. OpsInv'
  <2>1. CASE ~Admit
    <3>1. UNCHANGED <<outstanding, committing, phase>> /\ InOps' = InOps
      BY <2>1, ZenonT(40) DEF BeginOp, InOps, TypeOK
    <3>2. committing \/ outstanding > 0
      <4> SUFFICES ASSUME ~committing, outstanding = 0 PROVE FALSE
        BY DEF TypeOK
      <4>1. phase = "idle" /\ Len(lh) = 0
        BY ZenonT(40) DEF BeginOp, Up, Recovering, OpsInv, TypeOK
      <4> QED
        BY <2>1, <4>1, LogAssumption DEF Admit
    <3> QED
      BY <3>1, <3>2 DEF OpsInv, NoLostWakeup, BeginOp
  <2>2. CASE Admit
    <3>1. /\ outstanding' = outstanding + 1 /\ ~committing
          /\ UNCHANGED <<committing, phase>>
      BY <2>2, ZenonT(40) DEF BeginOp, Admit
    <3>2. InOps' = InOps \cup {p} /\ p \notin InOps
      BY <2>2 DEF BeginOp, InOps, TypeOK
    <3>3. Cardinality(InOps') = Cardinality(InOps) + 1
      BY <3>2, InOpsFinite, FS_AddElement, ZenonT(40)
    <3> QED
      BY <3>1, <3>3 DEF OpsInv, NoLostWakeup, TypeOK
  <2> QED
    BY <2>1, <2>2, ZenonT(40)
<1> QED
  BY <1>1, <1>2, DataUnchanged, ZenonT(40) DEF BeginOp, diskVars

\* kill() of a process asleep in begin_op().
LEMMA KillIInv == ASSUME NEW p \in Procs PROVE IInv /\ Kill(p) => IInv'
<1> SUFFICES ASSUME IInv, Kill(p) PROVE IInv'
  BY ZenonT(40)
<1> USE DEF IInv
<1>1. TypeOK'
  BY ZenonT(40) DEF Kill, diskVars, TypeOK
<1>2. InOps' = InOps
  BY ZenonT(40) DEF Kill, InOps, TypeOK
<1>3. OpsInv'
  BY <1>2, ZenonT(40) DEF Kill, OpsInv, NoLostWakeup, TypeOK
<1> QED
  BY <1>1, <1>3, DataUnchanged, ZenonT(40) DEF Kill, diskVars

\* The end of a commit wakes everybody up.
LEMMA FinishCommitIInv ==
  ASSUME NEW p \in Procs PROVE IInv /\ FinishCommit(p) => IInv'
<1> SUFFICES ASSUME IInv, FinishCommit(p) PROVE IInv'
  BY ZenonT(40)
<1> USE DEF IInv
<1>1. TypeOK'
  BY ZenonT(40) DEF FinishCommit, Wakeup, diskVars, TypeOK
<1>2. InOps' = InOps /\ \A q \in Procs : pc'[q] # "sleeping"
  BY ZenonT(40) DEF FinishCommit, Wakeup, InOps, TypeOK
<1>3. OpsInv'
  BY <1>2, ZenonT(40) DEF FinishCommit, OpsInv, NoLostWakeup, HeaderInv
<1>4. HeaderInv' /\ LogInv'
  BY DEF FinishCommit, diskVars, HeaderInv, LogInv, Distinct
<1>5. CleanInv' /\ PinInv'
  BY ZenonT(40) DEF FinishCommit, diskVars, CleanInv, PinInv, PinsMatchLog, Listed, Recovering
<1> QED
  BY <1>1, <1>3, <1>4, <1>5, ZenonT(40)

\* The opening of end_op(): somebody else is still inside, or commit() starts.
LEMMA EndOpIInv == ASSUME NEW p \in Procs PROVE IInv /\ EndOp(p) => IInv'
<1> SUFFICES ASSUME IInv, EndOp(p) PROVE IInv'
  BY ZenonT(40)
<1> USE DEF IInv
<1>1. InOps' = InOps \ {p} /\ p \in InOps
  BY ZenonT(40) DEF EndOp, Wakeup, InOps, TypeOK
<1>2. Cardinality(InOps') = Cardinality(InOps) - 1 /\ Cardinality(InOps') \in Nat
  BY <1>1, InOpsFinite, FS_RemoveElement, FS_CardinalityType, ZenonT(40)
<1>3. outstanding' = Cardinality(InOps') /\ outstanding # 0
  BY <1>2, InOpsFinite DEF EndOp, OpsInv
<1>4. ~committing /\ phase = "idle"
  BY <1>3, ZenonT(40) DEF OpsInv, EndOp, Up, Recovering, TypeOK
<1>5. TypeOK'
  <2>1. outstanding' \in Nat
    BY <1>2, <1>3, ZenonT(40)
  <2>2. pc' \in [Procs -> {"out", "woken", "sleeping", "in", "commit"}]
    BY ZenonT(40) DEF EndOp, Wakeup, TypeOK
  <2>3. phase' \in {"boot", "recover", "idle", "write_log", "install", "finish"}
    BY ZenonT(40) DEF EndOp, TypeOK
  <2>4. committing' \in BOOLEAN /\ panicked' \in BOOLEAN
    BY ZenonT(40) DEF EndOp, TypeOK
  <2>5. opw' \in [Procs -> SUBSET Blocks] /\ tail' \in Nat \ {0}
    BY DEF EndOp, TypeOK
  <2>6. UNCHANGED <<disk, dlog, dhead, buf, pin, lh>>
    BY ZenonT(40) DEF EndOp, diskVars
  <2> QED
    BY <2>1, <2>2, <2>3, <2>4, <2>5, <2>6, ZenonT(40) DEF TypeOK
<1>6. OpsInv'
  BY <1>3, <1>4, <1>5, SMTT(30) DEF EndOp, OpsInv, NoLostWakeup, TypeOK, Wakeup
<1>7. HeaderInv' /\ LogInv'
  BY <1>4 DEF EndOp, diskVars, HeaderInv, LogInv, Distinct, TypeOK
<1>8. CleanInv' /\ PinInv'
  BY <1>4, ZenonT(40) DEF EndOp, diskVars, CleanInv, PinInv, PinsMatchLog, Listed, Recovering
<1> QED
  BY <1>5, <1>6, <1>7, <1>8, ZenonT(40)


\* log_write(): the block joins the transaction, or is absorbed by it.
LEMMA LogWriteIInv ==
  ASSUME NEW p \in Procs, NEW b \in Blocks, NEW v \in Vals
  PROVE  IInv /\ LogWrite(p, b, v) => IInv'
<1> SUFFICES ASSUME IInv, LogWrite(p, b, v) PROVE IInv'
  BY ZenonT(40)
<1> USE DEF IInv
<1>1. p \in InOps /\ outstanding # 0
  <2>1. InOps # {} /\ p \in InOps
    BY ZenonT(40) DEF LogWrite, InOps
  <2> QED
    BY <2>1, InOpsFinite, FS_EmptySet, LogAssumption, FS_Subset, ZenonT(40) DEF OpsInv, InOps
<1>2. ~committing /\ phase = "idle" /\ dhead = <<>>
  BY <1>1, ZenonT(40) DEF LogWrite, Up, Recovering, OpsInv, HeaderInv, TypeOK
<1>3. InOps' = InOps
  BY ZenonT(40) DEF LogWrite, InOps
<1>4. OpsInv'
  BY <1>1, <1>3, ZenonT(40) DEF LogWrite, OpsInv, NoLostWakeup
<1>5. CASE TooBigOrOutside
  <2>1. UNCHANGED <<disk, dlog, dhead, buf, pin, lh, phase, tail, outstanding, committing, pc, opw>>
        /\ panicked' = TRUE
    BY <1>5, ZenonT(40) DEF LogWrite, diskVars
  <2>2. TypeOK'
    BY <2>1, ZenonT(40) DEF TypeOK
  <2> QED
    BY <1>4, <2>1, <2>2, DataUnchanged, ZenonT(40)
<1>6. CASE ~TooBigOrOutside
  <2>1. /\ UNCHANGED <<disk, dlog, dhead, phase, tail, outstanding, committing, pc, panicked>>
        /\ buf' = [buf EXCEPT ![b] = v]
        /\ opw' = [opw EXCEPT ![p] = @ \cup {b}]
    BY <1>6, ZenonT(40) DEF LogWrite, diskVars
  <2>2. CASE Listed(b, lh)
    <3>1. UNCHANGED <<pin, lh>>
      BY <1>6, <2>2, ZenonT(40) DEF LogWrite, Listed
    <3>2. TypeOK'
      BY <2>1, <3>1, ZenonT(40) DEF TypeOK
    <3>3. HeaderInv'
      BY <2>1, <3>1, SMTT(30) DEF HeaderInv, Distinct
    <3>4. LogInv'
      BY <1>2, <2>1, <3>1, LogAssumption DEF LogInv, TypeOK
    <3>5. CleanInv'
      BY <1>2, <2>1, <2>2, <3>1, ZenonT(40) DEF CleanInv, Listed, Recovering, TypeOK
    <3>6. PinInv'
      BY <2>1, <3>1, ZenonT(40) DEF PinInv, PinsMatchLog, Listed, Recovering
    <3> QED
      BY <1>4, <3>2, <3>3, <3>4, <3>5, <3>6, ZenonT(40)
  <2>3. CASE ~Listed(b, lh)
    <3>1. pin' = [pin EXCEPT ![b] = @ + 1] /\ lh' = Append(lh, b)
      BY <1>6, <2>3, ZenonT(40) DEF LogWrite, Listed
    <3>2. /\ lh' \in Seq(Blocks) /\ Len(lh') = Len(lh) + 1 /\ lh'[Len(lh) + 1] = b
          /\ \A i \in 1 .. Len(lh) : lh'[i] = lh[i]
      BY <3>1, SMTT(30) DEF TypeOK
    <3>3. TypeOK'
      <4>1. Len(lh') < NLOG /\ Len(lh') <= LOGSIZE
        BY <1>6, <3>2, LogAssumption, SMTT(30) DEF TypeOK, TooBigOrOutside
      <4>2. pin' \in [Blocks -> Nat]
        BY <3>1 DEF TypeOK
      <4>3. buf' \in [Blocks -> Vals \cup {NoBuf}]
        BY <2>1, ZenonT(40) DEF TypeOK
      <4>4. opw' \in [Procs -> SUBSET Blocks]
        BY <2>1, ZenonT(40) DEF TypeOK
      <4>5. lh' \in Seq(Blocks)
        BY <3>2, ZenonT(40)
      <4> QED
        BY <2>1, <4>1, <4>2, <4>3, <4>4, <4>5 DEF TypeOK
    <3>4. HeaderInv'
      <4>1. Distinct(lh')
        <5> SUFFICES ASSUME NEW i \in 1 .. Len(lh'), NEW j \in 1 .. Len(lh'),
                            lh'[i] = lh'[j]
                     PROVE  i = j
          BY ZenonT(40) DEF Distinct
        <5>1. i \in 1 .. Len(lh) \/ i = Len(lh) + 1
          BY <3>2 DEF TypeOK
        <5>2. j \in 1 .. Len(lh) \/ j = Len(lh) + 1
          BY <3>2, SMTT(30) DEF TypeOK
        <5> QED
          BY <2>3, <3>2, <5>1, <5>2 DEF HeaderInv, Distinct, Listed
      <4> QED
        BY <1>2, <2>1, <4>1 DEF HeaderInv, Distinct
    <3>5. LogInv'
      <4>1. \A i \in 1 .. Len(lh) : lh[i] \in Blocks /\ buf[lh[i]] # NoBuf
        BY <1>2, SMTT(30) DEF LogInv, TypeOK
      <4>2. \A i \in 1 .. Len(lh') : buf'[lh'[i]] # NoBuf
        <5> SUFFICES ASSUME NEW i \in 1 .. Len(lh') PROVE buf'[lh'[i]] # NoBuf
          BY ZenonT(40)
        <5>1. i \in 1 .. Len(lh) \/ i = Len(lh) + 1
          BY <3>2 DEF TypeOK
        <5>2. \A c \in Blocks : buf'[c] = IF c = b THEN v ELSE buf[c]
          BY <2>1, ZenonT(40) DEF TypeOK
        <5> QED
          BY <3>2, <4>1, <5>1, <5>2, LogAssumption
      <4> QED
        BY <1>2, <2>1, <4>2, ZenonT(40) DEF LogInv
    <3>6. \A c \in Blocks : Listed(c, lh') <=> Listed(c, lh) \/ c = b
      <4> SUFFICES ASSUME NEW c \in Blocks PROVE Listed(c, lh') <=> Listed(c, lh) \/ c = b
        BY ZenonT(40)
      <4>1. 1 .. Len(lh') = (1 .. Len(lh)) \cup {Len(lh) + 1}
        BY <3>2 DEF TypeOK
      <4> QED
        BY <3>2, <4>1, ZenonT(40) DEF Listed
    <3>7. CleanInv'
      BY <1>2, <2>1, <3>6, ZenonT(40) DEF CleanInv, Recovering, TypeOK
    <3>8. PinInv'
      <4>1. \A c \in Blocks : pin'[c] = IF Listed(c, lh') THEN 1 ELSE 0
        BY <1>2, <2>3, <3>1, <3>6 DEF PinInv, PinsMatchLog, Recovering, TypeOK
      <4> QED
        BY <1>2, <2>1, <4>1, ZenonT(40) DEF PinInv, PinsMatchLog, Recovering, Listed
    <3> QED
      BY <1>4, <3>3, <3>4, <3>5, <3>7, <3>8, ZenonT(40)
  <2> QED
    BY <2>2, <2>3, ZenonT(40)
<1> QED
  BY <1>5, <1>6, ZenonT(40)

\* Reading a block into the cache.
LEMMA BreadIInv == ASSUME NEW b \in Blocks PROVE IInv /\ Bread(b) => IInv'
<1> SUFFICES ASSUME IInv, Bread(b) PROVE IInv'
  BY ZenonT(40)
<1> USE DEF IInv
<1>1. InOps' = InOps
  BY ZenonT(40) DEF Bread, InOps
<1>2. OpsInv'
  BY <1>1, ZenonT(40) DEF Bread, OpsInv, NoLostWakeup
<1>3. UNCHANGED <<disk, dlog, dhead, pin, lh, phase, tail>> /\ ~Recovering
  BY ZenonT(40) DEF Bread, diskVars, Up
<1>4. disk[b] \in Vals
  <2>1. CASE Listed(b, dhead)
    <3>1. phase = "install" /\ dhead = lh
      BY <2>1 DEF Bread, Up, Recovering, HeaderInv, TypeOK, Listed
    <3>2. PICK i \in 1 .. Len(lh) : lh[i] = b
      BY <2>1, <3>1, ZenonT(40) DEF Listed
    <3> QED
      BY <3>1, <3>2, LogAssumption, ZenonT(40) DEF Bread, LogInv, TypeOK
  <2> QED
    BY <2>1, ZenonT(40) DEF CleanInv
<1>5. TypeOK'
  BY <1>4, ZenonT(40) DEF Bread, diskVars, TypeOK
<1>6. HeaderInv' /\ PinInv'
  BY <1>3, SMTT(30) DEF HeaderInv, Distinct, PinInv, PinsMatchLog, Recovering, Listed
<1>7. LogInv'
  <2>1. \A i \in 1 .. Len(lh) : lh[i] \in Blocks
    BY DEF TypeOK
  <2>2. \A c \in Blocks : buf'[c] = IF c = b THEN disk[b] ELSE buf[c]
    BY ZenonT(40) DEF Bread, TypeOK
  <2>3. phase = "install" =>
          \A i \in 1 .. Len(lh) : buf'[lh[i]] = dlog[i] \/ (buf'[lh[i]] = NoBuf /\ i < tail)
    <3> SUFFICES ASSUME phase = "install", NEW i \in 1 .. Len(lh)
                 PROVE  buf'[lh[i]] = dlog[i] \/ (buf'[lh[i]] = NoBuf /\ i < tail)
      BY ZenonT(40)
    <3>1. buf[lh[i]] = dlog[i] \/ (buf[lh[i]] = NoBuf /\ i < tail)
      BY ZenonT(40) DEF LogInv
    <3>2. CASE lh[i] # b
      BY <2>1, <2>2, <3>1, <3>2, ZenonT(40)
    <3>3. CASE lh[i] = b
      <4>1. dlog[i] \in Vals /\ NoBuf \notin Vals
        BY LogAssumption, ZenonT(40) DEF LogInv, HeaderInv
      <4>2. i < tail
        BY <3>1, <3>3, <4>1, ZenonT(40) DEF Bread
      <4>3. disk[lh[i]] = dlog[i]
        BY <4>2, ZenonT(40) DEF LogInv
      <4> QED
        BY <2>2, <3>3, <4>3, ZenonT(40)
    <3> QED
      BY <3>2, <3>3, ZenonT(40)
  <2>4. phase \in {"idle", "write_log"} => \A i \in 1 .. Len(lh) : buf'[lh[i]] = buf[lh[i]]
    BY <2>1, <2>2, ZenonT(40) DEF Bread, LogInv
  <2> QED
    BY <1>3, <2>3, <2>4, ZenonT(40) DEF LogInv
<1>8. CleanInv'
  BY <1>3 DEF Bread, CleanInv, Recovering, Listed, TypeOK
<1> QED
  BY <1>2, <1>5, <1>6, <1>7, <1>8, ZenonT(40)

\* Recycling an unreferenced buffer loses nothing.
LEMMA RecycleIInv == ASSUME NEW b \in Blocks PROVE IInv /\ Recycle(b) => IInv'
<1> SUFFICES ASSUME IInv, Recycle(b) PROVE IInv'
  BY ZenonT(40)
<1> USE DEF IInv
<1>1. InOps' = InOps
  BY ZenonT(40) DEF Recycle, InOps
<1>2. OpsInv'
  BY <1>1, ZenonT(40) DEF Recycle, OpsInv, NoLostWakeup
<1>3. UNCHANGED <<disk, dlog, dhead, pin, lh, phase, tail>>
  BY ZenonT(40) DEF Recycle, diskVars
<1>4. TypeOK'
  BY ZenonT(40) DEF Recycle, diskVars, TypeOK
<1>5. HeaderInv' /\ PinInv'
  BY <1>3, SMTT(30) DEF HeaderInv, Distinct, PinInv, PinsMatchLog, Recovering, Listed
<1>6. LogInv'
  <2>1. phase \in {"idle", "write_log"} => \A i \in 1 .. Len(lh) : lh[i] # b
    BY DEF Recycle, PinInv, PinsMatchLog, Recovering, Listed
  <2>2. phase = "install" => \A i \in 1 .. Len(lh) : lh[i] = b => i < tail
    BY SMTT(30) DEF Recycle, PinInv
  <2> QED
    BY <1>3, <2>1, <2>2 DEF Recycle, LogInv, TypeOK
<1>7. CleanInv'
  BY <1>3, ZenonT(40) DEF Recycle, CleanInv, Recovering, Listed, TypeOK
<1> QED
  BY <1>2, <1>4, <1>5, <1>6, <1>7, ZenonT(40)

\* The write a crash may tear: of a home block, or of a block of the log.
DiskTorn ==
  \/ disk' = disk
  \/ /\ tail \in 1 .. Len(lh) /\ phase \in {"recover", "install"}
     /\ disk' = [disk EXCEPT ![lh[tail]] = Torn]
DlogTorn ==
  \/ dlog' = dlog
  \/ /\ tail \in 1 .. Len(lh) /\ phase = "write_log"
     /\ dlog' = [dlog EXCEPT ![tail] = Torn]

\* A crash leaves home blocks and the log's data as they were, but for one
\* block that it may tear.
LEMMA CrashTears == ASSUME Crash PROVE DiskTorn /\ DlogTorn
<1>1. DiskTorn
  BY ZenonT(40) DEF Crash, DiskTorn
<1>2. DlogTorn
  BY ZenonT(40) DEF Crash, DlogTorn
<1> QED
  BY <1>1, <1>2, ZenonT(40)

\* The machine stops: whatever write it tears is covered by the log.
LEMMA CrashIInv == IInv /\ Crash => IInv'
<1> SUFFICES ASSUME IInv, Crash PROVE IInv'
  BY ZenonT(40)
<1> USE DEF IInv
<1>1. InOps' = {} /\ Cardinality(InOps') = 0
  BY FS_EmptySet, ZenonT(40) DEF Crash, InOps
<1>2. OpsInv'
  BY <1>1, ZenonT(40) DEF Crash, OpsInv, NoLostWakeup
<1>3. DiskTorn
  BY CrashTears, ZenonT(40)
<1>4. DlogTorn
  BY CrashTears, ZenonT(40)
<1>5. TypeOK'
  <2>1. disk' \in [Blocks -> Vals \cup {Torn}]
    BY <1>3, ZenonT(40) DEF DiskTorn, TypeOK
  <2>2. dlog' \in [Slots -> Vals \cup {Torn}]
    BY <1>4, ZenonT(40) DEF DlogTorn, TypeOK
  <2>3. buf' \in [Blocks -> Vals \cup {NoBuf}] /\ pin' \in [Blocks -> Nat]
    BY ZenonT(40) DEF Crash
  <2>4. lh' \in Seq(Blocks) /\ Len(lh') = 0
    BY DEF Crash
  <2>5. pc' \in [Procs -> {"out", "woken", "sleeping", "in", "commit"}]
        /\ opw' \in [Procs -> SUBSET Blocks]
    BY ZenonT(40) DEF Crash
  <2>6. committing' \in BOOLEAN /\ panicked' \in BOOLEAN
    BY ZenonT(40) DEF Crash
  <2>7. outstanding' \in Nat /\ tail' \in Nat \ {0} /\ phase' = "boot" /\ dhead' = dhead
    BY DEF Crash
  <2>8. Len(lh') < NLOG /\ Len(lh') <= LOGSIZE
    BY <2>4, LogAssumption
  <2> QED
    BY <2>1, <2>2, <2>3, <2>4, <2>5, <2>6, <2>7, <2>8, ZenonT(40) DEF TypeOK
<1>6. HeaderInv'
  BY SMTT(30) DEF Crash, HeaderInv, Distinct
<1>7. LogInv'
  BY <1>4, SMTT(30) DEF Crash, DlogTorn, HeaderInv, LogInv
<1>8. CleanInv'
  BY <1>3 DEF Crash, DiskTorn, HeaderInv, CleanInv, Listed, TypeOK
<1>9. PinInv'
  BY ZenonT(40) DEF Crash, PinInv, PinsMatchLog, Recovering
<1> QED
  BY ZenonT(40), <1>2, <1>5, <1>6, <1>7, <1>8, <1>9

\* Every step preserves the invariant.
LEMMA NextIInv == IInv /\ [Next]_vars => IInv'
<1> SUFFICES ASSUME IInv, [Next]_vars PROVE IInv'
  BY ZenonT(40)
<1>1. CASE UNCHANGED vars
  <2>1. InOps' = InOps
    BY <1>1, ZenonT(40) DEF vars, InOps
  <2>2. TypeOK' /\ OpsInv'
    BY <1>1, <2>1, ZenonT(40) DEF vars, IInv, TypeOK, OpsInv, NoLostWakeup
  <2> QED
    BY <1>1, <2>2, DataUnchanged, ZenonT(40) DEF vars, IInv
<1>2. CASE CommitStep
  BY <1>2, WriteLogIInv, WriteHeadIInv, InstallTransIInv, EraseHeadIInv, ReadHeadIInv, ZenonT(40)
     DEF CommitStep
<1>3. CASE \E p \in Procs : BeginOp(p) \/ Kill(p) \/ EndOp(p) \/ FinishCommit(p)
  BY <1>3, BeginOpIInv, KillIInv, EndOpIInv, FinishCommitIInv, ZenonT(40)
<1>4. CASE \E p \in Procs, b \in Blocks, v \in Vals : LogWrite(p, b, v)
  BY <1>4, LogWriteIInv, ZenonT(40)
<1>5. CASE \E b \in Blocks : Bread(b) \/ Recycle(b)
  BY <1>5, BreadIInv, RecycleIInv, ZenonT(40)
<1>6. CASE Crash
  BY <1>6, CrashIInv, ZenonT(40)
<1> QED
  BY <1>1, <1>2, <1>3, <1>4, <1>5, <1>6, ZenonT(40) DEF Next

\* The inductive invariant holds in every reachable state.
THEOREM Invariance == Spec => []IInv
  BY InitIInv, NextIInv, PTL DEF Spec


-----------------------------------------------------------------------------
\* Recovery copies the i-th log block to the i-th block of the header.
LEMMA RestoreListed ==
  ASSUME NEW d, NEW l, NEW h \in Seq(Blocks), Distinct(h), NEW i \in 1 .. Len(h)
  PROVE  Restore(d, l, h)[h[i]] = l[i]
<1>1. h[i] \in Blocks /\ Listed(h[i], h)
  BY DEF Listed
<1>2. (CHOOSE j \in 1 .. Len(h) : h[j] = h[i]) = i
  BY ZenonT(40) DEF Distinct
<1> QED
  BY <1>1, <1>2, ZenonT(40) DEF Restore

\* Recovery leaves the other blocks alone.
LEMMA RestoreOther ==
  ASSUME NEW d, NEW l, NEW h, NEW b \in Blocks, ~Listed(b, h)
  PROVE  Restore(d, l, h)[b] = d[b]
  BY ZenonT(40) DEF Restore

\* Two disks that agree on every log block of the header, and on the blocks
\* outside it, recover to the same contents.
LEMMA RestoreSame ==
  ASSUME NEW d, NEW l, NEW e, NEW m, NEW h \in Seq(Blocks), Distinct(h),
         \A i \in 1 .. Len(h) : l[i] = m[i],
         \A b \in Blocks : ~Listed(b, h) => d[b] = e[b]
  PROVE  Restore(d, l, h) = Restore(e, m, h)
<1> SUFFICES ASSUME NEW b \in Blocks PROVE Restore(d, l, h)[b] = Restore(e, m, h)[b]
  BY ZenonT(40) DEF Restore
<1>1. CASE Listed(b, h)
  <2>1. PICK i \in 1 .. Len(h) : h[i] = b
    BY <1>1, ZenonT(40) DEF Listed
  <2> QED
    BY <2>1, RestoreListed
<1>2. CASE ~Listed(b, h)
  BY <1>2, RestoreOther
<1> QED
  BY ZenonT(40), <1>1, <1>2

\* Every block recovery restores is a whole one.
LEMMA IntactStep == IInv => RecoveredIntact
<1> SUFFICES ASSUME IInv, NEW b \in Blocks PROVE Recovered[b] \in Vals
  BY ZenonT(40) DEF RecoveredIntact, Recovered, Restore
<1>1. CASE Listed(b, dhead)
  <2>1. PICK i \in 1 .. Len(dhead) : dhead[i] = b
    BY <1>1, ZenonT(40) DEF Listed
  <2>2. Recovered[b] = dlog[i]
    BY <2>1, RestoreListed, SMTT(30) DEF Recovered, IInv, TypeOK, HeaderInv
  <2> QED
    BY <2>2, ZenonT(40) DEF IInv, LogInv
<1>2. CASE ~Listed(b, dhead)
  <2>1. Recovered[b] = disk[b]
    BY <1>2, ZenonT(40) DEF Recovered, Restore
  <2> QED
    BY <1>2, <2>1, ZenonT(40) DEF IInv, CleanInv
<1> QED
  BY <1>1, <1>2, ZenonT(40)

\* With nobody inside and no commit running, disk and cache agree.
LEMMA QuiescentStep == IInv => QuiescentDurable
<1> SUFFICES ASSUME IInv, Up, outstanding = 0, ~committing, NEW b \in Blocks
             PROVE  Recovered[b] = Cached(b)
  BY ZenonT(40) DEF QuiescentDurable, Recovered, Restore
<1>1. lh = <<>> /\ dhead = <<>> /\ ~Recovering
  BY ZenonT(40) DEF IInv, OpsInv, HeaderInv, TypeOK, Up, Recovering
<1>2. ~Listed(b, lh) /\ ~Listed(b, dhead)
  BY <1>1 DEF Listed
<1>3. Recovered[b] = disk[b]
  BY <1>2, ZenonT(40) DEF Recovered, Restore
<1> QED
  BY <1>2, <1>3, ZenonT(40) DEF IInv, CleanInv, Cached

\* The log keeps its types, however many processes and blocks there are.
THEOREM TypeCorrect == Spec => []TypeOK
  BY Invariance, PTL DEF IInv

\* begin_op() never sleeps with nobody left to wake it.
THEOREM LogNoLostWakeup == Spec => []NoLostWakeup
  BY Invariance, PTL DEF IInv, OpsInv

\* No crash, even inside a block write, leaves recovery a torn block.
THEOREM LogRecoveredIntact == Spec => []RecoveredIntact
  BY Invariance, IntactStep, PTL

\* A quiescent log has everything on disk.
THEOREM LogQuiescentDurable == Spec => []QuiescentDurable
  BY Invariance, QuiescentStep, PTL

\* The buffers pinned by the log are those of the transaction, once each.
THEOREM LogPinsMatch == Spec => []PinsMatchLog
  BY Invariance, PTL DEF IInv, PinInv

\* All of it at every moment, also in the middle of a commit or of recovery:
\* begin_op(), end_op(), log_write(), commit() and recover_from_log() keep the
\* log consistent.
THEOREM LogConsistent == Spec => []Consistent
  BY TypeCorrect, LogNoLostWakeup, LogRecoveredIntact, LogQuiescentDurable,
     LogPinsMatch, PTL DEF Consistent


-----------------------------------------------------------------------------
(* The log implements Transactions. *)

\* Steps that change neither what is seen, nor what is recovered, nor who is in.
LEMMA TStutter ==
  ASSUME View' = View, Recovered' = Recovered, InOps' = InOps
  PROVE  UNCHANGED T!tvars
  BY ZenonT(40) DEF T!tvars, InOps

\* A fresh file system has nothing written and nothing open.
LEMMA InitRefines == Init => T!TInit
<1> SUFFICES ASSUME Init PROVE T!TInit
  BY ZenonT(40)
<1>1. Recovered \in [Blocks -> Vals]
  BY InitIInv, IntactStep, ZenonT(40) DEF RecoveredIntact
<1>2. View = Recovered
  BY ZenonT(40) DEF Init, View, Recovering
<1>3. {p \in Procs : pc[p] = "in"} = {}
  BY ZenonT(40) DEF Init
<1> QED
  BY <1>1, <1>2, <1>3, ZenonT(40) DEF T!TInit

\* install_trans() copies what recovery would copy: the contents do not change.
LEMMA InstallRefines == IInv /\ InstallTrans => UNCHANGED T!tvars
<1> SUFFICES ASSUME IInv, InstallTrans PROVE UNCHANGED T!tvars
  BY ZenonT(40)
<1> USE DEF IInv
<1>1. dhead = lh /\ dhead' = dhead /\ dlog' = dlog /\ tail \in 1 .. Len(lh) /\ lh[tail] \in Blocks
  BY DEF InstallTrans, LoopDone, Bunpin, HeaderInv, TypeOK
<1>2. \A b \in Blocks : ~Listed(b, dhead) => disk'[b] = disk[b]
  BY <1>1, ZenonT(40) DEF InstallTrans, LoopDone, Bunpin, Listed, TypeOK
<1>3. Recovered' = Recovered
  BY <1>1, <1>2, RestoreSame, SMTT(30) DEF Recovered, HeaderInv, TypeOK
<1>4. phase = "install" => \A b \in Blocks : Cached(b)' = Cached(b)
  <2> SUFFICES ASSUME phase = "install", NEW b \in Blocks PROVE Cached(b)' = Cached(b)
    BY ZenonT(40)
  <2>1. buf[lh[tail]] = dlog[tail] /\ dlog[tail] # NoBuf
    BY <1>1, LogAssumption, SMTT(30) DEF LogInv, TypeOK
  <2> QED
    BY <1>1, <2>1, ZenonT(40) DEF InstallTrans, LoopDone, Bunpin, Cached, TypeOK
<1>5. View' = View
  BY <1>3, <1>4, ZenonT(40) DEF View, Recovering, InstallTrans, LoopDone, Bunpin, TypeOK
<1>6. InOps' = InOps
  BY ZenonT(40) DEF InstallTrans, LoopDone, Bunpin, InOps
<1> QED
  BY <1>3, <1>5, <1>6, TStutter, ZenonT(40)

\* Erasing the header comes after the copies: the contents do not change.
LEMMA EraseRefines == IInv /\ EraseHead => UNCHANGED T!tvars
<1> SUFFICES ASSUME IInv, EraseHead PROVE UNCHANGED T!tvars
  BY ZenonT(40)
<1> USE DEF IInv
<1>1. dhead = lh /\ dhead' = <<>> /\ UNCHANGED <<disk, dlog, buf>>
  BY ZenonT(40) DEF EraseHead, LoopDone, HeaderInv
<1>2. \A b \in Blocks : Recovered[b] = disk[b]
  <2> SUFFICES ASSUME NEW b \in Blocks PROVE Recovered[b] = disk[b]
    BY ZenonT(40)
  <2>1. CASE Listed(b, dhead)
    <3>1. PICK i \in 1 .. Len(dhead) : dhead[i] = b
      BY <2>1, ZenonT(40) DEF Listed
    <3>2. Recovered[b] = dlog[i]
      BY <3>1, RestoreListed, SMTT(30) DEF Recovered, TypeOK, HeaderInv
    <3>3. disk[b] = dlog[i]
      BY <1>1, <3>1, SMTT(30) DEF EraseHead, LoopDone, LogInv, TypeOK
    <3> QED
      BY ZenonT(40), <3>2, <3>3
  <2>2. CASE ~Listed(b, dhead)
    BY <2>2, ZenonT(40) DEF Recovered, Restore
  <2> QED
    BY <2>1, <2>2, ZenonT(40)
<1>3. \A b \in Blocks : Recovered'[b] = disk[b]
  BY <1>1 DEF Recovered, Restore, Listed
<1>4. Recovered' = Recovered
  BY <1>2, <1>3, ZenonT(40) DEF Recovered, Restore
<1>5. \A b \in Blocks : Cached(b)' = Cached(b)
  BY <1>1, ZenonT(40) DEF Cached
<1>6. phase = "recover" => \A b \in Blocks : Cached(b) = disk[b]
  BY ZenonT(40) DEF CleanInv, Recovering, Cached
<1>7. View' = View
  <2>1. CASE phase = "recover"
    <3>1. View = Recovered /\ View' = [b \in Blocks |-> Cached(b)']
      BY <2>1, ZenonT(40) DEF View, Recovering, EraseHead
    <3>2. View = [b \in Blocks |-> disk[b]]
      BY <1>2, <3>1, ZenonT(40) DEF Recovered, Restore
    <3> QED
      BY <1>5, <1>6, <2>1, <3>1, <3>2, ZenonT(40)
  <2>2. CASE phase = "install"
    BY <1>5, <2>2, ZenonT(40) DEF View, Recovering, EraseHead
  <2> QED
    BY <2>1, <2>2, ZenonT(40) DEF EraseHead
<1>8. InOps' = InOps
  BY ZenonT(40) DEF EraseHead, LoopDone, InOps
<1> QED
  BY <1>4, <1>7, <1>8, TStutter, ZenonT(40)

\* write_log() writes where no header points yet: the contents do not change.
LEMMA WriteLogRefines == IInv /\ WriteLog => UNCHANGED T!tvars
<1> SUFFICES ASSUME IInv, WriteLog PROVE UNCHANGED T!tvars
  BY ZenonT(40)
<1> USE DEF IInv
<1>1. dhead = <<>> /\ UNCHANGED <<dhead, disk>>
  BY ZenonT(40) DEF WriteLog, LoopDone, HeaderInv
<1>2. Recovered' = Recovered
  BY <1>1, SMTT(30) DEF Recovered, Restore, Listed
<1>3. buf' = buf
  <2>1. tail \in 1 .. Len(lh) /\ lh[tail] \in Blocks
    BY SMTT(30) DEF WriteLog, LoopDone, TypeOK
  <2>2. buf[lh[tail]] # NoBuf
    BY <2>1, ZenonT(40) DEF WriteLog, LogInv
  <2> QED
    BY <2>1, <2>2, ZenonT(40) DEF WriteLog, Cached, TypeOK
<1>4. View' = View
  BY <1>1, <1>3 DEF View, Recovering, WriteLog, LoopDone, Cached
<1>5. InOps' = InOps
  BY ZenonT(40) DEF WriteLog, LoopDone, InOps
<1> QED
  BY <1>2, <1>4, <1>5, TStutter, ZenonT(40)

\* The commit point: the header reaches the disk and with it, at once, every
\* write of the transaction.
LEMMA WriteHeadRefines == IInv /\ WriteHead => T!Commit
<1> SUFFICES ASSUME IInv, WriteHead PROVE T!Commit
  BY ZenonT(40)
<1> USE DEF IInv
<1>1. InOps = {} /\ InOps' = {}
  <2>1. Cardinality(InOps) = 0
    BY ZenonT(40) DEF WriteHead, LoopDone, OpsInv
  <2> QED
    BY <2>1, InOpsFinite, FS_EmptySet, ZenonT(40) DEF WriteHead, LoopDone, InOps
<1>2. dhead' = lh /\ UNCHANGED <<disk, dlog, buf, lh>>
  BY ZenonT(40) DEF WriteHead
<1>3. \A b \in Blocks : Recovered'[b] = Cached(b)
  <2> SUFFICES ASSUME NEW b \in Blocks PROVE Recovered'[b] = Cached(b)
    BY ZenonT(40)
  <2>1. CASE Listed(b, lh)
    <3>1. PICK i \in 1 .. Len(lh) : lh[i] = b
      BY <2>1, ZenonT(40) DEF Listed
    <3>2. Recovered'[b] = dlog[i]
      BY <1>2, <3>1, RestoreListed, SMTT(30) DEF Recovered, TypeOK, HeaderInv
    <3>3. phase = "write_log" /\ tail > Len(lh)
      BY ZenonT(40) DEF WriteHead, LoopDone
    <3>4. i < tail
      <4>1. tail \in Nat /\ Len(lh) \in Nat
        BY <3>1, SMTT(30) DEF TypeOK
      <4> QED
        BY <3>3, <4>1, SMTT(30)
    <3>5. dlog[i] = buf[b] /\ buf[b] # NoBuf
      BY <3>1, <3>3, <3>4, ZenonT(40) DEF LogInv
    <3> QED
      BY <3>2, <3>5, ZenonT(40) DEF Cached
  <2>2. CASE ~Listed(b, lh)
    <3>1. Recovered'[b] = disk[b]
      BY <1>2, <2>2, ZenonT(40) DEF Recovered, Restore
    <3> QED
      BY <2>2, <3>1, ZenonT(40) DEF CleanInv, Cached
  <2> QED
    BY <2>1, <2>2, ZenonT(40)
<1>4. View = [b \in Blocks |-> Cached(b)] /\ View' = View
  BY <1>2, ZenonT(40) DEF WriteHead, LoopDone, View, Recovering, Cached
<1>5. Recovered' = View
  BY <1>3, <1>4, ZenonT(40) DEF Recovered, Restore
<1> QED
  BY <1>1, <1>4, <1>5, ZenonT(40) DEF T!Commit, InOps


\* Calls: begin, write, end.
LEMMA BeginRefines ==
  ASSUME NEW p \in Procs PROVE IInv /\ BeginOp(p) => T!Begin(p) \/ UNCHANGED T!tvars
<1> SUFFICES ASSUME IInv, BeginOp(p) PROVE T!Begin(p) \/ UNCHANGED T!tvars
  BY ZenonT(40)
<1>1. View' = View /\ Recovered' = Recovered
  BY ZenonT(40) DEF BeginOp, diskVars, View, Recovered, Recovering, Cached
<1>2. CASE pc'[p] = "in"
  <2>1. InOps' = InOps \cup {p} /\ p \notin InOps
    BY <1>2 DEF BeginOp, InOps, IInv, TypeOK
  <2> QED
    BY <1>1, <2>1, ZenonT(40) DEF T!Begin, InOps
<1>3. CASE pc'[p] # "in"
  <2>1. InOps' = InOps
    BY <1>3, ZenonT(40) DEF BeginOp, InOps, IInv, TypeOK
  <2> QED
    BY <1>1, <2>1, TStutter, ZenonT(40)
<1> QED
  BY <1>2, <1>3, ZenonT(40)

\* end_op() ends the operation and changes no contents.
LEMMA EndRefines == ASSUME NEW p \in Procs PROVE IInv /\ EndOp(p) => T!End(p)
<1> SUFFICES ASSUME IInv, EndOp(p) PROVE T!End(p)
  BY ZenonT(40)
<1>1. Recovered' = Recovered
  BY ZenonT(40) DEF EndOp, diskVars, Recovered
<1>2. ~Recovering /\ ~Recovering'
  BY ZenonT(40) DEF EndOp, Up, Recovering
<1>3. View' = View
  BY <1>2, ZenonT(40) DEF EndOp, diskVars, View, Cached
<1>4. InOps' = InOps \ {p} /\ p \in InOps
  BY ZenonT(40) DEF EndOp, Wakeup, InOps, IInv, TypeOK
<1> QED
  BY <1>1, <1>3, <1>4, ZenonT(40) DEF T!End, InOps

\* log_write() adds a write to the operation, or panics.
LEMMA LogWriteRefines ==
  ASSUME NEW p \in Procs, NEW b \in Blocks, NEW v \in Vals
  PROVE  IInv /\ LogWrite(p, b, v) => T!Write(p, b, v) \/ UNCHANGED T!tvars
<1> SUFFICES ASSUME IInv, LogWrite(p, b, v)
             PROVE  T!Write(p, b, v) \/ UNCHANGED T!tvars
  BY ZenonT(40)
<1>1. Recovered' = Recovered /\ InOps' = InOps /\ p \in InOps
  BY ZenonT(40) DEF LogWrite, diskVars, Recovered, InOps
<1>2. ~Recovering /\ ~Recovering' /\ disk' = disk
  BY ZenonT(40) DEF LogWrite, diskVars, Up, Recovering
<1>3. CASE buf' = buf
  BY <1>1, <1>2, <1>3, TStutter, ZenonT(40) DEF View, Cached
<1>4. CASE buf' = [buf EXCEPT ![b] = v]
  <2>1. View' = [View EXCEPT ![b] = v]
    BY <1>2, <1>4, LogAssumption, ZenonT(40) DEF View, Cached, IInv, TypeOK
  <2> QED
    BY <1>1, <2>1, ZenonT(40) DEF T!Write, InOps
<1> QED
  BY <1>3, <1>4, ZenonT(40) DEF LogWrite

\* The cache: what bread() returns does not depend on what is cached.
LEMMA CacheRefines ==
  ASSUME NEW b \in Blocks PROVE IInv /\ (Bread(b) \/ Recycle(b)) => UNCHANGED T!tvars
<1> SUFFICES ASSUME IInv, Bread(b) \/ Recycle(b) PROVE UNCHANGED T!tvars
  BY ZenonT(40)
<1> USE DEF IInv
<1>1. Recovered' = Recovered /\ InOps' = InOps
  BY ZenonT(40) DEF Bread, Recycle, diskVars, Recovered, InOps
<1>2. disk' = disk /\ phase' = phase
  BY ZenonT(40) DEF Bread, Recycle, diskVars
<1>3. \A c \in Blocks : ~Recovering => Cached(c)' = Cached(c)
  <2>1. CASE Bread(b)
    BY <2>1, ZenonT(40) DEF Bread, diskVars, Cached, TypeOK
  <2>2. CASE Recycle(b)
    <3>1. ~Recovering => buf[b] = disk[b]
      <4> SUFFICES ASSUME ~Recovering, Listed(b, lh) PROVE buf[b] = disk[b]
        BY <2>2, ZenonT(40) DEF Recycle, CleanInv
      <4>1. phase = "install"
        <5>1. pin[b] = 0
          BY <2>2, ZenonT(40) DEF Recycle
        <5>2. phase # "install" => pin[b] = IF ~Recovering /\ Listed(b, lh) THEN 1 ELSE 0
          BY ZenonT(40) DEF PinInv, PinsMatchLog
        <5> QED
          BY <5>1, <5>2
      <4>2. PICK i \in 1 .. Len(lh) : lh[i] = b
        BY ZenonT(40) DEF Listed
      <4>3. i < tail
        BY <2>2, <4>1, <4>2 DEF Recycle, PinInv
      <4> QED
        BY <2>2, <4>1, <4>2, <4>3, ZenonT(40) DEF Recycle, LogInv
    <3> QED
      BY <2>2, <3>1, ZenonT(40) DEF Recycle, diskVars, Cached, TypeOK
  <2> QED
    BY ZenonT(40), <2>1, <2>2
<1>4. View' = View
  BY <1>1, <1>2, <1>3, ZenonT(40) DEF View, Recovering
<1> QED
  BY <1>1, <1>4, TStutter, ZenonT(40)

\* A crash brings the durable contents back, torn write or not.
LEMMA CrashRefines == IInv /\ Crash => T!Restart
<1> SUFFICES ASSUME IInv, Crash PROVE T!Restart
  BY ZenonT(40)
<1> USE DEF IInv
<1>1. \A i \in 1 .. Len(dhead) : dlog'[i] = dlog[i]
  <2>1. phase = "write_log" => Len(dhead) = 0
    BY DEF HeaderInv
  <2>2. CASE dlog' = dlog
    BY <2>2, ZenonT(40)
  <2>3. CASE phase = "write_log"
    BY <2>1, <2>3
  <2> QED
    BY CrashTears, <2>2, <2>3, ZenonT(40) DEF DlogTorn
<1>2. \A b \in Blocks : ~Listed(b, dhead) => disk'[b] = disk[b]
  <2>1. phase \in {"recover", "install"} => dhead = lh
    BY ZenonT(40) DEF HeaderInv
  <2> QED
    BY CrashTears, <2>1, SMTT(30) DEF DiskTorn, TypeOK, Listed
<1>3. Recovered' = Recovered
  <2>1. dhead' = dhead /\ dhead \in Seq(Blocks) /\ Distinct(dhead)
    BY ZenonT(40) DEF Crash, HeaderInv, TypeOK
  <2> QED
    BY <1>1, <1>2, <2>1, RestoreSame, SMTT(30) DEF Recovered
<1>4. View' = Recovered'
  BY ZenonT(40) DEF Crash, View, Recovering
<1>5. {p \in Procs : pc'[p] = "in"} = {}
  BY ZenonT(40) DEF Crash
<1> QED
  BY <1>3, <1>4, <1>5, ZenonT(40) DEF T!Restart

\* Every step of the log is one of module Transactions, or none.
LEMMA NextRefines == IInv /\ [Next]_vars => [T!TNext]_(T!tvars)
<1> SUFFICES ASSUME IInv, [Next]_vars PROVE T!TNext \/ UNCHANGED T!tvars
  BY ZenonT(40)
<1>1. CASE UNCHANGED vars \/ ReadHead \/ \E p \in Procs : Kill(p) \/ FinishCommit(p)
  <2>1. /\ UNCHANGED <<disk, dlog, dhead, buf>> /\ InOps' = InOps
        /\ Recovering' = Recovering
    BY <1>1, SMTT(30) DEF vars, ReadHead, Kill, FinishCommit, Wakeup, diskVars, Recovering,
                InOps, IInv, TypeOK
  <2>2. View' = View /\ Recovered' = Recovered
    BY <2>1, ZenonT(40) DEF View, Recovered, Cached
  <2> QED
    BY ZenonT(40), <2>1, <2>2, TStutter
<1>2. CASE WriteLog \/ InstallTrans \/ EraseHead
  BY <1>2, WriteLogRefines, InstallRefines, EraseRefines, ZenonT(40)
<1>3. CASE WriteHead
  BY <1>3, WriteHeadRefines, ZenonT(40) DEF T!TNext
<1>4. CASE \E p \in Procs : BeginOp(p) \/ EndOp(p)
  BY <1>4, BeginRefines, EndRefines, ZenonT(40) DEF T!TNext
<1>5. CASE \E p \in Procs, b \in Blocks, v \in Vals : LogWrite(p, b, v)
  BY <1>5, LogWriteRefines, ZenonT(40) DEF T!TNext
<1>6. CASE \E b \in Blocks : Bread(b) \/ Recycle(b)
  BY <1>6, CacheRefines, ZenonT(40)
<1>7. CASE Crash
  BY <1>7, CrashRefines, ZenonT(40) DEF T!TNext
<1> QED
  BY <1>1, <1>2, <1>3, <1>4, <1>5, <1>6, <1>7 DEF Next, CommitStep

\* File-system calls are atomic with respect to crashes: log.c implements
\* Transactions.
THEOREM LogAtomicCommit == Spec => AtomicCommit
  BY Invariance, InitRefines, NextRefines, PTL DEF Spec, AtomicCommit, T!TSpec


-----------------------------------------------------------------------------
(* No admitted call overruns the log. *)

\* What the calls in progress may still log: one token per reserved block.
Tokens ==
  {t \in InOps \X (1 .. MAXOPBLOCKS) : t[2] > Cardinality(opw[t[1]])}

Quota ==
  /\ \A p \in Procs : /\ Cardinality(opw[p]) <= OPBLOCKS
                      /\ pc[p] # "in" => opw[p] = {}
                      /\ \A b \in opw[p] : Listed(b, lh)
  /\ Recovering => InOps = {}
  /\ Len(lh) + Cardinality(Tokens) <= LOGSIZE

QInv == IInv /\ Quota /\ NoPanic

\* The blocks still promised to open operations can be counted.
LEMMA TokensFinite == IsFiniteSet(Tokens) /\ Cardinality(Tokens) \in Nat
<1>1. IsFiniteSet(InOps \X (1 .. MAXOPBLOCKS))
  <2>1. IsFiniteSet(1 .. MAXOPBLOCKS)
    BY SMTT(30), FS_Interval, LogAssumption
  <2> QED
    BY <2>1, InOpsFinite, FS_Product, ZenonT(40)
<1> QED
  BY <1>1, FS_Subset, FS_CardinalityType, ZenonT(40) DEF Tokens

\* The blocks an operation has written can be counted.
LEMMA OpwFinite ==
  ASSUME IInv, NEW p \in Procs
  PROVE  IsFiniteSet(opw[p]) /\ Cardinality(opw[p]) \in Nat
  BY LogAssumption, FS_Subset, FS_CardinalityType, ZenonT(40) DEF IInv, TypeOK

\* With nobody inside, the quota is the size of the header.
LEMMA QuotaIdle == ASSUME InOps = {} PROVE Cardinality(Tokens) = 0
  BY FS_EmptySet, ZenonT(40) DEF Tokens

\* A call in progress still holds the tokens it has not used.
LEMMA TokensOfCall ==
  ASSUME IInv, Quota, Roomy, NEW p \in InOps
  PROVE  Len(lh) < LOGSIZE /\ Len(lh) < NLOG - 1
<1> DEFINE c == Cardinality(opw[p])
           mine == {p} \X ((c + 1) .. MAXOPBLOCKS)
<1>1. c \in Nat /\ c <= OPBLOCKS /\ p \in Procs
  BY OpwFinite, ZenonT(40) DEF Quota, InOps
<1>2. IsFiniteSet(mine) /\ Cardinality(mine) = MAXOPBLOCKS - c
  <2>1. IsFiniteSet({p}) /\ Cardinality({p}) = 1
    BY ZenonT(40), FS_Singleton
  <2>2. /\ IsFiniteSet((c + 1) .. MAXOPBLOCKS)
        /\ Cardinality((c + 1) .. MAXOPBLOCKS) = MAXOPBLOCKS - c
    <3> DEFINE d == c + 1
    <3>1. d \in Int /\ MAXOPBLOCKS \in Int /\ d <= MAXOPBLOCKS
      BY <1>1, LogAssumption DEF Roomy
    <3> HIDE DEF d
    <3>2. IsFiniteSet(d .. MAXOPBLOCKS) /\ Cardinality(d .. MAXOPBLOCKS) = MAXOPBLOCKS - d + 1
      BY SMTT(30), <3>1, FS_Interval
    <3> QED
      BY <1>1, <3>2, LogAssumption DEF d
  <2>3. Cardinality(mine) = 1 * (MAXOPBLOCKS - c) /\ IsFiniteSet(mine)
    <3>1. /\ IsFiniteSet(mine)
          /\ Cardinality(mine) = Cardinality({p}) * Cardinality((c + 1) .. MAXOPBLOCKS)
      BY <2>1, <2>2, FS_Product, ZenonT(40)
    <3> QED
      BY <2>1, <2>2, <3>1, ZenonT(40)
  <2>4. \A m \in Nat, k \in Nat : 1 * (m - k) = m - k
    OBVIOUS
  <2>5. MAXOPBLOCKS \in Nat
    BY LogAssumption, ZenonT(40)
  <2> QED
    BY <1>1, <2>3, <2>4, <2>5, ZenonT(40)
<1>3. mine \subseteq Tokens
  BY <1>1, LogAssumption, SMTT(30) DEF Tokens
<1>4. MAXOPBLOCKS - c <= Cardinality(Tokens)
  BY <1>2, <1>3, TokensFinite, FS_Subset
<1> QED
  BY <1>1, <1>4, TokensFinite, LogAssumption, SMTT(30) DEF Quota, Roomy, IInv, TypeOK


\* Nothing is promised at first.
LEMMA InitQInv == Init => QInv
<1> SUFFICES ASSUME Init PROVE QInv
  BY ZenonT(40)
<1>1. InOps = {}
  BY ZenonT(40) DEF Init, InOps
<1>2. Cardinality(Tokens) = 0 /\ Cardinality({}) = 0
  BY ZenonT(40), <1>1, QuotaIdle, FS_EmptySet
<1>3. Quota
  BY <1>1, <1>2, LogAssumption DEF Init, Quota
<1> QED
  BY <1>3, InitIInv, ZenonT(40) DEF Init, QInv, NoPanic

\* A new call's reservation fits beside those of the calls inside.
LEMMA BeginQuota ==
  ASSUME NEW p \in Procs, QInv, BeginOp(p), IInv' PROVE Quota'
<1> USE DEF QInv
<1>1. UNCHANGED <<lh, opw, phase>>
  BY ZenonT(40) DEF BeginOp, diskVars
<1>2. CASE pc'[p] # "in"
  <2>1. InOps' = InOps
    BY <1>2, ZenonT(40) DEF BeginOp, InOps, IInv, TypeOK
  <2>2. Tokens' = Tokens
    BY <1>1, <2>1, ZenonT(40) DEF Tokens
  <2>3. \A q \in Procs : pc'[q] # "in" => pc[q] # "in"
    BY <2>1, ZenonT(40) DEF InOps
  <2> QED
    BY <1>1, <2>1, <2>2, <2>3, ZenonT(40) DEF Quota, Recovering
<1>3. CASE pc'[p] = "in"
  <2>1. /\ InOps' = InOps \cup {p} /\ p \notin InOps /\ ~Recovering
        /\ Len(lh) + (outstanding + 1) * MAXOPBLOCKS <= LOGSIZE
    BY <1>3, LogAssumption, SMTT(30) DEF BeginOp, Admit, Up, InOps, IInv, TypeOK
  <2>2. Cardinality(InOps') = outstanding + 1 /\ IsFiniteSet(InOps')
    BY <2>1, InOpsFinite, FS_AddElement, ZenonT(40) DEF IInv, OpsInv
  <2>3. /\ IsFiniteSet(InOps' \X (1 .. MAXOPBLOCKS))
        /\ Cardinality(InOps' \X (1 .. MAXOPBLOCKS)) = (outstanding + 1) * MAXOPBLOCKS
    <3>1. IsFiniteSet(1 .. MAXOPBLOCKS) /\ Cardinality(1 .. MAXOPBLOCKS) = MAXOPBLOCKS
      BY FS_Interval, LogAssumption
    <3> QED
      BY <2>2, <3>1, FS_Product, ZenonT(90)
  <2>4. Tokens' \subseteq InOps' \X (1 .. MAXOPBLOCKS)
    BY ZenonT(40) DEF Tokens
  <2>5. Cardinality(Tokens') <= (outstanding + 1) * MAXOPBLOCKS /\ Cardinality(Tokens') \in Nat
    BY <2>3, <2>4, FS_Subset, FS_CardinalityType
  <2>6. Len(lh) + Cardinality(Tokens') <= LOGSIZE
    <3> DEFINE r == (outstanding + 1) * MAXOPBLOCKS
    <3>1. r \in Nat /\ Len(lh) \in Nat /\ Len(lh) + r <= LOGSIZE /\ Cardinality(Tokens') <= r
      BY <2>1, <2>5, LogAssumption DEF IInv, TypeOK
    <3> HIDE DEF r
    <3> QED
      BY SMTT(30), <2>5, <3>1, LogAssumption
  <2>7. \A q \in Procs : pc'[q] # "in" => pc[q] # "in"
    BY <2>1, ZenonT(40) DEF InOps
  <2> QED
    BY <1>1, <2>1, <2>6, <2>7, ZenonT(40) DEF Quota, Recovering
<1> QED
  BY <1>2, <1>3, ZenonT(40)

\* Appending a block to a header lists it, and keeps what was listed.
LEMMA AppendLists ==
  ASSUME NEW h \in Seq(Blocks), NEW b \in Blocks
  PROVE  /\ Listed(b, Append(h, b))
         /\ \A c \in Blocks : Listed(c, h) => Listed(c, Append(h, b))
<1>1. /\ Len(Append(h, b)) = Len(h) + 1 /\ Append(h, b)[Len(h) + 1] = b
      /\ Len(h) \in Nat
      /\ \A i \in 1 .. Len(h) : Append(h, b)[i] = h[i]
  OBVIOUS
<1>2. Len(h) + 1 \in 1 .. Len(Append(h, b))
      /\ \A i \in 1 .. Len(h) : i \in 1 .. Len(Append(h, b))
  BY SMTT(30), <1>1
<1> QED
  BY <1>1, <1>2, ZenonT(40) DEF Listed

\* A block that joins the log uses up a token of its call.
LEMMA LogWriteQuota ==
  ASSUME NEW p \in Procs, NEW b \in Blocks, NEW v \in Vals,
         QInv, Roomy, LogWrite(p, b, v), IInv'
  PROVE  Quota' /\ NoPanic'
<1> USE DEF QInv
<1>1. p \in InOps /\ InOps' = InOps /\ ~Recovering
  BY ZenonT(40) DEF LogWrite, InOps, Up
<1>2. outstanding >= 1
  <2>1. outstanding = Cardinality(InOps) /\ outstanding \in Nat
    BY ZenonT(40) DEF IInv, OpsInv, TypeOK
  <2>2. outstanding # 0
    BY <1>1, <2>1, InOpsFinite, FS_EmptySet, ZenonT(40)
  <2> QED
    BY <2>1, <2>2
<1>3. ~TooBigOrOutside
  <2>1. Len(lh) < LOGSIZE /\ Len(lh) < NLOG - 1
    BY <1>1, TokensOfCall, ZenonT(40)
  <2>2. lh \in Seq(Blocks) /\ LOGSIZE \in Nat /\ NLOG \in Nat /\ outstanding \in Nat
    BY LogAssumption, ZenonT(40) DEF IInv, TypeOK
  <2>3. Len(lh) \in Nat
    BY <2>2
  <2>4. ~(Len(lh) >= LOGSIZE) /\ ~(Len(lh) >= NLOG - 1) /\ ~(outstanding < 1)
    BY <1>2, <2>1, <2>2, <2>3
  <2> QED
    BY <2>4, ZenonT(40) DEF TooBigOrOutside
<1>4. /\ opw' = [opw EXCEPT ![p] = @ \cup {b}] /\ panicked' = panicked
      /\ lh' = IF Listed(b, lh) THEN lh ELSE Append(lh, b)
      /\ UNCHANGED <<pc, phase>>
      /\ Cardinality(opw[p] \cup {b}) <= OPBLOCKS
  BY <1>3, ZenonT(40) DEF LogWrite
<1>5. /\ opw'[p] = opw[p] \cup {b}
      /\ \A q \in Procs \ {p} : opw'[q] = opw[q]
  BY <1>4, ZenonT(40) DEF IInv, TypeOK
<1>6. Listed(b, lh') /\ \A c \in Blocks : Listed(c, lh) => Listed(c, lh')
  <2>1. CASE Listed(b, lh)
    BY ZenonT(40), <1>4, <2>1
  <2>2. CASE ~Listed(b, lh)
    <3>1. /\ lh' = Append(lh, b) /\ lh \in Seq(Blocks)
      BY <1>4, <2>2, ZenonT(40) DEF IInv, TypeOK
    <3> QED
      BY <3>1, AppendLists, ZenonT(40)
  <2> QED
    BY <2>1, <2>2, ZenonT(40)
<1>7. \A q \in Procs : /\ Cardinality(opw'[q]) <= OPBLOCKS
                       /\ pc'[q] # "in" => opw'[q] = {}
                       /\ \A c \in opw'[q] : Listed(c, lh')
  <2>1. \A q \in Procs : opw[q] \subseteq Blocks
    BY DEF IInv, TypeOK
  <2> QED
    BY <1>1, <1>4, <1>5, <1>6, <2>1, ZenonT(40) DEF Quota, InOps
<1>8. Len(lh') + Cardinality(Tokens') <= LOGSIZE
  <2>1. CASE b \in opw[p]
    <3>1. lh' = lh /\ opw' = opw
      BY <1>4, <2>1, SMTT(30) DEF Quota, IInv, TypeOK
    <3> QED
      BY <1>1, <3>1, ZenonT(40) DEF Tokens, Quota
  <2>2. CASE b \notin opw[p]
    <3> DEFINE c == Cardinality(opw[p])
    <3>1. c \in Nat /\ Cardinality(opw'[p]) = c + 1 /\ c + 1 <= OPBLOCKS
      BY ZenonT(40), <1>4, <1>5, <2>2, OpwFinite, FS_AddElement
    <3>2. <<p, c + 1>> \in Tokens
      BY <1>1, <3>1, LogAssumption, SMTT(30) DEF Tokens, Roomy
    <3>3. Tokens' = Tokens \ {<<p, c + 1>>}
      <4>1. ASSUME NEW q \in InOps, NEW k \in 1 .. MAXOPBLOCKS
            PROVE  <<q, k>> \in Tokens' <=> <<q, k>> \in Tokens \ {<<p, c + 1>>}
        <5>1. CASE q = p
          BY <1>1, <3>1, <5>1, SMTT(30) DEF Tokens
        <5>2. CASE q # p
          <6>1. opw'[q] = opw[q]
            BY <1>5, <5>2, ZenonT(40) DEF InOps
          <6> QED
            BY <1>1, <5>2, <6>1, ZenonT(40) DEF Tokens
        <5> QED
          BY ZenonT(40), <5>1, <5>2
      <4> QED
        BY <1>1, <4>1, SMTT(30) DEF Tokens
    <3>4. Cardinality(Tokens') = Cardinality(Tokens) - 1
      BY ZenonT(40), <3>2, <3>3, TokensFinite, FS_RemoveElement
    <3>5. Len(lh') <= Len(lh) + 1 /\ Len(lh) \in Nat /\ Len(lh') \in Nat
      BY <1>4, SMTT(30) DEF IInv, TypeOK
    <3>6. Len(lh) + Cardinality(Tokens) <= LOGSIZE
      BY ZenonT(40) DEF Quota
    <3> QED
      BY <3>4, <3>5, <3>6, TokensFinite, LogAssumption
  <2> QED
    BY ZenonT(40), <2>1, <2>2
<1>9. NoPanic' /\ ~Recovering'
  BY <1>1, <1>4, ZenonT(40) DEF NoPanic, Recovering
<1> QED
  BY <1>7, <1>8, <1>9, ZenonT(40) DEF Quota, Listed

\* A call that ends gives its remaining tokens back.
LEMMA EndQuota ==
  ASSUME NEW p \in Procs, QInv, EndOp(p), IInv' PROVE Quota' /\ NoPanic'
<1> USE DEF QInv
<1>1. InOps' = InOps \ {p} /\ p \in InOps
  BY ZenonT(40) DEF EndOp, Wakeup, InOps, IInv, TypeOK
<1>2. ~committing
  BY <1>1, InOpsFinite, FS_EmptySet, ZenonT(40) DEF IInv, OpsInv, TypeOK
<1>3. /\ lh' = lh /\ opw'[p] = {} /\ panicked' = FALSE
      /\ \A q \in Procs \ {p} : opw'[q] = opw[q]
  BY <1>2, ZenonT(40) DEF EndOp, IInv, TypeOK
<1>4. Tokens' \subseteq Tokens
  BY <1>1, <1>3, ZenonT(40) DEF Tokens, InOps
<1>5. Cardinality(Tokens') <= Cardinality(Tokens) /\ Cardinality(Tokens') \in Nat
  BY ZenonT(40), <1>4, TokensFinite, FS_Subset, FS_CardinalityType
<1>6. Len(lh') + Cardinality(Tokens') <= LOGSIZE
  BY <1>3, <1>5, TokensFinite, LogAssumption, SMTT(30) DEF Quota, IInv, TypeOK
<1>7. \A q \in Procs : pc'[q] # "in" => q = p \/ pc[q] # "in"
  BY <1>1, ZenonT(40) DEF InOps
<1>8. ~Recovering'
  BY ZenonT(40) DEF EndOp, Up, Recovering
<1>9. \A q \in Procs : /\ Cardinality(opw'[q]) <= OPBLOCKS
                       /\ pc'[q] # "in" => opw'[q] = {}
                       /\ \A b \in opw'[q] : Listed(b, lh')
  <2> SUFFICES ASSUME NEW q \in Procs
               PROVE  /\ Cardinality(opw'[q]) <= OPBLOCKS
                      /\ pc'[q] # "in" => opw'[q] = {}
                      /\ \A b \in opw'[q] : Listed(b, lh')
    BY ZenonT(40)
  <2>1. CASE q = p
    <3>1. opw'[q] = {} /\ Cardinality({}) = 0
      BY <1>3, <2>1, FS_EmptySet, ZenonT(40)
    <3>2. Cardinality(opw'[q]) <= OPBLOCKS
      BY <3>1, LogAssumption
    <3> QED
      BY <3>1, <3>2, ZenonT(40)
  <2>2. CASE q # p
    BY <1>3, <1>7, <2>2, ZenonT(40) DEF Quota
  <2> QED
    BY ZenonT(40), <2>1, <2>2
<1> QED
  BY <1>3, <1>6, <1>8, <1>9, ZenonT(40) DEF Quota, NoPanic, Listed


\* Steps during which nobody is inside: only the header's size matters.
LEMMA EmptyQuota ==
  ASSUME IInv', InOps' = {}, opw' = [q \in Procs |-> {}] PROVE Quota'
<1>1. Cardinality(Tokens') = 0
  BY FS_EmptySet, ZenonT(40) DEF Tokens
<1>2. \A q \in Procs : opw'[q] = {} /\ Cardinality(opw'[q]) = 0
  BY ZenonT(40), FS_EmptySet
<1> QED
  BY <1>1, <1>2, LogAssumption DEF Quota, IInv, TypeOK

\* Steps that touch neither the header nor the calls inside.
LEMMA SameQuota ==
  ASSUME Quota, InOps' = InOps, opw' = opw, lh' = lh, Recovering' = Recovering
  PROVE  Quota'
<1>1. Tokens' = Tokens
  BY ZenonT(40) DEF Tokens
<1>2. \A q \in Procs : pc'[q] # "in" => pc[q] # "in"
  BY ZenonT(40) DEF InOps
<1> QED
  BY <1>1, <1>2, ZenonT(40) DEF Quota

\* Nobody is inside while a commit or a recovery runs.
LEMMA NobodyInside ==
  ASSUME QInv, committing \/ Recovering
  PROVE  InOps = {} /\ opw = [q \in Procs |-> {}]
<1>1. InOps = {}
  <2>1. CASE committing
    <3>1. Cardinality(InOps) = 0
      BY <2>1, ZenonT(40) DEF QInv, IInv, OpsInv
    <3> QED
      BY <3>1, InOpsFinite, FS_EmptySet, ZenonT(40)
  <2>2. CASE Recovering
    BY <2>2 DEF QInv, Quota
  <2> QED
    BY <2>1, <2>2, ZenonT(40)
<1>2. \A q \in Procs : opw[q] = {}
  BY <1>1, ZenonT(40) DEF QInv, Quota, InOps
<1> QED
  BY <1>1, <1>2, ZenonT(40) DEF QInv, IInv, TypeOK

\* Every step keeps the log within what begin_op() has promised.
LEMMA NextQInv == ASSUME Roomy PROVE QInv /\ [Next]_vars => QInv'
<1> SUFFICES ASSUME QInv, [Next]_vars PROVE Quota' /\ NoPanic'
  BY NextIInv, ZenonT(40) DEF QInv
<1>0. IInv /\ IInv' /\ Quota /\ NoPanic
  BY NextIInv, ZenonT(40) DEF QInv
<1>1. CASE UNCHANGED vars \/ \E b \in Blocks : Bread(b) \/ Recycle(b)
  <2>1. UNCHANGED <<pc, opw, lh, phase, panicked>>
    BY <1>1, ZenonT(40) DEF vars, Bread, Recycle
  <2> QED
    BY <1>0, <2>1, SameQuota, ZenonT(40) DEF InOps, Recovering, NoPanic
<1>2. CASE CommitStep \/ \E p \in Procs : FinishCommit(p)
  <2>1. committing \/ Recovering
    BY <1>0, <1>2, ZenonT(40) DEF CommitStep, WriteLog, LoopDone, WriteHead, LoopDone,
       InstallTrans, LoopDone, Bunpin, EraseHead, LoopDone, ReadHead,
                      FinishCommit, IInv, OpsInv, Recovering
  <2>2. InOps = {} /\ opw = [q \in Procs |-> {}]
    BY ZenonT(40), <2>1, NobodyInside
  <2>3. opw' = opw /\ InOps' = InOps /\ panicked' = panicked
    BY <1>0, <1>2, ZenonT(40) DEF CommitStep, WriteLog, LoopDone, WriteHead, LoopDone,
       InstallTrans, LoopDone, Bunpin, EraseHead, LoopDone, ReadHead,
                      FinishCommit, Wakeup, InOps, IInv, TypeOK
  <2> QED
    BY <1>0, <2>2, <2>3, EmptyQuota, ZenonT(40) DEF NoPanic
<1>3. CASE \E p \in Procs : Kill(p)
  <2>1. InOps' = InOps /\ UNCHANGED <<opw, lh, phase, panicked>>
    BY <1>0, <1>3 DEF Kill, InOps, IInv, TypeOK
  <2> QED
    BY <1>0, <2>1, SameQuota, ZenonT(40) DEF Recovering, NoPanic
<1>4. CASE \E p \in Procs : BeginOp(p)
  <2>1. panicked' = panicked
    BY <1>4, ZenonT(40) DEF BeginOp
  <2> QED
    BY <1>0, <1>4, <2>1, BeginQuota, ZenonT(40) DEF NoPanic
<1>5. CASE \E p \in Procs : EndOp(p)
  BY <1>0, <1>5, EndQuota, ZenonT(40)
<1>6. CASE \E p \in Procs, b \in Blocks, v \in Vals : LogWrite(p, b, v)
  BY <1>0, <1>6, LogWriteQuota, ZenonT(40)
<1>7. CASE Crash
  <2>1. InOps' = {} /\ opw' = [q \in Procs |-> {}] /\ panicked' = FALSE
    BY <1>7, ZenonT(40) DEF Crash, InOps
  <2> QED
    BY <1>0, <2>1, EmptyQuota, ZenonT(40) DEF NoPanic
<1> QED
  BY <1>1, <1>2, <1>3, <1>4, <1>5, <1>6, <1>7, ZenonT(40) DEF Next

\* If calls keep within the room the geometry leaves them, no call admitted by
\* begin_op() ever makes log_write() or end_op() panic.
THEOREM LogNoPanic == ASSUME Roomy PROVE Spec => []NoPanic
<1>1. QInv /\ [Next]_vars => QInv'
  BY NextQInv, ZenonT(40)
<1>2. QInv => NoPanic
  BY ZenonT(40) DEF QInv
<1> QED
  BY InitQInv, <1>1, <1>2, PTL DEF Spec

=============================================================================
