----------------------------- MODULE ProcProofs -----------------------------
(***************************************************************************)
(* Proofs about module Proc, for every size of the process table and every   *)
(* choice of calls and arguments.                                            *)
(***************************************************************************)
EXTENDS Proc, TLAPS

\* Time for each leaf.
USE SMTT(20), ZenonT(20)

Forking == {"fork_link", "fork_run"}
Idle == {"UNUSED", "USED", "ZOMBIE"}

\* proc[]: who owns a slot, and who may point to it.
TableInv ==
  /\ initproc \in Slots /\ pid[initproc] = 1 /\ parent[initproc] = None
  /\ state[initproc] \in {"RUNNABLE", "SLEEPING"}
  /\ nextpid >= 2
  /\ \A s \in Slots :
       /\ pid[s] < nextpid
       /\ state[s] = "UNUSED" <=> pid[s] = 0
       /\ state[s] = "UNUSED" => parent[s] = None
       /\ state[s] \in {"RUNNABLE", "SLEEPING", "ZOMBIE"} /\ s # initproc
            => parent[s] # None
       /\ parent[s] # s
  /\ \A s, t \in Slots : pid[s] = pid[t] /\ pid[s] # 0 => s = t

\* Where processes are, and the child a fork() in progress holds.
PcOK(p) ==
  /\ pc[p] = "none" <=> state[p] \in Idle
  /\ state[p] = "SLEEPING" => pc[p] = "wait"
  /\ wait_lock = p <=> pc[p] \in {"wait_check", "wait_sleep"}
  /\ pc[p] \in {"wait_check", "wait_sleep"} => Zombies(p) = {}
  /\ pc[p] = "getppid" => np[p] \in Slots
  /\ pc[p] \in Forking =>
       /\ np[p] \in Slots /\ state[np[p]] = "USED" /\ creator[np[p]] = pid[p]
       /\ parent[np[p]] = IF pc[p] = "fork_link" THEN None ELSE p
  /\ \A q \in Slots : pc[p] \in Forking /\ pc[q] \in Forking /\ np[p] = np[q] => p = q
  /\ state[p] = "USED" /\ parent[p] # None => pc[parent[p]] = "fork_run" /\ np[parent[p]] = p

PcInv == \A p \in Slots : PcOK(p)

IInv == TypeOK /\ TableInv /\ PcInv /\ ParentAlive /\ NoStuckWait /\ ShellKept

-----------------------------------------------------------------------------

\* None is no slot of proc[].
LEMMA NoneNotSlot == None \notin Slots
  BY ProcAssumption DEF Slots

\* Entering the kernel keeps the invariant.
LEMMA TrapStep ==
  ASSUME IInv, NEW p \in Slots, Trap(p)
  PROVE  IInv'
<1> USE DEF IInv
<1>1. TypeOK'
  BY ZenonT(40) DEF TypeOK, Trap, At
<1>2. TableInv'
  BY DEF TypeOK, TableInv, Trap, At
<1>3. PcInv'
  BY DEF TypeOK, TableInv, PcInv, PcOK, Forking, Idle, Zombies, Children, Trap, At
<1>4. ParentAlive'
  BY ZenonT(40) DEF TypeOK, TableInv, PcInv, PcOK, Forking, ParentAlive, Trap, At
<1>5. NoStuckWait'
  BY DEF TypeOK, PcInv, PcOK, Forking, NoStuckWait, Zombies, Children, Trap, At
<1>6. ShellKept'
  BY ZenonT(40) DEF TypeOK, TableInv, PcInv, PcOK, Forking, ShellKept, Children, Trap, At
<1> QED
  BY <1>1, <1>2, <1>3, <1>4, <1>5, <1>6, ZenonT(40)

\* A fault marks the process killed and keeps the invariant.
LEMMA FaultStep ==
  ASSUME IInv, NEW p \in Slots, Fault(p)
  PROVE  IInv'
<1> USE DEF IInv
<1>1. TypeOK'
  <2>1. asked' \subseteq Nat
    BY ZenonT(40) DEF TypeOK, Fault
  <2> QED
    BY <2>1, ZenonT(40) DEF TypeOK, Fault, At
<1>2. TableInv'
  BY DEF TypeOK, TableInv, Fault, At
<1>3. PcInv'
  BY DEF TypeOK, TableInv, PcInv, PcOK, Forking, Idle, Zombies, Children, Fault, At
<1>4. ParentAlive'
  BY ZenonT(40) DEF TypeOK, TableInv, PcInv, PcOK, Forking, ParentAlive, Fault, At
<1>5. NoStuckWait'
  BY DEF TypeOK, PcInv, PcOK, Forking, NoStuckWait, Zombies, Children, Fault, At
<1>6. ShellKept'
  BY ZenonT(40) DEF TypeOK, TableInv, PcInv, PcOK, Forking, ShellKept, Children, Fault, At
<1> QED
  BY <1>1, <1>2, <1>3, <1>4, <1>5, <1>6, ZenonT(40)

\* A call that leaves the process table alone keeps the invariant.
LEMMA OtherCallStep ==
  ASSUME IInv, NEW p \in Slots, OtherCall(p)
  PROVE  IInv'
<1> USE DEF IInv
<1>1. TypeOK'
  BY ZenonT(40) DEF TypeOK, OtherCall, At, MayCall
<1>2. TableInv'
  BY DEF TypeOK, TableInv, OtherCall, At, MayCall
<1>3. PcInv'
  BY DEF TypeOK, TableInv, PcInv, PcOK, Forking, Idle, Zombies, Children, OtherCall, At, MayCall
<1>4. ParentAlive'
  BY ZenonT(40) DEF TypeOK, TableInv, PcInv, PcOK, Forking, ParentAlive, OtherCall, At, MayCall
<1>5. NoStuckWait'
  BY DEF TypeOK, PcInv, PcOK, Forking, NoStuckWait, Zombies, Children, OtherCall, At, MayCall
<1>6. ShellKept'
  BY ZenonT(40) DEF TypeOK, TableInv, PcInv, PcOK, Forking, ShellKept, Children, OtherCall, At,
     MayCall
<1> QED
  BY <1>1, <1>2, <1>3, <1>4, <1>5, <1>6, ZenonT(40)

\* allocproc() in fork() keeps the invariant: the pid is new.
LEMMA ForkAllocStep ==
  ASSUME IInv, NEW p \in Slots, NEW s \in Slots, ForkAlloc(p, s)
  PROVE  IInv'
<1> USE DEF IInv
<1>1. TypeOK'
  BY DEF TypeOK, ForkAlloc, At, MayCall, Free
<1>2. TableInv'
  BY DEF TypeOK, TableInv, ForkAlloc, At, MayCall, Free
<1>3. PcInv'
  BY DEF TypeOK, TableInv, PcInv, PcOK, Forking, Idle, Zombies, Children, ForkAlloc, At, MayCall,
     Free
<1>4. ParentAlive'
  BY DEF TypeOK, TableInv, PcInv, PcOK, Forking, ParentAlive, ForkAlloc, At, MayCall, Free
<1>5. NoStuckWait'
  BY DEF TypeOK, PcInv, PcOK, Forking, NoStuckWait, Zombies, Children, ForkAlloc, At, MayCall,
     Free
<1>6. ShellKept'
  BY DEF TypeOK, TableInv, PcInv, PcOK, Forking, ShellKept, Children, ForkAlloc, At, MayCall, Free
<1> QED
  BY <1>1, <1>2, <1>3, <1>4, <1>5, <1>6, ZenonT(40)

\* fork() with no free slot keeps the invariant.
LEMMA ForkFullStep ==
  ASSUME IInv, NEW p \in Slots, ForkFull(p)
  PROVE  IInv'
<1> USE DEF IInv
<1>1. TypeOK'
  BY ZenonT(40) DEF TypeOK, ForkFull, At, MayCall, Failed
<1>2. TableInv'
  BY DEF TypeOK, TableInv, ForkFull, At, MayCall, Failed
<1>3. PcInv'
  BY DEF TypeOK, TableInv, PcInv, PcOK, Forking, Idle, Zombies, Children, ForkFull, At, MayCall,
     Failed
<1>4. ParentAlive'
  BY ZenonT(40) DEF TypeOK, TableInv, PcInv, PcOK, Forking, ParentAlive, ForkFull, At, MayCall,
     Failed
<1>5. NoStuckWait'
  BY DEF TypeOK, PcInv, PcOK, Forking, NoStuckWait, Zombies, Children, ForkFull, At, MayCall,
     Failed
<1>6. ShellKept'
  BY ZenonT(40) DEF TypeOK, TableInv, PcInv, PcOK, Forking, ShellKept, Children, ForkFull, At,
     MayCall, Failed
<1> QED
  BY <1>1, <1>2, <1>3, <1>4, <1>5, <1>6, ZenonT(40)

\* fork() without memory keeps the invariant: the slot is free again.
LEMMA ForkNoMemoryStep ==
  ASSUME IInv, NEW p \in Slots, NEW s \in Slots, ForkNoMemory(p, s)
  PROVE  IInv'
<1> USE DEF IInv
<1>1. TypeOK'
  BY DEF TypeOK, ForkNoMemory, At, MayCall, Free, Failed
<1>2. TableInv'
  BY DEF TypeOK, TableInv, ForkNoMemory, At, MayCall, Free, Failed
<1>3. PcInv'
  BY DEF TypeOK, TableInv, PcInv, PcOK, Forking, Idle, Zombies, Children, ForkNoMemory, At,
     MayCall, Free, Failed
<1>4. ParentAlive'
  BY DEF TypeOK, TableInv, PcInv, PcOK, Forking, ParentAlive, ForkNoMemory, At, MayCall, Free,
     Failed
<1>5. NoStuckWait'
  BY DEF TypeOK, PcInv, PcOK, Forking, NoStuckWait, Zombies, Children, ForkNoMemory, At, MayCall,
     Free, Failed
<1>6. ShellKept'
  BY ZenonT(40) DEF TypeOK, TableInv, PcInv, PcOK, Forking, ShellKept, Children, ForkNoMemory,
     At, MayCall, Free, Failed
<1> QED
  BY <1>1, <1>2, <1>3, <1>4, <1>5, <1>6, ZenonT(40)

\* Setting np->parent keeps the invariant.
LEMMA ForkLinkStep ==
  ASSUME IInv, NEW p \in Slots, ForkLink(p)
  PROVE  IInv'
<1> USE DEF IInv
<1>1. TypeOK'
  BY ZenonT(40) DEF TypeOK, PcInv, PcOK, Forking, ForkLink, At
<1>2. TableInv'
  BY DEF TableInv, TypeOK, PcInv, PcOK, Forking, ForkLink, At
<1>3. PcInv'
  BY DEF TypeOK, TableInv, PcInv, PcOK, Forking, Idle, Zombies, Children, ForkLink, At
<1>4. ParentAlive'
  BY DEF TypeOK, TableInv, PcInv, PcOK, Forking, ParentAlive, ForkLink, At
<1>5. NoStuckWait'
  BY DEF TypeOK, PcInv, PcOK, Forking, NoStuckWait, Zombies, Children, ForkLink, At
<1>6. ShellKept'
  BY DEF TypeOK, TableInv, PcInv, PcOK, Forking, ShellKept, Children, ForkLink, At
<1> QED
  BY <1>1, <1>2, <1>3, <1>4, <1>5, <1>6, ZenonT(40)

\* Making the child RUNNABLE keeps the invariant.
LEMMA ForkRunStep ==
  ASSUME IInv, NEW p \in Slots, ForkRun(p)
  PROVE  IInv'
<1> USE DEF IInv
<1>1. TypeOK'
  BY DEF TypeOK, PcInv, PcOK, Forking, ForkRun, At
<1>2. TableInv'
  BY NoneNotSlot DEF TableInv, TypeOK, PcInv, PcOK, Forking, ForkRun, At
<1>3. PcInv'
  BY DEF TypeOK, TableInv, PcInv, PcOK, Forking, Idle, Zombies, Children, ForkRun, At
<1>4. ParentAlive'
  BY DEF TypeOK, TableInv, PcInv, PcOK, Forking, ParentAlive, ForkRun, At
<1>5. NoStuckWait'
  BY DEF TypeOK, PcInv, PcOK, Forking, NoStuckWait, Zombies, Children, ForkRun, At
<1>6. ShellKept'
  BY DEF TypeOK, TableInv, PcInv, PcOK, Forking, ShellKept, Children, ForkRun, At
<1> QED
  BY <1>1, <1>2, <1>3, <1>4, <1>5, <1>6, ZenonT(40)

\* wait() failing in copyout() keeps the invariant: the zombie stays.
LEMMA WaitBadAddressStep ==
  ASSUME IInv, NEW p \in Slots, WaitBadAddress(p)
  PROVE  IInv'
<1> USE DEF IInv
<1>1. TypeOK'
  BY ZenonT(40) DEF TypeOK, WaitBadAddress, At, MayCall, Waiting
<1>2. TableInv'
  BY DEF TypeOK, TableInv, WaitBadAddress, At, MayCall, Waiting
<1>3. PcInv'
  BY DEF TypeOK, TableInv, PcInv, PcOK, Forking, Idle, Zombies, Children, WaitBadAddress, At,
     MayCall, Waiting
<1>4. ParentAlive'
  BY ZenonT(40) DEF TypeOK, TableInv, PcInv, PcOK, Forking, ParentAlive, WaitBadAddress, At,
     MayCall, Waiting
<1>5. NoStuckWait'
  BY DEF TypeOK, PcInv, PcOK, Forking, NoStuckWait, Zombies, Children, WaitBadAddress, At,
     MayCall, Waiting
<1>6. ShellKept'
  BY ZenonT(40) DEF TypeOK, TableInv, PcInv, PcOK, Forking, ShellKept, Children, WaitBadAddress,
     At, MayCall, Waiting
<1> QED
  BY <1>1, <1>2, <1>3, <1>4, <1>5, <1>6, ZenonT(40)

\* The scan of wait() keeps the invariant.
LEMMA WaitScanStep ==
  ASSUME IInv, NEW p \in Slots, WaitScan(p)
  PROVE  IInv'
<1> USE DEF IInv
<1>1. TypeOK'
  BY ZenonT(40) DEF TypeOK, WaitScan, At, MayCall, Waiting, Failed
<1>2. TableInv'
  BY ZenonT(40) DEF TypeOK, TableInv, WaitScan, At, MayCall, Waiting, Failed
<1>3. PcInv'
  <2> SUFFICES ASSUME NEW q \in Slots
               PROVE  PcOK(q)'
    BY ZenonT(40) DEF PcInv
  <2>1. CASE q = p
    BY <2>1, NoneNotSlot DEF TypeOK, TableInv, PcInv, PcOK, Forking, Idle, Zombies, Children,
       WaitScan, At, MayCall, Waiting, Failed
  <2>2. CASE q # p
    BY <2>2, NoneNotSlot DEF TypeOK, TableInv, PcInv, PcOK, Forking, Idle, Zombies, Children,
       WaitScan, At, MayCall, Waiting, Failed
  <2> QED
    BY <2>1, <2>2, ZenonT(40)
<1>4. ParentAlive'
  BY ZenonT(40) DEF TypeOK, TableInv, PcInv, PcOK, Forking, ParentAlive, WaitScan, At, MayCall,
     Waiting, Failed
<1>5. NoStuckWait'
  BY DEF TypeOK, PcInv, PcOK, Forking, NoStuckWait, Zombies, Children, WaitScan, At, MayCall,
     Waiting, Failed
<1>6. ShellKept'
  BY ZenonT(40) DEF TypeOK, TableInv, PcInv, PcOK, Forking, ShellKept, Children, WaitScan, At,
     MayCall, Waiting, Failed
<1> QED
  BY <1>1, <1>2, <1>3, <1>4, <1>5, <1>6, ZenonT(40)

\* The end of wait()'s scan keeps the invariant.
LEMMA WaitCheckStep ==
  ASSUME IInv, NEW p \in Slots, WaitCheck(p)
  PROVE  IInv'
<1> USE DEF IInv
<1>1. TypeOK'
  BY ZenonT(40) DEF TypeOK, WaitCheck, At, Failed
<1>2. TableInv'
  BY DEF TypeOK, TableInv, WaitCheck, At, Failed
<1>3. PcInv'
  <2> SUFFICES ASSUME NEW q \in Slots
               PROVE  PcOK(q)'
    BY ZenonT(40) DEF PcInv
  <2>1. CASE q = p
    BY <2>1, NoneNotSlot DEF TypeOK, TableInv, PcInv, PcOK, Forking, Idle, Zombies, Children,
       WaitCheck, At, Failed
  <2>2. CASE q # p
    BY <2>2, NoneNotSlot DEF TypeOK, TableInv, PcInv, PcOK, Forking, Idle, Zombies, Children,
       WaitCheck, At, Failed
  <2> QED
    BY <2>1, <2>2, ZenonT(40)
<1>4. ParentAlive'
  BY ZenonT(40) DEF TypeOK, TableInv, PcInv, PcOK, Forking, ParentAlive, WaitCheck, At, Failed
<1>5. NoStuckWait'
  BY DEF TypeOK, PcInv, PcOK, Forking, NoStuckWait, Zombies, Children, WaitCheck, At, Failed
<1>6. ShellKept'
  BY ZenonT(40) DEF TypeOK, TableInv, PcInv, PcOK, Forking, ShellKept, Children, WaitCheck, At,
     Failed
<1> QED
  BY <1>1, <1>2, <1>3, <1>4, <1>5, <1>6, ZenonT(40)

\* sleep() in wait() keeps the invariant.
LEMMA WaitSleepStep ==
  ASSUME IInv, NEW p \in Slots, WaitSleep(p)
  PROVE  IInv'
<1> USE DEF IInv
<1>1. TypeOK'
  BY ZenonT(40) DEF TypeOK, WaitSleep, At
<1>2. TableInv'
  BY DEF TypeOK, TableInv, WaitSleep, At
<1>3. PcInv'
  <2> SUFFICES ASSUME NEW q \in Slots
               PROVE  PcOK(q)'
    BY ZenonT(40) DEF PcInv
  <2>1. CASE q = p
    BY <2>1, NoneNotSlot DEF TypeOK, TableInv, PcInv, PcOK, Forking, Idle, Zombies, Children,
       WaitSleep, At
  <2>2. CASE q # p
    BY <2>2, NoneNotSlot DEF TypeOK, TableInv, PcInv, PcOK, Forking, Idle, Zombies, Children,
       WaitSleep, At
  <2> QED
    BY <2>1, <2>2, ZenonT(40)
<1>4. ParentAlive'
  BY DEF TypeOK, TableInv, PcInv, PcOK, Forking, ParentAlive, WaitSleep, At
<1>5. NoStuckWait'
  BY DEF TypeOK, PcInv, PcOK, Forking, NoStuckWait, Zombies, Children, WaitSleep, At
<1>6. ShellKept'
  BY ZenonT(40) DEF TypeOK, TableInv, PcInv, PcOK, Forking, ShellKept, Children, WaitSleep, At
<1> QED
  BY <1>1, <1>2, <1>3, <1>4, <1>5, <1>6, ZenonT(40)

\* Loading p->parent in sys_getppid() keeps the invariant.
LEMMA GetppidLoadStep ==
  ASSUME IInv, NEW p \in Slots, GetppidLoad(p)
  PROVE  IInv'
<1> USE DEF IInv
<1>1. TypeOK'
  BY ZenonT(40) DEF TypeOK, GetppidLoad, At, MayCall
<1>2. TableInv'
  BY DEF TypeOK, TableInv, GetppidLoad, At, MayCall
<1>3. PcInv'
  BY DEF TypeOK, TableInv, PcInv, PcOK, Forking, Idle, Zombies, Children, GetppidLoad, At, MayCall
<1>4. ParentAlive'
  BY ZenonT(40) DEF TypeOK, TableInv, PcInv, PcOK, Forking, ParentAlive, GetppidLoad, At, MayCall
<1>5. NoStuckWait'
  BY DEF TypeOK, PcInv, PcOK, Forking, NoStuckWait, Zombies, Children, GetppidLoad, At, MayCall
<1>6. ShellKept'
  BY ZenonT(40) DEF TypeOK, TableInv, PcInv, PcOK, Forking, ShellKept, Children, GetppidLoad, At,
     MayCall
<1> QED
  BY <1>1, <1>2, <1>3, <1>4, <1>5, <1>6, ZenonT(40)

\* Reading the parent's pid in sys_getppid() keeps the invariant.
LEMMA GetppidReadStep ==
  ASSUME IInv, NEW p \in Slots, GetppidRead(p)
  PROVE  IInv'
<1> USE DEF IInv
<1>1. TypeOK'
  BY ZenonT(40) DEF TypeOK, PcInv, PcOK, GetppidRead, At
<1>2. TableInv'
  BY ZenonT(40) DEF TypeOK, TableInv, GetppidRead, At
<1>3. PcInv'
  BY DEF TypeOK, TableInv, PcInv, PcOK, Forking, Idle, Zombies, Children, GetppidRead, At
<1>4. ParentAlive'
  BY ZenonT(40) DEF TypeOK, TableInv, PcInv, PcOK, Forking, ParentAlive, GetppidRead, At
<1>5. NoStuckWait'
  BY DEF TypeOK, PcInv, PcOK, Forking, NoStuckWait, Zombies, Children, GetppidRead, At
<1>6. ShellKept'
  BY ZenonT(40) DEF TypeOK, TableInv, PcInv, PcOK, Forking, ShellKept, Children, GetppidRead, At
<1> QED
  BY <1>1, <1>2, <1>3, <1>4, <1>5, <1>6, ZenonT(40)

\* userinit() establishes the invariant.
LEMMA InitIInv == Init => IInv
<1> SUFFICES ASSUME Init PROVE IInv
  BY ZenonT(40)
<1> initproc \in Slots
  BY ProcAssumption DEF Slots, initproc
<1>1. TypeOK
  <2>1. /\ state \in [Slots -> {"UNUSED", "USED", "RUNNABLE", "SLEEPING", "ZOMBIE"}]
        /\ pc \in [Slots -> {"none", "user", "sys", "exit", "fork_link", "fork_run",
                             "wait", "wait_check", "wait_sleep", "getppid"}]
        /\ pid \in [Slots -> Nat]
    BY ZenonT(40) DEF Init
  <2>2. /\ parent \in [Slots -> Slots \cup {None}] /\ np \in [Slots -> Slots \cup {None}]
        /\ ret \in [Slots -> Nat \cup {None}] /\ wait_lock \in Slots \cup {None}
        /\ killed \in [Slots -> BOOLEAN] /\ panicked \in BOOLEAN /\ asked \subseteq Nat
    BY ZenonT(40) DEF Init
  <2>3. /\ xstate \in [Slots -> Int] /\ creator \in [Slots -> Nat]
        /\ nextpid \in Nat /\ shell \in Nat
    BY DEF Init
  <2> QED
    BY <2>1, <2>2, <2>3, ZenonT(40) DEF TypeOK
<1>2. TableInv
  BY NoneNotSlot DEF Init, TableInv
<1>3. PcInv
  BY NoneNotSlot, ZenonT(40) DEF Init, PcInv, PcOK, Idle, Forking, Zombies, Children
<1>4. ParentAlive /\ NoStuckWait /\ ShellKept
  BY ZenonT(40) DEF Init, ParentAlive, NoStuckWait, ShellKept
<1> QED
  BY <1>1, <1>2, <1>3, <1>4, ZenonT(40) DEF IInv

\* exit() keeps the invariant: reparent() leaves no child to a zombie.
LEMMA ExitStep ==
  ASSUME IInv, NEW p \in Slots, NEW st \in Statuses \cup {-1}, Exit(p, st)
  PROVE  IInv'
<1> USE DEF IInv
<1>1. CASE p = initproc
  BY <1>1 DEF TypeOK, TableInv, PcInv, PcOK, Forking, Idle, ParentAlive, NoStuckWait, ShellKept,
     Children, Zombies, Exit
<1>2. CASE p # initproc
  <2>1. /\ pc[p] \in {"sys", "exit"} /\ state[p] = "RUNNABLE" /\ wait_lock = None
        /\ parent' = Reparent(p)
        /\ xstate' = [xstate EXCEPT ![p] = st] /\ st \in Int
        /\ pc' = [pc EXCEPT ![p] = "none"]
        /\ UNCHANGED <<pid, killed, nextpid, wait_lock, np, ret, shell, panicked, creator, asked>>
    <3>1. (At(p, "sys") /\ st \in Statuses) \/ (At(p, "exit") /\ st = -1)
      BY ZenonT(40) DEF Exit, MayCall
    <3>2. pc[p] \in {"sys", "exit"} /\ state[p] = "RUNNABLE" /\ st \in Int
      BY <3>1, ProcAssumption, SMTT(30) DEF At
    <3> QED
      BY <1>2, <3>2, ZenonT(40) DEF Exit
  <2>2. /\ state' \in [Slots -> {"UNUSED", "USED", "RUNNABLE", "SLEEPING", "ZOMBIE"}]
        /\ state'[p] = "ZOMBIE"
        /\ \A s \in Slots : \/ s = p
                            \/ state'[s] = state[s]
                            \/ state[s] = "SLEEPING" /\ state'[s] = "RUNNABLE"
        /\ Children(p) # {} => state'[initproc] = "RUNNABLE"
        /\ parent[p] \in Slots /\ parent[p] # p => state'[parent[p]] = "RUNNABLE"
    <3>1. PICK woken : /\ woken = ReparentWakes(p) \cup Wakeup(parent[p])
                       /\ state' = [s \in Slots |-> IF s = p THEN "ZOMBIE"
                                           ELSE IF s \in woken THEN "RUNNABLE"
                                           ELSE state[s]]
      BY <1>2, ZenonT(40) DEF Exit
    <3>2. \A s \in woken : s \in Slots /\ state[s] = "SLEEPING"
      BY <3>1, ZenonT(40) DEF ReparentWakes, Wakeup
    <3>3. Children(p) # {} => initproc \in woken \/ state[initproc] = "RUNNABLE"
      BY <3>1, ZenonT(40) DEF ReparentWakes, Wakeup, TableInv
    <3>4. parent[p] \in Slots => parent[p] \in woken \/ state[parent[p]] = "RUNNABLE"
      BY <3>1, NoneNotSlot, ZenonT(40) DEF Wakeup, ParentAlive
    <3>5. \A s \in Slots : state'[s] = IF s = p THEN "ZOMBIE"
                                       ELSE IF s \in woken THEN "RUNNABLE" ELSE state[s]
      BY <3>1, ZenonT(40)
    <3>6. state' \in [Slots -> {"UNUSED", "USED", "RUNNABLE", "SLEEPING", "ZOMBIE"}]
      BY <3>1, ZenonT(40) DEF TypeOK
    <3>7. initproc \in Slots
      BY ZenonT(40) DEF TableInv
    <3>8. \A s \in Slots : \/ s = p
                           \/ state'[s] = state[s]
                           \/ state[s] = "SLEEPING" /\ state'[s] = "RUNNABLE"
      <4> SUFFICES ASSUME NEW s \in Slots, s # p, state'[s] # state[s]
                   PROVE  state[s] = "SLEEPING" /\ state'[s] = "RUNNABLE"
        BY ZenonT(40)
      <4>1. s \in woken
        BY <3>5, ZenonT(40)
      <4> QED
        BY <3>2, <3>5, <4>1, ZenonT(40)
    <3>9. Children(p) # {} => state'[initproc] = "RUNNABLE"
      BY <1>2, <3>3, <3>5, <3>7, ZenonT(40)
    <3>10. parent[p] \in Slots /\ parent[p] # p => state'[parent[p]] = "RUNNABLE"
      BY <3>4, <3>5, ZenonT(40)
    <3>11. state'[p] = "ZOMBIE"
      BY <3>5, ZenonT(40)
    <3> QED
      BY <3>6, <3>8, <3>9, <3>10, <3>11, ZenonT(40)
  <2>3. TypeOK'
    <3>1. parent' \in [Slots -> Slots \cup {None}]
      BY <2>1, ZenonT(40) DEF TypeOK, Reparent, TableInv
    <3>2. xstate' \in [Slots -> Int] /\ pc' \in [Slots -> {"none", "user", "sys", "exit",
            "fork_link", "fork_run", "wait", "wait_check", "wait_sleep", "getppid"}]
      BY <2>1, ZenonT(40) DEF TypeOK
    <3> QED
      BY <2>1, <2>2, <3>1, <3>2, ZenonT(40) DEF TypeOK
  <2>4. TableInv'
    BY <1>2, <2>1, <2>2, NoneNotSlot, SMTT(30) DEF TypeOK, TableInv, Reparent
  <2>5. \A s \in Slots : state[s] = "USED" => parent[s] # p
    BY <2>1, NoneNotSlot DEF PcInv, PcOK
  <2>6. PcInv'
    <3> SUFFICES ASSUME NEW q \in Slots PROVE PcOK(q)'
      BY ZenonT(40) DEF PcInv
    <3>1. pc[q] \in {"wait_check", "wait_sleep"} => FALSE
      BY <2>1, NoneNotSlot, ZenonT(40) DEF PcInv, PcOK
    <3>2. CASE q = p
      BY <2>1, <2>2, <3>1, <3>2, NoneNotSlot, SMTT(30)
         DEF TypeOK, TableInv, PcInv, PcOK, Forking, Idle
    <3>3. CASE q # p
      <4>1. pc'[q] = pc[q]
        BY <2>1, <3>3, ZenonT(40) DEF TypeOK
      <4>2. (state'[q] \in Idle <=> state[q] \in Idle) /\ (state'[q] = "SLEEPING" => state[q] = "SLEEPING")
            /\ (state'[q] = "USED" => state[q] = "USED")
        BY <2>2, <3>3, ZenonT(40) DEF Idle
      <4>3. pc[q] \in Forking => state'[np[q]] = "USED" /\ parent'[np[q]] = parent[np[q]]
        <5>1. pc[q] \in Forking => /\ np[q] \in Slots /\ np[q] # p /\ state[np[q]] = "USED"
                                  /\ parent[np[q]] # p
          BY <2>1, <2>5, ZenonT(40) DEF PcInv, PcOK
        <5> QED
          BY <2>1, <2>2, <5>1, ZenonT(40) DEF Reparent
      <4>4. state[q] = "USED" => parent'[q] = parent[q] /\ parent[q] # p
        BY <2>1, <2>5, ZenonT(40) DEF Reparent
      <4> QED
        BY <2>1, <3>1, <3>3, <4>1, <4>2, <4>3, <4>4 DEF PcInv, PcOK, Forking, TypeOK
    <3> QED
      BY <3>2, <3>3, ZenonT(40)
  <2>7. ParentAlive'
    BY <1>2, <2>1, <2>2, NoneNotSlot, SMTT(30) DEF TypeOK, TableInv, ParentAlive, Reparent
  <2>8. NoStuckWait'
    BY <1>2, <2>1, <2>2, NoneNotSlot DEF TypeOK, TableInv, NoStuckWait, Zombies, Children,
       Reparent
  <2>9. ShellKept'
    BY <1>2, <2>1, <2>2, NoneNotSlot, ZenonT(40)
       DEF TypeOK, TableInv, ShellKept, Children, Reparent
  <2> QED
    BY ZenonT(40), <2>3, <2>4, <2>6, <2>7, <2>8, <2>9
<1> QED
  BY ZenonT(40), <1>1, <1>2

\* freeproc() in wait() keeps the invariant: a zombie has no child left.
LEMMA WaitReapStep ==
  ASSUME IInv, NEW p \in Slots, NEW addr \in BOOLEAN, WaitReap(p, addr)
  PROVE  IInv'
<1> USE DEF IInv
<1>1. PICK z \in Slots :
        /\ First(z, Zombies(p))
        /\ ret' = [ret EXCEPT ![p] = IF addr THEN pid[z] ELSE None, ![z] = None]
        /\ shell' = IF p = initproc /\ pid[z] = shell THEN 0 ELSE shell
        /\ state' = [state EXCEPT ![z] = "UNUSED"]
        /\ pid' = [pid EXCEPT ![z] = 0]
        /\ parent' = [parent EXCEPT ![z] = None]
        /\ killed' = [killed EXCEPT ![z] = FALSE]
        /\ xstate' = [xstate EXCEPT ![z] = 0]
        /\ creator' = [creator EXCEPT ![z] = 0]
  BY ZenonT(40) DEF WaitReap
<1>2. /\ pc' = [pc EXCEPT ![p] = "user"] /\ pc[p] \in {"sys", "wait"} /\ state[p] = "RUNNABLE"
      /\ UNCHANGED <<nextpid, wait_lock, np, panicked, asked>> /\ wait_lock = None
  BY ZenonT(40) DEF WaitReap, Waiting, MayCall, At
<1>3. state[z] = "ZOMBIE" /\ parent[z] = p /\ z # p /\ pc[z] = "none" /\ z # initproc
  BY <1>1, <1>2, ZenonT(40) DEF First, Zombies, Children, PcInv, PcOK, Idle, TableInv
<1>4. TypeOK'
  <2>1. killed' \in [Slots -> BOOLEAN]
    BY <1>1, ZenonT(40) DEF TypeOK
  <2>2. /\ state' \in [Slots -> {"UNUSED", "USED", "RUNNABLE", "SLEEPING", "ZOMBIE"}]
        /\ pc' \in [Slots -> {"none", "user", "sys", "exit", "fork_link", "fork_run",
                              "wait", "wait_check", "wait_sleep", "getppid"}]
        /\ pid' \in [Slots -> Nat] /\ parent' \in [Slots -> Slots \cup {None}]
        /\ xstate' \in [Slots -> Int] /\ creator' \in [Slots -> Nat]
        /\ ret' \in [Slots -> Nat \cup {None}] /\ shell' \in Nat
    BY <1>1, <1>2, SMTT(30) DEF TypeOK
  <2> QED
    BY <1>2, <2>1, <2>2, ZenonT(40) DEF TypeOK
<1>5. \A s \in Slots : parent[s] # z
  BY <1>3, NoneNotSlot, ZenonT(40) DEF ParentAlive
<1>6. TableInv'
  BY <1>1, <1>2, <1>3, <1>5 DEF TypeOK, TableInv
<1>7. PcInv'
  <2> SUFFICES ASSUME NEW q \in Slots PROVE PcOK(q)'
    BY ZenonT(40) DEF PcInv
  <2>1. CASE q \in {p, z}
    BY <1>1, <1>2, <1>3, <2>1, NoneNotSlot, SMTT(30)
       DEF TypeOK, TableInv, PcInv, PcOK, Forking, Idle
  <2>2. CASE q \notin {p, z}
    BY <1>1, <1>2, <1>3, <1>5, <2>2, NoneNotSlot, SMTT(30)
       DEF TypeOK, TableInv, PcInv, PcOK, Forking, Idle
  <2> QED
    BY <2>1, <2>2, ZenonT(40)
<1>8. ParentAlive'
  BY <1>1, <1>2, <1>3, <1>5 DEF TypeOK, ParentAlive
<1>9. NoStuckWait'
  BY <1>1, <1>2, <1>3 DEF TypeOK, NoStuckWait, Zombies, Children
<1>10. ShellKept'
  BY <1>1, <1>2, <1>3 DEF TypeOK, TableInv, ShellKept, Children
<1> QED
  BY <1>4, <1>6, <1>7, <1>8, <1>9, <1>10, ZenonT(40)

\* kill() keeps the invariant.
LEMMA KillStep ==
  ASSUME IInv, NEW p \in Slots, NEW x \in KillPids, Kill(p, x)
  PROVE  IInv'
<1> USE DEF IInv
<1>1. /\ pc' = [pc EXCEPT ![p] = "user"] /\ pc[p] = "sys" /\ state[p] = "RUNNABLE"
      /\ UNCHANGED <<parent, pid, xstate, nextpid, wait_lock, np, ret, shell, panicked, creator>>
  BY ZenonT(40) DEF Kill, MayCall, At
<1>2. /\ killed' \in [Slots -> BOOLEAN] /\ asked' \subseteq Nat
      /\ state' \in [Slots -> {"UNUSED", "USED", "RUNNABLE", "SLEEPING", "ZOMBIE"}]
      /\ \A s \in Slots : \/ state'[s] = state[s]
                          \/ state[s] = "SLEEPING" /\ state'[s] = "RUNNABLE"
  <2>1. CASE {s \in Slots : pid[s] = x} = {}
    <3>1. UNCHANGED <<killed, state, asked>>
      BY <2>1, ZenonT(40) DEF Kill
    <3> QED
      BY <3>1, ZenonT(40) DEF TypeOK
  <2>2. CASE {s \in Slots : pid[s] = x} # {}
    <3>1. PICK v \in Slots :
             /\ killed' = [killed EXCEPT ![v] = TRUE]
             /\ state' = [state EXCEPT ![v] = IF @ = "SLEEPING" THEN "RUNNABLE" ELSE @]
             /\ asked' = asked \cup {x}
      BY <2>2, ZenonT(40) DEF Kill
    <3>2. killed' \in [Slots -> BOOLEAN]
      BY <3>1, ZenonT(40) DEF TypeOK
    <3>3. asked' \subseteq Nat
      BY <3>1, ProcAssumption, ZenonT(40) DEF TypeOK
    <3> QED
      BY <3>1, <3>2, <3>3, ZenonT(40) DEF TypeOK
  <2> QED
    BY <2>1, <2>2, ZenonT(40)
<1>3. TypeOK'
  <2>1. pc' \in [Slots -> {"none", "user", "sys", "exit", "fork_link", "fork_run",
                          "wait", "wait_check", "wait_sleep", "getppid"}]
    BY <1>1, ZenonT(40) DEF TypeOK
  <2> QED
    BY <1>1, <1>2, <2>1, ZenonT(40) DEF TypeOK
<1>4. TableInv'
  BY <1>1, <1>2, SMTT(30) DEF TypeOK, TableInv
<1>5. PcInv'
  BY <1>1, <1>2 DEF TypeOK, PcInv, PcOK, Forking, Idle, Zombies, Children
<1>6. ParentAlive'
  BY <1>1, <1>2 DEF TypeOK, ParentAlive
<1>7. NoStuckWait'
  BY <1>1, <1>2 DEF TypeOK, NoStuckWait, Zombies, Children
<1>8. ShellKept'
  BY <1>1, ZenonT(40) DEF ShellKept, Children
<1> QED
  BY <1>3, <1>4, <1>5, <1>6, <1>7, <1>8, ZenonT(40)

\* Every step keeps the invariant.
LEMMA NextIInv == IInv /\ [Next]_vars => IInv'
<1> SUFFICES ASSUME IInv, [Next]_vars PROVE IInv'
  BY ZenonT(40)
<1>1. CASE UNCHANGED vars
  BY <1>1 DEF vars, IInv, TypeOK, TableInv, PcInv, PcOK, ParentAlive, NoStuckWait, ShellKept,
              Zombies, Children
<1>2. ASSUME NEW p \in Slots, Step(p) PROVE IInv'
  <2>1. CASE Trap(p) \/ Fault(p) \/ OtherCall(p)
    BY <2>1, TrapStep, FaultStep, OtherCallStep, ZenonT(40)
  <2>2. CASE ForkFull(p) \/ ForkLink(p) \/ ForkRun(p)
    BY <2>2, ForkFullStep, ForkLinkStep, ForkRunStep, ZenonT(40)
  <2>3. CASE \E s \in Slots : ForkAlloc(p, s) \/ ForkNoMemory(p, s)
    BY <2>3, ForkAllocStep, ForkNoMemoryStep, ZenonT(40)
  <2>4. CASE \E st \in Statuses \cup {-1} : Exit(p, st)
    BY <2>4, ExitStep, ZenonT(40)
  <2>5. CASE \E addr \in BOOLEAN : WaitReap(p, addr)
    BY <2>5, WaitReapStep, ZenonT(40)
  <2>6. CASE WaitBadAddress(p) \/ WaitScan(p) \/ WaitCheck(p) \/ WaitSleep(p)
    BY <2>6, WaitBadAddressStep, WaitScanStep, WaitCheckStep, WaitSleepStep, ZenonT(40)
  <2>7. CASE \E x \in KillPids : Kill(p, x)
    BY <2>7, KillStep, ZenonT(40)
  <2>8. CASE GetppidLoad(p) \/ GetppidRead(p)
    BY <2>8, GetppidLoadStep, GetppidReadStep, ZenonT(40)
  <2> QED
    BY <1>2, <2>1, <2>2, <2>3, <2>4, <2>5, <2>6, <2>7, <2>8, ZenonT(40) DEF Step
<1> QED
  BY <1>1, <1>2, ZenonT(40) DEF Next

\* The inductive invariant holds in every reachable state.
THEOREM Invariance == Spec => []IInv
  BY InitIInv, NextIInv, PTL DEF Spec

\* The process table keeps its types, whatever its size and whatever the
\* processes call.
THEOREM TypeCorrect == Spec => []TypeOK
  BY Invariance, PTL DEF IInv

\* p->parent never dangles and never names a slot's next tenant.
THEOREM ProcParentAlive == Spec => []ParentAlive
  BY Invariance, PTL DEF IInv

\* No process sleeps in wait() with a zombie child.
THEOREM ProcNoStuckWait == Spec => []NoStuckWait
  BY Invariance, PTL DEF IInv

\* init's shell stays init's child until init reaps it.
THEOREM ProcShellKept == Spec => []ShellKept
  BY Invariance, PTL DEF IInv

\* The links of the table fork(), exit(), reparent() and wait() maintain are
\* right in every reachable state.
THEOREM ProcKinship == Spec => []Kinship
  BY TypeCorrect, ProcParentAlive, ProcShellKept, PTL DEF Kinship

-----------------------------------------------------------------------------
(* The process table implements the family tree.                           *)

Tree == {Member(s) : s \in Members}
Unborn == {t \in Slots : state[t] = "USED" /\ parent[t] = None}
Fresh == {pid[s] : s \in Unborn}

\* A step that leaves links, pids and deaths alone leaves the family alone.
LEMMA SameFamily ==
  ASSUME IInv, UNCHANGED <<parent, pid>>,
         \A s \in Slots : state'[s] = "ZOMBIE" <=> state[s] = "ZOMBIE",
         Unborn' = Unborn
  PROVE  Tree' = Tree /\ Fresh' = Fresh
<1>1. Members' = Members /\ \A s \in Slots : Member(s)' = Member(s)
  BY ZenonT(40) DEF Members, Member
<1>2. Members \subseteq Slots
  BY ZenonT(40) DEF Members
<1>3. Tree' = {Member(s) : s \in Members}
  BY <1>1, <1>2, ZenonT(40) DEF Tree
<1> QED
  BY <1>3, ZenonT(40) DEF Tree, Fresh

\* A runnable process is in the tree, and alive.
LEMMA RunnableAlive ==
  ASSUME IInv, NEW p \in Slots, state[p] = "RUNNABLE"
  PROVE  F!Alive(pid[p]) /\ pid[p] \in 1 .. nextpid - 1 /\ p \in Members
<1>1. p \in Members
  BY ZenonT(40) DEF IInv, TableInv, Members
<1>2. Member(p).id = pid[p] /\ ~Member(p).dead
  BY ZenonT(40) DEF Member
<1>3. pid[p] \in 1 .. nextpid - 1
  BY DEF IInv, TypeOK, TableInv
<1> QED
  BY <1>1, <1>2, <1>3, ZenonT(40) DEF F!Alive

\* allocproc() issues an id to nobody yet.
LEMMA ForkAllocFamily ==
  ASSUME IInv, NEW p \in Slots, NEW s \in Slots, ForkAlloc(p, s)
  PROVE  F!Issue
<1>1. /\ state[s] = "UNUSED" /\ parent[s] = None /\ s # initproc
      /\ UNCHANGED parent /\ nextpid' = nextpid + 1
      /\ pid' = [pid EXCEPT ![s] = nextpid] /\ state' = [state EXCEPT ![s] = "USED"]
  BY ZenonT(40) DEF ForkAlloc, Free, IInv, TableInv
<1>2. \A t \in Slots : parent[t] # s
  BY <1>1, NoneNotSlot, ZenonT(40) DEF IInv, ParentAlive
<1>3. Members' = Members /\ Members \subseteq Slots \ {s}
  BY <1>1, ZenonT(40) DEF Members
<1>4. \A t \in Members : Member(t)' = Member(t)
  BY <1>1, <1>2, <1>3, ZenonT(40) DEF Member, IInv, TypeOK
<1>5. Tree' = Tree
  BY <1>3, <1>4, ZenonT(40) DEF Tree
<1>6. Unborn' = Unborn \cup {s} /\ s \notin Unborn /\ Unborn \subseteq Slots
  BY <1>1, ZenonT(40) DEF Unborn, IInv, TypeOK
<1>7. pid'[s] = nextpid /\ \A t \in Unborn : pid'[t] = pid[t]
  BY <1>1, <1>6, ZenonT(40) DEF IInv, TypeOK
<1>8. Fresh' = Fresh \cup {nextpid}
  BY <1>6, <1>7, ZenonT(40) DEF Fresh
<1>9. nextpid' - 1 = (nextpid - 1) + 1 /\ (nextpid - 1) + 1 = nextpid
  BY <1>1 DEF IInv, TypeOK
<1> QED
  BY <1>5, <1>8, <1>9, ZenonT(40) DEF F!Issue, Tree, Fresh, Unborn

\* A fork() that fails has used up an id.
LEMMA ForkNoMemoryFamily ==
  ASSUME IInv, NEW p \in Slots, NEW s \in Slots, ForkNoMemory(p, s)
  PROVE  F!Issue
<1>1. UNCHANGED <<parent, pid, state>> /\ nextpid' = nextpid + 1
  BY ZenonT(40) DEF ForkNoMemory
<1>2. Tree' = Tree /\ Fresh' = Fresh
  BY <1>1, SameFamily, ZenonT(40) DEF Unborn
<1>3. nextpid' - 1 = (nextpid - 1) + 1
  BY <1>1, SMTT(30) DEF IInv, TypeOK
<1> QED
  BY <1>2, <1>3, ZenonT(40) DEF F!Issue, Tree, Fresh, Unborn

\* Setting np->parent is the birth of the child.
LEMMA ForkLinkFamily ==
  ASSUME IInv, NEW p \in Slots, ForkLink(p)
  PROVE  F!FNext
<1>1. PICK c \in Slots :
      /\ c = np[p] /\ state[c] = "USED" /\ parent[c] = None /\ state[p] = "RUNNABLE"
      /\ parent' = [parent EXCEPT ![c] = p] /\ UNCHANGED <<pid, state, nextpid>>
  <2>1. np[p] \in Slots /\ state[np[p]] = "USED" /\ parent[np[p]] = None
    BY ZenonT(40) DEF ForkLink, At, IInv, PcInv, PcOK, Forking
  <2> QED
    BY <2>1, ZenonT(40) DEF ForkLink, At
<1>2. p # c /\ c # initproc
  BY <1>1, ZenonT(40) DEF IInv, TableInv
<1>3. Members' = Members \cup {c} /\ c \notin Members /\ Members \subseteq Slots
  BY <1>1, <1>2, NoneNotSlot DEF Members, IInv, TypeOK
<1>4. \A t \in Members : Member(t)' = Member(t)
  BY <1>1, <1>3, ZenonT(40) DEF Member, IInv, TypeOK
<1>5. Member(c)' = [id |-> pid[c], parent |-> pid[p], dead |-> FALSE]
  <2>1. parent'[c] = p /\ p # None /\ pid' = pid /\ (state'[c] = "ZOMBIE") = FALSE
    BY <1>1, NoneNotSlot, ZenonT(40) DEF IInv, TypeOK
  <2> QED
    BY <2>1, ZenonT(40) DEF Member
<1>6. Tree' = Tree \cup {[id |-> pid[c], parent |-> pid[p], dead |-> FALSE]}
  BY <1>3, <1>4, <1>5, ZenonT(40) DEF Tree
<1>7. Unborn' = Unborn \ {c} /\ c \in Unborn /\ Unborn \subseteq Slots
  BY <1>1, NoneNotSlot, ZenonT(40) DEF Unborn, IInv, TypeOK
<1>8. \A t \in Slots : pid[t] = pid[c] => t = c
  BY <1>1, ZenonT(40) DEF IInv, TableInv
<1>9. Fresh' = Fresh \ {pid[c]} /\ pid[c] \in Fresh
  BY <1>1, <1>7, <1>8, ZenonT(40) DEF Fresh
<1>10. F!Alive(pid[p]) /\ pid[p] \in 1 .. nextpid - 1
  BY ZenonT(40), <1>1, RunnableAlive
<1>11. PICK q \in 1 .. nextpid - 1, d \in Fresh : q = pid[p] /\ d = pid[c]
  BY ZenonT(40), <1>9, <1>10
<1>12. F!Born(q, d)
  BY <1>1, <1>6, <1>9, <1>10, <1>11, ZenonT(40) DEF F!Born, Tree, Fresh, Unborn
<1> QED
  BY <1>11, <1>12, ZenonT(40) DEF F!FNext, Fresh, Unborn

\* exit() is a death, with the children going to init.
LEMMA ExitFamily ==
  ASSUME IInv, NEW p \in Slots, NEW st, Exit(p, st), p # initproc
  PROVE  F!FNext
<1> DEFINE Adopt(r) == [id |-> r.id, parent |-> IF r.parent = pid[p] THEN 1 ELSE r.parent,
                        dead |-> r.dead \/ r.id = pid[p]]
<1>1. /\ state[p] = "RUNNABLE" /\ parent' = Reparent(p) /\ UNCHANGED <<pid, nextpid>>
      /\ state' = [s \in Slots |-> IF s = p THEN "ZOMBIE"
                                   ELSE IF s \in ReparentWakes(p) \cup Wakeup(parent[p])
                                   THEN "RUNNABLE" ELSE state[s]]
  BY ZenonT(40) DEF Exit, At, MayCall
<1>2. \A s \in ReparentWakes(p) \cup Wakeup(parent[p]) : state[s] = "SLEEPING"
  BY ZenonT(40) DEF ReparentWakes, Wakeup
<1>3. \A s \in Slots : /\ state'[s] = "ZOMBIE" <=> state[s] = "ZOMBIE" \/ s = p
                       /\ state'[s] = "USED" <=> state[s] = "USED"
  BY <1>1, <1>2, ZenonT(40) DEF IInv, TypeOK
<1>4. \A s \in Slots : parent'[s] = IF parent[s] = p THEN initproc ELSE parent[s]
  BY <1>1, ZenonT(40) DEF Reparent
<1>5. initproc \in Slots /\ pid[initproc] = 1 /\ pid[p] # 0
  BY <1>1, ZenonT(40) DEF IInv, TableInv
<1>6. Members' = Members /\ Members \subseteq Slots
  BY <1>4, <1>5, NoneNotSlot, ZenonT(40) DEF Members
<1>7. \A s \in Slots : (pid[s] = pid[p]) = (s = p)
  BY <1>5, ZenonT(40) DEF IInv, TableInv
<1>8. ASSUME NEW s \in Members PROVE Member(s)' = Adopt(Member(s))
  <2>1. s \in Slots
    BY <1>6, ZenonT(40)
  <2>2. (IF parent'[s] = None THEN 0 ELSE pid[parent'[s]])
          = IF Member(s).parent = pid[p] THEN 1 ELSE Member(s).parent
    <3>1. parent[s] \in Slots \cup {None} /\ initproc # None
      BY <1>5, <2>1, NoneNotSlot, ZenonT(40) DEF IInv, TypeOK
    <3>2. Member(s).parent = IF parent[s] = None THEN 0 ELSE pid[parent[s]]
      BY ZenonT(40) DEF Member
    <3>3. CASE parent[s] = p
      BY <1>4, <1>5, <2>1, <3>1, <3>2, <3>3, NoneNotSlot, ZenonT(40)
    <3>4. CASE parent[s] # p
      BY <1>4, <1>5, <1>7, <2>1, <3>1, <3>2, <3>4, ZenonT(40)
    <3> QED
      BY <3>3, <3>4, ZenonT(40)
  <2>3. (state'[s] = "ZOMBIE") = (Member(s).dead \/ Member(s).id = pid[p])
    <3>1. Member(s).dead = (state[s] = "ZOMBIE") /\ Member(s).id = pid[s]
      BY ZenonT(40) DEF Member
    <3> QED
      BY ZenonT(40), <1>3, <1>7, <2>1, <3>1
  <2>4. Member(s)' = [id |-> pid[s], parent |-> IF parent'[s] = None THEN 0 ELSE pid[parent'[s]],
                      dead |-> state'[s] = "ZOMBIE"]
    BY <1>1, ZenonT(40) DEF Member
  <2>5. Member(s).id = pid[s]
    BY ZenonT(40) DEF Member
  <2> QED
    BY <2>2, <2>3, <2>4, <2>5, ZenonT(40)
<1>9. Tree' = {Adopt(r) : r \in Tree}
  BY <1>6, <1>8, ZenonT(40) DEF Tree
<1>10. \A s \in Slots : state[s] = "USED" => parent[s] # p
  <2>1. pc[p] # "fork_run"
    BY ZenonT(40) DEF Exit, At, MayCall
  <2>2. ASSUME NEW s \in Slots, state[s] = "USED", parent[s] = p PROVE FALSE
    <3>1. PcOK(s)
      BY ZenonT(40) DEF IInv, PcInv
    <3>2. parent[s] # None
      BY <2>2, NoneNotSlot, ZenonT(40)
    <3>3. pc[parent[s]] = "fork_run"
      BY <2>2, <3>1, <3>2, ZenonT(40) DEF PcOK
    <3> QED
      BY <2>1, <2>2, <3>3, ZenonT(40)
  <2> QED
    BY <2>2, ZenonT(40)
<1>11. Unborn' = Unborn
  BY <1>3, <1>4, <1>10, ZenonT(40) DEF Unborn
<1>12. Fresh' = Fresh
  BY <1>1, <1>11, ZenonT(40) DEF Fresh
<1>13. F!Alive(pid[p]) /\ pid[p] \in 1 .. nextpid - 1
  BY <1>1, RunnableAlive, ZenonT(40)
<1>14. pid[p] # 1
  BY ZenonT(40), <1>5, <1>7
<1>15. F!Die(pid[p])
  BY <1>1, <1>9, <1>12, <1>13, <1>14, ZenonT(40) DEF F!Die, Tree, Fresh, Unborn
<1> QED
  BY <1>13, <1>15, ZenonT(40) DEF F!FNext

\* freeproc() in wait() takes a dead child out of the family.
LEMMA WaitReapFamily ==
  ASSUME IInv, NEW p \in Slots, NEW addr, WaitReap(p, addr)
  PROVE  F!FNext
<1>1. PICK z \in Slots :
        /\ First(z, Zombies(p))
        /\ state' = [state EXCEPT ![z] = "UNUSED"]
        /\ pid' = [pid EXCEPT ![z] = 0]
        /\ parent' = [parent EXCEPT ![z] = None]
  BY ZenonT(40) DEF WaitReap
<1>2. state[p] = "RUNNABLE" /\ UNCHANGED nextpid
  BY ZenonT(40) DEF WaitReap, Waiting, MayCall, At
<1>3. state[z] = "ZOMBIE" /\ parent[z] = p /\ z # p /\ z # initproc
  BY <1>1, <1>2, ZenonT(40) DEF First, Zombies, Children, IInv, TableInv
<1>4. \A s \in Slots : parent[s] # z
  BY <1>3, NoneNotSlot, ZenonT(40) DEF IInv, ParentAlive
<1>5. Members' = Members \ {z} /\ z \in Members /\ Members \subseteq Slots
  BY <1>1, <1>3, NoneNotSlot, ZenonT(40) DEF Members, IInv, TypeOK
<1>6. \A s \in Members \ {z} : Member(s)' = Member(s)
  BY <1>1, <1>4, <1>5, ZenonT(40) DEF Member, IInv, TypeOK
<1>7. \A s \in Members \ {z} : Member(s) # Member(z)
  <2>1. \A s \in Slots : Member(s).id = pid[s]
    BY ZenonT(40) DEF Member
  <2>2. \A s \in Slots \ {z} : pid[s] # pid[z]
    BY <1>3, ZenonT(40) DEF IInv, TableInv
  <2> QED
    BY ZenonT(40), <1>5, <2>1, <2>2
<1>8. Tree' = Tree \ {Member(z)} /\ Member(z) \in Tree
  BY <1>5, <1>6, <1>7, ZenonT(40) DEF Tree
<1>9. Unborn' = Unborn /\ Unborn \subseteq Slots \ {z}
  BY <1>1, <1>3, ZenonT(40) DEF Unborn, IInv, TypeOK
<1>10. Fresh' = Fresh
  <2>1. \A s \in Unborn : pid'[s] = pid[s]
    BY <1>1, <1>9, ZenonT(40) DEF IInv, TypeOK
  <2> QED
    BY <1>9, <2>1, ZenonT(40) DEF Fresh
<1>11. Member(z).dead /\ Member(z).parent = pid[p]
  BY <1>3, NoneNotSlot, ZenonT(40) DEF Member
<1>12. F!Alive(pid[p])
  BY <1>2, RunnableAlive, ZenonT(40)
<1>13. F!Reap(Member(z))
  BY <1>2, <1>8, <1>10, <1>11, <1>12, ZenonT(40) DEF F!Reap, Tree, Fresh, Unborn
<1> QED
  BY <1>8, <1>13, ZenonT(40) DEF F!FNext, Tree

\* Every step of the process table is a step of the family, or leaves it alone.
LEMMA FamilyStep ==
  ASSUME IInv, NEW p \in Slots, Step(p)
  PROVE  F!FNext \/ (Tree' = Tree /\ Fresh' = Fresh /\ nextpid' = nextpid)
<1>1. CASE Trap(p) \/ Fault(p) \/ OtherCall(p) \/ ForkFull(p)
  BY <1>1, SameFamily, ZenonT(40) DEF Trap, Fault, OtherCall, ForkFull, Unborn
<1>2. CASE ForkRun(p)
  <2>1. parent[np[p]] # None
    BY <1>2, NoneNotSlot, SMTT(30) DEF ForkRun, At, IInv, PcInv, PcOK, Forking
  <2>2. state[np[p]] = "USED"
    BY <1>2, ZenonT(40) DEF ForkRun, At, IInv, PcInv, PcOK, Forking
  <2>3. /\ \A s \in Slots : state'[s] = "ZOMBIE" <=> state[s] = "ZOMBIE"
        /\ \A s \in Slots : s # np[p] => state'[s] = state[s]
        /\ UNCHANGED <<parent, pid, nextpid>>
    BY <1>2, <2>2, ZenonT(40) DEF ForkRun, IInv, TypeOK
  <2>4. Unborn' = Unborn
    BY <2>1, <2>3 DEF Unborn
  <2> QED
    BY ZenonT(40), <2>3, <2>4, SameFamily
<1>3. CASE ForkLink(p)
  BY <1>3, ForkLinkFamily, ZenonT(40)
<1>4. CASE \E s \in Slots : ForkAlloc(p, s) \/ ForkNoMemory(p, s)
  BY <1>4, ForkAllocFamily, ForkNoMemoryFamily, ZenonT(40) DEF F!FNext
<1>5. CASE \E st \in Statuses \cup {-1} : Exit(p, st)
  <2>1. PICK st \in Statuses \cup {-1} : Exit(p, st)
    BY ZenonT(40), <1>5
  <2>2. CASE p = initproc
    <3>1. UNCHANGED <<state, parent, pid, nextpid>>
      BY <2>1, <2>2, ZenonT(40) DEF Exit
    <3> QED
      BY <3>1, SameFamily, ZenonT(40) DEF Unborn
  <2> QED
    BY <2>1, <2>2, ExitFamily, ZenonT(40)
<1>6. CASE \E addr \in BOOLEAN : WaitReap(p, addr)
  BY <1>6, WaitReapFamily, ZenonT(40)
<1>7. CASE WaitBadAddress(p) \/ WaitScan(p) \/ WaitCheck(p)
  BY <1>7, SameFamily, ZenonT(40) DEF WaitBadAddress, WaitScan, WaitCheck, Unborn
<1>8. CASE WaitSleep(p)
  BY <1>8, SameFamily, ZenonT(40) DEF WaitSleep, At, Unborn, IInv, TypeOK
<1>9. CASE \E x \in KillPids : Kill(p, x)
  <2>1. UNCHANGED <<parent, pid, nextpid>>
    BY <1>9, ZenonT(40) DEF Kill
  <2>2. \A s \in Slots : \/ state'[s] = state[s]
                         \/ state[s] = "SLEEPING" /\ state'[s] = "RUNNABLE"
    BY <1>9, ZenonT(90) DEF Kill, IInv, TypeOK
  <2> QED
    BY <2>1, <2>2, SameFamily, ZenonT(40) DEF Unborn
<1>10. CASE GetppidLoad(p) \/ GetppidRead(p)
  BY <1>10, SameFamily, ZenonT(40) DEF GetppidLoad, GetppidRead, Unborn
<1> QED
  BY <1>1, <1>2, <1>3, <1>4, <1>5, <1>6, <1>7, <1>8, <1>9, <1>10, ZenonT(40) DEF Step

\* userinit() makes a family of one.
LEMMA FamilyInit == Init => F!FInit
<1> SUFFICES ASSUME Init PROVE F!FInit
  BY ZenonT(40)
<1>1. initproc \in Slots
  BY ProcAssumption DEF Slots, initproc
<1>2. Members = {initproc} /\ Unborn = {}
  BY <1>1, ZenonT(40) DEF Init, Members, Unborn
<1>3. Member(initproc) = F!Root
  BY <1>1, ZenonT(40) DEF Member, Init, F!Root
<1>4. Tree = {F!Root} /\ Fresh = {}
  BY <1>2, <1>3, ZenonT(40) DEF Tree, Fresh
<1> QED
  BY <1>4 DEF F!FInit, Tree, Fresh, Unborn, Init

\* The process table implements the family tree: an id is never used twice,
\* dying and handing over the orphans happen together, and each of the dead is
\* reaped once, whatever fork(), exit(), wait() and kill() run at the same time.
THEOREM ProcFamilyTree == Spec => FamilyTree
<1>1. IInv /\ [Next]_vars => [F!FNext]_<<Tree, Fresh, nextpid - 1>>
  <2> SUFFICES ASSUME IInv, [Next]_vars
               PROVE  F!FNext \/ UNCHANGED <<Tree, Fresh, nextpid - 1>>
    BY ZenonT(40)
  <2>1. CASE UNCHANGED vars
    BY <2>1, SameFamily, ZenonT(40) DEF vars, Unborn
  <2>2. CASE Next
    BY <2>2, FamilyStep, ZenonT(40) DEF Next
  <2> QED
    BY <2>1, <2>2, ZenonT(40)
<1> QED
  BY <1>1, FamilyInit, Invariance, PTL DEF Spec, FamilyTree, F!FSpec, Tree, Fresh, Unborn
=============================================================================
