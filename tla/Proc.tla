-------------------------------- MODULE Proc --------------------------------
(***************************************************************************)
(* The life of a process in kernel/proc.c: fork(), exit(), wait(), kill()    *)
(* and the two system calls around them that read p->parent, with the user   *)
(* side of kernel/trap.c (killed() is looked at on the way into and out of   *)
(* the kernel) and the first process, user/init.c.                           *)
(*                                                                           *)
(* A step is a critical section of wait_lock or of one p->lock.  wait() is   *)
(* cut where it lets go of p->lock while it keeps wait_lock: a kill() can    *)
(* come in between.  RUNNABLE stands for RUNNABLE and RUNNING: which of the  *)
(* runnable processes has a CPU is the business of module Sched.  The only   *)
(* sleep here is the one in wait(), where a process sleeps on its own slot.  *)
(***************************************************************************)
EXTENDS Integers, FiniteSets

CONSTANTS
  NPROC,     \* slots of the process table
  MaxPid,    \* bound: allocpid() is not called once nextpid has passed it
  Calls,     \* the system calls processes other than init make
  KillPids,  \* arguments of kill()
  Statuses,  \* arguments of exit()
  None

ASSUME ProcAssumption ==
  /\ NPROC \in Nat \ {0} /\ MaxPid \in Nat \ {0}
  /\ Calls \subseteq {"fork", "exit", "wait", "kill", "getppid", "other"}
  /\ KillPids \subseteq Nat /\ Statuses \subseteq Int
  /\ None \notin Int

Slots == 1 .. NPROC
initproc == 1

VARIABLES
  state, parent, pid, killed, xstate,  \* fields of proc[]
  nextpid,
  wait_lock,  \* the process holding it, or None
  pc,         \* where each process is
  np,         \* a pointer it holds: fork()'s np, the parent getppid() loaded
  ret,        \* what wait() stored for it last
  shell,      \* init's variable pid: the shell it waits for, or 0
  panicked,   \* panic("init exiting")
  creator,    \* history: the pid of the process that forked this one
  asked       \* history: pids of processes somebody killed, or that faulted

vars == <<state, parent, pid, killed, xstate, nextpid, wait_lock, pc, np, ret,
          shell, panicked, creator, asked>>

Children(p) == {s \in Slots : parent[s] = p}
ZombiesOfAnyone(p) == {s \in Slots : state[s] = "ZOMBIE"}  \* mutant: parent not compared
Zombies(p) == {s \in Children(p) : state[s] = "ZOMBIE"}
Free == {s \in Slots : state[s] = "UNUSED"}

\* s is the slot of S a scan of proc[] comes to first.
First(s, S) == s \in S /\ \A t \in S : s <= t

\* p executes: its next step can be taken.
At(p, l) == pc[p] = l /\ state[p] = "RUNNABLE" /\ ~panicked

\* The system calls p may make now.  init forks a shell and then waits until
\* wait() returns that shell's pid.
MayCall(p, call) ==
  /\ At(p, "sys")
  /\ IF p = initproc THEN call = IF shell = 0 THEN "fork" ELSE "wait"
                     ELSE call \in Calls

\* Where a call that returned -1 leaves its caller: init gives up.
Failed(p) == IF p = initproc THEN "exit" ELSE "user"

Init ==
  /\ state = [s \in Slots |-> IF s = initproc THEN "RUNNABLE" ELSE "UNUSED"]
  /\ pid = [s \in Slots |-> IF s = initproc THEN 1 ELSE 0]
  /\ pc = [s \in Slots |-> IF s = initproc THEN "user" ELSE "none"]
  /\ parent = [s \in Slots |-> None]
  /\ killed = [s \in Slots |-> FALSE]
  /\ xstate = [s \in Slots |-> 0]
  /\ nextpid = 2
  /\ wait_lock = None
  /\ np = [s \in Slots |-> None]
  /\ ret = [s \in Slots |-> None]
  /\ shell = 0
  /\ panicked = FALSE
  /\ creator = [s \in Slots |-> 0]
  /\ asked = {}

-----------------------------------------------------------------------------
(* The user side: usertrap(). *)

\* Entering the kernel: a killed process exits, another makes its call.
Trap(p) ==
  /\ At(p, "user")
  /\ pc' = [pc EXCEPT ![p] = IF killed[p] THEN "exit" ELSE "sys"]
  /\ ret' = [ret EXCEPT ![p] = None]
  /\ UNCHANGED <<state, parent, pid, killed, xstate, nextpid, wait_lock, np,
                 shell, panicked, creator, asked>>

\* An exception usertrap() does not know: setkilled(p), then exit(-1).
Fault(p) ==
  /\ At(p, "user") /\ p # initproc
  /\ killed' = [killed EXCEPT ![p] = TRUE]
  /\ asked' = asked \cup {pid[p]}
  /\ pc' = [pc EXCEPT ![p] = "exit"]
  /\ UNCHANGED <<state, parent, pid, xstate, nextpid, wait_lock, np, ret,
                 shell, panicked, creator>>

\* A timer interrupt, or a system call that touches none of this state.
OtherCall(p) ==
  /\ MayCall(p, "other")
  /\ pc' = [pc EXCEPT ![p] = "user"]
  /\ UNCHANGED <<state, parent, pid, killed, xstate, nextpid, wait_lock, np, ret,
                 shell, panicked, creator, asked>>

-----------------------------------------------------------------------------
(* fork() *)

\* allocproc() and the copying, all under np->lock.  The scan locks one slot at
\* a time and misses a slot freed behind it: any free slot may be the one found.
ForkAlloc(p, s) ==
  /\ MayCall(p, "fork")
  /\ s \in Free /\ nextpid <= MaxPid
  /\ state' = [state EXCEPT ![s] = "USED"]
  /\ pid' = [pid EXCEPT ![s] = nextpid]
  /\ nextpid' = nextpid + 1
  /\ creator' = [creator EXCEPT ![s] = pid[p]]
  /\ np' = [np EXCEPT ![p] = s]
  /\ pc' = [pc EXCEPT ![p] = "fork_link"]
  /\ UNCHANGED <<parent, killed, xstate, wait_lock, ret, shell, panicked, asked>>

\* No slot was free when the scan came to it: the last one is not free now, one
\* behind it may be by now.
ForkFull(p) ==
  /\ MayCall(p, "fork")
  /\ NPROC \notin Free
  /\ pc' = [pc EXCEPT ![p] = Failed(p)]
  /\ UNCHANGED <<state, parent, pid, killed, xstate, nextpid, wait_lock, np, ret,
                 shell, panicked, creator, asked>>

\* A slot was found but no memory: freeproc(np) undoes all but the pid.
ForkNoMemory(p, s) ==
  /\ MayCall(p, "fork")
  /\ s \in Free /\ nextpid <= MaxPid
  /\ nextpid' = nextpid + 1
  /\ killed' = [killed EXCEPT ![s] = FALSE]
  /\ pc' = [pc EXCEPT ![p] = Failed(p)]
  /\ UNCHANGED <<state, parent, pid, xstate, wait_lock, np, ret, shell, panicked,
                 creator, asked>>

\* np->parent = p under wait_lock.
ForkLink(p) ==
  /\ At(p, "fork_link") /\ wait_lock = None
  /\ parent' = [parent EXCEPT ![np[p]] = p]
  /\ pc' = [pc EXCEPT ![p] = "fork_run"]
  /\ UNCHANGED <<state, pid, killed, xstate, nextpid, wait_lock, np, ret, shell,
                 panicked, creator, asked>>

\* np->state = RUNNABLE under np->lock; fork() returns the child's pid.
ForkRun(p) ==
  /\ At(p, "fork_run")
  /\ state' = [state EXCEPT ![np[p]] = "RUNNABLE"]
  /\ pc' = [pc EXCEPT ![p] = "user", ![np[p]] = "user"]
  /\ shell' = IF p = initproc THEN pid[np[p]] ELSE shell
  /\ np' = [np EXCEPT ![p] = None]
  /\ UNCHANGED <<parent, pid, killed, xstate, nextpid, wait_lock, ret, panicked,
                 creator, asked>>

-----------------------------------------------------------------------------
(* exit() *)

\* wakeup(c) for the sleepers in wait(): a process sleeps on its own slot.
WakeupNobody(c) == {}  \* mutant: the wakeup is forgotten
Wakeup(c) == IF c \in Slots /\ state[c] = "SLEEPING" THEN {c} ELSE {}

\* reparent(p): what becomes of proc[].parent, and whom it wakes.
ReparentNot(p) == parent  \* mutant: the children are not given away
ReparentLiving(p) ==      \* mutant: zombie children are left behind
  [s \in Slots |-> IF parent[s] = p /\ state[s] # "ZOMBIE" THEN initproc ELSE parent[s]]
ReparentOffByOne(p) ==    \* mutant: the slot before init's
  [s \in Slots |-> IF parent[s] = p THEN initproc - 1 ELSE parent[s]]
Reparent(p) == [s \in Slots |-> IF parent[s] = p THEN initproc ELSE parent[s]]
ReparentNoWake(p) == {}    \* mutant: init is not woken for the zombies it gets
ReparentWakes(p) == IF Children(p) = {} THEN {} ELSE Wakeup(initproc)

\* exit(st), by request, or with -1 in usertrap() when killed.
Exit(p, st) ==
  /\ \/ MayCall(p, "exit") /\ st \in Statuses
     \/ At(p, "exit") /\ st = -1
  /\ IF p = initproc
     THEN /\ panicked' = TRUE
          /\ UNCHANGED <<state, parent, xstate, pc>>
     ELSE /\ wait_lock = None
          /\ parent' = Reparent(p)
          /\ LET woken == ReparentWakes(p) \cup Wakeup(parent[p])
             IN  state' = [s \in Slots |-> IF s = p THEN "ZOMBIE"
                                           ELSE IF s \in woken THEN "RUNNABLE"
                                           ELSE state[s]]
          /\ xstate' = [xstate EXCEPT ![p] = st]
          /\ pc' = [pc EXCEPT ![p] = "none"]
          /\ UNCHANGED panicked
  /\ UNCHANGED <<pid, killed, nextpid, wait_lock, np, ret, shell, creator, asked>>

-----------------------------------------------------------------------------
(* wait() *)

Waiting(p) == (MayCall(p, "wait") \/ At(p, "wait")) /\ wait_lock = None

\* The scan finds a zombie: the first one is freed and its pid returned.  With
\* an address (addr) the caller gets a struct proc_time, which begins with the
\* child's pid.
WaitReap(p, addr) ==
  /\ Waiting(p)
  /\ p = initproc => ~addr
  /\ \E z \in Slots :
         /\ First(z, Zombies(p))
         /\ ret' = [ret EXCEPT ![p] = IF addr THEN pid[z] ELSE None, ![z] = None]
         /\ shell' = IF p = initproc /\ pid[z] = shell THEN 0 ELSE shell
         /\ state' = [state EXCEPT ![z] = "UNUSED"]
         /\ pid' = [pid EXCEPT ![z] = 0]
         /\ parent' = [parent EXCEPT ![z] = None]
         /\ killed' = [killed EXCEPT ![z] = FALSE]
         /\ xstate' = [xstate EXCEPT ![z] = 0]
         /\ creator' = [creator EXCEPT ![z] = 0]
  /\ pc' = [pc EXCEPT ![p] = "user"]
  /\ UNCHANGED <<nextpid, wait_lock, np, panicked, asked>>

\* copyout() refuses the address: the zombie stays.
WaitBadAddress(p) ==
  /\ Waiting(p) /\ Zombies(p) # {} /\ p # initproc
  /\ pc' = [pc EXCEPT ![p] = "user"]
  /\ UNCHANGED <<state, parent, pid, killed, xstate, nextpid, wait_lock, np, ret,
                 shell, panicked, creator, asked>>

\* No zombie: without children -1, with children on to killed(p).
WaitScan(p) ==
  /\ Waiting(p) /\ Zombies(p) = {}
  /\ IF Children(p) = {}
     THEN pc' = [pc EXCEPT ![p] = Failed(p)] /\ UNCHANGED wait_lock
     ELSE pc' = [pc EXCEPT ![p] = "wait_check"] /\ wait_lock' = p
  /\ UNCHANGED <<state, parent, pid, killed, xstate, nextpid, np, ret, shell,
                 panicked, creator, asked>>

\* killed(p), under p->lock for the length of the read.
WaitCheck(p) ==
  /\ At(p, "wait_check")
  /\ IF killed[p]
     THEN pc' = [pc EXCEPT ![p] = Failed(p)] /\ wait_lock' = None
     ELSE pc' = [pc EXCEPT ![p] = "wait_sleep"] /\ UNCHANGED wait_lock
  /\ UNCHANGED <<state, parent, pid, killed, xstate, nextpid, np, ret, shell,
                 panicked, creator, asked>>

\* sleep(p, &wait_lock)
WaitSleep(p) ==
  /\ At(p, "wait_sleep")
  /\ state' = [state EXCEPT ![p] = "SLEEPING"]
  /\ wait_lock' = None
  /\ pc' = [pc EXCEPT ![p] = "wait"]
  /\ UNCHANGED <<parent, pid, killed, xstate, nextpid, np, ret, shell, panicked,
                 creator, asked>>

-----------------------------------------------------------------------------
(* kill() and getppid() *)

\* kill(x) marks the first slot whose pid is x.
Kill(p, x) ==
  /\ MayCall(p, "kill")
  /\ LET victims == {s \in Slots : pid[s] = x}
     IN  IF victims = {} THEN UNCHANGED <<killed, state, asked>>
         ELSE \E v \in Slots :
                  /\ First(v, victims)
                  /\ killed' = [killed EXCEPT ![v] = TRUE]
                  /\ state' = [state EXCEPT ![v] = IF @ = "SLEEPING" THEN "RUNNABLE"
                                                   ELSE @]
                  /\ asked' = asked \cup {x}
  /\ pc' = [pc EXCEPT ![p] = "user"]
  /\ UNCHANGED <<parent, pid, xstate, nextpid, wait_lock, np, ret, shell, panicked,
                 creator>>

\* sys_getppid() holds p->lock but not wait_lock: it loads p->parent ...
GetppidLoad(p) ==
  /\ MayCall(p, "getppid")
  /\ np' = [np EXCEPT ![p] = parent[p]]
  /\ pc' = [pc EXCEPT ![p] = "getppid"]
  /\ UNCHANGED <<state, parent, pid, killed, xstate, nextpid, wait_lock, ret, shell,
                 panicked, creator, asked>>

\* ... and then returns that slot's pid.
GetppidRead(p) ==
  /\ At(p, "getppid")
  /\ np' = [np EXCEPT ![p] = None]
  /\ pc' = [pc EXCEPT ![p] = "user"]
  /\ UNCHANGED <<state, parent, pid, killed, xstate, nextpid, wait_lock, ret, shell,
                 panicked, creator, asked>>

-----------------------------------------------------------------------------
Step(p) ==
  \/ Trap(p) \/ Fault(p) \/ OtherCall(p)
  \/ ForkFull(p) \/ ForkLink(p) \/ ForkRun(p)
  \/ \E s \in Slots : ForkAlloc(p, s) \/ ForkNoMemory(p, s)
  \/ \E st \in Statuses \cup {-1} : Exit(p, st)
  \/ \E addr \in BOOLEAN : WaitReap(p, addr)
  \/ WaitBadAddress(p) \/ WaitScan(p) \/ WaitCheck(p) \/ WaitSleep(p)
  \/ \E x \in KillPids : Kill(p, x)
  \/ GetppidLoad(p) \/ GetppidRead(p)

Next == \E p \in Slots : Step(p)

Spec == Init /\ [][Next]_vars

\* Holding wait_lock, a spinlock, a process runs with interrupts off until it
\* lets go.  init is proc[0], which the round-robin scan tries first; a process
\* spinning for wait_lock gets it sooner or later.
Fairness ==
  /\ WF_vars(\E p \in Slots : WaitCheck(p) \/ WaitSleep(p))
  /\ SF_vars(wait_lock = None /\ Step(initproc))

FairSpec == Spec /\ Fairness

\* Every process gets a CPU: there are as many as processes.
AllFairness ==
  \A p \in Slots : WF_vars(Step(p)) /\ SF_vars(wait_lock = None /\ Step(p))

AllFairSpec == Spec /\ AllFairness

-----------------------------------------------------------------------------
(* Properties. *)

\* Every variable keeps its type.
TypeOK ==
  /\ state \in [Slots -> {"UNUSED", "USED", "RUNNABLE", "SLEEPING", "ZOMBIE"}]
  /\ parent \in [Slots -> Slots \cup {None}]
  /\ pid \in [Slots -> Nat]
  /\ killed \in [Slots -> BOOLEAN]
  /\ xstate \in [Slots -> Int]
  /\ nextpid \in Nat
  /\ wait_lock \in Slots \cup {None}
  /\ pc \in [Slots -> {"none", "user", "sys", "exit", "fork_link", "fork_run",
                       "wait", "wait_check", "wait_sleep", "getppid"}]
  /\ np \in [Slots -> Slots \cup {None}]
  /\ ret \in [Slots -> Nat \cup {None}]
  /\ shell \in Nat
  /\ panicked \in BOOLEAN
  /\ creator \in [Slots -> Nat]
  /\ asked \subseteq Nat

\* p->parent never dangles: it names a process that is alive and is the one
\* that forked p, or init.  exit() and wait() recycle slots while other
\* processes fork, so a link could come to name a slot's next tenant.
ParentAlive ==
  \A s \in Slots : parent[s] # None =>
    /\ state[parent[s]] \in {"RUNNABLE", "SLEEPING"}
    /\ parent[s] = initproc \/ pid[parent[s]] = creator[s]

\* wait() never sleeps past an exit: a sleeper has no zombie child, whether
\* the child exited under it or came to it as a zombie from reparent().
NoStuckWait ==
  \A p \in Slots : state[p] = "SLEEPING" => Zombies(p) = {}

\* The shell init waits for stays init's child until init reaps it, so init's
\* wait() has a child to wait for and does not take it down with an error.
ShellKept ==
  shell # 0 => \E s \in Children(initproc) : pid[s] = shell

\* The process table is a family tree (module Family): ids are issued once, a
\* death and the adoption of the orphans are one instant, each of the dead is
\* reaped once and by its parent.
Member(s) == [id |-> pid[s], parent |-> IF parent[s] = None THEN 0 ELSE pid[parent[s]],
              dead |-> state[s] = "ZOMBIE"]
Members == {s \in Slots : s = initproc \/ parent[s] # None}
F == INSTANCE Family WITH
       tree <- {Member(s) : s \in Members},
       fresh <- {pid[s] : s \in {t \in Slots : state[t] = "USED" /\ parent[t] = None}},
       last <- nextpid - 1
FamilyTree == F!FSpec

\* "Exit status to be returned to parent's wait": what wait() stores for the
\* caller is the status the child passed to exit().
StatusDelivered ==
  [][\A z \in Slots :
       state[z] = "ZOMBIE" /\ state'[z] = "UNUSED" /\ ret'[parent[z]] # None
         => ret'[parent[z]] = xstate[z]]_vars

\* "Kill the process with the given pid": a process is marked killed only if
\* kill() was called with its pid, or it faulted.
KilledOnRequest ==
  \A s \in Slots : state[s] # "UNUSED" /\ killed[s] => pid[s] \in asked

\* getppid() returns the pid of the caller's parent: of the process that
\* forked it, or of init once that one has exited.
GetppidRight ==
  [][\A p \in Slots : pc[p] = "getppid" /\ pc'[p] = "user"
       => pid[np[p]] \in {creator[p], pid[initproc]}]_vars

\* init reaps every zombie it is the parent of, unless it is itself gone or
\* has to fork a shell when the bound on pids has been reached.
Reaped ==
  \A s \in Slots \ {initproc} :
    state[s] = "ZOMBIE" /\ parent[s] = initproc
      ~> state[s] # "ZOMBIE" \/ panicked \/ (shell = 0 /\ nextpid > MaxPid)

\* "The victim won't exit until it tries to return to user space": a killed
\* process does get there and exits.
KilledExits ==
  \A s \in Slots :
    killed[s] /\ state[s] \in {"RUNNABLE", "SLEEPING"}
      ~> state[s] \in {"ZOMBIE", "UNUSED"} \/ panicked

\* The links of the process table (fork(), exit(), reparent(), wait()): every
\* parent is alive and the right one, and init keeps the shell it waits for.
Kinship == TypeOK /\ ParentAlive /\ ShellKept
=============================================================================
