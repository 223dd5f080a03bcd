----------------------------- MODULE ShellRun ------------------------------
(***************************************************************************)
(* The shell at work (user/sh.c main() and runcmd()) under init            *)
(* (user/init.c): processes, their descriptors and pipes, the calls that   *)
(* fail.  The closes and dups a forked child starts with touch only its    *)
(* own descriptors, so they are one step with the fork() before them.  A   *)
(* program that was exec'd reads its input to the end and exits.  wait(),  *)
(* fork(), pipe(), open() and exec() are the kernel's, as used here.       *)
(***************************************************************************)
EXTENDS ShellParse

CONSTANTS NPROC,   \* process slots besides init and the shell
          NFD,     \* bound: descriptors per process
          Lines,   \* the command lines typed
          NLINES,  \* bound: lines read in a behaviour
          NFAULTS  \* bound: calls that fail without cause

ASSUME RunAssumption ==
    /\ NPROC \in Nat /\ NFD \in Nat /\ NLINES \in Nat /\ NFAULTS \in Nat

VARIABLES proc,    \* per process: what it is doing
          lines,   \* lines read so far
          faults,  \* calls failed so far
          spoiled  \* a call of the shell or its children has failed

runVars == <<proc, lines, faults, spoiled>>

Fd == 0 .. NFD - 1
Init1 == 0
Shell == 1
Pids == 2 .. NPROC + 1
Closed == <<"closed", 0>>
Tty == <<"tty", 0>>
File == <<"file", 0>>
R(k) == <<"r", k>>
W(k) == <<"w", k>>
NoCmd == [type |-> "none"]

\* want: what the command line asks the program's descriptors 0 and 1 to be.
Absent == [st |-> "absent", cmd |-> NoCmd, parent |-> Init1, back |-> FALSE,
           pipe |-> 0, fds |-> [f \in Fd |-> Closed], want |-> <<Tty, Tty>>]

\* The shell as init's child exec's it.
Booted(open) ==
    [Absent EXCEPT !.st = "boot", !.parent = Init1,
                   !.fds = [f \in Fd |-> IF f \in open THEN Tty ELSE Closed]]

FreeFds(fds) == {f \in Fd : fds[f] = Closed}
Lowest(fds) == CHOOSE f \in FreeFds(fds) : \A g \in FreeFds(fds) : f <= g
Opened(fds, x) == [fds EXCEPT ![Lowest(fds)] = x]
Close(fds, F) == [f \in Fd |-> IF f \in F THEN Closed ELSE fds[f]]
Holding(fds, x) == {f \in Fd : fds[f] = x}

Live(p) == proc[p].st \notin {"absent", "zombie"}
Children(p) == {q \in DOMAIN proc : proc[q].parent = p /\ proc[q].st # "absent"}
Writers(k) == {q \in DOMAIN proc : Holding(proc[q].fds, W(k)) # {}}
Users(k) == Writers(k) \cup {q \in DOMAIN proc : Holding(proc[q].fds, R(k)) # {}}

\* exit(): descriptors are closed, children go to init.
Exited(pr, p) ==
    [q \in DOMAIN pr |->
        IF q = p THEN [pr[p] EXCEPT !.st = "zombie", !.fds = Absent.fds, !.cmd = NoCmd]
        ELSE IF pr[q].parent = p THEN [pr[q] EXCEPT !.parent = Init1]
        ELSE pr[q]]

Fault ==
    /\ faults < NFAULTS
    /\ faults' = faults + 1 /\ spoiled' = TRUE
    /\ UNCHANGED lines
NoFault == UNCHANGED <<faults, spoiled, lines>>
Panics(p) == proc' = Exited(proc, p)

\* fork1(): a free slot becomes a copy of p running c; else the caller panics.
Fork(p, st, c, fds, want, back) ==
    \/ \E q \in Pids :
          /\ proc[q].st = "absent" /\ \A r \in Pids : r < q => proc[r].st # "absent"
          /\ proc' = [proc EXCEPT
                        ![p].st = st,
                        ![q] = [st |-> "run", cmd |-> c, parent |-> p, pipe |-> 0,
                                fds |-> fds, want |-> want, back |-> proc[p].back \/ back]]
          /\ NoFault
    \/ Panics(p) /\ Fault
    \/ /\ \A q \in Pids : proc[q].st # "absent"
       /\ Panics(p) /\ spoiled' = TRUE /\ UNCHANGED <<faults, lines>>

\* wait(0): any child that has exited.  Whoever calls it has a child, for
\* fork1() returned to it and nobody else reaps what it started.
Wait(p, st, cmd) ==
    /\ \E q \in Children(p) :
          /\ proc[q].st = "zombie"
          /\ proc' = [proc EXCEPT ![q] = Absent, ![p].st = st, ![p].cmd = cmd]
    /\ NoFault

-----------------------------------------------------------------------------
\* main(): open the console, which is there, until 0, 1 and 2 are in use.
Console3 ==
    /\ proc[Shell].st = "boot"
    /\ LET fds == proc[Shell].fds IN
       IF Lowest(fds) >= 3
       THEN proc' = [proc EXCEPT ![Shell].st = "prompt"]
       ELSE proc' = [proc EXCEPT ![Shell].fds = Opened(fds, Tty)]
    /\ NoFault

\* getcmd(), and the fork of a child that parses and runs the line.
ReadLine(s) ==
    /\ proc[Shell].st = "prompt" /\ lines < NLINES
    /\ \E r \in {parsecmd(s)} :
          proc' = [proc EXCEPT ![Shell].st = "read",
                               ![Shell].cmd = IF r = Panic THEN NoCmd ELSE r.cmd]
    /\ lines' = lines + 1
    /\ UNCHANGED <<faults, spoiled>>

\* cd is run by the shell itself; chdir() changes none of this state.
Cd ==
    /\ proc[Shell].st = "prompt" /\ lines < NLINES
    /\ lines' = lines + 1
    /\ UNCHANGED <<proc, faults, spoiled>>

MainFork ==
    /\ proc[Shell].st = "read"
    /\ Fork(Shell, "mainwait", proc[Shell].cmd, proc[Shell].fds, <<Tty, Tty>>, FALSE)

MainWait == proc[Shell].st = "mainwait" /\ Wait(Shell, "prompt", proc[Shell].cmd)

\* End of input: the shell exits.
Eof ==
    /\ proc[Shell].st = "prompt" /\ lines < NLINES
    /\ Panics(Shell) /\ NoFault

-----------------------------------------------------------------------------
\* runcmd(), one case of its switch per action.
Runs(p, type) ==
    /\ p \in Pids /\ proc[p].st = "run"
    /\ proc[p].cmd.type = type

\* parsecmd() panicked in the child.
BadLine(p) ==
    /\ p \in Pids /\ proc[p].st = "run" /\ proc[p].cmd = NoCmd
    /\ Panics(p) /\ NoFault

Exec(p) ==
    /\ Runs(p, "EXEC")
    /\ \/ proc[p].cmd.argv = <<>> /\ Panics(p) /\ NoFault
       \/ /\ proc[p].cmd.argv # <<>>
          /\ \/ proc' = [proc EXCEPT ![p].st = "program", ![p].cmd = NoCmd] /\ NoFault
             \/ Panics(p) /\ Fault

Redir(p) ==
    /\ Runs(p, "REDIR")
    /\ LET c == proc[p].cmd
           fds == Close(proc[p].fds, {c.fd})
       IN \/ /\ proc' = [proc EXCEPT ![p].fds = Opened(fds, File),
                                     ![p].want[c.fd + 1] = File,
                                     ![p].cmd = c.cmd]
             /\ NoFault
          \/ Panics(p) /\ Fault

List(p) ==
    /\ Runs(p, "LIST")
    /\ Fork(p, "list", proc[p].cmd.left, proc[p].fds, proc[p].want, FALSE)

ListWait(p) ==
    /\ p \in Pids /\ proc[p].st = "list"
    /\ Wait(p, "run", proc[p].cmd.right)

\* pipe(p): a pipe nobody holds an end of, named by a member of Pids.
MakePipe(p) ==
    /\ Runs(p, "PIPE")
    /\ \/ LET k == CHOOSE k \in Pids : Users(k) = {}
          IN /\ proc' = [proc EXCEPT ![p].st = "left", ![p].pipe = k,
                                     ![p].fds = Opened(Opened(@, R(k)), W(k))]
             /\ NoFault
       \/ Panics(p) /\ Fault

PipeEnds(p) ==
    Holding(proc[p].fds, R(proc[p].pipe)) \cup Holding(proc[p].fds, W(proc[p].pipe))

PlumbLeak(p, fd, end) ==                                      \* mutant
    LET fds == Opened(Close(proc[p].fds, {fd}), end)
    IN Close(fds, Holding(proc[p].fds, R(proc[p].pipe)))
\* close(fd); dup(end); close(p[0]); close(p[1])
Plumb(p, fd, end) ==
    LET fds == Opened(Close(proc[p].fds, {fd}), end)
    IN Close(fds, PipeEnds(p))

ForkLeft(p) ==
    /\ p \in Pids /\ proc[p].st = "left"
    /\ Fork(p, "right", proc[p].cmd.left, Plumb(p, 1, W(proc[p].pipe)),
            <<proc[p].want[1], W(proc[p].pipe)>>, FALSE)

ForkRight(p) ==
    /\ p \in Pids /\ proc[p].st = "right"
    /\ Fork(p, "close", proc[p].cmd.right, Plumb(p, 0, R(proc[p].pipe)),
            <<R(proc[p].pipe), proc[p].want[2]>>, FALSE)

ParentClosesRead(p) == Holding(proc[p].fds, R(proc[p].pipe))             \* mutant
ParentCloses(p) == PipeEnds(p)

ClosePipe(p) ==
    /\ p \in Pids /\ proc[p].st = "close"
    /\ proc' = [proc EXCEPT ![p].st = "wait1",
                            ![p].fds = Close(@, ParentCloses(p))]
    /\ NoFault

PipeWaitOnce(p) ==                                            \* mutant
    p \in Pids /\ proc[p].st = "wait1" /\ Wait(p, "finish", proc[p].cmd)
PipeWait(p) ==
    /\ p \in Pids
    /\ \/ proc[p].st = "wait1" /\ Wait(p, "wait2", proc[p].cmd)
       \/ proc[p].st = "wait2" /\ Wait(p, "finish", proc[p].cmd)

Finish(p) ==
    /\ p \in Pids /\ proc[p].st = "finish"
    /\ Panics(p) /\ NoFault

Back(p) ==
    /\ Runs(p, "BACK")
    /\ Fork(p, "finish", proc[p].cmd.cmd, proc[p].fds, proc[p].want, TRUE)

\* The program's read() returns 0 when no process holds the write end.
ProgramEnds(p) ==
    /\ p \in Pids /\ proc[p].st = "program"
    /\ \A q \in Pids : proc[p].fds[0] = R(q) => Writers(q) = {}
    /\ Panics(p) /\ NoFault

\* init: reap an orphan; start the shell again when it is the one reaped.
InitReap ==
    /\ \E q \in Children(Init1) :
          /\ proc[q].st = "zombie"
          /\ proc' = [proc EXCEPT ![q] = IF q = Shell THEN Booted(0 .. 2) ELSE Absent]
    /\ NoFault

RunStep(p) ==
    \/ BadLine(p) \/ Exec(p) \/ Redir(p) \/ List(p) \/ ListWait(p)
    \/ MakePipe(p) \/ ForkLeft(p) \/ ForkRight(p) \/ ClosePipe(p)
    \/ PipeWait(p) \/ Finish(p) \/ Back(p) \/ ProgramEnds(p)

\* opens: the descriptors main() may find open.
runInit(opens) ==
    /\ \E open \in opens :
          proc = [p \in Pids \cup {Shell} |->
                    IF p \in Pids THEN Absent ELSE Booted(open)]
    /\ lines = 0 /\ faults = 0 /\ spoiled = FALSE

runNext ==
    \/ Console3 \/ Cd \/ MainFork \/ MainWait \/ Eof \/ InitReap
    \/ \E s \in Lines : ReadLine(s)
    \/ \E p \in Pids : RunStep(p)

-----------------------------------------------------------------------------
(* However pipes, blocks and redirections are nested, a program is exec'd  *)
(* with just descriptors 0, 1 and 2, the first two the ones its place in   *)
(* the line asks for: the close()/open() and close()/dup() pairs of        *)
(* runcmd() (sh.c:83-119) rely on the lowest free descriptor.              *)
ExecDescriptors ==
    \A p \in Pids : proc[p].st = "program" =>
        /\ FreeFds(proc[p].fds) = Fd \ (0 .. 2)
        /\ <<proc[p].fds[0], proc[p].fds[1]>> = proc[p].want
        /\ proc[p].fds[2] = Tty

(* When the shell prompts again every process of the line that is not      *)
(* under an & is gone, although each wait(0) (sh.c:97, 121, 170) takes any *)
(* child: background children are always someone else's (no call failing). *)
PromptAfterForeground ==
    proc[Shell].st = "prompt" /\ ~spoiled =>
        \A p \in Pids : Live(p) => proc[p].back

(* Every line ends and the shell prompts again (or is started anew by      *)
(* init), whichever calls fail: no pipeline waits for an end of file that  *)
(* a forgotten write end (sh.c:108-120) keeps from coming.                 *)
PipelinesEnd == proc[Shell].st = "read" ~> proc[Shell].st = "prompt"
=============================================================================
