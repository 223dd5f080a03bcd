-------------------------------- MODULE Move -------------------------------
(***************************************************************************)
(* mv and cp (user/mv.c, user/cp.c): move(), moveDir() and moveFile() of   *)
(* user/utils.c, which walk a tree and give every file its new name with   *)
(* link() before they take the old one away with unlink().  The file       *)
(* system is the set of names it has; every call may fail, and malloc(),   *)
(* whose null pointer the program uses unseen.  A name is the sequence of  *)
(* its elements (module Args has the text) ; joinpath() has room, since    *)
(* the kernel refuses a path of MAXPATH bytes long before it gets to 700.  *)
(***************************************************************************)
EXTENDS Naturals, Sequences, FiniteSets

CONSTANTS Tree,         \* the names at the start: path -> "dir" or a file
          MVFAULTS      \* bound: calls that fail without cause

VARIABLES names,    \* path -> "dir" or a file
          stack,    \* the calls in progress, innermost first
          ret,      \* result of the call that just returned, "none" before
          job,      \* the arguments: source, destination, keep (cp) or not
          mvFaults, \* calls failed so far
          torn,     \* history: a call that was to undo something failed
          cut       \* history: a read() of a directory failed

mvVars == <<names, stack, ret, job, mvFaults, torn, cut>>

keep == job.keep
Is(p, kind) == p \in DOMAIN names /\ (names[p] = "dir") = (kind = "dir")
InDir(p, d) == Len(p) = Len(d) + 1 /\ SubSeq(p, 1, Len(d)) = d
EntriesOf(d) == {p \in DOMAIN names : InDir(p, d)}
Last(p) == p[Len(p)]
Below(p, d) == Len(d) <= Len(p) /\ SubSeq(p, 1, Len(d)) = d

Add(p, x) == [q \in DOMAIN names \cup {p} |-> IF q = p THEN x ELSE names[q]]
Del(p) == [q \in DOMAIN names \ {p} |-> names[q]]

top == Head(stack)
Goto(pc) == stack' = <<[top EXCEPT !.pc = pc]>> \o Tail(stack) /\ UNCHANGED ret
Return(r) == stack' = Tail(stack) /\ ret' = r
Does(pc) == stack # <<>> /\ top.pc = pc /\ UNCHANGED job
Frame(pc, src, dst) == [pc |-> pc, src |-> src, dst |-> dst,
                        new |-> Append(dst, Last(src)), read |-> {}]

\* A call that can succeed does, or fails while faults are left.
Ok == UNCHANGED <<mvFaults, torn, cut>>
SystemFault == mvFaults < MVFAULTS /\ mvFaults' = mvFaults + 1 /\ UNCHANGED names
CallFails(undo) == SystemFault /\ torn' = (torn \/ undo) /\ UNCHANGED cut
mkdir(p) == p \notin DOMAIN names /\ names' = Add(p, "dir") /\ Ok
link(p, q) == Is(p, "file") /\ q \notin DOMAIN names /\ names' = Add(q, names[p]) /\ Ok
unlink(p) == p \in DOMAIN names /\ EntriesOf(p) = {} /\ names' = Del(p) /\ Ok
NotEmpty(p) == (EntriesOf(p) # {} /\ UNCHANGED names /\ Ok) \/ CallFails(FALSE)
NoName(p) == (p \in DOMAIN names /\ UNCHANGED names /\ Ok) \/ CallFails(FALSE)

\* malloc() returns 0: the write through it ends the program.
NoMemory == CallFails(FALSE) /\ stack' = <<>> /\ ret' = "killed"

-----------------------------------------------------------------------------
\* move(): dst has to be a directory that is not src or below it.
MoveCall ==
    /\ Does("move")
    /\ \/ /\ IF ~Is(top.dst, "dir") \/ Below(top.dst, top.src) THEN Return("fail")
             ELSE Goto(IF Is(top.src, "dir") THEN "mkdir" ELSE "link")
          /\ UNCHANGED names /\ Ok
       \/ /\ CallFails(FALSE)   \* in isdir(), which then says no
          /\ \/ Return("fail")
             \/ ~Below(top.dst, top.src) /\ Is(top.dst, "dir") /\ Goto("link")

\* moveDir()
Mkdir ==
    /\ Does("mkdir")
    /\ \/ mkdir(top.new) /\ Goto("open")
       \/ NoName(top.new) /\ Return("fail")
       \/ NoMemory

OpenDir ==
    /\ Does("open")
    /\ \/ Goto("next") /\ UNCHANGED names /\ Ok
       \/ Goto("undo") /\ CallFails(FALSE)

\* The entries come in the order of their slots, whichever that is.  A read()
\* that fails is taken for the end of the directory.
NextEntry ==
    /\ Does("next") /\ ret = "none"
    /\ \/ /\ \E p \in EntriesOf(top.src) \ top.read :
                stack' = <<Frame("move", p, top.new),
                           [top EXCEPT !.read = @ \cup {p}]>> \o Tail(stack)
          /\ UNCHANGED <<names, ret>> /\ Ok
       \/ /\ EntriesOf(top.src) \subseteq top.read
          /\ Goto("rmdir") /\ UNCHANGED names /\ Ok
       \/ SystemFault /\ cut' = TRUE /\ UNCHANGED torn /\ Goto("rmdir")
       \/ ~(EntriesOf(top.src) \subseteq top.read) /\ NoMemory

AfterEntryGoOn(r) == "next"                                   \* mutant
AfterEntry(r) == IF r = "ok" THEN "next" ELSE "undo"

EntryDone ==
    /\ Does("next") /\ ret # "none"
    /\ stack' = <<[top EXCEPT !.pc = AfterEntry(ret)]>> \o Tail(stack)
    /\ ret' = "none"
    /\ UNCHANGED names /\ Ok

\* unlink(new_dst) removes the directory made, if nothing is in it yet.
UndoDir ==
    /\ Does("undo") /\ Return("fail")
    /\ \/ unlink(top.new)
       \/ NotEmpty(top.new)

Rmdir ==
    /\ Does("rmdir")
    /\ \/ keep /\ Return("ok") /\ UNCHANGED names /\ Ok
       \/ ~keep /\ unlink(top.src) /\ Return("ok")
       \/ ~keep /\ NotEmpty(top.src) /\ Return("fail")

\* moveFile()
AfterLinkFailsOn == Goto("unlink")                            \* mutant
AfterLinkFails == Return("fail")

LinkFile ==
    /\ Does("link")
    /\ \/ link(top.src, top.new) /\ (IF keep THEN Return("ok") ELSE Goto("unlink"))
       \/ NoName(top.new) /\ AfterLinkFails
       \/ Is(top.src, "dir") /\ UNCHANGED names /\ Ok /\ AfterLinkFails
       \/ NoMemory

AfterUnlinkDone == Return("fail")                              \* mutant
AfterUnlinkFails == Goto("rollback")

UnlinkFile ==
    /\ Does("unlink")
    /\ \/ unlink(top.src) /\ Return("ok")
       \/ CallFails(FALSE) /\ AfterUnlinkFails

RollBack ==
    /\ Does("rollback") /\ Return("fail")
    /\ unlink(top.new) \/ CallFails(TRUE)

mvInit(jobs) ==
    /\ names = Tree /\ ret = "none" /\ mvFaults = 0 /\ torn = FALSE /\ cut = FALSE
    /\ job \in jobs
    /\ stack = <<Frame("move", job.src, job.dst)>>

mvNext ==
    \/ MoveCall \/ Mkdir \/ OpenDir \/ NextEntry \/ EntryDone \/ UndoDir
    \/ Rmdir \/ LinkFile \/ UnlinkFile \/ RollBack

-----------------------------------------------------------------------------
FileNames(f) == {p \in DOMAIN names : names[p] = f}
AllFiles == {Tree[p] : p \in DOMAIN Tree} \ {"dir"}

(* Wherever mv is stopped by a call or a malloc() that fails, each file    *)
(* has a name, in a directory that exists: moveFile() (utils.c:135-147)    *)
(* links before it unlinks, and no directory is removed that still has an  *)
(* entry.                                                                  *)
NoFileLost ==
    /\ \A f \in AllFiles : FileNames(f) # {}
    /\ \A p \in DOMAIN names : Len(p) > 1 => Is(SubSeq(p, 1, Len(p) - 1), "dir")

(* When mv ends, every file has as many names as before, unless the        *)
(* unlink that rolls a link back (utils.c:146) failed as well; cp leaves   *)
(* all the old names.                                                      *)
NamesCounted ==
    stack = <<>> =>
        /\ ~keep /\ ~torn => \A f \in AllFiles :
              Cardinality(FileNames(f)) = Cardinality({p \in DOMAIN Tree : Tree[p] = f})
        /\ keep => \A p \in DOMAIN Tree : p \in DOMAIN names /\ names[p] = Tree[p]

Moved(p) == job.dst \o SubSeq(p, Len(job.src), Len(p))

(* When mv's move() returns 0 the whole tree is under the destination,     *)
(* every file where it was below the source, and nothing is left of the    *)
(* source: entries that a failed read() hid make unlink(src) fail.  cp,    *)
(* which does not unlink, copies whole trees only if no read() of a        *)
(* directory failed (utils.c:89): otherwise it returns 0 with a part.      *)
SuccessIsComplete ==
    stack = <<>> /\ ret = "ok" /\ ~(keep /\ cut) =>
        \A p \in DOMAIN Tree : Below(p, job.src) =>
            /\ Moved(p) \in DOMAIN names /\ names[Moved(p)] = Tree[p]
            /\ ~keep => p \notin DOMAIN names
=============================================================================
