-------------------------------- MODULE Names -------------------------------
(***************************************************************************)
(* Names and inodes: the inode table of kernel/fs.c (iget, idup, ilock,      *)
(* iput, ialloc), directories and path walks, the table of open files        *)
(* (kernel/file.c) and the calls of kernel/sysfile.c that make, follow and   *)
(* remove names.                                                             *)
(*                                                                           *)
(* A step lies between two points where another process can get in: it takes *)
(* the inode locks it needs, and a lock that is kept over the end of the     *)
(* step is in it.lock.  A directory is a function from names to inode        *)
(* numbers, 0 for no entry, and a length: whether writei() finds a block for *)
(* an entry is the business of module Blocks, so dirlink() may fail where it *)
(* needs one.  The table has one entry per inode number, as iget() sees to;  *)
(* that the table may be full is left out.                                   *)
(***************************************************************************)
EXTENDS Integers, FiniteSets, Sequences

CONSTANTS
  Procs,
  Inums,     \* inode numbers 1 .. ninodes-1; 1 is the root
  Files,     \* entries of ftable
  NOFILE,
  PERBLOCK,  \* BSIZE / sizeof(struct dirent)
  Elems,     \* names of files and directories
  Calls,     \* [op |-> system call, path |-> path, new |-> link()'s second path]; a path
             \* is [abs |-> starts with '/', elems |-> a non-empty sequence of names]
  None

ASSUME NamesAssumption ==
  /\ 1 \in Inums /\ Inums \subseteq Nat \ {0} /\ NOFILE \in Nat
  /\ PERBLOCK \in Nat /\ PERBLOCK > 2
  /\ \A c \in Calls : /\ c.op \in {"open", "creat", "mkdir", "mknod", "unlink", "chdir", "link"}
                      /\ c.path.abs \in BOOLEAN /\ Len(c.path.elems) > 0
                      /\ (c.op = "link") = (c.new # None)

Root == 1
Dots == {".", ".."}

VARIABLES
  type, nlink, dir,   \* on disk: "free", "file", "dir", "dev"; link count; entries
  slots,              \* on disk: size / sizeof(struct dirent) of a directory
  it,                 \* the inode table: ref, valid and lock of each inode
  ftab,               \* the open files: ref and ip
  ofile, cwd,         \* of each process
  ps,                 \* of each process: its place and its local variables
  panicked,           \* the process that called panic()
  stray,              \* history: see NoteStray
  lost                \* history: inodes without links that nothing will free, see Reaped and Crash

diskVars == <<type, nlink, dir, slots>>
vars == <<diskVars, it, ftab, ofile, cwd, ps, panicked, stray, lost>>

NoEntries == [e \in Elems \cup Dots |-> 0]
Fresh == [pc |-> "idle", op |-> None, cur |-> 0, rest |-> <<>>, tgt |-> 0,
          new |-> None, dead |-> 0, cont |-> None, up |-> 0]

DotsOnly(i, parent) == [NoEntries EXCEPT !["."] = i, ![".."] = parent]

\* mkfs: an empty root directory, whose size is rounded up.  userinit() gives init the root as its cwd.
Init ==
  /\ type = [i \in Inums |-> IF i = Root THEN "dir" ELSE "free"]
  /\ nlink = [i \in Inums |-> IF i = Root THEN 1 ELSE 0]
  /\ dir = [i \in Inums |-> IF i = Root THEN DotsOnly(Root, Root) ELSE NoEntries]
  /\ slots = [i \in Inums |-> IF i = Root THEN (2 \div PERBLOCK + 1) * PERBLOCK ELSE 0]
  /\ cwd = [p \in Procs |-> Root]
  /\ it = [ref |-> [i \in Inums |-> IF i = Root THEN Cardinality(Procs) ELSE 0],
           valid |-> [i \in Inums |-> FALSE], lock |-> [i \in Inums |-> None]]
  /\ ftab = [f \in Files |-> [ref |-> 0, ip |-> 0]]
  /\ ofile = [p \in Procs |-> [d \in 1 .. NOFILE |-> None]]
  /\ ps = [p \in Procs |-> Fresh]
  /\ panicked = None /\ stray = {} /\ lost = {}

-----------------------------------------------------------------------------
(* The inode table. *)

\* iget() and idup(): a new entry is not valid, one that is in the table stays.
iget(t, i) == [t EXCEPT !.ref[i] = @ + 1, !.valid[i] = @ /\ t.ref[i] > 0]

\* ilock(), which reads the inode if it has to; panic("ilock: no type").
CanLock(i) == it.lock[i] = None /\ (it.valid[i] \/ type[i] # "free")
ilock(t, i, p) == [t EXCEPT !.lock[i] = p, !.valid[i] = TRUE]
iunlock(t, i) == [t EXCEPT !.lock[i] = None]
\* ilock() and iunlock() within a step.
Seen(t, i) == [t EXCEPT !.valid[i] = TRUE]

Set(p, s) == ps' = [ps EXCEPT ![p] = IF s.pc = "idle" THEN Fresh ELSE s]

\* iput() of an unlocked inode, then on with s.  The last holder of an inode without
\* links locks it and goes on to free it.
DyingLinked(t, i) == t.ref[i] = 1 /\ t.valid[i]  \* mutant: nlink is not looked at
DyingStale(t, i) == t.ref[i] = 1 /\ t.valid[i] /\ nlink[i] = 0  \* mutant: nlink before the call changed it
Dying(t, i) == t.ref[i] = 1 /\ t.valid[i] /\ nlink'[i] = 0
iput(p, t, s, i) ==
  IF Dying(t, i)
  THEN it' = ilock(t, i, p) /\ Set(p, [s EXCEPT !.pc = "reap", !.dead = i, !.cont = s.pc])
  ELSE it' = [t EXCEPT !.ref[i] = @ - 1] /\ Set(p, s)

\* itrunc(), ip->type = 0, iupdate(); the entry is dead before its lock is free.
Reap(p) ==
  LET i == ps[p].dead
  IN  /\ ps[p].pc = "reap"
      /\ type' = [type EXCEPT ![i] = "free"] /\ dir' = [dir EXCEPT ![i] = NoEntries]
      /\ slots' = [slots EXCEPT ![i] = 0]
      /\ it' = [it EXCEPT !.lock[i] = None, !.valid[i] = FALSE]
      /\ ps' = [ps EXCEPT ![p].pc = "reaped"]
      /\ stray' = stray \ {i}
      /\ UNCHANGED <<nlink, ftab, ofile, cwd, lost>>

\* iput() takes itable.lock again; on with the call.  The inode may have been
\* allocated again meanwhile, by a call that dropped its reference without freeing it
\* because this one was still there.
Reaped(p) ==
  LET i == ps[p].dead
  IN  /\ ps[p].pc = "reaped"
      /\ it' = [it EXCEPT !.ref[i] = @ - 1]
      /\ lost' = IF it.ref[i] = 1 /\ type[i] # "free" /\ nlink[i] = 0
                 THEN lost \cup {<<i, "race">>} ELSE lost
      /\ Set(p, [ps[p] EXCEPT !.pc = ps[p].cont, !.dead = 0, !.cont = None])
      /\ UNCHANGED <<diskVars, ftab, ofile, cwd, stray>>

-----------------------------------------------------------------------------
(* Calls, and namex(): one directory at a time. *)

\* Calls that want the parent directory (nameiparent) and the last name.
Parent(op) == op \in {"creat", "mkdir", "mknod", "unlink", "link2"}

Start(p, t, s, x) ==
  LET from == IF x.abs THEN Root ELSE cwd[p]
  IN  it' = iget(t, from) /\ Set(p, [s EXCEPT !.pc = "walk", !.cur = from, !.rest = x.elems])

Call(p, c) ==
  /\ ps[p].pc = "idle"
  /\ Start(p, it, [Fresh EXCEPT !.op = c.op, !.new = c.new], c.path)
  /\ UNCHANGED <<diskVars, ftab, ofile, cwd, stray, lost>>

\* The end of a walk, or of a call, that fails: link() has to undo its nlink++.
Fail(s) == IF s.op = "link2" THEN [s EXCEPT !.pc = "undo", !.cur = 0, !.rest = <<>>] ELSE Fresh

Walk(p) ==
  LET s == ps[p]
      next == dir[s.cur][Head(s.rest)]
      t == Seen(it, s.cur)
      last == Len(s.rest) = 1
  IN  /\ s.pc = "walk" /\ CanLock(s.cur) /\ UNCHANGED diskVars
      /\ IF type[s.cur] = "dir" /\ last /\ Parent(s.op)
         THEN it' = t /\ Set(p, [s EXCEPT !.pc = "parent"])
         ELSE IF type[s.cur] # "dir" \/ next = 0
         THEN iput(p, t, Fail(s), s.cur)
         ELSE iput(p, iget(t, next),
                   [s EXCEPT !.pc = IF last THEN "got" ELSE "walk", !.cur = next, !.rest = Tail(@),
                             !.up = IF Head(s.rest) = ".." /\ nlink[s.cur] = 0 THEN next ELSE 0],
                   s.cur)
      /\ UNCHANGED <<ftab, ofile, cwd, stray, lost>>

\* History.  Nothing keeps create() and link() from putting a name into a directory
\* that has been removed but is still somebody's cwd: such a name vanishes with the
\* directory, and a directory made there keeps its parent alive for good.
NoteStray(dp, ip) == stray' = IF nlink[dp] = 0 \/ dp \in stray THEN stray \cup {dp, ip} ELSE stray

\* dirlink() cannot add a name that is there.  It takes the place of a removed entry or
\* makes the directory longer, and only then may need a block, which it may not get.
Present(dp, e) == dir[dp][e] # 0
NoHole(dp) == slots[dp] = Cardinality({e \in Elems \cup Dots : Present(dp, e)})
NeedsBlock(dp) == NoHole(dp) /\ slots[dp] % PERBLOCK = 0
Longer(dp) == IF NoHole(dp) THEN slots[dp] + 1 ELSE slots[dp]

-----------------------------------------------------------------------------
(* open() of an existing file, chdir(). *)

\* filealloc() and fdalloc(), then the inode is handed to the open file.
FreeFiles == {f \in Files : ftab[f].ref = 0}
FreeFd(p) == {d \in 1 .. NOFILE : ofile[p][d] = None}
Lowest(S) == CHOOSE x \in S : \A y \in S : x <= y

\* The end of open(): ip is locked in t.  A directory cannot be opened for writing, nor
\* a device without a driver.
OpenEnd(p, t, i) ==
  \/ /\ FreeFiles = {} \/ FreeFd(p) = {} \/ type[i] # "file"
     /\ iput(p, iunlock(t, i), Fresh, i) /\ UNCHANGED <<ftab, ofile>>
  \/ \E f \in FreeFiles :
       /\ FreeFd(p) # {}
       /\ ftab' = [ftab EXCEPT ![f] = [ref |-> 1, ip |-> i]]
       /\ ofile' = [ofile EXCEPT ![p][Lowest(FreeFd(p))] = f]
       /\ it' = iunlock(t, i) /\ Set(p, Fresh)

Open(p) ==
  LET i == ps[p].cur
  IN  /\ ps[p].pc = "got" /\ ps[p].op = "open" /\ CanLock(i) /\ UNCHANGED diskVars
      /\ OpenEnd(p, Seen(it, i), i)
      /\ UNCHANGED <<cwd, stray, lost>>

\* iput(p->cwd); p->cwd = ip, or iput(ip).
DroppedNew(p, i) == i  \* mutant: the new directory is put
Dropped(p, i) == IF type[i] = "dir" THEN cwd[p] ELSE i
Chdir(p) ==
  LET i == ps[p].cur
  IN  /\ ps[p].pc = "got" /\ ps[p].op = "chdir" /\ CanLock(i) /\ UNCHANGED diskVars
      /\ iput(p, Seen(it, i), Fail(ps[p]), Dropped(p, i))
      /\ cwd' = [cwd EXCEPT ![p] = IF type[i] = "dir" THEN i ELSE @]
      /\ UNCHANGED <<ftab, ofile, stray, lost>>

-----------------------------------------------------------------------------
(* create(), for open(O_CREATE), mkdir() and mknod() *)

NewType == [creat |-> "file", mkdir |-> "dir", mknod |-> "dev"]

\* The directory is locked, the name looked up, and an inode allocated.
Create(p) ==
  LET s == ps[p]
      dp == s.cur
      e == Head(s.rest)
      t == Seen(it, dp)
      free == {i \in Inums : type[i] = "free"}
  IN  /\ s.pc = "parent" /\ s.op \in DOMAIN NewType /\ CanLock(dp) /\ UNCHANGED <<nlink, dir, slots>>
      /\ IF Present(dp, e)
         THEN iput(p, iget(t, dir[dp][e]), [s EXCEPT !.pc = "found", !.cur = 0, !.tgt = dir[dp][e]], dp)
              /\ UNCHANGED type
         ELSE IF free = {} THEN iput(p, t, Fail(s), dp) /\ UNCHANGED type
         ELSE /\ type' = [type EXCEPT ![Lowest(free)] = NewType[s.op]]
              /\ it' = iget(ilock(it, dp, p), Lowest(free))
              /\ Set(p, [s EXCEPT !.pc = "newchild", !.tgt = Lowest(free)])
      /\ UNCHANGED <<ftab, ofile, cwd, stray, lost>>

\* It exists: fine for open(O_CREATE) unless it is a directory.
Found(p) ==
  LET i == ps[p].tgt
  IN  /\ ps[p].pc = "found" /\ CanLock(i) /\ UNCHANGED diskVars
      /\ IF ps[p].op = "creat" /\ type[i] # "dir" THEN OpenEnd(p, Seen(it, i), i)
         ELSE iput(p, Seen(it, i), Fail(ps[p]), i) /\ UNCHANGED <<ftab, ofile>>
      /\ UNCHANGED <<cwd, stray, lost>>

\* The new inode gets its link and its name.  The parent's nlink counts the "..".
ParentLinksNot(dp, isdir) == nlink[dp]  \* mutant: ".." is not counted
ParentLinks(dp, isdir) == IF isdir THEN nlink[dp] + 1 ELSE nlink[dp]
NewChild(p) ==
  LET s == ps[p]
      dp == s.cur
      i == s.tgt
      isdir == s.op = "mkdir"
  IN  /\ s.pc = "newchild" /\ CanLock(i) /\ UNCHANGED type
      /\ nlink' = [nlink EXCEPT ![i] = 1, ![dp] = ParentLinks(dp, isdir)]
      /\ dir' = [dir EXCEPT ![dp][Head(s.rest)] = i,
                            ![i] = IF isdir THEN DotsOnly(i, dp) ELSE @]
      /\ slots' = [slots EXCEPT ![dp] = Longer(dp), ![i] = IF isdir THEN 2 ELSE @]
      /\ iput(p, iunlock(ilock(it, i, p), dp), [s EXCEPT !.pc = "created", !.cur = 0], dp)
      /\ NoteStray(dp, i)
      /\ UNCHANGED <<ftab, ofile, cwd, lost>>

\* fail: a new directory finds no block for its ".", or the name needs one in dp.
\* nlink = 0, iunlockput(ip), iunlockput(dp).
NewChildFails(p) ==
  LET s == ps[p]
      i == s.tgt
  IN  /\ s.pc = "newchild" /\ CanLock(i)
      /\ \/ s.op = "mkdir" /\ UNCHANGED <<dir, slots>>
         \/ /\ NeedsBlock(s.cur)
            /\ IF s.op = "mkdir" THEN /\ dir' = [dir EXCEPT ![i] = DotsOnly(i, s.cur)]
                                     /\ slots' = [slots EXCEPT ![i] = 2]
               ELSE UNCHANGED <<dir, slots>>
      /\ nlink' = [nlink EXCEPT ![i] = 0] /\ UNCHANGED type
      /\ iput(p, Seen(it, i), [s EXCEPT !.pc = "putdp", !.tgt = 0], i)
      /\ UNCHANGED <<ftab, ofile, cwd, stray, lost>>

PutDp(p) ==
  /\ ps[p].pc = "putdp" /\ UNCHANGED diskVars
  /\ iput(p, iunlock(it, ps[p].cur), Fail(ps[p]), ps[p].cur)
  /\ UNCHANGED <<ftab, ofile, cwd, stray, lost>>

Created(p) ==
  LET i == ps[p].tgt
  IN  /\ ps[p].pc = "created" /\ UNCHANGED diskVars
      /\ IF ps[p].op = "creat" THEN OpenEnd(p, it, i)
         ELSE iput(p, iunlock(it, i), Fail(ps[p]), i) /\ UNCHANGED <<ftab, ofile>>
      /\ UNCHANGED <<cwd, stray, lost>>

-----------------------------------------------------------------------------
(* unlink(): the directory, then the entry, are locked. *)

Unlink(p) ==
  LET s == ps[p]
      dp == s.cur
      e == Head(s.rest)
  IN  /\ s.pc = "parent" /\ s.op = "unlink" /\ CanLock(dp) /\ UNCHANGED diskVars
      /\ IF e \in Dots \/ ~Present(dp, e)
         THEN iput(p, Seen(it, dp), Fail(s), dp)
         ELSE /\ it' = iget(ilock(it, dp, p), dir[dp][e])
              /\ Set(p, [s EXCEPT !.pc = "child", !.tgt = dir[dp][e]])
      /\ UNCHANGED <<ftab, ofile, cwd, stray, lost>>

\* isdirempty()
Empty(i) == \A e \in Elems : dir[i][e] = 0

\* Not a directory, or an empty one: the name goes; dp is let go, ip stays locked.
Unname(p) ==
  LET s == ps[p]
      dp == s.cur
      i == s.tgt
  IN  /\ s.pc = "child" /\ CanLock(i)
      /\ type[i] = "dir" => Empty(i)
      /\ dir' = [dir EXCEPT ![dp][Head(s.rest)] = 0]
      /\ nlink' = [nlink EXCEPT ![dp] = IF type[i] = "dir" THEN @ - 1 ELSE @]
      /\ iput(p, iunlock(ilock(it, i, p), dp), [s EXCEPT !.pc = "unnamed", !.cur = 0], dp)
      /\ UNCHANGED <<type, slots, ftab, ofile, cwd, stray, lost>>

NotEmpty(p) ==
  LET s == ps[p]
  IN  /\ s.pc = "child" /\ CanLock(s.tgt) /\ type[s.tgt] = "dir" /\ ~Empty(s.tgt)
      /\ UNCHANGED diskVars
      /\ iput(p, Seen(it, s.tgt), [s EXCEPT !.pc = "putdp", !.tgt = 0], s.tgt)
      /\ UNCHANGED <<ftab, ofile, cwd, stray, lost>>

Unnamed(p) ==
  LET i == ps[p].tgt
  IN  /\ ps[p].pc = "unnamed"
      /\ nlink' = [nlink EXCEPT ![i] = @ - 1] /\ UNCHANGED <<type, dir, slots>>
      /\ iput(p, iunlock(it, i), Fail(ps[p]), i)
      /\ UNCHANGED <<ftab, ofile, cwd, stray, lost>>

-----------------------------------------------------------------------------
(* link(): nlink first, then the name, with no lock held in between. *)

LinkOld(p) ==
  LET s == ps[p]
      i == s.cur
  IN  /\ s.pc = "got" /\ s.op = "link" /\ CanLock(i) /\ UNCHANGED <<type, dir, slots>>
      /\ IF type[i] = "dir" THEN UNCHANGED nlink /\ iput(p, Seen(it, i), Fail(s), i)
         ELSE /\ nlink' = [nlink EXCEPT ![i] = @ + 1]
              /\ Start(p, Seen(it, i), [s EXCEPT !.op = "link2", !.tgt = i, !.new = None, !.up = 0], s.new)
      /\ UNCHANGED <<ftab, ofile, cwd, stray, lost>>

LinkNew(p) ==
  LET s == ps[p]
      dp == s.cur
      e == Head(s.rest)
  IN  /\ s.pc = "parent" /\ s.op = "link2" /\ CanLock(dp) /\ ~Present(dp, e)
      /\ dir' = [dir EXCEPT ![dp][e] = s.tgt] /\ slots' = [slots EXCEPT ![dp] = Longer(dp)]
      /\ UNCHANGED <<type, nlink>>
      /\ iput(p, Seen(it, dp), [s EXCEPT !.pc = "linked", !.cur = 0], dp)
      /\ NoteStray(dp, s.tgt)
      /\ UNCHANGED <<ftab, ofile, cwd, lost>>

\* The name is taken, or dirlink() finds no room.
LinkFails(p) ==
  LET dp == ps[p].cur
  IN  /\ ps[p].pc = "parent" /\ ps[p].op = "link2" /\ CanLock(dp) /\ UNCHANGED diskVars
      /\ Present(dp, Head(ps[p].rest)) \/ NeedsBlock(dp)
      /\ iput(p, Seen(it, dp), Fail(ps[p]), dp)
      /\ UNCHANGED <<ftab, ofile, cwd, stray, lost>>

Linked(p) ==
  /\ ps[p].pc = "linked" /\ UNCHANGED diskVars
  /\ iput(p, it, Fresh, ps[p].tgt)
  /\ UNCHANGED <<ftab, ofile, cwd, stray, lost>>

\* bad:
UndoLinksNot(i) == nlink[i]  \* mutant: the link count is not put back
UndoLinks(i) == nlink[i] - 1
LinkUndo(p) ==
  LET i == ps[p].tgt
  IN  /\ ps[p].pc = "undo" /\ CanLock(i)
      /\ nlink' = [nlink EXCEPT ![i] = UndoLinks(i)] /\ UNCHANGED <<type, dir, slots>>
      /\ iput(p, Seen(it, i), Fresh, i)
      /\ UNCHANGED <<ftab, ofile, cwd, stray, lost>>

-----------------------------------------------------------------------------
(* Descriptors: dup(), and close() with fileclose(). *)

Dup(p, d) ==
  /\ ps[p].pc = "idle" /\ ofile[p][d] # None /\ FreeFd(p) # {}
  /\ ofile' = [ofile EXCEPT ![p][Lowest(FreeFd(p))] = ofile[p][d]]
  /\ ftab' = [ftab EXCEPT ![ofile[p][d]].ref = @ + 1]
  /\ UNCHANGED <<diskVars, it, cwd, ps, stray, lost>>

\* The last close forgets the file under ftable.lock and puts the inode after it.
Close(p, d) ==
  LET f == ofile[p][d]
  IN  /\ ps[p].pc = "idle" /\ f # None
      /\ ofile' = [ofile EXCEPT ![p][d] = None]
      /\ IF ftab[f].ref > 1
         THEN ftab' = [ftab EXCEPT ![f].ref = @ - 1] /\ UNCHANGED ps
         ELSE /\ ftab' = [ftab EXCEPT ![f] = [ref |-> 0, ip |-> 0]]
              /\ Set(p, [Fresh EXCEPT !.pc = "linked", !.tgt = ftab[f].ip])
      /\ UNCHANGED <<diskVars, it, cwd, stray, lost>>

\* Power loss.  What is on disk is the result of whole calls (module Transactions),
\* so it is enough to look at the moments when nobody is in the middle of one.
Crash ==
  /\ \A p \in Procs : ps[p].pc = "idle"
  /\ lost' = lost \cup {<<i, "crash">> : i \in {j \in Inums : type[j] # "free" /\ nlink[j] = 0}}
  /\ it' = [ref |-> [i \in Inums |-> IF i = Root THEN Cardinality(Procs) ELSE 0],
            valid |-> [i \in Inums |-> FALSE], lock |-> [i \in Inums |-> None]]
  /\ ftab' = [f \in Files |-> [ref |-> 0, ip |-> 0]]
  /\ ofile' = [p \in Procs |-> [d \in 1 .. NOFILE |-> None]]
  /\ cwd' = [p \in Procs |-> Root]
  /\ UNCHANGED <<diskVars, ps, stray>>

Step(p) == \/ Reap(p) \/ Reaped(p) \/ Walk(p) \/ Open(p) \/ Chdir(p)
           \/ Create(p) \/ Found(p) \/ NewChild(p) \/ NewChildFails(p) \/ PutDp(p) \/ Created(p)
           \/ Unlink(p) \/ Unname(p) \/ NotEmpty(p) \/ Unnamed(p)
           \/ LinkOld(p) \/ LinkNew(p) \/ LinkFails(p) \/ Linked(p) \/ LinkUndo(p)

\* The inode a process is about to lock, and the panics that may follow: "ilock: no
\* type", "dirlookup not DIR" and "unlink: nlink < 1".
Wants(p) == CASE ps[p].pc \in {"walk", "got", "parent"} -> ps[p].cur
              [] ps[p].pc \in {"child", "newchild", "found", "undo"} -> ps[p].tgt
              [] OTHER -> 0
Panics(p) ==
  LET i == Wants(p)
  IN  /\ i # 0 /\ it.lock[i] = None
      /\ \/ ~it.valid[i] /\ type[i] = "free"
         \/ ps[p].pc = "parent" /\ type[i] # "dir"
         \/ ps[p].pc = "child" /\ nlink[i] = 0

Panic(p) ==
  /\ Panics(p) /\ panicked' = p
  /\ UNCHANGED <<diskVars, it, ftab, ofile, cwd, ps, stray, lost>>

\* panic() stops the kernel.
Halted == panicked # None /\ UNCHANGED vars

Running(C) ==
  \/ Crash
  \/ \E p \in Procs : \/ ~Panics(p) /\ Step(p)
                      \/ \E d \in 1 .. NOFILE : Dup(p, d) \/ Close(p, d)
                      \/ \E c \in C : Call(p, c)

\* With system calls of the set C.
Steps(C) ==
  \/ panicked = None /\ Running(C) /\ UNCHANGED panicked
  \/ panicked = None /\ \E p \in Procs : Panic(p)
  \/ Halted

Next == Steps(Calls)

Spec == Init /\ [][Next]_vars

-----------------------------------------------------------------------------
(* Properties *)

\* Every variable keeps its type.
TypeOK ==
  /\ type \in [Inums -> {"free", "file", "dir", "dev"}] /\ nlink \in [Inums -> Nat]
  /\ dir \in [Inums -> [Elems \cup Dots -> Inums \cup {0}]] /\ slots \in [Inums -> Nat]
  /\ it.ref \in [Inums -> Nat] /\ it.valid \in [Inums -> BOOLEAN] /\ it.lock \in [Inums -> Procs \cup {None}]
  /\ ftab \in [Files -> [ref : Nat, ip : Inums \cup {0}]] /\ cwd \in [Procs -> Inums]
  /\ ofile \in [Procs -> [1 .. NOFILE -> Files \cup {None}]]

\* An inode's link count is the number of names it has, plus one for each directory
\* named in it, plus one for each link() or unlink() that is half way with it.  Inodes
\* that got a name in a removed directory, and that directory, are not covered.
Links(i) ==
  LET named == {x \in Inums \X Elems : dir[x[1]][x[2]] = i}
      below == {e \in Elems : dir[i][e] # 0 /\ type[dir[i][e]] = "dir"}
      linking == {p \in Procs : /\ ps[p].tgt = i /\ ps[p].op = "link2"
                                  /\ "linked" \notin {ps[p].pc, ps[p].cont}}
      unlinking == {p \in Procs : ps[p].tgt = i /\ "unnamed" \in {ps[p].pc, ps[p].cont}}
  IN  Cardinality(named) + Cardinality(below) + Cardinality(linking \cup unlinking) + (IF i = Root THEN 1 ELSE 0)
LinksExact == \A i \in Inums \ stray : nlink[i] = Links(i)

\* An inode's reference count is the number of pointers to it: current directories,
\* open files and the locals of system calls.  Nothing is counted twice or forgotten on
\* any error path of open, create, unlink, link and chdir.
RefsExact ==
  \A i \in Inums :
    it.ref[i] = Cardinality({p \in Procs : cwd[p] = i}) + Cardinality({f \in Files : ftab[f].ip = i})
                + Cardinality({x \in Procs \X {"cur", "tgt", "dead"} : ps[x[1]][x[2]] = i})

\* No name, open file or current directory leads to an inode that has been freed, and
\* so perhaps reused for another file; ".." of a directory that has a name is the
\* directory the name is in.
NoDanglingName ==
  /\ \A d \in Inums, e \in Elems : Present(d, e) =>
       /\ type[dir[d][e]] # "free"
       /\ type[dir[d][e]] = "dir" => dir[dir[d][e]][".."] = d
  /\ \A p \in Procs : type[cwd[p]] = "dir"
  /\ \A f \in Files : ftab[f].ref > 0 => type[ftab[f].ip] # "free"

\* An inode without links is freed when its last pointer goes, but for two cases: a
\* crash, as nothing looks for inodes that were unlinked while they were open, and the
\* race in iput(), see Reaped.  An inode whose only name vanished with a removed directory
\* still has its link, and is not covered.
Unreachable(i) == type[i] # "free" /\ nlink[i] = 0 /\ it.ref[i] = 0
NoLeak == \A i \in Inums : Unreachable(i) => lost \cap {<<i, "crash">>, <<i, "race">>} # {}

\* "If that was the last reference and the inode has no links to it, free the inode"
\* (the comment on iput(), fs.c:332): only a crash leaves an inode behind.
IputFrees == \A i \in Inums : Unreachable(i) => <<i, "crash">> \in lost

\* A process finds a free inode, a directory that is none, or a file whose last name is
\* gone already, only where it went up from a removed directory: ".." of such a
\* directory does not keep the parent.
PanicsOnlyUp == panicked # None => Wants(panicked) = ps[panicked].up

\* The kernel does not panic: what ilock() asserts (fs.c:315), and dirlookup() and
\* unlink() after it, is so wherever a walk leads.  It does not hold with ".." out of a
\* removed directory, and is not checked; PanicsOnlyUp says what does.
NoPanic == panicked = None

\* The two counts of an inode, of names on disk and of pointers in memory, are
\* exact on every path of create(), link(), unlink(), open(), namex() and iput().
CountsExact == TypeOK /\ LinksExact /\ RefsExact

\* Whatever a name, an open file or a walk leads to is an inode that is in use, but
\* for ".." of a removed directory.
NamesLead == NoDanglingName /\ PanicsOnlyUp
=============================================================================
