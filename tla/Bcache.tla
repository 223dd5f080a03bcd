------------------------------- MODULE Bcache -------------------------------
(***************************************************************************)
(* The buffer cache of kernel/bio.c: bget() with its two scans of the LRU    *)
(* list, bread(), bwrite(), brelse(), bpin() and bunpin(), used the way the  *)
(* file system and the log use them.  A process has one buffer at a time; it *)
(* reads it, or changes it and logs it (log_write() pins it until            *)
(* install_trans() has written it home).                                     *)
(*                                                                           *)
(* A step is a critical section of bcache.lock or of the buffer's sleeplock. *)
(* The disk transfer happens under the sleeplock and is one step.            *)
(***************************************************************************)
EXTENDS Integers, FiniteSets

CONSTANTS
  Procs,
  Blocks,
  Vals,      \* contents of a block
  NBUF,
  None

ASSUME BcacheAssumption ==
  /\ NBUF \in Nat \ {0} /\ IsFiniteSet(Procs)
  /\ None \notin Procs \cup Blocks \cup Vals \cup Int

Bufs == 1 .. NBUF

VARIABLES
  blockno, valid, refcnt, data,  \* fields of bcache.buf[]
  owner,      \* who holds b->lock
  list,       \* the buffers from head.next to head.prev
  disk,
  logged,     \* blocks in log.lh
  pc,         \* where each process is
  cur,        \* its buffer
  want,       \* the block it asked for
  panicked,   \* panic("bget: no buffers")
  latest,     \* history: what was last written to each block
  older       \* history: buffers whose last release, if any, was before this one's

vars == <<blockno, valid, refcnt, data, owner, list, disk, logged, pc, cur, want,
          panicked, latest, older>>
history == <<latest, older>>

Init ==
  /\ blockno = [b \in Bufs |-> None]
  /\ valid = [b \in Bufs |-> FALSE]
  /\ refcnt = [b \in Bufs |-> 0]
  /\ data = [b \in Bufs |-> None]
  /\ owner = [b \in Bufs |-> None]
  /\ list = [i \in Bufs |-> NBUF + 1 - i]
  /\ disk \in [Blocks -> Vals]
  /\ logged = {}
  /\ pc = [p \in Procs |-> "idle"]
  /\ cur = [p \in Procs |-> None]
  /\ want = [p \in Procs |-> None]
  /\ panicked = FALSE
  /\ latest = disk
  /\ older = [b \in Bufs |-> {}]

At(p, l) == pc[p] = l /\ ~panicked

\* Position i of the list holds a buffer bget()'s first scan stops at.
HitsValid(k, i) == blockno[list[i]] = k /\ valid[list[i]]  \* mutant: only if read
Hits(k, i) == blockno[list[i]] = k

\* The second scan, from the other end.
UnusedUnlocked(i) == owner[list[i]] = None  \* mutant: looks at the sleeplock
Unused(i) == refcnt[list[i]] = 0

BgetHit(p, k) ==
  /\ At(p, "idle")
  /\ \E i \in Bufs :
       /\ Hits(k, i) /\ \A j \in 1 .. i - 1 : ~Hits(k, j)
       /\ refcnt' = [refcnt EXCEPT ![list[i]] = @ + 1]
       /\ cur' = [cur EXCEPT ![p] = list[i]]
  /\ want' = [want EXCEPT ![p] = k]
  /\ pc' = [pc EXCEPT ![p] = "lock"]
  /\ UNCHANGED <<blockno, valid, data, owner, list, disk, logged, panicked, history>>

BgetRecycle(p, k) ==
  /\ At(p, "idle") /\ \A j \in Bufs : ~Hits(k, j)
  /\ \E i \in Bufs :
       /\ Unused(i) /\ \A j \in i + 1 .. NBUF : ~Unused(j)
       /\ blockno' = [blockno EXCEPT ![list[i]] = k]
       /\ valid' = [valid EXCEPT ![list[i]] = FALSE]
       /\ refcnt' = [refcnt EXCEPT ![list[i]] = 1]
       /\ cur' = [cur EXCEPT ![p] = list[i]]
  /\ want' = [want EXCEPT ![p] = k]
  /\ pc' = [pc EXCEPT ![p] = "lock"]
  /\ UNCHANGED <<data, owner, list, disk, logged, panicked, history>>

BgetPanic(p, k) ==
  /\ At(p, "idle") /\ \A j \in Bufs : ~Hits(k, j) /\ ~Unused(j)
  /\ panicked' = TRUE
  /\ UNCHANGED <<blockno, valid, refcnt, data, owner, list, disk, logged, pc, cur,
                 want, history>>

\* acquiresleep(&b->lock), and the rest of bread().
Bread(p) ==
  LET b == cur[p]
  IN  /\ At(p, "lock") /\ owner[b] = None
      /\ owner' = [owner EXCEPT ![b] = p]
      /\ IF valid[b] THEN UNCHANGED <<data, valid>>
         ELSE /\ data' = [data EXCEPT ![b] = disk[blockno[b]]]
              /\ valid' = [valid EXCEPT ![b] = TRUE]
      /\ pc' = [pc EXCEPT ![p] = "held"]
      /\ UNCHANGED <<blockno, refcnt, list, disk, logged, cur, want, panicked, history>>

\* bpin()
BpinNot(b) == refcnt  \* mutant: forgotten
Bpin(b) == [refcnt EXCEPT ![b] = @ + 1]

\* Change the contents and log_write(): a block not yet in the log is pinned.
LogWrite(p, v) ==
  LET b == cur[p]
  IN  /\ At(p, "held")
      /\ data' = [data EXCEPT ![b] = v]
      /\ latest' = [latest EXCEPT ![want[p]] = v]
      /\ refcnt' = IF blockno[b] \in logged THEN refcnt ELSE Bpin(b)
      /\ logged' = logged \cup {blockno[b]}
      /\ UNCHANGED <<blockno, valid, owner, list, disk, pc, cur, want, panicked, older>>

\* install_trans() has the buffer of a logged block: bwrite() ...
Bwrite(p) ==
  /\ At(p, "held") /\ blockno[cur[p]] \in logged
  /\ disk' = [disk EXCEPT ![blockno[cur[p]]] = data[cur[p]]]
  /\ pc' = [pc EXCEPT ![p] = "written"]
  /\ UNCHANGED <<blockno, valid, refcnt, data, owner, list, logged, cur, want,
                 panicked, history>>

\* ... and bunpin().
Bunpin(p) ==
  /\ At(p, "written")
  /\ refcnt' = [refcnt EXCEPT ![cur[p]] = @ - 1]
  /\ logged' = logged \ {blockno[cur[p]]}
  /\ pc' = [pc EXCEPT ![p] = "installed"]
  /\ UNCHANGED <<blockno, valid, data, owner, list, disk, cur, want, panicked, history>>

\* brelse(): releasesleep(&b->lock) ...
BrelseUnlock(p) ==
  /\ At(p, "held") \/ At(p, "installed")
  /\ owner' = [owner EXCEPT ![cur[p]] = None]
  /\ pc' = [pc EXCEPT ![p] = "release"]
  /\ UNCHANGED <<blockno, valid, refcnt, data, list, disk, logged, cur, want,
                 panicked, history>>

\* Move to the head of the list: those in front of it move down by one.
ToFrontNot(b) == list  \* mutant: stays where it is
ToFront(b) ==
  [i \in Bufs |-> IF i = 1 THEN b
                  ELSE IF \E j \in i .. NBUF : list[j] = b THEN list[i - 1] ELSE list[i]]

\* ... and, under bcache.lock, give up the reference.
BrelseDrop(p) ==
  LET b == cur[p]
  IN  /\ At(p, "release")
      /\ refcnt' = [refcnt EXCEPT ![b] = @ - 1]
      /\ list' = IF refcnt[b] = 1 THEN ToFront(b) ELSE list
      /\ older' = [c \in Bufs |-> IF c = b THEN Bufs \ {b} ELSE older[c] \ {b}]
      /\ pc' = [pc EXCEPT ![p] = "idle"]
      /\ cur' = [cur EXCEPT ![p] = None]
      /\ want' = [want EXCEPT ![p] = None]
      /\ UNCHANGED <<blockno, valid, data, owner, disk, logged, panicked, latest>>

Next ==
  \E p \in Procs :
    \/ \E k \in Blocks : BgetHit(p, k) \/ BgetRecycle(p, k) \/ BgetPanic(p, k)
    \/ Bread(p) \/ Bwrite(p) \/ Bunpin(p) \/ BrelseUnlock(p) \/ BrelseDrop(p)
    \/ \E v \in Vals : LogWrite(p, v)

Spec == Init /\ [][Next]_vars

-----------------------------------------------------------------------------
(* Properties. *)

Locked == {"held", "written", "installed"}

\* Every variable keeps its type.
TypeOK ==
  /\ blockno \in [Bufs -> Blocks \cup {None}]
  /\ valid \in [Bufs -> BOOLEAN]
  /\ refcnt \in [Bufs -> Nat]
  /\ data \in [Bufs -> Vals \cup {None}]
  /\ owner \in [Bufs -> Procs \cup {None}]
  /\ list \in [Bufs -> Bufs]
  /\ disk \in [Blocks -> Vals] /\ latest \in [Blocks -> Vals]
  /\ logged \subseteq Blocks
  /\ pc \in [Procs -> {"idle", "lock", "release"} \cup Locked]
  /\ cur \in [Procs -> Bufs \cup {None}]
  /\ want \in [Procs -> Blocks \cup {None}]
  /\ panicked \in BOOLEAN /\ older \in [Bufs -> SUBSET Bufs]

\* A block has at most one buffer, also while two processes miss it at once,
\* and the list stays a list of all buffers.
OneBuffer ==
  /\ \A b, c \in Bufs : blockno[b] = blockno[c] /\ blockno[b] # None => b = c
  /\ \A b \in Bufs : \E i \in Bufs : list[i] = b

\* refcnt counts the processes that use or wait for the buffer, and the pin of
\* the log: nothing is dropped early and nothing leaks.
RefsExact ==
  \A b \in Bufs :
    refcnt[b] = Cardinality({p \in Procs : cur[p] = b})
                + IF blockno[b] \in logged THEN 1 ELSE 0

\* A process that gets its buffer, after waiting for it or not, holds the block
\* it asked for, alone, with what was last written to that block: recycling in
\* between has neither renamed it nor brought back an older copy.
Coherent ==
  \A p \in Procs : pc[p] \in Locked =>
    /\ owner[cur[p]] = p
    /\ blockno[cur[p]] = want[p]
    /\ data[cur[p]] = latest[want[p]]

\* "Recycle the least recently used (LRU) unused buffer": none of the other
\* unused ones was released earlier, or never.
LeastRecent ==
  [][\A b, c \in Bufs : blockno'[b] # blockno[b] /\ refcnt[c] = 0
       => c \notin older[b]]_vars

\* The cache as its users see it: what they get is their block with its latest
\* contents, one buffer to a block, and the counts neither early nor late.
CacheRight == TypeOK /\ OneBuffer /\ RefsExact /\ Coherent
=============================================================================
