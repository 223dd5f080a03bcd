------------------------------- MODULE Blocks -------------------------------
(***************************************************************************)
(* The contents of files: the block allocator, bmap(), itrunc(), readi() and *)
(* writei() of kernel/fs.c, called by fileread(), filewrite() and open(...,  *)
(* O_TRUNC).  Processes write through open files they share, one per inode.  *)
(*                                                                           *)
(* A step is what happens between two points where another process can get   *)
(* in: an inode is locked by ip->lock for a whole chunk, the bitmap only     *)
(* while its buffer is held.  A block holds BSIZE numbers; they are bytes or *)
(* block addresses, as in the program it depends on who reads them.  A byte  *)
(* is known by who writes it and by how much of the write() was left to do,  *)
(* so that a byte that is lost, doubled or out of its place is seen.  Each   *)
(* chunk is a transaction, so what a crash leaves is the disk after one of   *)
(* these transactions (module Transactions).                                 *)
(***************************************************************************)
EXTENDS Integers, FiniteSets, Sequences

CONSTANTS
  Procs,
  Inums,      \* inodes, each with one open file
  NBLOCKS,    \* data blocks 1 .. NBLOCKS
  BSIZE,      \* bytes, and addresses, in a block (NINDIRECT = BSIZE here)
  NDIRECT,
  MAXCHUNK,   \* filewrite()'s max
  Lens,       \* lengths of write()s
  MAXCALLS,   \* bound: how many write()s there are
  None

ASSUME BlocksAssumption ==
  /\ Lens \subseteq Nat \ {0}
  /\ {NBLOCKS, BSIZE, NDIRECT, MAXCHUNK, MAXCALLS} \subseteq Nat \ {0}
  /\ None \notin Procs \cup Inums

VARIABLES
  used,             \* the bitmap
  blk,              \* contents of the data blocks
  addrs, size,      \* the in-memory inodes; addrs[i][NDIRECT] is the indirect block
  daddrs, dsize,    \* the inodes on disk
  holder,            \* who holds ip->lock
  off,              \* f->off
  bpc, file,        \* each process: its place and the inode it works on
  left, tot,        \* bytes of the write() and of the chunk: to do, done
  tj,               \* itrunc()'s j
  home,             \* a block without the bytes that only its buffer has, or None
  freedFree,        \* panic("freeing free block")
  text, pos,        \* history: what each file should hold, and f->off should be
  calls             \* the write()s so far

fileVars == <<addrs, size, daddrs, dsize>>
history == <<text, pos, calls>>
vars == <<used, blk, fileVars, holder, off, bpc, file, left, tot, tj, home, freedFree, history>>

DataBlocks == 1 .. NBLOCKS
Slots == 0 .. BSIZE - 1
MAXFILE == NDIRECT + BSIZE
MinOf(a, b) == IF a < b THEN a ELSE b

Init ==
  /\ used = {} /\ blk = [b \in DataBlocks |-> [s \in Slots |-> 1]]
  /\ addrs = [i \in Inums |-> [k \in 0 .. NDIRECT |-> 0]] /\ size = [i \in Inums |-> 0]
  /\ daddrs = addrs /\ dsize = size
  /\ holder = [i \in Inums |-> None] /\ off = [i \in Inums |-> 0]
  /\ bpc = [p \in Procs |-> "idle"] /\ file = [p \in Procs |-> None]
  /\ left = [p \in Procs |-> 0] /\ tot = [p \in Procs |-> 0] /\ tj = [p \in Procs |-> 0]
  /\ home = [b \in DataBlocks |-> None] /\ freedFree = FALSE
  /\ text = [i \in Inums |-> <<>>] /\ pos = off /\ calls = 0

-----------------------------------------------------------------------------
(* balloc(), bfree() and bmap() *)

\* The first free block, zeroed.
LowestFree(b) == b \in DataBlocks \ used /\ \A c \in DataBlocks \ used : b <= c
Zeroed(b) == [s \in Slots |-> 0]
DiskFull == DataBlocks \subseteq used

\* What a free block holds is not looked at before bzero(): any nonzero bytes do.
bfree(b) ==
  /\ used' = used \ {b} /\ freedFree' = (freedFree \/ b \notin used)
  /\ home' = [home EXCEPT ![b] = None]
  /\ blk' = [blk EXCEPT ![b] = [s \in Slots |-> 1]]

\* The entry of the block map for block bn of inode i: 0 if there is none.
Entry(i, bn) ==
  IF bn < NDIRECT THEN addrs[i][bn]
  ELSE IF addrs[i][NDIRECT] = 0 THEN 0 ELSE blk[addrs[i][NDIRECT]][bn - NDIRECT]

\* One balloc() of bmap(): the direct block, the indirect block, or a block below it.
bmapAlloc(i, bn) ==
  \E b \in DataBlocks :
    LET direct == bn < NDIRECT \/ addrs[i][NDIRECT] = 0
        slot == IF bn < NDIRECT THEN bn ELSE NDIRECT
        fresh == [blk EXCEPT ![b] = Zeroed(b)]
    IN  /\ LowestFree(b)
        /\ used' = used \cup {b}
        /\ IF direct THEN addrs' = [addrs EXCEPT ![i][slot] = b] /\ blk' = fresh
           ELSE /\ blk' = [fresh EXCEPT ![addrs[i][NDIRECT]][bn - NDIRECT] = b]
                /\ UNCHANGED addrs

-----------------------------------------------------------------------------
(* filewrite() and writei() *)

Goto(p, l) == bpc' = [bpc EXCEPT ![p] = l]
At(p) == off[file[p]] + tot[p]
n1(p) == MinOf(left[p], MAXCHUNK)

\* Done with the call, or the next chunk.
ChunkDone(p, ok) ==
  /\ holder' = [holder EXCEPT ![file[p]] = None]
  /\ tot' = [tot EXCEPT ![p] = 0]
  /\ IF ok /\ left[p] > tot[p]
     THEN left' = [left EXCEPT ![p] = @ - tot[p]] /\ Goto(p, "lock") /\ UNCHANGED file
     ELSE left' = [left EXCEPT ![p] = 0] /\ Goto(p, "idle") /\ file' = [file EXCEPT ![p] = None]

WriteCall(p, i, n) ==
  /\ bpc[p] = "idle" /\ Goto(p, "lock")
  /\ calls < MAXCALLS /\ calls' = calls + 1
  /\ file' = [file EXCEPT ![p] = i] /\ left' = [left EXCEPT ![p] = n]
  /\ UNCHANGED <<used, blk, fileVars, holder, off, tot, tj, home, freedFree, text, pos>>

\* writei() refuses an offset behind the end and a file that would be too long.
Refused(p) == \/ off[file[p]] > size[file[p]]
              \/ off[file[p]] + n1(p) > MAXFILE * BSIZE

WriteLock(p) ==
  /\ bpc[p] = "lock" /\ holder[file[p]] = None
  /\ IF Refused(p)
     THEN ChunkDone(p, FALSE)
     ELSE holder' = [holder EXCEPT ![file[p]] = p] /\ Goto(p, "map")
          /\ UNCHANGED <<file, left, tot>>
  /\ UNCHANGED <<used, blk, fileVars, off, tj, home, freedFree, history>>

WriteAlloc(p) ==
  /\ bpc[p] = "map" /\ Entry(file[p], At(p) \div BSIZE) = 0
  /\ IF DiskFull THEN Goto(p, "update") /\ UNCHANGED <<used, blk, addrs>>
     ELSE bmapAlloc(file[p], At(p) \div BSIZE) /\ UNCHANGED bpc
  /\ UNCHANGED <<size, daddrs, dsize, holder, off, file, left, tot, tj, home, freedFree, history>>

\* What a file holds after the bytes w went to offset o, and after the bytes w were
\* copied there by a chunk that does not count them: both old and new may show.
Put(t, o, w) ==
  [k \in 1 .. (IF o + Len(w) > Len(t) THEN o + Len(w) ELSE Len(t)) |->
     IF k \in o + 1 .. o + Len(w) THEN {w[k - o]} ELSE t[k]]
Smear(t, o, w) ==
  [k \in DOMAIN t |-> IF k \in o + 1 .. o + Len(w) THEN t[k] \cup {w[k - o]} ELSE t[k]]

\* Bytes first+1 .. first+n of the chunk that p is writing.
Source(p, first, n) == [k \in 1 .. n |-> <<p, left[p] - first - k>>]

\* The bytes of a chunk that go into one block, and log_write().  copied < m:
\* either_copyin() fails after so many bytes.  They do not count, but stay in the
\* buffer until it is recycled or until somebody logs the block.
WriteCopy(p, copied) ==
  LET i == file[p]
      b == Entry(i, At(p) \div BSIZE)
      o == At(p) % BSIZE
      m == MinOf(n1(p) - tot[p], BSIZE - o)
      w == Source(p, tot[p], copied)
  IN  /\ bpc[p] = "map" /\ b # 0 /\ copied \in 0 .. m
      /\ blk' = [blk EXCEPT ![b] =
                   [s \in Slots |-> IF s \in o .. o + copied - 1 THEN w[s - o + 1] ELSE @[s]]]
      /\ home' = [home EXCEPT ![b] = IF copied = m THEN None
                                     ELSE IF @ = None /\ copied > 0 THEN blk[b] ELSE @]
      /\ text' = IF copied = m THEN text
                 ELSE [text EXCEPT ![i] = Smear(@, pos[i] + tot[p], w)]
      /\ tot' = [tot EXCEPT ![p] = IF copied = m THEN @ + m ELSE @]
      /\ Goto(p, IF copied < m \/ tot'[p] = n1(p) THEN "update" ELSE "map")
      /\ UNCHANGED <<used, fileVars, holder, off, file, left, tj, freedFree, pos, calls>>

\* bget() recycles the buffer of a block that was not logged since.
Recycle(b) ==
  /\ home[b] # None
  /\ blk' = [blk EXCEPT ![b] = home[b]] /\ home' = [home EXCEPT ![b] = None]
  /\ UNCHANGED <<used, fileVars, holder, off, bpc, file, left, tot, tj, freedFree, history>>

\* The end of writei(), iupdate() included, and the offset of the open file.
Grown(p) == IF At(p) > size[file[p]] THEN At(p) ELSE size[file[p]]
NewOffWhole(p) ==  \* mutant: only a whole chunk moves the offset
  IF tot[p] = n1(p) THEN off[file[p]] + tot[p] ELSE off[file[p]]
NewOff(p) == off[file[p]] + tot[p]
UpdatedAddrsNot(i) == IF size'[i] = size[i] THEN daddrs[i] ELSE addrs[i]  \* mutant: only if it grew
UpdatedAddrs(i) == addrs[i]

WriteUpdate(p) ==
  LET i == file[p]
  IN  /\ bpc[p] = "update"
      /\ size' = [size EXCEPT ![i] = Grown(p)]
      /\ daddrs' = [daddrs EXCEPT ![i] = UpdatedAddrs(i)]
      /\ dsize' = [dsize EXCEPT ![i] = Grown(p)]
      /\ off' = [off EXCEPT ![i] = NewOff(p)]
      /\ text' = [text EXCEPT ![i] = IF tot[p] = 0 THEN @ ELSE Put(@, pos[i], Source(p, 0, tot[p]))]
      /\ pos' = [pos EXCEPT ![i] = @ + tot[p]]
      /\ ChunkDone(p, tot[p] = n1(p))
      /\ UNCHANGED <<used, blk, addrs, tj, home, freedFree, calls>>

\* readi(): the bytes it copies out.  It maps no new block if every block below the
\* end has one.
ReadLen(i, o, n) == IF o > size[i] THEN 0 ELSE MinOf(n, size[i] - o)
readi(i, o, n) ==
  [k \in 1 .. ReadLen(i, o, n) |->
     blk[Entry(i, (o + k - 1) \div BSIZE)][(o + k - 1) % BSIZE]]

\* fileread().  A failed either_copyout() leaves the offset.
Read(p, i, n) ==
  /\ bpc[p] = "idle" /\ holder[i] = None
  /\ off' = [off EXCEPT ![i] = @ + Len(readi(i, @, n))]
  /\ pos' = [pos EXCEPT ![i] = @ + Len(readi(i, off[i], n))]
  /\ UNCHANGED <<used, blk, fileVars, holder, bpc, file, left, tot, tj, home, freedFree, text, calls>>

\* close() and open(): a new open file.
Reopen(i) ==
  /\ \A p \in Procs : file[p] # i
  /\ off' = [off EXCEPT ![i] = 0] /\ pos' = [pos EXCEPT ![i] = 0]
  /\ UNCHANGED <<used, blk, fileVars, holder, bpc, file, left, tot, tj, home, freedFree, text, calls>>

\* The inode leaves the table and is read from disk again by a later ilock().
Reload(i) ==
  /\ holder[i] = None
  /\ addrs' = [addrs EXCEPT ![i] = daddrs[i]] /\ size' = [size EXCEPT ![i] = dsize[i]]
  /\ UNCHANGED <<used, blk, daddrs, dsize, holder, off, bpc, file, left, tot, tj, home, freedFree, history>>

-----------------------------------------------------------------------------
(* itrunc(), from open() with O_TRUNC or from the last iput(). *)

TruncCall(p, i) ==
  /\ bpc[p] = "idle" /\ holder[i] = None
  /\ holder' = [holder EXCEPT ![i] = p] /\ file' = [file EXCEPT ![p] = i] /\ Goto(p, "trunc")
  /\ UNCHANGED <<used, blk, fileVars, off, left, tot, tj, home, freedFree, history>>

TruncDirect(p, k) ==
  LET i == file[p]
  IN  /\ bpc[p] = "trunc" /\ k < NDIRECT /\ addrs[i][k] # 0
      /\ \A l \in 0 .. k - 1 : addrs[i][l] = 0
      /\ bfree(addrs[i][k]) /\ addrs' = [addrs EXCEPT ![i][k] = 0]
      /\ UNCHANGED <<size, daddrs, dsize, holder, off, bpc, file, left, tot, tj, history>>

DirectGone(i) == \A k \in 0 .. NDIRECT - 1 : addrs[i][k] = 0

\* One round of the loop over the indirect block, whose entries are left as they are.
EntriesShort == BSIZE - 1  \* mutant: the last entry is forgotten
Entries == BSIZE
TruncEntry(p) ==
  LET i == file[p]
      b == blk[addrs[i][NDIRECT]][tj[p]]
  IN  /\ bpc[p] = "trunc" /\ DirectGone(i) /\ addrs[i][NDIRECT] # 0 /\ tj[p] < Entries
      /\ IF b = 0 THEN UNCHANGED <<used, blk, home, freedFree>> ELSE bfree(b)
      /\ tj' = [tj EXCEPT ![p] = @ + 1]
      /\ UNCHANGED <<fileVars, holder, off, bpc, file, left, tot, history>>

TruncIndirect(p) ==
  LET i == file[p]
  IN  /\ bpc[p] = "trunc" /\ DirectGone(i) /\ addrs[i][NDIRECT] # 0 /\ tj[p] = Entries
      /\ bfree(addrs[i][NDIRECT]) /\ addrs' = [addrs EXCEPT ![i][NDIRECT] = 0]
      /\ UNCHANGED <<size, daddrs, dsize, holder, off, bpc, file, left, tot, tj, history>>

TruncEnd(p) ==
  LET i == file[p]
  IN  /\ bpc[p] = "trunc" /\ DirectGone(i) /\ addrs[i][NDIRECT] = 0
      /\ size' = [size EXCEPT ![i] = 0]
      /\ daddrs' = [daddrs EXCEPT ![i] = addrs[i]] /\ dsize' = [dsize EXCEPT ![i] = 0]
      /\ holder' = [holder EXCEPT ![i] = None]
      /\ Goto(p, "idle") /\ file' = [file EXCEPT ![p] = None] /\ tj' = [tj EXCEPT ![p] = 0]
      /\ text' = [text EXCEPT ![i] = <<>>]
      /\ UNCHANGED <<used, blk, addrs, off, left, tot, home, freedFree, pos, calls>>

Next ==
  \/ \E p \in Procs :
       \/ WriteLock(p) \/ WriteAlloc(p) \/ WriteUpdate(p)
       \/ TruncEntry(p) \/ TruncIndirect(p) \/ TruncEnd(p)
       \/ \E k \in 0 .. BSIZE : WriteCopy(p, k)
       \/ \E k \in 0 .. NDIRECT : TruncDirect(p, k)
       \/ \E i \in Inums : TruncCall(p, i) \/ \E n \in Lens : WriteCall(p, i, n) \/ Read(p, i, n)
  \/ \E i \in Inums : Reopen(i) \/ Reload(i)
  \/ \E b \in DataBlocks : Recycle(b)

Spec == Init /\ [][Next]_vars

-----------------------------------------------------------------------------

\* Every variable keeps its type.
TypeOK ==
  /\ used \subseteq DataBlocks
  /\ \A b \in DataBlocks : DOMAIN blk[b] = Slots /\ (home[b] = None \/ DOMAIN home[b] = Slots)
  /\ addrs \in [Inums -> [0 .. NDIRECT -> DataBlocks \cup {0}]]
  /\ daddrs \in [Inums -> [0 .. NDIRECT -> DataBlocks \cup {0}]]
  /\ size \in [Inums -> 0 .. MAXFILE * BSIZE] /\ dsize \in [Inums -> 0 .. MAXFILE * BSIZE]
  /\ holder \in [Inums -> Procs \cup {None}] /\ off \in [Inums -> 0 .. MAXFILE * BSIZE]
  /\ bpc \in [Procs -> {"idle", "lock", "map", "update", "trunc"}]
  /\ file \in [Procs -> Inums \cup {None}] /\ left \in [Procs -> Nat]
  /\ tot \in [Procs -> 0 .. MAXCHUNK] /\ tj \in [Procs -> 0 .. BSIZE]

\* The places of inode i's map that hold a block: entries of the indirect block that
\* itrunc() has already freed do not count.
Freed(i) == IF holder[i] = None THEN 0 ELSE tj[holder[i]]
Places(i) ==
  {k \in 0 .. NDIRECT : addrs[i][k] # 0}
  \cup {NDIRECT + 1 + s : s \in {t \in Slots : /\ addrs[i][NDIRECT] # 0 /\ t >= Freed(i)
                                               /\ blk[addrs[i][NDIRECT]][t] # 0}}
BlockAt(i, k) == IF k <= NDIRECT THEN addrs[i][k] ELSE blk[addrs[i][NDIRECT]][k - NDIRECT - 1]
Held == UNION {{<<i, k>> : k \in Places(i)} : i \in Inums}

\* Every block in use belongs to exactly one place of one inode, and every block
\* that belongs to an inode is marked in the bitmap: at every moment, whatever was
\* interrupted by a full disk, a bad address or another process.
OwnedOnce ==
  /\ used = {BlockAt(h[1], h[2]) : h \in Held}
  /\ Cardinality(used) = Cardinality(Held)

\* panic("freeing free block") is unreachable.
NoDoubleFree == ~freedFree

\* A file has a block for each of its bytes, so that readi(), which does not write
\* the inode back, never allocates one (fs.c:483).
NoHoles ==
  \A i \in Inums : holder[i] = None =>
    \A o \in 0 .. size[i] - 1 : Entry(i, o \div BSIZE) # 0

\* A file reads as the bytes that write()s counted, each at the offset the open file
\* had reached and nothing lost, overlapped or left from another file, whoever shares
\* the open file and wherever a full disk or a bad address stopped a chunk.  Only
\* over what a failed copy touched, the old byte and the one copied may both show.
ContentRight ==
  \A i \in Inums : holder[i] = None =>
    LET got == readi(i, 0, MAXFILE * BSIZE)
    IN  Len(got) = Len(text[i]) /\ \A k \in DOMAIN got : got[k] \in text[i][k]

\* The comment on iupdate(), "must be called after every change to an ip->xxx
\* field that lives on disk", is obeyed: an unlocked inode equals its copy on disk.
CoreOnDisk ==
  \A i \in Inums : holder[i] = None => addrs[i] = daddrs[i] /\ size[i] = dsize[i]

\* Blocks (balloc(), bfree(), bmap(), itrunc()): each belongs to one place of one
\* file and is marked in the bitmap just then, and none is freed twice.
BlocksOwned == TypeOK /\ OwnedOnce /\ NoDoubleFree

\* Files (readi(), writei(), filewrite(), with f->off shared): what readi() returns is
\* what was last written there, and no block below the size is missing.
FilesRight == NoHoles /\ ContentRight
=============================================================================
