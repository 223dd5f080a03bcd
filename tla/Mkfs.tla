-------------------------------- MODULE Mkfs -------------------------------
(***************************************************************************)
(* mkfs (mkfs/mkfs.c), which builds the file system image the kernel       *)
(* mounts: super block layout, inodes, the root directory and the files    *)
(* appended to it, the free map.  A byte of the k-th file given is the     *)
(* pair of k and its offset there, a directory entry is one byte with the  *)
(* name (k, "." or "..") and the inum; the host's open, read and write do  *)
(* not fail.                                                               *)
(***************************************************************************)
EXTENDS Integers, Sequences, FiniteSets

CONSTANTS BLK,       \* BSIZE, in directory entries
          NDIR, NIND,   \* NDIRECT, NINDIRECT
          NINODES, NLOG, IPB, BPB, FSSIZE,
          SIZES      \* sizes of the files given

\* The assertions of iappend() and balloc() hold of the files given; that
\* there are not more files than inodes, mkfs does not test.
ASSUME MkfsFits ==
    /\ \A size \in SIZES : size <= (NDIR + NIND) * BLK
    /\ NINODES <= (NDIR + NIND) * BLK

VARIABLES freeinode, freeblock,
          din,     \* inode -> [type, size, addrs]
          disk,    \* written cells <<block, index>> -> the byte there
          ind,     \* cells <<block, index>> of indirect blocks -> block
          given,   \* sizes of the files given so far
          todo,    \* bytes of the newest file still to be read
          bitmap   \* blocks marked in the free map; {-1} before balloc()

mkVars == <<freeinode, freeblock, din, disk, ind, given, todo, bitmap>>

\* [ boot block | sb block | log | inode blocks | free bit map | data ]
nbitmap == FSSIZE \div BPB + 1
ninodeblocks == NINODES \div IPB + 1
nmeta == 2 + NLOG + ninodeblocks + nbitmap
inodestart == 2 + NLOG
bmapstart == 2 + NLOG + ninodeblocks
IBLOCK(i) == i \div IPB + inodestart
ROOTINO == 1
Dirent(name, inum) == <<[name |-> name, inum |-> inum]>>

Store == [free |-> freeblock, din |-> din, disk |-> disk, ind |-> ind]

Plus(f, a, v) == [x \in DOMAIN f \cup {a} |-> IF x = a THEN v ELSE f[x]]

\* The block of file block fbn, allocated on first use.
Direct(s, i, fbn) ==
    IF s.din[i].addrs[fbn] # 0 THEN s
    ELSE [s EXCEPT !.din[i].addrs[fbn] = s.free, !.free = s.free + 1]
Indirect(s0, i, fbn) ==
    LET s == Direct(s0, i, NDIR)
        cell == <<s.din[i].addrs[NDIR], fbn - NDIR>>
    IN IF cell \in DOMAIN s.ind THEN s
       ELSE [s EXCEPT !.ind = Plus(s.ind, cell, s.free), !.free = s.free + 1]
BlockOf(s, i, fbn) ==
    IF fbn < NDIR THEN s.din[i].addrs[fbn]
    ELSE s.ind[<<s.din[i].addrs[NDIR], fbn - NDIR>>]

RoomWhole(off, fbn) == BLK                                    \* mutant
Room(off, fbn) == (fbn + 1) * BLK - off

AdvanceNot(p, n1) == SubSeq(p, 1, Len(p) - n1)                \* mutant
Advance(p, n1) == SubSeq(p, n1 + 1, Len(p))

\* iappend(): one turn of its loop per block touched; p is what is left of the
\* caller's buffer.
RECURSIVE iappend(_, _, _)
iappend(s, i, p) ==
    IF p = <<>> THEN s
    ELSE LET off == s.din[i].size
             fbn == off \div BLK
             t == IF fbn < NDIR THEN Direct(s, i, fbn) ELSE Indirect(s, i, fbn)
             n1 == IF Len(p) < Room(off, fbn) THEN Len(p) ELSE Room(off, fbn)
             x == BlockOf(t, i, fbn)
             at == off - fbn * BLK
             cells == {<<x, at + k>> : k \in 0 .. n1 - 1}
         IN iappend([t EXCEPT
                       !.disk = [c \in DOMAIN t.disk \cup cells |->
                                   IF c \in cells THEN p[c[2] - at + 1] ELSE t.disk[c]],
                       !.din[i].size = off + n1],
                    i, Advance(p, n1))

ialloc(s, i, type) ==
    [s EXCEPT !.din = Plus(s.din, i, [type |-> type, size |-> 0,
                                      addrs |-> [k \in 0 .. NDIR |-> 0]])]

Becomes(s) ==
    freeblock' = s.free /\ din' = s.din /\ disk' = s.disk /\ ind' = s.ind

\* The root directory with "." and "..".
mkInit ==
    LET s0 == [free |-> nmeta, din |-> <<>>, disk |-> <<>>, ind |-> <<>>]
        s1 == iappend(ialloc(s0, ROOTINO, "dir"), ROOTINO, Dirent(".", ROOTINO))
        s == iappend(s1, ROOTINO, Dirent("..", ROOTINO))
    IN /\ freeblock = s.free /\ din = s.din /\ disk = s.disk /\ ind = s.ind
       /\ freeinode = ROOTINO + 1 /\ given = <<>> /\ todo = 0 /\ bitmap = {-1}

\* The next file: an inode and its entry in the root directory.
AddFile(size) ==
    /\ bitmap = {-1} /\ todo = 0 /\ freeinode < NINODES
    /\ given' = Append(given, size) /\ todo' = size
    /\ Becomes(iappend(ialloc(Store, freeinode, "file"), ROOTINO,
                       Dirent(Len(given'), freeinode)))
    /\ freeinode' = freeinode + 1
    /\ UNCHANGED bitmap

\* read() returns up to BSIZE bytes of it, from where the last one stopped.
CopyBlock(n) ==
    /\ n <= todo
    /\ LET k == Len(given)
           buf0 == [j \in 1 .. n |-> <<k, given[k] - todo + j - 1>>]
       IN Becomes(iappend(Store, freeinode - 1, buf0))
    /\ todo' = todo - n
    /\ UNCHANGED <<freeinode, given, bitmap>>

\* The root's size is rounded up, always past its last entry, and balloc()
\* marks all blocks up to freeblock, which its assertion has below BPB.
RoundUpTwo(off) == (off \div BLK + 2) * BLK                   \* mutant
RoundUp(off) == (off \div BLK + 1) * BLK
MarkedShort(n) == 0 .. n - 2                                    \* mutant
Marked(n) == 0 .. n - 1

FixRoot ==
    /\ bitmap = {-1} /\ todo = 0 /\ freeblock < BPB
    /\ din' = [din EXCEPT ![ROOTINO].size = RoundUp(@)]
    /\ bitmap' = Marked(freeblock)
    /\ UNCHANGED <<freeinode, freeblock, disk, ind, given, todo>>

mkNext ==
    \/ \E size \in SIZES : AddFile(size)
    \/ \E n \in 1 .. BLK : CopyBlock(n)
    \/ FixRoot

-----------------------------------------------------------------------------
Slots(i) == {k \in 0 .. NDIR : din[i].addrs[k] # 0}
Uses == UNION {{<<i, k, din[i].addrs[k]>> : k \in Slots(i)} : i \in DOMAIN din}
        \cup {<<0, c, ind[c]>> : c \in DOMAIN ind}

Mapped(i, fbn) == IF fbn < NDIR THEN fbn \in Slots(i)
                  ELSE <<din[i].addrs[NDIR], fbn - NDIR>> \in DOMAIN ind

(* The image is one the kernel can work on: past the meta blocks a block   *)
(* is marked in the free map iff one inode, through one slot, uses it, and *)
(* the inode, log and map areas are disjoint and below the data            *)
(* (mkfs.c:93-108, 245, 271-283).                                          *)
ImageConsistent ==
    /\ \A i \in DOMAIN din : IBLOCK(i) \in inodestart .. bmapstart - 1
    /\ {u[3] : u \in Uses} = nmeta .. freeblock - 1
    /\ Cardinality(Uses) = freeblock - nmeta
    /\ bitmap # {-1} => bitmap = (0 .. nmeta - 1) \cup {u[3] : u \in Uses}

Entries == 2 + Len(given)
\* What the kernel reads at an offset of an inode, if a block is there.
ByteAt(i, off) == disk[<<BlockOf(Store, i, off \div BLK), off % BLK>>]
Readable(i, off) == /\ Mapped(i, off \div BLK)
                    /\ <<BlockOf(Store, i, off \div BLK), off % BLK>> \in DOMAIN disk

(* The root directory holds ".", ".." and one entry for each file given,   *)
(* in their order (mkfs.c:117-157), each with an inode of its own that is  *)
(* of the right type, and every inode has its entry.                       *)
DirectoryAgrees ==
    /\ \A off \in 0 .. Entries - 1 : Readable(ROOTINO, off)
    /\ LET at == [off \in 0 .. Entries - 1 |-> ByteAt(ROOTINO, off)]
       IN /\ at[0] = Dirent(".", ROOTINO)[1] /\ at[1] = Dirent("..", ROOTINO)[1]
          /\ \A k \in DOMAIN given : at[k + 1].name = k /\ din[at[k + 1].inum].type = "file"
          /\ {at[off].inum : off \in DOMAIN at} = DOMAIN din
          /\ Cardinality(DOMAIN din) = Entries - 1
    /\ din[ROOTINO].type = "dir"

(* Whatever pieces a file is read in, the inode its entry leads to has     *)
(* just the bytes read() has returned, each at its place: iappend()        *)
(* (mkfs.c:255) continues in the middle of the last block, and with the    *)
(* rest of its buffer when that is full.                                   *)
FilesWhole ==
    \A k \in DOMAIN given :
        LET i == ByteAt(ROOTINO, k + 1).inum
            size == IF k = Len(given) THEN given[k] - todo ELSE given[k]
        IN /\ din[i].size = size
           /\ \A off \in 0 .. size - 1 : Readable(i, off) /\ ByteAt(i, off) = <<k, off>>

(* The blocks the kernel finds below the size of an inode are allocated,   *)
(* but for one case: the root's size is rounded up past its entries even   *)
(* when they fill their last block (mkfs.c:168), and exactly then a block  *)
(* is missing, the root's last.                                            *)
SizesCovered ==
    bitmap # {-1} =>
        {<<i, fbn>> \in (DOMAIN din) \X (0 .. FSSIZE) :
            fbn * BLK < din[i].size /\ ~Mapped(i, fbn)}
        = IF Entries % BLK = 0 THEN {<<ROOTINO, Entries \div BLK>>} ELSE {}
=============================================================================
