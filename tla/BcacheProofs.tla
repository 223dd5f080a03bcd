---------------------------- MODULE BcacheProofs -----------------------------
(***************************************************************************)
(* What module Bcache's runs check, for every number of processes, blocks    *)
(* and buffers: CacheRight and LeastRecent.                                  *)
(***************************************************************************)
EXTENDS Bcache, FiniteSetTheorems, TLAPS

\* Time for each leaf.
USE SMTT(20), ZenonT(20)

\* The processes between bget() and the end of brelse() of buffer b.
Users(b) == {p \in Procs : cur[p] = b}

\* The list has every buffer once.
ListInv ==
  /\ \A b \in Bufs : \E i \in Bufs : list[i] = b
  /\ \A i, j \in Bufs : list[i] = list[j] => i = j

\* A block has at most one buffer.
BlockInv ==
  \A b, c \in Bufs : blockno[b] = blockno[c] /\ blockno[b] # None => b = c

\* A process is between calls, or has a reference to a buffer of the block it
\* asked for.
ProcInv ==
  \A p \in Procs :
    /\ pc[p] = "idle" => cur[p] = None
    /\ pc[p] # "idle" => cur[p] \in Bufs /\ want[p] \in Blocks
                         /\ blockno[cur[p]] = want[p]

\* The sleeplock is held just from bread() to the first half of brelse().
OwnerInv ==
  /\ \A p \in Procs : pc[p] \in Locked => owner[cur[p]] = p /\ valid[cur[p]]
  /\ \A b \in Bufs : owner[b] # None => pc[owner[b]] \in Locked /\ cur[owner[b]] = b

\* Where the last written contents of a block are: in its buffer, if that was
\* read or written, and on disk, unless the log still has to install them; then
\* the block has such a buffer.
DataInv ==
  /\ \A b \in Bufs : blockno[b] # None /\ valid[b] => data[b] = latest[blockno[b]]
  /\ \A k \in Blocks \ logged : disk[k] = latest[k]
  /\ \A k \in logged : \E b \in Bufs : blockno[b] = k /\ valid[b]
  /\ \A p \in Procs : pc[p] = "written" =>
       blockno[cur[p]] \in logged /\ disk[blockno[cur[p]]] = latest[blockno[cur[p]]]

\* The unused buffers are listed from the last released to the first.
LruInv ==
  \A i, j \in Bufs :
    refcnt[list[i]] = 0 /\ refcnt[list[j]] = 0 /\ list[i] \in older[list[j]] => j < i

IInv == TypeOK /\ ListInv /\ BlockInv /\ RefsExact /\ ProcInv /\ OwnerInv /\ DataInv
        /\ LruInv

-----------------------------------------------------------------------------
(* Facts about the constants and about counting. *)

\* NBUF is positive and None is nothing else.
LEMMA Constants ==
  /\ NBUF \in Nat /\ NBUF >= 1 /\ Bufs \subseteq Int /\ 1 \in Bufs
  /\ None \notin Procs /\ None \notin Blocks /\ None \notin Vals /\ None \notin Bufs
BY BcacheAssumption DEF Bufs

\* The users of a buffer can be counted.
LEMMA UsersFinite ==
  ASSUME NEW b
  PROVE  IsFiniteSet(Users(b)) /\ Cardinality(Users(b)) \in Nat
<1>1. Users(b) \subseteq Procs
  BY ZenonT(40) DEF Users
<1> QED
  BY <1>1, BcacheAssumption, FS_Subset, FS_CardinalityType, ZenonT(40)

\* A process that gets a buffer (bget()) is one user more of it, and of it only.
LEMMA UsersAdd ==
  ASSUME cur \in [Procs -> Bufs \cup {None}], NEW p \in Procs, NEW b \in Bufs,
         cur[p] = None, cur' = [cur EXCEPT ![p] = b]
  PROVE  /\ Cardinality(Users(b)') = Cardinality(Users(b)) + 1
         /\ \A c \in Bufs \ {b} : Users(c)' = Users(c)
<1>1. Users(b)' = Users(b) \cup {p} /\ p \notin Users(b)
  BY Constants, ZenonT(40) DEF Users
<1>2. \A c \in Bufs \ {b} : Users(c)' = Users(c)
  BY Constants, ZenonT(40) DEF Users
<1>3. Cardinality(Users(b) \cup {p}) = Cardinality(Users(b)) + 1
  BY <1>1, UsersFinite, FS_AddElement, ZenonT(40)
<1> QED
  BY <1>1, <1>2, <1>3, ZenonT(40)

\* A process that gives its buffer back (brelse()) is one user less of it.
LEMMA UsersRemove ==
  ASSUME cur \in [Procs -> Bufs \cup {None}], NEW p \in Procs, NEW b \in Bufs,
         cur[p] = b, cur' = [cur EXCEPT ![p] = None]
  PROVE  /\ Cardinality(Users(b)) = Cardinality(Users(b)') + 1
         /\ \A c \in Bufs \ {b} : Users(c)' = Users(c)
<1>1. Users(b) = Users(b)' \cup {p} /\ p \notin Users(b)'
  BY Constants, ZenonT(40) DEF Users
<1>2. \A c \in Bufs \ {b} : Users(c)' = Users(c)
  BY Constants, ZenonT(40) DEF Users
<1>3. IsFiniteSet(Users(b)')
  BY <1>1, UsersFinite, FS_Subset, ZenonT(40)
<1> QED
  BY <1>1, <1>2, <1>3, FS_AddElement, FS_CardinalityType

\* An unused buffer has no user and its block is not in the log.
LEMMA UnusedFree ==
  ASSUME TypeOK, RefsExact, NEW b \in Bufs, refcnt[b] = 0
  PROVE  (\A p \in Procs : cur[p] # b) /\ blockno[b] \notin logged
<1>1. refcnt[b] = Cardinality(Users(b)) + IF blockno[b] \in logged THEN 1 ELSE 0
  BY ZenonT(40) DEF RefsExact, Users
<1>2. Cardinality(Users(b)) = 0 /\ blockno[b] \notin logged
  BY <1>1, UsersFinite
<1>3. Users(b) = {}
  BY <1>2, UsersFinite, FS_EmptySet, ZenonT(40)
<1> QED
  BY <1>2, <1>3, ZenonT(40) DEF Users

\* A user counts.
LEMMA UserCounts ==
  ASSUME TypeOK, RefsExact, NEW p \in Procs, cur[p] \in Bufs
  PROVE  /\ refcnt[cur[p]] >= 1
         /\ blockno[cur[p]] \in logged => refcnt[cur[p]] >= 2
<1>1. refcnt[cur[p]] = Cardinality(Users(cur[p]))
                       + IF blockno[cur[p]] \in logged THEN 1 ELSE 0
  BY ZenonT(40) DEF RefsExact, Users
<1>2. Cardinality(Users(cur[p])) # 0
  BY UsersFinite, FS_EmptySet, ZenonT(40) DEF Users
<1> QED
  BY <1>1, <1>2, UsersFinite

\* The state after binit() satisfies the invariant.
LEMMA InitInv ==
  ASSUME Init PROVE IInv
<1> USE Constants
<1>0. \A i \in Bufs : NBUF + 1 - i \in Bufs
  BY DEF Bufs
<1>1. TypeOK
  BY <1>0, ZenonT(40) DEF Init, TypeOK
<1>2. ListInv
  <2>1. \A i \in Bufs : NBUF + 1 - i \in Bufs /\ list[i] = NBUF + 1 - i
    BY <1>0, ZenonT(40) DEF Init
  <2>2. \A i, j \in Bufs : list[i] = list[j] => i = j
    BY <2>1
  <2>3. \A b \in Bufs : list[NBUF + 1 - b] = b
    BY <2>1
  <2> QED
    BY <1>0, <2>2, <2>3, ZenonT(40) DEF ListInv
<1>3. BlockInv /\ ProcInv /\ OwnerInv /\ DataInv /\ LruInv
  BY <1>1, ZenonT(40) DEF Init, BlockInv, ProcInv, OwnerInv, DataInv, LruInv, Locked, TypeOK
<1>4. RefsExact
  <2> SUFFICES ASSUME NEW b \in Bufs
               PROVE  refcnt[b] = Cardinality({p \in Procs : cur[p] = b})
                                  + IF blockno[b] \in logged THEN 1 ELSE 0
    BY ZenonT(40) DEF RefsExact
  <2>1. {p \in Procs : cur[p] = b} = {}
    BY ZenonT(40) DEF Init
  <2>2. Cardinality({p \in Procs : cur[p] = b}) = 0
    BY <2>1, FS_EmptySet, ZenonT(40)
  <2>3. refcnt[b] = 0 /\ blockno[b] \notin logged
    BY ZenonT(40) DEF Init
  <2> QED
    BY <2>2, <2>3
<1> QED
  BY <1>1, <1>2, <1>3, <1>4, ZenonT(40) DEF IInv

-----------------------------------------------------------------------------
(* bget() *)

\* A hit adds a user to the buffer of the block.
LEMMA BgetHitInv ==
  ASSUME IInv, NEW p \in Procs, NEW k \in Blocks, BgetHit(p, k) PROVE IInv'
<1> USE DEF IInv
<1>1. PICK b \in Bufs :
        /\ blockno[b] = k
        /\ refcnt' = [refcnt EXCEPT ![b] = @ + 1]
        /\ cur' = [cur EXCEPT ![p] = b]
  BY ZenonT(40) DEF BgetHit, Hits, TypeOK
<1>2. pc[p] = "idle" /\ cur[p] = None
      /\ want' = [want EXCEPT ![p] = k] /\ pc' = [pc EXCEPT ![p] = "lock"]
      /\ UNCHANGED <<blockno, valid, data, owner, list, disk, logged, panicked, history>>
  BY ZenonT(40) DEF BgetHit, At, ProcInv
<1>3. TypeOK'
  BY <1>1, <1>2 DEF TypeOK, history
<1>4. ListInv' /\ BlockInv'
  BY <1>2, ZenonT(40) DEF ListInv, BlockInv
<1>5. RefsExact'
  <2> SUFFICES ASSUME NEW c \in Bufs
               PROVE  refcnt'[c] = Cardinality(Users(c)')
                                   + IF blockno[c] \in logged THEN 1 ELSE 0
    BY <1>2, ZenonT(40) DEF RefsExact, Users
  <2>1. refcnt[c] = Cardinality(Users(c)) + IF blockno[c] \in logged THEN 1 ELSE 0
    BY ZenonT(40) DEF RefsExact, Users
  <2>2. IF c = b THEN Cardinality(Users(c)') = Cardinality(Users(c)) + 1
                 ELSE Users(c)' = Users(c)
    BY <1>1, <1>2, UsersAdd, ZenonT(40) DEF TypeOK
  <2>3. refcnt'[c] = IF c = b THEN refcnt[c] + 1 ELSE refcnt[c]
    BY <1>1, ZenonT(40) DEF TypeOK
  <2> QED
    BY <2>1, <2>2, <2>3, UsersFinite
<1>6. ProcInv'
  BY <1>1, <1>2, ZenonT(40) DEF ProcInv, TypeOK
<1>7. OwnerInv' /\ DataInv'
  BY <1>1, <1>2 DEF OwnerInv, DataInv, Locked, TypeOK, history
<1>8. LruInv'
  <2>1. \A c \in Bufs : refcnt'[c] = 0 => refcnt[c] = 0
    BY <1>1 DEF TypeOK
  <2> QED
    BY <1>2, <2>1, ZenonT(40) DEF LruInv, TypeOK, history
<1> QED
  BY <1>3, <1>4, <1>5, <1>6, <1>7, <1>8, ZenonT(40)

\* A recycled buffer had no user and no pin, and no other buffer has its new block.
LEMMA BgetRecycleInv ==
  ASSUME IInv, NEW p \in Procs, NEW k \in Blocks, BgetRecycle(p, k) PROVE IInv'
<1> USE DEF IInv
<1>1. PICK b \in Bufs :
        /\ refcnt[b] = 0
        /\ blockno' = [blockno EXCEPT ![b] = k]
        /\ valid' = [valid EXCEPT ![b] = FALSE]
        /\ refcnt' = [refcnt EXCEPT ![b] = 1]
        /\ cur' = [cur EXCEPT ![p] = b]
  BY ZenonT(40) DEF BgetRecycle, Unused, TypeOK
<1>2. pc[p] = "idle" /\ cur[p] = None
      /\ want' = [want EXCEPT ![p] = k] /\ pc' = [pc EXCEPT ![p] = "lock"]
      /\ UNCHANGED <<data, owner, list, disk, logged, panicked, history>>
  BY ZenonT(40) DEF BgetRecycle, At, ProcInv
<1>3. \A c \in Bufs : blockno[c] # k
  BY ZenonT(40) DEF BgetRecycle, Hits, ListInv
<1>4. (\A q \in Procs : cur[q] # b) /\ blockno[b] \notin logged
  BY <1>1, UnusedFree, ZenonT(40)
<1>5. k \notin logged
  BY <1>3, ZenonT(40) DEF DataInv
<1>6. owner[b] = None
  BY <1>4 DEF OwnerInv, TypeOK
<1>7. TypeOK'
  BY <1>1, <1>2, ZenonT(40) DEF TypeOK, history
<1>8. ListInv' /\ BlockInv'
  BY <1>1, <1>2, <1>3 DEF ListInv, BlockInv, TypeOK
<1>9. RefsExact'
  <2> SUFFICES ASSUME NEW c \in Bufs
               PROVE  refcnt'[c] = Cardinality(Users(c)')
                                   + IF blockno'[c] \in logged THEN 1 ELSE 0
    BY <1>2, ZenonT(40) DEF RefsExact, Users
  <2>1. refcnt[c] = Cardinality(Users(c)) + IF blockno[c] \in logged THEN 1 ELSE 0
    BY ZenonT(40) DEF RefsExact, Users
  <2>2. IF c = b THEN Cardinality(Users(c)') = Cardinality(Users(c)) + 1
                 ELSE Users(c)' = Users(c)
    BY <1>1, <1>2, UsersAdd, ZenonT(40) DEF TypeOK
  <2>3. IF c = b THEN refcnt'[c] = 1 /\ blockno'[c] = k
                 ELSE refcnt'[c] = refcnt[c] /\ blockno'[c] = blockno[c]
    BY <1>1, ZenonT(40) DEF TypeOK
  <2> QED
    BY <1>1, <1>4, <1>5, <2>1, <2>2, <2>3, UsersFinite
<1>10. ProcInv'
  BY <1>1, <1>2, <1>4 DEF ProcInv, TypeOK
<1>11. OwnerInv'
  <2>1. pc'[p] = "lock" /\ (\A q \in Procs : q # p => pc'[q] = pc[q] /\ cur'[q] = cur[q])
    BY <1>1, <1>2, ZenonT(40) DEF TypeOK
  <2>2. \A c \in Bufs : c # b => valid'[c] = valid[c]
    BY <1>1, ZenonT(40) DEF TypeOK
  <2>3. \A q \in Procs : pc'[q] \in Locked =>
          q # p /\ pc[q] \in Locked /\ cur[q] \in Bufs /\ cur[q] # b
    BY <1>4, <2>1, ZenonT(40) DEF ProcInv, Locked
  <2>4. \A q \in Procs : pc'[q] \in Locked => owner'[cur'[q]] = q /\ valid'[cur'[q]]
    <3> SUFFICES ASSUME NEW q \in Procs, pc'[q] \in Locked
                 PROVE  owner[cur'[q]] = q /\ valid'[cur'[q]]
      BY <1>2, ZenonT(40)
    <3>1. pc[q] \in Locked /\ cur'[q] = cur[q] /\ cur[q] \in Bufs /\ cur[q] # b
      BY <2>1, <2>3, ZenonT(40)
    <3>2. owner[cur[q]] = q /\ valid[cur[q]]
      BY <3>1, ZenonT(40) DEF OwnerInv
    <3>3. valid'[cur[q]] = valid[cur[q]]
      BY <2>2, <3>1, ZenonT(40)
    <3> QED
      BY <3>1, <3>2, <3>3, ZenonT(40)
  <2>5. pc[p] \notin Locked /\ (\A c \in Bufs : owner[c] # None => owner[c] \in Procs)
    BY <1>2, ZenonT(40) DEF Locked, TypeOK
  <2>6. \A c \in Bufs : owner[c] # None => owner[c] # p
    BY <2>5, ZenonT(40) DEF OwnerInv
  <2>7. \A c \in Bufs : owner'[c] # None => pc'[owner'[c]] \in Locked /\ cur'[owner'[c]] = c
    <3> SUFFICES ASSUME NEW c \in Bufs, owner[c] # None
                 PROVE  pc'[owner[c]] \in Locked /\ cur'[owner[c]] = c
      BY <1>2, ZenonT(40)
    <3>1. pc[owner[c]] \in Locked /\ cur[owner[c]] = c
      BY ZenonT(40) DEF OwnerInv
    <3>2. pc'[owner[c]] = pc[owner[c]] /\ cur'[owner[c]] = cur[owner[c]]
      BY <2>1, <2>5, <2>6, ZenonT(40)
    <3> QED
      BY <3>1, <3>2, ZenonT(40)
  <2> QED
    BY <2>4, <2>7, ZenonT(40) DEF OwnerInv
<1>12. DataInv'
  <2>1. \A c \in Bufs : blockno'[c] # None /\ valid'[c] => data'[c] = latest'[blockno'[c]]
    BY <1>1, <1>2 DEF DataInv, TypeOK, history
  <2>2. \A m \in logged : \E c \in Bufs : blockno'[c] = m /\ valid'[c]
    BY <1>1, <1>4 DEF DataInv, TypeOK
  <2>3. \A q \in Procs : pc'[q] = "written" =>
          q # p /\ pc[q] = "written" /\ cur'[q] = cur[q] /\ cur[q] \in Bufs \ {b}
          /\ blockno'[cur[q]] = blockno[cur[q]]
    BY <1>1, <1>2, <1>4, ZenonT(40) DEF ProcInv, TypeOK
  <2>4. UNCHANGED <<disk, logged, latest>>
    BY <1>2, ZenonT(40) DEF history
  <2>5. \A q \in Procs : pc'[q] = "written" =>
          blockno'[cur'[q]] \in logged' /\ disk'[blockno'[cur'[q]]] = latest'[blockno'[cur'[q]]]
    <3> SUFFICES ASSUME NEW q \in Procs, pc'[q] = "written"
                 PROVE  /\ blockno'[cur'[q]] \in logged
                        /\ disk[blockno'[cur'[q]]] = latest[blockno'[cur'[q]]]
      BY <2>4, ZenonT(40)
    <3>1. pc[q] = "written" /\ cur'[q] = cur[q] /\ blockno'[cur[q]] = blockno[cur[q]]
      BY <2>3, ZenonT(40)
    <3>2. blockno[cur[q]] \in logged /\ disk[blockno[cur[q]]] = latest[blockno[cur[q]]]
      BY <3>1, ZenonT(40) DEF DataInv
    <3>3. blockno'[cur'[q]] = blockno[cur[q]]
      BY <3>1, ZenonT(40)
    <3> QED
      BY <3>2, <3>3, ZenonT(40)
  <2> QED
    BY <2>1, <2>2, <2>4, <2>5, ZenonT(40) DEF DataInv
<1>13. LruInv'
  <2>1. \A c \in Bufs : refcnt'[c] = 0 => refcnt[c] = 0
    BY <1>1, ZenonT(40) DEF TypeOK
  <2> QED
    BY <1>2, <2>1, ZenonT(40) DEF LruInv, TypeOK, history
<1> QED
  BY <1>7, <1>8, <1>9, <1>10, <1>11, <1>12, <1>13, ZenonT(40)

-----------------------------------------------------------------------------
(* The sleeplock *)

\* What a step leaves as it is when it touches no reference and no list.
LEMMA Frame ==
  ASSUME IInv, UNCHANGED <<blockno, refcnt, list, cur, want, older, logged>>
  PROVE  ListInv' /\ BlockInv' /\ RefsExact' /\ LruInv'
BY DEF IInv, ListInv, BlockInv, RefsExact, LruInv

\* bread() reads the block unless its buffer is valid; when the log still has to
\* install it, it is.
LEMMA BreadInv ==
  ASSUME IInv, NEW p \in Procs, Bread(p) PROVE IInv'
<1> USE DEF IInv
<1> DEFINE b == cur[p]
<1>1. /\ pc[p] = "lock" /\ owner[b] = None /\ owner' = [owner EXCEPT ![b] = p]
      /\ IF valid[b] THEN UNCHANGED <<data, valid>>
         ELSE /\ data' = [data EXCEPT ![b] = disk[blockno[b]]]
              /\ valid' = [valid EXCEPT ![b] = TRUE]
      /\ pc' = [pc EXCEPT ![p] = "held"]
      /\ UNCHANGED <<blockno, refcnt, list, disk, logged, cur, want, panicked, history>>
  BY ZenonT(40) DEF Bread, At
<1>2. b \in Bufs /\ blockno[b] \in Blocks /\ blockno[b] = want[p]
  BY <1>1, ZenonT(40) DEF ProcInv
<1>3. TypeOK'
  <2>1. data' \in [Bufs -> Vals \cup {None}] /\ valid' \in [Bufs -> BOOLEAN]
    <3>1. data \in [Bufs -> Vals \cup {None}] /\ valid \in [Bufs -> BOOLEAN]
          /\ disk[blockno[b]] \in Vals
      BY <1>2, ZenonT(40) DEF TypeOK
    <3>2. CASE valid[b]
      BY <1>1, <3>1, <3>2, ZenonT(40)
    <3>3. CASE ~valid[b]
      BY <1>1, <3>1, <3>3, ZenonT(40)
    <3> QED
      BY <3>2, <3>3, ZenonT(40)
  <2> QED
    BY <1>1, <2>1, ZenonT(40) DEF TypeOK, Locked, history
<1>4. ListInv' /\ BlockInv' /\ RefsExact' /\ LruInv'
  BY <1>1, Frame, ZenonT(40) DEF history
<1>5. ProcInv'
  BY <1>1, ZenonT(40) DEF ProcInv, TypeOK
<1>6. \A c \in Bufs : IF c = b THEN valid'[c] ELSE valid'[c] = valid[c] /\ data'[c] = data[c]
  BY <1>1, <1>2, ZenonT(40) DEF TypeOK
<1>7. OwnerInv'
  <2>1. \A q \in Procs : pc'[q] \in Locked => owner'[cur'[q]] = q /\ valid'[cur'[q]]
    <3> SUFFICES ASSUME NEW q \in Procs, pc'[q] \in Locked
                 PROVE  owner'[cur[q]] = q /\ valid'[cur[q]]
      BY <1>1, ZenonT(40)
    <3>1. CASE q = p
      BY <1>1, <1>2, <1>6, <3>1, ZenonT(40) DEF TypeOK
    <3>2. CASE q # p
      <4>1. pc[q] \in Locked /\ cur[q] \in Bufs /\ owner[cur[q]] = q
        BY <1>1, <3>2 DEF OwnerInv, ProcInv, TypeOK, Locked
      <4> QED
        <5>1. cur[q] # b
          BY <1>1, <4>1, Constants, ZenonT(40)
        <5>2. valid[cur[q]]
          BY <4>1, ZenonT(40) DEF OwnerInv
        <5> QED
          BY <1>1, <1>6, <4>1, <5>1, <5>2, ZenonT(40) DEF TypeOK
    <3> QED
      BY <3>1, <3>2, ZenonT(40)
  <2>2. \A c \in Bufs : owner'[c] # None => pc'[owner'[c]] \in Locked /\ cur'[owner'[c]] = c
    BY <1>1, <1>2 DEF OwnerInv, TypeOK, Locked
  <2> QED
    BY <2>1, <2>2, ZenonT(40) DEF OwnerInv
<1>8. data'[b] = latest[blockno[b]]
  <2>1. CASE valid[b]
    BY <1>1, <1>2, <2>1, Constants, ZenonT(40) DEF DataInv
  <2>2. CASE ~valid[b]
    <3>1. \A c \in Bufs : blockno[c] = blockno[b] => c = b
      BY <1>2, Constants, ZenonT(40) DEF BlockInv
    <3>2. blockno[b] \notin logged
      BY <2>2, <3>1 DEF DataInv
    <3> QED
      BY <1>1, <1>2, <2>2, <3>2 DEF DataInv, TypeOK
  <2> QED
    BY <2>1, <2>2, ZenonT(40)
<1>9. DataInv'
  <2>1. \A c \in Bufs : blockno[c] # None /\ valid'[c] => data'[c] = latest[blockno[c]]
    BY <1>6, <1>8 DEF DataInv
  <2>2. \A m \in logged : \E c \in Bufs : blockno[c] = m /\ valid'[c]
    BY <1>6, ZenonT(40) DEF DataInv
  <2> QED
    BY <1>1, <2>1, <2>2 DEF DataInv, TypeOK, history
<1> QED
  BY <1>3, <1>4, <1>5, <1>7, <1>9, ZenonT(40)

\* bwrite() puts the last written contents on disk.
LEMMA BwriteInv ==
  ASSUME IInv, NEW p \in Procs, Bwrite(p) PROVE IInv'
<1> USE DEF IInv
<1> DEFINE b == cur[p]
<1>1. /\ pc[p] = "held" /\ blockno[b] \in logged
      /\ disk' = [disk EXCEPT ![blockno[b]] = data[b]]
      /\ pc' = [pc EXCEPT ![p] = "written"]
      /\ UNCHANGED <<blockno, valid, refcnt, data, owner, list, logged, cur, want, panicked,
                     history>>
  BY ZenonT(40) DEF Bwrite, At
<1>2. b \in Bufs /\ blockno[b] \in Blocks /\ valid[b] /\ data[b] = latest[blockno[b]]
  <2>1. b \in Bufs /\ blockno[b] \in Blocks /\ valid[b]
    BY <1>1, ZenonT(40) DEF ProcInv, OwnerInv, Locked
  <2> QED
    BY <2>1, Constants, ZenonT(40) DEF DataInv
<1>3. TypeOK'
  BY <1>1, <1>2, ZenonT(40) DEF TypeOK, Locked, history
<1>4. ListInv' /\ BlockInv' /\ RefsExact' /\ LruInv'
  BY <1>1, Frame, ZenonT(40) DEF history
<1>5. ProcInv' /\ OwnerInv'
  BY <1>1 DEF ProcInv, OwnerInv, TypeOK, Locked
<1>6. \A k \in Blocks : disk'[k] = IF k = blockno[b] THEN latest[k] ELSE disk[k]
  BY <1>1, <1>2, ZenonT(40) DEF TypeOK
<1>7. DataInv'
  BY <1>1, <1>2, <1>6 DEF DataInv, ProcInv, TypeOK, history
<1> QED
  BY <1>3, <1>4, <1>5, <1>7, ZenonT(40)

\* The first half of brelse().
LEMMA BrelseUnlockInv ==
  ASSUME IInv, NEW p \in Procs, BrelseUnlock(p) PROVE IInv'
<1> USE DEF IInv
<1> DEFINE b == cur[p]
<1>1. /\ pc[p] \in {"held", "installed"}
      /\ owner' = [owner EXCEPT ![b] = None] /\ pc' = [pc EXCEPT ![p] = "release"]
      /\ UNCHANGED <<blockno, valid, refcnt, data, list, disk, logged, cur, want, panicked,
                     history>>
  BY ZenonT(40) DEF BrelseUnlock, At
<1>2. b \in Bufs /\ owner[b] = p
  BY <1>1, ZenonT(40) DEF ProcInv, OwnerInv, Locked
<1>3. TypeOK'
  BY <1>1, ZenonT(40) DEF TypeOK, history
<1>4. ListInv' /\ BlockInv' /\ RefsExact' /\ LruInv'
  BY <1>1, Frame, ZenonT(40) DEF history
<1>5. ProcInv' /\ OwnerInv'
  BY <1>1, <1>2 DEF ProcInv, OwnerInv, TypeOK, Locked
<1>6. DataInv'
  BY <1>1 DEF DataInv, TypeOK, history
<1> QED
  BY <1>3, <1>4, <1>5, <1>6, ZenonT(40)

-----------------------------------------------------------------------------
(* The log's pin *)

\* log_write() changes the buffer and pins it, once.
LEMMA LogWriteInv ==
  ASSUME IInv, NEW p \in Procs, NEW v \in Vals, LogWrite(p, v) PROVE IInv'
<1> USE DEF IInv
<1> DEFINE b == cur[p]
           k == want[p]
<1>1. /\ pc[p] = "held"
      /\ data' = [data EXCEPT ![b] = v] /\ latest' = [latest EXCEPT ![k] = v]
      /\ refcnt' = IF blockno[b] \in logged THEN refcnt ELSE [refcnt EXCEPT ![b] = @ + 1]
      /\ logged' = logged \cup {blockno[b]}
      /\ UNCHANGED <<blockno, valid, owner, list, disk, pc, cur, want, panicked, older>>
  BY ZenonT(40) DEF LogWrite, At, Bpin
<1>2. b \in Bufs /\ k \in Blocks /\ blockno[b] = k /\ valid[b] /\ owner[b] = p
  BY <1>1, ZenonT(40) DEF ProcInv, OwnerInv, Locked
<1>3. \A c \in Bufs : c # b => blockno[c] # k
  BY <1>2, Constants, ZenonT(40) DEF BlockInv
<1>4. TypeOK'
  <2>1. refcnt' \in [Bufs -> Nat]
    <3>1. refcnt \in [Bufs -> Nat]
      BY ZenonT(40) DEF TypeOK
    <3>2. refcnt[b] \in Nat
      BY <1>2, <3>1, ZenonT(40)
    <3>3. refcnt[b] + 1 \in Nat
      BY <3>2
    <3> QED
      BY <1>1, <1>2, <3>1, <3>3, ZenonT(40)
  <2> QED
    BY <1>1, <1>2, <2>1 DEF TypeOK
<1>5. ListInv' /\ BlockInv' /\ ProcInv' /\ OwnerInv'
  BY <1>1 DEF ListInv, BlockInv, ProcInv, OwnerInv
<1>6. RefsExact'
  <2> SUFFICES ASSUME NEW c \in Bufs
               PROVE  refcnt'[c] = Cardinality(Users(c))
                                   + IF blockno[c] \in logged' THEN 1 ELSE 0
    BY <1>1 DEF RefsExact, Users
  <2>1. refcnt[c] = Cardinality(Users(c)) + IF blockno[c] \in logged THEN 1 ELSE 0
    BY ZenonT(40) DEF RefsExact, Users
  <2>2. refcnt'[c] = IF c = b /\ k \notin logged THEN refcnt[c] + 1 ELSE refcnt[c]
    BY <1>1, <1>2, ZenonT(40) DEF TypeOK
  <2>3. blockno[c] \in logged' <=> c = b \/ blockno[c] \in logged
    BY <1>1, <1>2, <1>3, ZenonT(40)
  <2> QED
    BY <1>2, <2>1, <2>2, <2>3, UsersFinite
<1>7. DataInv'
  <2>1. \A c \in Bufs : blockno[c] # None /\ valid[c] => data'[c] = latest'[blockno[c]]
    BY <1>1, <1>2, <1>3 DEF DataInv, TypeOK
  <2>2. \A m \in Blocks \ logged' : disk[m] = latest'[m]
    BY <1>1, <1>2, ZenonT(40) DEF DataInv, TypeOK
  <2>3. \A m \in logged' : \E c \in Bufs : blockno[c] = m /\ valid[c]
    BY <1>1, <1>2, ZenonT(40) DEF DataInv
  <2>4. \A q \in Procs : pc[q] = "written" =>
          blockno[cur[q]] \in logged' /\ disk[blockno[cur[q]]] = latest'[blockno[cur[q]]]
    <3> SUFFICES ASSUME NEW q \in Procs, pc[q] = "written"
                 PROVE  blockno[cur[q]] \in logged'
                        /\ disk[blockno[cur[q]]] = latest'[blockno[cur[q]]]
      BY ZenonT(40)
    <3>1. cur[q] \in Bufs \ {b}
      BY <1>1, <1>2 DEF ProcInv, OwnerInv, Locked
    <3>2. blockno[cur[q]] \in Blocks \ {k}
      BY <1>3, <3>1, ZenonT(40) DEF ProcInv
    <3> QED
      BY <1>1, <3>2 DEF DataInv, TypeOK
  <2> QED
    BY <1>1, <2>1, <2>2, <2>3, <2>4 DEF DataInv
<1>8. LruInv'
  <2>1. \A c \in Bufs : refcnt'[c] = 0 => refcnt[c] = 0
    BY <1>1 DEF TypeOK
  <2> QED
    BY <1>1, <2>1, ZenonT(40) DEF LruInv, TypeOK
<1> QED
  BY <1>4, <1>5, <1>6, <1>7, <1>8, ZenonT(40)

\* bunpin() takes the pin away once the block is on disk.
LEMMA BunpinInv ==
  ASSUME IInv, NEW p \in Procs, Bunpin(p) PROVE IInv'
<1> USE DEF IInv
<1> DEFINE b == cur[p]
<1>1. /\ pc[p] = "written" /\ refcnt' = [refcnt EXCEPT ![b] = @ - 1]
      /\ logged' = logged \ {blockno[b]} /\ pc' = [pc EXCEPT ![p] = "installed"]
      /\ UNCHANGED <<blockno, valid, data, owner, list, disk, cur, want, panicked, history>>
  BY ZenonT(40) DEF Bunpin, At
<1>2. b \in Bufs /\ blockno[b] \in logged /\ disk[blockno[b]] = latest[blockno[b]]
      /\ blockno[b] \in Blocks /\ owner[b] = p
  BY <1>1, ZenonT(40) DEF ProcInv, OwnerInv, DataInv, Locked
<1>3. refcnt[b] >= 2
  BY <1>2, UserCounts, ZenonT(40)
<1>4. \A c \in Bufs : c # b => blockno[c] # blockno[b]
  BY <1>2, Constants, ZenonT(40) DEF BlockInv
<1>5. TypeOK'
  <2>1. refcnt' \in [Bufs -> Nat]
    <3>1. refcnt \in [Bufs -> Nat]
      BY ZenonT(40) DEF TypeOK
    <3>2. refcnt[b] \in Nat
      BY <1>2, <3>1, ZenonT(40)
    <3>3. refcnt[b] - 1 \in Nat
      BY <1>3, <3>2
    <3> QED
      BY <1>1, <1>2, <3>1, <3>3, ZenonT(40)
  <2> QED
    BY <1>1, <2>1, ZenonT(40) DEF TypeOK, Locked, history
<1>6. ListInv' /\ BlockInv' /\ ProcInv' /\ OwnerInv'
  BY <1>1 DEF ListInv, BlockInv, ProcInv, OwnerInv, TypeOK, Locked
<1>7. RefsExact'
  <2> SUFFICES ASSUME NEW c \in Bufs
               PROVE  refcnt'[c] = Cardinality(Users(c))
                                   + IF blockno[c] \in logged' THEN 1 ELSE 0
    BY <1>1, ZenonT(40) DEF RefsExact, Users
  <2>1. refcnt[c] = Cardinality(Users(c)) + IF blockno[c] \in logged THEN 1 ELSE 0
    BY ZenonT(40) DEF RefsExact, Users
  <2>2. refcnt'[c] = IF c = b THEN refcnt[c] - 1 ELSE refcnt[c]
    BY <1>1, <1>2, ZenonT(40) DEF TypeOK
  <2>3. blockno[c] \in logged' <=> c # b /\ blockno[c] \in logged
    BY <1>1, <1>2, <1>4, ZenonT(40)
  <2>4. Cardinality(Users(c)) \in Nat
    BY UsersFinite, ZenonT(40)
  <2>5. CASE c = b
    BY <1>2, <2>1, <2>2, <2>3, <2>4, <2>5
  <2>6. CASE c # b
    BY <2>1, <2>2, <2>3, <2>6, ZenonT(40)
  <2> QED
    BY <2>5, <2>6, ZenonT(40)
<1>8. DataInv'
  <2>1. \A m \in Blocks \ logged' : disk[m] = latest[m]
    BY <1>1, <1>2, ZenonT(40) DEF DataInv
  <2>2. \A m \in logged' : \E c \in Bufs : blockno[c] = m /\ valid[c]
    BY <1>1, ZenonT(40) DEF DataInv
  <2>3. \A q \in Procs : pc'[q] = "written" => pc[q] = "written" /\ blockno[cur[q]] \in logged'
    <3> SUFFICES ASSUME NEW q \in Procs, pc'[q] = "written"
                 PROVE  pc[q] = "written" /\ blockno[cur[q]] \in logged'
      BY ZenonT(40)
    <3>1. q # p /\ pc[q] = "written"
      BY <1>1, ZenonT(40) DEF TypeOK
    <3>2. cur[q] \in Bufs \ {b}
      BY <1>2, <3>1 DEF ProcInv, OwnerInv, Locked
    <3> QED
      BY <1>1, <1>4, <3>1, <3>2, ZenonT(40) DEF DataInv
  <2> QED
    BY <1>1, <2>1, <2>2, <2>3, ZenonT(40) DEF DataInv, history
<1>9. LruInv'
  <2>1. \A c \in Bufs : refcnt'[c] = 0 => refcnt[c] = 0
    BY <1>1, <1>3 DEF TypeOK
  <2> QED
    BY <1>1, <2>1, ZenonT(40) DEF LruInv, TypeOK, history
<1> QED
  BY <1>5, <1>6, <1>7, <1>8, <1>9, ZenonT(40)

-----------------------------------------------------------------------------
(* The list *)

\* List l has b first, and the others in the order they have in list.
Moved(l, b) ==
  /\ l \in [Bufs -> Bufs] /\ l[1] = b
  /\ \A c \in Bufs : \E i \in Bufs : l[i] = c
  /\ \A i \in Bufs \ {1} : \E m \in Bufs :
       /\ l[i] = list[m] /\ list[m] # b
       /\ \A j \in Bufs \ {1}, n \in Bufs :
            l[j] = list[n] => (i < j <=> m < n) /\ (i = j <=> m = n)

\* Moving a buffer to the head of the list keeps the order of the others.
LEMMA ToFrontRight ==
  ASSUME TypeOK, ListInv, NEW b \in Bufs
  PROVE  Moved(ToFront(b), b)
<1> USE Constants
<1>1. PICK k \in Bufs : list[k] = b
  BY ZenonT(40) DEF ListInv
<1>2. \A i \in Bufs : (\E j \in i .. NBUF : list[j] = b) <=> i <= k
  BY <1>1 DEF ListInv, Bufs
<1>3. \A i \in Bufs : ToFront(b)[i] = IF i = 1 THEN b
                                     ELSE IF i <= k THEN list[i - 1] ELSE list[i]
  BY <1>2, ZenonT(40) DEF ToFront
<1> DEFINE from(i) == IF i <= k THEN i - 1 ELSE i
<1>4. \A i \in Bufs \ {1} : from(i) \in Bufs /\ from(i) # k /\ ToFront(b)[i] = list[from(i)]
  BY <1>3 DEF Bufs
<1>5. \A i \in Bufs \ {1} : list[from(i)] # b
  BY <1>1, <1>4, ZenonT(40) DEF ListInv
<1>6. \A i, j \in Bufs \ {1} : (i < j <=> from(i) < from(j)) /\ (i = j <=> from(i) = from(j))
  BY DEF Bufs
<1>7. \A c \in Bufs : \E i \in Bufs : ToFront(b)[i] = c
  <2> SUFFICES ASSUME NEW c \in Bufs PROVE \E i \in Bufs : ToFront(b)[i] = c
    BY ZenonT(40)
  <2>1. PICK m \in Bufs : list[m] = c
    BY ZenonT(40) DEF ListInv
  <2>2. CASE m = k
    BY <1>1, <1>3, <2>1, <2>2, ZenonT(40)
  <2>3. CASE m < k
    <3>1. m + 1 \in Bufs /\ m + 1 # 1 /\ m + 1 <= k /\ (m + 1) - 1 = m
      BY <2>3 DEF Bufs
    <3> QED
      BY <1>3, <2>1, <3>1, ZenonT(40)
  <2>4. CASE m > k
    <3>1. m # 1 /\ ~(m <= k)
      BY <2>4 DEF Bufs
    <3> QED
      BY <1>3, <2>1, <3>1, ZenonT(40)
  <2> QED
    BY <2>2, <2>3, <2>4
<1>8. \A i \in Bufs \ {1} : \E m \in Bufs :
        /\ ToFront(b)[i] = list[m] /\ list[m] # b
        /\ \A j \in Bufs \ {1}, n \in Bufs :
             ToFront(b)[j] = list[n] => (i < j <=> m < n) /\ (i = j <=> m = n)
  <2>1. \A j \in Bufs \ {1}, n \in Bufs : ToFront(b)[j] = list[n] => n = from(j)
    BY <1>4 DEF ListInv
  <2> HIDE DEF from
  <2> TAKE i \in Bufs \ {1}
  <2> from(i) \in Bufs
    BY <1>4
  <2> WITNESS from(i) \in Bufs
  <2> QED
    BY <1>4, <1>5, <1>6, <2>1
<1>9. ToFront(b) \in [Bufs -> Bufs]
  <2>1. \A i \in Bufs : ToFront(b)[i] \in Bufs
    BY <1>3, <1>4 DEF TypeOK
  <2> QED
    BY <2>1, ZenonT(40) DEF ToFront
<1> QED
  BY <1>3, <1>7, <1>8, <1>9 DEF Moved

\* The second half of brelse(): the buffer that nobody needs any more is now the
\* last released and the first of the list.
LEMMA BrelseDropInv ==
  ASSUME IInv, NEW p \in Procs, BrelseDrop(p) PROVE IInv'
<1> USE DEF IInv
<1> DEFINE b == cur[p]
<1>1. /\ pc[p] = "release" /\ refcnt' = [refcnt EXCEPT ![b] = @ - 1]
      /\ list' = IF refcnt[b] = 1 THEN ToFront(b) ELSE list
      /\ older' = [c \in Bufs |-> IF c = b THEN Bufs \ {b} ELSE older[c] \ {b}]
      /\ pc' = [pc EXCEPT ![p] = "idle"] /\ cur' = [cur EXCEPT ![p] = None]
      /\ want' = [want EXCEPT ![p] = None]
      /\ UNCHANGED <<blockno, valid, data, owner, disk, logged, panicked, latest>>
  BY ZenonT(40) DEF BrelseDrop, At
<1>2. b \in Bufs
  BY <1>1, ZenonT(40) DEF ProcInv
<1>3. refcnt[b] >= 1 /\ refcnt \in [Bufs -> Nat] /\ list \in [Bufs -> Bufs]
  <2>1. refcnt[b] >= 1
    BY <1>2, UserCounts, ZenonT(40)
  <2> QED
    BY <2>1, ZenonT(40) DEF TypeOK
<1>4. refcnt' \in [Bufs -> Nat]
  <2>1. refcnt[b] \in Nat
    BY <1>2, <1>3, ZenonT(40)
  <2>2. refcnt[b] - 1 \in Nat
    BY <1>3, <2>1
  <2> QED
    BY <1>1, <1>2, <1>3, <2>2, ZenonT(40)
<1>0. refcnt[b] = 1 => Moved(list', b)
  BY <1>1, <1>2, ToFrontRight, ZenonT(40)
<1>5. list' \in [Bufs -> Bufs]
  BY <1>0, <1>1, <1>3, ZenonT(40) DEF Moved
<1>6. TypeOK'
  <2>1. older' \in [Bufs -> SUBSET Bufs]
    BY <1>1, ZenonT(40) DEF TypeOK
  <2> QED
    BY <1>1, <1>4, <1>5, <2>1, ZenonT(40) DEF TypeOK
<1>7. BlockInv'
  BY <1>1, ZenonT(40) DEF BlockInv
<1>8. ListInv'
  <2>1. CASE refcnt[b] # 1
    BY <1>1, <2>1, ZenonT(40) DEF ListInv
  <2>2. CASE refcnt[b] = 1
    <3>1. \A c \in Bufs : \E i \in Bufs : list'[i] = c
      BY <1>0, <2>2, ZenonT(40) DEF Moved
    <3>2. ASSUME NEW i \in Bufs \ {1}, NEW j \in Bufs \ {1}, list'[i] = list'[j]
          PROVE  i = j
      <4>1. PICK m \in Bufs : list'[i] = list[m]
              /\ \A l \in Bufs \ {1}, n \in Bufs :
                   list'[l] = list[n] => (i = l <=> m = n)
        BY <1>0, <2>2 DEF Moved
      <4> QED
        BY <3>2, <4>1, ZenonT(40)
    <3>3. \A i \in Bufs \ {1} : list'[i] # list'[1]
      BY <1>0, <2>2, ZenonT(40) DEF Moved
    <3> QED
      BY <3>1, <3>2, <3>3, ZenonT(40) DEF ListInv
  <2> QED
    BY <2>1, <2>2, ZenonT(40)
<1>9. RefsExact'
  <2> SUFFICES ASSUME NEW c \in Bufs
               PROVE  refcnt'[c] = Cardinality(Users(c)')
                                   + IF blockno[c] \in logged THEN 1 ELSE 0
    BY <1>1, ZenonT(40) DEF RefsExact, Users
  <2>1. refcnt[c] = Cardinality(Users(c)) + IF blockno[c] \in logged THEN 1 ELSE 0
    BY ZenonT(40) DEF RefsExact, Users
  <2>2. CASE c = b
    <3>1. Cardinality(Users(c)) = Cardinality(Users(c)') + 1
      BY <1>1, <2>2, UsersRemove, ZenonT(40) DEF TypeOK
    <3>2. refcnt'[c] = refcnt[c] - 1
      BY <1>1, <1>3, <2>2, ZenonT(40)
    <3>3. IsFiniteSet(Users(c)')
      BY Users(c)' \subseteq Procs, BcacheAssumption, FS_Subset, ZenonT(40) DEF Users
    <3> QED
      BY <2>1, <3>1, <3>2, <3>3, FS_CardinalityType
  <2>3. CASE c # b
    <3>1. Users(c)' = Users(c)
      BY <1>1, <1>2, <2>3, UsersRemove, ZenonT(40) DEF TypeOK
    <3>2. refcnt'[c] = refcnt[c]
      BY <1>1, <1>3, <2>3, ZenonT(40)
    <3> QED
      BY <2>1, <3>1, <3>2, ZenonT(40)
  <2> QED
    BY <2>2, <2>3, ZenonT(40)
<1>10. ProcInv'
  BY <1>1, ZenonT(40) DEF ProcInv, TypeOK
<1>11. OwnerInv'
  BY <1>1 DEF OwnerInv, ProcInv, TypeOK, Locked
<1>12. DataInv'
  BY <1>1 DEF DataInv, TypeOK
<1>13. LruInv'
  <2> SUFFICES ASSUME NEW i \in Bufs, NEW j \in Bufs,
                      refcnt'[list'[i]] = 0, refcnt'[list'[j]] = 0,
                      list'[i] \in older'[list'[j]]
               PROVE  j < i
    BY ZenonT(40) DEF LruInv
  <2>1. list'[i] # b /\ (list'[j] # b => list'[i] \in older[list'[j]])
    BY <1>1, <1>2, <1>5, ZenonT(40) DEF TypeOK
  <2>2. \A c \in Bufs : c # b /\ refcnt'[c] = 0 => refcnt[c] = 0
    BY <1>1, <1>3, ZenonT(40)
  <2>3. CASE refcnt[b] # 1
    <3>1. refcnt'[b] # 0
      BY <1>1, <1>2, <1>3, <2>3
    <3>2. list'[j] # b
      BY <3>1, ZenonT(40)
    <3> QED
      BY <1>1, <1>3, <2>1, <2>2, <2>3, <3>2, ZenonT(40) DEF LruInv
  <2>4. CASE refcnt[b] = 1
    <3>1. Moved(list', b)
      BY <1>0, <2>4, ZenonT(40)
    <3>2. i # 1
      BY <2>1, <3>1, ZenonT(40) DEF Moved
    <3>3. CASE j = 1
      BY <3>2, <3>3 DEF Bufs
    <3>4. CASE j # 1
      <4>1. PICK m \in Bufs : list'[j] = list[m] /\ list[m] # b
              /\ \A l \in Bufs \ {1}, n \in Bufs :
                   list'[l] = list[n] => (j < l <=> m < n) /\ (j = l <=> m = n)
        BY <3>1, <3>4 DEF Moved
      <4>2. PICK n \in Bufs : list'[i] = list[n]
        BY <1>5, <3>2, ZenonT(40) DEF ListInv
      <4>3. list[n] \in older[list[m]] /\ refcnt[list[n]] = 0 /\ refcnt[list[m]] = 0
        BY <1>3, <2>1, <2>2, <4>1, <4>2, ZenonT(40)
      <4>4. m < n
        BY <4>3, ZenonT(40) DEF LruInv
      <4> QED
        BY <3>2, <4>1, <4>2, <4>4, ZenonT(40)
    <3> QED
      BY <3>3, <3>4, ZenonT(40)
  <2> QED
    BY <2>3, <2>4, ZenonT(40)
<1> QED
  BY <1>6, <1>7, <1>8, <1>9, <1>10, <1>11, <1>12, <1>13, ZenonT(40)

-----------------------------------------------------------------------------
(* The theorems *)

\* Every step preserves the invariant.
LEMMA NextInv ==
  ASSUME IInv, [Next]_vars PROVE IInv'
<1>1. ASSUME UNCHANGED <<blockno, valid, refcnt, data, owner, list, disk, logged, pc, cur,
                         want, history>>, panicked' \in BOOLEAN
      PROVE  IInv'
  <2>1. TypeOK'
    BY <1>1, ZenonT(40) DEF IInv, TypeOK, history
  <2>2. ListInv' /\ BlockInv' /\ RefsExact' /\ LruInv'
    BY <1>1, Frame, ZenonT(40) DEF history
  <2>3. ProcInv' /\ OwnerInv' /\ DataInv'
    BY <1>1, ZenonT(40) DEF IInv, ProcInv, OwnerInv, DataInv, history
  <2> QED
    BY <2>1, <2>2, <2>3, ZenonT(40) DEF IInv
<1>2. CASE UNCHANGED vars
  BY <1>1, <1>2, ZenonT(40) DEF IInv, TypeOK, vars, history
<1>3. ASSUME NEW p \in Procs, NEW k \in Blocks, BgetPanic(p, k) PROVE IInv'
  BY <1>1, <1>3, ZenonT(40) DEF BgetPanic
<1> QED
  BY <1>2, <1>3, BgetHitInv, BgetRecycleInv, BreadInv, BwriteInv, BrelseUnlockInv,
     LogWriteInv, BunpinInv, BrelseDropInv, ZenonT(40) DEF Next

\* The invariant holds in every reachable state, and gives what users rely on.
THEOREM Invariance == Spec => []IInv
<1>1. Init => IInv
  BY InitInv, ZenonT(40)
<1>2. IInv /\ [Next]_vars => IInv'
  BY NextInv, ZenonT(40)
<1> QED
  BY <1>1, <1>2, PTL DEF Spec

\* bget(), bread() and brelse() keep one buffer to a block and count its users
\* exactly, and whoever gets a buffer has the block it asked for, alone, with its
\* latest contents.
THEOREM BcacheRight == Spec => []CacheRight
<1>1. ASSUME IInv PROVE Coherent
  <2> SUFFICES ASSUME NEW p \in Procs, pc[p] \in Locked
               PROVE  /\ owner[cur[p]] = p /\ blockno[cur[p]] = want[p]
                      /\ data[cur[p]] = latest[want[p]]
    BY ZenonT(40) DEF Coherent
  <2>1. cur[p] \in Bufs /\ want[p] \in Blocks /\ blockno[cur[p]] = want[p]
    BY <1>1, ZenonT(40) DEF IInv, ProcInv, Locked
  <2>2. owner[cur[p]] = p /\ valid[cur[p]]
    BY <1>1, ZenonT(40) DEF IInv, OwnerInv
  <2>3. blockno[cur[p]] # None
    BY <2>1, Constants, ZenonT(40)
  <2>4. data[cur[p]] = latest[blockno[cur[p]]]
    BY <1>1, <2>1, <2>2, <2>3, ZenonT(40) DEF IInv, DataInv
  <2> QED
    BY <2>1, <2>2, <2>4, ZenonT(40)
<1>2. IInv => CacheRight
  BY <1>1, ZenonT(40) DEF IInv, CacheRight, OneBuffer, ListInv, BlockInv
<1> QED
  BY <1>2, Invariance, PTL

\* bget() recycles the least recently used of the unused buffers.
THEOREM BcacheLeastRecent == Spec => LeastRecent
<1> DEFINE Right == \A b, c \in Bufs : blockno'[b] # blockno[b] /\ refcnt[c] = 0
                                        => c \notin older[b]
<1>1. ASSUME IInv, [Next]_vars PROVE [Right]_vars
  <2> SUFFICES ASSUME NEW b \in Bufs, NEW c \in Bufs, blockno'[b] # blockno[b],
                      refcnt[c] = 0
               PROVE  c \notin older[b]
    BY ZenonT(40)
  <2>1. PICK p \in Procs, k \in Blocks : BgetRecycle(p, k)
    BY <1>1 DEF Next, vars, BgetHit, BgetPanic, Bread, Bwrite, Bunpin, BrelseUnlock,
                BrelseDrop, LogWrite
  <2>2. PICK i \in Bufs : /\ refcnt[list[i]] = 0 /\ blockno' = [blockno EXCEPT ![list[i]] = k]
                          /\ \A j \in i + 1 .. NBUF : refcnt[list[j]] # 0
    BY <2>1, ZenonT(40) DEF BgetRecycle, Unused
  <2>3. list[i] = b
    BY <1>1, <2>2, ZenonT(40) DEF IInv, TypeOK
  <2>4. PICK j \in Bufs : list[j] = c
    BY <1>1, ZenonT(40) DEF IInv, ListInv
  <2>5. ~(i < j)
    BY <2>2, <2>4, Constants DEF Bufs
  <2> QED
    BY <1>1, <2>2, <2>3, <2>4, <2>5, ZenonT(40) DEF IInv, LruInv
<1> QED
  BY <1>1, Invariance, PTL DEF Spec, LeastRecent
=============================================================================
