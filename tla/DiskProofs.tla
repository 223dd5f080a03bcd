----------------------------- MODULE DiskProofs ------------------------------
(***************************************************************************)
(* Proofs about module VirtioDisk, for any number of harts and processes,    *)
(* any NUM of at least three and indices of any width that is a multiple of  *)
(* it.                                                                       *)
(***************************************************************************)
EXTENDS VirtioDisk, RingTheorems

\* Time for each leaf.
USE SMTT(20), ZenonT(20)

\* Places of a process: outside its critical sections; from push_off() on, and
\* with the lock; and those at which it has descriptors.
Outer == {"again", "resumed"}
Inner == {"spin", "respin", "post", "notify"}
Holding == {"post", "notify"}
Bare == {"idle", "spin", "again"}
Waiting == {"resumed", "respin"}

TypeInv ==
  /\ TypeOK
  /\ pc \in [Procs -> {"idle"} \cup Outer \cup Inner]
  /\ idx \in [Procs -> {<<>>} \cup [1 .. 3 -> Desc]]
  /\ chan \in [Procs -> Procs \cup {None, "free"}]
  /\ hpc \in [Harts -> {"none", "spin", "loop"}]
  /\ trapped \in [Procs -> BOOLEAN] /\ saved \in [Procs -> BOOLEAN]
  /\ panicked = FALSE

\* The handler runs with interrupts off, over a process outside its critical
\* sections or over the scheduler.
HandlerInv ==
  \A h \in Harts : hpc[h] # "none" =>
    /\ ~sie[h] /\ noff[h] = 1 /\ ~intena[h]
    /\ \A p \in Procs : cur[h] = p => pc[p] \in Outer /\ ~trapped[p]

\* What the interrupt enable bit and the nesting count are on a hart without
\* handler: the place of its process tells.
MaskInv ==
  /\ \A h \in Harts : hpc[h] = "none" /\ cur[h] = None => noff[h] = 0
  /\ \A h \in Harts, p \in Procs : hpc[h] = "none" /\ cur[h] = p =>
       /\ pc[p] \in Inner => ~sie[h] /\ noff[h] = 1 /\ intena[h] /\ ~trapped[p]
       /\ pc[p] \in Outer => noff[h] = 0 /\ (sie[h] <=> ~trapped[p])

\* A process is on one hart or on none; off it waits outside its critical
\* sections, and what sched() saved says whether it is inside a trap.
PlaceInv ==
  /\ \A h \in Harts, p \in Procs : cur[h] = p =>
       pc[p] # "idle" /\ chan[p] = None /\ saved[p] /\ \A g \in Harts : cur[g] = p => g = h
  /\ \A p \in Procs : (\A h \in Harts : cur[h] # p) =>
       pc[p] \in Outer \cup {"idle"} /\ (saved[p] <=> ~trapped[p])
  /\ \A p \in Procs : pc[p] = "idle" => ~trapped[p]

\* Who has the lock.
LockInv ==
  \A h \in Harts :
    holder = h <=> \/ hpc[h] = "loop"
                   \/ \E p \in Procs : cur[h] = p /\ pc[p] \in Holding

HartInv == HandlerInv /\ MaskInv /\ PlaceInv /\ LockInv

\* The three descriptors of a request are chained, lead to its buffer and to its
\* process, and have no other owner.
Chained(p) ==
  LET d == idx[p]
  IN  /\ d \in [1 .. 3 -> Desc]
      /\ d[1] # d[2] /\ d[2] # d[3] /\ d[1] # d[3]
      /\ next[d[1]] = d[2] /\ next[d[2]] = d[3] /\ next[d[3]] = None
      /\ addr[d[2]] = p /\ info[d[1]] = p

DescInv ==
  /\ \A p \in Procs : pc[p] \in Bare => idx[p] = <<>>
  /\ \A p \in Procs : pc[p] \notin Bare => Chained(p)
  /\ \A p, q \in Procs : p # q => Owned(p) \cap Owned(q) = {}
  /\ \A d \in Desc : free[d] <=> \A p \in Procs : d \notin Owned(p)

\* The requests in the two rings, from the oldest on.
availQ == Window(NUM, avail, seen, Gap(WRAP, seen, availIdx))
usedQ == Window(NUM, used, used_idx, Gap(WRAP, used_idx, usedIdx))

In(d, q) == \E i \in 1 .. Len(q) : q[i] = d
Once(q) == \A i, j \in 1 .. Len(q) : q[i] = q[j] => i = j
InAvail(d) == In(d, availQ)
InUsed(d) == In(d, usedQ)
Somewhere(d) == InAvail(d) \/ d \in inflight \/ InUsed(d)

\* Process p waits for the request with head d.
Waits(p, d) == pc[p] \in Waiting /\ busy[p] /\ idx[p][1] = d

\* The slot of the avail ring that is next to be queued.
NextSlot == avail[availIdx % NUM]

\* The rings do not overflow, and each request that waits is in one of them or
\* at work in the device, once.
RingInv ==
  /\ availQ \in Seq(Desc) /\ Once(availQ) /\ Len(availQ) < NUM
  /\ usedQ \in Seq(Desc) /\ Once(usedQ) /\ Len(usedQ) < NUM
  /\ \A d \in Desc : /\ ~(InAvail(d) /\ d \in inflight) /\ ~(InAvail(d) /\ InUsed(d))
                     /\ ~(d \in inflight /\ InUsed(d))
  /\ \A d \in Desc : Somewhere(d) => \E p \in Procs : Waits(p, d)
  /\ \A p \in Procs : pc[p] \in Waiting /\ busy[p] => Somewhere(idx[p][1])
  /\ \A p \in Procs : pc[p] = "notify" => NextSlot = idx[p][1]

\* What the device has done for each request.
WorkInv ==
  /\ \A p \in Procs : pc[p] \in Bare => ~busy[p] /\ moved[p] = 0
  /\ \A p \in Procs : pc[p] \in Holding => busy[p] /\ moved[p] = 0
  /\ \A p \in Procs : pc[p] \in Waiting =>
       moved[p] = IF busy[p] /\ ~InUsed(idx[p][1]) THEN 0 ELSE 1
  /\ \A d \in Desc : InUsed(d) => status[d] = 0

\* Who sleeps on what.
SleepInv ==
  \A p \in Procs :
    /\ chan[p] \in {None, "free", p}
    /\ chan[p] = p => pc[p] = "resumed" /\ busy[p]
    /\ chan[p] = "free" => pc[p] = "again" /\ \E q \in Procs : Owned(q) # {}

IInv == TypeInv /\ HartInv /\ DescInv /\ RingInv /\ WorkInv /\ SleepInv /\ NoLostCompletion

-----------------------------------------------------------------------------
(* Counting *)

\* What the steps need to know of the numbers of descriptors; it is proved from the
\* theorems on finite sets further down.  Somebody has descriptors; Pos names the
\* three members of S; and a queue without repetitions that misses two descriptors
\* leaves room for one more.
Lent == \E q \in Procs : Owned(q) # {}

Ranked(S) ==
  /\ Pos(S, 0) \in Desc /\ Pos(S, 1) \in Desc /\ Pos(S, 2) \in Desc
  /\ Pos(S, 0) # Pos(S, 1) /\ Pos(S, 1) # Pos(S, 2) /\ Pos(S, 0) # Pos(S, 2)
  /\ S = {Pos(S, 0), Pos(S, 1), Pos(S, 2)}

Spacious(q) ==
  \A a, b \in Desc : a # b /\ ~In(a, q) /\ ~In(b, q) => Len(q) < NUM - 1

-----------------------------------------------------------------------------
(* Constants *)

\* What is assumed of them.
LEMMA Constants ==
  /\ NUM \in Nat /\ NUM >= 3 /\ WRAP \in Nat /\ WRAP > 0
  /\ None \notin Harts /\ None \notin Procs /\ None # "free" /\ "free" \notin Procs
  /\ None \notin Desc
BY DiskAssumption DEF Desc

\* NUM cells and indices modulo WRAP.
LEMMA DiskRing ==
  NUM \in Nat /\ WRAP \in Nat /\ Ring(NUM, WRAP)
BY DiskAssumption DEF Ring

\* WRAP is at least one turn of the ring.
LEMMA WrapWide == WRAP >= NUM
<1> DEFINE k == WRAP \div NUM
<1>1. NUM \in Nat /\ NUM > 0 /\ WRAP \in Nat /\ WRAP > 0 /\ WRAP % NUM = 0
  BY DiskAssumption
<1>2. k \in Int /\ WRAP = (NUM * k) + (WRAP % NUM)
  BY <1>1, ModDef
<1> HIDE DEF k
<1>3. WRAP = NUM * k
  BY <1>1, <1>2
<1>4. k >= 1
  BY <1>1, <1>2, <1>3
<1> QED
  BY <1>1, <1>2, <1>3, <1>4

\* Numbers the steps count with.
LEMMA Small ==
  /\ 0 # 1 /\ 0 + 1 = 1 /\ 1 - 1 = 0 /\ ~(1 < 1) /\ ~(1 > 1) /\ 0 \in 0 .. 1 /\ 1 \in 0 .. 1
  /\ 0 # 255 /\ 0 \in Nat /\ \A n \in Nat : n + 1 \in Nat
OBVIOUS

\* The index of a ring is a number, and its slot that of a descriptor.
LEMMA Index ==
  /\ \A i \in 0 .. WRAP - 1 : i \in Int /\ i \in Nat /\ i % NUM \in Desc
  /\ \A i, j, k, l \in 0 .. WRAP - 1 : {i, j, k, l} \subseteq 0 .. WRAP - 1
BY Constants, ModDef DEF Desc

\* Lengths are natural numbers.
LEMMA LenNat ==
  \A q \in Seq(Desc) : Len(q) \in Nat
OBVIOUS

\* Numbers the descriptors are counted with.
LEMMA Sizes ==
  /\ 0 \in Int /\ 1 \in Int /\ 2 \in Int /\ 2 - 0 + 1 = 3 /\ ~(0 > 2) /\ ~(3 <= 2)
  /\ 3 - 1 = 2 /\ 2 - 1 = 1 /\ 1 - 1 = 0 /\ 1 + 1 = 2 /\ 3 # 0 /\ 2 # 0 /\ 1 # 0
  /\ NUM - 1 \in Int /\ ~(0 > NUM - 1) /\ (NUM - 1) - 0 + 1 = NUM
  /\ NUM # 0 /\ NUM - 1 # 0 /\ (NUM - 1) - 1 = NUM - 2
BY Constants

\* Small numbers of free descriptors, and lengths that leave room.
LEMMA Orders ==
  /\ \A n \in Nat : /\ n \in Int /\ (1 > n => n = 0) /\ n - 1 + 1 = n
                    /\ (n <= NUM - 2 => n < NUM - 1) /\ (n < 3 => n <= 2)
  /\ \A m, n \in Nat : m <= n /\ n <= 2 => m <= 2 /\ m < 3
  /\ \A d \in Desc : d \in Int
BY Constants DEF Desc

\* The first three descriptors.
LEMMA Firsts ==
  \A i \in 0 .. 2 : /\ i \in Desc /\ i - 1 \in Int
                    /\ (IF 0 > i - 1 THEN 0 ELSE (i - 1) - 0 + 1) <= 2
BY Constants DEF Desc

\* Three numbers have an order.
LEMMA Sorted ==
  ASSUME NEW x \in Int, NEW y \in Int, NEW z \in Int, x # y, y # z, x # z
  PROVE  \/ (x < y /\ y < z) \/ (x < z /\ z < y) \/ (y < x /\ x < z)
         \/ (y < z /\ z < x) \/ (z < x /\ x < y) \/ (z < y /\ y < x)
OBVIOUS

\* S has a, b and c, in this order.
InOrder(S, a, b, c) ==
  /\ a \in Int /\ b \in Int /\ c \in Int /\ a < b /\ b < c /\ S = {a, b, c}
  /\ Cardinality({}) = 0 /\ Cardinality({a}) = 1 /\ Cardinality({a, b}) = 2

\* Pos names them.
LEMMA Positions ==
  ASSUME NEW S, NEW a, NEW b, NEW c, InOrder(S, a, b, c)
  PROVE  Pos(S, 0) = a /\ Pos(S, 1) = b /\ Pos(S, 2) = c
<1> USE DEF InOrder
<1> DEFINE r(i) == Cardinality({j \in S : j < i})
<1>1. r(a) = 0 /\ r(b) = 1 /\ r(c) = 2
  <2>1. {j \in S : j < a} = {} /\ {j \in S : j < b} = {a} /\ {j \in S : j < c} = {a, b}
    OBVIOUS
  <2> QED
    BY <2>1, ZenonT(40)
<1>2. \A k : Pos(S, k) = CHOOSE i \in S : r(i) = k
  BY DEF Pos
<1> HIDE DEF r
<1>3. Pos(S, 0) = a
  BY <1>1, <1>2
<1>4. Pos(S, 1) = b
  BY <1>1, <1>2
<1>5. Pos(S, 2) = c
  BY <1>1, <1>2
<1> QED
  BY <1>3, <1>4, <1>5, ZenonT(40)

\* Room in a ring before and after a step.
LEMMA Rooms ==
  \A n \in Nat : /\ n < NUM - 1 => n < NUM /\ n + 1 < NUM
                 /\ n < NUM => n - 1 < NUM
BY Constants

\* The descriptors of a request.
LEMMA Triples ==
  /\ \A d \in [1 .. 3 -> Desc] : /\ d # <<>> /\ d[1] \in Desc /\ d[2] \in Desc /\ d[3] \in Desc
                                 /\ {d[i] : i \in DOMAIN d} = {d[1], d[2], d[3]}
  /\ \A a, b, c \in Desc : /\ <<a, b, c>> \in [1 .. 3 -> Desc]
                           /\ <<a, b, c>>[1] = a /\ <<a, b, c>>[2] = b /\ <<a, b, c>>[3] = c
  /\ DOMAIN <<>> = {}
OBVIOUS

-----------------------------------------------------------------------------
(* The two rings *)

\* A queue gets one more entry.
LEMMA QueuePut ==
  ASSUME NEW q \in Seq(Desc), Once(q), NEW d \in Desc, ~In(d, q)
  PROVE  /\ Append(q, d) \in Seq(Desc) /\ Once(Append(q, d)) /\ Len(Append(q, d)) = Len(q) + 1
         /\ \A e : In(e, Append(q, d)) <=> In(e, q) \/ e = d
<1> DEFINE q1 == Append(q, d)
<1>1. /\ q1 \in Seq(Desc) /\ Len(q1) = Len(q) + 1 /\ Len(q) \in Nat
      /\ q1[Len(q) + 1] = d /\ \A i \in 1 .. Len(q) : q1[i] = q[i]
  OBVIOUS
<1> HIDE DEF q1
<1>2. \A i \in 1 .. Len(q1) : i \in 1 .. Len(q) \/ i = Len(q) + 1
  BY <1>1
<1>3. Once(q1)
  BY <1>1, <1>2, ZenonT(40) DEF Once, In
<1>4. ASSUME NEW e PROVE In(e, q1) <=> In(e, q) \/ e = d
  <2>1. 1 .. Len(q) \in SUBSET (1 .. Len(q1)) /\ Len(q) + 1 \in 1 .. Len(q1)
    BY <1>1
  <2> QED
    BY <1>1, <1>2, <2>1, ZenonT(40) DEF In
<1> QED
  BY <1>1, <1>3, <1>4, ZenonT(40) DEF q1

\* A queue loses its first entry.
LEMMA QueueGet ==
  ASSUME NEW q \in Seq(Desc), Once(q), q # <<>>
  PROVE  /\ Head(q) \in Desc /\ In(Head(q), q)
         /\ Tail(q) \in Seq(Desc) /\ Once(Tail(q)) /\ Len(Tail(q)) = Len(q) - 1
         /\ \A e : In(e, Tail(q)) <=> In(e, q) /\ e # Head(q)
<1> DEFINE t == Tail(q)
           a == Head(q)
<1>1. /\ t \in Seq(Desc) /\ Len(t) = Len(q) - 1 /\ Len(q) \in Nat /\ Len(q) > 0
      /\ a = q[1] /\ a \in Desc /\ \A i \in 1 .. Len(t) : t[i] = q[i + 1]
  OBVIOUS
<1> HIDE DEF t, a
<1>2. \A i \in 1 .. Len(t) : i + 1 \in 1 .. Len(q) /\ i + 1 # 1
  BY <1>1
<1>3. \A i \in 1 .. Len(q) : i = 1 \/ (i - 1 \in 1 .. Len(t) /\ t[i - 1] = q[i])
  BY <1>1
<1>4. Once(t)
  <2> SUFFICES ASSUME NEW i \in 1 .. Len(t), NEW j \in 1 .. Len(t), t[i] = t[j] PROVE i = j
    BY ZenonT(40) DEF Once
  <2>1. i + 1 = j + 1
    BY <1>1, <1>2, ZenonT(40) DEF Once
  <2> QED
    BY <2>1
<1>5. 1 \in 1 .. Len(q)
  BY <1>1
<1>6. In(a, q)
  BY <1>1, <1>5, ZenonT(40) DEF In
<1>7. ASSUME NEW e PROVE In(e, t) <=> In(e, q) /\ e # a
  <2>1. In(e, t) => In(e, q) /\ e # a
    BY <1>1, <1>2, <1>5, ZenonT(40) DEF In, Once
  <2>2. In(e, q) /\ e # a => In(e, t)
    BY <1>1, <1>3, ZenonT(40) DEF In
  <2> QED
    BY <2>1, <2>2, ZenonT(40)
<1> QED
  BY <1>1, <1>4, <1>6, <1>7, ZenonT(40) DEF t, a

\* The rings' arrays.
Slots == [Desc -> Desc \cup {None}]

\* Writing the slot the write index is at does not touch what is queued.
LEMMA RingWrite ==
  ASSUME NEW r \in 0 .. WRAP - 1, NEW w \in 0 .. WRAP - 1, NEW d \in Slots, NEW v,
         Gap(WRAP, r, w) < NUM
  PROVE  Window(NUM, [d EXCEPT ![w % NUM] = v], r, Gap(WRAP, r, w))
           = Window(NUM, d, r, Gap(WRAP, r, w))
<1> DEFINE e == [d EXCEPT ![w % NUM] = v]
<1>1. \A c \in 0 .. NUM - 1 : c # Cell(NUM, w) => e[c] = d[c]
  BY ZenonT(40) DEF Cell, Slots, Desc
<1> HIDE DEF e
<1>2. Window(NUM, e, r, Gap(WRAP, r, w)) = Window(NUM, d, r, Gap(WRAP, r, w))
  BY <1>1, DiskRing, WindowKept
<1> QED
  BY <1>2, ZenonT(40) DEF e

\* The write index moves on: what its slot has is queued.
LEMMA RingPut ==
  ASSUME NEW r \in 0 .. WRAP - 1, NEW w \in 0 .. WRAP - 1, NEW d \in Slots,
         Gap(WRAP, r, w) < NUM - 1
  PROVE  Window(NUM, d, r, Gap(WRAP, r, Inc(w)))
           = Append(Window(NUM, d, r, Gap(WRAP, r, w)), d[w % NUM])
<1>1. Inc(w) = Step(WRAP, w) /\ w % NUM = Cell(NUM, w) /\ d \in [0 .. NUM - 1 -> Desc \cup {None}]
  BY ZenonT(40) DEF Inc, Step, Cell, Slots, Desc
<1>2. WRAP > 0 /\ NUM \in Nat /\ WRAP \in Nat
  BY Constants, ZenonT(40)
<1>3. Gap(WRAP, r, w) \in 0 .. WRAP - 1
  BY <1>2, GapRange, ZenonT(40)
<1>4. Gap(WRAP, r, w) < WRAP - 1
  BY <1>2, <1>3, WrapWide
<1>5. Window(NUM, d, r, Gap(WRAP, r, Step(WRAP, w)))
        = Append(Window(NUM, d, r, Gap(WRAP, r, w)), d[Cell(NUM, w)])
  <2>1. d \in [0 .. NUM - 1 -> Desc \cup {None}]
    BY <1>1, ZenonT(40)
  <2> QED
    BY <1>4, <2>1, DiskRing, WindowAppend, ZenonT(90)
<1> QED
  BY <1>1, <1>5, ZenonT(40)

\* The slot the read index is at is read and cleared, and the index moves on.
LEMMA RingGet ==
  ASSUME NEW r \in 0 .. WRAP - 1, NEW w \in 0 .. WRAP - 1, NEW d \in Slots,
         r # w, Gap(WRAP, r, w) < NUM
  PROVE  /\ Window(NUM, d, r, Gap(WRAP, r, w)) # <<>>
         /\ Head(Window(NUM, d, r, Gap(WRAP, r, w))) = d[r % NUM]
         /\ Window(NUM, [d EXCEPT ![r % NUM] = None], Inc(r), Gap(WRAP, Inc(r), w))
              = Tail(Window(NUM, d, r, Gap(WRAP, r, w)))
<1> DEFINE e == [d EXCEPT ![r % NUM] = None]
<1>1. Inc(r) = Step(WRAP, r) /\ r % NUM = Cell(NUM, r) /\ d \in [0 .. NUM - 1 -> Desc \cup {None}]
  BY ZenonT(40) DEF Inc, Step, Cell, Slots, Desc
<1>2. \A c \in 0 .. NUM - 1 : c # Cell(NUM, r) => e[c] = d[c]
  BY ZenonT(40) DEF Cell, Slots, Desc
<1>3. d \in [0 .. NUM - 1 -> Desc \cup {None}]
  BY <1>1, ZenonT(40)
<1> HIDE DEF e
<1>4. /\ Window(NUM, d, r, Gap(WRAP, r, w)) # <<>>
      /\ Head(Window(NUM, d, r, Gap(WRAP, r, w))) = d[Cell(NUM, r)]
      /\ Window(NUM, d, Step(WRAP, r), Gap(WRAP, Step(WRAP, r), w))
           = Tail(Window(NUM, d, r, Gap(WRAP, r, w)))
  <2>1. NUM \in Nat /\ WRAP \in Nat /\ Ring(NUM, WRAP)
    BY DiskRing, ZenonT(40)
  <2>2. ASSUME NEW S, NEW x \in [0 .. NUM - 1 -> S]
        PROVE  /\ Window(NUM, x, r, Gap(WRAP, r, w)) # <<>>
               /\ Head(Window(NUM, x, r, Gap(WRAP, r, w))) = x[Cell(NUM, r)]
               /\ Window(NUM, x, Step(WRAP, r), Gap(WRAP, Step(WRAP, r), w))
                    = Tail(Window(NUM, x, r, Gap(WRAP, r, w)))
    BY <2>1, WindowTail, ZenonT(90)
  <2> QED
    BY <1>3, <2>2, ZenonT(40)
<1>5. Window(NUM, d, Step(WRAP, r), Gap(WRAP, Step(WRAP, r), w))
        = Tail(Window(NUM, d, r, Gap(WRAP, r, w)))
  BY <1>4, ZenonT(40)
<1>6. Gap(WRAP, r, w) <= NUM
  <2>1. Gap(WRAP, r, w) \in 0 .. WRAP - 1
    BY Constants, GapRange, ZenonT(40)
  <2> QED
    BY <2>1, Constants
<1>7. Window(NUM, e, Step(WRAP, r), Gap(WRAP, Step(WRAP, r), w))
        = Window(NUM, d, Step(WRAP, r), Gap(WRAP, Step(WRAP, r), w))
  BY <1>2, <1>6, DiskRing, WindowClear
<1> QED
  BY <1>1, <1>4, <1>5, <1>7, ZenonT(40) DEF e

\* As many requests are queued as the indices are apart.
LEMMA RingLen ==
  ASSUME NEW r \in 0 .. WRAP - 1, NEW w \in 0 .. WRAP - 1, NEW d \in Slots
  PROVE  Len(Window(NUM, d, r, Gap(WRAP, r, w))) = Gap(WRAP, r, w)
<1>1. Gap(WRAP, r, w) \in 0 .. WRAP - 1
  BY Constants, GapRange, ZenonT(40)
<1>2. Gap(WRAP, r, w) \in Nat
  BY <1>1, Constants
<1> QED
  BY <1>2, WindowLen, ZenonT(40)

\* How long the queues are, and that indices stay in range.
LEMMA QueueLens ==
  ASSUME TypeInv
  PROVE  /\ Len(availQ) = Gap(WRAP, seen, availIdx) /\ Len(usedQ) = Gap(WRAP, used_idx, usedIdx)
         /\ \A i \in 0 .. WRAP - 1 : Inc(i) \in 0 .. WRAP - 1
<1>1. /\ seen \in 0 .. WRAP - 1 /\ availIdx \in 0 .. WRAP - 1 /\ used_idx \in 0 .. WRAP - 1
      /\ usedIdx \in 0 .. WRAP - 1 /\ avail \in Slots /\ used \in Slots
  BY ZenonT(40) DEF TypeInv, TypeOK, Slots
<1>2. Len(availQ) = Gap(WRAP, seen, availIdx)
  BY <1>1, RingLen, ZenonT(40) DEF availQ
<1>3. Len(usedQ) = Gap(WRAP, used_idx, usedIdx)
  BY <1>1, RingLen, ZenonT(40) DEF usedQ
<1>4. \A i \in 0 .. WRAP - 1 : Inc(i) \in 0 .. WRAP - 1
  <2>1. \A i : Inc(i) = Step(WRAP, i)
    BY ZenonT(40) DEF Inc, Step
  <2> QED
    BY Constants, <2>1, StepVal, ZenonT(40)
<1> QED
  BY <1>2, <1>3, <1>4, ZenonT(40)

\* Indices that are apart, and not by a whole turn, have different slots.
LEMMA RingApart ==
  ASSUME NEW r \in 0 .. WRAP - 1, NEW w \in 0 .. WRAP - 1, r # w, Gap(WRAP, r, w) < NUM
  PROVE  r % NUM # w % NUM
<1> DEFINE n == Gap(WRAP, r, w)
<1>1. n \in 0 .. WRAP - 1 /\ (r = w <=> n = 0)
  BY Constants, GapRange, ZenonT(40)
<1>2. Cell(NUM, w) = Cell(NUM, r + n)
  BY DiskRing, Cells, ZenonT(40)
<1>a. n < NUM
  BY ZenonT(40)
<1> HIDE DEF n
<1>3. r \in Int /\ r + n \in Int /\ r < r + n /\ (r + n) - r < NUM
  BY <1>1, <1>a, Constants
<1>4. Cell(NUM, r) # Cell(NUM, r + n)
  BY <1>3, CellFacts, Constants
<1> QED
  BY <1>2, <1>4, ZenonT(40) DEF Cell

\* What is queued is in the ring.
LEMMA WindowSlot ==
  ASSUME NEW d, NEW r \in Int, NEW n \in Nat, NEW x, In(x, Window(NUM, d, r, n))
  PROVE  \E i \in Desc : d[i] = x
<1>1. Len(Window(NUM, d, r, n)) = n
  BY WindowLen, ZenonT(40)
<1>2. PICK j \in 1 .. n : Window(NUM, d, r, n)[j] = x
  BY <1>1, ZenonT(40) DEF In
<1>3. d[Cell(NUM, r + (j - 1))] = x
  BY <1>2, WindowAt, ZenonT(40)
<1>4. r + (j - 1) \in Int
  BY <1>2
<1>5. Cell(NUM, r + (j - 1)) \in Desc
  <2>1. NUM \in Nat /\ NUM > 0
    BY Constants
  <2>2. Cell(NUM, r + (j - 1)) \in 0 .. NUM - 1
    BY <1>4, <2>1, CellFacts, ZenonT(40)
  <2> QED
    BY <2>2, ZenonT(40) DEF Desc
<1> QED
  BY <1>3, <1>5, ZenonT(40)

\* Nothing is queued in a ring whose indices are equal.
LEMMA RingEmpty ==
  ASSUME NEW d, NEW r \in 0 .. WRAP - 1
  PROVE  Window(NUM, d, r, Gap(WRAP, r, r)) = <<>>
<1>1. Gap(WRAP, r, r) = 0
  BY Constants, GapRange, ZenonT(40)
<1>2. Window(NUM, d, r, 0) = <<>>
  BY DEF Window
<1> QED
  BY <1>1, <1>2, ZenonT(40)

-----------------------------------------------------------------------------
(* Descriptors *)

\* What a process owns.
LEMMA OwnedIs ==
  ASSUME NEW p \in Procs
  PROVE  /\ idx[p] = <<>> => Owned(p) = {}
         /\ Chained(p) => Owned(p) = {idx[p][1], idx[p][2], idx[p][3]}
BY DEF Owned, Chained

\* Only the head of a chain is in a ring or at work, and before its process has put
\* it there it is not.
LEMMA Heads ==
  ASSUME IInv, NEW p \in Procs, pc[p] \notin Bare
  PROVE  /\ ~Somewhere(idx[p][2])
         /\ pc[p] \in Holding => ~Somewhere(idx[p][1])
<1>1. Chained(p)
  BY ZenonT(40) DEF IInv, DescInv
<1>2. ASSUME NEW d \in Owned(p), Somewhere(d), d \in Desc PROVE Waits(p, d)
  <2>1. PICK q \in Procs : Waits(q, d)
    BY <1>2, ZenonT(40) DEF IInv, RingInv
  <2>2. Chained(q)
    BY <2>1, ZenonT(40) DEF Waits, IInv, DescInv, Waiting, Bare
  <2>3. d \in Owned(q)
    BY <2>1, <2>2, OwnedIs, ZenonT(40) DEF Waits
  <2>4. q = p
    BY <1>2, <2>3, ZenonT(40) DEF IInv, DescInv
  <2> QED
    BY <2>1, <2>4, ZenonT(40)
<1>3. /\ idx[p][1] \in Owned(p) /\ idx[p][2] \in Owned(p) /\ idx[p][1] \in Desc
      /\ idx[p][2] \in Desc /\ idx[p][1] # idx[p][2]
  BY <1>1, OwnedIs DEF Chained
<1>4. ~Waits(p, idx[p][2])
  BY <1>3, ZenonT(40) DEF Waits
<1>5. pc[p] \in Holding => ~Waits(p, idx[p][1])
  BY ZenonT(40) DEF Waits, Holding, Waiting
<1> QED
  BY <1>2, <1>3, <1>4, <1>5, ZenonT(40)

\* A process gets or gives back the descriptors of S, which nobody else owns.
LEMMA DescStep ==
  ASSUME DescInv, NEW p \in Procs, NEW S \in SUBSET Desc,
         \A q \in Procs : q # p => pc'[q] = pc[q] /\ idx'[q] = idx[q] /\ S \cap Owned(q) = {},
         \A d \in Desc : d \notin S => next'[d] = next[d] /\ addr'[d] = addr[d] /\ info'[d] = info[d],
         Owned(p) \in SUBSET S, Owned(p)' \in SUBSET S,
         \A d \in Desc : free'[d] <=> IF d \in S THEN d \notin Owned(p)' ELSE free[d],
         pc'[p] \in Bare => idx'[p] = <<>>, pc'[p] \notin Bare => Chained(p)'
  PROVE  DescInv'
<1>1. \A q \in Procs : q # p => Owned(q)' = Owned(q)
  BY DEF Owned
<1>2. ASSUME NEW q \in Procs, q # p, Chained(q) PROVE Chained(q)'
  <2>1. \A i \in 1 .. 3 : idx[q][i] \in Desc /\ idx[q][i] \notin S
    BY <1>2, OwnedIs DEF Chained
  <2> QED
    BY <1>2, <2>1 DEF Chained
<1>3. \A q \in Procs : (pc'[q] \in Bare => idx'[q] = <<>>) /\ (pc'[q] \notin Bare => Chained(q)')
  BY <1>2, ZenonT(40) DEF DescInv
<1>4. \A q, r \in Procs : q # r => Owned(q)' \cap Owned(r)' = {}
  <2>1. \A q \in Procs : q # p => Owned(q)' \cap Owned(p)' = {}
    BY <1>1
  <2>2. \A q, r \in Procs : q # r /\ q # p /\ r # p => Owned(q)' \cap Owned(r)' = {}
    BY <1>1, ZenonT(40) DEF DescInv
  <2> QED
    BY <2>1, <2>2, ZenonT(40)
<1>5. ASSUME NEW d \in Desc PROVE free'[d] <=> \A q \in Procs : d \notin Owned(q)'
  <2>1. CASE d \in S
    BY <1>1, <2>1, ZenonT(40)
  <2>2. CASE d \notin S
    BY <1>1, <2>2 DEF DescInv
  <2> QED
    BY <2>1, <2>2, ZenonT(40)
<1> QED
  BY <1>3, <1>4, <1>5, ZenonT(40) DEF DescInv

\* Descriptors stay as they are.
LEMMA DescKept ==
  ASSUME DescInv, UNCHANGED <<free, next, addr, info, idx>>,
         \A p \in Procs : pc'[p] \in Bare <=> pc[p] \in Bare
  PROVE  DescInv'
<1>1. \A p \in Procs : Owned(p)' = Owned(p) /\ (Chained(p)' <=> Chained(p))
  BY ZenonT(40) DEF Owned, Chained
<1> QED
  BY <1>1, ZenonT(90) DEF DescInv

-----------------------------------------------------------------------------
(* Harts and the lock *)

\* What the invariant says of hart h when it runs p or nobody.
Local(h, p) ==
  /\ cur[h] \in {None, p}
  /\ hpc[h] # "none" =>
       /\ ~sie[h] /\ noff[h] = 1 /\ ~intena[h]
       /\ cur[h] = p => pc[p] \in Outer /\ ~trapped[p]
  /\ hpc[h] = "none" /\ cur[h] = None => noff[h] = 0
  /\ hpc[h] = "none" /\ cur[h] = p =>
       /\ pc[p] \in Inner => ~sie[h] /\ noff[h] = 1 /\ intena[h] /\ ~trapped[p]
       /\ pc[p] \in Outer => noff[h] = 0 /\ (sie[h] <=> ~trapped[p])
  /\ cur[h] = p => pc[p] # "idle" /\ chan[p] = None /\ saved[p]
  /\ cur[h] # p => pc[p] \in Outer \cup {"idle"} /\ (saved[p] <=> ~trapped[p])
  /\ pc[p] = "idle" => ~trapped[p]
  /\ holder = h <=> hpc[h] = "loop" \/ (cur[h] = p /\ pc[p] \in Holding)
  /\ \A g \in Harts : g # h => cur[g] # p

\* It says nothing else.
LEMMA LocalOf ==
  ASSUME TypeInv, HartInv, NEW h \in Harts, NEW p \in Procs,
         cur[h] = p \/ (cur[h] = None /\ \A g \in Harts : cur[g] # p)
  PROVE  Local(h, p)
<1>1. \A g \in Harts : g # h => cur[g] # p
  BY ZenonT(40) DEF HartInv, PlaceInv
<1>2. cur[h] # p => \A g \in Harts : cur[g] # p
  BY <1>1, ZenonT(40)
<1>3. /\ cur[h] = p => pc[p] # "idle" /\ chan[p] = None /\ saved[p]
      /\ cur[h] # p => pc[p] \in Outer \cup {"idle"} /\ (saved[p] <=> ~trapped[p])
      /\ pc[p] = "idle" => ~trapped[p]
  BY <1>2, ZenonT(40) DEF HartInv, PlaceInv
<1>4. holder = h <=> hpc[h] = "loop" \/ (cur[h] = p /\ pc[p] \in Holding)
  BY Constants, ZenonT(40) DEF HartInv, LockInv
<1>5. hpc[h] # "none" =>
       /\ ~sie[h] /\ noff[h] = 1 /\ ~intena[h]
       /\ cur[h] = p => pc[p] \in Outer /\ ~trapped[p]
  BY ZenonT(40) DEF HartInv, HandlerInv
<1>6. /\ hpc[h] = "none" /\ cur[h] = None => noff[h] = 0
      /\ hpc[h] = "none" /\ cur[h] = p =>
           /\ pc[p] \in Inner => ~sie[h] /\ noff[h] = 1 /\ intena[h] /\ ~trapped[p]
           /\ pc[p] \in Outer => noff[h] = 0 /\ (sie[h] <=> ~trapped[p])
  BY ZenonT(40) DEF HartInv, MaskInv
<1> QED
  BY <1>1, <1>3, <1>4, <1>5, <1>6, ZenonT(40) DEF Local

\* A step of hart h that concerns p alone: what has to be shown is local.
LEMMA HartStep ==
  ASSUME HartInv, NEW h \in Harts, NEW p \in Procs, Local(h, p), Local(h, p)',
         \A g \in Harts : g # h =>
           /\ cur'[g] = cur[g] /\ hpc'[g] = hpc[g] /\ sie'[g] = sie[g]
           /\ noff'[g] = noff[g] /\ intena'[g] = intena[g],
         \A q \in Procs : q # p =>
           /\ pc'[q] = pc[q] /\ trapped'[q] = trapped[q] /\ saved'[q] = saved[q]
           /\ chan'[q] = chan[q] \/ chan'[q] = None,
         holder' # holder => holder \in {None, h} /\ holder' \in {None, h}
  PROVE  HartInv'
<1>a. /\ cur[h] \in {None, p} /\ cur'[h] \in {None, p} /\ \A g \in Harts : g # h => cur[g] # p
      /\ \A q \in Procs : q # None
  BY Constants, ZenonT(40) DEF Local
<1>b. /\ hpc'[h] # "none" =>
           /\ ~sie'[h] /\ noff'[h] = 1 /\ ~intena'[h]
           /\ cur'[h] = p => pc'[p] \in Outer /\ ~trapped'[p]
      /\ holder' = h <=> hpc'[h] = "loop" \/ (cur'[h] = p /\ pc'[p] \in Holding)
  BY ZenonT(40) DEF Local
<1>1. HandlerInv'
  <2> SUFFICES ASSUME NEW g \in Harts, hpc'[g] # "none"
               PROVE  /\ ~sie'[g] /\ noff'[g] = 1 /\ ~intena'[g]
                      /\ \A q \in Procs : cur'[g] = q => pc'[q] \in Outer /\ ~trapped'[q]
    BY ZenonT(40) DEF HandlerInv
  <2>1. CASE g = h
    BY <1>a, <1>b, <2>1, ZenonT(40)
  <2>2. CASE g # h
    BY <1>a, <2>2 DEF HartInv, HandlerInv
  <2> QED
    BY <2>1, <2>2, ZenonT(40)
<1>2. MaskInv'
  <2>1. ASSUME NEW g \in Harts, hpc'[g] = "none", cur'[g] = None PROVE noff'[g] = 0
    BY <2>1 DEF Local, HartInv, MaskInv
  <2>2. ASSUME NEW g \in Harts, NEW q \in Procs, hpc'[g] = "none", cur'[g] = q
        PROVE  /\ pc'[q] \in Inner => ~sie'[g] /\ noff'[g] = 1 /\ intena'[g] /\ ~trapped'[q]
               /\ pc'[q] \in Outer => noff'[g] = 0 /\ (sie'[g] <=> ~trapped'[q])
    <3>1. CASE g = h
      BY <2>2, <3>1, Constants, ZenonT(40) DEF Local
    <3>2. CASE g # h
      BY <1>a, <2>2, <3>2 DEF HartInv, MaskInv
    <3> QED
      BY <3>1, <3>2, ZenonT(40)
  <2> QED
    BY <2>1, <2>2, ZenonT(40) DEF MaskInv
<1>3. PlaceInv'
  <2>1. ASSUME NEW g \in Harts, NEW q \in Procs, cur'[g] = q
        PROVE  /\ pc'[q] # "idle" /\ chan'[q] = None /\ saved'[q]
               /\ \A f \in Harts : cur'[f] = q => f = g
    <3>1. CASE g = h
      BY <2>1, <3>1, Constants DEF Local
    <3>2. CASE g # h
      <4>1. q # p /\ cur[g] = q
        BY <1>a, <2>1, <3>2, ZenonT(40)
      <4>2. /\ pc[q] # "idle" /\ chan[q] = None /\ saved[q]
            /\ \A f \in Harts : cur[f] = q => f = g
        BY <4>1, ZenonT(90) DEF HartInv, PlaceInv
      <4> QED
        BY <1>a, <4>1, <4>2, ZenonT(40)
    <3> QED
      BY <3>1, <3>2, ZenonT(40)
  <2>2. ASSUME NEW q \in Procs, \A g \in Harts : cur'[g] # q
        PROVE  pc'[q] \in Outer \cup {"idle"} /\ (saved'[q] <=> ~trapped'[q])
    <3>1. CASE q = p
      BY <2>2, <3>1, ZenonT(40) DEF Local
    <3>2. CASE q # p
      <4>1. \A g \in Harts : cur[g] # q
        BY <1>a, <2>2, <3>2, ZenonT(40)
      <4> QED
        BY <3>2, <4>1, ZenonT(40) DEF HartInv, PlaceInv
    <3> QED
      BY <3>1, <3>2, ZenonT(40)
  <2>3. ASSUME NEW q \in Procs, pc'[q] = "idle" PROVE ~trapped'[q]
    <3>1. CASE q = p
      BY <2>3, <3>1, ZenonT(40) DEF Local
    <3>2. CASE q # p
      <4>1. pc[q] = "idle" /\ trapped'[q] = trapped[q]
        BY <2>3, <3>2, ZenonT(40)
      <4> QED
        BY <4>1, ZenonT(40) DEF HartInv, PlaceInv
    <3> QED
      BY <3>1, <3>2, ZenonT(40)
  <2> QED
    BY <2>1, <2>2, <2>3, ZenonT(40) DEF PlaceInv
<1>4. LockInv'
  <2> SUFFICES ASSUME NEW g \in Harts
               PROVE  holder' = g <=> \/ hpc'[g] = "loop"
                                      \/ \E q \in Procs : cur'[g] = q /\ pc'[q] \in Holding
    BY ZenonT(40) DEF LockInv
  <2>1. CASE g = h
    BY <1>a, <1>b, <2>1, ZenonT(40)
  <2>2. CASE g # h
    <3>1. holder' = g <=> holder = g
      BY <2>2, Constants, ZenonT(40)
    <3>2. (\E q \in Procs : cur'[g] = q /\ pc'[q] \in Holding)
            <=> \E q \in Procs : cur[g] = q /\ pc[q] \in Holding
      BY <1>a, <2>2, ZenonT(40)
    <3> QED
      BY <2>2, <3>1, <3>2, ZenonT(40) DEF HartInv, LockInv
  <2> QED
    BY <2>1, <2>2, ZenonT(40)
<1> QED
  BY <1>1, <1>2, <1>3, <1>4, ZenonT(40) DEF HartInv

\* A step of the handler or of the scheduler on hart h.
LEMMA HandlerStep ==
  ASSUME HartInv, NEW h \in Harts, UNCHANGED <<cur, pc, trapped, saved, chan>>,
         \A g \in Harts : g # h =>
           /\ hpc'[g] = hpc[g] /\ sie'[g] = sie[g]
           /\ noff'[g] = noff[g] /\ intena'[g] = intena[g],
         \A p \in Procs : cur[h] = p => pc[p] \in Outer /\ ~trapped[p],
         hpc'[h] # "none" => ~sie'[h] /\ noff'[h] = 1 /\ ~intena'[h],
         hpc'[h] = "none" => sie'[h] /\ noff'[h] = 0,
         holder' # holder => holder \in {None, h} /\ holder' \in {None, h},
         holder' = h <=> hpc'[h] = "loop"
  PROVE  HartInv'
<1>1. HandlerInv'
  BY DEF HartInv, HandlerInv
<1>2. MaskInv'
  BY DEF HartInv, MaskInv, Inner, Outer
<1>3. PlaceInv'
  BY DEF HartInv, PlaceInv
<1>4. LockInv'
  <2> SUFFICES ASSUME NEW g \in Harts
               PROVE  holder' = g <=> \/ hpc'[g] = "loop"
                                      \/ \E q \in Procs : cur[g] = q /\ pc[q] \in Holding
    BY ZenonT(40) DEF LockInv
  <2>1. CASE g = h
    BY <2>1, ZenonT(40) DEF Outer, Holding
  <2>2. CASE g # h
    BY <2>2, Constants DEF HartInv, LockInv
  <2> QED
    BY <2>1, <2>2, ZenonT(40)
<1> QED
  BY <1>1, <1>2, <1>3, <1>4, ZenonT(40) DEF HartInv

\* Harts do not care about the rings.
LEMMA HartSame ==
  ASSUME HartInv, UNCHANGED <<holder, noff, intena, sie, pc, cur, hpc, trapped, saved>>,
         \A p \in Procs : chan'[p] = chan[p] \/ chan'[p] = None
  PROVE  HartInv'
BY DEF HartInv, HandlerInv, MaskInv, PlaceInv, LockInv

-----------------------------------------------------------------------------
(* Steps that leave the requests alone *)

\* The queues are functions of the rings.
LEMMA QueuesSame ==
  ASSUME UNCHANGED <<ringVars, seen>>
  PROVE  availQ' = availQ /\ usedQ' = usedQ
BY ZenonT(40) DEF ringVars, availQ, usedQ

\* Descriptors, rings and work stay as they are when nobody gets or loses a
\* request.
LEMMA QuietStep ==
  ASSUME DescInv, RingInv, WorkInv, UNCHANGED <<ringVars, seen, inflight, reqVars, busy, moved>>,
         \A p \in Procs :
           \/ pc'[p] = pc[p]
           \/ pc[p] \in Bare /\ pc'[p] \in Bare
           \/ pc[p] \in Waiting /\ pc'[p] \in Waiting
  PROVE  DescInv' /\ RingInv' /\ WorkInv'
<1>1. availQ' = availQ /\ usedQ' = usedQ
  BY QueuesSame, ZenonT(40)
<1>2. \A p \in Procs :
        /\ pc'[p] \in Bare <=> pc[p] \in Bare
        /\ pc'[p] \in Waiting <=> pc[p] \in Waiting
        /\ pc'[p] \in Holding <=> pc[p] \in Holding
        /\ pc'[p] = "notify" <=> pc[p] = "notify"
  BY ZenonT(40) DEF Bare, Waiting, Holding
<1>3. \A p \in Procs : Owned(p)' = Owned(p) /\ (Chained(p)' <=> Chained(p))
  BY ZenonT(40) DEF Owned, Chained, reqVars
<1>a. ASSUME NEW d
      PROVE  /\ InUsed(d)' <=> InUsed(d)
             /\ InAvail(d)' <=> InAvail(d)
             /\ Somewhere(d)' <=> Somewhere(d)
  BY <1>1, ZenonT(40) DEF InUsed, InAvail, Somewhere, In
<1>4. \A p \in Procs, d \in Desc : Waits(p, d)' <=> Waits(p, d)
  BY <1>2, ZenonT(40) DEF Waits, reqVars
<1>5. DescInv'
  BY <1>2, <1>3 DEF DescInv, reqVars
<1>6. RingInv'
  BY <1>1, <1>2, <1>a, <1>4 DEF RingInv, reqVars, ringVars, Once, NextSlot
<1>7. WorkInv'
  BY <1>2, <1>a, ZenonT(40) DEF WorkInv, reqVars
<1> QED
  BY <1>5, <1>6, <1>7, ZenonT(40)

\* Sleepers stay where they are, or are woken.
LEMMA SleepStep ==
  ASSUME SleepInv, UNCHANGED idx,
         \A p \in Procs : chan'[p] = None \/ (chan'[p] = chan[p] /\ pc'[p] = pc[p]),
         \A p \in Procs : chan'[p] = p => busy'[p] = busy[p]
  PROVE  SleepInv'
<1> SUFFICES ASSUME NEW p \in Procs
             PROVE  /\ chan'[p] \in {None, "free", p}
                    /\ chan'[p] = p => pc'[p] = "resumed" /\ busy'[p]
                    /\ chan'[p] = "free" => pc'[p] = "again" /\ \E q \in Procs : Owned(q)' # {}
  BY ZenonT(40) DEF SleepInv
<1>1. CASE chan'[p] = None
  BY <1>1, Constants, ZenonT(40)
<1>3. \A q \in Procs : Owned(q)' = Owned(q)
  BY ZenonT(40) DEF Owned
<1>2. CASE chan'[p] = chan[p] /\ pc'[p] = pc[p]
  BY <1>2, <1>3, ZenonT(40) DEF SleepInv
<1> QED
  BY <1>1, <1>2, ZenonT(40)

\* virtio_disk_rw() begins: the call, the swap still to come.
LEMMA RwCallInv ==
  ASSUME IInv, NEW h \in Harts, NEW p \in Procs, RwCall(h, p)
  PROVE  IInv'
<1>1. /\ cur[h] = None /\ hpc[h] = "none" /\ sie[h] /\ pc[p] = "idle"
      /\ cur' = [cur EXCEPT ![h] = p] /\ pc' = [pc EXCEPT ![p] = "spin"]
      /\ sie' = [sie EXCEPT ![h] = FALSE] /\ noff' = [noff EXCEPT ![h] = @ + 1]
      /\ intena' = [intena EXCEPT ![h] = IF noff[h] = 0 THEN sie[h] ELSE @]
      /\ panicked' = (holder = h)
      /\ UNCHANGED <<holder, hpc, trapped, chan, saved, busy, moved, isr, seen, inflight,
                     claimed, ringVars, reqVars>>
  BY ZenonT(40) DEF RwCall, push_off, Masked, AcquirePanics, holding, Goto, rwRest, ringVars,
     devVars
<1>2. Local(h, p)
  <2>1. \A g \in Harts : cur[g] # p
    BY <1>1, ZenonT(40) DEF IInv, HartInv, PlaceInv
  <2> QED
    BY <1>1, <2>1, LocalOf, ZenonT(40) DEF IInv
<1>3. Local(h, p)'
  <2>1. /\ cur'[h] = p /\ (\A g \in Harts : g # h => cur'[g] = cur[g])
        /\ pc'[p] = "spin" /\ hpc'[h] = "none" /\ noff'[h] = 1
        /\ sie'[h] = FALSE /\ intena'[h] = TRUE
    BY <1>1, <1>2 DEF Local, IInv, TypeInv, TypeOK
  <2>2. /\ UNCHANGED <<holder, trapped, chan, saved>>
        /\ holder # h /\ ~trapped[p] /\ saved[p] /\ \A g \in Harts : g # h => cur[g] # p
    BY <1>1, <1>2, Constants, ZenonT(40) DEF Local
  <2>3. chan[p] = None
    BY <1>1, ZenonT(40) DEF IInv, SleepInv
  <2> QED
    BY <2>1, <2>2, <2>3, Constants, ZenonT(40) DEF Local, Inner, Outer, Holding
<1>4. TypeInv'
  <2>1. noff' \in [Harts -> 0 .. 1] /\ panicked' = FALSE
    BY <1>1, <1>2 DEF Local, IInv, TypeInv, TypeOK, Holding
  <2>2. /\ cur' \in [Harts -> Procs \cup {None}] /\ sie' \in [Harts -> BOOLEAN]
        /\ intena' \in [Harts -> BOOLEAN]
    BY <1>1, ZenonT(40) DEF IInv, TypeInv, TypeOK
  <2>3. pc' \in [Procs -> {"idle"} \cup Outer \cup Inner]
    BY <1>1, ZenonT(40) DEF IInv, TypeInv, Inner
  <2> QED
    BY <1>1, <2>1, <2>2, <2>3, ZenonT(40) DEF IInv, TypeInv, TypeOK, ringVars, reqVars
<1>5. HartInv'
  BY <1>1, <1>2, <1>3, HartStep, ZenonT(40) DEF IInv, TypeInv, TypeOK
<1>6. DescInv' /\ RingInv' /\ WorkInv'
  BY <1>1, QuietStep, ZenonT(40) DEF IInv, TypeInv, Bare
<1>7. SleepInv'
  <2>1. chan[p] # p /\ chan[p] # "free"
    BY <1>1, ZenonT(40) DEF IInv, SleepInv
  <2> QED
    BY <1>1, <2>1, SleepStep, ZenonT(40) DEF IInv, TypeInv, SleepInv, reqVars
<1>8. NoLostCompletion'
  BY <1>1, ZenonT(40) DEF IInv, NoLostCompletion, ringVars
<1> QED
  BY <1>4, <1>5, <1>6, <1>7, <1>8, ZenonT(40) DEF IInv

\* sleep() with or just before the lock: the hart goes back to its scheduler with
\* interrupts on, and intena goes with the process.
LEMMA SleepHart ==
  ASSUME IInv, NEW h \in Harts, NEW p \in Procs, On(h, p), pc[p] \in Inner,
         NEW c \in Procs \cup {"free"}, NEW f \in [Procs -> Procs \cup {None, "free"}],
         Sleep(h, p, c, f), \A q \in Procs : f[q] = chan[q] \/ f[q] = None,
         NEW l \in Outer, Goto(p, l), holder \in {None, h}, UNCHANGED <<hpc, trapped>>
  PROVE  /\ HartInv'
         /\ holder' = None /\ noff' \in [Harts -> 0 .. 1] /\ intena' \in [Harts -> BOOLEAN]
         /\ sie' \in [Harts -> BOOLEAN] /\ cur' \in [Harts -> Procs \cup {None}]
         /\ pc' \in [Procs -> {"idle"} \cup Outer \cup Inner]
         /\ chan' \in [Procs -> Procs \cup {None, "free"}] /\ saved' \in [Procs -> BOOLEAN]
<1>1. /\ cur[h] = p /\ hpc[h] = "none" /\ ~trapped[p] /\ holder' = None
      /\ noff' = [noff EXCEPT ![h] = @ - 1]
      /\ sie' = [sie EXCEPT ![h] = @ \/ (noff[h] = 1 /\ intena[h])]
      /\ intena' = [intena EXCEPT ![h] = @ /\ noff[h] > 1]
      /\ saved' = [saved EXCEPT ![p] = intena[h]]
      /\ chan' = [f EXCEPT ![p] = c] /\ cur' = [cur EXCEPT ![h] = None]
      /\ pc' = [pc EXCEPT ![p] = l]
  BY ZenonT(40) DEF On, Sleep, release, pop_off, Goto
<1>2. Local(h, p)
  BY <1>1, LocalOf, ZenonT(40) DEF IInv
<1>3. /\ noff[h] = 1 /\ intena[h] /\ ~sie[h]
  BY <1>1, <1>2, ZenonT(40) DEF Local
<1>4. /\ holder' = None /\ cur' \in [Harts -> Procs \cup {None}]
      /\ pc' \in [Procs -> {"idle"} \cup Outer \cup Inner]
      /\ chan' \in [Procs -> Procs \cup {None, "free"}]
  BY <1>1, ZenonT(40) DEF IInv, TypeInv, TypeOK
<1>5. noff' \in [Harts -> 0 .. 1]
  BY <1>1, <1>3 DEF IInv, TypeInv, TypeOK
<1>6. intena' \in [Harts -> BOOLEAN] /\ sie' \in [Harts -> BOOLEAN] /\ saved' \in [Procs -> BOOLEAN]
  BY <1>1, ZenonT(40) DEF IInv, TypeInv, TypeOK
<1>7. /\ cur'[h] = None /\ (\A g \in Harts : g # h => cur'[g] = cur[g])
      /\ pc'[p] = l /\ hpc'[h] = "none" /\ noff'[h] = 0 /\ saved'[p] = TRUE
      /\ trapped'[p] = trapped[p] /\ holder' = None
  BY <1>1, <1>3 DEF IInv, TypeInv, TypeOK
<1>8. Local(h, p)'
  BY <1>1, <1>2, <1>7, Constants DEF Local, Outer, Holding
<1>9. \A q \in Procs : q # p =>
        /\ pc'[q] = pc[q] /\ trapped'[q] = trapped[q] /\ saved'[q] = saved[q]
        /\ chan'[q] = chan[q] \/ chan'[q] = None
  BY <1>1, ZenonT(40) DEF IInv, TypeInv, TypeOK
<1>10. HartInv'
  <2>1. \A g \in Harts : g # h =>
           /\ cur'[g] = cur[g] /\ hpc'[g] = hpc[g] /\ sie'[g] = sie[g]
           /\ noff'[g] = noff[g] /\ intena'[g] = intena[g]
    BY <1>1, ZenonT(40) DEF IInv, TypeInv, TypeOK
  <2>2. holder \in {None, h} /\ holder' \in {None, h} /\ HartInv
    BY <1>1, ZenonT(40) DEF IInv
  <2> QED
    BY <1>2, <1>8, <1>9, <2>1, <2>2, HartStep, ZenonT(40)
<1> QED
  BY <1>4, <1>5, <1>6, <1>10, ZenonT(40)

\* Back from sleep(), up to the swap.
LEMMA RwRelockInv ==
  ASSUME IInv, NEW h \in Harts, NEW p \in Procs, RwRelock(h, p)
  PROVE  IInv'
<1> DEFINE l == IF pc[p] = "again" THEN "spin" ELSE "respin"
<1>1. /\ cur[h] = p /\ hpc[h] = "none" /\ ~trapped[p] /\ pc[p] \in Outer
      /\ pc' = [pc EXCEPT ![p] = l]
      /\ sie' = [sie EXCEPT ![h] = FALSE] /\ noff' = [noff EXCEPT ![h] = @ + 1]
      /\ intena' = [intena EXCEPT ![h] = IF noff[h] = 0 THEN sie[h] ELSE @]
      /\ panicked' = (holder = h)
      /\ UNCHANGED <<holder, hpc, trapped, chan, saved, busy, moved, isr, seen, inflight,
                     claimed, cur, ringVars, reqVars>>
  BY ZenonT(40) DEF RwRelock, On, push_off, Masked, AcquirePanics, holding, Goto, rwRest,
     ringVars, devVars,
         Outer
<1>a. /\ l \in {"spin", "respin"}
      /\ (pc[p] \in Bare /\ l \in Bare) \/ (pc[p] \in Waiting /\ l \in Waiting)
  BY <1>1, ZenonT(40) DEF Outer, Bare, Waiting
<1> HIDE DEF l
<1>2. Local(h, p)
  BY <1>1, LocalOf, ZenonT(40) DEF IInv
<1>3. Local(h, p)'
  <2>1. /\ cur'[h] = p /\ (\A g \in Harts : g # h => cur'[g] = cur[g])
        /\ pc'[p] = l /\ hpc'[h] = "none" /\ noff'[h] = 1
        /\ sie'[h] = FALSE /\ intena'[h] = TRUE
    BY <1>1, <1>2 DEF Local, IInv, TypeInv, TypeOK
  <2> QED
    BY <1>1, <1>a, <1>2, <2>1, Constants, ZenonT(40) DEF Local, Inner, Outer, Holding
<1>4. TypeInv'
  <2>1. noff' \in [Harts -> 0 .. 1] /\ panicked' = FALSE
    BY <1>1, <1>2 DEF Local, IInv, TypeInv, TypeOK, Holding, Outer
  <2>2. sie' \in [Harts -> BOOLEAN] /\ intena' \in [Harts -> BOOLEAN]
    BY <1>1, ZenonT(40) DEF IInv, TypeInv, TypeOK
  <2>3. pc' \in [Procs -> {"idle"} \cup Outer \cup Inner]
    BY <1>1, <1>a, ZenonT(40) DEF IInv, TypeInv, Inner
  <2> QED
    BY <1>1, <2>1, <2>2, <2>3, ZenonT(40) DEF IInv, TypeInv, TypeOK, ringVars, reqVars
<1>5. HartInv'
  BY <1>1, <1>2, <1>3, HartStep, ZenonT(40) DEF IInv, TypeInv, TypeOK
<1>6. DescInv' /\ RingInv' /\ WorkInv'
  BY <1>1, <1>a, QuietStep, ZenonT(40) DEF IInv, TypeInv
<1>7. SleepInv'
  BY <1>1, <1>2, SleepStep, ZenonT(40) DEF IInv, TypeInv, SleepInv, reqVars, Local
<1>8. NoLostCompletion'
  BY <1>1, ZenonT(40) DEF IInv, NoLostCompletion, ringVars
<1> QED
  BY <1>4, <1>5, <1>6, <1>7, <1>8, ZenonT(40) DEF IInv

\* Too few descriptors are free, and somebody has some: the sleep is not for ever.
LEMMA RwShortInv ==
  ASSUME IInv, NEW h \in Harts, NEW p \in Procs, RwShort(h, p), Lent
  PROVE  IInv'
<1> DEFINE f == IF Got = {} THEN chan ELSE WakesFree(chan)
<1>1. /\ On(h, p) /\ pc[p] = "spin" /\ holder = None /\ Cardinality(Got) < 3
      /\ Sleep(h, p, "free", f) /\ Goto(p, "again")
      /\ UNCHANGED <<ringVars, seen, inflight, reqVars, busy, moved, panicked, isr, claimed,
                     hpc, trapped>>
  BY ZenonT(40) DEF RwShort, rwRest, devVars, ringVars
<1>2. /\ f \in [Procs -> Procs \cup {None, "free"}]
      /\ \A q \in Procs : f[q] = chan[q] \/ f[q] = None
  BY ZenonT(40) DEF IInv, TypeInv, WakesFree, Wakeup
<1> HIDE DEF f
<1>3. pc[p] \in Inner /\ "again" \in Outer
  BY <1>1, ZenonT(40) DEF Inner, Outer
<1>4. /\ HartInv'
      /\ holder' = None /\ noff' \in [Harts -> 0 .. 1] /\ intena' \in [Harts -> BOOLEAN]
      /\ sie' \in [Harts -> BOOLEAN] /\ cur' \in [Harts -> Procs \cup {None}]
      /\ pc' \in [Procs -> {"idle"} \cup Outer \cup Inner]
      /\ chan' \in [Procs -> Procs \cup {None, "free"}] /\ saved' \in [Procs -> BOOLEAN]
  BY <1>1, <1>2, <1>3, SleepHart, ZenonT(40)
<1>5. TypeInv'
  BY <1>1, <1>4, ZenonT(40) DEF IInv, TypeInv, TypeOK, ringVars, reqVars
<1>6. /\ pc' = [pc EXCEPT ![p] = "again"] /\ chan' = [f EXCEPT ![p] = "free"]
  BY <1>1, ZenonT(40) DEF Goto, Sleep
<1>7. DescInv' /\ RingInv' /\ WorkInv'
  BY <1>1, <1>6, QuietStep, ZenonT(40) DEF IInv, TypeInv, Bare
<1>8. SleepInv'
  <2>1. \E q \in Procs : Owned(q) # {}
    BY ZenonT(40) DEF Lent
  <2>2. \A q \in Procs : Owned(q)' = Owned(q)
    BY <1>1, ZenonT(40) DEF Owned, reqVars
  <2> SUFFICES ASSUME NEW q \in Procs
               PROVE  /\ chan'[q] \in {None, "free", q}
                      /\ chan'[q] = q => pc'[q] = "resumed" /\ busy'[q]
                      /\ chan'[q] = "free" => pc'[q] = "again" /\ \E r \in Procs : Owned(r)' # {}
    BY ZenonT(40) DEF SleepInv
  <2>3. CASE q = p
    BY <1>1, <1>2, <1>6, <2>1, <2>2, <2>3, Constants, ZenonT(40) DEF IInv, TypeInv
  <2>4. CASE q # p
    BY <1>1, <1>2, <1>6, <2>1, <2>2, <2>4, Constants DEF IInv, TypeInv, SleepInv
  <2> QED
    BY <2>3, <2>4, ZenonT(40)
<1>9. NoLostCompletion'
  BY <1>1, ZenonT(40) DEF IInv, NoLostCompletion, ringVars
<1> QED
  BY <1>4, <1>5, <1>7, <1>8, <1>9, ZenonT(40) DEF IInv

\* A wakeup that was not for this request: the process sleeps again.
LEMMA RwWaitInv ==
  ASSUME IInv, NEW h \in Harts, NEW p \in Procs, RwWait(h, p)
  PROVE  IInv'
<1>1. /\ On(h, p) /\ pc[p] = "respin" /\ holder = None /\ busy[p]
      /\ Sleep(h, p, p, chan) /\ Goto(p, "resumed")
      /\ UNCHANGED <<ringVars, seen, inflight, reqVars, busy, moved, panicked, isr, claimed,
                     hpc, trapped>>
  BY ZenonT(40) DEF RwWait, StillBusy, rwRest, devVars, ringVars
<1>3. pc[p] \in Inner /\ "resumed" \in Outer /\ chan \in [Procs -> Procs \cup {None, "free"}]
  BY <1>1, ZenonT(40) DEF Inner, Outer, IInv, TypeInv
<1>4. /\ HartInv'
      /\ holder' = None /\ noff' \in [Harts -> 0 .. 1] /\ intena' \in [Harts -> BOOLEAN]
      /\ sie' \in [Harts -> BOOLEAN] /\ cur' \in [Harts -> Procs \cup {None}]
      /\ pc' \in [Procs -> {"idle"} \cup Outer \cup Inner]
      /\ chan' \in [Procs -> Procs \cup {None, "free"}] /\ saved' \in [Procs -> BOOLEAN]
  BY <1>1, <1>3, SleepHart, ZenonT(40)
<1>5. TypeInv'
  BY <1>1, <1>4, ZenonT(40) DEF IInv, TypeInv, TypeOK, ringVars, reqVars
<1>6. /\ pc' = [pc EXCEPT ![p] = "resumed"] /\ chan' = [chan EXCEPT ![p] = p]
  BY <1>1, ZenonT(40) DEF Goto, Sleep
<1>7. DescInv' /\ RingInv' /\ WorkInv'
  BY <1>1, <1>6, QuietStep, ZenonT(40) DEF IInv, TypeInv, Waiting
<1>8. SleepInv'
  <2>2. \A q \in Procs : Owned(q)' = Owned(q)
    BY <1>1, ZenonT(40) DEF Owned, reqVars
  <2> SUFFICES ASSUME NEW q \in Procs
               PROVE  /\ chan'[q] \in {None, "free", q}
                      /\ chan'[q] = q => pc'[q] = "resumed" /\ busy'[q]
                      /\ chan'[q] = "free" => pc'[q] = "again" /\ \E r \in Procs : Owned(r)' # {}
    BY ZenonT(40) DEF SleepInv
  <2>3. CASE q = p
    BY <1>1, <1>6, <2>3, Constants, ZenonT(40) DEF IInv, TypeInv
  <2>4. CASE q # p
    BY <1>1, <1>6, <2>2, <2>4, Constants, ZenonT(40) DEF IInv, TypeInv, SleepInv
  <2> QED
    BY <2>3, <2>4, ZenonT(40)
<1>9. NoLostCompletion'
  BY <1>1, ZenonT(40) DEF IInv, NoLostCompletion, ringVars
<1> QED
  BY <1>4, <1>5, <1>7, <1>8, <1>9, ZenonT(40) DEF IInv

\* What the scheduler's steps leave alone.
LEMMA SchedStep ==
  ASSUME IInv, UNCHANGED schedRest, UNCHANGED <<noff, intena>>,
         cur' \in [Harts -> Procs \cup {None}], sie' \in [Harts -> BOOLEAN],
         trapped' \in [Procs -> BOOLEAN], saved' \in [Procs -> BOOLEAN],
         chan' \in [Procs -> Procs \cup {None, "free"}],
         \A p \in Procs : chan'[p] = chan[p] \/ chan'[p] = None, HartInv'
  PROVE  IInv'
<1>1. UNCHANGED <<holder, ringVars, isr, claimed, seen, inflight, reqVars, busy, moved, pc, hpc,
                  panicked>>
  BY ZenonT(40) DEF schedRest, devVars
<1>2. TypeInv'
  BY <1>1, ZenonT(40) DEF IInv, TypeInv, TypeOK, ringVars, reqVars
<1>3. DescInv' /\ RingInv' /\ WorkInv'
  BY <1>1, QuietStep, ZenonT(40) DEF IInv
<1>4. SleepInv'
  BY <1>1, SleepStep, ZenonT(40) DEF IInv, reqVars
<1>5. NoLostCompletion'
  BY <1>1, ZenonT(40) DEF IInv, NoLostCompletion, ringVars
<1> QED
  BY <1>2, <1>3, <1>4, <1>5, ZenonT(40) DEF IInv

\* The timer takes the hart away, and sched() saves that interrupts are off.
LEMMA TimerYieldInv ==
  ASSUME IInv, NEW h \in Harts, NEW p \in Procs, TimerYield(h, p)
  PROVE  IInv'
<1>1. /\ cur[h] = p /\ hpc[h] = "none" /\ ~trapped[p] /\ sie[h]
      /\ sie' = [sie EXCEPT ![h] = FALSE] /\ saved' = [saved EXCEPT ![p] = FALSE]
      /\ trapped' = [trapped EXCEPT ![p] = TRUE] /\ cur' = [cur EXCEPT ![h] = None]
      /\ UNCHANGED <<noff, intena, chan, holder, pc, hpc>> /\ UNCHANGED schedRest
  BY ZenonT(40) DEF TimerYield, On, schedRest
<1>2. Local(h, p)
  BY <1>1, LocalOf, ZenonT(40) DEF IInv
<1>3. pc[p] \in Outer
  BY <1>1, <1>2, ZenonT(40) DEF Local, IInv, TypeInv
<1>4. Local(h, p)'
  <2>1. /\ cur'[h] = None /\ (\A g \in Harts : g # h => cur'[g] = cur[g])
        /\ pc'[p] = pc[p] /\ hpc'[h] = "none" /\ noff'[h] = noff[h]
        /\ sie'[h] = FALSE /\ saved'[p] = FALSE /\ trapped'[p] = TRUE
    BY <1>1, <1>2 DEF Local, IInv, TypeInv, TypeOK
  <2> QED
    BY <1>1, <1>2, <1>3, <2>1, Constants, ZenonT(40) DEF Local, Inner, Outer, Holding
<1>5. HartInv'
  BY <1>1, <1>2, <1>4, HartStep, ZenonT(40) DEF IInv, TypeInv, TypeOK
<1>6. /\ cur' \in [Harts -> Procs \cup {None}] /\ sie' \in [Harts -> BOOLEAN]
      /\ trapped' \in [Procs -> BOOLEAN] /\ saved' \in [Procs -> BOOLEAN]
      /\ chan' \in [Procs -> Procs \cup {None, "free"}]
      /\ \A q \in Procs : chan'[q] = chan[q] \/ chan'[q] = None
  BY <1>1, ZenonT(40) DEF IInv, TypeInv, TypeOK
<1> QED
  BY <1>1, <1>5, <1>6, SchedStep, ZenonT(40)

\* A process gets a hart: sched() gives it back what it saved.
LEMMA ResumeInv ==
  ASSUME IInv, NEW h \in Harts, NEW p \in Procs, Resume(h, p)
  PROVE  IInv'
<1>1. /\ cur[h] = None /\ hpc[h] = "none" /\ pc[p] # "idle" /\ chan[p] = None
      /\ \A g \in Harts : cur[g] # p
      /\ sie' = [sie EXCEPT ![h] = saved[p]] /\ saved' = [saved EXCEPT ![p] = TRUE]
      /\ cur' = [cur EXCEPT ![h] = p]
      /\ UNCHANGED <<noff, intena, chan, trapped, holder, pc, hpc>> /\ UNCHANGED schedRest
  BY ZenonT(40) DEF Resume, Restored, schedRest
<1>2. Local(h, p)
  BY <1>1, LocalOf, ZenonT(40) DEF IInv
<1>3. pc[p] \in Outer /\ (saved[p] <=> ~trapped[p]) /\ noff[h] = 0
  BY <1>1, <1>2, ZenonT(40) DEF Local
<1>4. Local(h, p)'
  <2>1. /\ cur'[h] = p /\ (\A g \in Harts : g # h => cur'[g] = cur[g])
        /\ pc'[p] = pc[p] /\ hpc'[h] = "none" /\ noff'[h] = 0
        /\ sie'[h] = saved[p] /\ saved'[p] = TRUE /\ trapped'[p] = trapped[p]
        /\ chan'[p] = None
    BY <1>1, <1>3 DEF IInv, TypeInv, TypeOK
  <2> QED
    BY <1>1, <1>2, <1>3, <2>1, Constants, ZenonT(40) DEF Local, Inner, Outer, Holding
<1>5. HartInv'
  BY <1>1, <1>2, <1>4, HartStep, ZenonT(40) DEF IInv, TypeInv, TypeOK
<1>6. /\ cur' \in [Harts -> Procs \cup {None}] /\ sie' \in [Harts -> BOOLEAN]
      /\ trapped' \in [Procs -> BOOLEAN] /\ saved' \in [Procs -> BOOLEAN]
      /\ chan' \in [Procs -> Procs \cup {None, "free"}]
      /\ \A q \in Procs : chan'[q] = chan[q] \/ chan'[q] = None
  BY <1>1, ZenonT(40) DEF IInv, TypeInv, TypeOK
<1> QED
  BY <1>1, <1>5, <1>6, SchedStep, ZenonT(40)

\* The trap returns on the hart the process is now on.
LEMMA TrapReturnInv ==
  ASSUME IInv, NEW h \in Harts, NEW p \in Procs, TrapReturn(h, p)
  PROVE  IInv'
<1>1. /\ cur[h] = p /\ hpc[h] = "none" /\ trapped[p]
      /\ sie' = [sie EXCEPT ![h] = TRUE] /\ trapped' = [trapped EXCEPT ![p] = FALSE]
      /\ UNCHANGED <<noff, intena, chan, cur, saved, holder, pc, hpc>> /\ UNCHANGED schedRest
  BY ZenonT(40) DEF TrapReturn, schedRest
<1>2. Local(h, p)
  BY <1>1, LocalOf, ZenonT(40) DEF IInv
<1>3. pc[p] \in Outer
  BY <1>1, <1>2, ZenonT(40) DEF Local, IInv, TypeInv
<1>4. Local(h, p)'
  <2>1. sie'[h] = TRUE /\ trapped'[p] = FALSE
    BY <1>1, ZenonT(40) DEF IInv, TypeInv, TypeOK
  <2> QED
    BY <1>1, <1>2, <1>3, <2>1, Constants, ZenonT(40) DEF Local, Inner, Outer, Holding
<1>5. HartInv'
  BY <1>1, <1>2, <1>4, HartStep, ZenonT(40) DEF IInv, TypeInv, TypeOK
<1>6. /\ cur' \in [Harts -> Procs \cup {None}] /\ sie' \in [Harts -> BOOLEAN]
      /\ trapped' \in [Procs -> BOOLEAN] /\ saved' \in [Procs -> BOOLEAN]
      /\ chan' \in [Procs -> Procs \cup {None, "free"}]
      /\ \A q \in Procs : chan'[q] = chan[q] \/ chan'[q] = None
  BY <1>1, ZenonT(40) DEF IInv, TypeInv, TypeOK
<1> QED
  BY <1>1, <1>5, <1>6, SchedStep, ZenonT(40)

\* kill() wakes a sleeper.
LEMMA KillInv ==
  ASSUME IInv, NEW p \in Procs, Kill(p)
  PROVE  IInv'
<1>1. /\ chan' = [chan EXCEPT ![p] = None]
      /\ UNCHANGED <<noff, intena, sie, cur, trapped, saved, holder, pc, hpc>>
      /\ UNCHANGED schedRest
  BY ZenonT(40) DEF Kill, schedRest
<1>2. \A q \in Procs : chan'[q] = chan[q] \/ chan'[q] = None
  BY <1>1, ZenonT(40) DEF IInv, TypeInv
<1>3. HartInv'
  BY <1>1, <1>2 DEF IInv, HartInv, HandlerInv, MaskInv, PlaceInv, LockInv
<1>4. /\ cur' \in [Harts -> Procs \cup {None}] /\ sie' \in [Harts -> BOOLEAN]
      /\ trapped' \in [Procs -> BOOLEAN] /\ saved' \in [Procs -> BOOLEAN]
      /\ chan' \in [Procs -> Procs \cup {None, "free"}]
  BY <1>1, ZenonT(40) DEF IInv, TypeInv, TypeOK
<1> QED
  BY <1>1, <1>2, <1>3, <1>4, SchedStep, ZenonT(40)

\* The scheduler turns interrupts on.
LEMMA SchedTopInv ==
  ASSUME IInv, NEW h \in Harts, SchedTop(h)
  PROVE  IInv'
<1>1. /\ cur[h] = None /\ hpc[h] = "none" /\ sie' = [sie EXCEPT ![h] = TRUE]
      /\ UNCHANGED <<noff, intena, chan, cur, trapped, saved, holder, pc, hpc>>
      /\ UNCHANGED schedRest
  BY ZenonT(40) DEF SchedTop, schedRest
<1>2. noff[h] = 0 /\ holder # h
  BY <1>1, Constants, ZenonT(40) DEF IInv, HartInv, MaskInv, LockInv
<1>3. sie'[h] /\ \A g \in Harts : g # h => sie'[g] = sie[g]
  BY <1>1, ZenonT(40) DEF IInv, TypeInv, TypeOK
<1>4. HartInv'
  BY <1>1, <1>2, <1>3, Constants, HandlerStep, ZenonT(40) DEF IInv
<1>5. /\ cur' \in [Harts -> Procs \cup {None}] /\ sie' \in [Harts -> BOOLEAN]
      /\ trapped' \in [Procs -> BOOLEAN] /\ saved' \in [Procs -> BOOLEAN]
      /\ chan' \in [Procs -> Procs \cup {None, "free"}]
      /\ \A q \in Procs : chan'[q] = chan[q] \/ chan'[q] = None
  BY <1>1, ZenonT(40) DEF IInv, TypeInv, TypeOK
<1> QED
  BY <1>1, <1>4, <1>5, SchedStep, ZenonT(40)

\* What the handler's steps leave alone.
LEMMA HandlerRest ==
  ASSUME IInv, UNCHANGED <<ringVars, seen, inflight, status, busy, chan>>, UNCHANGED handlerVars,
         holder' \in Harts \cup {None}, noff' \in [Harts -> 0 .. 1],
         intena' \in [Harts -> BOOLEAN], sie' \in [Harts -> BOOLEAN],
         hpc' \in [Harts -> {"none", "spin", "loop"}], panicked' = FALSE,
         HartInv', NoLostCompletion'
  PROVE  IInv'
<1>1. UNCHANGED <<ringVars, seen, inflight, reqVars, busy, moved, pc, cur, trapped, saved, chan>>
  BY ZenonT(40) DEF handlerVars, reqVars
<1>2. TypeInv'
  <2>1. UNCHANGED <<avail, availIdx, used, usedIdx, used_idx, seen, inflight, free, next, addr,
                    info, status, idx, busy, moved, pc, cur, trapped, saved, chan>>
    BY <1>1, ZenonT(40) DEF ringVars, reqVars
  <2>2. ({availIdx, usedIdx, used_idx, seen} \subseteq 0 .. WRAP - 1)' /\ inflight' \subseteq Desc
    BY <2>1 DEF IInv, TypeInv, TypeOK
  <2>3. TypeOK'
    BY <2>1, <2>2, ZenonT(90) DEF IInv, TypeInv, TypeOK
  <2> QED
    BY <2>1, <2>3, ZenonT(40) DEF IInv, TypeInv
<1>3. DescInv' /\ RingInv' /\ WorkInv'
  BY <1>1, QuietStep, ZenonT(40) DEF IInv
<1>4. SleepInv'
  BY <1>1, SleepStep, ZenonT(40) DEF IInv, reqVars
<1> QED
  BY <1>2, <1>3, <1>4, ZenonT(40) DEF IInv

\* An interrupt finds a hart that may be interrupted, hence without the lock.
LEMMA IntrEnterInv ==
  ASSUME IInv, NEW h \in Harts, IntrEnter(h)
  PROVE  IInv'
<1>1. /\ sie[h] /\ hpc[h] = "none" /\ sie' = [sie EXCEPT ![h] = FALSE]
      /\ intena' = [intena EXCEPT ![h] = IF noff[h] = 0 THEN FALSE ELSE @]
      /\ noff' = [noff EXCEPT ![h] = @ + 1] /\ panicked' = (holder = h)
      /\ hpc' = [hpc EXCEPT ![h] = "spin"]
      /\ UNCHANGED <<holder, isr, ringVars, seen, inflight, status, busy, chan>>
      /\ UNCHANGED handlerVars
  BY ZenonT(40) DEF IntrEnter, AcquirePanics, holding
<1>2. UNCHANGED <<cur, pc, trapped, saved, chan>>
  BY <1>1, ZenonT(40) DEF handlerVars
<1>3. \A p \in Procs : cur[h] = p => pc[p] \in Outer /\ ~trapped[p] /\ noff[h] = 0
  <2> SUFFICES ASSUME NEW p \in Procs, cur[h] = p
               PROVE  pc[p] \in Outer /\ ~trapped[p] /\ noff[h] = 0
    BY ZenonT(40)
  <2>1. pc[p] \notin Inner
    BY <1>1, ZenonT(40) DEF IInv, HartInv, MaskInv
  <2>2. pc[p] # "idle" /\ pc[p] \in {"idle"} \cup Outer \cup Inner
    BY ZenonT(40) DEF IInv, TypeInv, HartInv, PlaceInv
  <2>3. pc[p] \in Outer
    BY <2>1, <2>2, ZenonT(40)
  <2> QED
    BY <1>1, <2>3, ZenonT(40) DEF IInv, HartInv, MaskInv
<1>4. noff[h] = 0
  BY <1>1, <1>3 DEF IInv, TypeInv, TypeOK, HartInv, MaskInv
<1>5. holder # h
  BY <1>1, <1>3, ZenonT(40) DEF IInv, HartInv, LockInv, Outer, Holding
<1>6. /\ hpc'[h] = "spin" /\ sie'[h] = FALSE /\ noff'[h] = 1 /\ intena'[h] = FALSE
      /\ \A g \in Harts : g # h =>
           /\ hpc'[g] = hpc[g] /\ sie'[g] = sie[g]
           /\ noff'[g] = noff[g] /\ intena'[g] = intena[g]
  BY <1>1, <1>4 DEF IInv, TypeInv, TypeOK
<1>7. HartInv'
  BY <1>1, <1>2, <1>3, <1>5, <1>6, HandlerStep, ZenonT(40) DEF IInv
<1>8. NoLostCompletion'
  BY <1>1, <1>6 DEF IInv, NoLostCompletion, ringVars
<1>9. noff' \in [Harts -> 0 .. 1] /\ hpc' \in [Harts -> {"none", "spin", "loop"}]
  BY <1>1, <1>4 DEF IInv, TypeInv, TypeOK
<1>10. /\ holder' \in Harts \cup {None} /\ panicked' = FALSE
       /\ intena' \in [Harts -> BOOLEAN] /\ sie' \in [Harts -> BOOLEAN]
  BY <1>1, <1>5, ZenonT(40) DEF IInv, TypeInv, TypeOK
<1> QED
  BY <1>1, <1>7, <1>8, <1>9, <1>10, HandlerRest, ZenonT(40)

\* The handler has the lock and acknowledges: it will look at the ring after this.
LEMMA IntrAckInv ==
  ASSUME IInv, NEW h \in Harts, IntrAck(h)
  PROVE  IInv'
<1>1. /\ hpc[h] = "spin" /\ holder = None /\ holder' = h
      /\ hpc' = [hpc EXCEPT ![h] = "loop"]
      /\ UNCHANGED <<noff, intena, sie, panicked, ringVars, seen, inflight, status, busy, chan>>
      /\ UNCHANGED handlerVars
  BY ZenonT(40) DEF IntrAck, Swap
<1>2. UNCHANGED <<cur, pc, trapped, saved, chan>>
  BY <1>1, ZenonT(40) DEF handlerVars
<1>3. /\ \A p \in Procs : cur[h] = p => pc[p] \in Outer /\ ~trapped[p]
      /\ ~sie[h] /\ noff[h] = 1 /\ ~intena[h]
  BY <1>1, ZenonT(40) DEF IInv, HartInv, HandlerInv
<1>4. hpc'[h] = "loop" /\ \A g \in Harts : g # h => hpc'[g] = hpc[g]
  BY <1>1, ZenonT(40) DEF IInv, TypeInv
<1>5. HartInv'
  BY <1>1, <1>2, <1>3, <1>4, HandlerStep, ZenonT(40) DEF IInv
<1>6. NoLostCompletion'
  BY <1>4, ZenonT(40) DEF NoLostCompletion
<1>7. /\ holder' \in Harts \cup {None} /\ panicked' = FALSE
      /\ intena' \in [Harts -> BOOLEAN] /\ sie' \in [Harts -> BOOLEAN]
      /\ noff' \in [Harts -> 0 .. 1] /\ hpc' \in [Harts -> {"none", "spin", "loop"}]
  BY <1>1, ZenonT(40) DEF IInv, TypeInv, TypeOK
<1> QED
  BY <1>1, <1>5, <1>6, <1>7, HandlerRest, ZenonT(40)

\* Nothing is left in the ring, and the handler returns with the lock released.
LEMMA IntrExitInv ==
  ASSUME IInv, NEW h \in Harts, IntrExit(h)
  PROVE  IInv'
<1>1. /\ hpc[h] = "loop" /\ used_idx = usedIdx /\ holder' = None
      /\ panicked' = (holder # h \/ sie[h] \/ noff[h] < 1)
      /\ noff' = [noff EXCEPT ![h] = @ - 1] /\ sie' = [sie EXCEPT ![h] = TRUE]
      /\ hpc' = [hpc EXCEPT ![h] = "none"]
      /\ UNCHANGED <<intena, isr, ringVars, seen, inflight, status, busy, chan>>
      /\ UNCHANGED handlerVars
  BY ZenonT(40) DEF IntrExit, MoreWork, ReleasePanics, holding
<1>2. UNCHANGED <<cur, pc, trapped, saved, chan>>
  BY <1>1, ZenonT(40) DEF handlerVars
<1>3. /\ \A p \in Procs : cur[h] = p => pc[p] \in Outer /\ ~trapped[p]
      /\ ~sie[h] /\ noff[h] = 1 /\ ~intena[h] /\ holder = h
  BY <1>1, ZenonT(40) DEF IInv, HartInv, HandlerInv, LockInv
<1>4. /\ hpc'[h] = "none" /\ sie'[h] = TRUE /\ noff'[h] = 0
      /\ \A g \in Harts : g # h =>
           /\ hpc'[g] = hpc[g] /\ sie'[g] = sie[g]
           /\ noff'[g] = noff[g] /\ intena'[g] = intena[g]
  BY <1>1, <1>3 DEF IInv, TypeInv, TypeOK
<1>5. holder' # h
  BY <1>1, Constants, ZenonT(40)
<1>6. HartInv'
  BY <1>1, <1>2, <1>3, <1>4, <1>5, HandlerStep, ZenonT(40) DEF IInv
<1>7. NoLostCompletion'
  BY <1>1, ZenonT(40) DEF NoLostCompletion, ringVars
<1>8. noff' \in [Harts -> 0 .. 1] /\ hpc' \in [Harts -> {"none", "spin", "loop"}] /\ panicked' = FALSE
  BY <1>1, <1>3 DEF IInv, TypeInv, TypeOK
<1>9. /\ holder' \in Harts \cup {None}
      /\ intena' \in [Harts -> BOOLEAN] /\ sie' \in [Harts -> BOOLEAN]
  BY <1>1, ZenonT(40) DEF IInv, TypeInv, TypeOK
<1> QED
  BY <1>1, <1>6, <1>7, <1>8, <1>9, HandlerRest, ZenonT(40)

-----------------------------------------------------------------------------
(* A request gets its descriptors *)

\* The rings keep what they have when no request begins or ends its wait.
LEMMA RingKept ==
  ASSUME RingInv, availQ' = availQ, usedQ' = usedQ, inflight' = inflight,
         \A q \in Procs : (pc'[q] \in Waiting /\ busy'[q]) <=> (pc[q] \in Waiting /\ busy[q]),
         \A q \in Procs : pc[q] \in Waiting /\ busy[q] => idx'[q] = idx[q],
         \A q \in Procs : pc'[q] = "notify" => NextSlot' = idx'[q][1]
  PROVE  RingInv' /\ \A d : InUsed(d)' <=> InUsed(d)
<1>2. ASSUME NEW d
      PROVE  /\ InUsed(d)' <=> InUsed(d)
             /\ InAvail(d)' <=> InAvail(d)
             /\ Somewhere(d)' <=> Somewhere(d)
  BY ZenonT(40) DEF InUsed, InAvail, Somewhere, In
<1>3. \A p \in Procs, d \in Desc : Waits(p, d)' <=> Waits(p, d)
  BY ZenonT(40) DEF Waits
<1>4. RingInv'
  BY <1>2, <1>3, ZenonT(40) DEF RingInv, Once
<1> QED
  BY <1>2, <1>4, ZenonT(40)

\* A request gets three descriptors that were nobody's.
LEMMA RwAllocInv ==
  ASSUME IInv, NEW h \in Harts, NEW p \in Procs, RwAlloc(h, p), Ranked(Got)
  PROVE  IInv'
<1> DEFINE d0 == Pos(Got, 0) d1 == Pos(Got, 1) d2 == Pos(Got, 2)
<1>1. /\ cur[h] = p /\ hpc[h] = "none" /\ ~trapped[p] /\ pc[p] = "spin"
      /\ holder = None /\ holder' = h /\ Cardinality(Got) = 3
      /\ free' = [i \in Desc |-> free[i] /\ i \notin Got]
      /\ next' = [next EXCEPT ![d0] = d1, ![d1] = d2, ![d2] = None]
      /\ addr' = [addr EXCEPT ![d1] = p] /\ status' = [status EXCEPT ![d0] = 255]
      /\ info' = [info EXCEPT ![d0] = p] /\ busy' = [busy EXCEPT ![p] = TRUE]
      /\ idx' = [idx EXCEPT ![p] = <<d0, d1, d2>>] /\ pc' = [pc EXCEPT ![p] = "post"]
      /\ UNCHANGED <<noff, intena, sie, moved, chan, cur, saved, panicked, isr, claimed, seen,
                     inflight, ringVars, hpc, trapped>>
  BY ZenonT(40) DEF RwAlloc, On, Swap, Goto, rwRest, devVars, ringVars
<1>2. Got \in SUBSET Desc /\ \A d \in Got : free[d]
  BY ZenonT(40) DEF Got, FirstFree
<1>3. /\ d0 \in Desc /\ d1 \in Desc /\ d2 \in Desc /\ d0 # d1 /\ d1 # d2 /\ d0 # d2
      /\ Got = {d0, d1, d2}
  BY ZenonT(40) DEF Ranked
<1> HIDE DEF d0, d1, d2
<1>4. Local(h, p)
  BY <1>1, LocalOf, ZenonT(40) DEF IInv
<1>5. Local(h, p)'
  <2>1. pc'[p] = "post"
    BY <1>1, ZenonT(40) DEF IInv, TypeInv
  <2> QED
    BY <1>1, <1>4, <2>1, Constants, ZenonT(40) DEF Local, Inner, Outer, Holding
<1>6. HartInv'
  <2>1. \A q \in Procs : q # p => pc'[q] = pc[q]
    BY <1>1, ZenonT(40) DEF IInv, TypeInv
  <2> QED
    BY <1>1, <1>4, <1>5, <2>1, HartStep, ZenonT(40) DEF IInv
<1>7. TypeInv'
  <2>1. /\ next' \in [Desc -> Desc \cup {None}] /\ addr' \in [Desc -> Procs \cup {None}]
        /\ info' \in [Desc -> Procs \cup {None}] /\ status' \in [Desc -> {0, 255}]
    BY <1>1, <1>3, ZenonT(40) DEF IInv, TypeInv, TypeOK
  <2>2. /\ free' \in [Desc -> BOOLEAN] /\ busy' \in [Procs -> BOOLEAN]
        /\ holder' \in Harts \cup {None}
    BY <1>1, ZenonT(40) DEF IInv, TypeInv, TypeOK
  <2>3. pc' \in [Procs -> {"idle"} \cup Outer \cup Inner]
    BY <1>1, ZenonT(40) DEF IInv, TypeInv, Inner
  <2>4. idx' \in [Procs -> {<<>>} \cup [1 .. 3 -> Desc]]
    <3>1. <<d0, d1, d2>> \in [1 .. 3 -> Desc]
      BY <1>3, Triples, ZenonT(40)
    <3> QED
      BY <1>1, <3>1, ZenonT(40) DEF IInv, TypeInv
  <2> QED
    BY <1>1, <2>1, <2>2, <2>3, <2>4, ZenonT(40) DEF IInv, TypeInv, TypeOK, ringVars
<1>8. idx[p] = <<>> /\ Owned(p) = {} /\ ~busy[p] /\ moved[p] = 0
  BY <1>1, OwnedIs, ZenonT(40) DEF IInv, DescInv, WorkInv, Bare
<1>9. \A q \in Procs : Got \cap Owned(q) = {}
  BY <1>2, ZenonT(40) DEF IInv, DescInv
<1>10. \A q \in Procs : q # p => pc'[q] = pc[q] /\ idx'[q] = idx[q] /\ busy'[q] = busy[q]
  BY <1>1, ZenonT(40) DEF IInv, TypeInv, TypeOK
<1>11. pc'[p] = "post" /\ idx'[p] = <<d0, d1, d2>> /\ busy'[p] = TRUE
  BY <1>1, ZenonT(40) DEF IInv, TypeInv, TypeOK
<1>12. Chained(p)' /\ Owned(p)' = Got
  <2>1. /\ next'[d0] = d1 /\ next'[d1] = d2 /\ next'[d2] = None /\ addr'[d1] = p
        /\ info'[d0] = p
    BY <1>1, <1>3, ZenonT(40) DEF IInv, TypeInv, TypeOK
  <2>2. <<d0, d1, d2>> \in [1 .. 3 -> Desc]
    BY <1>3
  <2>3. Chained(p)'
    BY <1>3, <1>11, <2>1, <2>2 DEF Chained
  <2>4. Owned(p)' = {idx'[p][1], idx'[p][2], idx'[p][3]}
    BY <2>2, <1>11, Triples, ZenonT(40) DEF Owned
  <2> QED
    BY <1>3, <1>11, <2>3, <2>4
<1>13. DescInv'
  <2>1. \A d \in Desc : d \notin Got => next'[d] = next[d] /\ addr'[d] = addr[d] /\ info'[d] = info[d]
    BY <1>1, <1>3, ZenonT(40) DEF IInv, TypeInv, TypeOK
  <2>2. \A d \in Desc : free'[d] <=> IF d \in Got THEN d \notin Owned(p)' ELSE free[d]
    BY <1>1, <1>12, ZenonT(40)
  <2>3. pc'[p] \notin Bare
    BY <1>11, ZenonT(40) DEF Bare
  <2> QED
    BY <1>2, <1>8, <1>9, <1>10, <1>12, <2>1, <2>2, <2>3, DescStep, ZenonT(90) DEF IInv
<1>14. RingInv' /\ \A d : InUsed(d)' <=> InUsed(d)
  <2>1. ~(pc'[p] \in Waiting) /\ ~(pc[p] \in Waiting) /\ pc'[p] # "notify"
    BY <1>1, <1>11, ZenonT(40) DEF Waiting
  <2>2. RingInv /\ availQ' = availQ /\ usedQ' = usedQ /\ inflight' = inflight /\ NextSlot' = NextSlot
    BY <1>1, QueuesSame, ZenonT(40) DEF IInv, NextSlot, ringVars
  <2>3. \A q \in Procs : pc'[q] = "notify" => NextSlot' = idx'[q][1]
    BY <1>10, <2>1, <2>2, ZenonT(40) DEF RingInv
  <2> QED
    BY <1>10, <2>1, <2>2, <2>3, RingKept, ZenonT(40)
<1>15. WorkInv'
  <2>1. ASSUME NEW d \in Desc, InUsed(d) PROVE d # d0
    <3>1. PICK q \in Procs : Waits(q, d)
      BY <2>1, ZenonT(40) DEF IInv, RingInv, Somewhere
    <3>2. Chained(q)
      BY <3>1, ZenonT(40) DEF Waits, IInv, DescInv, Waiting, Bare
    <3>3. d \in Owned(q)
      BY <3>1, <3>2, OwnedIs, ZenonT(40) DEF Waits
    <3> QED
      BY <1>3, <1>9, <3>3, ZenonT(40)
  <2>2. \A d \in Desc : InUsed(d)' => status'[d] = 0
    <3>1. \A d \in Desc : d # d0 => status'[d] = status[d]
      BY <1>1, ZenonT(40) DEF IInv, TypeInv, TypeOK
    <3>2. \A d \in Desc : InUsed(d) => status[d] = 0
      BY ZenonT(40) DEF IInv, WorkInv
    <3> QED
      BY <1>14, <2>1, <3>1, <3>2, ZenonT(40)
  <2>3. moved' = moved
    BY <1>1, ZenonT(40)
  <2> QED
    BY <1>8, <1>10, <1>11, <1>14, <2>2, <2>3, ZenonT(90) DEF IInv, WorkInv, Bare, Holding, Waiting
<1>16. SleepInv'
  <2>1. chan[p] = None
    BY <1>1, <1>4, ZenonT(40) DEF Local
  <2>2. \A q \in Procs : Owned(q) # {} => Owned(q)' # {}
    <3>1. \A q \in Procs : q # p => Owned(q)' = Owned(q)
      BY <1>10, ZenonT(40) DEF Owned
    <3> QED
      BY <1>8, <3>1, ZenonT(40)
  <2> QED
    BY <1>1, <1>10, <2>1, <2>2, Constants DEF IInv, SleepInv
<1>17. NoLostCompletion'
  BY <1>1, ZenonT(40) DEF IInv, NoLostCompletion, ringVars
<1> QED
  BY <1>6, <1>7, <1>13, <1>14, <1>15, <1>16, <1>17, ZenonT(40) DEF IInv

-----------------------------------------------------------------------------
(* A request on its way *)

\* Between the swap and sleep() there is one process.
LEMMA OneHolder ==
  ASSUME IInv, NEW p \in Procs, NEW q \in Procs, pc[p] \in Holding, pc[q] \in Holding
  PROVE  p = q
<1>1. ASSUME NEW r \in Procs, pc[r] \in Holding PROVE \E g \in Harts : cur[g] = r /\ holder = g
  <2>1. PICK g \in Harts : cur[g] = r
    BY <1>1, ZenonT(40) DEF IInv, HartInv, PlaceInv, Holding, Outer
  <2>2. holder = g
    BY <1>1, <2>1, ZenonT(40) DEF IInv, HartInv, LockInv
  <2> QED
    BY <2>1, <2>2, ZenonT(40)
<1> QED
  BY <1>1, ZenonT(40)

\* The request is written into a slot that no queued request is in.
LEMMA RwRingInv ==
  ASSUME IInv, NEW h \in Harts, NEW p \in Procs, RwRing(h, p)
  PROVE  IInv'
<1>1. /\ cur[h] = p /\ hpc[h] = "none" /\ ~trapped[p] /\ pc[p] = "post"
      /\ avail' = [avail EXCEPT ![availIdx % NUM] = idx[p][1]]
      /\ pc' = [pc EXCEPT ![p] = "notify"]
      /\ UNCHANGED <<holder, noff, intena, sie, availIdx, used, usedIdx, used_idx, isr, claimed,
                     seen, inflight, reqVars, busy, moved, chan, cur, saved, panicked, hpc, trapped>>
  BY ZenonT(40) DEF RwRing, On, Goto, rwRest, devVars, lockVars
<1>2. Local(h, p)
  BY <1>1, LocalOf, ZenonT(40) DEF IInv
<1>3. /\ pc'[p] = "notify" /\ \A q \in Procs : q # p => pc'[q] = pc[q]
  BY <1>1, ZenonT(40) DEF IInv, TypeInv
<1>4. Local(h, p)'
  BY <1>1, <1>2, <1>3, Constants, ZenonT(40) DEF Local, Inner, Outer, Holding
<1>5. HartInv'
  BY <1>1, <1>2, <1>3, <1>4, HartStep, ZenonT(40) DEF IInv
<1>6. Chained(p) /\ idx[p][1] \in Desc
  BY <1>1, Triples, ZenonT(40) DEF IInv, DescInv, Bare, Chained
<1>7. TypeInv'
  <2>1. pc' \in [Procs -> {"idle"} \cup Outer \cup Inner]
    BY <1>1, ZenonT(40) DEF IInv, TypeInv, Inner
  <2>2. avail' \in [Desc -> Desc \cup {None}]
    BY <1>1, <1>6, ZenonT(40) DEF IInv, TypeInv, TypeOK
  <2> QED
    BY <1>1, <2>1, <2>2, ZenonT(40) DEF IInv, TypeInv, TypeOK, reqVars
<1>8. DescInv'
  <2>1. \A q \in Procs : pc'[q] \in Bare <=> pc[q] \in Bare
    BY <1>1, <1>3, ZenonT(40) DEF Bare
  <2> QED
    BY <1>1, <2>1, DescKept, ZenonT(40) DEF IInv, reqVars
<1>9. availQ' = availQ
  <2>1. Gap(WRAP, seen, availIdx) < NUM
    BY QueueLens, ZenonT(40) DEF IInv, RingInv
  <2>2. seen \in 0 .. WRAP - 1 /\ availIdx \in 0 .. WRAP - 1 /\ avail \in Slots
    BY ZenonT(40) DEF IInv, TypeInv, TypeOK, Slots
  <2>3. Window(NUM, avail', seen, Gap(WRAP, seen, availIdx))
          = Window(NUM, avail, seen, Gap(WRAP, seen, availIdx))
    BY <1>1, <2>1, <2>2, RingWrite, ZenonT(40)
  <2> QED
    BY <1>1, <2>3, ZenonT(40) DEF availQ
<1>10. usedQ' = usedQ
  BY <1>1, ZenonT(40) DEF usedQ
<1>11. NextSlot' = idx'[p][1]
  <2>1. availIdx % NUM \in Desc
    <3>1. availIdx \in 0 .. WRAP - 1
      BY ZenonT(40) DEF IInv, TypeInv, TypeOK
    <3> QED
      BY <3>1, Index, ZenonT(40)
  <2> QED
    BY <1>1, <2>1, ZenonT(40) DEF NextSlot, IInv, TypeInv, TypeOK, reqVars
<1>12. RingInv' /\ \A d : InUsed(d)' <=> InUsed(d)
  <2>1. \A q \in Procs : pc'[q] \in Waiting <=> pc[q] \in Waiting
    BY <1>1, <1>3, ZenonT(40) DEF Waiting
  <2>2. \A q \in Procs : pc'[q] = "notify" => q = p
    BY <1>1, <1>3, OneHolder, ZenonT(40) DEF Holding
  <2>3. RingInv /\ inflight' = inflight /\ busy' = busy /\ idx' = idx
    BY <1>1, ZenonT(40) DEF IInv, reqVars
  <2> QED
    BY <1>9, <1>10, <1>11, <2>1, <2>2, <2>3, RingKept, ZenonT(40)
<1>13. WorkInv'
  <2>1. \A q \in Procs : /\ pc'[q] \in Waiting <=> pc[q] \in Waiting
                         /\ pc'[q] \in Bare <=> pc[q] \in Bare
                         /\ pc'[q] \in Holding <=> pc[q] \in Holding
    BY <1>1, <1>3, ZenonT(40) DEF Waiting, Bare, Holding
  <2>2. busy' = busy /\ moved' = moved /\ idx' = idx /\ status' = status
    BY <1>1, ZenonT(40) DEF reqVars
  <2> QED
    BY <1>12, <2>1, <2>2, ZenonT(40) DEF IInv, WorkInv
<1>14. SleepInv'
  BY <1>1, <1>2, <1>3, SleepStep, ZenonT(40) DEF IInv, reqVars, Local
<1>15. NoLostCompletion'
  BY <1>1, ZenonT(40) DEF IInv, NoLostCompletion
<1> QED
  BY <1>5, <1>7, <1>8, <1>12, <1>13, <1>14, <1>15, ZenonT(40) DEF IInv

-----------------------------------------------------------------------------
(* Initial state *)

\* It holds at first.
LEMMA InitInv == Init => IInv
<1> SUFFICES ASSUME Init PROVE IInv
  BY ZenonT(40)
<1>1. 0 \in 0 .. WRAP - 1 /\ 0 \in 0 .. 1
  BY Constants
<1>2. TypeInv
  <2>1. /\ noff \in [Harts -> 0 .. 1] /\ moved \in [Procs -> Nat] /\ status \in [Desc -> {0, 255}]
        /\ {availIdx, usedIdx, used_idx, seen} \subseteq 0 .. WRAP - 1
    BY <1>1, ZenonT(40) DEF Init, LockInit, Fn
  <2>2. pc \in [Procs -> {"idle"} \cup Outer \cup Inner]
    BY ZenonT(40) DEF Init, Fn
  <2> QED
    BY <2>1, <2>2, ZenonT(60) DEF Init, LockInit, Fn, TypeInv, TypeOK
<1>3. /\ \A p \in Procs : /\ pc[p] = "idle" /\ idx[p] = <<>> /\ chan[p] = None /\ busy[p] = FALSE
                          /\ moved[p] = 0 /\ trapped[p] = FALSE /\ saved[p] = TRUE
      /\ \A h \in Harts : cur[h] = None /\ hpc[h] = "none" /\ noff[h] = 0
      /\ \A d \in Desc : free[d] = TRUE
      /\ holder = None /\ inflight = {} /\ used_idx = usedIdx
  BY ZenonT(40) DEF Init, LockInit, Fn
<1>4. HartInv
  <2>1. \A h \in Harts, p \in Procs : cur[h] # p
    BY <1>3, Constants, ZenonT(40)
  <2> QED
    BY <1>3, <2>1, Constants, ZenonT(40) DEF HartInv, HandlerInv, MaskInv, PlaceInv, LockInv
<1>5. DescInv
  <2>1. \A p \in Procs : Owned(p) = {} /\ pc[p] \in Bare
    BY <1>3, OwnedIs, ZenonT(40) DEF Bare
  <2> QED
    BY <1>3, <2>1, ZenonT(40) DEF DescInv
<1>6. availQ = <<>> /\ usedQ = <<>>
  BY <1>1, RingEmpty, ZenonT(40) DEF Init, availQ, usedQ
<1>7. ASSUME NEW d PROVE ~InAvail(d) /\ ~InUsed(d) /\ ~Somewhere(d)
  <2>1. 1 .. Len(<<>>) = {}
    OBVIOUS
  <2> QED
    BY <1>3, <1>6, <2>1, ZenonT(40) DEF InAvail, InUsed, Somewhere, In
<1>8. RingInv
  <2>1. <<>> \in Seq(Desc) /\ Len(<<>>) < NUM /\ 1 .. Len(<<>>) = {}
    BY Constants
  <2>2. \A p \in Procs : pc[p] \notin Waiting /\ pc[p] # "notify"
    BY <1>3, ZenonT(40) DEF Waiting
  <2> QED
    BY <1>6, <1>7, <2>1, <2>2, ZenonT(40) DEF RingInv, Once
<1>9. WorkInv
  <2>1. \A p \in Procs : pc[p] \notin Waiting /\ pc[p] \notin Holding
    BY <1>3, ZenonT(40) DEF Waiting, Holding
  <2> QED
    BY <1>3, <1>7, <2>1, ZenonT(40) DEF WorkInv
<1>10. SleepInv /\ NoLostCompletion
  BY <1>3, Constants, ZenonT(40) DEF SleepInv, NoLostCompletion
<1> QED
  BY <1>2, <1>4, <1>5, <1>8, <1>9, <1>10, ZenonT(40) DEF IInv

-----------------------------------------------------------------------------
(* Steps on the rings *)

\* The request is queued, and its process sleeps.
LEMMA RwNotifyInv ==
  ASSUME IInv, NEW h \in Harts, NEW p \in Procs, RwNotify(h, p), Spacious(availQ)
  PROVE  IInv'
<1> DEFINE d0 == idx[p][1]
<1>1. /\ On(h, p) /\ cur[h] = p /\ pc[p] = "notify" /\ availIdx' = Inc(availIdx)
      /\ panicked' = (holder # h \/ sie[h] \/ noff[h] < 1)
      /\ Sleep(h, p, p, chan) /\ Goto(p, "resumed")
      /\ UNCHANGED <<avail, used, usedIdx, used_idx, isr, claimed, seen, inflight, reqVars,
                     busy, moved, hpc, trapped>>
  BY ZenonT(40) DEF RwNotify, On, ReleasePanics, holding, rwRest, devVars
<1>2. Local(h, p)
  BY <1>1, LocalOf, ZenonT(40) DEF IInv
<1>3. holder = h /\ panicked' = FALSE
  <2>1. holder = h
    BY <1>1, <1>2, ZenonT(40) DEF Local, Holding
  <2>2. ~sie[h] /\ noff[h] = 1
    BY <1>1, <1>2, ZenonT(40) DEF Local, Inner, On
  <2> QED
    BY <1>1, <2>1, <2>2, Small, ZenonT(40) DEF IInv, TypeInv, TypeOK
<1>4. pc[p] \in Inner /\ "resumed" \in Outer /\ chan \in [Procs -> Procs \cup {None, "free"}]
  BY <1>1, ZenonT(40) DEF Inner, Outer, IInv, TypeInv
<1>5. /\ HartInv'
      /\ holder' = None /\ noff' \in [Harts -> 0 .. 1] /\ intena' \in [Harts -> BOOLEAN]
      /\ sie' \in [Harts -> BOOLEAN] /\ cur' \in [Harts -> Procs \cup {None}]
      /\ pc' \in [Procs -> {"idle"} \cup Outer \cup Inner]
      /\ chan' \in [Procs -> Procs \cup {None, "free"}] /\ saved' \in [Procs -> BOOLEAN]
  BY <1>1, <1>3, <1>4, SleepHart, ZenonT(40)
<1>6. seen \in 0 .. WRAP - 1 /\ availIdx \in 0 .. WRAP - 1 /\ avail \in Slots
  BY ZenonT(40) DEF IInv, TypeInv, TypeOK, Slots
<1>7. TypeInv'
  <2>1. availIdx' \in 0 .. WRAP - 1
    BY <1>1, <1>6, QueueLens, ZenonT(40) DEF IInv
  <2>2. ({availIdx, usedIdx, used_idx, seen} \subseteq 0 .. WRAP - 1)'
    <3>1. usedIdx \in 0 .. WRAP - 1 /\ used_idx \in 0 .. WRAP - 1
      BY ZenonT(40) DEF IInv, TypeInv, TypeOK
    <3> QED
      BY <1>1, <1>6, <2>1, <3>1, Index, ZenonT(40)
  <2> QED
    BY <1>1, <1>3, <1>5, <2>2, ZenonT(40) DEF IInv, TypeInv, TypeOK, reqVars
<1>8. /\ pc' = [pc EXCEPT ![p] = "resumed"] /\ chan' = [chan EXCEPT ![p] = p]
  BY <1>1, ZenonT(40) DEF Goto, Sleep
<1>9. /\ pc'[p] = "resumed" /\ chan'[p] = p
      /\ \A q \in Procs : q # p => pc'[q] = pc[q] /\ chan'[q] = chan[q]
  BY <1>8, ZenonT(40) DEF IInv, TypeInv
<1>10. DescInv'
  <2>1. \A q \in Procs : pc'[q] \in Bare <=> pc[q] \in Bare
    BY <1>1, <1>9, ZenonT(40) DEF Bare
  <2> QED
    BY <1>1, <2>1, DescKept, ZenonT(40) DEF IInv, reqVars
<1>11. Chained(p) /\ d0 \in Desc /\ idx[p][2] \in Desc /\ d0 # idx[p][2]
  BY <1>1, Triples, ZenonT(40) DEF IInv, DescInv, Bare, Chained
<1>12. ~Somewhere(d0) /\ ~Somewhere(idx[p][2])
  BY <1>1, Heads, ZenonT(40) DEF Bare, Holding
<1>13. busy[p] = TRUE /\ moved[p] = 0
  BY <1>1, ZenonT(40) DEF IInv, WorkInv, Holding, TypeInv, TypeOK
<1>14. availQ \in Seq(Desc) /\ Once(availQ) /\ ~In(d0, availQ) /\ ~In(idx[p][2], availQ)
  BY <1>12, ZenonT(40) DEF IInv, RingInv, Somewhere, InAvail
<1>15. Len(availQ) < NUM - 1
  BY <1>11, <1>14, ZenonT(40) DEF Spacious
<1>16. availQ' = Append(availQ, d0)
  <2>1. Gap(WRAP, seen, availIdx) < NUM - 1
    BY <1>15, QueueLens, ZenonT(40) DEF IInv
  <2>2. Window(NUM, avail, seen, Gap(WRAP, seen, Inc(availIdx)))
          = Append(Window(NUM, avail, seen, Gap(WRAP, seen, availIdx)), avail[availIdx % NUM])
    BY <1>6, <2>1, RingPut, ZenonT(40)
  <2>3. avail[availIdx % NUM] = d0
    BY <1>1, ZenonT(40) DEF IInv, RingInv, NextSlot
  <2> QED
    BY <1>1, <2>2, <2>3, ZenonT(40) DEF availQ
<1>17. usedQ' = usedQ
  BY <1>1, ZenonT(40) DEF usedQ
<1> HIDE DEF d0
<1>18. /\ availQ' \in Seq(Desc) /\ Once(availQ)' /\ Len(availQ') < NUM
       /\ \A d : In(d, availQ') <=> In(d, availQ) \/ d = d0
  <2>1. Len(availQ) \in Nat
    BY <1>14, LenNat, ZenonT(40)
  <2>2. /\ Append(availQ, d0) \in Seq(Desc) /\ Once(Append(availQ, d0))
        /\ Len(Append(availQ, d0)) = Len(availQ) + 1
        /\ \A d : In(d, Append(availQ, d0)) <=> In(d, availQ) \/ d = d0
    BY <1>11, <1>14, QueuePut, ZenonT(40)
  <2>3. Once(availQ)'
    BY <1>16, <2>2, ZenonT(40) DEF Once
  <2>4. Len(availQ) + 1 < NUM
    BY <1>15, <2>1, Rooms, ZenonT(40)
  <2> QED
    BY <1>16, <2>2, <2>3, <2>4, ZenonT(40)
<1>19. ASSUME NEW d
       PROVE  /\ InUsed(d)' <=> InUsed(d)
              /\ InAvail(d)' <=> InAvail(d) \/ d = d0
              /\ d \in inflight' <=> d \in inflight
              /\ Somewhere(d)' <=> Somewhere(d) \/ d = d0
  BY <1>1, <1>17, <1>18, ZenonT(40) DEF InUsed, InAvail, Somewhere, In
<1>20. ASSUME NEW q \in Procs, NEW d
       PROVE  /\ Waits(q, d) => Waits(q, d)'
              /\ Waits(q, d)' => Waits(q, d) \/ (q = p /\ d = d0)
              /\ d = d0 => Waits(p, d)'
  <2>1. busy' = busy /\ idx' = idx
    BY <1>1, ZenonT(40) DEF reqVars
  <2>2. pc[p] \notin Waiting /\ pc'[p] \in Waiting
    BY <1>1, <1>9, ZenonT(40) DEF Waiting
  <2> QED
    BY <1>9, <1>13, <2>1, <2>2, ZenonT(40) DEF Waits, d0
<1>21. RingInv'
  <2>1. /\ availQ' \in Seq(Desc) /\ Once(availQ)' /\ Len(availQ') < NUM
        /\ usedQ' \in Seq(Desc) /\ Once(usedQ)' /\ Len(usedQ') < NUM
    BY <1>17, <1>18, ZenonT(40) DEF IInv, RingInv, Once
  <2>2. \A d \in Desc : /\ ~(InAvail(d)' /\ d \in inflight') /\ ~(InAvail(d)' /\ InUsed(d)')
                        /\ ~(d \in inflight' /\ InUsed(d)')
    BY <1>12, <1>19, ZenonT(40) DEF IInv, RingInv, Somewhere
  <2>3. \A d \in Desc : Somewhere(d)' => \E q \in Procs : Waits(q, d)'
    <3> SUFFICES ASSUME NEW d \in Desc, Somewhere(d)' PROVE \E q \in Procs : Waits(q, d)'
      BY ZenonT(40)
    <3>1. CASE d = d0
      BY <1>20, <3>1, ZenonT(40)
    <3>2. CASE d # d0
      <4>1. PICK q \in Procs : Waits(q, d)
        BY <1>19, <3>2, ZenonT(40) DEF IInv, RingInv
      <4> QED
        BY <1>20, <4>1, ZenonT(40)
    <3> QED
      BY <3>1, <3>2, ZenonT(40)
  <2>4. ASSUME NEW q \in Procs, pc'[q] \in Waiting, busy'[q] PROVE Somewhere(idx[q][1])'
    <3>1. idx' = idx /\ busy' = busy
      BY <1>1, ZenonT(40) DEF reqVars
    <3>2. Somewhere(idx[q][1])' <=> Somewhere(idx[q][1]) \/ idx[q][1] = d0
      <4>1. Somewhere(idx[q][1])' <=> \/ In(idx[q][1], availQ') \/ idx[q][1] \in inflight'
                                      \/ In(idx[q][1], usedQ')
        BY <3>1, ZenonT(40) DEF Somewhere, InAvail, InUsed, In
      <4> QED
        BY <1>1, <1>17, <1>18, <4>1, ZenonT(40) DEF Somewhere, InAvail, InUsed
    <3>3. CASE q = p
      BY <3>2, <3>3, ZenonT(40) DEF d0
    <3>4. CASE q # p
      BY <1>9, <2>4, <3>1, <3>2, <3>4, ZenonT(40) DEF IInv, RingInv
    <3> QED
      BY <3>3, <3>4, ZenonT(40)
  <2>5. \A q \in Procs : pc'[q] # "notify"
    BY <1>1, <1>9, OneHolder, ZenonT(40) DEF Holding
  <2> QED
    BY <2>1, <2>2, <2>3, <2>4, <2>5, ZenonT(40) DEF RingInv
<1>22. WorkInv'
  <2>1. busy' = busy /\ moved' = moved /\ idx' = idx /\ status' = status
    BY <1>1, ZenonT(40) DEF reqVars
  <2>2. pc'[p] \notin Bare /\ pc'[p] \notin Holding /\ pc'[p] \in Waiting
    BY <1>9, ZenonT(40) DEF Bare, Holding, Waiting
  <2>3. ~InUsed(idx[p][1])
    BY <1>12, ZenonT(40) DEF Somewhere, d0
  <2> QED
    BY <1>9, <1>13, <1>19, <2>1, <2>2, <2>3, ZenonT(40) DEF IInv, WorkInv
<1>23. SleepInv'
  <2>1. \A q \in Procs : Owned(q)' = Owned(q)
    BY <1>1, ZenonT(40) DEF Owned, reqVars
  <2>2. busy' = busy
    BY <1>1, ZenonT(40)
  <2> QED
    BY <1>9, <1>13, <2>1, <2>2, Constants, ZenonT(40) DEF IInv, SleepInv
<1>24. NoLostCompletion'
  BY <1>1, ZenonT(40) DEF IInv, NoLostCompletion
<1> QED
  BY <1>5, <1>7, <1>10, <1>21, <1>22, <1>23, <1>24, ZenonT(40) DEF IInv

\* The request is done: free_chain() gives back its three descriptors, none of which
\* is free, and the call returns.
LEMMA RwDoneInv ==
  ASSUME IInv, NEW h \in Harts, NEW p \in Procs, RwDone(h, p)
  PROVE  IInv' /\ moved[p] = 1
<1> DEFINE S == Chain(idx[p][1])
<1>1. /\ cur[h] = p /\ hpc[h] = "none" /\ ~trapped[p] /\ pc[p] = "respin" /\ holder = None
      /\ ~busy[p] /\ info' = [info EXCEPT ![idx[p][1]] = None]
      /\ free' = [i \in Desc |-> free[i] \/ i \in S]
      /\ next' = [i \in Desc |-> IF i \in S THEN None ELSE next[i]]
      /\ addr' = [i \in Desc |-> IF i \in S THEN None ELSE addr[i]]
      /\ chan' = [q \in Procs |-> IF chan[q] = "free" THEN None ELSE chan[q]]
      /\ panicked' = (\E i \in S : free[i])
      /\ idx' = [idx EXCEPT ![p] = <<>>] /\ moved' = [moved EXCEPT ![p] = 0]
      /\ holder' = None /\ noff' = [noff EXCEPT ![h] = @ - 1]
      /\ sie' = [sie EXCEPT ![h] = @ \/ (noff[h] = 1 /\ intena[h])]
      /\ intena' = [intena EXCEPT ![h] = @ /\ noff[h] > 1]
      /\ pc' = [pc EXCEPT ![p] = "idle"] /\ cur' = [cur EXCEPT ![h] = None]
      /\ UNCHANGED <<ringVars, seen, inflight, isr, claimed, status, busy, saved, hpc, trapped>>
  BY ZenonT(40) DEF RwDone, On, StillBusy, WakesFree, Wakeup, FreeAgain, release, pop_off, Goto,
     rwRest,
         devVars, ringVars
<1>2. Local(h, p)
  BY <1>1, LocalOf, ZenonT(40) DEF IInv
<1>3. noff[h] = 1 /\ intena[h] /\ ~sie[h] /\ saved[p] /\ chan[p] = None
  BY <1>1, <1>2, ZenonT(40) DEF Local, Inner
<1>4. /\ cur'[h] = None /\ (\A g \in Harts : g # h => cur'[g] = cur[g])
      /\ pc'[p] = "idle" /\ noff'[h] = 0 /\ sie'[h] = TRUE /\ intena'[h] = FALSE
      /\ idx'[p] = <<>> /\ moved'[p] = 0
      /\ \A q \in Procs : q # p => pc'[q] = pc[q] /\ idx'[q] = idx[q] /\ moved'[q] = moved[q]
      /\ \A g \in Harts : g # h => noff'[g] = noff[g] /\ sie'[g] = sie[g] /\ intena'[g] = intena[g]
  <2>1. /\ noff \in [Harts -> 0 .. 1] /\ sie \in [Harts -> BOOLEAN] /\ intena \in [Harts -> BOOLEAN]
        /\ cur \in [Harts -> Procs \cup {None}] /\ DOMAIN pc = Procs /\ DOMAIN idx = Procs
        /\ DOMAIN moved = Procs
    BY ZenonT(40) DEF IInv, TypeInv, TypeOK
  <2>2. noff'[h] = 0 /\ sie'[h] = TRUE /\ intena'[h] = FALSE
    BY <1>1, <1>3, <2>1, Small, ZenonT(40)
  <2>3. \A g \in Harts : g # h => noff'[g] = noff[g] /\ sie'[g] = sie[g] /\ intena'[g] = intena[g]
    BY <1>1, <2>1, ZenonT(40)
  <2> QED
    BY <1>1, <2>1, <2>2, <2>3, ZenonT(40)
<1>5. Local(h, p)'
  <2>1. "idle" \notin Outer /\ "idle" \notin Inner /\ "idle" \notin Holding /\ None # p /\ None # h
    BY Constants, ZenonT(40) DEF Outer, Inner, Holding
  <2>2. /\ hpc'[h] = "none" /\ holder' = None /\ saved'[p] /\ ~trapped'[p]
        /\ \A g \in Harts : g # h => cur[g] # p
    BY <1>1, <1>2, <1>3, ZenonT(40) DEF Local, Inner
  <2> QED
    BY <1>4, <2>1, <2>2, ZenonT(40) DEF Local
<1>6. HartInv'
  <2>1. \A q \in Procs : q # p => chan'[q] = chan[q] \/ chan'[q] = None
    BY <1>1, ZenonT(40)
  <2>2. UNCHANGED <<hpc, trapped, saved, holder>> /\ HartInv
    BY <1>1, ZenonT(40) DEF IInv
  <2> QED
    BY <1>2, <1>4, <1>5, <2>1, <2>2, HartStep, ZenonT(90)
<1>7. Chained(p)
  BY <1>1, ZenonT(40) DEF IInv, DescInv, Bare
<1>8. S = Owned(p) /\ S \in SUBSET Desc /\ idx[p][1] \in S
  <2>1. Chain(idx[p][1]) = {idx[p][1], idx[p][2], idx[p][3]}
    <3>1. /\ next[idx[p][1]] = idx[p][2] /\ next[idx[p][2]] = idx[p][3]
          /\ idx[p][1] \in Desc /\ idx[p][2] \in Desc /\ idx[p][3] \in Desc
      BY <1>7, Triples, ZenonT(40) DEF Chained
    <3>2. idx[p][1] # None /\ idx[p][2] # None /\ idx[p][3] # None
      BY <3>1, Constants, ZenonT(40)
    <3> QED
      BY <3>1, <3>2, ZenonT(40) DEF Chain
  <2>2. Owned(p) = {idx[p][1], idx[p][2], idx[p][3]}
    BY <1>7, OwnedIs, ZenonT(40)
  <2>3. idx[p][1] \in Desc /\ idx[p][2] \in Desc /\ idx[p][3] \in Desc
    BY <1>7, Triples, ZenonT(40) DEF Chained
  <2> QED
    BY <2>1, <2>2, <2>3, ZenonT(40)
<1> HIDE DEF S
<1>9. panicked' = FALSE
  BY <1>1, <1>8, ZenonT(40) DEF IInv, DescInv
<1>10. TypeInv'
  <2>1. /\ next' \in [Desc -> Desc \cup {None}] /\ addr' \in [Desc -> Procs \cup {None}]
        /\ info' \in [Desc -> Procs \cup {None}] /\ chan' \in [Procs -> Procs \cup {None, "free"}]
    BY <1>1, ZenonT(40) DEF IInv, TypeInv, TypeOK
  <2>2. /\ pc' \in [Procs -> {"idle"} \cup Outer \cup Inner] /\ moved' \in [Procs -> Nat]
        /\ idx' \in [Procs -> {<<>>} \cup [1 .. 3 -> Desc]] /\ noff' \in [Harts -> 0 .. 1]
        /\ cur' \in [Harts -> Procs \cup {None}]
    <3>1. noff' = [noff EXCEPT ![h] = 0]
      BY <1>1, <1>3, Small, ZenonT(40)
    <3>2. noff' \in [Harts -> 0 .. 1] /\ moved' \in [Procs -> Nat]
      <4>1. noff \in [Harts -> 0 .. 1] /\ moved \in [Procs -> Nat]
        BY ZenonT(40) DEF IInv, TypeInv, TypeOK
      <4>2. 0 \in 0 .. 1 /\ 0 \in Nat
        BY Small, ZenonT(40)
      <4>3. noff' \in [Harts -> 0 .. 1]
        BY <3>1, <4>1, <4>2, ZenonT(40)
      <4> QED
        BY <1>1, <4>1, <4>2, <4>3, ZenonT(40)
    <3> QED
      BY <1>1, <3>2, ZenonT(40) DEF IInv, TypeInv, TypeOK
  <2>3. /\ free' \in [Desc -> BOOLEAN] /\ sie' \in [Harts -> BOOLEAN]
        /\ intena' \in [Harts -> BOOLEAN] /\ holder' \in Harts \cup {None}
    BY <1>1, ZenonT(40) DEF IInv, TypeInv, TypeOK
  <2> QED
    BY <1>1, <1>9, <2>1, <2>2, <2>3, ZenonT(40) DEF IInv, TypeInv, TypeOK, ringVars
<1>11. Owned(p)' = {}
  <2>1. DOMAIN idx'[p] = {}
    BY <1>4, Triples, ZenonT(40)
  <2> QED
    BY <2>1, ZenonT(40) DEF Owned
<1>12. DescInv'
  <2>1. \A q \in Procs : q # p => pc'[q] = pc[q] /\ idx'[q] = idx[q] /\ S \cap Owned(q) = {}
    BY <1>4, <1>8, ZenonT(40) DEF IInv, DescInv
  <2>2. \A d \in Desc : d \notin S => next'[d] = next[d] /\ addr'[d] = addr[d] /\ info'[d] = info[d]
    BY <1>1, <1>8, ZenonT(40) DEF IInv, TypeInv, TypeOK
  <2>3. \A d \in Desc : free'[d] <=> IF d \in S THEN d \notin Owned(p)' ELSE free[d]
    BY <1>1, <1>11, ZenonT(40)
  <2>4. pc'[p] \in Bare
    BY <1>4, ZenonT(40) DEF Bare
  <2> QED
    BY <1>4, <1>8, <1>11, <2>1, <2>2, <2>3, <2>4, DescStep, ZenonT(60) DEF IInv
<1>13. RingInv' /\ \A d : InUsed(d)' <=> InUsed(d)
  <2>1. pc'[p] \notin Waiting /\ pc'[p] # "notify" /\ busy' = busy
    BY <1>1, <1>4, ZenonT(40) DEF Waiting
  <2>2. RingInv /\ availQ' = availQ /\ usedQ' = usedQ /\ inflight' = inflight /\ NextSlot' = NextSlot
    BY <1>1, QueuesSame, ZenonT(40) DEF IInv, NextSlot, ringVars
  <2>3. \A q \in Procs : pc'[q] = "notify" => NextSlot' = idx'[q][1]
    BY <1>4, <2>1, <2>2, ZenonT(40) DEF RingInv
  <2> QED
    BY <1>1, <1>4, <2>1, <2>2, <2>3, RingKept, ZenonT(40)
<1>14. WorkInv' /\ moved[p] = 1
  <2>1. pc'[p] \in Bare /\ pc'[p] \notin Holding /\ pc'[p] \notin Waiting /\ pc[p] \in Waiting
    BY <1>1, <1>4, ZenonT(40) DEF Bare, Holding, Waiting
  <2>2. busy' = busy /\ status' = status
    BY <1>1, ZenonT(40)
  <2>3. /\ moved[p] = 1 /\ ~busy[p]
        /\ \A q \in Procs : pc[q] \in Waiting =>
             moved[q] = IF busy[q] /\ ~InUsed(idx[q][1]) THEN 0 ELSE 1
    BY <1>1, <2>1, ZenonT(40) DEF IInv, WorkInv
  <2>4. ASSUME NEW q \in Procs
        PROVE  /\ pc'[q] \in Bare => ~busy'[q] /\ moved'[q] = 0
               /\ pc'[q] \in Holding => busy'[q] /\ moved'[q] = 0
    BY <1>4, <2>1, <2>2, <2>3, ZenonT(40) DEF IInv, WorkInv
  <2>5. ASSUME NEW q \in Procs, pc'[q] \in Waiting
        PROVE  moved'[q] = IF busy'[q] /\ ~In(idx'[q][1], usedQ') THEN 0 ELSE 1
    <3>1. q # p /\ pc[q] \in Waiting /\ idx'[q] = idx[q] /\ moved'[q] = moved[q]
      BY <1>4, <2>1, <2>5, ZenonT(40)
    <3>2. In(idx'[q][1], usedQ') <=> InUsed(idx[q][1])
      BY <1>13, <3>1, ZenonT(40) DEF InUsed
    <3> QED
      BY <2>2, <2>3, <3>1, <3>2, ZenonT(40)
  <2>6. \A d \in Desc : InUsed(d)' => status'[d] = 0
    BY <1>13, <2>2, ZenonT(40) DEF IInv, WorkInv
  <2> QED
    BY <2>3, <2>4, <2>5, <2>6, ZenonT(40) DEF WorkInv, InUsed
<1>15. SleepInv'
  <2> SUFFICES ASSUME NEW q \in Procs
               PROVE  /\ chan'[q] \in {None, "free", q}
                      /\ chan'[q] = q => pc'[q] = "resumed" /\ busy'[q]
                      /\ chan'[q] = "free" => pc'[q] = "again" /\ \E r \in Procs : Owned(r)' # {}
    BY ZenonT(40) DEF SleepInv
  <2>1. chan'[q] # "free" /\ (chan'[q] = None \/ chan'[q] = chan[q])
    BY <1>1, Constants, ZenonT(40)
  <2>2. q = p => chan'[q] = None
    BY <1>3, <2>1, ZenonT(40)
  <2>3. chan'[q] = q => q # p /\ chan[q] = q
    BY <2>1, <2>2, Constants, ZenonT(40)
  <2>4. chan'[q] \in {None, "free", q}
    BY <2>1, ZenonT(40) DEF IInv, SleepInv
  <2>5. chan'[q] = q => pc'[q] = "resumed" /\ busy'[q]
    <3>1. chan[q] = q => pc[q] = "resumed" /\ busy[q]
      BY ZenonT(40) DEF IInv, SleepInv
    <3>2. busy' = busy /\ (q # p => pc'[q] = pc[q])
      BY <1>1, <1>4, ZenonT(40)
    <3> QED
      BY <2>3, <3>1, <3>2, ZenonT(40)
  <2> QED
    BY <2>1, <2>4, <2>5, ZenonT(40)
<1>16. NoLostCompletion'
  BY <1>1, ZenonT(40) DEF IInv, NoLostCompletion, ringVars
<1> QED
  BY <1>6, <1>10, <1>12, <1>13, <1>14, <1>15, <1>16, ZenonT(40) DEF IInv

\* The head of a chain leads to the process that waits for it.
LEMMA Waiter ==
  ASSUME IInv, NEW d \in Desc, Somewhere(d)
  PROVE  \E p \in Procs :
           /\ Waits(p, d) /\ Chained(p) /\ info[d] = p /\ next[d] \in Desc /\ addr[next[d]] = p
           /\ next[d] # d /\ ~Somewhere(next[d])
           /\ \A q \in Procs : q # p /\ pc[q] \notin Bare => idx[q][1] # d
<1>1. PICK p \in Procs : Waits(p, d)
  BY ZenonT(40) DEF IInv, RingInv
<1>2. Chained(p) /\ pc[p] \notin Bare /\ idx[p][1] = d
  BY <1>1, ZenonT(40) DEF Waits, IInv, DescInv, Waiting, Bare
<1>3. info[d] = p /\ next[d] = idx[p][2] /\ next[d] \in Desc /\ addr[next[d]] = p /\ next[d] # d
  BY <1>2, Triples, ZenonT(40) DEF Chained
<1>4. ~Somewhere(next[d])
  BY <1>2, <1>3, Heads, ZenonT(40)
<1>5. ASSUME NEW q \in Procs, q # p, pc[q] \notin Bare PROVE idx[q][1] # d
  <2>1. Chained(q)
    BY <1>5, ZenonT(40) DEF IInv, DescInv
  <2>2. d \in Owned(p) /\ idx[q][1] \in Owned(q)
    BY <1>2, <2>1, OwnedIs, ZenonT(40)
  <2> QED
    BY <1>5, <2>2, ZenonT(40) DEF IInv, DescInv
<1> QED
  BY <1>1, <1>2, <1>3, <1>4, <1>5, ZenonT(40)

\* The device takes the oldest request.
LEMMA DevTakeInv ==
  ASSUME IInv, DevTake
  PROVE  IInv'
<1> DEFINE a == avail[seen % NUM]
<1>1. /\ seen # availIdx /\ inflight' = inflight \cup {a}
      /\ avail' = [avail EXCEPT ![seen % NUM] = None] /\ seen' = Inc(seen)
      /\ UNCHANGED <<holder, noff, intena, sie, availIdx, used, usedIdx, used_idx, isr, claimed,
                     reqVars, busy, moved, pc, chan, cur, hpc, trapped, saved, panicked>>
  BY ZenonT(40) DEF DevTake, lockVars
<1>2. seen \in 0 .. WRAP - 1 /\ availIdx \in 0 .. WRAP - 1 /\ avail \in Slots
  BY ZenonT(40) DEF IInv, TypeInv, TypeOK, Slots
<1>3. Gap(WRAP, seen, availIdx) < NUM
  BY QueueLens, ZenonT(40) DEF IInv, RingInv
<1>4. availQ # <<>> /\ a = Head(availQ) /\ availQ' = Tail(availQ)
  <2>1. /\ Window(NUM, avail, seen, Gap(WRAP, seen, availIdx)) # <<>>
        /\ Head(Window(NUM, avail, seen, Gap(WRAP, seen, availIdx))) = avail[seen % NUM]
        /\ Window(NUM, [avail EXCEPT ![seen % NUM] = None], Inc(seen), Gap(WRAP, Inc(seen), availIdx))
              = Tail(Window(NUM, avail, seen, Gap(WRAP, seen, availIdx)))
    BY <1>1, <1>2, <1>3, RingGet, ZenonT(40)
  <2> QED
    BY <1>1, <2>1, ZenonT(40) DEF availQ
<1>5. usedQ' = usedQ
  BY <1>1, ZenonT(40) DEF usedQ
<1>6. NextSlot' = NextSlot
  <2>1. availIdx % NUM # seen % NUM
    BY <1>1, <1>2, <1>3, RingApart, ZenonT(40)
  <2>2. availIdx % NUM \in Desc
    BY <1>2, Index, ZenonT(40)
  <2> QED
    BY <1>1, <1>2, <2>1, <2>2, ZenonT(40) DEF NextSlot, Slots
<1> HIDE DEF a
<1>7. /\ a \in Desc /\ In(a, availQ) /\ availQ' \in Seq(Desc) /\ Once(availQ)'
      /\ Len(availQ') < NUM /\ \A d : In(d, availQ') <=> In(d, availQ) /\ d # a
  <2>1. availQ \in Seq(Desc) /\ Once(availQ) /\ Len(availQ) < NUM /\ Len(availQ) \in Nat
    BY LenNat, ZenonT(40) DEF IInv, RingInv
  <2>2. /\ Head(availQ) \in Desc /\ In(Head(availQ), availQ)
        /\ Tail(availQ) \in Seq(Desc) /\ Once(Tail(availQ)) /\ Len(Tail(availQ)) = Len(availQ) - 1
        /\ \A d : In(d, Tail(availQ)) <=> In(d, availQ) /\ d # Head(availQ)
    BY <1>4, <2>1, QueueGet, ZenonT(40)
  <2>3. Once(availQ)'
    BY <1>4, <2>2, ZenonT(40) DEF Once
  <2>4. Len(availQ) - 1 < NUM
    BY <2>1, Rooms, ZenonT(40)
  <2> QED
    BY <1>4, <2>2, <2>3, <2>4, ZenonT(40)
<1>8. TypeInv'
  <2>1. seen' \in 0 .. WRAP - 1
    BY <1>1, <1>2, QueueLens, ZenonT(40) DEF IInv
  <2>2. ({availIdx, usedIdx, used_idx, seen} \subseteq 0 .. WRAP - 1)' /\ inflight' \subseteq Desc
    <3>1. usedIdx \in 0 .. WRAP - 1 /\ used_idx \in 0 .. WRAP - 1 /\ inflight \subseteq Desc
      BY ZenonT(40) DEF IInv, TypeInv, TypeOK
    <3> QED
      BY <1>1, <1>2, <1>7, <2>1, <3>1, Index, ZenonT(40)
  <2>3. avail' \in [Desc -> Desc \cup {None}]
    BY <1>1, ZenonT(40) DEF IInv, TypeInv, TypeOK
  <2> QED
    BY <1>1, <2>2, <2>3, ZenonT(40) DEF IInv, TypeInv, TypeOK, reqVars
<1>9. HartInv' /\ DescInv' /\ SleepInv' /\ NoLostCompletion'
  <2>1. HartInv'
    BY <1>1, HartSame, ZenonT(40) DEF IInv
  <2>2. DescInv'
    BY <1>1, DescKept, ZenonT(40) DEF IInv, reqVars
  <2>3. SleepInv'
    BY <1>1, SleepStep, ZenonT(40) DEF IInv, reqVars
  <2>4. NoLostCompletion'
    BY <1>1, ZenonT(40) DEF IInv, NoLostCompletion
  <2> QED
    BY <2>1, <2>2, <2>3, <2>4, ZenonT(40)
<1>10. ASSUME NEW d
       PROVE  /\ InUsed(d)' <=> InUsed(d)
              /\ InAvail(d)' <=> InAvail(d) /\ d # a
              /\ d \in inflight' <=> d \in inflight \/ d = a
              /\ Somewhere(d)' <=> Somewhere(d)
  BY <1>1, <1>5, <1>7, ZenonT(40) DEF InUsed, InAvail, Somewhere, In
<1>11. RingInv'
  <2>1. /\ availQ' \in Seq(Desc) /\ Once(availQ)' /\ Len(availQ') < NUM
        /\ usedQ' \in Seq(Desc) /\ Once(usedQ)' /\ Len(usedQ') < NUM
    BY <1>5, <1>7, ZenonT(40) DEF IInv, RingInv, Once
  <2>2. InAvail(a)
    BY <1>7, ZenonT(40) DEF InAvail
  <2>3. \A d \in Desc : /\ ~(InAvail(d)' /\ d \in inflight') /\ ~(InAvail(d)' /\ InUsed(d)')
                        /\ ~(d \in inflight' /\ InUsed(d)')
    BY <1>7, <1>10, <2>2, ZenonT(40) DEF IInv, RingInv
  <2>4. pc' = pc /\ busy' = busy /\ idx' = idx
    BY <1>1, ZenonT(40) DEF reqVars
  <2>5. \A d \in Desc : Somewhere(d)' => \E q \in Procs : Waits(q, d)'
    BY <1>10, <2>4, ZenonT(40) DEF IInv, RingInv, Waits
  <2>6. ASSUME NEW q \in Procs, pc'[q] \in Waiting, busy'[q] PROVE Somewhere(idx[q][1])'
    <3>1. Somewhere(idx[q][1])' <=> \/ In(idx[q][1], availQ') \/ idx[q][1] \in inflight'
                                    \/ In(idx[q][1], usedQ')
      BY <2>4, ZenonT(40) DEF Somewhere, InAvail, InUsed, In
    <3>2. Somewhere(idx[q][1])
      BY <2>4, <2>6, ZenonT(40) DEF IInv, RingInv
    <3> QED
      BY <1>1, <1>5, <1>7, <3>1, <3>2, ZenonT(40) DEF Somewhere, InAvail, InUsed
  <2>7. \A q \in Procs : pc'[q] = "notify" => NextSlot' = idx'[q][1]
    BY <1>6, <2>4, ZenonT(40) DEF IInv, RingInv
  <2> QED
    BY <2>1, <2>3, <2>5, <2>6, <2>7, ZenonT(40) DEF RingInv
<1>12. WorkInv'
  <2>1. pc' = pc /\ busy' = busy /\ idx' = idx /\ moved' = moved /\ status' = status
    BY <1>1, ZenonT(40) DEF reqVars
  <2>2. \A q \in Procs : InUsed(idx[q][1])' <=> InUsed(idx[q][1])
    BY <1>5, <2>1, ZenonT(40) DEF InUsed, In
  <2> QED
    BY <1>10, <2>1, <2>2, ZenonT(40) DEF IInv, WorkInv
<1> QED
  BY <1>8, <1>9, <1>11, <1>12, ZenonT(40) DEF IInv

\* The device finishes a request: it has moved the data of the buffer whose process
\* waits, and there is room in the used ring.
LEMMA DevDoneInv ==
  ASSUME IInv, NEW d0 \in Desc, DevDone(d0), Spacious(usedQ)
  PROVE  IInv'
<1>1. /\ d0 \in inflight /\ moved' = [moved EXCEPT ![addr[next[d0]]] = @ + 1]
      /\ status' = [status EXCEPT ![d0] = 0] /\ used' = [used EXCEPT ![usedIdx % NUM] = d0]
      /\ usedIdx' = Inc(usedIdx) /\ isr' = TRUE /\ inflight' = inflight \ {d0}
      /\ UNCHANGED <<holder, noff, intena, sie, avail, availIdx, used_idx, claimed, seen, free,
                     next, addr, info, idx, busy, pc, chan, cur, hpc, trapped, saved, panicked>>
  BY ZenonT(40) DEF DevDone, lockVars
<1>2. used_idx \in 0 .. WRAP - 1 /\ usedIdx \in 0 .. WRAP - 1 /\ used \in Slots
  BY ZenonT(40) DEF IInv, TypeInv, TypeOK, Slots
<1>3. Somewhere(d0) /\ ~InUsed(d0) /\ ~InAvail(d0)
  BY <1>1, ZenonT(40) DEF IInv, RingInv, Somewhere
<1>4. PICK p \in Procs :
        /\ Waits(p, d0) /\ Chained(p) /\ next[d0] \in Desc /\ addr[next[d0]] = p
        /\ next[d0] # d0 /\ ~Somewhere(next[d0])
        /\ \A q \in Procs : q # p /\ pc[q] \notin Bare => idx[q][1] # d0
  BY <1>3, Waiter, ZenonT(40)
<1>5. usedQ \in Seq(Desc) /\ Once(usedQ) /\ ~In(d0, usedQ) /\ ~In(next[d0], usedQ)
  BY <1>3, <1>4, ZenonT(40) DEF IInv, RingInv, Somewhere, InUsed
<1>6. Len(usedQ) < NUM - 1 /\ Len(usedQ) \in Nat
  BY <1>4, <1>5, LenNat, ZenonT(40) DEF Spacious
<1>7. used' \in Slots
  BY <1>1, <1>2, ZenonT(40) DEF Slots
<1>8. usedQ' = Append(usedQ, d0)
  <2>1. Gap(WRAP, used_idx, usedIdx) < NUM - 1 /\ Gap(WRAP, used_idx, usedIdx) < NUM
    BY <1>6, QueueLens, Rooms, ZenonT(40) DEF IInv
  <2>2. Window(NUM, used', used_idx, Gap(WRAP, used_idx, usedIdx))
          = Window(NUM, used, used_idx, Gap(WRAP, used_idx, usedIdx))
    BY <1>1, <1>2, <2>1, RingWrite, ZenonT(40)
  <2>3. Window(NUM, used', used_idx, Gap(WRAP, used_idx, Inc(usedIdx)))
          = Append(Window(NUM, used', used_idx, Gap(WRAP, used_idx, usedIdx)), used'[usedIdx % NUM])
    BY <1>2, <1>7, <2>1, RingPut, ZenonT(40)
  <2>4. used'[usedIdx % NUM] = d0
    <3>1. usedIdx % NUM \in Desc
      BY <1>2, Index, ZenonT(40)
    <3> QED
      BY <1>1, <1>2, <3>1, ZenonT(40) DEF Slots
  <2> QED
    BY <1>1, <2>2, <2>3, <2>4, ZenonT(40) DEF usedQ
<1>9. availQ' = availQ /\ NextSlot' = NextSlot
  BY <1>1, ZenonT(40) DEF availQ, NextSlot
<1>10. /\ usedQ' \in Seq(Desc) /\ Once(usedQ)' /\ Len(usedQ') < NUM
       /\ \A d : In(d, usedQ') <=> In(d, usedQ) \/ d = d0
  <2>1. /\ Append(usedQ, d0) \in Seq(Desc) /\ Once(Append(usedQ, d0))
        /\ Len(Append(usedQ, d0)) = Len(usedQ) + 1
        /\ \A d : In(d, Append(usedQ, d0)) <=> In(d, usedQ) \/ d = d0
    BY <1>5, QueuePut, ZenonT(40)
  <2>2. Once(usedQ)'
    BY <1>8, <2>1, ZenonT(40) DEF Once
  <2>3. Len(usedQ) + 1 < NUM
    BY <1>6, Rooms, ZenonT(40)
  <2> QED
    BY <1>8, <2>1, <2>2, <2>3, ZenonT(40)
<1>11. /\ moved'[p] = 1 /\ busy[p] /\ pc[p] \in Waiting /\ idx[p][1] = d0
       /\ \A q \in Procs : q # p => moved'[q] = moved[q]
  <2>1. busy[p] /\ pc[p] \in Waiting /\ idx[p][1] = d0
    BY <1>4, ZenonT(40) DEF Waits
  <2>2. moved[p] = 0
    BY <1>3, <2>1, ZenonT(40) DEF IInv, WorkInv
  <2>3. moved \in [Procs -> Nat]
    BY ZenonT(40) DEF IInv, TypeInv, TypeOK
  <2>4. moved[p] + 1 = 1
    BY <2>2, Small, ZenonT(40)
  <2> QED
    BY <1>1, <1>4, <2>1, <2>2, <2>3, <2>4, ZenonT(40)
<1>12. TypeInv'
  <2>1. usedIdx' \in 0 .. WRAP - 1
    BY <1>1, <1>2, QueueLens, ZenonT(40) DEF IInv
  <2>2. ({availIdx, usedIdx, used_idx, seen} \subseteq 0 .. WRAP - 1)' /\ inflight' \subseteq Desc
    <3>1. seen \in 0 .. WRAP - 1 /\ availIdx \in 0 .. WRAP - 1 /\ inflight \subseteq Desc
      BY ZenonT(40) DEF IInv, TypeInv, TypeOK
    <3> QED
      BY <1>1, <1>2, <2>1, <3>1, Index, ZenonT(40)
  <2>3. moved' \in [Procs -> Nat] /\ status' \in [Desc -> {0, 255}]
    <3>1. moved \in [Procs -> Nat] /\ status \in [Desc -> {0, 255}]
      BY ZenonT(40) DEF IInv, TypeInv, TypeOK
    <3> QED
      BY <1>1, <1>4, <3>1, Small, ZenonT(40)
  <2>4. used' \in [Desc -> Desc \cup {None}]
    BY <1>7, ZenonT(40) DEF Slots
  <2> QED
    BY <1>1, <2>2, <2>3, <2>4, ZenonT(40) DEF IInv, TypeInv, TypeOK
<1>13. HartInv' /\ DescInv' /\ SleepInv' /\ NoLostCompletion'
  <2>1. HartInv'
    BY <1>1, HartSame, ZenonT(40) DEF IInv
  <2>2. DescInv'
    BY <1>1, DescKept, ZenonT(40) DEF IInv
  <2>3. SleepInv'
    BY <1>1, SleepStep, ZenonT(40) DEF IInv
  <2>4. NoLostCompletion'
    BY <1>1, ZenonT(40) DEF NoLostCompletion
  <2> QED
    BY <2>1, <2>2, <2>3, <2>4, ZenonT(40)
<1>14. ASSUME NEW d
       PROVE  /\ InUsed(d)' <=> InUsed(d) \/ d = d0
              /\ InAvail(d)' <=> InAvail(d)
              /\ d \in inflight' <=> d \in inflight /\ d # d0
              /\ Somewhere(d)' <=> Somewhere(d)
  BY <1>1, <1>9, <1>10, ZenonT(40) DEF InUsed, InAvail, Somewhere, In
<1>15. RingInv'
  <2>1. /\ availQ' \in Seq(Desc) /\ Once(availQ)' /\ Len(availQ') < NUM
        /\ usedQ' \in Seq(Desc) /\ Once(usedQ)' /\ Len(usedQ') < NUM
    BY <1>9, <1>10, ZenonT(40) DEF IInv, RingInv, Once
  <2>3. \A d \in Desc : /\ ~(InAvail(d)' /\ d \in inflight') /\ ~(InAvail(d)' /\ InUsed(d)')
                        /\ ~(d \in inflight' /\ InUsed(d)')
    BY <1>3, <1>14, ZenonT(40) DEF IInv, RingInv
  <2>4. pc' = pc /\ busy' = busy /\ idx' = idx
    BY <1>1, ZenonT(40)
  <2>5. \A d \in Desc : Somewhere(d)' => \E q \in Procs : Waits(q, d)'
    BY <1>14, <2>4, ZenonT(40) DEF IInv, RingInv, Waits
  <2>6. ASSUME NEW q \in Procs, pc'[q] \in Waiting, busy'[q] PROVE Somewhere(idx[q][1])'
    <3>1. Somewhere(idx[q][1])' <=> \/ In(idx[q][1], availQ') \/ idx[q][1] \in inflight'
                                    \/ In(idx[q][1], usedQ')
      BY <2>4, ZenonT(40) DEF Somewhere, InAvail, InUsed, In
    <3>2. Somewhere(idx[q][1])
      BY <2>4, <2>6, ZenonT(40) DEF IInv, RingInv
    <3> QED
      BY <1>1, <1>9, <1>10, <3>1, <3>2, ZenonT(40) DEF Somewhere, InAvail, InUsed
  <2>7. \A q \in Procs : pc'[q] = "notify" => NextSlot' = idx'[q][1]
    BY <1>9, <2>4, ZenonT(40) DEF IInv, RingInv
  <2> QED
    BY <2>1, <2>3, <2>5, <2>6, <2>7, ZenonT(40) DEF RingInv
<1>16. WorkInv'
  <2>1. pc' = pc /\ busy' = busy /\ idx' = idx
    BY <1>1, ZenonT(40)
  <2>2. \A q \in Procs : InUsed(idx[q][1])' <=> InUsed(idx[q][1]) \/ idx[q][1] = d0
    BY <1>10, <2>1, ZenonT(40) DEF InUsed, In
  <2>3. pc[p] \notin Bare /\ pc[p] \notin Holding
    BY <1>11, ZenonT(40) DEF Bare, Holding, Waiting
  <2>4. \A d \in Desc : InUsed(d)' => status'[d] = 0
    <3>1. status \in [Desc -> {0, 255}] /\ \A d \in Desc : InUsed(d) => status[d] = 0
      BY ZenonT(40) DEF IInv, WorkInv, TypeInv, TypeOK
    <3> QED
      BY <1>1, <1>14, <3>1, ZenonT(40)
  <2>5. \A q \in Procs : pc[q] \in Bare => ~busy[q] /\ moved'[q] = 0
    BY <1>11, <2>3, ZenonT(40) DEF IInv, WorkInv
  <2>6. \A q \in Procs : pc[q] \in Holding => busy[q] /\ moved'[q] = 0
    BY <1>11, <2>3, ZenonT(40) DEF IInv, WorkInv
  <2>7. ASSUME NEW q \in Procs, pc[q] \in Waiting
        PROVE  moved'[q] = IF busy[q] /\ ~InUsed(idx[q][1])' THEN 0 ELSE 1
    <3>1. CASE q = p
      BY <1>11, <2>2, <3>1, ZenonT(40)
    <3>2. CASE q # p
      <4>1. idx[q][1] # d0
        BY <1>4, <2>7, <3>2, ZenonT(40) DEF Waiting, Bare
      <4> QED
        BY <1>11, <2>2, <2>7, <3>2, <4>1, ZenonT(40) DEF IInv, WorkInv
    <3> QED
      BY <3>1, <3>2, ZenonT(40)
  <2> QED
    BY <2>1, <2>4, <2>5, <2>6, <2>7, ZenonT(40) DEF WorkInv
<1> QED
  BY <1>12, <1>13, <1>15, <1>16, ZenonT(40) DEF IInv

\* The handler finds a finished request, and its process is the one that waits.
LEMMA IntrOneInv ==
  ASSUME IInv, NEW h \in Harts, IntrOne(h)
  PROVE  IInv'
<1> DEFINE id == used[used_idx % NUM]
<1>1. /\ hpc[h] = "loop" /\ used_idx # usedIdx /\ panicked' = (status[id] # 0)
      /\ busy' = [busy EXCEPT ![info[id]] = FALSE]
      /\ chan' = [q \in Procs |-> IF chan[q] = info[id] THEN None ELSE chan[q]]
      /\ used' = [used EXCEPT ![used_idx % NUM] = None] /\ used_idx' = Inc(used_idx)
      /\ UNCHANGED <<holder, noff, intena, sie, avail, availIdx, usedIdx, isr, claimed, seen,
                     inflight, status, hpc, free, next, addr, info, idx, moved, pc, cur, trapped,
                     saved>>
  BY ZenonT(40) DEF IntrOne, MoreWork, Wakeup, lockVars, devVars, handlerVars
<1>2. used_idx \in 0 .. WRAP - 1 /\ usedIdx \in 0 .. WRAP - 1 /\ used \in Slots
  BY ZenonT(40) DEF IInv, TypeInv, TypeOK, Slots
<1>3. Gap(WRAP, used_idx, usedIdx) < NUM
  BY QueueLens, ZenonT(40) DEF IInv, RingInv
<1>4. usedQ # <<>> /\ id = Head(usedQ) /\ usedQ' = Tail(usedQ)
  <2>1. /\ Window(NUM, used, used_idx, Gap(WRAP, used_idx, usedIdx)) # <<>>
        /\ Head(Window(NUM, used, used_idx, Gap(WRAP, used_idx, usedIdx))) = used[used_idx % NUM]
        /\ Window(NUM, [used EXCEPT ![used_idx % NUM] = None], Inc(used_idx),
                  Gap(WRAP, Inc(used_idx), usedIdx))
              = Tail(Window(NUM, used, used_idx, Gap(WRAP, used_idx, usedIdx)))
    BY <1>1, <1>2, <1>3, RingGet, ZenonT(40)
  <2> QED
    BY <1>1, <2>1, ZenonT(40) DEF usedQ
<1>5. availQ' = availQ /\ NextSlot' = NextSlot
  BY <1>1, ZenonT(40) DEF availQ, NextSlot
<1> HIDE DEF id
<1>6. /\ id \in Desc /\ In(id, usedQ) /\ usedQ' \in Seq(Desc) /\ Once(usedQ)'
      /\ Len(usedQ') < NUM /\ \A d : In(d, usedQ') <=> In(d, usedQ) /\ d # id
  <2>1. usedQ \in Seq(Desc) /\ Once(usedQ) /\ Len(usedQ) < NUM /\ Len(usedQ) \in Nat
    BY LenNat, ZenonT(40) DEF IInv, RingInv
  <2>2. /\ Head(usedQ) \in Desc /\ In(Head(usedQ), usedQ)
        /\ Tail(usedQ) \in Seq(Desc) /\ Once(Tail(usedQ)) /\ Len(Tail(usedQ)) = Len(usedQ) - 1
        /\ \A d : In(d, Tail(usedQ)) <=> In(d, usedQ) /\ d # Head(usedQ)
    BY <1>4, <2>1, QueueGet, ZenonT(40)
  <2>3. Once(usedQ)'
    BY <1>4, <2>2, ZenonT(40) DEF Once
  <2>4. Len(usedQ) - 1 < NUM
    BY <2>1, Rooms, ZenonT(40)
  <2> QED
    BY <1>4, <2>2, <2>3, <2>4, ZenonT(40)
<1>7. InUsed(id) /\ Somewhere(id) /\ ~InAvail(id) /\ id \notin inflight
  BY <1>6, ZenonT(40) DEF IInv, RingInv, InUsed, Somewhere
<1>8. PICK p \in Procs :
        /\ Waits(p, id) /\ info[id] = p
        /\ \A q \in Procs : q # p /\ pc[q] \notin Bare => idx[q][1] # id
  BY <1>6, <1>7, Waiter, ZenonT(40)
<1>9. /\ pc[p] \in Waiting /\ busy[p] /\ idx[p][1] = id /\ moved[p] = 1
  BY <1>7, <1>8, ZenonT(40) DEF Waits, IInv, WorkInv
<1>10. /\ busy'[p] = FALSE /\ (\A q \in Procs : q # p => busy'[q] = busy[q])
       /\ chan'[p] # p /\ \A q \in Procs : chan'[q] = None \/ chan'[q] = chan[q]
  BY <1>1, <1>8, Constants, ZenonT(40) DEF IInv, TypeInv, TypeOK
<1>11. TypeInv'
  <2>1. used_idx' \in 0 .. WRAP - 1
    BY <1>1, <1>2, QueueLens, ZenonT(40) DEF IInv
  <2>2. ({availIdx, usedIdx, used_idx, seen} \subseteq 0 .. WRAP - 1)' /\ inflight' \subseteq Desc
    <3>1. seen \in 0 .. WRAP - 1 /\ availIdx \in 0 .. WRAP - 1 /\ inflight \subseteq Desc
      BY ZenonT(40) DEF IInv, TypeInv, TypeOK
    <3> QED
      BY <1>1, <1>2, <2>1, <3>1, Index, ZenonT(40)
  <2>3. used' \in [Desc -> Desc \cup {None}] /\ busy' \in [Procs -> BOOLEAN]
    BY <1>1, <1>8, ZenonT(40) DEF IInv, TypeInv, TypeOK
  <2>4. chan' \in [Procs -> Procs \cup {None, "free"}]
    BY <1>1, ZenonT(40) DEF IInv, TypeInv
  <2>5. panicked' = FALSE
    BY <1>1, <1>6, <1>7, ZenonT(40) DEF IInv, WorkInv
  <2> QED
    BY <1>1, <2>2, <2>3, <2>4, <2>5, ZenonT(40) DEF IInv, TypeInv, TypeOK
<1>12. HartInv' /\ DescInv' /\ NoLostCompletion'
  <2>1. HartInv'
    BY <1>1, <1>10, HartSame, ZenonT(40) DEF IInv
  <2>2. DescInv'
    BY <1>1, DescKept, ZenonT(40) DEF IInv
  <2>3. NoLostCompletion'
    BY <1>1, ZenonT(40) DEF NoLostCompletion
  <2> QED
    BY <2>1, <2>2, <2>3, ZenonT(40)
<1>13. SleepInv'
  BY <1>1, <1>10, SleepStep, ZenonT(40) DEF IInv
<1>14. ASSUME NEW d
       PROVE  /\ InUsed(d)' <=> InUsed(d) /\ d # id
              /\ InAvail(d)' <=> InAvail(d)
              /\ d \in inflight' <=> d \in inflight
              /\ Somewhere(d)' <=> Somewhere(d) /\ d # id
  BY <1>1, <1>5, <1>6, <1>7, ZenonT(40) DEF InUsed, InAvail, Somewhere, In
<1>15. RingInv'
  <2>1. /\ availQ' \in Seq(Desc) /\ Once(availQ)' /\ Len(availQ') < NUM
        /\ usedQ' \in Seq(Desc) /\ Once(usedQ)' /\ Len(usedQ') < NUM
    BY <1>5, <1>6, ZenonT(40) DEF IInv, RingInv, Once
  <2>2. \A d \in Desc : /\ ~(InAvail(d)' /\ d \in inflight') /\ ~(InAvail(d)' /\ InUsed(d)')
                        /\ ~(d \in inflight' /\ InUsed(d)')
    BY <1>14, ZenonT(40) DEF IInv, RingInv
  <2>3. pc' = pc /\ idx' = idx
    BY <1>1, ZenonT(40)
  <2>4. ASSUME NEW d \in Desc, Somewhere(d)' PROVE \E q \in Procs : Waits(q, d)'
    <3>1. PICK q \in Procs : Waits(q, d) /\ d # id
      BY <1>14, <2>4, ZenonT(40) DEF IInv, RingInv
    <3>2. q # p
      BY <1>9, <3>1, ZenonT(40) DEF Waits
    <3> QED
      BY <1>10, <2>3, <3>1, <3>2, ZenonT(40) DEF Waits
  <2>5. ASSUME NEW q \in Procs, pc'[q] \in Waiting, busy'[q] PROVE Somewhere(idx[q][1])'
    <3>1. Somewhere(idx[q][1])' <=> \/ In(idx[q][1], availQ') \/ idx[q][1] \in inflight'
                                    \/ In(idx[q][1], usedQ')
      BY <2>3, ZenonT(40) DEF Somewhere, InAvail, InUsed, In
    <3>2. q # p /\ busy[q] /\ pc[q] \in Waiting
      BY <1>10, <2>3, <2>5, ZenonT(40)
    <3>3. Somewhere(idx[q][1]) /\ idx[q][1] # id
      BY <1>8, <3>2, ZenonT(40) DEF IInv, RingInv, Waiting, Bare
    <3> QED
      BY <1>1, <1>5, <1>6, <3>1, <3>3, ZenonT(40) DEF Somewhere, InAvail, InUsed
  <2>6. \A q \in Procs : pc'[q] = "notify" => NextSlot' = idx'[q][1]
    BY <1>5, <2>3, ZenonT(40) DEF IInv, RingInv
  <2> QED
    BY <2>1, <2>2, <2>4, <2>5, <2>6, ZenonT(40) DEF RingInv
<1>16. WorkInv'
  <2>1. pc' = pc /\ moved' = moved /\ idx' = idx /\ status' = status
    BY <1>1, ZenonT(40)
  <2>2. \A q \in Procs : InUsed(idx[q][1])' <=> InUsed(idx[q][1]) /\ idx[q][1] # id
    BY <1>6, <2>1, ZenonT(40) DEF InUsed, In
  <2>3. pc[p] \notin Bare /\ pc[p] \notin Holding
    BY <1>9, ZenonT(40) DEF Bare, Holding, Waiting
  <2>4. \A d \in Desc : InUsed(d)' => status[d] = 0
    BY <1>14, ZenonT(40) DEF IInv, WorkInv
  <2>5. \A q \in Procs : pc[q] \in Bare => ~busy'[q] /\ moved[q] = 0
    BY <1>10, <2>3, ZenonT(40) DEF IInv, WorkInv
  <2>6. \A q \in Procs : pc[q] \in Holding => busy'[q] /\ moved[q] = 0
    BY <1>10, <2>3, ZenonT(40) DEF IInv, WorkInv
  <2>7. ASSUME NEW q \in Procs, pc[q] \in Waiting
        PROVE  moved[q] = IF busy'[q] /\ ~InUsed(idx[q][1])' THEN 0 ELSE 1
    <3>1. CASE q = p
      BY <1>9, <1>10, <3>1, ZenonT(40)
    <3>2. CASE q # p
      <4>1. idx[q][1] # id
        BY <1>8, <2>7, <3>2, ZenonT(40) DEF Waiting, Bare
      <4> QED
        BY <1>10, <2>2, <2>7, <3>2, <4>1, ZenonT(40) DEF IInv, WorkInv
    <3> QED
      BY <3>1, <3>2, ZenonT(40)
  <2> QED
    BY <2>1, <2>4, <2>5, <2>6, <2>7, ZenonT(40) DEF WorkInv
<1> QED
  BY <1>11, <1>12, <1>13, <1>15, <1>16, ZenonT(40) DEF IInv

-----------------------------------------------------------------------------
(* What the invariant gives *)

\* The invariant has DiskSafe.
LEMMA InvSafe == IInv => DiskSafe
<1> SUFFICES ASSUME IInv PROVE DiskSafe
  BY ZenonT(40)
<1>1. TypeOK /\ NoPanic
  BY ZenonT(40) DEF IInv, TypeInv, NoPanic
<1>2. ASSUME NEW d \in inflight PROVE \E p \in Procs : busy[p] /\ idx[p] # <<>> /\ idx[p][1] = d
  <2>1. d \in Desc /\ Somewhere(d)
    BY <1>1, ZenonT(40) DEF TypeOK, Somewhere
  <2>2. PICK p \in Procs : Waits(p, d) /\ Chained(p)
    BY <2>1, Waiter, ZenonT(40)
  <2>3. idx[p] # <<>>
    BY <2>2, Triples, ZenonT(40) DEF Chained
  <2> QED
    BY <2>2, <2>3, ZenonT(40) DEF Waits
<1> QED
  BY <1>1, <1>2, ZenonT(40) DEF DiskSafe, DescOwned, IInv, DescInv

\* The invariant has Masks.
LEMMA InvMasks == IInv => Masks
<1> SUFFICES ASSUME IInv, NEW h \in Harts, NEW p \in Procs, cur[h] = p, hpc[h] = "none"
             PROVE  sie[h] = (~trapped[p] /\ pc[p] \in {"again", "resumed"})
  BY ZenonT(40) DEF Masks
<1>1. Local(h, p)
  BY LocalOf, ZenonT(40) DEF IInv
<1>2. sie[h] \in BOOLEAN /\ trapped[p] \in BOOLEAN
  BY ZenonT(40) DEF IInv, TypeInv, TypeOK
<1>3. CASE pc[p] \in Inner
  <2>1. pc[p] \notin {"again", "resumed"} /\ ~sie[h]
    BY <1>1, <1>3, ZenonT(40) DEF Local, Inner
  <2> QED
    BY <1>2, <2>1, ZenonT(40)
<1>4. CASE pc[p] \in Outer
  <2>1. pc[p] \in {"again", "resumed"} /\ (sie[h] <=> ~trapped[p])
    BY <1>1, <1>4, ZenonT(40) DEF Local, Outer
  <2> QED
    BY <1>2, <2>1, ZenonT(40)
<1>5. pc[p] \in Inner \cup Outer
  BY <1>1, ZenonT(40) DEF Local, IInv, TypeInv
<1> QED
  BY <1>3, <1>4, <1>5, ZenonT(40)

\* The invariant has NobodyStuck.
LEMMA InvNotStuck == IInv => NobodyStuck
<1> SUFFICES ASSUME IInv PROVE NobodyStuck
  BY ZenonT(40)
<1>1. NoLostCompletion
  BY ZenonT(40) DEF IInv
<1>2. ASSUME NEW p \in Procs, chan[p] = p
      PROVE  busy[p] /\ (Queued(idx[p][1]) \/ idx[p][1] \in inflight)
  <2>1. busy[p] /\ pc[p] \in Waiting
    BY <1>2, Constants, ZenonT(40) DEF IInv, SleepInv, Waiting
  <2>2. Somewhere(idx[p][1])
    BY <2>1, ZenonT(40) DEF IInv, RingInv
  <2>3. /\ seen \in 0 .. WRAP - 1 /\ availIdx \in 0 .. WRAP - 1 /\ used_idx \in 0 .. WRAP - 1
        /\ usedIdx \in 0 .. WRAP - 1 /\ seen \in Int /\ used_idx \in Int
    BY Constants, Index, ZenonT(40) DEF IInv, TypeInv, TypeOK
  <2>4. Gap(WRAP, seen, availIdx) \in Nat /\ Gap(WRAP, used_idx, usedIdx) \in Nat
    <3>1. Gap(WRAP, seen, availIdx) \in 0 .. WRAP - 1
      BY <2>3, Constants, GapRange, ZenonT(40)
    <3>2. Gap(WRAP, used_idx, usedIdx) \in 0 .. WRAP - 1
      BY <2>3, Constants, GapRange, ZenonT(40)
    <3> QED
      BY <3>1, <3>2, Index, ZenonT(40)
  <2>5. CASE InAvail(idx[p][1])
    <3>1. \E i \in Desc : avail[i] = idx[p][1]
      <4> DEFINE n == Gap(WRAP, seen, availIdx)
      <4>1. n \in Nat /\ seen \in Int /\ In(idx[p][1], Window(NUM, avail, seen, n))
        BY <2>3, <2>4, <2>5, ZenonT(40) DEF InAvail, availQ
      <4> HIDE DEF n
      <4> QED
        BY <4>1, WindowSlot
    <3> QED
      BY <2>1, <3>1, ZenonT(40) DEF Queued
  <2>6. CASE InUsed(idx[p][1])
    <3>1. \E i \in Desc : used[i] = idx[p][1]
      <4> DEFINE n == Gap(WRAP, used_idx, usedIdx)
      <4>1. n \in Nat /\ used_idx \in Int /\ In(idx[p][1], Window(NUM, used, used_idx, n))
        BY <2>3, <2>4, <2>6, ZenonT(40) DEF InUsed, usedQ
      <4> HIDE DEF n
      <4> QED
        BY <4>1, WindowSlot
    <3> QED
      BY <2>1, <3>1, ZenonT(40) DEF Queued
  <2> QED
    BY <2>1, <2>2, <2>5, <2>6, ZenonT(40) DEF Somewhere
<1>3. ASSUME NEW p \in Procs, chan[p] = "free" PROVE \E q \in Procs : Owned(q) # {}
  BY <1>3, ZenonT(40) DEF IInv, SleepInv
<1> QED
  BY <1>1, <1>2, <1>3, ZenonT(40) DEF NobodyStuck, NoStuckSleeper

\* A process returns from virtio_disk_rw() by RwDone(), after its transfer.
LEMMA ReturnStep ==
  ASSUME IInv, [Next]_vars, NEW p \in Procs, pc'[p] = "idle", pc[p] # "idle"
  PROVE  moved[p] = 1
<1>1. ASSUME NEW l, NEW q \in Procs, Goto(q, l), l # "idle" PROVE FALSE
  BY <1>1, ZenonT(40) DEF Goto, IInv, TypeInv
<1>2. pc' # pc
  BY ZenonT(40)
<1>3. ASSUME NEW h \in Harts, NEW q \in Procs, RwCall(h, q) \/ RwStep(h, q) PROVE moved[p] = 1
  <2>1. ~RwCall(h, q) /\ ~RwAlloc(h, q) /\ ~RwShort(h, q) /\ ~RwRing(h, q)
    BY <1>1, ZenonT(40) DEF RwCall, RwAlloc, RwShort, RwRing
  <2>2. ~RwNotify(h, q) /\ ~RwRelock(h, q) /\ ~RwWait(h, q)
    BY <1>1, ZenonT(40) DEF RwNotify, RwRelock, RwWait
  <2>3. RwDone(h, q)
    BY <1>3, <2>1, <2>2, ZenonT(40) DEF RwStep
  <2>4. q = p
    BY <2>3, ZenonT(40) DEF RwDone, Goto, IInv, TypeInv
  <2> QED
    BY <2>3, <2>4, RwDoneInv, ZenonT(40)
<1>4. ASSUME NEW h \in Harts, IntrEnter(h) \/ IntrStep(h) \/ SchedTop(h) PROVE FALSE
  BY <1>2, <1>4, ZenonT(40)
     DEF IntrEnter, IntrStep, IntrAck, IntrOne, IntrExit, SchedTop, handlerVars, schedRest
<1>5. ASSUME NEW h \in Harts, NEW q \in Procs, TimerYield(h, q) \/ Resume(h, q) \/ TrapReturn(h, q)
      PROVE  FALSE
  BY <1>2, <1>5, ZenonT(40) DEF TimerYield, Resume, TrapReturn, schedRest
<1>6. ASSUME NEW q \in Procs, Kill(q) PROVE FALSE
  BY <1>2, <1>6, ZenonT(40) DEF Kill, schedRest
<1>7. ~DevTake /\ \A d \in Desc : ~DevDone(d)
  BY <1>2, ZenonT(40) DEF DevTake, DevDone
<1>8. Next
  BY <1>2, ZenonT(40) DEF vars
<1> QED
  BY <1>3, <1>4, <1>5, <1>6, <1>7, <1>8, ZenonT(40) DEF Next

-----------------------------------------------------------------------------
(* Numbers of descriptors *)

\* The library's facts about finite sets.
FST == INSTANCE FiniteSetTheorems

\* They are about the finite sets and cardinalities that VirtioDisk uses.
LEMMA SameCount ==
  \A S : FST!Cardinality(S) = Cardinality(S) /\ (FST!IsFiniteSet(S) <=> IsFiniteSet(S))
BY ZenonT(40) DEF FST!Cardinality, Cardinality, FST!IsFiniteSet, IsFiniteSet

\* Intervals of numbers.
LEMMA Interval ==
  ASSUME NEW m \in Int, NEW n \in Int
  PROVE  /\ IsFiniteSet(m .. n)
         /\ Cardinality(m .. n) = IF m > n THEN 0 ELSE n - m + 1
BY FST!FS_Interval, SameCount, ZenonT(40)

\* Subsets of finite sets.
LEMMA Subset ==
  ASSUME NEW S, IsFiniteSet(S), NEW T \in SUBSET S
  PROVE  /\ IsFiniteSet(T) /\ Cardinality(T) <= Cardinality(S)
         /\ Cardinality(T) \in Nat /\ Cardinality(S) \in Nat
BY FST!FS_Subset, FST!FS_CardinalityType, SameCount, ZenonT(40)

\* A set has a member, and one less without it.
LEMMA Removal ==
  ASSUME NEW S, IsFiniteSet(S), Cardinality(S) # 0
  PROVE  /\ S # {}
         /\ \A x \in S : IsFiniteSet(S \ {x}) /\ Cardinality(S \ {x}) = Cardinality(S) - 1
<1>1. S # {}
  BY FST!FS_EmptySet, SameCount, ZenonT(40)
<1>2. ASSUME NEW x \in S PROVE IsFiniteSet(S \ {x}) /\ Cardinality(S \ {x}) = Cardinality(S) - 1
  BY FST!FS_RemoveElement, SameCount, ZenonT(40)
<1> QED
  BY <1>1, <1>2, ZenonT(40)

\* All descriptors.
LEMMA All == IsFiniteSet(Desc) /\ Cardinality(Desc) = NUM
<1>1. IsFiniteSet(0 .. NUM - 1) /\ Cardinality(0 .. NUM - 1) = IF 0 > NUM - 1 THEN 0 ELSE (NUM - 1) - 0 + 1
  BY Sizes, Interval, ZenonT(40)
<1> QED
  BY <1>1, Sizes, ZenonT(40) DEF Desc

\* alloc3_desc() only fails when somebody has descriptors.
LEMMA ShortOwned ==
  ASSUME IInv, Cardinality(Got) < 3
  PROVE  Lent
<1> SUFFICES ASSUME \A q \in Procs : Owned(q) = {} PROVE FALSE
  BY ZenonT(40) DEF Lent
<1>1. \A d \in Desc : free[d]
  BY ZenonT(40) DEF IInv, DescInv
<1>2. IsFiniteSet(Got)
  <2>1. Got \in SUBSET Desc
    BY ZenonT(40) DEF Got, FirstFree
  <2> QED
    BY <2>1, All, Subset, ZenonT(40)
<1>3. ASSUME NEW i \in 0 .. 2 PROVE i \in Got
  <2>1. i \in Desc /\ 0 \in Int /\ i - 1 \in Int
    BY Sizes, Firsts, ZenonT(40)
  <2>2. IsFiniteSet(0 .. i - 1) /\ Cardinality(0 .. i - 1) <= 2
    <3>1. /\ IsFiniteSet(0 .. i - 1)
          /\ Cardinality(0 .. i - 1) = IF 0 > i - 1 THEN 0 ELSE (i - 1) - 0 + 1
      BY <2>1, Interval, ZenonT(40)
    <3> QED
      BY <3>1, Firsts, ZenonT(40)
  <2>3. {j \in 0 .. i - 1 : free[j]} \in SUBSET (0 .. i - 1)
    BY ZenonT(40)
  <2>4. Cardinality({j \in 0 .. i - 1 : free[j]}) \in Nat
        /\ Cardinality({j \in 0 .. i - 1 : free[j]}) <= Cardinality(0 .. i - 1)
        /\ Cardinality(0 .. i - 1) \in Nat
    BY <2>2, <2>3, Subset, ZenonT(40)
  <2>5. Cardinality({j \in 0 .. i - 1 : free[j]}) < 3
    BY <2>2, <2>4, Orders, ZenonT(40)
  <2> QED
    BY <1>1, <2>1, <2>5, ZenonT(40) DEF Got, FirstFree
<1>4. 0 .. 2 \in SUBSET Got
  BY <1>3, ZenonT(40)
<1>5. Cardinality(0 .. 2) <= Cardinality(Got) /\ Cardinality(Got) \in Nat /\ Cardinality(0 .. 2) \in Nat
  BY <1>2, <1>4, Subset, ZenonT(40)
<1>6. Cardinality(0 .. 2) = 3
  <2>1. Cardinality(0 .. 2) = IF 0 > 2 THEN 0 ELSE 2 - 0 + 1
    BY Sizes, Interval, ZenonT(40)
  <2> QED
    BY <2>1, Sizes, ZenonT(40)
<1>7. Cardinality(0 .. 2) <= 2
  BY <1>5, Orders, ZenonT(40)
<1> QED
  BY <1>6, <1>7, Sizes, ZenonT(40)

\* alloc3_desc() gets three different descriptors, which Pos names in order.
LEMMA Three ==
  ASSUME NEW S \in SUBSET Desc, Cardinality(S) = 3
  PROVE  Ranked(S)
<1>1. IsFiniteSet(S)
  BY All, Subset, ZenonT(40)
<1>2. PICK x, y, z \in S : x # y /\ y # z /\ x # z /\ S = {x, y, z}
  <2>1. S # {} /\ \A x \in S : IsFiniteSet(S \ {x}) /\ Cardinality(S \ {x}) = 2
    BY <1>1, Sizes, Removal, ZenonT(40)
  <2>2. PICK x \in S : IsFiniteSet(S \ {x}) /\ Cardinality(S \ {x}) = 2
    BY <2>1, ZenonT(40)
  <2> DEFINE S1 == S \ {x}
  <2>3. S1 # {} /\ \A y \in S1 : IsFiniteSet(S1 \ {y}) /\ Cardinality(S1 \ {y}) = 1
    BY <2>2, Sizes, Removal, ZenonT(40)
  <2>4. PICK y \in S1 : IsFiniteSet(S1 \ {y}) /\ Cardinality(S1 \ {y}) = 1
    BY <2>3, ZenonT(40)
  <2> DEFINE S2 == S1 \ {y}
  <2>5. S2 # {} /\ \A z \in S2 : IsFiniteSet(S2 \ {z}) /\ Cardinality(S2 \ {z}) = 0
    BY <2>4, Sizes, Removal, ZenonT(40)
  <2>6. PICK z \in S2 : IsFiniteSet(S2 \ {z}) /\ Cardinality(S2 \ {z}) = 0
    BY <2>5, ZenonT(40)
  <2>7. S2 \ {z} = {}
    BY <2>6, FST!FS_EmptySet, SameCount, ZenonT(40)
  <2>8. x \in S /\ y \in S /\ z \in S /\ x # y /\ y # z /\ x # z
    BY <2>2, <2>4, <2>6, ZenonT(40)
  <2>9. \A v : v \in S <=> v = x \/ v = y \/ v = z
    BY <2>7, <2>8, ZenonT(40)
  <2> HIDE DEF S1, S2
  <2>10. S = {x, y, z}
    BY <2>9, ZenonT(40)
  <2> QED
    BY <2>8, <2>10, ZenonT(40)
<1>3. ASSUME NEW a \in S, NEW b \in S, NEW c \in S, a < b, b < c, a # b, b # c, a # c, S = {a, b, c}
      PROVE  Ranked(S)
  <2>1. a \in Int /\ b \in Int /\ c \in Int
    BY Orders, ZenonT(40)
  <2>2. Cardinality({}) = 0
    BY FST!FS_EmptySet, SameCount, ZenonT(40)
  <2>3. IsFiniteSet({a}) /\ Cardinality({a}) = 1
    BY FST!FS_Singleton, SameCount, ZenonT(40)
  <2>4. Cardinality({a, b}) = 2
    <3>1. {a} \cup {b} = {a, b} /\ b \notin {a}
      BY <1>3, ZenonT(40)
    <3>2. Cardinality({a} \cup {b}) = IF b \in {a} THEN Cardinality({a}) ELSE Cardinality({a}) + 1
      BY <2>3, FST!FS_AddElement, SameCount, ZenonT(40)
    <3> QED
      BY <2>3, <3>1, <3>2, Sizes, ZenonT(40)
  <2>5. Pos(S, 0) = a /\ Pos(S, 1) = b /\ Pos(S, 2) = c
    <3>1. InOrder(S, a, b, c)
      BY <1>3, <2>1, <2>2, <2>3, <2>4, ZenonT(40) DEF InOrder
    <3> QED
      BY <3>1, Positions, ZenonT(40)
  <2> QED
    BY <1>3, <2>5, ZenonT(40) DEF Ranked
<1>4. x \in Int /\ y \in Int /\ z \in Int
  BY Orders, ZenonT(40)
<1>5. /\ S = {x, z, y} /\ S = {y, x, z} /\ S = {y, z, x} /\ S = {z, x, y} /\ S = {z, y, x}
  BY <1>2, ZenonT(40)
<1> QED
  BY <1>2, <1>3, <1>4, <1>5, Sorted, ZenonT(40)

\* A queue without repetitions that misses two descriptors leaves room for one more.
LEMMA Room ==
  ASSUME NEW q \in Seq(Desc), Once(q)
  PROVE  Spacious(q)
<1> SUFFICES ASSUME NEW a \in Desc, NEW b \in Desc, a # b, ~In(a, q), ~In(b, q)
             PROVE  Len(q) < NUM - 1
  BY ZenonT(40) DEF Spacious
<1> DEFINE T == (Desc \ {a}) \ {b}
           f == [i \in 1 .. Len(q) |-> q[i]]
<1>1. IsFiniteSet(T) /\ Cardinality(T) = NUM - 2
  <2>1. IsFiniteSet(Desc \ {a}) /\ Cardinality(Desc \ {a}) = NUM - 1
    BY All, Sizes, Removal, ZenonT(40)
  <2>2. b \in Desc \ {a}
    BY ZenonT(40)
  <2> QED
    BY <2>1, <2>2, Sizes, Removal, ZenonT(40)
<1>2. f \in FST!Injection(1 .. Len(q), T)
  <2>1. \A i \in 1 .. Len(q) : q[i] \in T
    BY DEF In
  <2> QED
    BY <2>1, ZenonT(40) DEF FST!Injection, FST!IsInjective, Once
<1>3. Len(q) \in Nat
  BY LenNat, ZenonT(40)
<1>4. Cardinality(1 .. Len(q)) <= Cardinality(T)
  <2> HIDE DEF T, f
  <2>1. FST!IsFiniteSet(T)
    BY <1>1, SameCount, ZenonT(40)
  <2>2. FST!Cardinality(1 .. Len(q)) <= FST!Cardinality(T)
    BY <1>2, <2>1, FST!FS_Injection, ZenonT(40)
  <2> QED
    BY <2>2, SameCount, ZenonT(40)
<1>5. Cardinality(1 .. Len(q)) = Len(q)
  <2>1. 1 \in Int /\ Len(q) \in Int /\ (1 > Len(q) => Len(q) = 0) /\ Len(q) - 1 + 1 = Len(q)
    BY <1>3, Sizes, Orders, ZenonT(40)
  <2>2. Cardinality(1 .. Len(q)) = IF 1 > Len(q) THEN 0 ELSE Len(q) - 1 + 1
    BY <2>1, Interval, ZenonT(40)
  <2> QED
    BY <2>1, <2>2, ZenonT(40)
<1>6. Len(q) <= NUM - 2
  BY <1>1, <1>4, <1>5, ZenonT(40)
<1> QED
  BY <1>3, <1>6, Orders, ZenonT(40)

-----------------------------------------------------------------------------
(* Theorems *)

\* Every step keeps it.
LEMMA NextInv == IInv /\ [Next]_vars => IInv'
<1> SUFFICES ASSUME IInv, [Next]_vars PROVE IInv'
  BY ZenonT(40)
<1>a. /\ availQ \in Seq(Desc) /\ Once(availQ) /\ usedQ \in Seq(Desc) /\ Once(usedQ)
  BY ZenonT(40) DEF IInv, RingInv
<1>1. ASSUME NEW h \in Harts, IntrEnter(h) PROVE IInv'
  BY <1>1, IntrEnterInv, ZenonT(40)
<1>2. ASSUME NEW h \in Harts, IntrStep(h) PROVE IInv'
  BY <1>2, IntrAckInv, IntrOneInv, IntrExitInv, ZenonT(40) DEF IntrStep
<1>3. ASSUME NEW h \in Harts, SchedTop(h) PROVE IInv'
  BY <1>3, SchedTopInv, ZenonT(40)
<1>4. ASSUME NEW h \in Harts, NEW p \in Procs, RwCall(h, p) PROVE IInv'
  BY <1>4, RwCallInv, ZenonT(40)
<1>5. ASSUME NEW h \in Harts, NEW p \in Procs, RwStep(h, p) PROVE IInv'
  <2>1. CASE RwAlloc(h, p)
    <3>1. Got \in SUBSET Desc /\ Cardinality(Got) = 3
      BY <2>1, ZenonT(40) DEF RwAlloc, Got, FirstFree
    <3> QED
      BY <2>1, <3>1, Three, RwAllocInv, ZenonT(40)
  <2>2. CASE RwShort(h, p)
    <3>1. Cardinality(Got) < 3
      BY <2>2, ZenonT(40) DEF RwShort
    <3> QED
      BY <2>2, <3>1, ShortOwned, RwShortInv, ZenonT(40)
  <2>3. CASE RwNotify(h, p)
    BY <2>3, <1>a, Room, RwNotifyInv, ZenonT(40)
  <2> QED
    BY <1>5, <2>1, <2>2, <2>3, RwRingInv, RwRelockInv, RwWaitInv, RwDoneInv, ZenonT(40) DEF RwStep
<1>6. ASSUME NEW h \in Harts, NEW p \in Procs, TimerYield(h, p) \/ Resume(h, p) \/ TrapReturn(h, p)
      PROVE  IInv'
  BY <1>6, TimerYieldInv, ResumeInv, TrapReturnInv, ZenonT(40)
<1>7. ASSUME NEW p \in Procs, Kill(p) PROVE IInv'
  BY <1>7, KillInv, ZenonT(40)
<1>8. ASSUME DevTake PROVE IInv'
  BY <1>8, DevTakeInv, ZenonT(40)
<1>9. ASSUME NEW d \in Desc, DevDone(d) PROVE IInv'
  BY <1>9, <1>a, Room, DevDoneInv, ZenonT(40)
<1>10. CASE UNCHANGED vars
  <2>1. UNCHANGED <<holder, noff, intena, sie, ringVars, isr, claimed, seen, inflight, reqVars,
                    busy, moved, pc, chan, cur, hpc, trapped, saved, panicked>>
    BY <1>10, ZenonT(40) DEF vars, lockVars, devVars
  <2>2. UNCHANGED schedRest
    BY <2>1, ZenonT(40) DEF schedRest, devVars
  <2>3. HartInv'
    BY <2>1, HartSame, ZenonT(40) DEF IInv
  <2>4. /\ cur' \in [Harts -> Procs \cup {None}] /\ sie' \in [Harts -> BOOLEAN]
        /\ trapped' \in [Procs -> BOOLEAN] /\ saved' \in [Procs -> BOOLEAN]
        /\ chan' \in [Procs -> Procs \cup {None, "free"}]
        /\ \A p \in Procs : chan'[p] = chan[p] \/ chan'[p] = None
    BY <2>1, ZenonT(40) DEF IInv, TypeInv, TypeOK
  <2> QED
    BY <2>1, <2>2, <2>3, <2>4, SchedStep, ZenonT(40)
<1> QED
  BY <1>1, <1>2, <1>3, <1>4, <1>5, <1>6, <1>7, <1>8, <1>9, <1>10, ZenonT(40) DEF Next

\* The inductive invariant: harts and their masks, descriptors and their owners,
\* rings and what is queued in them, and sleepers.
THEOREM Invariance == Spec => []IInv
BY InitInv, NextInv, PTL DEF Spec

\* No panic of free_desc(), virtio_disk_intr(), acquire(), release() or pop_off() is
\* reachable, and every descriptor of disk.desc[] has one owner or is free.
THEOREM DiskIsSafe == Spec => []DiskSafe
BY Invariance, InvSafe, PTL

\* Interrupts are on exactly where push_off(), traps and sched() mean them to be,
\* on whatever hart the process is resumed.
THEOREM MasksRight == Spec => []Masks
BY Invariance, InvMasks, PTL

\* A completion the driver has not seen has an interrupt or a handler to come, and
\* whoever sleeps in virtio_disk_rw() has a request in the rings or at work, or
\* somebody else who will free descriptors.
THEOREM NobodyIsStuck == Spec => []NobodyStuck
BY Invariance, InvNotStuck, PTL

\* virtio_disk_rw() returns when the device has moved the data of its buffer, once.
THEOREM DataTransferred == Spec => Transferred
<1>1. IInv /\ [Next]_vars
        => [\A p \in Procs : pc'[p] = "idle" /\ pc[p] # "idle" => moved[p] = 1]_vars
  BY ReturnStep, ZenonT(40)
<1> QED
  BY <1>1, Invariance, PTL DEF Spec, Transferred
=============================================================================
