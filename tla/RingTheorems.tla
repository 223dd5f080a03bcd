---------------------------- MODULE RingTheorems ----------------------------
(***************************************************************************)
(* Rings with wrapping indices, as pipe.c and virtio_disk.c have them: N     *)
(* cells, and a read and a write index that are taken modulo W, a multiple   *)
(* of N.  Index i stands for cell i % N.                                     *)
(***************************************************************************)
EXTENDS Integers, Sequences, TLAPS

\* Time for each leaf.
USE SMTT(20), ZenonT(20)

\* N cells and indices modulo W.
Ring(N, W) == N > 0 /\ W > 0 /\ W % N = 0

\* The cell of index i.
Cell(N, i) == i % N

\* The index after i.
Step(W, i) == (i + 1) % W

\* How many steps index w is ahead of index r.
Gap(W, r, w) == (w - r) % W

\* The n entries of ring d from index r on.
Window(N, d, r, n) == [i \in 1 .. n |-> d[Cell(N, r + i - 1)]]

-----------------------------------------------------------------------------
(* Remainders *)

\* A number is its quotient times n plus its remainder.
LEMMA ModDef ==
  ASSUME NEW n \in Nat, n > 0, NEW a \in Int
  PROVE  a \div n \in Int /\ a % n \in 0 .. n - 1 /\ a = (n * (a \div n)) + (a % n)
<1>1. a \div n \in Int
  OBVIOUS
<1>2. a % n \in 0 .. n - 1
  OBVIOUS
<1>3. a = (n * (a \div n)) + (a % n)
  OBVIOUS
<1> QED
  BY <1>1, <1>2, <1>3, ZenonT(40)

\* There is no other way.
LEMMA ModUnique ==
  ASSUME NEW n \in Nat, n > 0, NEW q \in Int, NEW r \in 0 .. n - 1
  PROVE  ((n * q) + r) % n = r
OBVIOUS

\* Multiples of n do not count.
LEMMA ModShift ==
  ASSUME NEW n \in Nat, n > 0, NEW a \in Int, NEW k \in Int
  PROVE  (a + (n * k)) % n = a % n
<1> DEFINE q == a \div n
           r == a % n
<1>1. q \in Int /\ r \in 0 .. n - 1 /\ a = (n * q) + r
  BY ModDef, ZenonT(40)
<1> HIDE DEF q, r
<1>2. a + (n * k) = (n * (q + k)) + r
  BY <1>1
<1>3. ((n * (q + k)) + r) % n = r
  BY <1>1, ModUnique
<1> QED
  BY <1>2, <1>3, ZenonT(40) DEF r

\* Two numbers less than n apart have different remainders.
LEMMA ModDistinct ==
  ASSUME NEW n \in Nat, n > 0, NEW a \in Int, NEW b \in Int, a < b, b - a < n
  PROVE  a % n # b % n
<1> DEFINE q == a \div n
           r == a % n
           s == b \div n
           t == b % n
<1>1. q \in Int /\ r \in 0 .. n - 1 /\ a = (n * q) + r
  BY ModDef, ZenonT(40)
<1>2. s \in Int /\ t \in 0 .. n - 1 /\ b = (n * s) + t
  BY ModDef, ZenonT(40)
<1> SUFFICES r # t
  BY ZenonT(40)
<1> HIDE DEF q, r, s, t
<1> SUFFICES ASSUME r = t PROVE FALSE
  BY ZenonT(40)
<1>3. b - a = n * (s - q)
  BY <1>1, <1>2
<1>4. CASE s - q <= 0
  BY <1>1, <1>2, <1>3, <1>4
<1>5. CASE s - q >= 1
  <2>1. n * (s - q) >= n
    BY <1>1, <1>2, <1>5
  <2> QED
    BY <1>3, <2>1
<1> QED
  BY <1>1, <1>2, <1>4, <1>5

-----------------------------------------------------------------------------
(* Indices *)

\* Within one turn a remainder is the number itself, or one turn away from it.
LEMMA ModWrap ==
  ASSUME NEW W \in Nat, W > 0, NEW a \in Int
  PROVE  /\ a \in 0 .. W - 1 => a % W = a
         /\ a - W \in 0 .. W - 1 => a % W = a - W
         /\ a + W \in 0 .. W - 1 => a % W = a + W
<1>1. ASSUME NEW c \in 0 .. W - 1, NEW q \in Int, a = (W * q) + c PROVE a % W = c
  BY <1>1, ModUnique, ZenonT(40)
<1>2. a = (W * 0) + a /\ a = (W * 1) + (a - W) /\ a = (W * (-1)) + (a + W)
  OBVIOUS
<1> QED
  BY <1>1, <1>2

\* A step wraps around at W.
LEMMA StepVal ==
  ASSUME NEW W \in Nat, W > 0, NEW r \in 0 .. W - 1
  PROVE  /\ Step(W, r) = IF r + 1 = W THEN 0 ELSE r + 1
         /\ Step(W, r) \in 0 .. W - 1
BY ModWrap DEF Step

\* The write index may have wrapped around once more than the read index.
LEMMA GapVal ==
  ASSUME NEW W \in Nat, W > 0, NEW r \in 0 .. W - 1, NEW w \in 0 .. W - 1
  PROVE  Gap(W, r, w) = IF r <= w THEN w - r ELSE w - r + W
BY ModWrap DEF Gap

\* The indices are equal when nothing lies between them.
LEMMA GapRange ==
  ASSUME NEW W \in Nat, W > 0, NEW r \in 0 .. W - 1, NEW w \in 0 .. W - 1
  PROVE  Gap(W, r, w) \in 0 .. W - 1 /\ (r = w <=> Gap(W, r, w) = 0)
BY GapVal

\* They are K apart when the write index is where K steps from the read index
\* lead.
LEMMA GapFull ==
  ASSUME NEW W \in Nat, W > 0, NEW r \in 0 .. W - 1, NEW w \in 0 .. W - 1,
         NEW K \in 0 .. W - 1
  PROVE  w = (r + K) % W <=> Gap(W, r, w) = K
<1>1. Gap(W, r, w) = IF r <= w THEN w - r ELSE w - r + W
  BY GapVal, ZenonT(40)
<1>2. (r + K) % W = IF r + K < W THEN r + K ELSE r + K - W
  BY ModWrap
<1> QED
  BY <1>1, <1>2

\* A step of either index changes the gap by one.
LEMMA GapSteps ==
  ASSUME NEW W \in Nat, W > 0, NEW r \in 0 .. W - 1, NEW w \in 0 .. W - 1
  PROVE  /\ Gap(W, r, w) < W - 1 => Gap(W, r, Step(W, w)) = Gap(W, r, w) + 1
         /\ Gap(W, r, w) > 0 => Gap(W, Step(W, r), w) = Gap(W, r, w) - 1
<1> DEFINE r1 == IF r + 1 = W THEN 0 ELSE r + 1
           w1 == IF w + 1 = W THEN 0 ELSE w + 1
<1>1. Step(W, r) = r1 /\ Step(W, w) = w1
  BY StepVal, ZenonT(40)
<1>2. r1 \in 0 .. W - 1 /\ w1 \in 0 .. W - 1
  OBVIOUS
<1>3. Gap(W, r, w) = IF r <= w THEN w - r ELSE w - r + W
  BY GapVal, ZenonT(40)
<1>4. Gap(W, r, w1) = IF r <= w1 THEN w1 - r ELSE w1 - r + W
  BY <1>2, GapVal, ZenonT(40)
<1>5. Gap(W, r1, w) = IF r1 <= w THEN w - r1 ELSE w - r1 + W
  BY <1>2, GapVal, ZenonT(40)
<1>6. Gap(W, r, w) < W - 1 => Gap(W, r, w1) = Gap(W, r, w) + 1
  BY <1>3, <1>4
<1>7. Gap(W, r, w) > 0 => Gap(W, r1, w) = Gap(W, r, w) - 1
  BY <1>3, <1>5
<1> QED
  BY <1>1, <1>6, <1>7, ZenonT(40)

-----------------------------------------------------------------------------
(* Cells *)

\* Indices less than N apart have cells of their own.
LEMMA CellFacts ==
  ASSUME NEW N \in Nat, N > 0
  PROVE  /\ \A a \in Int : Cell(N, a) \in 0 .. N - 1
         /\ \A a, b \in Int : a < b /\ b - a < N => Cell(N, a) # Cell(N, b)
BY ModDef, ModDistinct, ZenonT(40) DEF Cell

\* A turn of the indices leads back to the same cell.
LEMMA CellWrap ==
  ASSUME NEW N \in Nat, NEW W \in Nat, Ring(N, W), NEW a \in Int
  PROVE  Cell(N, a + W) = Cell(N, a)
<1> DEFINE k == W \div N
<1>1. N \in Nat /\ N > 0 /\ W \in Nat /\ W % N = 0
  BY ZenonT(40) DEF Ring
<1>2. k \in Int /\ W = (N * k) + (W % N)
  BY <1>1, ModDef
<1> HIDE DEF k
<1>3. W = N * k
  BY <1>1, <1>2
<1>4. (a + (N * k)) % N = a % N
  BY <1>1, <1>2, ModShift, ZenonT(40)
<1> QED
  BY <1>3, <1>4, ZenonT(40) DEF Cell

\* Cells follow each other also where the indices wrap around.
LEMMA Cells ==
  ASSUME NEW N \in Nat, NEW W \in Nat, Ring(N, W),
         NEW r \in 0 .. W - 1, NEW w \in 0 .. W - 1
  PROVE  /\ Cell(N, w) = Cell(N, r + Gap(W, r, w))
         /\ \A i \in Nat : Cell(N, Step(W, r) + i) = Cell(N, r + 1 + i)
<1>1. N \in Nat /\ W \in Nat /\ W > 0
  BY ZenonT(40) DEF Ring
<1>2. \A a \in Int : Cell(N, a + W) = Cell(N, a)
  BY CellWrap, ZenonT(40)
<1>3. Cell(N, w) = Cell(N, r + Gap(W, r, w))
  <2>1. r + Gap(W, r, w) = w \/ r + Gap(W, r, w) = w + W
    BY <1>1, GapVal
  <2> QED
    BY <1>1, <1>2, <2>1
<1>4. ASSUME NEW i \in Nat PROVE Cell(N, Step(W, r) + i) = Cell(N, r + 1 + i)
  <2>1. Step(W, r) + i = r + 1 + i \/ (Step(W, r) + i = i /\ r + 1 + i = i + W)
    BY <1>1, StepVal
  <2> QED
    BY <1>1, <1>2, <2>1
<1> QED
  BY <1>3, <1>4, ZenonT(40)

\* The entries of a window ...
LEMMA WindowAt ==
  ASSUME NEW N, NEW d, NEW r \in Int, NEW n \in Nat, NEW i \in 1 .. n
  PROVE  Window(N, d, r, n)[i] = d[Cell(N, r + (i - 1))]
<1>1. r + i - 1 = r + (i - 1)
  BY ZenonT(40)
<1>2. Window(N, d, r, n)[i] = d[Cell(N, r + i - 1)]
  BY ZenonT(40) DEF Window
<1> QED
  BY <1>1, <1>2, ZenonT(40)

\* ... are a sequence.
LEMMA WindowSeq ==
  ASSUME NEW N \in Nat, N > 0, NEW S, NEW d \in [0 .. N - 1 -> S], NEW r \in Int, NEW n \in Nat
  PROVE  Window(N, d, r, n) \in Seq(S) /\ Len(Window(N, d, r, n)) = n
<1>1. ASSUME NEW i \in 1 .. n PROVE Cell(N, r + i - 1) \in 0 .. N - 1
  <2>1. r + i - 1 \in Int
    OBVIOUS
  <2> QED
    BY <2>1, CellFacts, ZenonT(40)
<1>2. Window(N, d, r, n) \in [1 .. n -> S]
  BY <1>1, ZenonT(40) DEF Window
<1> QED
  BY <1>2

\* It is as long as it was cut.
LEMMA WindowLen ==
  ASSUME NEW N, NEW d, NEW r, NEW n \in Nat
  PROVE  Len(Window(N, d, r, n)) = n
<1> DEFINE S == {d[Cell(N, r + i - 1)] : i \in 1 .. n}
<1>1. Window(N, d, r, n) \in [1 .. n -> S]
  BY ZenonT(40) DEF Window
<1> HIDE DEF S
<1> QED
  BY <1>1

\* What is in the cell of the write index does not show in a window that does
\* not fill the ring.
LEMMA WindowKept ==
  ASSUME NEW N \in Nat, NEW W \in Nat, Ring(N, W),
         NEW r \in 0 .. W - 1, NEW w \in 0 .. W - 1,
         Gap(W, r, w) < N,
         NEW d, NEW e, \A c \in 0 .. N - 1 : c # Cell(N, w) => e[c] = d[c]
  PROVE  Window(N, e, r, Gap(W, r, w)) = Window(N, d, r, Gap(W, r, w))
<1> N > 0 /\ W > 0
  BY ZenonT(40) DEF Ring
<1> DEFINE n == Gap(W, r, w)
<1>1. n \in Nat /\ n < N /\ r \in Int
  BY GapRange
<1>2. Cell(N, w) = Cell(N, r + n)
  BY Cells, ZenonT(40)
<1> HIDE DEF n
<1>3. ASSUME NEW i \in 1 .. n PROVE d[Cell(N, r + i - 1)] = e[Cell(N, r + i - 1)]
  <2>1. r + i - 1 \in Int /\ r + n \in Int /\ r + i - 1 < r + n
        /\ (r + n) - (r + i - 1) < N
    BY <1>1
  <2>2. Cell(N, r + i - 1) # Cell(N, r + n)
    BY <2>1, CellFacts, ZenonT(40)
  <2>3. Cell(N, r + i - 1) \in 0 .. N - 1
    BY <2>1, CellFacts, ZenonT(40)
  <2> QED
    BY <1>2, <2>2, <2>3, ZenonT(40)
<1>4. Window(N, e, r, n) = Window(N, d, r, n)
  BY <1>3, ZenonT(40) DEF Window
<1> QED
  BY <1>4, ZenonT(40) DEF n

\* When the write index moves on, the entry in its cell becomes the last one.
LEMMA WindowAppend ==
  ASSUME NEW N \in Nat, NEW W \in Nat, Ring(N, W),
         NEW r \in 0 .. W - 1, NEW w \in 0 .. W - 1,
         Gap(W, r, w) < W - 1,
         NEW S, NEW d \in [0 .. N - 1 -> S]
  PROVE  Window(N, d, r, Gap(W, r, Step(W, w)))
           = Append(Window(N, d, r, Gap(W, r, w)), d[Cell(N, w)])
<1> N > 0 /\ W > 0
  BY ZenonT(40) DEF Ring
<1> DEFINE n == Gap(W, r, w)
           q == Window(N, d, r, n)
           q1 == Window(N, d, r, n + 1)
           b == d[Cell(N, w)]
<1>1. n \in Nat /\ r \in Int /\ Gap(W, r, Step(W, w)) = n + 1
  BY GapRange, GapSteps
<1>2. Cell(N, w) = Cell(N, r + n)
  BY Cells, ZenonT(40)
<1>3. Cell(N, w) \in 0 .. N - 1
  BY CellFacts
<1>a. \A s \in Int, m \in Nat : Window(N, d, s, m) \in Seq(S) /\ Len(Window(N, d, s, m)) = m
  BY WindowSeq, ZenonT(40)
<1> HIDE DEF n
<1>4. /\ q \in Seq(S) /\ Len(q) = n
      /\ \A i \in 1 .. n : q[i] = d[Cell(N, r + (i - 1))]
  <2>1. q \in Seq(S) /\ Len(q) = n
    BY <1>1, <1>a, ZenonT(40)
  <2>2. \A i \in 1 .. n : q[i] = d[Cell(N, r + (i - 1))]
    BY <1>1, WindowAt
  <2> QED
    BY <2>1, <2>2, ZenonT(40)
<1>5. /\ q1 \in Seq(S) /\ Len(q1) = n + 1
      /\ \A i \in 1 .. n + 1 : q1[i] = d[Cell(N, r + (i - 1))]
  <2>1. n + 1 \in Nat
    BY <1>1
  <2>2. q1 \in Seq(S) /\ Len(q1) = n + 1
    BY <1>1, <1>a, <2>1, ZenonT(40)
  <2>3. \A i \in 1 .. n + 1 : q1[i] = d[Cell(N, r + (i - 1))]
    BY <1>1, <2>1, WindowAt
  <2> QED
    BY <2>2, <2>3, ZenonT(40)
<1>6. q1[n + 1] = b
  <2>1. n + 1 \in 1 .. n + 1 /\ r + ((n + 1) - 1) = r + n
    BY <1>1
  <2> QED
    BY <1>2, <1>5, <2>1, ZenonT(40)
<1>7. b \in S
  BY <1>3, ZenonT(40)
<1> HIDE DEF q, q1, b
<1>8. /\ Append(q, b) \in Seq(S) /\ Len(Append(q, b)) = n + 1
      /\ \A i \in 1 .. n + 1 : Append(q, b)[i] = IF i = n + 1 THEN b ELSE q[i]
  <2>1. q \in Seq(S) /\ Len(q) = n /\ n \in Nat
    BY <1>1, <1>4, ZenonT(40)
  <2> QED
    BY <1>7, <2>1
<1>9. ASSUME NEW i \in 1 .. n + 1 PROVE q1[i] = Append(q, b)[i]
  <2>1. CASE i = n + 1
    BY <1>6, <1>8, <2>1, ZenonT(40)
  <2>2. CASE i # n + 1
    <3>1. i \in 1 .. n
      BY <1>1, <2>2
    <3> QED
      BY <1>4, <1>5, <1>8, <2>2, <3>1, ZenonT(40)
  <2> QED
    BY <2>1, <2>2, ZenonT(40)
<1>10. q1 = Append(q, b)
  BY <1>1, <1>5, <1>8, <1>9
<1> QED
  BY <1>1, <1>10, ZenonT(40) DEF n, q, q1, b

\* When the read index moves on, the first entry goes.
LEMMA WindowTail ==
  ASSUME NEW N \in Nat, NEW W \in Nat, Ring(N, W),
         NEW r \in 0 .. W - 1, NEW w \in 0 .. W - 1,
         r # w,
         NEW S, NEW d \in [0 .. N - 1 -> S]
  PROVE  /\ Window(N, d, r, Gap(W, r, w)) # <<>>
         /\ Head(Window(N, d, r, Gap(W, r, w))) = d[Cell(N, r)]
         /\ Window(N, d, Step(W, r), Gap(W, Step(W, r), w))
              = Tail(Window(N, d, r, Gap(W, r, w)))
<1> N > 0 /\ W > 0
  BY ZenonT(40) DEF Ring
<1> DEFINE n == Gap(W, r, w)
           q == Window(N, d, r, n)
           q1 == Window(N, d, Step(W, r), n - 1)
<1>1. n \in Nat /\ n > 0 /\ r \in Int /\ Step(W, r) \in Int /\ Gap(W, Step(W, r), w) = n - 1
  <2>1. n \in 0 .. W - 1 /\ (r = w <=> n = 0)
    BY GapRange, ZenonT(40)
  <2>2. n > 0 => Gap(W, Step(W, r), w) = n - 1
    BY GapSteps, ZenonT(40)
  <2>3. Step(W, r) \in 0 .. W - 1
    BY StepVal, ZenonT(40)
  <2> QED
    BY <2>1, <2>2, <2>3
<1>a. \A s \in Int, m \in Nat : Window(N, d, s, m) \in Seq(S) /\ Len(Window(N, d, s, m)) = m
  BY WindowSeq, ZenonT(40)
<1> HIDE DEF n
<1>2. /\ q \in Seq(S) /\ Len(q) = n
      /\ \A i \in 1 .. n : q[i] = d[Cell(N, r + (i - 1))]
  <2>1. q \in Seq(S) /\ Len(q) = n
    BY <1>1, <1>a, ZenonT(40)
  <2>2. \A i \in 1 .. n : q[i] = d[Cell(N, r + (i - 1))]
    BY <1>1, WindowAt
  <2> QED
    BY <2>1, <2>2, ZenonT(40)
<1>3. /\ q1 \in Seq(S) /\ Len(q1) = n - 1
      /\ \A i \in 1 .. n - 1 : q1[i] = d[Cell(N, Step(W, r) + (i - 1))]
  <2>1. n - 1 \in Nat
    BY <1>1
  <2>2. q1 \in Seq(S) /\ Len(q1) = n - 1
    BY <1>1, <1>a, <2>1, ZenonT(40)
  <2>3. \A i \in 1 .. n - 1 : q1[i] = d[Cell(N, Step(W, r) + (i - 1))]
    BY <1>1, <2>1, WindowAt
  <2> QED
    BY <2>2, <2>3, ZenonT(40)
<1>4. q[1] = d[Cell(N, r)]
  <2>1. 1 \in 1 .. n /\ r + (1 - 1) = r
    BY <1>1
  <2> QED
    BY <1>2, <2>1, ZenonT(40)
<1>5. ASSUME NEW i \in 1 .. n - 1 PROVE q1[i] = q[i + 1]
  <2>1. q[i + 1] = d[Cell(N, r + i)]
    <3>1. i + 1 \in 1 .. n /\ (i + 1) - 1 = i
      BY <1>1
    <3> QED
      BY <1>2, <3>1, ZenonT(40)
  <2>2. i - 1 \in Nat /\ r + 1 + (i - 1) = r + i
    BY <1>1
  <2>3. Cell(N, Step(W, r) + (i - 1)) = Cell(N, r + i)
    BY <2>2, Cells
  <2> QED
    BY <1>3, <2>1, <2>3, ZenonT(40)
<1> HIDE DEF q, q1
<1>6. /\ q # <<>> /\ Head(q) = q[1] /\ Tail(q) \in Seq(S) /\ Len(Tail(q)) = n - 1
      /\ \A i \in 1 .. n - 1 : Tail(q)[i] = q[i + 1]
  BY <1>1, <1>2
<1>7. q1 = Tail(q)
  BY <1>1, <1>3, <1>5, <1>6
<1> QED
  BY <1>1, <1>4, <1>6, <1>7, ZenonT(40) DEF n, q, q1

\* What is in the cell of the read index does not show behind it, in a ring that
\* is no more than full.
LEMMA WindowClear ==
  ASSUME NEW N \in Nat, NEW W \in Nat, Ring(N, W),
         NEW r \in 0 .. W - 1, NEW w \in 0 .. W - 1,
         r # w, Gap(W, r, w) <= N,
         NEW d, NEW e, \A c \in 0 .. N - 1 : c # Cell(N, r) => e[c] = d[c]
  PROVE  Window(N, e, Step(W, r), Gap(W, Step(W, r), w))
           = Window(N, d, Step(W, r), Gap(W, Step(W, r), w))
<1> N > 0 /\ W > 0
  BY ZenonT(40) DEF Ring
<1> DEFINE n == Gap(W, r, w)
           s == Step(W, r)
<1>1. n \in Nat /\ n > 0 /\ n <= N /\ r \in Int /\ s \in Int /\ Gap(W, s, w) = n - 1
  <2>1. n \in 0 .. W - 1 /\ (r = w <=> n = 0)
    BY GapRange, ZenonT(40)
  <2>2. n > 0 => Gap(W, s, w) = n - 1
    BY GapSteps, ZenonT(40)
  <2>3. s \in 0 .. W - 1
    BY StepVal, ZenonT(40)
  <2> QED
    BY <2>1, <2>2, <2>3
<1>2. ASSUME NEW i \in 1 .. n - 1 PROVE Cell(N, s + i - 1) = Cell(N, r + i)
  <2>1. i - 1 \in Nat /\ r + 1 + (i - 1) = r + i /\ s + i - 1 = s + (i - 1)
    BY <1>1
  <2> QED
    BY <2>1, Cells
<1> HIDE DEF n, s
<1>3. ASSUME NEW i \in 1 .. n - 1 PROVE d[Cell(N, s + i - 1)] = e[Cell(N, s + i - 1)]
  <2>1. r \in Int /\ r + i \in Int /\ r < r + i /\ (r + i) - r < N
    BY <1>1
  <2>2. Cell(N, r) # Cell(N, r + i)
    BY <2>1, CellFacts, ZenonT(40)
  <2>3. Cell(N, r + i) \in 0 .. N - 1
    BY <2>1, CellFacts, ZenonT(40)
  <2> QED
    BY <1>2, <2>2, <2>3, ZenonT(40)
<1>4. Window(N, e, s, n - 1) = Window(N, d, s, n - 1)
  BY <1>3, ZenonT(40) DEF Window
<1> QED
  BY <1>1, <1>4, ZenonT(40) DEF n, s
=============================================================================
