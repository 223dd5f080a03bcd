------------------------------ MODULE Strings ------------------------------
(***************************************************************************)
(* The byte and string routines of the kernel (kernel/string.c) and of the *)
(* user library (user/ulib.c) over one array of bytes.  A pointer is an    *)
(* index, 0 the terminating byte; bytes are small numbers, compared as     *)
(* unsigned characters.  Each loop is a recursion that moves one byte.     *)
(***************************************************************************)
EXTENDS Integers, Sequences, FiniteSets

CONSTANT Bytes   \* the values of a byte, 0 among them

ASSUME StringsAssumption == 0 \in Bytes /\ Bytes \subseteq Nat

VARIABLE mem

Addr == DOMAIN mem
MEM == Cardinality(Addr)
strInit(n) == mem \in [0 .. n - 1 -> Bytes]

-----------------------------------------------------------------------------
RECURSIVE CopyUp(_, _, _, _), CopyDown(_, _, _, _)
CopyUp(m, d, s, n) ==
    IF n = 0 THEN m ELSE CopyUp([m EXCEPT ![d] = m[s]], d + 1, s + 1, n - 1)
CopyDown(m, d, s, n) ==
    IF n = 0 THEN m
    ELSE CopyDown([m EXCEPT ![d + n - 1] = m[s + n - 1]], d, s, n - 1)

OverlapsAbove(d, s, n) == s < d /\ s + n > d + 1              \* mutant
Overlaps(d, s, n) == s < d /\ s + n > d

\* memmove() of the kernel and of the user library.
memmove(m, d, s, n) ==
    IF Overlaps(d, s, n) THEN CopyDown(m, d, s, n) ELSE CopyUp(m, d, s, n)
umemmove(m, d, s, n) ==
    IF s > d THEN CopyUp(m, d, s, n) ELSE CopyDown(m, d, s, n)

RECURSIVE memset(_, _, _, _)
memset(m, d, c, n) ==
    IF n = 0 THEN m ELSE memset([m EXCEPT ![d + n - 1] = c], d, c, n - 1)

\* strncpy(): after the terminator the rest of the n bytes is cleared.
RECURSIVE strncpy(_, _, _, _)
strncpy(m, s, t, n) ==
    IF n <= 0 THEN m
    ELSE LET m1 == [m EXCEPT ![s] = m[t]] IN
         IF m[t] # 0 THEN strncpy(m1, s + 1, t + 1, n - 1)
         ELSE memset(m1, s + 1, 0, n - 1)

\* The loop condition of safestrcpy(): --n > 0 leaves room for the 0.
RoomLeftNone(n) == n > 0                                      \* mutant
RoomLeft(n) == n - 1 > 0

\* The terminator is copied like any other byte; the closing *s = 0 then falls
\* on the byte behind it.
RECURSIVE safestrcpy(_, _, _, _)
safestrcpy(m, s, t, n) ==
    IF n <= 0 THEN m
    ELSE IF ~RoomLeft(n) THEN [m EXCEPT ![s] = 0]
    ELSE LET m1 == [m EXCEPT ![s] = m[t]] IN
         IF m[t] # 0 THEN safestrcpy(m1, s + 1, t + 1, n - 1)
         ELSE [m1 EXCEPT ![s + 1] = 0]

RECURSIVE strlen(_, _)
strlen(m, s) == IF m[s] = 0 THEN 0 ELSE 1 + strlen(m, s + 1)

RECURSIVE strcpy(_, _, _)
strcpy(m, s, t) ==
    LET m1 == [m EXCEPT ![s] = m[t]]
    IN IF m[t] = 0 THEN m1 ELSE strcpy(m1, s + 1, t + 1)

strcat(m, d, s) == strcpy(m, d + strlen(m, d), s)

RECURSIVE strchr(_, _, _)
strchr(m, s, c) ==
    IF m[s] = 0 THEN -1 ELSE IF m[s] = c THEN s ELSE strchr(m, s + 1, c)

-----------------------------------------------------------------------------
\* memcmp(), and strncmp() as the kernel and as the user library write it.
RECURSIVE memcmp(_, _, _, _)
memcmp(m, p, q, n) ==
    IF n = 0 THEN 0
    ELSE IF m[p] # m[q] THEN m[p] - m[q] ELSE memcmp(m, p + 1, q + 1, n - 1)

RECURSIVE strncmp(_, _, _, _)
strncmp(m, p, q, n) ==
    IF n = 0 THEN 0
    ELSE IF m[p] # 0 /\ m[p] = m[q] THEN strncmp(m, p + 1, q + 1, n - 1)
    ELSE m[p] - m[q]

EndsAtNever(a) == FALSE                                       \* mutant
EndsAt(a) == a = 0

RECURSIVE ustrncmp(_, _, _, _)
ustrncmp(m, p, q, len) ==
    IF len <= 0 THEN 0
    ELSE IF m[p] # m[q] THEN m[p] - m[q]
    ELSE IF EndsAt(m[p]) THEN 0
    ELSE ustrncmp(m, p + 1, q + 1, len - 1)

RECURSIVE strcmp(_, _, _)
strcmp(m, p, q) ==
    IF m[p] # 0 /\ m[p] = m[q] THEN strcmp(m, p + 1, q + 1) ELSE m[p] - m[q]

-----------------------------------------------------------------------------
Terminated(m, a) == \E i \in a .. MEM - 1 : m[i] = 0
EndOf(m, a) == CHOOSE i \in a .. MEM - 1 : m[i] = 0 /\ \A j \in a .. i - 1 : m[j] # 0
Str(m, a) == [i \in 1 .. EndOf(m, a) - a |-> m[a + i - 1]]
Front(w, n) == SubSeq(w, 1, IF n < Len(w) THEN n ELSE Len(w))

(* Both memmove()s (string.c:30, ulib.c:116) move the bytes as they were   *)
(* before the call, wherever the two ranges overlap, and no others: the    *)
(* two decide differently when to copy backwards.                          *)
MovesRight ==
    \A d, s \in Addr : \A n \in 0 .. MEM :
        d + n <= MEM /\ s + n <= MEM =>
            LET moved == [a \in Addr |-> IF a \in d .. d + n - 1
                                         THEN mem[a - d + s] ELSE mem[a]]
            IN memmove(mem, d, s, n) = moved /\ umemmove(mem, d, s, n) = moved

(* Of a source that does not overlap the n bytes at s, safestrcpy()        *)
(* (string.c:84) keeps as much as fits with a terminator, strncpy()        *)
(* (string.c:70) what fits without one; neither writes outside the n       *)
(* bytes, the second zero of safestrcpy() included, and strncpy() leaves   *)
(* none of them as it was.  strcat() (ulib.c:152) appends the whole        *)
(* source, and strchr() finds a byte exactly when the string has it.       *)
CopiesBounded ==
    \A s, t \in Addr : \A n \in 1 .. MEM - s :
        Terminated(mem, t) /\ (EndOf(mem, t) < s \/ t >= s + n) =>
            LET safe == safestrcpy(mem, s, t, n)
                raw == strncpy(mem, s, t, n)
                w == Str(mem, t)
            IN /\ \A a \in Addr \ (s .. s + n - 1) : safe[a] = mem[a] /\ raw[a] = mem[a]
               /\ Terminated(safe, s) /\ Str(safe, s) = Front(w, n - 1)
               /\ \A i \in 1 .. n : raw[s + i - 1] = IF i <= Len(w) THEN w[i] ELSE 0
               /\ n > Len(w) /\ Terminated(mem, s) /\ EndOf(mem, s) + Len(w) < s + n =>
                     /\ Str(strcat(mem, s, t), s) = Str(mem, s) \o w
                     /\ \A c \in Bytes \ {0} :
                           (strchr(mem, s, c) = -1) = (\A a \in s .. EndOf(mem, s) : mem[a] # c)

Sign(i) == IF i < 0 THEN -1 ELSE IF i > 0 THEN 1 ELSE 0
Precedes(v, w) ==
    \/ Len(v) < Len(w) /\ Front(w, Len(v)) = v
    \/ \E i \in 1 .. Len(v) : /\ i <= Len(w) /\ v[i] < w[i]
                              /\ Front(v, i - 1) = Front(w, i - 1)
Order(v, w) == IF v = w THEN 0 ELSE IF Precedes(v, w) THEN -1 ELSE 1

(* The four comparisons (string.c:14 and 60, ulib.c:26 and 32) order       *)
(* terminated strings as a dictionary does and never look past the         *)
(* terminator: both versions of strncmp() agree.                           *)
ComparesRight ==
    \A p, q \in Addr :
        Terminated(mem, p) /\ Terminated(mem, q) =>
            LET v == Str(mem, p)
                w == Str(mem, q)
            IN /\ Sign(strcmp(mem, p, q)) = Order(v, w)
               /\ \A n \in 0 .. MEM - (IF p > q THEN p ELSE q) :
                    /\ Sign(strncmp(mem, p, q, n)) = Order(Front(v, n), Front(w, n))
                    /\ ustrncmp(mem, p, q, n) = strncmp(mem, p, q, n)
                    /\ n <= Len(v) /\ n <= Len(w) =>
                          Sign(memcmp(mem, p, q, n)) = Order(Front(v, n), Front(w, n))
=============================================================================
