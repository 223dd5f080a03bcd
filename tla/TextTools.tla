----------------------------- MODULE TextTools ------------------------------
(***************************************************************************)
(* The programs that read text: grep (user/grep.c), wc and wce (user/wc.c, *)
(* user/wce.c) on what read() returns piece by piece, tail (user/tail.c)   *)
(* and diff (user/diff.c) on whole files. Text is a sequence of            *)
(* characters, "n" the newline; the end of a sequence is its terminating   *)
(* 0.                                                                      *)
(***************************************************************************)
EXTENDS Integers, Sequences, FiniteSets

-----------------------------------------------------------------------------
(* grep: the matcher and the line buffer.                                  *)

CONSTANT GREPBUF   \* sizeof(buf)

VARIABLES re,      \* the pattern
          input,   \* what read() will return in all
          taken,   \* how much of it has been read
          buf,     \* buf[0 .. m - 1]
          output,  \* the lines written
          eof      \* read() has returned 0

grepVars == <<re, input, taken, buf, output, eof>>

NL == "n"
c0(s) == IF s = <<>> THEN "0" ELSE s[1]
c1(s) == IF Len(s) < 2 THEN "0" ELSE s[2]
Drop(s, n) == SubSeq(s, n + 1, Len(s))

-----------------------------------------------------------------------------
RECURSIVE matchhere(_, _), matchstar(_, _, _)

StarGoesOnce(c, text) == FALSE                                \* mutant
StarGoesOn(c, text) == text # <<>> /\ (c0(text) = c \/ c = ".")

matchhere(r, text) ==
    IF r = <<>> THEN TRUE
    ELSE IF c1(r) = "*" THEN matchstar(r[1], Drop(r, 2), text)
    ELSE IF r = <<"$">> THEN text = <<>>
    ELSE /\ text # <<>> /\ r[1] \in {".", text[1]}
         /\ matchhere(Tail(r), Tail(text))

matchstar(c, r, text) ==
    \/ matchhere(r, text)
    \/ StarGoesOn(c, text) /\ matchstar(c, r, Tail(text))

match(r, text) ==
    IF c0(r) = "^" THEN matchhere(Tail(r), text)
    ELSE \E i \in 0 .. Len(text) : matchhere(r, Drop(text, i))

-----------------------------------------------------------------------------
\* The loop over the complete lines in buf: what is written, what is left.
FirstNL(s) == CHOOSE i \in DOMAIN s : s[i] = NL /\ \A j \in 1 .. i - 1 : s[j] # NL
RECURSIVE Lines2(_, _)
Lines2(b, out) ==
    IF \A i \in DOMAIN b : b[i] # NL THEN [buf |-> b, out |-> out]
    ELSE LET q == FirstNL(b)
             line == SubSeq(b, 1, q - 1)
         IN Lines2(Drop(b, q), IF match(re, line) THEN Append(out, line) ELSE out)

KeepNone(b) == <<>>                                           \* mutant
Keep(b) == b

\* One turn of grep()'s loop: read() returns k of the bytes asked for.
GrepRead(k) ==
    /\ ~eof /\ k <= GREPBUF - Len(buf) - 1 /\ taken + k <= Len(input)
    /\ LET r == Lines2(buf \o SubSeq(input, taken + 1, taken + k), output)
       IN buf' = Keep(r.buf) /\ output' = r.out
    /\ taken' = taken + k
    /\ UNCHANGED <<re, input, eof>>

\* read() returns 0 at the end of the input, or when asked for nothing.
GrepEof ==
    /\ ~eof /\ (taken = Len(input) \/ Len(buf) = GREPBUF - 1)
    /\ eof' = TRUE
    /\ UNCHANGED <<re, input, taken, buf, output>>

\* cases: pairs of a pattern and an input.
grepInit(cases) ==
    /\ \E c \in cases : re = c[1] /\ input = c[2]
    /\ taken = 0 /\ buf = <<>> /\ output = <<>> /\ eof = FALSE
grepNext == GrepEof \/ \E k \in 1 .. GREPBUF : GrepRead(k)

-----------------------------------------------------------------------------
\* A pattern without its anchors as items <<character, starred>>; a text
\* matches when some number of repetitions of each item spells it.
RECURSIVE Items(_)
Items(r) ==
    IF r = <<>> THEN <<>>
    ELSE IF c1(r) = "*" THEN << <<r[1], TRUE>> >> \o Items(Drop(r, 2))
    ELSE << <<r[1], FALSE>> >> \o Items(Tail(r))
RECURSIVE Before1(_, _)
Before1(reps, i) == IF i = 1 THEN 0 ELSE reps[i - 1] + Before1(reps, i - 1)
Spells(items, text) ==
    \E reps \in [1 .. Len(items) -> 0 .. Len(text)] :
        /\ Before1(reps, Len(items) + 1) = Len(text)
        /\ \A i \in DOMAIN items :
              /\ items[i][2] \/ reps[i] = 1
              /\ items[i][1] = "." \/ \A k \in 1 .. reps[i] :
                    text[Before1(reps, i) + k] = items[i][1]
Matches(r0, text) ==
    LET head == r0 # <<>> /\ r0[1] = "^"
        r1 == IF head THEN Tail(r0) ELSE r0
        items == Items(r1)
        tail == items # <<>> /\ items[Len(items)] = <<"$", FALSE>>
        core == IF tail THEN SubSeq(items, 1, Len(items) - 1) ELSE items
    IN \E i \in 1 .. Len(text) + 1 : \E j \in i - 1 .. Len(text) :
          /\ head => i = 1
          /\ tail => j = Len(text)
          /\ Spells(core, SubSeq(text, i, j))

(* match(), matchhere() and matchstar() (grep.c:73-107) decide the         *)
(* language the pattern denotes: a text matches iff some piece of it, at   *)
(* the ends the anchors ask for, is a concatenation of repetitions of the  *)
(* pattern's items.  "*" first, "^" later and "$" earlier are themselves.  *)
MatchesDenoted ==
    (taken = 0 /\ \A i \in DOMAIN input : input[i] # NL) =>
        (match(re, input) <=> Matches(re, input))

LineEnds == {i \in DOMAIN input : input[i] = NL}
StartOf(i) == LET K == {0} \cup {j \in LineEnds : j < i}
              IN 1 + CHOOSE j \in K : \A h \in K : h <= j
AllLines ==
    LET ends == SelectSeq([i \in DOMAIN input |-> i], LAMBDA i : i \in LineEnds)
    IN [n \in DOMAIN ends |-> SubSeq(input, StartOf(ends[n]), ends[n] - 1)]

(* However read() cuts the input into pieces, grep writes the lines that   *)
(* match, in order and whole, provided each fits in the buffer with its    *)
(* newline (grep.c:19): a line in two pieces is put together again.        *)
GrepWhole ==
    eof /\ (\A n \in DOMAIN AllLines : Len(AllLines[n]) + 1 <= GREPBUF - 1) =>
        output = SelectSeq(AllLines, LAMBDA l : match(re, l))

-----------------------------------------------------------------------------
(* wc, tail and diff. A character is a letter "a" or "b", " " or a newline *)
(* "n"; in file2, which only diff reads, "!" stands for a read() that      *)
(* fails at that place.                                                    *)

CONSTANTS TAILBUF,   \* size of tail's buffer (600)
          LINEBUF    \* size of diff's buf1 and buf2 (128)

VARIABLES file1, file2,  \* contents
          off,           \* offset of file1's descriptor
          cnt            \* wce's l, w, c, L, oldc and inword

ttVars == <<file1, file2, off, cnt>>

\* The loop body of wc() and wce's wc() for one character.
Counted(n, ch) ==
    LET c == n.c + 1
        nl == ch = "n"
        white == ch \in {" ", "n"}
    IN [c |-> c,
        w |-> IF ~white /\ ~n.inword THEN n.w + 1 ELSE n.w,
        inword |-> ~white,
        l |-> IF nl THEN n.l + 1 ELSE n.l,
        L |-> IF nl /\ c - n.oldc > n.L THEN c - n.oldc ELSE n.L,
        oldc |-> IF nl THEN c ELSE n.oldc]

RECURSIVE CountAll(_, _)
CountAll(n, s) == IF s = <<>> THEN n ELSE CountAll(Counted(n, s[1]), Tail(s))

BeginForgets(n) == [n EXCEPT !.inword = FALSE]                \* mutant
Begin(n) == n

WcRead(k) ==
    /\ off + k <= Len(file1)
    /\ cnt' = CountAll(Begin(cnt), SubSeq(file1, off + 1, off + k))
    /\ off' = off + k
    /\ UNCHANGED <<file1, file2>>

Longest(n) == IF n.c - n.oldc > n.L THEN n.c - n.oldc ELSE n.L

ttInit(files1, files2) ==
    /\ file1 \in files1 /\ file2 \in files2 /\ off = 0
    /\ cnt = [l |-> 0, w |-> 0, c |-> 0, L |-> 0, oldc |-> 0, inword |-> FALSE]
ttNext == \E k \in 1 .. Len(file1) : WcRead(k)

-----------------------------------------------------------------------------
\* tail: one read(), then backwards to the newline before the last nlines.
RECURSIVE BackTo(_, _, _, _)
BackTo(s, i, lines, nlines) ==
    IF i = 0 THEN 1
    ELSE LET n == IF s[i] = "n" THEN lines + 1 ELSE lines
         IN IF n > nlines THEN i + 1 ELSE BackTo(s, i - 1, n, nlines)
TailFromShort(s, nlines) == BackTo(s, Len(s), 1, nlines)      \* mutant
TailFrom(s, nlines) == BackTo(s, Len(s), 0, nlines)

tail(f, nlines) ==
    LET s == SubSeq(f, 1, IF Len(f) < TAILBUF THEN Len(f) ELSE TAILBUF)
    IN SubSeq(s, TailFrom(s, nlines), Len(s))

AtEofOpen(s, i) == \A j \in i .. Len(s) : s[j] # "n"          \* mutant
AtEof(s, i) == i > Len(s)

\* diff: read_line() returns a line or, at the end of the file, nothing.  A failed
\* read() ends the line as a newline does, also a line that is empty so far.
\* `over': the line and its 0 do not fit in buf, which is not tested.
read_line(s, i) ==
    IF AtEof(s, i) THEN [eof |-> TRUE, line |-> <<>>, next |-> i, over |-> FALSE]
    ELSE LET ends == {j \in i .. Len(s) : s[j] \in {"n", "!"}} \cup {Len(s) + 1}
             e == CHOOSE j \in ends : \A h \in ends : j <= h
         IN [eof |-> FALSE, line |-> SubSeq(s, i, e - 1), next |-> e + 1,
             over |-> e - i >= LINEBUF]

\* main()'s loop: the numbers of the lines reported, with how.  After a line that
\* overran its buffer nothing is known.
Verdict(r1, r2) ==
    IF r1.eof THEN "only2" ELSE IF r2.eof THEN "only1"
    ELSE IF r1.line # r2.line THEN "differs" ELSE "same"
RECURSIVE diff(_, _, _, _, _)
diff(s, i, t, j, num) ==
    LET r1 == read_line(s, i)
        r2 == read_line(t, j)
    IN IF r1.over \/ r2.over THEN {<<num, "overrun">>}
       ELSE IF r1.eof /\ r2.eof THEN {}
       ELSE {<<num, Verdict(r1, r2)>>} \cup diff(s, r1.next, t, r2.next, num + 1)

-----------------------------------------------------------------------------
Ends(s) == {i \in DOMAIN s : s[i] = "n"}
InWord(s, i) == i \in DOMAIN s /\ s[i] \notin {" ", "n"}
Max0(S) == CHOOSE m \in S \cup {0} : \A n \in S : n <= m
RealLines(s) ==
    {j - i : <<i, j>> \in {<<i, j>> \in (Ends(s) \cup {0}) \X (Ends(s) \cup {Len(s)}) :
                              i < j /\ \A k \in i + 1 .. j - 1 : k \notin Ends(s)}}

(* wc and wce (wc.c:14-26, wce.c:21-55) count the same however read() cuts *)
(* the file, also in the middle of a word or a line: the words are the     *)
(* starts of runs of letters, L the longest line with its newline.         *)
CountsWhole ==
    off = Len(file1) =>
        /\ cnt.c = Len(file1) /\ cnt.l = Cardinality(Ends(file1))
        /\ cnt.w = Cardinality({i \in DOMAIN file1 : InWord(file1, i) /\ ~InWord(file1, i - 1)})
        /\ Longest(cnt) = Max0(RealLines(file1))

(* Of a file that ends in a newline and fits in its buffer, tail           *)
(* (tail.c:60-75) writes the last nlines lines, or all of them when there  *)
(* are fewer.                                                              *)
TailsLast ==
    (file1 # <<>> /\ file1[Len(file1)] = "n" /\ Len(file1) <= TAILBUF) =>
        \A n \in 0 .. Len(file1) :
            LET t == tail(file1, n)
                all == Cardinality(Ends(file1))
            IN /\ SubSeq(file1, Len(file1) - Len(t) + 1, Len(file1)) = t
               /\ Cardinality(Ends(t)) = IF n < all THEN n ELSE all
               /\ n >= all => t = file1
               /\ n < all => file1[Len(file1) - Len(t)] = "n"

SplitLines(s) ==
    LET starts == SelectSeq([i \in 1 .. Len(s) |-> i],
                            LAMBDA i : i = 1 \/ s[i - 1] \in {"n", "!"})
    IN [k \in DOMAIN starts |->
          SubSeq(s, starts[k], Max0({j \in starts[k] .. Len(s) :
                                       \A h \in starts[k] .. j : s[h] \notin {"n", "!"}}))]

(* Of files whose lines have at most LINEBUF - 1 characters, diff          *)
(* (diff.c:45-77) says "Files are identical" just when they have the same  *)
(* lines, whichever runs out first, and otherwise reports exactly the      *)
(* numbers of the lines that differ or are missing.  A read() that fails   *)
(* counts as the end of a line.  (A longer line overruns the buffer:       *)
(* read_line() does not know its size.)                                    *)
DiffsLines ==
    LET a == SplitLines(file1)
        b == SplitLines(file2)
        found == diff(file1, 1, file2, 1, 1)
    IN (\A s \in {a, b} : \A n \in DOMAIN s : Len(s[n]) < LINEBUF) =>
          \A n \in 1 .. Len(file1) + Len(file2) :
             (\E v \in {"only1", "only2", "differs", "overrun"} : <<n, v>> \in found)
             <=> \/ n \in (DOMAIN a \ DOMAIN b) \cup (DOMAIN b \ DOMAIN a)
                 \/ n \in DOMAIN a \cap DOMAIN b /\ a[n] # b[n]
=============================================================================
