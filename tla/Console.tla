------------------------------ MODULE Console ------------------------------
(***************************************************************************)
(* kernel/console.c: the input side of the console.  Readers and the         *)
(* interrupt handler consoleintr() share cons; cons.lock is a variable,      *)
(* because the handler holds it while the echo waits for the serial port and *)
(* a reader for as long as it finds characters.  The handler runs on one     *)
(* hart at a time: the PLIC hands out an interrupt once.  A slot of cons.buf *)
(* is forgotten when it has been read; its byte is not looked at again.      *)
(***************************************************************************)
EXTENDS Integers

CONSTANTS
  Readers,            \* processes that call consoleread()
  INPUT_BUF_SIZE,
  WRAP,               \* cons.r, cons.w and cons.e are taken modulo this (2^32)
  MAXREAD,            \* the longest read()
  None

ASSUME ConsoleAssumption ==
  /\ {INPUT_BUF_SIZE, WRAP, MAXREAD} \subseteq Nat \ {0}
  /\ WRAP % INPUT_BUF_SIZE = 0 /\ WRAP > INPUT_BUF_SIZE

\* An ordinary character, an end of line ('\r' is turned into '\n'), ^D; further
\* backspace, ^U and what changes nothing (^P, NUL).
Stored == {"x", "nl", "eof"}
Keys == Stored \cup {"bs", "kill", "other"}

VARIABLES
  buf, r, w, e,     \* cons
  lock,             \* who holds cons.lock
  key, echoing,     \* the handler's character, or None; it waits for the port
  rpc, n, got,      \* each reader: its place, the bytes wanted and those read
  killed

consoleVars == <<buf, r, w, e, lock, key, echoing, rpc, n, got, killed>>

Dist(a, b) == (b - a) % WRAP

ConsoleInit ==
  /\ buf = [i \in 0 .. INPUT_BUF_SIZE - 1 |-> None] /\ r = 0 /\ w = 0 /\ e = 0
  /\ lock = None /\ key = None /\ echoing = FALSE
  /\ rpc = [p \in Readers |-> "idle"] /\ n = [p \in Readers |-> 0]
  /\ got = [p \in Readers |-> 0] /\ killed = [p \in Readers |-> FALSE]

Goto(p, l) == rpc' = [rpc EXCEPT ![p] = l]

-----------------------------------------------------------------------------
(* consoleread() *)

ReadCall(p, k) ==
  /\ rpc[p] = "idle" /\ lock = None
  /\ lock' = p /\ n' = [n EXCEPT ![p] = k] /\ Goto(p, "reading")
  /\ UNCHANGED <<buf, r, w, e, key, echoing, got, killed>>

\* Back to usertrap(), where a killed process exits.
Return(p) ==
  /\ lock' = None /\ Goto(p, "idle") /\ killed' = [killed EXCEPT ![p] = FALSE]
  /\ n' = [n EXCEPT ![p] = 0] /\ got' = [got EXCEPT ![p] = 0]

\* while(cons.r == cons.w): the test of killed() ...
MustWait(p) == rpc[p] = "reading" /\ got[p] < n[p] /\ r = w

ReadKilled(p) ==
  MustWait(p) /\ killed[p] /\ Return(p) /\ UNCHANGED <<buf, r, w, e, key, echoing>>

\* ... and sleep(&cons.r, &cons.lock); a kill() in between finds nobody asleep.
ReadCheck(p) ==
  /\ MustWait(p) /\ ~killed[p] /\ Goto(p, "tosleep")
  /\ UNCHANGED <<buf, r, w, e, lock, key, echoing, n, got, killed>>

ReadSleep(p) ==
  /\ rpc[p] = "tosleep" /\ lock' = None /\ Goto(p, "asleep")
  /\ UNCHANGED <<buf, r, w, e, key, echoing, n, got, killed>>

ReadRelock(p) ==
  /\ rpc[p] = "awake" /\ lock = None /\ lock' = p /\ Goto(p, "reading")
  /\ UNCHANGED <<buf, r, w, e, key, echoing, n, got, killed>>

\* One character.  ^D ends the read, and is kept for the next one if this one
\* has something to return; ~ok: either_copyout() fails.
KeptNot(p, c) == FALSE  \* mutant: ^D is always consumed
Kept(p, c) == c = "eof" /\ got[p] > 0
ReadByte(p, ok) ==
  LET c == buf[r % INPUT_BUF_SIZE]
  IN  /\ rpc[p] = "reading" /\ got[p] < n[p] /\ r # w
      /\ IF Kept(p, c) THEN UNCHANGED <<r, buf>>
         ELSE r' = (r + 1) % WRAP /\ buf' = [buf EXCEPT ![r % INPUT_BUF_SIZE] = None]
      /\ IF c \in {"nl", "eof"} \/ ~ok THEN Return(p)
         ELSE got' = [got EXCEPT ![p] = @ + 1] /\ UNCHANGED <<lock, rpc, killed, n>>
      /\ UNCHANGED <<w, e, key, echoing>>

ReadEnd(p) ==
  /\ rpc[p] = "reading" /\ got[p] = n[p] /\ Return(p)
  /\ UNCHANGED <<buf, r, w, e, key, echoing>>

-----------------------------------------------------------------------------
(* consoleintr() *)

Press(k) ==
  /\ key = None /\ key' = k
  /\ UNCHANGED <<buf, r, w, e, lock, echoing, rpc, n, got, killed>>

\* What the character does, if anything: an erasure or a character to store.
ErasesAll == e # r  \* mutant: erase back to what has been read
Erases == e # w
HasRoom == Dist(r, e) < INPUT_BUF_SIZE
Acts == (key \in {"bs", "kill"} /\ Erases) \/ (key \in Stored /\ HasRoom)

Ignored ==
  /\ key # None /\ ~echoing /\ lock = None /\ ~Acts /\ key' = None
  /\ UNCHANGED <<buf, r, w, e, lock, echoing, rpc, n, got, killed>>

\* consputc() waits until the serial port takes the echo.
Echo ==
  /\ key # None /\ ~echoing /\ lock = None /\ Acts
  /\ lock' = "intr" /\ echoing' = TRUE
  /\ UNCHANGED <<buf, r, w, e, key, rpc, n, got, killed>>

\* A line, or all of the buffer, is handed over: cons.w = cons.e, wakeup(&cons.r).
CommitsLine(e2) == key \in {"nl", "eof"}  \* mutant: a full buffer is not handed over
Commits(e2) == key \in {"nl", "eof"} \/ Dist(r, e2) = INPUT_BUF_SIZE
WokenNot == rpc  \* mutant: no wakeup(&cons.r)
Woken == [p \in Readers |-> IF rpc[p] = "asleep" THEN "awake" ELSE rpc[p]]

Store ==
  /\ key \in Stored
  /\ buf' = [buf EXCEPT ![e % INPUT_BUF_SIZE] = key]
  /\ e' = (e + 1) % WRAP
  /\ IF Commits(e') THEN w' = e' /\ rpc' = Woken ELSE UNCHANGED <<w, rpc>>

BackspaceSigned == key = "bs" /\ e' = e - 1  \* mutant: cons.e falls below zero
Backspace == key = "bs" /\ e' = (e - 1) % WRAP

\* The last k characters go: as many as there are behind cons.w and a newline.
KillLine ==
  /\ key = "kill"
  /\ \E k \in 1 .. INPUT_BUF_SIZE :
       LET At(j) == buf[(e - j) % INPUT_BUF_SIZE]
       IN  /\ k <= Dist(w, e) /\ \A j \in 1 .. k : At(j) # "nl"
           /\ k = Dist(w, e) \/ At(k + 1) = "nl"
           /\ e' = (e - k) % WRAP

Edit ==
  /\ echoing
  /\ Store \/ ((Backspace \/ KillLine) /\ UNCHANGED <<w, buf, rpc>>)
  /\ lock' = None /\ key' = None /\ echoing' = FALSE
  /\ UNCHANGED <<r, n, got, killed>>

Kill(p) ==
  /\ rpc[p] # "idle" /\ ~killed[p]
  /\ killed' = [killed EXCEPT ![p] = TRUE]
  /\ rpc' = [rpc EXCEPT ![p] = IF @ = "asleep" THEN "awake" ELSE @]
  /\ UNCHANGED <<buf, r, w, e, lock, key, echoing, n, got>>

ReadStep(p) == \/ ReadKilled(p) \/ ReadCheck(p) \/ ReadSleep(p) \/ ReadRelock(p)
               \/ ReadEnd(p) \/ \E ok \in BOOLEAN : ReadByte(p, ok)
Handler == Ignored \/ Echo \/ Edit

ConsoleNext ==
  \/ \E p \in Readers : ReadStep(p) \/ Kill(p) \/ \E k \in 0 .. MAXREAD : ReadCall(p, k)
  \/ Handler \/ \E k \in Keys : Press(k)

-----------------------------------------------------------------------------

\* Every variable keeps its type.
ConsoleTypeOK ==
  /\ buf \in [0 .. INPUT_BUF_SIZE - 1 -> Stored \cup {None}]
  /\ {r, w, e} \subseteq 0 .. WRAP - 1
  /\ lock \in Readers \cup {None, "intr"}
  /\ key \in Keys \cup {None} /\ echoing \in BOOLEAN
  /\ rpc \in [Readers -> {"idle", "reading", "tosleep", "asleep", "awake"}]
  /\ \A p \in Readers : n[p] \in 0 .. MAXREAD /\ got[p] \in 0 .. n[p]
  /\ killed \in [Readers -> BOOLEAN]

\* The part of cons.buf between two of its indices.
Ring(a, b) == [i \in 1 .. Dist(a, b) |-> buf[(a + i - 1) % INPUT_BUF_SIZE]]
Lines == INSTANCE LineQueue WITH Room <- INPUT_BUF_SIZE,
                                 line <- Ring(w, e), ready <- Ring(r, w)

\* The ring of the console with its three wrapping indices is a line that can be
\* edited behind a queue of finished text: consoleintr() never takes back or
\* overwrites what a reader may already read, and nothing is read twice.
RefinesLines == Lines!LSpec

\* A full input buffer has been handed to the readers: were it not, no key could
\* be stored any more and no reader would be woken to make room (console.c:170).
FullIsReadable == Dist(r, e) = INPUT_BUF_SIZE => w = e

\* No process sleeps in consoleread() while there is something to read.
NoStuckReader == (\E p \in Readers : rpc[p] = "asleep") => r = w

\* ^D is an end of file for one read: it is consumed only by a read that has
\* nothing else to return, whoever else reads the console.
EofReadsZero ==
  [][\A p \in Readers : (r' # r /\ lock = p /\ buf[r % INPUT_BUF_SIZE] = "eof")
                          => rpc'[p] = "idle" /\ got[p] = 0]_consoleVars
=============================================================================
