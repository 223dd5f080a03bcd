----------------------------- MODULE LineQueue -----------------------------
(***************************************************************************)
(* What the console promises its readers: characters are collected in a line *)
(* that can still be edited, and become readable, in order and for good,     *)
(* when the line ends or no room is left.                                    *)
(***************************************************************************)
EXTENDS Naturals, Sequences

CONSTANTS Room

VARIABLES line, ready

LInit == line = <<>> /\ ready = <<>>

Ends(c) == c \in {"nl", "eof"} \/ Len(ready) + Len(line) + 1 = Room

Typed(c) ==
  /\ Len(ready) + Len(line) < Room
  /\ IF Ends(c) THEN ready' = (ready \o line) \o <<c>> /\ line' = <<>>
     ELSE line' = Append(line, c) /\ UNCHANGED ready

Erased == line # <<>> /\ line' = SubSeq(line, 1, Len(line) - 1) /\ UNCHANGED ready

Killed == line' = <<>> /\ UNCHANGED ready

Taken == ready # <<>> /\ ready' = Tail(ready) /\ UNCHANGED line

LNext == Erased \/ Killed \/ Taken \/ \E c \in {"x", "nl", "eof"} : Typed(c)

LSpec == LInit /\ [][LNext]_<<line, ready>>
=============================================================================
