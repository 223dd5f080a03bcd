------------------------------- MODULE MCLog -------------------------------
(***************************************************************************)
(* An instance of Log for TLC.  Its behaviours are of two kinds: over few    *)
(* blocks, with all values, crashes and recycling; and over enough blocks    *)
(* to fill the log, with one value and a machine that stays up.  In these,   *)
(* blocks that are not logged can stand for one another, so that they are    *)
(* logged in the order of their numbers.                                     *)
(***************************************************************************)
EXTENDS Log

CONSTANT Few   \* some of Blocks, which are the numbers from 1 on

VARIABLE wide

First == CHOOSE v \in Vals : TRUE

MCInit ==
  /\ Init /\ wide \in BOOLEAN
  /\ \A b \in Blocks : wide \/ b \notin Few => disk[b] = First
  /\ wide => \A i \in Slots : dlog[i] = First

OverFew == \A b \in Blocks \ Few : buf'[b] = NoBuf

Filling ==
  \/ CommitStep
  \/ \E p \in Procs : \/ BeginOp(p) \/ Kill(p) \/ EndOp(p) \/ FinishCommit(p)
                      \/ \E b \in Blocks : b <= Len(lh) + 1 /\ LogWrite(p, b, First)

MCNext == UNCHANGED wide /\ IF wide THEN Filling ELSE Next /\ OverFew

MCSpec == MCInit /\ [][MCNext]_<<vars, wide>> /\ Fairness
=============================================================================
