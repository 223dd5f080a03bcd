------------------------------ MODULE Channel -------------------------------
(***************************************************************************)
(* What a pipe promises: a queue of at most Room bytes, put in at one end    *)
(* and taken out at the other in the same order.  A byte taken out may be    *)
(* lost on its way to the reader's memory.                                   *)
(***************************************************************************)
EXTENDS Sequences, Naturals

CONSTANTS Bytes, Room, None

VARIABLES
  queue,
  got     \* the byte the reader has just received, or None

CInit == queue = <<>> /\ got = None

Put == \E b \in Bytes : /\ Len(queue) < Room
                        /\ queue' = Append(queue, b)
                        /\ UNCHANGED got

Take == /\ queue # <<>>
        /\ queue' = Tail(queue)
        /\ got' = Head(queue)

Lose == /\ queue # <<>>
        /\ queue' = Tail(queue)
        /\ got' = None

Done == got' = None /\ UNCHANGED queue

CNext == Put \/ Take \/ Lose \/ Done

CSpec == CInit /\ [][CNext]_<<queue, got>>
=============================================================================
