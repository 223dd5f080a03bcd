---------------------------- MODULE Transactions ----------------------------
(***************************************************************************)
(* What kernel/log.c promises its callers.  The blocks have a current        *)
(* contents, which calls read and change, and a durable contents, which a    *)
(* restart brings back.  The durable contents only ever moves to a current   *)
(* contents at a moment when no call is in progress: after a restart the     *)
(* effects of every call are there completely or not at all.                 *)
(***************************************************************************)
CONSTANTS Procs, Blocks, Vals

VARIABLES
  durable,   \* contents a restart brings back
  current,   \* contents calls read and write
  ops        \* processes between begin_op() and end_op()

tvars == <<durable, current, ops>>

TInit ==
  /\ durable \in [Blocks -> Vals]
  /\ current = durable
  /\ ops = {}

Begin(p) == p \notin ops /\ ops' = ops \cup {p} /\ UNCHANGED <<durable, current>>

Write(p, b, v) ==
  p \in ops /\ current' = [current EXCEPT ![b] = v] /\ UNCHANGED <<durable, ops>>

End(p) == p \in ops /\ ops' = ops \ {p} /\ UNCHANGED <<durable, current>>

Commit == ops = {} /\ durable' = current /\ UNCHANGED <<current, ops>>

Restart == current' = durable /\ ops' = {} /\ UNCHANGED durable

TNext ==
  \/ \E p \in Procs : Begin(p) \/ End(p)
  \/ \E p \in Procs, b \in Blocks, v \in Vals : Write(p, b, v)
  \/ Commit
  \/ Restart

TSpec == TInit /\ [][TNext]_tvars
=============================================================================
