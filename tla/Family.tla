------------------------------- MODULE Family -------------------------------
(***************************************************************************)
(* What fork(), exit() and wait() promise their callers: a family tree of    *)
(* process ids rooted in process 1.  An id is issued once and never again; a *)
(* process dies at one instant, at which all its children, dead or alive,    *)
(* become children of process 1; the dead stay in the tree until they are    *)
(* reaped, once.  Who calls is not part of the tree: that it is the parent   *)
(* who reaps is a guard of wait() in module Proc.                            *)
(***************************************************************************)
EXTENDS Naturals

VARIABLES
  tree,   \* the processes: id, parent's id, and whether it has died
  fresh,  \* ids issued to processes not born yet
  last    \* the last id issued

Root == [id |-> 1, parent |-> 0, dead |-> FALSE]

Alive(p) == \E r \in tree : r.id = p /\ ~r.dead

FInit == tree = {Root} /\ fresh = {} /\ last = 1

\* An id is issued; a fork that fails loses it at once.
Issue ==
  /\ last' = last + 1
  /\ fresh' \in {fresh, fresh \cup {last + 1}}
  /\ UNCHANGED tree

Born(p, c) ==
  /\ Alive(p) /\ c \in fresh
  /\ tree' = tree \cup {[id |-> c, parent |-> p, dead |-> FALSE]}
  /\ fresh' = fresh \ {c}
  /\ UNCHANGED last

Die(p) ==
  /\ Alive(p) /\ p # 1
  /\ tree' = {[id |-> r.id, parent |-> IF r.parent = p THEN 1 ELSE r.parent,
               dead |-> r.dead \/ r.id = p] : r \in tree}
  /\ UNCHANGED <<fresh, last>>

Reap(r) ==
  /\ r \in tree /\ r.dead /\ Alive(r.parent)
  /\ tree' = tree \ {r}
  /\ UNCHANGED <<fresh, last>>

FNext ==
  \/ Issue
  \/ \E p \in 1 .. last, c \in fresh : Born(p, c)
  \/ \E p \in 1 .. last : Die(p)
  \/ \E r \in tree : Reap(r)

FSpec == FInit /\ [][FNext]_<<tree, fresh, last>>
=============================================================================
