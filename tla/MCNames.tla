------------------------------ MODULE MCNames -------------------------------
(* Instances of Names for TLC. *)
EXTENDS Names, TLC

C(op, abs, elems) == [op |-> op, path |-> [abs |-> abs, elems |-> elems], new |-> None]

\* A file "n" in whatever the current directory is, a directory or second name "/m", and
\* the file "/m/n".
Mixed == {C("open", FALSE, <<"n">>), C("creat", FALSE, <<"n">>), C("unlink", FALSE, <<"n">>),
          C("mkdir", TRUE, <<"m">>), C("chdir", TRUE, <<"m">>),
          C("unlink", TRUE, <<"m">>), C("unlink", TRUE, <<"m", "n">>),
          [C("link", FALSE, <<"n">>) EXCEPT !.new = [abs |-> TRUE, elems |-> <<"m">>]]}

\* One name, made and removed.
MakeRemove == {C("creat", FALSE, <<"n">>), C("unlink", FALSE, <<"n">>)}

\* A directory in a directory, its removal, "..", and a device that may get its number.
UpAndDown == {C(op, TRUE, path) : op \in {"mkdir", "unlink"}, path \in {<<"m">>, <<"m", "n">>}}
             \cup {C("chdir", TRUE, <<"m", "n">>), C("chdir", FALSE, <<"..">>),
                   C("mknod", TRUE, <<"n">>)}

CallSets == [mixed |-> Mixed, dirs |-> UpAndDown, leak |-> MakeRemove]
AllCalls == Mixed \cup UpAndDown \cup MakeRemove

CONSTANT Groups   \* the sets of calls to explore, each by itself
VARIABLE group

MCInit == Init /\ group \in Groups
MCNext == Steps(CallSets[group]) /\ UNCHANGED group
MCSpec == MCInit /\ [][MCNext]_<<vars, group>>

Symmetry == Permutations(Procs)
=============================================================================
