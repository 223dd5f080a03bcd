---------------------------- MODULE MCPrograms -----------------------------
(* The shell, the user library, the programs, mkfs and the kernel's copies *)
(* from and to user memory share no state: one run explores each in turn,  *)
(* the others resting in one of their initial states.                      *)
EXTENDS ShellRun, Umalloc, Strings, Args, Move, TextTools, Calendar, Games,
        Mkfs, UserCopy, TLC

VARIABLE unit

Units0 == {"line", "shell", "umalloc", "strings", "flags", "paths", "move",
           "grep", "text", "calendar", "xo", "c4", "mkfs", "copy"}

vars == <<unit, line, runVars, umVars, mem, argv, src, dst, mvVars, grepVars,
          ttVars, calVars, xoVars, c4Vars, mkVars, ucVars>>

Words0(S, n) == UNION {[1 .. k -> S] : k \in 0 .. n}

MCBegun == {<<"(", "a">>, <<"a", "&">>, <<"a", "|">>, <<"a", ";">>, <<"a", ">">>,
            <<"a", " ">>, <<"<", "a">>, <<"(", "a", ")">>, <<"(", "a", ";">>}
MCLines == {<<"a", "|", "a", "|", "a">>,
            <<"(", "a", "&", ";", "a", ")", ">", "a">>,
            <<"(", "a", "&", ")", "|", "a">>,
            <<"a", "|", ";", "a", ")">>, <<>>}
MCArgWords == {<<>>, <<"-">>, <<"-", "-">>, <<"-", "n">>, <<"-", "v", "n">>,
               <<"-", "n", "v">>, <<"-", "v">>, <<"-", "x">>, <<"f">>, <<"g">>}
MCTree == (<<"d">> :> "dir") @@ (<<"d", "x">> :> "f1") @@ (<<"d", "e">> :> "dir")
          @@ (<<"d", "e", "y">> :> "f2") @@ (<<"t">> :> "dir")
          @@ (<<"t", "x">> :> "f3") @@ (<<"t", "e">> :> "f5") @@ (<<"x">> :> "f4")
MCJobs == [src : {<<"d">>, <<"d", "x">>, <<"d", "e">>, <<"x">>},
           dst : {<<"t">>, <<"d", "e">>, <<"x">>}, keep : BOOLEAN]
MCPatterns == LET P == Words0({"^", "$", "*", ".", "a"}, 3)
              IN P \cup {<<"^">> \o p \o <<"$">> : p \in P}
MCCases == (MCPatterns \X Words0({"a", "b"}, 3))
           \cup ({<<"a">>, <<"^", ".", "$">>} \X Words0({"a", "b", NL}, 5))
MCFiles1 == Words0({"a", "b", " ", "n"}, 4)
MCFiles2 == Words0({"a", "n", "!"}, 2)
MCOpenings == {<<>>, <<0, 0, 0, 1, 1>>, <<0, 1, 2, 1, 2, 2>>}
MCFirstDays == {10950, 19700, 47500}

-----------------------------------------------------------------------------
Pick(u, S, s) == IF unit = u THEN S ELSE {s}
Of(u, n) == IF unit = u THEN n ELSE 0

Init ==
    /\ unit \in Units0
    /\ lineInit(Pick("line", MCBegun, <<>>))
    /\ runInit(Pick("shell", SUBSET (0 .. 2), {}))
    /\ umInit
    /\ strInit(Of("strings", 5))
    /\ flagsInit /\ pathsInit
    /\ mvInit(Pick("move", MCJobs, [src |-> <<"x">>, dst |-> <<"t">>, keep |-> TRUE]))
    /\ grepInit(Pick("grep", MCCases, <<<<"a">>, <<"b">>>>))
    /\ ttInit(Pick("text", MCFiles1, <<>>), Pick("text", MCFiles2, <<>>))
    /\ calInit(Pick("calendar", MCFirstDays, 0))
    /\ xoInit(Pick("xo", {X, O}, X))
    /\ c4Init(Pick("c4", MCOpenings \X {"X", "O"}, <<<<>>, "X">>))
    /\ mkInit
    /\ ucInit(Of("copy", 3))

Next ==
    /\ UNCHANGED <<unit, mem, ucVars>>
    /\ \/ /\ unit = "line" /\ lineNext
          /\ UNCHANGED <<runVars, umVars, argv, src, dst, mvVars, grepVars, ttVars,
                         calVars, xoVars, c4Vars, mkVars>>
       \/ /\ unit = "shell" /\ runNext
          /\ UNCHANGED <<line, umVars, argv, src, dst, mvVars, grepVars, ttVars,
                         calVars, xoVars, c4Vars, mkVars>>
       \/ /\ unit = "umalloc" /\ umNext
          /\ UNCHANGED <<line, runVars, argv, src, dst, mvVars, grepVars, ttVars,
                         calVars, xoVars, c4Vars, mkVars>>
       \/ /\ unit = "flags" /\ flagsNext
          /\ UNCHANGED <<line, runVars, umVars, src, dst, mvVars, grepVars, ttVars,
                         calVars, xoVars, c4Vars, mkVars>>
       \/ /\ unit = "paths" /\ pathsNext
          /\ UNCHANGED <<line, runVars, umVars, argv, mvVars, grepVars, ttVars,
                         calVars, xoVars, c4Vars, mkVars>>
       \/ /\ unit = "move" /\ mvNext
          /\ UNCHANGED <<line, runVars, umVars, argv, src, dst, grepVars, ttVars,
                         calVars, xoVars, c4Vars, mkVars>>
       \/ /\ unit = "grep" /\ grepNext
          /\ UNCHANGED <<line, runVars, umVars, argv, src, dst, mvVars, ttVars,
                         calVars, xoVars, c4Vars, mkVars>>
       \/ /\ unit = "text" /\ ttNext
          /\ UNCHANGED <<line, runVars, umVars, argv, src, dst, mvVars, grepVars,
                         calVars, xoVars, c4Vars, mkVars>>
       \/ /\ unit = "calendar" /\ calNext
          /\ UNCHANGED <<line, runVars, umVars, argv, src, dst, mvVars, grepVars, ttVars,
                         xoVars, c4Vars, mkVars>>
       \/ /\ unit = "xo" /\ xoNext
          /\ UNCHANGED <<line, runVars, umVars, argv, src, dst, mvVars, grepVars, ttVars,
                         calVars, c4Vars, mkVars>>
       \/ /\ unit = "c4" /\ c4Next
          /\ UNCHANGED <<line, runVars, umVars, argv, src, dst, mvVars, grepVars, ttVars,
                         calVars, xoVars, mkVars>>
       \/ /\ unit = "mkfs" /\ mkNext
          /\ UNCHANGED <<line, runVars, umVars, argv, src, dst, mvVars, grepVars, ttVars,
                         calVars, xoVars, c4Vars>>

\* Only the shell and its children have something that must come: they are
\* processes, and while one of them can run the scheduler runs one.
FairSpec == Init /\ [][Next]_vars /\ WF_runVars(unit = "shell" /\ runNext)

\* The shell (sh.c): every line is parsed by the grammar with its words intact,
\* every program starts with the descriptors its place in the line asks for, and
\* the prompt comes back when the foreground is done.
ShellRight == FollowsGrammar /\ WordsIntact /\ ExecDescriptors /\ PromptAfterForeground

\* The library (umalloc.c, string.c, ulib.c, skipelem()): no memory is lost,
\* shared or denied while there is some, and copying, comparing, options and
\* path names agree with what they are defined to mean.
LibraryRight ==
    /\ UnitsConserved /\ Coalesced /\ DeniedOnlyWhenFull
    /\ MovesRight /\ CopiesBounded /\ ComparesRight
    /\ StripAgrees /\ ParsesRules
    /\ WalksElements /\ JoinNames /\ RefusesInside

\* mv and cp (utils.c): whatever call fails, no file loses its last name or
\* gains one, and success means that all of the tree has arrived (for cp, if no
\* read() of a directory failed).
MovesSafely == NoFileLost /\ NamesCounted /\ SuccessIsComplete

\* The programs (grep.c, wc.c, wce.c, tail.c, diff.c, datetime.c, xo.c, c4.c):
\* their answers do not depend on how read() cuts the file, and are those of a
\* plain definition; the machine never loses at xo, and pruning loses nothing.
ToolsRight ==
    /\ MatchesDenoted /\ GrepWhole /\ CountsWhole /\ TailsLast /\ DiffsLines
    /\ DatesFollow
    /\ MachineNeverLoses /\ MachineCanMove /\ PruningExact

\* The image mkfs.c builds: bitmap, inodes and directory agree, every file given
\* is under its name with its size and bytes, and no block is missing below a
\* size, but for the root's last when its entries fill their blocks exactly.
ImageRight == ImageConsistent /\ DirectoryAgrees /\ FilesWhole /\ SizesCovered

\* The kernel's page-wise access to user memory (vm.c, syscall.c) is the
\* byte-wise one, also at page ends, across missing pages and on overflow.
CopiesExact == CopyoutExact /\ CopyinExact /\ FetchInside
=============================================================================
