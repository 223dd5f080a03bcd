------------------------------- MODULE Args ---------------------------------
(***************************************************************************)
(* What the programs do with their arguments. Options: parse_flags(),      *)
(* which records them, and strip_flags(), which only removes them          *)
(* (user/ulib.c); both compact argv in place while they read it. Path      *)
(* names as text: skipelem() and the walk of namex() over it               *)
(* (kernel/fs.c), joinpath() and getFilename() (user/ulib.c), and the test *)
(* move() (user/utils.c) makes before it moves a directory.                *)
(***************************************************************************)
EXTENDS Integers, Sequences

-----------------------------------------------------------------------------
(* Options. A word is a sequence of characters; argv[0], the program's     *)
(* name, is left out.                                                      *)

CONSTANTS ArgOpts,   \* option letters that take an argument
          PlainOpts,     \* option letters that take none
          ArgWords,  \* the words a command line is made of
          NARGS      \* bound: words of a command line

ASSUME FlagsAssumption == ArgOpts \cap PlainOpts = {} /\ NARGS \in Nat

VARIABLE argv

flagsInit == argv = <<>>
flagsNext ==
    /\ Len(argv) < NARGS
    /\ \E w \in ArgWords : argv' = Append(argv, w)

Dash == "-"
Fails == [ok |-> FALSE]

IsFile(a) == a[1] # Dash \/ Len(a) = 1
IsStop(a) == a = <<Dash, Dash>>

-----------------------------------------------------------------------------
\* The loops work on av, the array as compacted so far, with i the word to
\* read and w the place to write next.  seen maps an option to its argument.
PutNone(av, w, a) == av                                       \* mutant
Put(av, w, a) == [av EXCEPT ![w] = a]

RECURSIVE CopyRest(_, _, _)
CopyRest(av, w, j) ==
    IF j > Len(av) THEN [ok |-> TRUE, argv |-> SubSeq(av, 1, w - 1)]
    ELSE CopyRest(Put(av, w, av[j]), w + 1, j + 1)

Record(seen, ch, arg) ==
    [c \in DOMAIN seen \cup {ch} |-> IF c = ch THEN arg ELSE seen[c]]

NoArgument(av, i) == i = Len(av) \/ (av[i + 1] # <<>> /\ av[i + 1][1] = Dash)

\* One cluster: the options it holds and how many words it uses up.
RECURSIVE Cluster(_, _, _, _)
Cluster(av, i, j, seen) ==
    LET a == av[i] IN
    IF j > Len(a) THEN [ok |-> TRUE, used |-> 1, seen |-> seen]
    ELSE IF a[j] \in PlainOpts THEN Cluster(av, i, j + 1, Record(seen, a[j], <<>>))
    ELSE IF a[j] \notin ArgOpts THEN Fails
    ELSE IF j < Len(a)
         THEN [ok |-> TRUE, used |-> 1,
               seen |-> Record(seen, a[j], SubSeq(a, j + 1, Len(a)))]
    ELSE IF NoArgument(av, i) THEN Fails
    ELSE [ok |-> TRUE, used |-> 2, seen |-> Record(seen, a[j], av[i + 1])]

RECURSIVE parse_flags(_, _, _, _)
parse_flags(av, i, w, seen) ==
    IF i > Len(av) THEN [ok |-> TRUE, argv |-> SubSeq(av, 1, w - 1), seen |-> seen]
    ELSE IF av[i] = <<>> THEN parse_flags(av, i + 1, w, seen)
    ELSE IF IsFile(av[i]) THEN parse_flags(Put(av, w, av[i]), i + 1, w + 1, seen)
    ELSE IF IsStop(av[i])
         THEN [ok |-> TRUE, argv |-> CopyRest(av, w, i + 1).argv, seen |-> seen]
    ELSE LET c == Cluster(av, i, 2, seen)
         IN IF ~c.ok THEN Fails ELSE parse_flags(av, i + c.used, w, c.seen)

\* The words the cluster at i uses up in strip_flags(): two when the first
\* letter with an argument is the last of the cluster, 0 when it is missing.
UsedOne(av, i) == 1                                           \* mutant
Used(av, i) ==
    LET a == av[i]
        takers == {j \in 2 .. Len(a) : a[j] \in ArgOpts}
    IN IF takers # {Len(a)} THEN 1 ELSE IF i = Len(av) THEN 0 ELSE 2

RECURSIVE strip_flags(_, _, _)
strip_flags(av, i, w) ==
    IF i > Len(av) THEN [ok |-> TRUE, argv |-> SubSeq(av, 1, w - 1)]
    ELSE IF av[i] = <<>> THEN strip_flags(av, i + 1, w)
    ELSE IF IsFile(av[i]) THEN strip_flags(Put(av, w, av[i]), i + 1, w + 1)
    ELSE IF IsStop(av[i]) THEN CopyRest(av, w, i + 1)
    ELSE IF Used(av, i) = 0 THEN Fails
    ELSE strip_flags(av, i + Used(av, i), w)

-----------------------------------------------------------------------------
Parse == parse_flags(argv, 1, 1, <<>>)
Strip == strip_flags(argv, 1, 1)

(* strip_flags() (ulib.c:327) leaves the files parse_flags() (ulib.c:242)  *)
(* leaves, on every command line the latter accepts: the two walk argv on  *)
(* their own and must agree which words are arguments of options.          *)
StripAgrees == Parse.ok => Strip.ok /\ Strip.argv = Parse.argv

\* Declaratively: a word is read as an option iff it looks like one and is
\* neither after "--" nor the argument of the option before it.
LooksOption(a) == a # <<>> /\ ~IsFile(a)
Takes(a) == LooksOption(a) /\ ~IsStop(a)
            /\ {j \in 2 .. Len(a) : a[j] \in ArgOpts} = {Len(a)}
Stops == {k \in DOMAIN argv : IsStop(argv[k])}
Stop == IF Stops = {} THEN Len(argv) + 1 ELSE CHOOSE k \in Stops : \A j \in Stops : k <= j
IsArg(k) == k > 1 /\ k <= Stop /\ Takes(argv[k - 1])
Options == {k \in 1 .. Stop - 1 : LooksOption(argv[k]) /\ ~IsArg(k)}
Kept(k) ==
    \/ k > Stop
    \/ k < Stop /\ argv[k] # <<>> /\ IsFile(argv[k]) /\ ~IsArg(k)
Letters(k) ==
    LET a == argv[k]
    IN {a[j] : j \in {j \in 2 .. Len(a) : \A h \in 2 .. j - 1 : a[h] \notin ArgOpts}}

(* parse_flags() follows the rules stated above it (ulib.c:231-241): the   *)
(* words kept are the files in their order and all that follows "--", the  *)
(* options recorded are the letters of the clusters up to the first that   *)
(* takes an argument, and it fails just on an unknown letter, a missing    *)
(* argument or one that starts with a dash.  Compacting in place never     *)
(* overwrites a word still to be read.                                     *)
ParsesRules ==
    LET kept == SelectSeq([k \in DOMAIN argv |-> k], Kept)
        files == [n \in DOMAIN kept |-> argv[kept[n]]]
        bad == \E k \in Options :
                  \/ Letters(k) \ (ArgOpts \cup PlainOpts) # {}
                  \/ Takes(argv[k]) /\ NoArgument(argv, k)
    IN IF bad THEN ~Parse.ok
       ELSE /\ Parse.ok /\ Parse.argv = files
            /\ DOMAIN Parse.seen = UNION {Letters(k) : k \in Options}

-----------------------------------------------------------------------------
(* Paths. A path is a sequence of characters without its terminator; the   *)
(* empty sequence is what skipelem() returns 0 for. Buffers are long       *)
(* enough for the paths.                                                   *)

CONSTANTS Chars,    \* the characters of a path: "/", "." and letters
          DIRSIZ,   \* characters kept of an element
          PATHLEN   \* bound: the longest path

ASSUME PathsAssumption == DIRSIZ \in Nat \ {0} /\ PATHLEN \in Nat

VARIABLES src, dst   \* the two paths given to a program

pathsInit == src = <<>> /\ dst = <<>>
pathsNext ==
    \/ /\ Len(src) < PATHLEN /\ dst = <<>>
       /\ \E c \in Chars : src' = Append(src, c)
       /\ UNCHANGED dst
    \/ /\ Len(dst) < PATHLEN
       /\ \E c \in Chars : dst' = Append(dst, c)
       /\ UNCHANGED src

At(s, i) == IF i <= Len(s) THEN s[i] ELSE "0"
From(s, i) == SubSeq(s, i, Len(s))
Upto(s, n) == SubSeq(s, 1, IF n < Len(s) THEN n ELSE Len(s))

-----------------------------------------------------------------------------
RECURSIVE SkipSlashes(_)
SkipSlashes(s) == IF At(s, 1) = "/" THEN SkipSlashes(Tail(s)) ELSE s

RECURSIVE ElemLen(_, _)
ElemLen(s, n) == IF At(s, n + 1) \in {"/", "0"} THEN n ELSE ElemLen(s, n + 1)

SkipOne(s) == IF At(s, 1) = "/" THEN Tail(s) ELSE s           \* mutant
SkipAfter(s) == SkipSlashes(s)

\* skipelem(): the element copied to name and the path that follows it.
skipelem(path) ==
    LET s == SkipSlashes(path)
        len == ElemLen(s, 0)
    IN [none |-> s = <<>>, name |-> Upto(Upto(s, len), DIRSIZ),
        rest |-> SkipAfter(From(s, len + 1))]

\* The names namex() looks up, and the one nameiparent() returns.
RECURSIVE Walk(_)
Walk(path) ==
    LET e == skipelem(path)
    IN IF e.none THEN <<>> ELSE <<e.name>> \o Walk(e.rest)
ParentStops(path) == skipelem(path).rest = <<>>

joinpathBare(dir, name) == dir \o name                        \* mutant
joinpath(dir, name) ==
    IF dir[Len(dir)] # "/" THEN dir \o <<"/">> \o name ELSE dir \o name

getFilename(path) ==
    LET K == {0} \cup {i \in DOMAIN path : path[i] = "/"}
    IN From(path, 1 + CHOOSE i \in K : \A j \in K : j <= i)

-----------------------------------------------------------------------------
RECURSIVE StripDot(_)
StripDot(s) == IF At(s, 1) = "." /\ At(s, 2) = "/" THEN StripDot(From(s, 3)) ELSE s
RECURSIVE StripTrailing(_)
StripTrailing(s) ==
    IF Len(s) > 1 /\ s[Len(s)] = "/" THEN StripTrailing(Upto(s, Len(s) - 1)) ELSE s

normalize_path(s) ==
    IF StripDot(s) = <<>> THEN <<".">> ELSE StripTrailing(StripDot(s))

EndsElement(d, n) == TRUE                                     \* mutant
NextIsSlash(d, n) == d[n + 1] = "/"

\* move() refuses when dst is src or starts with "src/".
Refuses(s0, d0) ==
    LET s == normalize_path(s0)
        d == normalize_path(d0)
    IN \/ d = s
       \/ Len(d) > Len(s) /\ Upto(d, Len(s)) = s /\ NextIsSlash(d, Len(s))

-----------------------------------------------------------------------------
\* The elements of a path, by its maximal runs of characters other than "/".
Starts(s) == {i \in DOMAIN s : s[i] # "/" /\ (i = 1 \/ s[i - 1] = "/")}
EndFrom(s, i) == CHOOSE j \in i .. Len(s) : /\ \A k \in i .. j : s[k] # "/"
                                            /\ At(s, j + 1) \in {"/", "0"}
Elements(s) ==
    LET starts == SelectSeq([i \in DOMAIN s |-> i], LAMBDA i : i \in Starts(s))
    IN [n \in DOMAIN starts |-> SubSeq(s, starts[n], EndFrom(s, starts[n]))]

(* Whatever slashes a path has in front, at its end or in a row, the walk  *)
(* by skipelem() (fs.c:623) looks up its elements in order, each cut to    *)
(* DIRSIZ characters, and nameiparent() stops exactly at the last one: the *)
(* rest is empty only there (fs.c:667).                                    *)
WalksElements ==
    LET names == Elements(src)
    IN /\ Walk(src) = [n \in DOMAIN names |-> Upto(names[n], DIRSIZ)]
       /\ names # <<>> => (ParentStops(src) <=> Len(names) = 1)

(* joinpath() (ulib.c:187) of a directory and a name leads to that name in *)
(* that directory, and getFilename() (ulib.c:202) gets the name back.      *)
JoinNames ==
    dst # <<>> /\ src # <<>> /\ (\A i \in DOMAIN src : src[i] # "/") =>
        /\ Elements(joinpath(dst, src)) = Append(Elements(dst), src)
        /\ getFilename(joinpath(dst, src)) = src

Absolute(s) == At(s, 1) = "/"
Meant(s) == SelectSeq(Elements(s), LAMBDA e : e # <<".">>)
Plain(s) ==
    /\ s # <<>>
    /\ \A i \in 1 .. Len(s) - 1 : s[i] = "/" => s[i + 1] # "/"
    /\ \A n \in 2 .. Len(Elements(StripDot(s))) : Elements(StripDot(s))[n] \notin {<<".">>, <<".", ".">>}
    /\ Elements(s) # <<>> => Elements(StripDot(s)) # <<>> /\ Elements(StripDot(s))[1] \notin {<<".">>, <<".", ".">>}

(* move() (utils.c:46-49) refuses just the destinations that are the       *)
(* source or below it, also when one name only begins like another: for    *)
(* paths written without empty, "." (but for leading ones) or ".."         *)
(* elements, both absolute or both relative, and a source other than "/".  *)
RefusesInside ==
    Plain(src) /\ Plain(dst) /\ Absolute(src) = Absolute(dst) /\ Meant(src) # <<>> =>
        (Refuses(src, dst)
         <=> /\ Len(Meant(src)) <= Len(Meant(dst))
             /\ Upto(Meant(dst), Len(Meant(src))) = Meant(src))
=============================================================================
