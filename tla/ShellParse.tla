---------------------------- MODULE ShellParse -----------------------------
(***************************************************************************)
(* The shell's parser (user/sh.c): gettoken(), peek() and the recursive    *)
(* descent over one command line.  A line is a sequence of characters of   *)
(* which "a" stands for any character of a word and " " for white space.   *)
(* A word is the pair <<q, eq>> of pointers the parser keeps of it.  A     *)
(* call of panic(), which exits, makes the whole parse Panic.              *)
(***************************************************************************)
EXTENDS Naturals, Sequences, FiniteSets

CONSTANTS MAXARGS,  \* slots of execcmd's argv
          NBUF      \* bound: the longest line (main()'s buf has 100 bytes)

ASSUME ParseAssumption == MAXARGS \in Nat \ {0} /\ NBUF \in Nat

VARIABLE line   \* the line getcmd() has read

NUL == "0"
symbols == {"<", "|", ">", "&", ";", "(", ")"}

Char(s, i) == IF i <= Len(s) THEN s[i] ELSE NUL

execcmd(argv) == [type |-> "EXEC", argv |-> argv]
redircmd(cmd, file, mode, fd) ==
    [type |-> "REDIR", cmd |-> cmd, file |-> file, mode |-> mode, fd |-> fd]
pipecmd(left, right) == [type |-> "PIPE", left |-> left, right |-> right]
listcmd(left, right) == [type |-> "LIST", left |-> left, right |-> right]
backcmd(cmd) == [type |-> "BACK", cmd |-> cmd]

Panic == [pos |-> 0]
Parsed(i, cmd) == [pos |-> i, cmd |-> cmd]

lineInit(begun) == line \in begun
lineNext ==
    /\ Len(line) < NBUF
    /\ \E c \in symbols \cup {"a", " "} : line' = Append(line, c)

-----------------------------------------------------------------------------
RECURSIVE SkipWhite(_, _)
SkipWhite(s, i) == IF Char(s, i) = " " THEN SkipWhite(s, i + 1) ELSE i

RECURSIVE WordEnd(_, _)
WordEnd(s, i) == IF Char(s, i) = "a" THEN WordEnd(s, i + 1) ELSE i

\* What gettoken() returns, *q and *eq, and where *ps is left.
Token(s, tok, q, eq) == [tok |-> tok, word |-> <<q, eq>>, pos |-> SkipWhite(s, eq)]
TokenAt(s, i) ==
    CASE Char(s, i) = NUL -> Token(s, NUL, i, i)
      [] Char(s, i) = ">" /\ Char(s, i + 1) = ">" -> Token(s, "+", i, i + 2)
      [] Char(s, i) = "a" -> Token(s, "a", i, WordEnd(s, i))
      [] OTHER -> Token(s, Char(s, i), i, i + 1)
gettoken(s, i) == TokenAt(s, SkipWhite(s, i))

peek(s, i, toks) == Char(s, SkipWhite(s, i)) \in toks

-----------------------------------------------------------------------------
RedirOf(tok, cmd, file) ==
    CASE tok = "<" -> redircmd(cmd, file, "r", 0)
      [] tok = ">" -> redircmd(cmd, file, "w+create+trunc", 1)
      [] tok = "+" -> redircmd(cmd, file, "w+create", 1)

Redirected(cmd, op, file) ==
    IF file.tok # "a" THEN Panic
    ELSE Parsed(file.pos, RedirOf(op.tok, cmd, file.word))
RECURSIVE parseredirs(_, _)
parseredirs(s, r) ==
    IF r = Panic \/ ~peek(s, r.pos, {"<", ">"}) THEN r
    ELSE parseredirs(s, Redirected(r.cmd, gettoken(s, r.pos),
                                   gettoken(s, gettoken(s, r.pos).pos)))

\* cmd->argv[argc] = q goes through the pointer to the execcmd, under the
\* redirections already wrapped around it.
RECURSIVE WithArg(_, _)
WithArg(cmd, word) ==
    IF cmd.type = "REDIR" THEN [cmd EXCEPT !.cmd = WithArg(cmd.cmd, word)]
    ELSE execcmd(Append(cmd.argv, word))

RECURSIVE ArgCount(_)
ArgCount(cmd) ==
    IF cmd.type = "REDIR" THEN ArgCount(cmd.cmd) ELSE Len(cmd.argv)

\* The loop of parseexec() over the words of one command; at the end of the
\* line gettoken() returns 0 and the loop is left.
Word(s, cmd, t) ==
    IF t.tok # "a" \/ ArgCount(cmd) + 1 >= MAXARGS THEN Panic
    ELSE parseredirs(s, Parsed(t.pos, WithArg(cmd, t.word)))
RECURSIVE Words(_, _)
Words(s, r) ==
    IF r = Panic \/ Char(s, SkipWhite(s, r.pos)) \in {"|", ")", "&", ";", NUL} THEN r
    ELSE Words(s, Word(s, r.cmd, gettoken(s, r.pos)))

RECURSIVE Backs(_, _)
Backs(s, r) ==
    IF r = Panic \/ ~peek(s, r.pos, {"&"}) THEN r
    ELSE Backs(s, Parsed(gettoken(s, r.pos).pos, backcmd(r.cmd)))

ListStopsBack(s, r) ==                                        \* mutant
    r = Panic \/ ~peek(s, r.pos, {";"}) \/ r.cmd.type = "BACK"
ListStops(s, r) == r = Panic \/ ~peek(s, r.pos, {";"})

RECURSIVE parseline(_, _), parsepipe(_, _), parseexec(_, _)

LineRest(s, r) ==
    LET rest == parseline(s, gettoken(s, r.pos).pos)
    IN  IF ListStops(s, r) THEN r
        ELSE IF rest = Panic THEN Panic
        ELSE Parsed(rest.pos, listcmd(r.cmd, rest.cmd))
parseline(s, i) == LineRest(s, Backs(s, parsepipe(s, i)))

PipeRest(s, r) ==
    LET rest == parsepipe(s, gettoken(s, r.pos).pos)
    IN  IF r = Panic \/ ~peek(s, r.pos, {"|"}) THEN r
        ELSE IF rest = Panic THEN Panic
        ELSE Parsed(rest.pos, pipecmd(r.cmd, rest.cmd))
parsepipe(s, i) == PipeRest(s, parseexec(s, i))

BlockRest(s, r) ==
    IF r = Panic \/ ~peek(s, r.pos, {")"}) THEN Panic
    ELSE parseredirs(s, Parsed(gettoken(s, r.pos).pos, r.cmd))
parseblock(s, i) == BlockRest(s, parseline(s, gettoken(s, i).pos))

parseexec(s, i) ==
    IF peek(s, i, {"("}) THEN parseblock(s, i)
    ELSE Words(s, parseredirs(s, Parsed(i, execcmd(<<>>))))

\* parsecmd(): the whole line has to be used up.
AllOf(s, r) ==
    IF r = Panic \/ SkipWhite(s, r.pos) # Len(s) + 1 THEN Panic ELSE r
parsecmd(s) == AllOf(s, parseline(s, 1))

TerminatorEarly(word) == word[2] - 1                          \* mutant
Terminator(word) == word[2]

\* nulterminate(): the positions of the line overwritten with 0.
RECURSIVE nulterminate(_)
nulterminate(cmd) ==
    CASE cmd.type = "EXEC" -> {Terminator(cmd.argv[j]) : j \in DOMAIN cmd.argv}
      [] cmd.type = "REDIR" -> nulterminate(cmd.cmd) \cup {Terminator(cmd.file)}
      [] cmd.type \in {"PIPE", "LIST"} ->
             nulterminate(cmd.left) \cup nulterminate(cmd.right)
      [] cmd.type = "BACK" -> nulterminate(cmd.cmd)
-----------------------------------------------------------------------------
\* The grammar, by splitting the line's tokens at their top-level operators:
\*   line ::= back [; line]      back ::= pipe {&}     pipe ::= cmd [| pipe]
\*   cmd  ::= ( line ) {redir}  |  {word | redir}      redir ::= op word
Bad == [type |-> "BAD"]

RECURSIVE Tokens(_, _)
Tokens(s, i) ==
    IF gettoken(s, i).tok = NUL THEN <<>>
    ELSE <<gettoken(s, i)>> \o Tokens(s, gettoken(s, i).pos)

Before(t, k) == SubSeq(t, 1, k - 1)
After(t, k) == SubSeq(t, k + 1, Len(t))
Count(t, c) == Cardinality({k \in DOMAIN t : t[k].tok = c})
TopLevel(t, c) ==
    {k \in DOMAIN t : t[k].tok = c /\ Count(Before(t, k), "(") = Count(Before(t, k), ")")}
First(K) == CHOOSE k \in K : \A j \in K : k <= j
Both(l, r, Node(_, _)) == IF Bad \in {l, r} THEN Bad ELSE Node(l, r)
Behind(c) == IF c = Bad THEN Bad ELSE backcmd(c)

IsOp(t, k) == k \in DOMAIN t /\ t[k].tok \in {"<", ">", "+"}
RECURSIVE Wrapped(_, _)
Wrapped(cmd, t) ==
    IF t = <<>> \/ cmd = Bad THEN cmd
    ELSE IF ~IsOp(t, 1) THEN Wrapped(cmd, Tail(t))
    ELSE Wrapped(RedirOf(t[1].tok, cmd, t[2].word), SubSeq(t, 3, Len(t)))

RECURSIVE LineTree(_), BackTree(_), PipeTree(_)
CmdTree(t) ==
    LET close == {k \in DOMAIN t : t[k].tok = ")"
                                   /\ Count(Before(t, k), "(") = Count(Before(t, k), ")") + 1}
        block == t # <<>> /\ t[1].tok = "("
        tail == IF block /\ close # {} THEN After(t, First(close)) ELSE t
        words == {k \in DOMAIN tail : tail[k].tok = "a" /\ ~IsOp(tail, k - 1)}
        Nth(n) == CHOOSE k \in words : Cardinality({j \in words : j <= k}) = n
    IN IF \/ block /\ (close = {} \/ words # {})
          \/ Cardinality(words) >= MAXARGS
          \/ \E k \in DOMAIN tail :
                \/ tail[k].tok \in {"(", ")", "&"}
                \/ IsOp(tail, k) /\ (k = Len(tail) \/ tail[k + 1].tok # "a")
       THEN Bad
       ELSE Wrapped(IF block THEN LineTree(SubSeq(t, 2, First(close) - 1))
                    ELSE execcmd([n \in 1 .. Cardinality(words) |-> tail[Nth(n)].word]),
                    tail)
PipeTree(t) ==
    LET K == TopLevel(t, "|") IN
    IF K = {} THEN CmdTree(t)
    ELSE Both(CmdTree(Before(t, First(K))), PipeTree(After(t, First(K))), pipecmd)
BackTree(t) ==
    IF t # <<>> /\ t[Len(t)].tok = "&"
    THEN Behind(BackTree(Before(t, Len(t))))
    ELSE PipeTree(t)
LineTree(t) ==
    LET K == TopLevel(t, ";") IN
    IF K = {} THEN BackTree(t)
    ELSE Both(BackTree(Before(t, First(K))), LineTree(After(t, First(K))), listcmd)

TreeOf(r) == IF r = Panic THEN Bad ELSE r.cmd

(* The recursive descent (sh.c:328-447) builds, for every line of the      *)
(* grammar above, the tree the grammar gives it, and panics on any other:  *)
(* pipes bind tighter than &, & tighter than ;, both associate to the      *)
(* right, redirections wrap in the order written, at most MAXARGS - 1      *)
(* words.                                                                  *)
FollowsGrammar == TreeOf(parsecmd(line)) = LineTree(Tokens(line, 1))

RECURSIVE WordsOf(_)
WordsOf(cmd) ==
    CASE cmd.type = "EXEC" -> {cmd.argv[j] : j \in DOMAIN cmd.argv}
      [] cmd.type = "REDIR" -> WordsOf(cmd.cmd) \cup {cmd.file}
      [] cmd.type \in {"PIPE", "LIST"} -> WordsOf(cmd.left) \cup WordsOf(cmd.right)
      [] cmd.type = "BACK" -> WordsOf(cmd.cmd)

Intact(words, zeros) ==
    \A w \in words :
        /\ w[1] < w[2]
        /\ \A i \in w[1] .. w[2] - 1 : line[i] = "a" /\ i \notin zeros
        /\ w[2] \in zeros /\ Char(line, w[2]) # "a"

(* nulterminate() (sh.c:450) writes its zeros into the line the words are  *)
(* still pointers into: read as C strings afterwards, all of them are the  *)
(* words that were typed, even where only a symbol separates two of them.  *)
WordsIntact ==
    \A r \in {parsecmd(line)} \ {Panic} : Intact(WordsOf(r.cmd), nulterminate(r.cmd))
=============================================================================
