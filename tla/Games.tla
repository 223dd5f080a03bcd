------------------------------- MODULE Games --------------------------------
(***************************************************************************)
(* The games against the machine: tic-tac-toe (user/xo.c -ai) and connect  *)
(* four (user/c4.c -ai), each with its rules, the search of the machine    *)
(* and the loop of main(). What the player types is any position.          *)
(***************************************************************************)
EXTENDS Integers, Sequences, FiniteSets, FiniteSetsExt

-----------------------------------------------------------------------------
(* xo. Cells are numbered 1 .. 9 by rows and a free cell holds its own     *)
(* number, as on the board the program prints.                             *)

X == 10
O == 11
Cells == 1 .. 9

VARIABLES board, turn, over   \* over: "no", "win" or "draw"

xoVars == <<board, turn, over>>

RowsOf == { {1, 2, 3}, {4, 5, 6}, {7, 8, 9} }
ColsOf == { {1, 4, 7}, {2, 5, 8}, {3, 6, 9} }
DiagsOf == { {1, 5, 9}, {3, 5, 7} }
LinesOf == RowsOf \cup ColsOf \cup DiagsOf

win(b) == \E l \in LinesOf : \A i, j \in l : b[i] = b[j]
draw(b) == \A i \in Cells : b[i] \in {X, O}
MoveOk(b, pos) == pos \in Cells /\ b[pos] \notin {X, O}

ScoredNoDiags == RowsOf \cup ColsOf                           \* mutant
Scored == LinesOf

evaluate_board(b) ==
    IF \E l \in Scored : \A i \in l : b[i] = O THEN 10
    ELSE IF \E l \in Scored : \A i \in l : b[i] = X THEN -10
    ELSE 0

WorstZero(isMax) == 0                                         \* mutant
Worst(isMax) == IF isMax THEN -10000 ELSE 10000

\* minimax() with its loop over the cells from i on: the best value and move
\* so far, alpha and beta.  Both loops end where beta <= alpha.
RECURSIVE minimax(_, _, _, _, _), Loop(_, _, _, _, _, _, _, _)
minimax(b, depth, isMax, alpha, beta) ==
    LET score == evaluate_board(b) IN
    IF score = 10 THEN [val |-> score - depth, move |-> -1]
    ELSE IF score = -10 THEN [val |-> score + depth, move |-> -1]
    ELSE IF draw(b) THEN [val |-> 0, move |-> -1]
    ELSE Loop(b, depth, isMax, alpha, beta, 1, Worst(isMax), -1)

Loop(b, depth, isMax, alpha, beta, i, best, move) ==
    IF i > 9 THEN [val |-> best, move |-> move]
    ELSE IF b[i] \in {X, O} THEN Loop(b, depth, isMax, alpha, beta, i + 1, best, move)
    ELSE LET v == minimax([b EXCEPT ![i] = IF isMax THEN O ELSE X],
                          depth + 1, ~isMax, alpha, beta).val
             better == IF isMax THEN v > best ELSE v < best
             best1 == IF better THEN v ELSE best
             move1 == IF better THEN i ELSE move
             alpha1 == IF isMax /\ best1 > alpha THEN best1 ELSE alpha
             beta1 == IF ~isMax /\ best1 < beta THEN best1 ELSE beta
         IN IF beta1 <= alpha1 THEN [val |-> best1, move |-> move1]
            ELSE Loop(b, depth, isMax, alpha1, beta1, i + 1, best1, move1)

AiMove == minimax(board, 0, TRUE, -1000000, 1000000).move

\* The rest of main()'s loop after a position is known.  A move that is
\* refused changes nothing and the same player is asked again.
Play(pos) ==
    /\ over = "no" /\ MoveOk(board, pos)
    /\ board' = [board EXCEPT ![pos] = turn]
    /\ over' = IF win(board') THEN "win" ELSE IF draw(board') THEN "draw" ELSE "no"
    /\ turn' = IF over' # "no" THEN turn ELSE IF turn = X THEN O ELSE X

Player == turn = X /\ \E pos \in 0 .. 10 : Play(pos)
Machine == turn = O /\ over = "no" /\ Play(AiMove)
NewGame ==
    /\ over # "no"
    /\ board' = [i \in Cells |-> i] /\ turn' \in {X, O} /\ over' = "no"

xoInit(first) == board = [i \in Cells |-> i] /\ turn \in first /\ over = "no"
xoNext == Player \/ Machine \/ NewGame

-----------------------------------------------------------------------------
(* The machine never loses, whoever starts and whatever the player does:   *)
(* minimax() with its pruning (xo.c:134-213) sees every threat.            *)
MachineNeverLoses == ~(over = "win" /\ turn = X)

(* Whenever it is the machine's turn, the move minimax() leaves in pos     *)
(* (xo.c:247) is one make_move() accepts: otherwise main() would ask for   *)
(* the same move again for ever (xo.c:268-271).                            *)
MachineCanMove == turn = O /\ over = "no" => MoveOk(board, AiMove)

-----------------------------------------------------------------------------
(* c4, on a board of any size. A board maps cells <<row, column>>, row 0   *)
(* on top, to ".", "X" or "O".                                             *)

CONSTANTS ROWS, COLS,
          DEPTH,      \* depth of the machine's search (6)
          NMOVES      \* bound: moves watched

VARIABLES grid, piece, moves, won

c4Vars == <<grid, piece, moves, won>>

Row == 0 .. ROWS - 1
Col == 0 .. COLS - 1
Other(p) == IF p = "X" THEN "O" ELSE "X"

get_next_open_row(g, c) ==
    LET free == {r \in Row : g[r, c] = "."}
    IN IF free = {} THEN -1 ELSE Max(free)
make_move(g, c, p) == [g EXCEPT ![get_next_open_row(g, c), c] = p]
is_board_full(g) == \A c \in Col : get_next_open_row(g, c) = -1

\* The windows of four cells: across, down, and the two diagonals.
Window(r, c, dr, dc) == [k \in 0 .. 3 |-> <<r + k * dr, c + k * dc>>]
Windows ==
    {Window(r, c, 0, 1) : r \in Row, c \in 0 .. COLS - 4}
    \cup {Window(r, c, 1, 0) : r \in 0 .. ROWS - 4, c \in Col}
    \cup {Window(r, c, 1, 1) : r \in 0 .. ROWS - 4, c \in 0 .. COLS - 4}
    \cup {Window(r, c, -1, 1) : r \in 3 .. ROWS - 1, c \in 0 .. COLS - 4}
CountIn(g, w, p) == Cardinality({k \in 0 .. 3 : g[w[k][1], w[k][2]] = p})

Finished(g, p) == {w \in Windows : CountIn(g, w, p) = 4}
check_win(g, p) == Finished(g, p) # {}

score_window(g, w, p) ==
    LET own == CountIn(g, w, p)
        opp == CountIn(g, w, Other(p))
        empty == CountIn(g, w, ".")
    IN (CASE own = 4 -> 1000
          [] own = 3 /\ empty = 1 -> 100
          [] own = 2 /\ empty = 2 -> 10
          [] OTHER -> 0)
       - (IF opp = 3 /\ empty = 1 THEN 80 ELSE 0)

evaluate_position(g, p) ==
    6 * Cardinality({r \in Row : g[r, COLS \div 2] = p})
    + FoldSet(LAMBDA w, s : s + score_window(g, w, p), 0, Windows)

\* The value of a position at which the search ends.
Leaf(g, depth) ==
    check_win(g, "O") \/ check_win(g, "X") \/ depth = 0 \/ is_board_full(g)
Value(g) ==
    IF check_win(g, "O") THEN 1000000
    ELSE IF check_win(g, "X") THEN -1000000
    ELSE evaluate_position(g, "O") - evaluate_position(g, "X")

CutsAlways(alpha, beta) == alpha + 100 >= beta                \* mutant
Cuts(alpha, beta) == alpha >= beta

\* minimax() with its loop over the columns from c on.
RECURSIVE c4minimax(_, _, _, _, _), C4Loop(_, _, _, _, _, _, _, _)
c4minimax(g, depth, alpha, beta, max) ==
    IF Leaf(g, depth) THEN [val |-> Value(g), col |-> -1]
    ELSE C4Loop(g, depth, alpha, beta, max, 0, IF max THEN -10000000 ELSE 10000000, -1)
C4Loop(g, depth, alpha, beta, max, c, val, col) ==
    IF c = COLS THEN [val |-> val, col |-> col]
    ELSE IF get_next_open_row(g, c) = -1
         THEN C4Loop(g, depth, alpha, beta, max, c + 1, val, col)
    ELSE LET s == c4minimax(make_move(g, c, IF max THEN "O" ELSE "X"),
                            depth - 1, alpha, beta, ~max).val
             better == IF max THEN s > val ELSE s < val
             val1 == IF better THEN s ELSE val
             col1 == IF better THEN c ELSE col
             alpha1 == IF max /\ val1 > alpha THEN val1 ELSE alpha
             beta1 == IF ~max /\ val1 < beta THEN val1 ELSE beta
         IN IF Cuts(alpha1, beta1) THEN [val |-> val1, col |-> col1]
            ELSE C4Loop(g, depth, alpha1, beta1, max, c + 1, val1, col1)

\* get_ai_move(): best stays 0 when the search finds no column.
get_ai_move(g) ==
    LET r == c4minimax(g, DEPTH, -10000000, 10000000, TRUE)
    IN IF r.col = -1 THEN 0 ELSE r.col

\* One turn of main()'s loop.  A full column is refused and asked for again;
\* there is no test for a draw, so on a full board nobody moves any more.
Drop4(c) ==
    /\ ~won /\ moves < NMOVES
    /\ get_next_open_row(grid, c) # -1
    /\ grid' = make_move(grid, c, piece)
    /\ won' = check_win(grid', piece)
    /\ piece' = IF won' THEN piece ELSE Other(piece)
    /\ moves' = moves + 1

C4Player == piece = "X" /\ \E c \in Col : Drop4(c)
C4Machine == piece = "O" /\ ~won /\ moves < NMOVES /\ Drop4(get_ai_move(grid))

RECURSIVE Played(_, _, _)
Played(g, cs, p) ==
    IF cs = <<>> THEN g ELSE Played(make_move(g, Head(cs), p), Tail(cs), Other(p))
\* openings: pairs of the columns played before the game is watched and the
\* player who began.
c4Init(openings) ==
    /\ \E <<cs, first>> \in openings :
          /\ grid = Played([x \in Row \X Col |-> "."], cs, first)
          /\ piece = IF Len(cs) % 2 = 0 THEN first ELSE Other(first)
    /\ moves = 0 /\ won = FALSE
c4Next == C4Player \/ C4Machine

-----------------------------------------------------------------------------
RECURSIVE Plain4(_, _, _)
Plain4(g, depth, max) ==
    IF Leaf(g, depth) THEN Value(g)
    ELSE LET vals == {Plain4(make_move(g, c, IF max THEN "O" ELSE "X"), depth - 1, ~max) :
                        c \in {c \in Col : get_next_open_row(g, c) # -1}}
         IN IF max THEN Max(vals) ELSE Min(vals)

(* The column get_ai_move() (c4.c:218) returns is open and as good as any: *)
(* alpha-beta (c4.c:162-216) cuts off no line that would have changed the  *)
(* value of the search, and bestCol, which inner calls write too, ends up  *)
(* with the outermost choice.                                              *)
PruningExact ==
    (piece = "O" /\ ~won /\ moves < NMOVES /\ ~is_board_full(grid)) =>
        LET c == get_ai_move(grid)
        IN /\ get_next_open_row(grid, c) # -1
           /\ Plain4(make_move(grid, c, "O"), DEPTH - 1, FALSE) = Plain4(grid, DEPTH, TRUE)
=============================================================================
