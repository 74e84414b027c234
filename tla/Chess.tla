------------------------------- MODULE Chess --------------------------------
(***************************************************************************)
(* OOP/Chess.cpp: which squares a rook or a knight may move to.  Nothing   *)
(* in the file sets the board up or moves a piece, so a board is any that  *)
(* has few pieces, and a call asks for the moves of a piece of the player  *)
(* whose turn it is.                                                       *)
(***************************************************************************)
EXTENDS Integers, FiniteSets

CONSTANTS Size,        \* 8
          MaxPieces,   \* bound on the pieces on the board
          Empty

ChessAssumption == Size \in Nat \ {0} /\ MaxPieces \in Nat

VARIABLES grid,                \* grid[<<row, col>>]: a Color or Empty
          currentPlayerColor,
          asked,               \* the last call: the kind of piece and its
                               \* square, or Empty
          validMoves           \* what it returned

vars == <<grid, currentPlayerColor, asked, validMoves>>

Color == {"WHITE", "BLACK"}
Positions == (0 .. Size - 1) \X (0 .. Size - 1)

Boards == UNION {[occupied -> Color] :
                     occupied \in {o \in SUBSET Positions : Cardinality(o) <= MaxPieces}}

Init == /\ \E b \in Boards : grid = [x \in Positions |->
                                        IF x \in DOMAIN b THEN b[x] ELSE Empty]
        /\ currentPlayerColor \in Color
        /\ asked = Empty /\ validMoves = {}

-----------------------------------------------------------------------------
isEmpty(x) == grid[x] = Empty
isOpponent(x) == ~isEmpty(x) /\ currentPlayerColor # grid[x]
isOwnPiece(x) == ~isEmpty(x) /\ currentPlayerColor = grid[x]

Step(x, d, k) == <<x[1] + k * d[1], x[2] + k * d[2]>>

(* The rook's loop goes on from empty squares only.                        *)
rookMoves_Through(x) ==
    {y \in Positions :
        \E d \in {<<0, -1>>, <<-1, 0>>, <<1, 0>>, <<0, 1>>}, k \in 1 .. Size :
            /\ y = Step(x, d, k) /\ ~isOwnPiece(y)
            /\ \A j \in 1 .. k - 1 : ~isOwnPiece(Step(x, d, j))}

rookMoves(x) ==
    {y \in Positions :
        \E d \in {<<0, -1>>, <<-1, 0>>, <<1, 0>>, <<0, 1>>}, k \in 1 .. Size :
            /\ y = Step(x, d, k) /\ (isEmpty(y) \/ isOpponent(y))
            /\ \A j \in 1 .. k - 1 : isEmpty(Step(x, d, j))}

knightMoves(x) ==
    {y \in Positions :
        /\ isEmpty(y) \/ isOpponent(y)
        /\ \E d \in {<<1, -2>>, <<1, 2>>, <<-1, 2>>, <<-1, -2>>,
                     <<2, 1>>, <<2, -1>>, <<-2, 1>>, <<-2, -1>>} : y = Step(x, d, 1)}

getValidMoves(piece, x) ==
    /\ isOwnPiece(x)
    /\ asked' = [piece |-> piece, at |-> x]
    /\ validMoves' = IF piece = "Rook" THEN rookMoves(x) ELSE knightMoves(x)
    /\ UNCHANGED <<grid, currentPlayerColor>>

Next == \E piece \in {"Rook", "Knight"}, x \in Positions : getValidMoves(piece, x)

Spec == Init /\ [][Next]_vars

-----------------------------------------------------------------------------
(* The rules of chess, without directions: a rook moves along a row or a   *)
(* column with nothing between, a knight so that the rows and columns it   *)
(* crosses are one and two; neither leaves the board, stays where it is,   *)
(* or takes a piece of its own.                                            *)
Distance(i, j) == IF i < j THEN j - i ELSE i - j
Between(x, y) ==
    {z \in Positions \ {x, y} :
        \A i \in 1 .. 2 : Distance(x[i], z[i]) + Distance(z[i], y[i]) = Distance(x[i], y[i])}
MovesCorrect == asked # Empty =>
    validMoves = {y \in Positions :
        LET rowsCrossed == Distance(asked.at[1], y[1])
            colsCrossed == Distance(asked.at[2], y[2])
        IN  /\ y # asked.at /\ grid[y] # grid[asked.at]
            /\ IF asked.piece = "Knight" THEN {rowsCrossed, colsCrossed} = {1, 2}
               ELSE /\ 0 \in {rowsCrossed, colsCrossed}
                    /\ \A z \in Between(asked.at, y) : grid[z] = Empty}
=============================================================================
