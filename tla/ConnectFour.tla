---------------------------- MODULE ConnectFour ----------------------------
(***************************************************************************)
(* ConnectFour.cpp: the board, the search for a win around the last disc,  *)
(* and the game that two players drive by calls of makeMove.  Whose move   *)
(* it is only the game knows; a call names the column alone.               *)
(***************************************************************************)
EXTENDS Integers, FiniteSets

CONSTANTS rows, cols,   \* 6 and 7
          Aligned       \* the discs in a line that win: 4

BoardAssumption == {rows, cols, Aligned} \subseteq Nat \ {0}

VARIABLES board,          \* board[<<r, c>>]: a colour or nullopt; row 0 is the top
          currentPlayer,  \* the players are their colours
          state, winner

vars == <<board, currentPlayer, state, winner>>

nullopt == "nullopt"
Players == {"RED", "YELLOW"}
Other(p) == IF p = "RED" THEN "YELLOW" ELSE "RED"
Cells == (0 .. rows - 1) \X (0 .. cols - 1)

Init == /\ board = [x \in Cells |-> nullopt]
        /\ currentPlayer = "RED"
        /\ state = "INPROGRESS"
        /\ winner = nullopt

-----------------------------------------------------------------------------
canPlace(b, column) ==
    /\ column >= 0 /\ column < cols
    /\ b[<<0, column>>] = nullopt

(* The row where placeDisc puts the disc: the lowest empty one.            *)
placeDiscRow(b, column) ==
    CHOOSE r \in 0 .. rows - 1 :
        /\ b[<<r, column>>] = nullopt
        /\ \A s \in r + 1 .. rows - 1 : b[<<s, column>>] # nullopt

isFull(b) == \A c \in 0 .. cols - 1 : b[<<0, c>>] # nullopt

(* How many discs of the colour follow one another from the cell, without  *)
(* it, in the direction d.                                                 *)
countInDirection(b, row, col, color, d) ==
    LET Run(k) == \A i \in 1 .. k : LET x == <<row + i * d[1], col + i * d[2]>>
                                    IN  x \in Cells /\ b[x] = color
    IN  CHOOSE k \in 0 .. rows + cols : Run(k) /\ ~Run(k + 1)

directions == {<<0, 1>>, <<1, 0>>, <<1, 1>>, <<-1, 1>>}

checkWin(b, row, col, color) ==
    \E d \in directions :
        1 + countInDirection(b, row, col, color, d)
          + countInDirection(b, row, col, color, <<-d[1], -d[2]>>) >= Aligned

(* A move that is refused returns false and changes nothing.               *)
moveRefused(column) == /\ state # "INPROGRESS" \/ ~canPlace(board, column)
                       /\ UNCHANGED vars

makeMove_FullFirst(column) ==
    /\ state = "INPROGRESS" /\ canPlace(board, column)
    /\ LET row == placeDiscRow(board, column)
           b   == [board EXCEPT ![<<row, column>>] = currentPlayer]
           won == checkWin(b, row, column, currentPlayer) /\ ~isFull(b)
       IN  /\ board' = b
           /\ winner' = IF won THEN currentPlayer ELSE winner
           /\ state' = IF won THEN "WON" ELSE IF isFull(b) THEN "DRAW" ELSE state
           /\ currentPlayer' = IF won \/ isFull(b) THEN currentPlayer
                               ELSE Other(currentPlayer)

makeMove(column) ==
    /\ state = "INPROGRESS" /\ canPlace(board, column)
    /\ LET row == placeDiscRow(board, column)
           b   == [board EXCEPT ![<<row, column>>] = currentPlayer]
           won == checkWin(b, row, column, currentPlayer)
       IN  /\ board' = b
           /\ winner' = IF won THEN currentPlayer ELSE winner
           /\ state' = IF won THEN "WON" ELSE IF isFull(b) THEN "DRAW" ELSE state
           /\ currentPlayer' = IF won \/ isFull(b) THEN currentPlayer
                               ELSE Other(currentPlayer)

Next == \E column \in -1 .. cols : makeMove(column) \/ moveRefused(column)

-----------------------------------------------------------------------------
Count(p) == Cardinality({x \in Cells : board[x] = p})

TypeOK == /\ board \in [Cells -> Players \cup {nullopt}]
          /\ currentPlayer \in Players
          /\ state \in {"INPROGRESS", "WON", "DRAW"}
          /\ winner \in Players \cup {nullopt}
          /\ winner = nullopt <=> state # "WON"

(* Lines 11 and 12: no disc hangs over an empty cell, and the players have *)
(* moved in turns: red, who began, is ahead by one exactly when yellow is  *)
(* to move or red made the last move of the game.                          *)
FairBoard ==
    /\ \A x \in Cells : board[x] # nullopt /\ x[1] + 1 < rows
                            => board[<<x[1] + 1, x[2]>>] # nullopt
    /\ LET lastMover == IF state = "INPROGRESS" THEN Other(currentPlayer)
                        ELSE currentPlayer
       IN  Count("RED") - Count("YELLOW") = IF lastMover = "RED" THEN 1 ELSE 0

(* Lines 13 to 15, over the whole board and not only around the last disc: *)
(* the game is won exactly when a line of the winner's discs is on it, and *)
(* drawn exactly when the board is full without one; until then the moves  *)
(* were fair.                                                              *)
Row(p) == \E x \in Cells, d \in {<<0, 1>>, <<1, 0>>, <<1, 1>>, <<1, -1>>} :
               \A i \in 0 .. Aligned - 1 :
                   LET y == <<x[1] + i * d[1], x[2] + i * d[2]>>
                   IN  y \in Cells /\ board[y] = p
OutcomeCorrect ==
    /\ TypeOK /\ FairBoard
    /\ \A p \in Players : Row(p) <=> (state = "WON" /\ winner = p)
    /\ state = "DRAW" <=> (\A x \in Cells : board[x] # nullopt) /\ state # "WON"
=============================================================================
