----------------------------- MODULE TicTacToe ------------------------------
(***************************************************************************)
(* OOP/TicTacToe.cpp: the board of n by n, the search for a line through   *)
(* the last move, and the game.  A call of makeMove names the player.  The *)
(* member p, whose move it is, and makeMove's parameter have one name in   *)
(* the code; inside makeMove p is the parameter.                           *)
(***************************************************************************)
EXTENDS Integers, FiniteSets

CONSTANT n

BoardAssumption == n \in Nat /\ n >= 3     \* the constructor throws below 3

VARIABLES board,       \* board[<<r, c>>]: a player or EMPTY
          p,           \* the member this->p
          s,           \* the Status
          announced    \* the player that the last "turn now" named, or EMPTY

vars == <<board, p, s, announced>>

EMPTY == 0
PLAYER_ONE == 1
PLAYER_TWO == 2
Cells == (0 .. n - 1) \X (0 .. n - 1)

Init == /\ board = [x \in Cells |-> EMPTY]
        /\ p = PLAYER_ONE
        /\ s = "IN_PROGRESS"
        /\ announced = EMPTY

-----------------------------------------------------------------------------
(* The row, the column and the diagonals of the last move.                 *)
checkWin(b, q, r, c) ==
    LET All(line) == \A x \in line : b[x] = q
    IN  \/ All({<<r, j>> : j \in 0 .. n - 1})
        \/ All({<<i, c>> : i \in 0 .. n - 1})
        \/ r = c /\ All({<<i, i>> : i \in 0 .. n - 1})
        \/ r + c = n - 1 /\ All({<<i, n - 1 - i>> : i \in 0 .. n - 1})

checkValidMove(r, c) == r >= 0 /\ c >= 0 /\ r < n /\ c < n
isFull(b) == \A x \in Cells : b[x] # EMPTY
changePlayer(q) == IF q = PLAYER_ONE THEN PLAYER_TWO ELSE PLAYER_ONE

Accepted(q, r, c) == /\ s = "IN_PROGRESS" /\ p = q
                     /\ checkValidMove(r, c) /\ board[<<r, c>>] = EMPTY

(* Refused moves get one of four messages and change nothing.              *)
moveRefused(q, r, c) == ~Accepted(q, r, c) /\ UNCHANGED vars

makeMove(q, r, c) ==
    /\ Accepted(q, r, c)
    /\ LET b   == [board EXCEPT ![<<r, c>>] = q]
           won == checkWin(b, q, r, c)
       IN  /\ board' = b
           /\ s' = IF won THEN "END" ELSE IF isFull(b) THEN "DRAW" ELSE s
           /\ p' = IF s' = "IN_PROGRESS" THEN changePlayer(p) ELSE p
           /\ announced' = IF s' = "IN_PROGRESS" THEN q ELSE EMPTY

Next == \E q \in {PLAYER_ONE, PLAYER_TWO}, r, c \in -1 .. n :
            makeMove(q, r, c) \/ moveRefused(q, r, c)

Spec == Init /\ [][Next]_vars

-----------------------------------------------------------------------------
TypeOK == /\ board \in [Cells -> {EMPTY, PLAYER_ONE, PLAYER_TWO}]
          /\ p \in {PLAYER_ONE, PLAYER_TWO}
          /\ s \in {"IN_PROGRESS", "END", "DRAW"}
          /\ announced \in {EMPTY, PLAYER_ONE, PLAYER_TWO}

(* Over the whole board and not only the lines of the last move: the game  *)
(* has ended exactly when a player has a line, who is then the last mover; *)
(* it is a draw exactly when the board is full without one; and the        *)
(* players have moved in turns.                                            *)
Lines == {{<<i, j>> : j \in 0 .. n - 1} : i \in 0 .. n - 1}
         \cup {{<<i, j>> : i \in 0 .. n - 1} : j \in 0 .. n - 1}
         \cup {{x \in Cells : x[1] = x[2]}, {x \in Cells : x[1] + x[2] = n - 1}}
HasLine(q) == \E line \in Lines : \A x \in line : board[x] = q
Count(q) == Cardinality({x \in Cells : board[x] = q})

OutcomeCorrect ==
    /\ TypeOK
    /\ \A q \in {PLAYER_ONE, PLAYER_TWO} : HasLine(q) <=> s = "END" /\ p = q
    /\ s = "DRAW" <=> isFull(board) /\ s # "END"
    /\ LET lastMover == IF s = "IN_PROGRESS" THEN changePlayer(p) ELSE p
       IN  Count(PLAYER_ONE) - Count(PLAYER_TWO)
               = IF lastMover = PLAYER_ONE THEN 1 ELSE 0

(* Line 102, "Player :" ... " turn now": the player named is the one whose *)
(* move will be accepted next.                                             *)
AnnouncesNextPlayer == announced # EMPTY => announced = p
=============================================================================
