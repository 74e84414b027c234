------------------------------ MODULE Designs ------------------------------
(***************************************************************************)
(* The object-oriented designs, sequential programs driven by calls from   *)
(* outside, in one state space: the initial state chooses the program that *)
(* runs, and the variables of the others never change.                     *)
(***************************************************************************)
EXTENDS Integers, FiniteSets

CONSTANTS Compartments, Sizes, SizeOf, Codes, Packages, Ttl, Nothing,
          rows, cols, Aligned, n,
          Spots, Vehicles, VehicleType, Addresses, nullptr,
          Names, Contents, MaxDepth, MaxHeap, MaxContent, NoFile,
          Size, MaxPieces, Empty

VARIABLES program,
          occupied, tokensMap, inside, told, gone,       \* of AmazonLocker
          board, currentPlayer, state, winner,           \* of ConnectFour
          marks, mover, status, announced,               \* of TicTacToe
          isFree, spotIndex, ticket,                     \* of ParkingLot
          heap, result,                                  \* of FileSystem
          grid, currentPlayerColor, asked, validMoves    \* of Chess

locker == <<occupied, tokensMap, inside, told, gone>>
four == <<board, currentPlayer, state, winner>>
ttt == <<marks, mover, status, announced>>
lot == <<isFree, spotIndex, ticket>>
files == <<heap, result>>
chess == <<grid, currentPlayerColor, asked, validMoves>>
vars == <<program, locker, four, ttt, lot, files, chess>>

Locker == INSTANCE AmazonLocker
Four == INSTANCE ConnectFour
Three == INSTANCE TicTacToe WITH board <- marks, p <- mover, s <- status
Lot == INSTANCE ParkingLot
FS == INSTANCE FileSystem
Pieces == INSTANCE Chess

ASSUME DesignsAssumption == /\ Locker!LockerAssumption
                            /\ Four!BoardAssumption
                            /\ Three!BoardAssumption
                            /\ Lot!LotAssumption
                            /\ FS!FileSystemAssumption
                            /\ Pieces!ChessAssumption

(* One board will do for the programs that do not look at it.              *)
NoBoard == grid = [x \in Pieces!Positions |-> Empty] /\ currentPlayerColor = "WHITE"

Init == /\ program \in {"AmazonLocker", "ConnectFour", "TicTacToe", "ParkingLot",
                        "FileSystem", "Chess"}
        /\ Locker!Init /\ Four!Init /\ Three!Init /\ Lot!Init /\ FS!Init
        /\ IF program = "Chess" THEN Pieces!Init
           ELSE NoBoard /\ asked = Empty /\ validMoves = {}

Runs(p) == program = p /\ UNCHANGED program
RunsLocker == Runs("AmazonLocker") /\ UNCHANGED <<four, ttt, lot, files, chess>>
RunsFour == Runs("ConnectFour") /\ UNCHANGED <<locker, ttt, lot, files, chess>>
RunsThree == Runs("TicTacToe") /\ UNCHANGED <<locker, four, lot, files, chess>>
RunsLot == Runs("ParkingLot") /\ UNCHANGED <<locker, four, ttt, files, chess>>
RunsFiles == Runs("FileSystem") /\ UNCHANGED <<locker, four, ttt, lot, chess>>
RunsPieces == Runs("Chess") /\ UNCHANGED <<locker, four, ttt, lot, files>>

Next == \/ RunsLocker /\ Locker!Next
        \/ RunsFour /\ Four!Next
        \/ RunsThree /\ Three!Next
        \/ RunsLot /\ Lot!Next
        \/ RunsFiles /\ FS!Next
        \/ RunsPieces /\ Pieces!Next

(* The staff of the locker clear what has expired; customers need not      *)
(* come, and nobody has to make a move.                                    *)
Spec == /\ Init /\ [][Next]_vars
        /\ WF_vars(RunsLocker /\ Locker!Tick)
        /\ \A code \in Codes :
               WF_vars(RunsLocker /\ Locker!removeExpiredPackage(code))

-----------------------------------------------------------------------------
(* The locker loses no package and opens no wrong compartment; a customer  *)
(* has a code that works unless it was drawn a second time.                *)
LockerSound == program = "AmazonLocker" => Locker!LockerSound

(* Line 10, one access token per package, whatever the generator draws;    *)
(* the code does not compare a new code with those in use.                 *)
OneTokenPerPackage == program = "AmazonLocker" => Locker!OneTokenPerPackage

(* Expired packages leave their compartments if the staff remove them.     *)
CompartmentsComeFree == program = "AmazonLocker" => Locker!CompartmentsComeFree

(* The players move in turns, no disc hangs in the air, and the search     *)
(* around the last move finds every win and no other, in both games.       *)
OutcomeCorrect == /\ program = "ConnectFour" => Four!OutcomeCorrect
                  /\ program = "TicTacToe" => Three!OutcomeCorrect

(* The message after a move names the player whose turn it is.             *)
AnnouncesNextPlayer == program = "TicTacToe" => Three!AnnouncesNextPlayer

(* No spot is given to two vehicles, and none is lost.                     *)
LotSound == program = "ParkingLot" => Lot!LotSound

(* The objects on the heap implement a tree of directories and files.      *)
TreeSpec == FS!TreeSpec

(* The rook's and the knight's moves are those of chess.                   *)
MovesCorrect == program = "Chess" => Pieces!MovesCorrect

-----------------------------------------------------------------------------
(* OOP/Rectangle.cpp has no state: rectangles by two corners, (x1, y1)     *)
(* bottom left and (x2, y2) top right, whose border belongs to them.  The  *)
(* constructor does not check that the corners are in this order.          *)
Rectangles == [x1 : Int, y1 : Int, x2 : Int, y2 : Int]
Proper(a) == a.x1 <= a.x2 /\ a.y1 <= a.y2

contains(a, r) == /\ a.x1 <= r.x1 /\ a.y1 <= r.y1
                  /\ a.x2 >= r.x2 /\ a.y2 >= r.y2

overlaps(a, r) == ~(\/ r.x2 < a.x1 \/ r.y2 < a.y1
                    \/ a.x2 < r.x1 \/ a.y2 < r.y1)

Points == Int \X Int
Within(q, a) == /\ a.x1 <= q[1] /\ q[1] <= a.x2
                /\ a.y1 <= q[2] /\ q[2] <= a.y2
=============================================================================
