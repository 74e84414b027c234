---------------------------- MODULE ZeroEvenOdd ----------------------------
(***************************************************************************)
(* Leetcode/PrintZeroEvenOdd.cpp: three threads print 0102030405...  Each  *)
(* holds the lock from one iteration to the next, except while it waits.   *)
(***************************************************************************)
EXTENDS Integers, Sequences

CONSTANT n

VARIABLES at, turn,
          i,          \* i[t]: the loop variable of thread t
          printed     \* the output so far

vars == <<at, turn, i, printed>>

Printers == {"zero", "even", "odd"}
M == INSTANCE Monitor WITH Threads <- Printers

Init == /\ M!MonitorInit
        /\ turn = 0
        /\ i = [zero |-> 0, even |-> 2, odd |-> 1]
        /\ printed = <<>>

-----------------------------------------------------------------------------
(* The loop conditions, the values of turn the threads wait for, and the   *)
(* values they leave.                                                      *)
More(t) == IF t = "zero" THEN i[t] < n ELSE i[t] <= n

Mine(t) == CASE t = "zero" -> turn = 0
             [] t = "even" -> turn = 1
             [] t = "odd"  -> turn = 2

Handover_Swapped(t) == IF t # "zero" THEN 0 ELSE IF i[t] % 2 = 0 THEN 1 ELSE 2
Handover(t) == IF t # "zero" THEN 0 ELSE IF i[t] % 2 = 0 THEN 2 ELSE 1

Lock(t) == M!Lock(t) /\ UNCHANGED <<turn, i, printed>>

Wait(t) == /\ More(t) /\ ~Mine(t)
           /\ M!Wait(t)
           /\ UNCHANGED <<turn, i, printed>>

Return(t) == /\ at[t] = "inside"
             /\ ~More(t)
             /\ at' = [at EXCEPT ![t] = "returned"]
             /\ UNCHANGED <<turn, i, printed>>

TakeTurn(t) == /\ at[t] = "inside"
               /\ More(t) /\ Mine(t)
               /\ printed' = Append(printed, IF t = "zero" THEN 0 ELSE i[t])
               /\ turn' = Handover(t)
               /\ i' = [i EXCEPT ![t] = @ + IF t = "zero" THEN 1 ELSE 2]
               /\ M!NotifyAllAndGo(t, "inside")

SpuriousWakeup(t) == M!SpuriousWakeup(t) /\ UNCHANGED <<turn, i, printed>>

Joined == M!AllReturned /\ UNCHANGED vars

Next == \/ \E t \in Printers : Lock(t) \/ Wait(t) \/ Return(t) \/ TakeTurn(t)
                                \/ SpuriousWakeup(t)
        \/ Joined

Spec == Init /\ [][Next]_vars

Proceed(t) == Wait(t) \/ Return(t) \/ TakeTurn(t)    \* fair, see Turns

-----------------------------------------------------------------------------
TypeOK == /\ M!MonitorTypeOK
          /\ turn \in {0, 1, 2}
          /\ i \in [Printers -> 0 .. n + 2] /\ i["zero"] <= n
          /\ printed \in Seq(0 .. n)

(* Line 10: the output is at all times a prefix of the series.             *)
SeriesInOrder ==
    /\ Len(printed) <= 2 * n
    /\ \A k \in 1 .. Len(printed) :
           printed[k] = IF k % 2 = 1 THEN 0 ELSE k \div 2

(* The whole series is printed and the three functions have returned:      *)
(* nobody waits for a turn that does not come.                             *)
Complete == M!AllReturned /\ Len(printed) = 2 * n
=============================================================================
