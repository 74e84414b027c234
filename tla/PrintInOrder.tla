---------------------------- MODULE PrintInOrder ----------------------------
(***************************************************************************)
(* Leetcode/PrintInOrder.cpp: three threads, each of which prints its word *)
(* once, in the order first, second, third.                                *)
(***************************************************************************)
EXTENDS Integers, Sequences

VARIABLES at, order,
          printed     \* the output so far

vars == <<at, order, printed>>

Words == <<"first", "second", "third">>
Printers == {"first", "second", "third"}
M == INSTANCE Monitor WITH Threads <- Printers

Init == M!MonitorInit /\ order = 0 /\ printed = <<>>

-----------------------------------------------------------------------------
Mine(t) == CASE t = "first"  -> TRUE
             [] t = "second" -> order >= 1
             [] t = "third"  -> order >= 2

Lock(t) == M!Lock(t) /\ UNCHANGED <<order, printed>>

Wait(t) == ~Mine(t) /\ M!Wait(t) /\ UNCHANGED <<order, printed>>

(* first and second pass the order on; third is the last and does not.     *)
TakeTurn(t) == /\ at[t] = "inside" /\ Mine(t)
               /\ printed' = Append(printed, t)
               /\ IF t = "third"
                  THEN at' = [at EXCEPT ![t] = "returned"] /\ UNCHANGED order
                  ELSE /\ order' = IF t = "first" THEN 1 ELSE 2
                       /\ M!NotifyAllAndGo(t, "returned")

SpuriousWakeup(t) == M!SpuriousWakeup(t) /\ UNCHANGED <<order, printed>>

Joined == M!AllReturned /\ UNCHANGED vars

Next == \/ \E t \in Printers : Lock(t) \/ Wait(t) \/ TakeTurn(t) \/ SpuriousWakeup(t)
        \/ Joined

Spec == Init /\ [][Next]_vars

Proceed(t) == Wait(t) \/ TakeTurn(t)    \* fair, see Turns

-----------------------------------------------------------------------------
TypeOK == /\ M!MonitorTypeOK
          /\ order \in 0 .. 2
          /\ printed \in Seq(Printers)

(* Line 9: second after first, third after second, however the threads are *)
(* scheduled.                                                              *)
WordsInOrder == printed = SubSeq(Words, 1, Len(printed))

(* All three words are printed.                                            *)
Complete == M!AllReturned /\ Len(printed) = 3
=============================================================================
