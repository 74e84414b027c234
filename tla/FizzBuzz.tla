------------------------------ MODULE FizzBuzz ------------------------------
(***************************************************************************)
(* Leetcode/FizzBuzzMultiThread.cpp: four threads print one sequence, each *)
(* the tokens of its own kind.  The lock is taken anew in every iteration, *)
(* so that the threads may overtake one another between two tokens.        *)
(***************************************************************************)
EXTENDS Integers, Sequences

CONSTANT n

VARIABLES at, i,
          printed     \* the output so far

vars == <<at, i, printed>>

Printers == {"fizz", "buzz", "fizzbuzz", "number"}
Word(t) == <<t>>                 \* what printFizz() and its like print
Number(k) == <<"number", k>>     \* and printNumber(k)
Output(t) == IF t = "number" THEN Number(i) ELSE Word(t)
M == INSTANCE Monitor WITH Threads <- Printers

Init == M!MonitorInit /\ i = 1 /\ printed = <<>>

-----------------------------------------------------------------------------
(* The predicates that the four functions wait for.                        *)
Mine(t) == CASE t = "fizz"     -> i % 3 = 0 /\ i % 5 # 0
             [] t = "buzz"     -> i % 5 = 0 /\ i % 3 # 0
             [] t = "fizzbuzz" -> i % 15 = 0
             [] t = "number"   -> i % 3 # 0 /\ i % 5 # 0

Lock(t) == M!Lock(t) /\ UNCHANGED <<i, printed>>

Wait(t) == /\ i <= n /\ ~Mine(t)
           /\ M!Wait(t)
           /\ UNCHANGED <<i, printed>>

Return(t) == /\ at[t] = "inside"
             /\ i > n
             /\ at' = [at EXCEPT ![t] = "returned"]
             /\ UNCHANGED <<i, printed>>

TakeTurn_NotifyOne(t) ==
    /\ at[t] = "inside"
    /\ i <= n /\ Mine(t)
    /\ printed' = Append(printed, Output(t))
    /\ i' = i + 1
    /\ \/ \E u \in Printers :
              /\ at[u] = "asleep"
              /\ at' = [at EXCEPT ![t] = "outside", ![u] = "contending"]
       \/ /\ \A u \in Printers : at[u] # "asleep"
          /\ at' = [at EXCEPT ![t] = "outside"]

(* The end of the loop body releases the lock.                             *)
TakeTurn(t) == /\ at[t] = "inside"
               /\ i <= n /\ Mine(t)
               /\ printed' = Append(printed, Output(t))
               /\ i' = i + 1
               /\ M!NotifyAllAndGo(t, "outside")

SpuriousWakeup(t) == M!SpuriousWakeup(t) /\ UNCHANGED <<i, printed>>

Joined == M!AllReturned /\ UNCHANGED vars

Next == \/ \E t \in Printers : Lock(t) \/ Wait(t) \/ Return(t) \/ TakeTurn(t)
                                \/ SpuriousWakeup(t)
        \/ Joined

Spec == Init /\ [][Next]_vars

Proceed(t) == Wait(t) \/ Return(t) \/ TakeTurn(t)    \* fair, see Turns

-----------------------------------------------------------------------------
TypeOK == /\ M!MonitorTypeOK
          /\ i \in 1 .. n + 1
          /\ printed \in Seq({Word(t) : t \in Printers} \cup {Number(k) : k \in 1 .. n})

(* Lines 14 to 19: the ith token.                                          *)
Token(k) == CASE k % 3 = 0 /\ k % 5 = 0 -> Word("fizzbuzz")
              [] k % 3 = 0 /\ k % 5 # 0 -> Word("fizz")
              [] k % 3 # 0 /\ k % 5 = 0 -> Word("buzz")
              [] OTHER                  -> Number(k)

(* The output is at all times a prefix of the series.                      *)
SeriesInOrder == printed = [k \in 1 .. i - 1 |-> Token(k)]

(* The whole series is printed and all four functions return, the three    *)
(* that have nothing left to print included.                               *)
Complete == M!AllReturned /\ Len(printed) = n
=============================================================================
