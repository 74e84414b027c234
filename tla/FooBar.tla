------------------------------- MODULE FooBar -------------------------------
(***************************************************************************)
(* Leetcode/PrintFooBar.cpp: two threads print foo and bar in turns.  Each *)
(* holds the lock from one iteration to the next, except while it waits.   *)
(***************************************************************************)
EXTENDS Integers, Sequences

CONSTANT n

VARIABLES at, next,
          i,          \* i[t]: the loop variable of thread t
          printed     \* the output so far

vars == <<at, next, i, printed>>

Printers == {"foo", "bar"}
M == INSTANCE Monitor WITH Threads <- Printers

Init == /\ M!MonitorInit
        /\ next = TRUE
        /\ i = [t \in Printers |-> 0]
        /\ printed = <<>>

-----------------------------------------------------------------------------
Lock(t) == M!Lock(t) /\ UNCHANGED <<next, i, printed>>

Mine(t) == next = (t = "foo")

Wait(t) == /\ i[t] < n /\ ~Mine(t)
           /\ M!Wait(t)
           /\ UNCHANGED <<next, i, printed>>

Return(t) == /\ at[t] = "inside"
             /\ i[t] = n
             /\ at' = [at EXCEPT ![t] = "returned"]
             /\ UNCHANGED <<next, i, printed>>

TakeTurn(t) == /\ at[t] = "inside"
               /\ i[t] < n /\ Mine(t)
               /\ printed' = Append(printed, t)
               /\ next' = (t # "foo")
               /\ i' = [i EXCEPT ![t] = @ + 1]
               /\ M!NotifyAllAndGo(t, "inside")

SpuriousWakeup(t) == M!SpuriousWakeup(t) /\ UNCHANGED <<next, i, printed>>

Joined == M!AllReturned /\ UNCHANGED vars

Next == \/ \E t \in Printers : Lock(t) \/ Wait(t) \/ Return(t) \/ TakeTurn(t)
                                \/ SpuriousWakeup(t)
        \/ Joined

Spec == Init /\ [][Next]_vars

Proceed(t) == Wait(t) \/ Return(t) \/ TakeTurn(t)    \* fair, see Turns

-----------------------------------------------------------------------------
TypeOK == /\ M!MonitorTypeOK
          /\ next \in BOOLEAN
          /\ i \in [Printers -> 0 .. n]
          /\ printed \in Seq(Printers)

(* Line 22: the output is at all times a prefix of foobar, n times.        *)
Alternates == /\ Len(printed) = i["foo"] + i["bar"]
              /\ \A k \in 1 .. Len(printed) :
                     printed[k] = IF k % 2 = 1 THEN "foo" ELSE "bar"

(* Both threads print all their words and return.                          *)
Complete == M!AllReturned /\ Len(printed) = 2 * n
=============================================================================
