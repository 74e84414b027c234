------------------------------ MODULE Monitor ------------------------------
(***************************************************************************)
(* One std::mutex and one condition_variable, for the classes that keep    *)
(* the mutex from one iteration of a loop to the next: where every thread  *)
(* is with respect to the two.                                             *)
(***************************************************************************)
CONSTANT Threads
VARIABLE at   \* at[t]: "outside", "inside" (t holds the mutex), "asleep",
              \* "contending" (woken, without the mutex) or "returned"

MonitorTypeOK ==
    /\ at \in [Threads -> {"outside", "inside", "asleep", "contending", "returned"}]
    /\ \A t, u \in Threads : at[t] = "inside" /\ at[u] = "inside" => t = u

MonitorInit == at = [t \in Threads |-> "outside"]

(* The constructor of unique_lock, or the end of a wait.                   *)
Lock(t) == /\ at[t] \in {"outside", "contending"}
           /\ \A u \in Threads : at[u] # "inside"
           /\ at' = [at EXCEPT ![t] = "inside"]

Wait(t) == /\ at[t] = "inside"
           /\ at' = [at EXCEPT ![t] = "asleep"]

SpuriousWakeup(t) == /\ at[t] = "asleep"
                     /\ at' = [at EXCEPT ![t] = "contending"]

(* cv.notify_all(), after which the caller t is at p.                      *)
NotifyAllAndGo(t, p) ==
    at' = [u \in Threads |-> IF u = t THEN p
                             ELSE IF at[u] = "asleep" THEN "contending" ELSE at[u]]

AllReturned == \A t \in Threads : at[t] = "returned"
=============================================================================
