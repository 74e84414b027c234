------------------------------ MODULE CondVar ------------------------------
(***************************************************************************)
(* The part of std::condition_variable and of Java's object monitors that  *)
(* this code relies on.  A condition variable is the set W of the threads  *)
(* that sleep in it.  Every critical section of the modelled classes holds *)
(* its one mutex from its first read to its return or its next wait, so a  *)
(* section is one step, and a thread that leaves W competes for the mutex  *)
(* like any other.                                                         *)
(***************************************************************************)

(* The wait sets notify_one may leave: it wakes one sleeper, any of them,  *)
(* and is lost when nobody sleeps.                                         *)
NotifyOne(W) == IF W = {} THEN {W} ELSE {W \ {t} : t \in W}

(* notify_all and notifyAll empty the wait set.                            *)
NotifyAll(W) == {}
=============================================================================
