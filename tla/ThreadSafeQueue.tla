-------------------------- MODULE ThreadSafeQueue --------------------------
(***************************************************************************)
(* ThreadSafeQueue.cpp: a bounded blocking queue with one mutex and two    *)
(* condition variables.  add and take are called by any number of threads, *)
(* as main does with one thread of each kind.  A critical section is one   *)
(* step (see CondVar): a thread that finds the queue full or empty goes to *)
(* sleep, any other completes its call and notifies ONE sleeper of the     *)
(* opposite kind.  Sleepers may also wake spuriously.                      *)
(***************************************************************************)
EXTENDS Naturals, Sequences, FiniteSets, CondVar

CONSTANTS Producers,  \* threads that call add
          Consumers,  \* threads that call take
          Capacity,   \* the constructor's cap
          Adds,       \* Adds[p]: how many jobs producer p adds
          Takes       \* Takes[c]: how many jobs consumer c takes

QueueAssumption ==
    /\ IsFiniteSet(Producers) /\ IsFiniteSet(Consumers)
    /\ Producers \cap Consumers = {}
    /\ Capacity \in Nat \ {0}            \* the constructor throws otherwise
    /\ Adds \in [Producers -> Nat]
    /\ Takes \in [Consumers -> Nat]

VARIABLES q,         \* the queue, front first
          notFull,   \* producers asleep in notFull
          notEmpty,  \* consumers asleep in notEmpty
          awake,     \* threads whose wait has ended, before they re-lock mtx
          added,     \* added[p]: calls of add that p has completed
          taken      \* history: what take returned to whom, in order

vars == <<q, notFull, notEmpty, awake, added, taken>>

Threads == Producers \cup Consumers
Jobs == UNION {{p} \X (1 .. Adds[p]) : p \in Producers}   \* <<p, n>>: job n of p
Deliveries == [to : Consumers, job : Jobs]
TakenBy(c) == Cardinality({i \in DOMAIN taken : taken[i].to = c})

Init == /\ q = <<>>
        /\ notFull = {} /\ notEmpty = {} /\ awake = {}
        /\ added = [p \in Producers |-> 0]
        /\ taken = <<>>

-----------------------------------------------------------------------------
Full == Len(q) >= Capacity

Adding(p) == p \notin notFull /\ added[p] < Adds[p]
Taking(c) == c \notin notEmpty /\ TakenBy(c) < Takes[c]

(* add finds the queue full and sleeps.                                    *)
AddWaits(p) == /\ Adding(p)
               /\ Full
               /\ notFull' = notFull \cup {p}
               /\ awake' = awake \ {p}
               /\ UNCHANGED <<q, notEmpty, added, taken>>

(* add pushes its job and wakes one consumer.                              *)
Add(p) == /\ Adding(p)
          /\ ~Full
          /\ q' = Append(q, <<p, added[p] + 1>>)
          /\ added' = [added EXCEPT ![p] = @ + 1]
          /\ notEmpty' \in NotifyOne(notEmpty)
          /\ awake' = (awake \ {p}) \cup (notEmpty \ notEmpty')
          /\ UNCHANGED <<notFull, taken>>

(* take finds the queue empty and sleeps.                                  *)
TakeWaits(c) == /\ Taking(c)
                /\ q = <<>>
                /\ notEmpty' = notEmpty \cup {c}
                /\ awake' = awake \ {c}
                /\ UNCHANGED <<q, notFull, added, taken>>

(* A definition whose name has a suffix, like this one, is a mutant: a     *)
(* plausible bug that replaces the definition named before the underscore. *)
(* Here take notifies only on the transition from full, a tempting saving. *)
Take_NotifyIfFull(c) ==
    /\ Taking(c)
    /\ q # <<>>
    /\ taken' = Append(taken, [to |-> c, job |-> Head(q)])
    /\ q' = Tail(q)
    /\ notFull' \in IF Full THEN NotifyOne(notFull) ELSE {notFull}
    /\ awake' = (awake \ {c}) \cup (notFull \ notFull')
    /\ UNCHANGED <<notEmpty, added>>

(* take pops the front and wakes one producer.                             *)
Take(c) == /\ Taking(c)
           /\ q # <<>>
           /\ taken' = Append(taken, [to |-> c, job |-> Head(q)])
           /\ q' = Tail(q)
           /\ notFull' \in NotifyOne(notFull)
           /\ awake' = (awake \ {c}) \cup (notFull \ notFull')
           /\ UNCHANGED <<notEmpty, added>>

(* A wait may end without a notification.                                  *)
SpuriousWakeup(t) == /\ t \in notFull \cup notEmpty
                     /\ notFull' = notFull \ {t}
                     /\ notEmpty' = notEmpty \ {t}
                     /\ awake' = awake \cup {t}
                     /\ UNCHANGED <<q, added, taken>>

(* Every call has returned and the threads are joined.                     *)
AllReturned == /\ \A p \in Producers : added[p] = Adds[p]
               /\ \A c \in Consumers : TakenBy(c) = Takes[c]
Joined == AllReturned /\ UNCHANGED vars

Next == \/ \E p \in Producers : AddWaits(p) \/ Add(p)
        \/ \E c \in Consumers : TakeWaits(c) \/ Take(c)
        \/ \E t \in Threads : SpuriousWakeup(t)
        \/ Joined

Spec == Init /\ [][Next]_vars

(* A runnable thread eventually gets the mutex: weak fairness of its       *)
(* Proceed.  Nothing is assumed of spurious wakeups, which nobody may      *)
(* count on.                                                               *)
Proceed(t) == IF t \in Producers THEN AddWaits(t) \/ Add(t)
                                  ELSE TakeWaits(t) \/ Take(t)

-----------------------------------------------------------------------------
(* Types, and the queue never exceeds its capacity.                        *)
TypeOK == /\ q \in Seq(Jobs) /\ Len(q) <= Capacity
          /\ notFull \subseteq Producers
          /\ notEmpty \subseteq Consumers
          /\ awake \subseteq Threads \ (notFull \cup notEmpty)
          /\ added \in [Producers -> Nat]
          /\ taken \in Seq(Deliveries)

(* No lost wakeup.  One notification per call is enough: while a consumer  *)
(* sleeps, every job in the queue has a consumer of its own on its way to  *)
(* the mutex, and while a producer sleeps so has every free slot.          *)
NoLostWakeup ==
    /\ TypeOK
    /\ notEmpty # {} => Len(q) <= Cardinality(awake \cap Consumers)
    /\ notFull # {} => Capacity - Len(q) <= Cardinality(awake \cap Producers)
=============================================================================
