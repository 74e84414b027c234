------------------------ MODULE ConcurrentJobQueue ------------------------
(***************************************************************************)
(* Java/ConcurrentJobQueue.java: the bounded queue built on one object     *)
(* monitor.  Producers and consumers sleep in the same wait set and every  *)
(* add and take calls notifyAll.  A synchronized method is one step up to  *)
(* its wait or its return.  A thread may be interrupted in its wait; the   *)
(* InterruptedException leaves the method without touching the queue and,  *)
(* in main, ends the thread's loop.                                        *)
(***************************************************************************)
EXTENDS Naturals, Sequences, FiniteSets, CondVar

CONSTANTS Producers, Consumers, Capacity,
          Adds,          \* Adds[p]: how many jobs producer p adds
          Takes,         \* Takes[c]: how many jobs consumer c takes
          Interruptible  \* threads that somebody may interrupt

JobQueueAssumption ==
    /\ IsFiniteSet(Producers) /\ IsFiniteSet(Consumers)
    /\ Producers \cap Consumers = {}
    /\ Capacity \in Nat \ {0}
    /\ Adds \in [Producers -> Nat] /\ Takes \in [Consumers -> Nat]
    /\ Interruptible \subseteq Producers \cup Consumers

VARIABLES queue,    \* front first
          waiting,  \* the monitor's wait set
          ended,    \* threads whose loop an InterruptedException has ended
          added,    \* added[p]: calls of add that p has completed
          taken     \* history: what take returned to whom, in order

vars == <<queue, waiting, ended, added, taken>>

Threads == Producers \cup Consumers
Jobs == UNION {{p} \X (1 .. Adds[p]) : p \in Producers}
TakenBy(c) == Cardinality({i \in DOMAIN taken : taken[i].to = c})

Init == /\ queue = <<>>
        /\ waiting = {} /\ ended = {}
        /\ added = [p \in Producers |-> 0]
        /\ taken = <<>>

-----------------------------------------------------------------------------
Adding(p) == p \notin waiting \cup ended /\ added[p] < Adds[p]
Taking(c) == c \notin waiting \cup ended /\ TakenBy(c) < Takes[c]

AddWaits(p) == /\ Adding(p)
               /\ Len(queue) = Capacity
               /\ waiting' = waiting \cup {p}
               /\ UNCHANGED <<queue, ended, added, taken>>

(* notify in place of notifyAll: the one thread it wakes may be another    *)
(* producer.                                                               *)
Add_NotifyOne(p) == /\ Adding(p)
                    /\ Len(queue) # Capacity
                    /\ queue' = Append(queue, <<p, added[p] + 1>>)
                    /\ added' = [added EXCEPT ![p] = @ + 1]
                    /\ waiting' \in NotifyOne(waiting)
                    /\ UNCHANGED <<ended, taken>>

Add(p) == /\ Adding(p)
          /\ Len(queue) # Capacity
          /\ queue' = Append(queue, <<p, added[p] + 1>>)
          /\ added' = [added EXCEPT ![p] = @ + 1]
          /\ waiting' = NotifyAll(waiting)
          /\ UNCHANGED <<ended, taken>>

TakeWaits(c) == /\ Taking(c)
                /\ queue = <<>>
                /\ waiting' = waiting \cup {c}
                /\ UNCHANGED <<queue, ended, added, taken>>

Take(c) == /\ Taking(c)
           /\ queue # <<>>
           /\ taken' = Append(taken, [to |-> c, job |-> Head(queue)])
           /\ queue' = Tail(queue)
           /\ waiting' = NotifyAll(waiting)
           /\ UNCHANGED <<ended, added>>

(* A wait may end without a notification.                                  *)
SpuriousWakeup(t) == /\ t \in waiting
                     /\ waiting' = waiting \ {t}
                     /\ UNCHANGED <<queue, ended, added, taken>>

(* wait throws InterruptedException and the thread's loop ends.            *)
Interrupt(t) == /\ t \in waiting \cap Interruptible
                /\ waiting' = waiting \ {t}
                /\ ended' = ended \cup {t}
                /\ UNCHANGED <<queue, added, taken>>

AllReturned == /\ \A p \in Producers \ ended : added[p] = Adds[p]
               /\ \A c \in Consumers \ ended : TakenBy(c) = Takes[c]
Joined == AllReturned /\ UNCHANGED vars

Next == \/ \E p \in Producers : AddWaits(p) \/ Add(p)
        \/ \E c \in Consumers : TakeWaits(c) \/ Take(c)
        \/ \E t \in Threads : SpuriousWakeup(t) \/ Interrupt(t)
        \/ Joined

Spec == Init /\ [][Next]_vars

(* A runnable thread eventually enters the monitor: weak fairness of its   *)
(* Proceed.  Nothing is assumed of spurious wakeups and interrupts.        *)
Proceed(t) == IF t \in Producers THEN AddWaits(t) \/ Add(t)
                                  ELSE TakeWaits(t) \/ Take(t)

-----------------------------------------------------------------------------
TypeOK == /\ queue \in Seq(Jobs) /\ Len(queue) <= Capacity
          /\ waiting \subseteq Threads \ ended
          /\ ended \subseteq Interruptible
          /\ added \in [Producers -> Nat]
          /\ taken \in Seq([to : Consumers, job : Jobs])

(* No thread is left asleep although it could go on: with the single wait  *)
(* set, a sleeping consumer means an empty queue and a sleeping producer a *)
(* full one, so the two kinds never sleep together, whoever was woken or   *)
(* interrupted before.                                                     *)
NoSleeperLeftBehind ==
    /\ TypeOK
    /\ waiting \cap Consumers # {} => queue = <<>>
    /\ waiting \cap Producers # {} => Len(queue) = Capacity

(* The queue implements the bounded FIFO channel, interrupts included: an  *)
(* abandoned call neither adds nor consumes a job.  Channels states this,  *)
(* and Termination, of the other two queues as well.                       *)
Delivered == [i \in DOMAIN taken |-> taken[i].job]
Channel == INSTANCE FifoChannel WITH Messages <- Jobs,
                                     sent <- Delivered \o queue,
                                     rcvd <- Delivered
ChannelSpec == Channel!Spec

(* When as many jobs are added as taken and nobody is interrupted, every   *)
(* call returns.                                                           *)
Termination == [](ended = {}) => <>AllReturned
=============================================================================
