------------------------- MODULE ProducerConsumer -------------------------
(***************************************************************************)
(* Microsoft/ProducerConsumer.cpp: the bounded buffer built on two         *)
(* counting semaphores and a mutex.  A call is two steps: acquiring the    *)
(* semaphore, and the critical section, which also releases the other      *)
(* semaphore.  Any number of threads may stand between the two.            *)
(***************************************************************************)
EXTENDS Naturals, Sequences, FiniteSets

CONSTANTS Producers, Consumers, Capacity,
          Adds,   \* Adds[p]: how many items producer p produces
          Takes   \* Takes[c]: how many items consumer c consumes

BufferAssumption ==
    /\ IsFiniteSet(Producers) /\ IsFiniteSet(Consumers)
    /\ Producers \cap Consumers = {}
    /\ Capacity \in Nat \ {0}
    /\ Adds \in [Producers -> Nat] /\ Takes \in [Consumers -> Nat]

VARIABLES buffer,      \* front first
          emptySlots,  \* the semaphores' counters
          fullSlots,
          producing,   \* producers past emptySlots.acquire()
          consuming,   \* consumers past fullSlots.acquire()
          added,       \* added[p]: items p has pushed
          taken        \* history: what consume popped for whom, in order

vars == <<buffer, emptySlots, fullSlots, producing, consuming, added, taken>>

Jobs == UNION {{p} \X (1 .. Adds[p]) : p \in Producers}
TakenBy(c) == Cardinality({i \in DOMAIN taken : taken[i].to = c})

Init == /\ buffer = <<>>
        /\ emptySlots = Capacity /\ fullSlots = 0
        /\ producing = {} /\ consuming = {}
        /\ added = [p \in Producers |-> 0]
        /\ taken = <<>>

-----------------------------------------------------------------------------
AcquireEmptySlot(p) == /\ p \notin producing /\ added[p] < Adds[p]
                       /\ emptySlots > 0
                       /\ emptySlots' = emptySlots - 1
                       /\ producing' = producing \cup {p}
                       /\ UNCHANGED <<buffer, fullSlots, consuming, added, taken>>

(* The wrong semaphore is released.                                        *)
Produce_ReleaseEmpty(p) == /\ p \in producing
                           /\ buffer' = Append(buffer, <<p, added[p] + 1>>)
                           /\ added' = [added EXCEPT ![p] = @ + 1]
                           /\ emptySlots' = emptySlots + 1
                           /\ producing' = producing \ {p}
                           /\ UNCHANGED <<fullSlots, consuming, taken>>

Produce(p) == /\ p \in producing
              /\ buffer' = Append(buffer, <<p, added[p] + 1>>)
              /\ added' = [added EXCEPT ![p] = @ + 1]
              /\ fullSlots' = fullSlots + 1
              /\ producing' = producing \ {p}
              /\ UNCHANGED <<emptySlots, consuming, taken>>

AcquireFullSlot(c) == /\ c \notin consuming /\ TakenBy(c) < Takes[c]
                      /\ fullSlots > 0
                      /\ fullSlots' = fullSlots - 1
                      /\ consuming' = consuming \cup {c}
                      /\ UNCHANGED <<buffer, emptySlots, producing, added, taken>>

Consume_Back(c) == /\ c \in consuming
                   /\ taken' = Append(taken, [to |-> c, job |-> buffer[Len(buffer)]])
                   /\ buffer' = SubSeq(buffer, 1, Len(buffer) - 1)
                   /\ emptySlots' = emptySlots + 1
                   /\ consuming' = consuming \ {c}
                   /\ UNCHANGED <<fullSlots, producing, added>>

(* front and pop of an empty std::queue are undefined: there is no check   *)
(* here, SlotsConserved says why none is needed.                           *)
Consume(c) == /\ c \in consuming
              /\ taken' = Append(taken, [to |-> c, job |-> Head(buffer)])
              /\ buffer' = Tail(buffer)
              /\ emptySlots' = emptySlots + 1
              /\ consuming' = consuming \ {c}
              /\ UNCHANGED <<fullSlots, producing, added>>

AllReturned == /\ \A p \in Producers : added[p] = Adds[p]
               /\ \A c \in Consumers : TakenBy(c) = Takes[c]
Joined == AllReturned /\ UNCHANGED vars

Next == \/ \E p \in Producers : AcquireEmptySlot(p) \/ Produce(p)
        \/ \E c \in Consumers : AcquireFullSlot(c) \/ Consume(c)
        \/ Joined

Spec == Init /\ [][Next]_vars

(* A semaphore with a permit lets some waiter in; with finitely many calls *)
(* weak fairness of each thread's Proceed is enough.                       *)
Proceed(t) == IF t \in Producers THEN AcquireEmptySlot(t) \/ Produce(t)
                                  ELSE AcquireFullSlot(t) \/ Consume(t)

-----------------------------------------------------------------------------
TypeOK == /\ buffer \in Seq(Jobs)
          /\ emptySlots \in 0 .. Capacity
          /\ fullSlots \in 0 .. Capacity
          /\ producing \subseteq Producers
          /\ consuming \subseteq Consumers
          /\ added \in [Producers -> Nat]
          /\ taken \in Seq([to : Consumers, job : Jobs])

(* Every slot of the capacity is accounted for: it is free, reserved by a  *)
(* producer, or holds an item; and every item is either announced by       *)
(* fullSlots or reserved by a consumer.  So a consumer in its critical     *)
(* section never finds the buffer empty, and the buffer never overflows.   *)
SlotsConserved ==
    /\ TypeOK
    /\ emptySlots + Cardinality(producing) + Len(buffer) = Capacity
    /\ Len(buffer) = fullSlots + Cardinality(consuming)

(* "no lost items, no duplicates": the buffer implements the FIFO channel. *)
Delivered == [i \in DOMAIN taken |-> taken[i].job]
Channel == INSTANCE FifoChannel WITH Messages <- Jobs,
                                     sent <- Delivered \o buffer,
                                     rcvd <- Delivered
ChannelSpec == Channel!Spec

(* When as many items are produced as consumed, every call returns.        *)
Termination == <>AllReturned
=============================================================================
