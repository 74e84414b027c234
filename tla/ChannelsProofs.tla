--------------------------- MODULE ChannelsProofs ---------------------------
(***************************************************************************)
(* For any threads, capacities, batches and numbers of calls: nobody       *)
(* sleeps who could go on, the semaphores account for every slot, the      *)
(* logger loses no message, and all four programs are FIFO channels.       *)
(***************************************************************************)
EXTENDS Channels, FiniteSetTheorems, SequenceTheorems, TLAPS

-----------------------------------------------------------------------------
(* What the assumptions say of each program.                               *)
LEMMA Constants ==
    /\ Queue!QueueAssumption /\ JobQueue!JobQueueAssumption
    /\ PC!BufferAssumption /\ Logger!LoggerAssumption
BY ChannelsAssumption

(* A producer that may add has a job of its own to add.                    *)
LEMMA NextJob ==
    ASSUME added \in [Producers -> Nat], NEW p \in Producers, added[p] < Adds[p]
    PROVE  <<p, added[p] + 1>> \in JobQueue!Jobs
<1>1. added[p] \in Nat /\ Adds[p] \in Nat
  BY Constants DEF JobQueue!JobQueueAssumption
<1>2. added[p] + 1 \in 1 .. Adds[p]
  BY <1>1
<1> QED BY <1>2 DEF JobQueue!Jobs

(* All bounded queues carry the same jobs.                                 *)
LEMMA SameJobs == PC!Jobs = JobQueue!Jobs /\ Queue!Jobs = JobQueue!Jobs
BY DEF PC!Jobs, JobQueue!Jobs, Queue!Jobs

(* Instances see the operators of FiniteSets under names of their own.     *)
LEMMA SameCardinality ==
    \A S : /\ PC!Cardinality(S) = Cardinality(S)
           /\ Queue!Cardinality(S) = Cardinality(S)
BY DEF PC!Cardinality, Queue!Cardinality, Cardinality

(* There are finitely many threads of each kind.                           *)
LEMMA FiniteThreads == IsFiniteSet(Producers) /\ IsFiniteSet(Consumers)
BY Constants DEF PC!BufferAssumption, PC!IsFiniteSet, IsFiniteSet

-----------------------------------------------------------------------------
(* ThreadSafeQueue.  What notify_one leaves of a wait set, and whom it    *)
(* wakes.                                                                  *)
LEMMA NotifyOneWakes ==
    ASSUME NEW W, NEW V \in Queue!NotifyOne(W)
    PROVE  \/ W = {} /\ V = {} /\ W \ V = {}
           \/ \E t \in W : V = W \ {t} /\ W \ V = {t}
<1>1. CASE W = {}
  BY <1>1 DEF Queue!NotifyOne
<1>2. CASE W # {}
  <2>1. PICK t \in W : V = W \ {t}
    BY <1>2 DEF Queue!NotifyOne
  <2> QED BY <2>1
<1> QED BY <1>1, <1>2

(* Types, and the capacity bound, for the code of add and take.            *)
LEMMA QueueTypesStep ==
    ASSUME Queue!TypeOK, Queue!Next
    PROVE  Queue!TypeOK'
<1>0. /\ Producers \cap Consumers = {} /\ Capacity \in Nat \ {0}
      /\ added \in [Producers -> Nat]
  BY Constants DEF Queue!QueueAssumption, Queue!TypeOK
<1> USE <1>0 DEF Queue!Threads
<1>1. ASSUME NEW p \in Producers, Queue!AddWaits(p)
      PROVE  Queue!TypeOK'
  BY <1>1 DEF Queue!AddWaits, Queue!Adding, Queue!TypeOK
<1>2. ASSUME NEW p \in Producers, Queue!Add(p)
      PROVE  Queue!TypeOK'
  <2>1. <<p, added[p] + 1>> \in Queue!Jobs
    BY <1>2, NextJob, SameJobs DEF Queue!Add, Queue!Adding
  <2>2. queue' \in Seq(Queue!Jobs) /\ Len(queue') <= Capacity
    BY <1>2, <2>1 DEF Queue!Add, Queue!Full, Queue!TypeOK
  <2>3. notEmpty' \subseteq notEmpty
    BY <1>2, NotifyOneWakes DEF Queue!Add
  <2>4. added' \in [Producers -> Nat]
    BY <1>2 DEF Queue!Add, Queue!TypeOK
  <2> QED BY <1>2, <2>2, <2>3, <2>4 DEF Queue!Add, Queue!Adding, Queue!TypeOK
<1>3. ASSUME NEW c \in Consumers, Queue!TakeWaits(c)
      PROVE  Queue!TypeOK'
  BY <1>3 DEF Queue!TakeWaits, Queue!Taking, Queue!TypeOK
<1>4. ASSUME NEW c \in Consumers, Queue!Take(c)
      PROVE  Queue!TypeOK'
  <2>1. /\ Head(queue) \in Queue!Jobs
        /\ queue' \in Seq(Queue!Jobs) /\ Len(queue') <= Capacity
    BY <1>4, HeadTailProperties DEF Queue!Take, Queue!TypeOK
  <2>2. taken' \in Seq(Queue!Deliveries)
    BY <1>4, <2>1 DEF Queue!Take, Queue!TypeOK, Queue!Deliveries
  <2>3. notFull' \subseteq notFull
    BY <1>4, NotifyOneWakes DEF Queue!Take
  <2> QED BY <1>4, <2>1, <2>2, <2>3 DEF Queue!Take, Queue!Taking, Queue!TypeOK
<1>5. ASSUME NEW t \in Queue!Threads, Queue!SpuriousWakeup(t)
      PROVE  Queue!TypeOK'
  BY <1>5 DEF Queue!SpuriousWakeup, Queue!TypeOK
<1>6. CASE UNCHANGED Queue!vars
  BY <1>6 DEF Queue!vars, Queue!TypeOK
<1> QED BY <1>1, <1>2, <1>3, <1>4, <1>5, <1>6 DEF Queue!Next, Queue!Joined

(* The two halves of NoLostWakeup, for sleeping consumers and producers.   *)
JobsClaimed ==
    notEmpty # {} => Len(queue) <= Queue!Cardinality(awake \cap Consumers)
SlotsClaimed ==
    notFull # {} => Capacity - Len(queue) <= Queue!Cardinality(awake \cap Producers)

(* A group of awake threads is finite, and its size is known after one     *)
(* thread has joined or left it.                                           *)
LEMMA AwakeCount ==
    ASSUME NEW S, IsFiniteSet(S), NEW A, NEW t
    PROVE  /\ Queue!Cardinality(A \cap S) \in Nat
           /\ t \in S /\ t \notin A =>
                  Queue!Cardinality((A \cup {t}) \cap S) = Queue!Cardinality(A \cap S) + 1
           /\ Queue!Cardinality((A \ {t}) \cap S) \in Nat
           /\ Queue!Cardinality((A \ {t}) \cap S) >= Queue!Cardinality(A \cap S) - 1
<1>1. IsFiniteSet(A \cap S)
  BY FS_Subset
<1>2. Cardinality(A \cap S) \in Nat
  BY <1>1, FS_CardinalityType
<1>3. ASSUME t \in S, t \notin A
      PROVE  Cardinality((A \cup {t}) \cap S) = Cardinality(A \cap S) + 1
  <2>1. (A \cup {t}) \cap S = (A \cap S) \cup {t}
    BY <1>3
  <2> QED BY <1>1, <1>3, <2>1, FS_AddElement
<1>4. (A \ {t}) \cap S = (A \cap S) \ {t}
  OBVIOUS
<1>5. /\ IsFiniteSet((A \ {t}) \cap S)
      /\ Cardinality((A \ {t}) \cap S) =
             IF t \in A \cap S THEN Cardinality(A \cap S) - 1
                               ELSE Cardinality(A \cap S)
  BY <1>1, <1>4, FS_RemoveElement
<1>6. Cardinality((A \ {t}) \cap S) \in Nat
  BY <1>5, FS_CardinalityType
<1> QED BY <1>2, <1>3, <1>5, <1>6, SameCardinality

(* One notification per completed call is enough, with any number of       *)
(* threads in the two wait sets.                                           *)
LEMMA ClaimsStep ==
    ASSUME Queue!TypeOK, Queue!TypeOK', JobsClaimed, SlotsClaimed, Queue!Next
    PROVE  JobsClaimed' /\ SlotsClaimed'
<1> DEFINE Claims == JobsClaimed /\ SlotsClaimed
<1> USE DEF Queue!Threads
<1>0. /\ Len(queue) \in Nat /\ Len(queue') \in Nat /\ Capacity \in Nat
      /\ Producers \cap Consumers = {}
      /\ IsFiniteSet(Producers) /\ IsFiniteSet(Consumers)
  BY Constants, FiniteThreads, LenProperties
  DEF Queue!QueueAssumption, Queue!TypeOK
<1>1. ASSUME NEW p \in Producers, Queue!AddWaits(p)
      PROVE  Claims'
  <2>1. awake' \cap Consumers = awake \cap Consumers
    BY <1>0, <1>1 DEF Queue!AddWaits
  <2>2. Capacity - Len(queue') <= 0
    BY <1>0, <1>1 DEF Queue!AddWaits, Queue!Full
  <2>3. Queue!Cardinality(awake' \cap Producers) \in Nat
    BY <1>0, AwakeCount
  <2>4. JobsClaimed'
    BY <1>1, <2>1 DEF Queue!AddWaits, JobsClaimed
  <2>5. SlotsClaimed'
    BY <1>0, <2>2, <2>3 DEF SlotsClaimed
  <2> QED BY <2>4, <2>5
<1>2. ASSUME NEW p \in Producers, Queue!Add(p)
      PROVE  Claims'
  <2>1. Len(queue') = Len(queue) + 1
    BY <1>2, NextJob, SameJobs, AppendProperties
    DEF Queue!Add, Queue!Adding, Queue!TypeOK
  <2>2. JobsClaimed'
    <3>1. CASE notEmpty = {}
      BY <1>2, <3>1, NotifyOneWakes DEF Queue!Add, JobsClaimed
    <3>2. CASE notEmpty # {}
      <4>1. PICK t \in notEmpty : notEmpty \ notEmpty' = {t}
        BY <1>2, <3>2, NotifyOneWakes DEF Queue!Add
      <4>2. t \in Consumers /\ t \notin awake
        BY DEF Queue!TypeOK
      <4>3. awake' \cap Consumers = (awake \cup {t}) \cap Consumers
        BY <1>0, <1>2, <4>1 DEF Queue!Add
      <4>4. /\ Queue!Cardinality(awake' \cap Consumers)
                   = Queue!Cardinality(awake \cap Consumers) + 1
            /\ Queue!Cardinality(awake \cap Consumers) \in Nat
        BY <1>0, <4>2, <4>3, AwakeCount
      <4> QED BY <1>0, <2>1, <3>2, <4>4 DEF JobsClaimed
    <3> QED BY <3>1, <3>2
  <2>3. SlotsClaimed'
    <3>1. notEmpty \ notEmpty' \subseteq Consumers
      BY DEF Queue!TypeOK
    <3>2. awake' \cap Producers = (awake \ {p}) \cap Producers
      BY <1>0, <1>2, <3>1 DEF Queue!Add
    <3>3. /\ Queue!Cardinality(awake' \cap Producers)
                 >= Queue!Cardinality(awake \cap Producers) - 1
          /\ Queue!Cardinality(awake' \cap Producers) \in Nat
          /\ Queue!Cardinality(awake \cap Producers) \in Nat
      BY <1>0, <3>2, AwakeCount
    <3> QED BY <1>0, <1>2, <2>1, <3>3 DEF Queue!Add, SlotsClaimed
  <2> QED BY <2>2, <2>3
<1>3. ASSUME NEW c \in Consumers, Queue!TakeWaits(c)
      PROVE  Claims'
  <2>1. awake' \cap Producers = awake \cap Producers
    BY <1>0, <1>3 DEF Queue!TakeWaits
  <2>2. Len(queue') = 0 /\ Queue!Cardinality(awake' \cap Consumers) \in Nat
    BY <1>0, <1>3, AwakeCount DEF Queue!TakeWaits
  <2>3. SlotsClaimed'
    BY <1>3, <2>1 DEF Queue!TakeWaits, SlotsClaimed
  <2>4. JobsClaimed'
    BY <2>2 DEF JobsClaimed
  <2> QED BY <2>3, <2>4
<1>4. ASSUME NEW c \in Consumers, Queue!Take(c)
      PROVE  Claims'
  <2>1. Len(queue') = Len(queue) - 1
    BY <1>4, HeadTailProperties DEF Queue!Take, Queue!TypeOK
  <2>2. SlotsClaimed'
    <3>1. CASE notFull = {}
      BY <1>4, <3>1, NotifyOneWakes DEF Queue!Take, SlotsClaimed
    <3>2. CASE notFull # {}
      <4>1. PICK t \in notFull : notFull \ notFull' = {t}
        BY <1>4, <3>2, NotifyOneWakes DEF Queue!Take
      <4>2. t \in Producers /\ t \notin awake
        BY DEF Queue!TypeOK
      <4>3. awake' \cap Producers = (awake \cup {t}) \cap Producers
        BY <1>0, <1>4, <4>1 DEF Queue!Take
      <4>4. /\ Queue!Cardinality(awake' \cap Producers)
                   = Queue!Cardinality(awake \cap Producers) + 1
            /\ Queue!Cardinality(awake \cap Producers) \in Nat
        BY <1>0, <4>2, <4>3, AwakeCount
      <4> QED BY <1>0, <2>1, <3>2, <4>4 DEF SlotsClaimed
    <3> QED BY <3>1, <3>2
  <2>3. JobsClaimed'
    <3>1. notFull \ notFull' \subseteq Producers
      BY DEF Queue!TypeOK
    <3>2. awake' \cap Consumers = (awake \ {c}) \cap Consumers
      BY <1>0, <1>4, <3>1 DEF Queue!Take
    <3>3. /\ Queue!Cardinality(awake' \cap Consumers)
                 >= Queue!Cardinality(awake \cap Consumers) - 1
          /\ Queue!Cardinality(awake' \cap Consumers) \in Nat
          /\ Queue!Cardinality(awake \cap Consumers) \in Nat
      BY <1>0, <3>2, AwakeCount
    <3> QED BY <1>0, <1>4, <2>1, <3>3 DEF Queue!Take, JobsClaimed
  <2> QED BY <2>2, <2>3
<1>5. ASSUME NEW t \in Queue!Threads, Queue!SpuriousWakeup(t)
      PROVE  Claims'
  <2>1. t \notin awake
    BY <1>5 DEF Queue!SpuriousWakeup, Queue!TypeOK
  <2>2. CASE t \in Consumers
    <3>1. /\ Queue!Cardinality(awake' \cap Consumers)
                 = Queue!Cardinality(awake \cap Consumers) + 1
          /\ Queue!Cardinality(awake \cap Consumers) \in Nat
      BY <1>0, <1>5, <2>1, <2>2, AwakeCount DEF Queue!SpuriousWakeup
    <3>2. awake' \cap Producers = awake \cap Producers
      BY <1>0, <1>5, <2>2 DEF Queue!SpuriousWakeup
    <3>3. JobsClaimed'
      BY <1>0, <1>5, <3>1, <3>2 DEF Queue!SpuriousWakeup, JobsClaimed
    <3>4. SlotsClaimed'
      BY <1>0, <1>5, <3>1, <3>2 DEF Queue!SpuriousWakeup, SlotsClaimed
    <3> QED BY <3>3, <3>4
  <2>3. CASE t \in Producers
    <3>1. /\ Queue!Cardinality(awake' \cap Producers)
                 = Queue!Cardinality(awake \cap Producers) + 1
          /\ Queue!Cardinality(awake \cap Producers) \in Nat
      BY <1>0, <1>5, <2>1, <2>3, AwakeCount DEF Queue!SpuriousWakeup
    <3>2. awake' \cap Consumers = awake \cap Consumers
      BY <1>0, <1>5, <2>3 DEF Queue!SpuriousWakeup
    <3>3. JobsClaimed'
      BY <1>0, <1>5, <3>1, <3>2 DEF Queue!SpuriousWakeup, JobsClaimed
    <3>4. SlotsClaimed'
      BY <1>0, <1>5, <3>1, <3>2 DEF Queue!SpuriousWakeup, SlotsClaimed
    <3> QED BY <3>3, <3>4
  <2> QED BY <2>2, <2>3
<1>6. CASE UNCHANGED Queue!vars
  BY <1>6 DEF Queue!vars, JobsClaimed, SlotsClaimed
<1> QED BY <1>1, <1>2, <1>3, <1>4, <1>5, <1>6 DEF Queue!Next, Queue!Joined

(* So no step of the queue loses a wakeup.                                 *)
LEMMA QueueStep ==
    ASSUME Queue!NoLostWakeup, Queue!Next
    PROVE  Queue!NoLostWakeup'
<1>1. Queue!TypeOK /\ JobsClaimed /\ SlotsClaimed
  BY DEF Queue!NoLostWakeup, JobsClaimed, SlotsClaimed
<1>2. Queue!TypeOK'
  BY <1>1, QueueTypesStep
<1>3. JobsClaimed' /\ SlotsClaimed'
  BY <1>1, <1>2, ClaimsStep
<1> QED BY <1>2, <1>3 DEF Queue!NoLostWakeup, JobsClaimed, SlotsClaimed

-----------------------------------------------------------------------------
(* A step of the Java queue, wait, notifyAll and interrupt included, never *)
(* leaves a thread asleep that could go on.                                *)
LEMMA JobQueueStep ==
    ASSUME JobQueue!NoSleeperLeftBehind, JobQueue!Next
    PROVE  JobQueue!NoSleeperLeftBehind'
<1> DEFINE Inv == JobQueue!NoSleeperLeftBehind
<1>0. /\ Producers \cap Consumers = {} /\ Capacity \in Nat \ {0}
      /\ JobQueue!TypeOK
      /\ Len(queue) \in Nat /\ queue \in Seq(JobQueue!Jobs)
      /\ queue = <<>> <=> Len(queue) = 0
  BY Constants, LenProperties, EmptySeq
  DEF JobQueue!JobQueueAssumption, JobQueue!NoSleeperLeftBehind, JobQueue!TypeOK
<1> USE DEF JobQueue!NoSleeperLeftBehind, JobQueue!TypeOK, JobQueue!Threads
<1>1. ASSUME NEW p \in Producers, JobQueue!AddWaits(p)
      PROVE  Inv'
  BY <1>0, <1>1 DEF JobQueue!AddWaits, JobQueue!Adding
<1>2. ASSUME NEW p \in Producers, JobQueue!Add(p)
      PROVE  Inv'
  <2>1. <<p, added[p] + 1>> \in JobQueue!Jobs
    BY <1>0, <1>2, NextJob DEF JobQueue!Add, JobQueue!Adding
  <2>2. queue' \in Seq(JobQueue!Jobs) /\ Len(queue') <= Capacity
    BY <1>0, <1>2, <2>1, AppendProperties DEF JobQueue!Add
  <2>3. waiting' = {} /\ added' \in [Producers -> Nat]
    BY <1>0, <1>2 DEF JobQueue!Add, JobQueue!NotifyAll
  <2> QED BY <1>0, <1>2, <2>2, <2>3 DEF JobQueue!Add
<1>3. ASSUME NEW c \in Consumers, JobQueue!TakeWaits(c)
      PROVE  Inv'
  BY <1>0, <1>3 DEF JobQueue!TakeWaits, JobQueue!Taking
<1>4. ASSUME NEW c \in Consumers, JobQueue!Take(c)
      PROVE  Inv'
  <2>1. /\ Head(queue) \in JobQueue!Jobs
        /\ queue' \in Seq(JobQueue!Jobs) /\ Len(queue') <= Capacity
    BY <1>0, <1>4, HeadTailProperties DEF JobQueue!Take
  <2>2. [to |-> c, job |-> Head(queue)] \in [to : Consumers, job : JobQueue!Jobs]
    BY <2>1
  <2>3. taken' \in Seq([to : Consumers, job : JobQueue!Jobs])
    BY <1>0, <1>4, <2>2, AppendProperties DEF JobQueue!Take
  <2>4. waiting' = {}
    BY <1>4 DEF JobQueue!Take, JobQueue!NotifyAll
  <2> QED BY <1>0, <1>4, <2>1, <2>3, <2>4 DEF JobQueue!Take
<1>5. ASSUME NEW t \in Producers \cup Consumers, JobQueue!SpuriousWakeup(t)
      PROVE  Inv'
  BY <1>0, <1>5 DEF JobQueue!SpuriousWakeup
<1>6. ASSUME NEW t \in Producers \cup Consumers, JobQueue!Interrupt(t)
      PROVE  Inv'
  BY <1>0, <1>6 DEF JobQueue!Interrupt
<1>7. CASE UNCHANGED JobQueue!vars
  BY <1>0, <1>7 DEF JobQueue!vars
<1> QED BY <1>1, <1>2, <1>3, <1>4, <1>5, <1>6, <1>7
        DEF JobQueue!Next, JobQueue!Joined

-----------------------------------------------------------------------------
(* What becomes of the number of threads between their semaphore and their *)
(* critical section.                                                       *)
LEMMA Passing ==
    ASSUME NEW T, IsFiniteSet(T), NEW S \in SUBSET T, NEW t \in T
    PROVE  /\ PC!Cardinality(S) \in Nat
           /\ t \notin S => PC!Cardinality(S \cup {t}) = PC!Cardinality(S) + 1
           /\ t \in S => /\ PC!Cardinality(S \ {t}) = PC!Cardinality(S) - 1
                         /\ PC!Cardinality(S) > 0
<1>1. IsFiniteSet(S)
  BY FS_Subset
<1>2. Cardinality(S) \in Nat
  BY <1>1, FS_CardinalityType
<1>3. Cardinality(S \cup {t}) = IF t \in S THEN Cardinality(S) ELSE Cardinality(S) + 1
  BY <1>1, FS_AddElement
<1>4. Cardinality(S \ {t}) = IF t \in S THEN Cardinality(S) - 1 ELSE Cardinality(S)
  BY <1>1, FS_RemoveElement
<1>5. t \in S => Cardinality(S) # 0
  BY <1>1, FS_EmptySet
<1> QED BY <1>2, <1>3, <1>4, <1>5, SameCardinality

(* SlotsConserved needs one more fact: a producer past its semaphore still *)
(* has an item to push.                                                    *)
SlotsInv == /\ PC!SlotsConserved
            /\ \A p \in producing : added[p] < Adds[p]

(* No step between the two semaphores breaks it.                           *)
LEMMA SemaphoresStep ==
    ASSUME SlotsInv, PC!Next
    PROVE  SlotsInv'
<1> DEFINE Deliveries == [to : Consumers, job : PC!Jobs]
<1>0. /\ Producers \cap Consumers = {} /\ Capacity \in Nat \ {0}
      /\ PC!TypeOK
      /\ Len(queue) \in Nat /\ queue \in Seq(PC!Jobs)
      /\ queue = <<>> <=> Len(queue) = 0
      /\ PC!Cardinality(producing) \in Nat /\ PC!Cardinality(consuming) \in Nat
      /\ Adds \in [Producers -> Nat]
  <2>1. PC!Cardinality(producing) \in Nat /\ PC!Cardinality(consuming) \in Nat
    BY FiniteThreads, FS_Subset, FS_CardinalityType, SameCardinality
    DEF SlotsInv, PC!SlotsConserved, PC!TypeOK
  <2> QED BY <2>1, Constants, LenProperties, EmptySeq
          DEF PC!BufferAssumption, SlotsInv, PC!SlotsConserved, PC!TypeOK
<1> USE DEF SlotsInv, PC!SlotsConserved, PC!TypeOK
<1>1. ASSUME NEW p \in Producers, PC!AcquireEmptySlot(p)
      PROVE  SlotsInv'
  <2>1. PC!Cardinality(producing') = PC!Cardinality(producing) + 1
    BY <1>1, FiniteThreads, Passing DEF PC!AcquireEmptySlot
  <2>2. /\ emptySlots' \in 0 .. Capacity
        /\ emptySlots' + PC!Cardinality(producing') + Len(queue') = Capacity
    BY <1>0, <1>1, <2>1 DEF PC!AcquireEmptySlot
  <2> QED BY <1>0, <1>1, <2>2 DEF PC!AcquireEmptySlot
<1>2. ASSUME NEW p \in Producers, PC!Produce(p)
      PROVE  SlotsInv'
  <2>1. <<p, added[p] + 1>> \in PC!Jobs
    BY <1>0, <1>2, NextJob, SameJobs DEF PC!Produce
  <2>2. queue' \in Seq(PC!Jobs) /\ Len(queue') = Len(queue) + 1
    BY <1>0, <1>2, <2>1, AppendProperties, SMTT(30) DEF PC!Produce
  <2>3. /\ PC!Cardinality(producing') = PC!Cardinality(producing) - 1
        /\ PC!Cardinality(producing) > 0
    BY <1>2, FiniteThreads, Passing DEF PC!Produce
  <2>4. /\ emptySlots' = emptySlots /\ fullSlots' = fullSlots + 1
        /\ PC!Cardinality(consuming') = PC!Cardinality(consuming)
    BY <1>2 DEF PC!Produce
  <2>5. /\ fullSlots' \in 0 .. Capacity
        /\ emptySlots' + PC!Cardinality(producing') + Len(queue') = Capacity
        /\ Len(queue') = fullSlots' + PC!Cardinality(consuming')
    BY <1>0, <2>2, <2>3, <2>4, SMTT(30)
  <2>6. \A r \in producing' : added'[r] < Adds[r]
    BY <1>0, <1>2, SMTT(30) DEF PC!Produce
  <2>7. producing' \subseteq Producers /\ added' \in [Producers -> Nat]
    BY <1>0, <1>2, SMTT(30) DEF PC!Produce
  <2>8. consuming' = consuming /\ taken' = taken
    BY <1>2 DEF PC!Produce
  <2> QED BY <1>0, <2>2, <2>4, <2>5, <2>6, <2>7, <2>8
<1>3. ASSUME NEW c \in Consumers, PC!AcquireFullSlot(c)
      PROVE  SlotsInv'
  <2>1. PC!Cardinality(consuming') = PC!Cardinality(consuming) + 1
    BY <1>3, FiniteThreads, Passing DEF PC!AcquireFullSlot
  <2>2. /\ fullSlots' \in 0 .. Capacity
        /\ Len(queue') = fullSlots' + PC!Cardinality(consuming')
    BY <1>0, <1>3, <2>1 DEF PC!AcquireFullSlot
  <2> QED BY <1>0, <1>3, <2>2 DEF PC!AcquireFullSlot
<1>4. ASSUME NEW c \in Consumers, PC!Consume(c)
      PROVE  SlotsInv'
  <2>1. /\ PC!Cardinality(consuming') = PC!Cardinality(consuming) - 1
        /\ PC!Cardinality(consuming) > 0
    BY <1>4, FiniteThreads, Passing DEF PC!Consume
  <2>2. queue # <<>>
    BY <1>0, <2>1
  <2>3. /\ Head(queue) \in PC!Jobs
        /\ queue' \in Seq(PC!Jobs) /\ Len(queue') = Len(queue) - 1
    BY <1>0, <1>4, <2>2, HeadTailProperties DEF PC!Consume
  <2>4. [to |-> c, job |-> Head(queue)] \in Deliveries
    BY <2>3
  <2>5. taken' \in Seq(Deliveries)
    BY <1>0, <1>4, <2>4, AppendProperties DEF PC!Consume
  <2>6. /\ emptySlots' \in 0 .. Capacity
        /\ emptySlots' + PC!Cardinality(producing') + Len(queue') = Capacity
        /\ Len(queue') = fullSlots' + PC!Cardinality(consuming')
    BY <1>0, <1>4, <2>1, <2>3 DEF PC!Consume
  <2> QED BY <1>0, <1>4, <2>3, <2>5, <2>6 DEF PC!Consume
<1>5. CASE UNCHANGED PC!vars
  BY <1>0, <1>5 DEF PC!vars
<1> QED BY <1>1, <1>2, <1>3, <1>4, <1>5 DEF PC!Next, PC!Joined

-----------------------------------------------------------------------------
(* The logger: what is written, in the batch and in the buffer are, in     *)
(* this order, the messages 1, 2, 3...; only a worker that is writing has  *)
(* a batch, and it leaves nothing behind when it exits.                    *)
InOrder ==
    /\ \A k \in 1 .. Len(written) : written[k] = k
    /\ \A k \in 1 .. Len(batch) : batch[k] = Len(written) + k
    /\ \A k \in 1 .. Len(buffer) : buffer[k] = Len(written) + Len(batch) + k

WorkerTidy == /\ worker # "writing" => batch = <<>>
              /\ worker = "exited" => ~running /\ buffer = <<>>
              /\ destructor = "joined" => worker = "exited"

LoggerInv == /\ Logger!NothingLost /\ Logger!SleepsOnlyWhenIdle
             /\ InOrder /\ WorkerTidy

(* The logger's three containers are sequences of messages logged so far.  *)
LEMMA LoggerSequences ==
    ASSUME Logger!TypeOK
    PROVE  /\ logged \in Nat
           /\ \A s \in {buffer, batch, written} :
                  s \in Seq(1 .. logged) /\ Len(s) \in Nat /\ (s = <<>> <=> Len(s) = 0)
<1>1. logged \in Nat
  BY Constants DEF Logger!LoggerAssumption, Logger!TypeOK
<1>2. \A s \in {buffer, batch, written} : s \in Seq(1 .. logged)
  BY DEF Logger!TypeOK
<1> QED BY <1>1, <1>2, LenProperties, EmptySeq

(* No step of the logger's threads breaks it.                              *)
LEMMA LoggerStep ==
    ASSUME LoggerInv, Logger!Next
    PROVE  LoggerInv'
<1>0. /\ logged \in Nat /\ logged <= MaxMessages
      /\ buffer \in Seq(1 .. logged) /\ Len(buffer) \in Nat
      /\ batch \in Seq(1 .. logged) /\ Len(batch) \in Nat
      /\ written \in Seq(1 .. logged) /\ Len(written) \in Nat
      /\ buffer = <<>> <=> Len(buffer) = 0
      /\ batch = <<>> <=> Len(batch) = 0
      /\ BatchSize \in Nat \ {0} /\ WaitSeconds \in Nat \ {0} /\ MaxMessages \in Nat
      /\ Len(written) + Len(batch) + Len(buffer) = logged
      /\ running = (destructor = "idle") /\ left \in 0 .. WaitSeconds
      /\ worker \in {"atLoopTop", "woken", "waiting", "writing", "exited"}
      /\ destructor \in {"idle", "stopping", "joining", "joined"}
      /\ destructor = "joined" => Len(written) = logged
      /\ Logger!SleepsOnlyWhenIdle /\ InOrder /\ WorkerTidy
  BY Constants, LoggerSequences
  DEF Logger!LoggerAssumption, LoggerInv, Logger!NothingLost, Logger!TypeOK
<1>a. /\ Len(written) \in Nat /\ Len(batch) \in Nat /\ Len(buffer) \in Nat
      /\ logged \in Nat /\ Len(written) + Len(batch) + Len(buffer) = logged
  BY <1>0
<1>1. CASE Logger!Log
  <2>1. /\ logged' = logged + 1 /\ buffer' = Append(buffer, logged + 1)
        /\ logged < MaxMessages /\ destructor = "idle"
        /\ worker' = IF Len(buffer') >= BatchSize /\ worker = "waiting"
                     THEN "woken" ELSE worker
        /\ UNCHANGED <<running, left, batch, destructor, written>>
    BY <1>1 DEF Logger!Log, Logger!Notified
  <2>2. /\ buffer \in Seq(1 .. logged') /\ batch \in Seq(1 .. logged')
        /\ written \in Seq(1 .. logged')
    BY <1>0, <2>1, SeqMonotonic
  <2>3. /\ buffer' \in Seq(1 .. logged') /\ Len(buffer') = Len(buffer) + 1
        /\ \A k \in 1 .. Len(buffer) : buffer'[k] = buffer[k]
        /\ buffer'[Len(buffer) + 1] = logged + 1
    BY <1>0, <2>1, <2>2, AppendProperties
  <2>4. \A k \in 1 .. Len(buffer') : buffer'[k] = Len(written) + Len(batch) + k
    <3>1. SUFFICES ASSUME NEW k \in 1 .. Len(buffer')
                   PROVE  buffer'[k] = Len(written) + Len(batch) + k
      OBVIOUS
    <3>2. k \in 1 .. Len(buffer) \/ k = Len(buffer) + 1
      BY <1>a, <2>3
    <3>3. CASE k \in 1 .. Len(buffer)
      BY <1>0, <2>3, <3>3 DEF InOrder
    <3>4. CASE k = Len(buffer) + 1
      BY <1>a, <2>3, <3>4
    <3> QED BY <3>2, <3>3, <3>4
  <2>5. InOrder'
    BY <1>0, <2>1, <2>4 DEF InOrder
  <2>6. Logger!NothingLost'
    <3>1. logged' \in 0 .. MaxMessages
      BY <1>0, <2>1
    <3>2. Len(written') + Len(batch') + Len(buffer') = logged'
      BY <1>0, <2>1, <2>3
    <3>3. {buffer', batch', written'} \subseteq Seq(1 .. logged')
      BY <2>1, <2>2, <2>3
    <3>4. Logger!TypeOK'
      BY <1>0, <2>1, <3>1, <3>3 DEF Logger!TypeOK
    <3> QED BY <2>1, <3>2, <3>4 DEF Logger!NothingLost
  <2>7. Logger!SleepsOnlyWhenIdle' /\ WorkerTidy'
    <3>1. worker' = "waiting" => Len(buffer') < BatchSize
      BY <1>0, <2>1, <2>3
    <3>2. running /\ worker # "exited" /\ worker' # "exited"
      BY <1>0, <2>1 DEF WorkerTidy
    <3> QED BY <1>0, <2>1, <3>1, <3>2 DEF Logger!SleepsOnlyWhenIdle, WorkerTidy
  <2> QED BY <2>5, <2>6, <2>7 DEF LoggerInv
<1>4. CASE Logger!TakeBatch
  <2>1. /\ batch = <<>> /\ batch' = buffer /\ buffer' = <<>>
        /\ worker # "exited" /\ worker' = "writing"
        /\ UNCHANGED <<running, left, destructor, logged, written>>
    BY <1>0, <1>4 DEF Logger!TakeBatch, Logger!WaitReturns, WorkerTidy
  <2>2. buffer' \in Seq(1 .. logged') /\ Len(buffer') = 0 /\ Len(batch) = 0
    BY <1>0, <2>1, EmptySeq
  <2>3. InOrder'
    BY <1>0, <2>1, <2>2 DEF InOrder
  <2>4. Logger!NothingLost'
    <3>1. Len(written') + Len(batch') + Len(buffer') = logged'
      BY <1>0, <2>1, <2>2
    <3>2. {buffer', batch', written'} \subseteq Seq(1 .. logged')
      BY <1>0, <2>1, <2>2
    <3>3. Logger!TypeOK'
      BY <1>0, <2>1, <3>2 DEF Logger!TypeOK
    <3> QED BY <1>0, <2>1, <3>1, <3>3 DEF Logger!NothingLost
  <2>5. Logger!SleepsOnlyWhenIdle' /\ WorkerTidy'
    BY <1>0, <2>1 DEF Logger!SleepsOnlyWhenIdle, WorkerTidy
  <2> QED BY <2>3, <2>4, <2>5 DEF LoggerInv
<1>5. CASE Logger!WriteMessage
  <2>1. /\ batch # <<>> /\ written' = Append(written, Head(batch))
        /\ batch' = Tail(batch) /\ worker = "writing"
        /\ UNCHANGED <<buffer, running, worker, left, destructor, logged>>
    BY <1>5 DEF Logger!WriteMessage
  <2>2. /\ Head(batch) \in 1 .. logged /\ Head(batch) = batch[1]
        /\ batch' \in Seq(1 .. logged) /\ Len(batch') = Len(batch) - 1
        /\ \A k \in 1 .. Len(batch') : batch'[k] = batch[k + 1]
    BY <1>0, <2>1, HeadTailProperties
  <2>3. /\ written' \in Seq(1 .. logged) /\ Len(written') = Len(written) + 1
        /\ \A k \in 1 .. Len(written) : written'[k] = written[k]
        /\ written'[Len(written) + 1] = Head(batch)
    BY <1>0, <2>1, <2>2, AppendProperties
  <2>4. InOrder'
    <3>1. \A k \in 1 .. Len(written') : written'[k] = k
      <4>1. Head(batch) = Len(written) + 1
        BY <1>0, <2>1, <2>2 DEF InOrder
      <4>2. \A k \in 1 .. Len(written') :
                k \in 1 .. Len(written) \/ k = Len(written) + 1
        BY <1>0, <2>3
      <4> QED BY <1>0, <2>3, <4>1, <4>2 DEF InOrder
    <3>2. \A k \in 1 .. Len(batch') : batch'[k] = Len(written') + k
      <4>1. SUFFICES ASSUME NEW k \in 1 .. Len(batch')
                     PROVE  batch'[k] = Len(written') + k
        OBVIOUS
      <4>2. k + 1 \in 1 .. Len(batch) /\ k \in Nat
        BY <1>a, <2>2
      <4>3. batch'[k] = Len(written) + (k + 1)
        BY <1>0, <2>2, <4>2 DEF InOrder
      <4> QED BY <1>a, <2>3, <4>2, <4>3
    <3>3. \A k \in 1 .. Len(buffer) :
              buffer[k] = Len(written') + Len(batch') + k
      BY <1>0, <2>2, <2>3 DEF InOrder
    <3> QED BY <2>1, <3>1, <3>2, <3>3 DEF InOrder
  <2>5. Logger!NothingLost'
    <3>1. Len(written') + Len(batch') + Len(buffer') = logged'
      <4>1. Len(buffer') = Len(buffer) /\ logged' = logged
        BY <2>1
      <4>2. /\ Len(written') = Len(written) + 1
            /\ Len(batch') = Len(batch) - 1
        BY <2>2, <2>3
      <4> QED BY <1>a, <4>1, <4>2
    <3>2. destructor # "joined"
      BY <1>0, <2>1 DEF WorkerTidy
    <3>3. {buffer', batch', written'} \subseteq Seq(1 .. logged')
      BY <1>0, <2>1, <2>2, <2>3
    <3>4. Logger!TypeOK'
      BY <1>0, <2>1, <3>3 DEF Logger!TypeOK
    <3> QED BY <2>1, <3>1, <3>2, <3>4 DEF Logger!NothingLost
  <2>6. Logger!SleepsOnlyWhenIdle' /\ WorkerTidy'
    BY <1>0, <2>1 DEF Logger!SleepsOnlyWhenIdle, WorkerTidy
  <2> QED BY <2>4, <2>5, <2>6 DEF LoggerInv
<1> USE DEF LoggerInv, Logger!NothingLost, Logger!TypeOK, Logger!SleepsOnlyWhenIdle, InOrder, WorkerTidy
<1>2. CASE Logger!Sleep
  BY <1>0, <1>2
  DEF Logger!Sleep, Logger!WaitReturns, Logger!Predicate
<1>3. CASE Logger!Exit
  BY <1>0, <1>3
  DEF Logger!Exit, Logger!WaitReturns
<1>6. CASE Logger!FinishBatch
  BY <1>0, <1>6 DEF Logger!FinishBatch
<1>7. CASE Logger!TimeOut \/ Logger!SpuriousWakeup
  BY <1>0, <1>7 DEF Logger!TimeOut, Logger!SpuriousWakeup
<1>8. CASE Logger!Stop
  BY <1>0, <1>8 DEF Logger!Stop
<1>9. CASE Logger!NotifyStop
  BY <1>0, <1>9 DEF Logger!NotifyStop, Logger!Notified
<1>10. CASE Logger!Join
  BY <1>0, <1>10 DEF Logger!Join
<1>11. CASE Logger!Tick
  BY <1>0, <1>11 DEF Logger!Tick
<1> QED BY <1>1, <1>2, <1>3, <1>4, <1>5, <1>6, <1>7, <1>8, <1>9, <1>10, <1>11
        DEF Logger!Next, Logger!WorkerStep, Logger!DestructorStep

-----------------------------------------------------------------------------
(* The invariant of the three programs.                                    *)
Inv == /\ program = "ThreadSafeQueue" => Queue!NoLostWakeup
       /\ program = "ConcurrentJobQueue" => JobQueue!NoSleeperLeftBehind
       /\ program = "ProducerConsumer" => SlotsInv
       /\ program = "AsyncBatchLogger" => LoggerInv

(* It holds when the program starts.                                       *)
LEMMA InitInv == Init => Inv
<1> SUFFICES ASSUME Init
             PROVE  Inv
  OBVIOUS
<1> USE Constants
<1>1. JobQueue!NoSleeperLeftBehind
  BY EmptySeq DEF Init, JobQueue!Init, JobQueue!JobQueueAssumption,
     JobQueue!NoSleeperLeftBehind, JobQueue!TypeOK
<1>2. SlotsInv
  <2>1. PC!Cardinality({}) = 0
    BY SameCardinality, FS_EmptySet
  <2> QED BY <2>1, EmptySeq DEF Init, PC!Init, PC!BufferAssumption, SlotsInv,
             PC!SlotsConserved, PC!TypeOK
<1>3. LoggerInv
  <2>1. /\ buffer = <<>> /\ batch = <<>> /\ written = <<>> /\ logged = 0
        /\ running = TRUE /\ destructor = "idle"
        /\ worker = "atLoopTop" /\ left = WaitSeconds
    BY DEF Init, Logger!Init
  <2>2. Len(<<>>) = 0 /\ <<>> \in Seq(1 .. logged)
    BY EmptySeq
  <2>3. logged \in 0 .. MaxMessages /\ left \in 0 .. WaitSeconds
    BY <2>1 DEF Logger!LoggerAssumption
  <2>5. Logger!TypeOK
    BY <2>1, <2>2, <2>3 DEF Logger!TypeOK
  <2>6. Logger!NothingLost
    BY <2>1, <2>2, <2>5 DEF Logger!NothingLost
  <2>4. InOrder /\ WorkerTidy /\ Logger!SleepsOnlyWhenIdle
    BY <2>1, <2>2 DEF InOrder, WorkerTidy, Logger!SleepsOnlyWhenIdle
  <2> QED BY <2>4, <2>6 DEF LoggerInv
<1>4. Queue!NoLostWakeup
  BY EmptySeq DEF Init, Queue!Init, Queue!QueueAssumption, Queue!NoLostWakeup,
     Queue!TypeOK
<1> QED BY <1>1, <1>2, <1>3, <1>4 DEF Inv

(* The strengthened invariant holds in every reachable state, whichever    *)
(* program runs.                                                           *)
THEOREM Invariance == Spec => []Inv
<1>1. Inv /\ [Next]_vars => Inv'
  <2> SUFFICES ASSUME Inv, [Next]_vars
               PROVE  Inv'
    OBVIOUS
  <2>0. CASE RunsQueue /\ Queue!Next
    BY <2>0, QueueStep DEF Inv, RunsQueue
  <2>1. CASE RunsJobQueue /\ JobQueue!Next
    BY <2>1, JobQueueStep DEF Inv, RunsJobQueue
  <2>2. CASE RunsPC /\ PC!Next
    BY <2>2, SemaphoresStep DEF Inv, RunsPC
  <2>3. CASE RunsLogger /\ Logger!Next
    BY <2>3, LoggerStep DEF Inv, RunsLogger
  <2>4. CASE UNCHANGED vars
    BY <2>4 DEF Inv, vars, common, condvars, monitor, semaphores, logger,
       Queue!NoLostWakeup, Queue!TypeOK,
       JobQueue!NoSleeperLeftBehind, JobQueue!TypeOK, SlotsInv,
       PC!SlotsConserved, PC!TypeOK, LoggerInv, Logger!NothingLost,
       Logger!SleepsOnlyWhenIdle, Logger!TypeOK, InOrder, WorkerTidy
  <2> QED BY <2>0, <2>1, <2>2, <2>3, <2>4 DEF Next
<1> QED BY <1>1, InitInv, PTL DEF Spec

(* One notification per call is enough for two condition variables; no     *)
(* thread of the Java queue is asleep in the monitor while its add or take *)
(* could go on; and the logger's worker never sleeps behind a full batch   *)
(* or a stop it was told of.                                               *)
THEOREM NobodySleepsOn == Spec => []NoSleeperLeftBehind
<1>1. Inv => NoSleeperLeftBehind
  BY DEF Inv, NoSleeperLeftBehind, LoggerInv
<1> QED BY <1>1, Invariance, PTL

(* The semaphores of the bounded buffer: every slot is free, reserved or   *)
(* filled, so pop never meets an empty queue.                              *)
THEOREM SlotsAccountedFor == Spec => []SlotsConserved
<1>1. Inv => SlotsConserved
  BY DEF Inv, SlotsConserved, SlotsInv
<1> QED BY <1>1, Invariance, PTL

(* ~AsyncLogger returns only when every logged message is written, and no  *)
(* message is ever lost or written twice.                                  *)
THEOREM LogComplete == Spec => []NothingLost
<1>1. Inv => NothingLost
  BY DEF Inv, NothingLost, LoggerInv
<1> QED BY <1>1, Invariance, PTL
-----------------------------------------------------------------------------
(* What take and consume record of a job.                                  *)
Deliveries == [to : Consumers, job : JobQueue!Jobs]

(* They are jobs, as many as there are deliveries.                         *)
LEMMA JobsOfDeliveries ==
    ASSUME NEW s \in Seq(Deliveries)
    PROVE  /\ [i \in DOMAIN s |-> s[i].job] \in Seq(JobQueue!Jobs)
           /\ Len([i \in DOMAIN s |-> s[i].job]) = Len(s)
<1>1. DOMAIN s = 1 .. Len(s) /\ Len(s) \in Nat
  BY LenProperties
<1>2. \A i \in 1 .. Len(s) : s[i] \in Deliveries
  BY ElementOfSeq
<1>3. \A i \in 1 .. Len(s) : s[i].job \in JobQueue!Jobs
  BY <1>2 DEF Deliveries
<1> QED BY <1>1, <1>3

(* What the queues keep of their two histories.                            *)
QueueTypes == queue \in Seq(JobQueue!Jobs) /\ taken \in Seq(Deliveries)

(* The two histories of the channel as sequences of jobs.                  *)
LEMMA Histories ==
    ASSUME QueueTypes
    PROVE  /\ JobQueue!Delivered \in Seq(JobQueue!Jobs)
           /\ Len(JobQueue!Delivered) = Len(taken)
           /\ Len(JobQueue!Delivered) \in Nat /\ Len(queue) \in Nat
           /\ Len(JobQueue!Delivered \o queue) = Len(JobQueue!Delivered) + Len(queue)
<1>1. /\ JobQueue!Delivered \in Seq(JobQueue!Jobs)
      /\ Len(JobQueue!Delivered) = Len(taken)
  BY JobsOfDeliveries DEF QueueTypes, JobQueue!Delivered
<1> QED BY <1>1, ConcatProperties, LenProperties DEF QueueTypes

(* Whichever queue runs, putting a job at the back of a queue that is not  *)
(* full is a Send of the channel, and taking the front one is a Receive.   *)
LEMMA PutSends ==
    ASSUME QueueTypes, NEW job \in JobQueue!Jobs, Len(queue) < Capacity,
           queue' = Append(queue, job), taken' = taken
    PROVE  JobQueue!Channel!Next
<1>1. JobQueue!Delivered' = JobQueue!Delivered
  BY DEF JobQueue!Delivered
<1>2. JobQueue!Delivered' \o queue' = Append(JobQueue!Delivered \o queue, job)
  BY Histories, <1>1 DEF QueueTypes
<1>3. Capacity \in Nat
  BY Constants DEF JobQueue!JobQueueAssumption
<1>4. Len(JobQueue!Delivered \o queue) < Len(JobQueue!Delivered) + Capacity
  BY Histories, <1>3
<1>5. JobQueue!Channel!Send(job)
  BY <1>1, <1>2, <1>4 DEF JobQueue!Channel!Send
<1> QED BY <1>5 DEF JobQueue!Channel!Next

(* Taking the front job, delivered to c, is a Receive.                     *)
LEMMA GetReceives ==
    ASSUME QueueTypes, NEW c \in Consumers, queue # <<>>, queue' = Tail(queue),
           taken' = Append(taken, [to |-> c, job |-> Head(queue)])
    PROVE  JobQueue!Channel!Next
<1> DEFINE D == JobQueue!Delivered
           d == [to |-> c, job |-> Head(queue)]
<1>0. /\ queue \in Seq(JobQueue!Jobs) /\ taken \in Seq(Deliveries)
      /\ D \in Seq(JobQueue!Jobs) /\ Len(D) = Len(taken)
      /\ Len(D) \in Nat /\ Len(queue) \in Nat
      /\ Len(D \o queue) = Len(D) + Len(queue)
  BY Histories DEF QueueTypes
<1>2. Head(queue) \in JobQueue!Jobs /\ Head(queue) = queue[1] /\ Len(queue) > 0
  BY <1>0, HeadTailProperties, EmptySeq
<1>3. d \in Deliveries /\ d.job = Head(queue) /\ taken' = Append(taken, d)
  BY <1>2 DEF Deliveries
<1> HIDE DEF d
<1>4. D' = Append(D, Head(queue))
  <2>1. Len(taken') = Len(taken) + 1 /\ taken' \in Seq(Deliveries)
    BY <1>0, <1>3
  <2>2. D' \in Seq(JobQueue!Jobs) /\ Len(D') = Len(taken')
    BY <2>1, JobsOfDeliveries DEF JobQueue!Delivered
  <2>3. \A i \in 1 .. Len(taken') : D'[i] = taken'[i].job
    BY <2>1 DEF JobQueue!Delivered
  <2>4. \A i \in 1 .. Len(taken) : D[i] = taken[i].job
    BY <1>0 DEF JobQueue!Delivered
  <2>5. \A i \in 1 .. Len(taken') :
            taken'[i] = IF i = Len(taken) + 1 THEN d ELSE taken[i]
    BY <1>0, <1>3
  <2> HIDE DEF D
  <2>6. \A i \in 1 .. Len(taken') : D'[i] = Append(D, Head(queue))[i]
    BY <1>0, <1>2, <1>3, <2>1, <2>3, <2>4, <2>5
  <2>7. /\ Append(D, Head(queue)) \in Seq(JobQueue!Jobs)
        /\ Len(Append(D, Head(queue))) = Len(taken')
    BY <1>0, <1>2, <2>1
  <2> QED BY <2>1, <2>2, <2>6, <2>7, SeqEqual
<1> HIDE DEF D
<1>5. D' \o queue' = D \o queue
  BY <1>0, <1>2, <1>4
<1>6. (D \o queue)[Len(D) + 1] = Head(queue)
  BY <1>0, <1>2
<1>7. JobQueue!Channel!Receive
  BY <1>0, <1>2, <1>4, <1>5, <1>6 DEF JobQueue!Channel!Receive, D
<1> QED BY <1>7 DEF JobQueue!Channel!Next

(* Every other step leaves the two histories alone.                        *)
LEMMA QueueUnseen ==
    ASSUME queue' = queue, taken' = taken
    PROVE  UNCHANGED JobQueue!Channel!vars
BY DEF JobQueue!Channel!vars, JobQueue!Delivered

(* So every step of a queue is a step of the channel or a stutter.         *)
LEMMA QueuesRefine ==
    Inv /\ [Next]_vars => [JobQueue!Channel!Next]_(JobQueue!Channel!vars)
<1> SUFFICES ASSUME Inv, [Next]_vars
             PROVE  [JobQueue!Channel!Next]_(JobQueue!Channel!vars)
  OBVIOUS
<1>1. CASE RunsJobQueue /\ JobQueue!Next
  <2>0. /\ JobQueue!TypeOK /\ QueueTypes
        /\ Capacity \in Nat /\ Len(queue) \in Nat /\ Len(queue) <= Capacity
    BY <1>1, Constants, LenProperties
    DEF RunsJobQueue, Inv, JobQueue!NoSleeperLeftBehind, JobQueue!TypeOK,
        JobQueue!JobQueueAssumption, QueueTypes, Deliveries
  <2>1. ASSUME NEW p \in Producers, JobQueue!Add(p)
        PROVE  JobQueue!Channel!Next
    <3>1. <<p, added[p] + 1>> \in JobQueue!Jobs
      BY <2>0, <2>1, NextJob DEF JobQueue!TypeOK, JobQueue!Add, JobQueue!Adding
    <3>2. Len(queue) < Capacity
      BY <2>0, <2>1 DEF JobQueue!Add
    <3> QED BY <2>0, <2>1, <3>1, <3>2, PutSends DEF JobQueue!Add
  <2>2. ASSUME NEW c \in Consumers, JobQueue!Take(c)
        PROVE  JobQueue!Channel!Next
    BY <2>0, <2>2, GetReceives DEF JobQueue!Take
  <2>3. ASSUME NEW t, \/ JobQueue!AddWaits(t) \/ JobQueue!TakeWaits(t)
                      \/ JobQueue!SpuriousWakeup(t) \/ JobQueue!Interrupt(t)
        PROVE  queue' = queue /\ taken' = taken
    BY <2>3 DEF JobQueue!AddWaits, JobQueue!TakeWaits, JobQueue!SpuriousWakeup,
       JobQueue!Interrupt
  <2>4. ASSUME JobQueue!Joined
        PROVE  queue' = queue /\ taken' = taken
    BY <2>4 DEF JobQueue!Joined, JobQueue!vars
  <2> QED BY <1>1, <2>1, <2>2, <2>3, <2>4, QueueUnseen DEF JobQueue!Next
<1>2. CASE RunsPC /\ PC!Next
  <2>0. SlotsInv /\ PC!TypeOK /\ QueueTypes
    BY <1>2, SameJobs
    DEF RunsPC, Inv, SlotsInv, PC!SlotsConserved, PC!TypeOK, QueueTypes, Deliveries
  <2>a. /\ Capacity \in Nat /\ Len(queue) \in Nat
        /\ emptySlots \in Nat /\ fullSlots \in Nat
    BY <2>0, Constants, LenProperties DEF PC!BufferAssumption, PC!TypeOK
  <2>1. ASSUME NEW p \in Producers, PC!Produce(p)
        PROVE  JobQueue!Channel!Next
    <3>1. <<p, added[p] + 1>> \in JobQueue!Jobs
      BY <2>0, <2>1, NextJob DEF SlotsInv, PC!TypeOK, PC!Produce
    <3>2. PC!Cardinality(producing) \in Nat /\ PC!Cardinality(producing) > 0
      BY <2>0, <2>1, FiniteThreads, Passing DEF PC!TypeOK, PC!Produce
    <3>3. Len(queue) < Capacity
      BY <2>0, <2>a, <3>2 DEF SlotsInv, PC!SlotsConserved
    <3> QED BY <2>0, <2>1, <3>1, <3>3, PutSends DEF PC!Produce
  <2>2. ASSUME NEW c \in Consumers, PC!Consume(c)
        PROVE  JobQueue!Channel!Next
    <3>1. PC!Cardinality(consuming) \in Nat /\ PC!Cardinality(consuming) > 0
      BY <2>0, <2>2, FiniteThreads, Passing DEF PC!TypeOK, PC!Consume
    <3>2. Len(queue) > 0
      BY <2>0, <2>a, <3>1 DEF SlotsInv, PC!SlotsConserved
    <3>3. queue # <<>>
      BY <3>2, EmptySeq
    <3> QED BY <2>0, <2>2, <3>3, GetReceives DEF PC!Consume
  <2>3. ASSUME NEW t, PC!AcquireEmptySlot(t) \/ PC!AcquireFullSlot(t)
        PROVE  queue' = queue /\ taken' = taken
    BY <2>3 DEF PC!AcquireEmptySlot, PC!AcquireFullSlot
  <2>4. ASSUME PC!Joined
        PROVE  queue' = queue /\ taken' = taken
    BY <2>4 DEF PC!Joined, PC!vars
  <2> QED BY <1>2, <2>1, <2>2, <2>3, <2>4, QueueUnseen DEF PC!Next
<1>3. CASE RunsQueue /\ Queue!Next
  <2>0. /\ Queue!TypeOK /\ QueueTypes
        /\ Capacity \in Nat /\ Len(queue) \in Nat
    BY <1>3, Constants, SameJobs, LenProperties
    DEF RunsQueue, Inv, Queue!NoLostWakeup, Queue!TypeOK, Queue!Deliveries,
        Queue!QueueAssumption, QueueTypes, Deliveries
  <2>1. ASSUME NEW p \in Producers, Queue!Add(p)
        PROVE  JobQueue!Channel!Next
    <3>1. <<p, added[p] + 1>> \in JobQueue!Jobs
      BY <2>0, <2>1, NextJob DEF Queue!TypeOK, Queue!Add, Queue!Adding
    <3>2. Len(queue) < Capacity
      BY <2>0, <2>1 DEF Queue!Add, Queue!Full
    <3> QED BY <2>0, <2>1, <3>1, <3>2, PutSends DEF Queue!Add
  <2>2. ASSUME NEW c \in Consumers, Queue!Take(c)
        PROVE  JobQueue!Channel!Next
    BY <2>0, <2>2, GetReceives DEF Queue!Take
  <2>3. ASSUME NEW t, \/ Queue!AddWaits(t) \/ Queue!TakeWaits(t)
                      \/ Queue!SpuriousWakeup(t)
        PROVE  queue' = queue /\ taken' = taken
    BY <2>3 DEF Queue!AddWaits, Queue!TakeWaits, Queue!SpuriousWakeup
  <2>4. ASSUME Queue!Joined
        PROVE  queue' = queue /\ taken' = taken
    BY <2>4 DEF Queue!Joined, Queue!vars
  <2> QED BY <1>3, <2>1, <2>2, <2>3, <2>4, QueueUnseen DEF Queue!Next
<1>4. CASE RunsLogger \/ UNCHANGED vars
  BY <1>4, QueueUnseen DEF RunsLogger, vars, common
<1> QED BY <1>1, <1>2, <1>3, <1>4 DEF Next

-----------------------------------------------------------------------------
(* log sends, writing a message receives: the front of the batch is the    *)
(* first message that has not been written.                                *)
LEMMA LogSends ==
    ASSUME LoggerInv, Logger!Log
    PROVE  Logger!Channel!Next
<1>1. /\ logged \in Nat /\ logged < MaxMessages /\ MaxMessages \in Nat
      /\ logged' = logged + 1 /\ written' = written /\ Len(written) \in Nat
  BY Constants, LoggerSequences
  DEF LoggerInv, Logger!NothingLost, Logger!Log, Logger!LoggerAssumption
<1>2. [m \in 1 .. logged' |-> m] = Append([m \in 1 .. logged |-> m], logged + 1)
  BY <1>1
<1>3. Len([m \in 1 .. logged |-> m]) < Len(written) + MaxMessages
  BY <1>1
<1>4. PICK m \in 1 .. MaxMessages : m = logged + 1
  BY <1>1
<1>5. Logger!Channel!Send(m)
  BY <1>1, <1>2, <1>3, <1>4 DEF Logger!Channel!Send
<1> QED BY <1>5 DEF Logger!Channel!Next

(* Writing the front of the batch is a Receive of the next message.        *)
LEMMA WriteReceives ==
    ASSUME LoggerInv, Logger!WriteMessage
    PROVE  Logger!Channel!Next
<1>1. /\ logged \in Nat /\ logged' = logged
      /\ written' = Append(written, Head(batch)) /\ batch # <<>>
      /\ Len(written) \in Nat /\ Len(batch) \in Nat /\ Len(buffer) \in Nat
      /\ Len(batch) # 0 /\ Len(written) + Len(batch) + Len(buffer) = logged
      /\ batch \in Seq(1 .. logged)
  BY LoggerSequences DEF LoggerInv, Logger!NothingLost, Logger!WriteMessage
<1>2. Head(batch) = batch[1]
  BY <1>1, HeadTailProperties
<1>3. Head(batch) = Len(written) + 1
  BY <1>1, <1>2 DEF LoggerInv, InOrder
<1>4. Len([m \in 1 .. logged |-> m]) = logged
  BY <1>1
<1>5. Len(written) < logged /\ Len(written) + 1 \in 1 .. logged
  BY <1>1
<1>6. [m \in 1 .. logged |-> m][Len(written) + 1] = Head(batch)
  BY <1>3, <1>5
<1>7. Logger!Channel!Receive
  BY <1>1, <1>4, <1>5, <1>6 DEF Logger!Channel!Receive
<1> QED BY <1>7 DEF Logger!Channel!Next

(* Every other step of the logger leaves both histories alone.             *)
LEMMA LoggerUnseen ==
    ASSUME logged' = logged, written' = written
    PROVE  UNCHANGED Logger!Channel!vars
BY DEF Logger!Channel!vars

(* So every step of the logger is a step of the channel or a stutter.      *)
LEMMA LoggerRefines ==
    Inv /\ [Next]_vars => [Logger!Channel!Next]_(Logger!Channel!vars)
<1> SUFFICES ASSUME Inv, [Next]_vars
             PROVE  [Logger!Channel!Next]_(Logger!Channel!vars)
  OBVIOUS
<1>1. CASE RunsLogger /\ Logger!Next
  <2>0. LoggerInv
    BY <1>1 DEF Inv, RunsLogger
  <2>1. ASSUME ~Logger!Log, ~Logger!WriteMessage
        PROVE  logged' = logged /\ written' = written
    BY <1>1, <2>1
    DEF Logger!Next, Logger!WorkerStep, Logger!DestructorStep, Logger!Sleep,
        Logger!Exit, Logger!TakeBatch, Logger!FinishBatch, Logger!TimeOut,
        Logger!SpuriousWakeup, Logger!Stop, Logger!NotifyStop, Logger!Join,
        Logger!Tick
  <2> QED BY <2>0, <2>1, LogSends, WriteReceives, LoggerUnseen
<1>2. CASE RunsQueue \/ RunsJobQueue \/ RunsPC \/ UNCHANGED vars
  BY <1>2, LoggerUnseen DEF RunsQueue, RunsJobQueue, RunsPC, vars, logger
<1> QED BY <1>1, <1>2 DEF Next

(* The queues and the logger implement the FIFO channel: nothing is lost,  *)
(* duplicated or overtaken, and no queue ever holds more than Capacity.    *)
THEOREM ImplementChannel == Spec => ChannelSpec
<1>1. Init => JobQueue!Channel!Init /\ Logger!Channel!Init
  <2> SUFFICES ASSUME Init
               PROVE  JobQueue!Channel!Init /\ Logger!Channel!Init
    OBVIOUS
  <2>1. taken = <<>> /\ queue = <<>> /\ written = <<>> /\ logged = 0
    BY DEF Init, JobQueue!Init, Logger!Init
  <2>2. JobQueue!Delivered = <<>> /\ JobQueue!Delivered \o queue = <<>>
    BY <2>1 DEF JobQueue!Delivered
  <2>3. [m \in 1 .. logged |-> m] = <<>>
    BY <2>1
  <2> QED BY <2>1, <2>2, <2>3 DEF JobQueue!Channel!Init, Logger!Channel!Init
<1> QED BY <1>1, QueuesRefine, LoggerRefines, Invariance, PTL
        DEF Spec, ChannelSpec, JobQueue!ChannelSpec, Logger!ChannelSpec,
            JobQueue!Channel!Spec, Logger!Channel!Spec
=============================================================================
