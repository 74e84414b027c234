----------------------------- MODULE Channels ------------------------------
(***************************************************************************)
(* Four programs that hand messages from threads to threads as       *)
(* FifoChannel promises, in one state space: the initial state chooses the *)
(* program that runs, and the variables that belong to the others never    *)
(* change.                                                                 *)
(***************************************************************************)
EXTENDS Naturals, Sequences

CONSTANTS Producers, Consumers, Capacity, Interruptible,
          AddsEach, TakesEach,     \* the calls that each of the threads makes
          BatchSize, WaitSeconds, MaxMessages

Adds == [p \in Producers |-> AddsEach]
Takes == [c \in Consumers |-> TakesEach]

VARIABLES program,
          queue, added, taken,                          \* of the three queues
          notFull, notEmpty, awake,                     \* of ThreadSafeQueue
          waiting, ended,                               \* of ConcurrentJobQueue
          emptySlots, fullSlots, producing, consuming,  \* of ProducerConsumer
          buffer, running, worker, left, batch, destructor, logged,
          written                                       \* of AsyncBatchLogger

common == <<queue, added, taken>>
condvars == <<notFull, notEmpty, awake>>
monitor == <<waiting, ended>>
semaphores == <<emptySlots, fullSlots, producing, consuming>>
logger == <<buffer, running, worker, left, batch, destructor, logged, written>>
vars == <<program, common, condvars, monitor, semaphores, logger>>

Queue == INSTANCE ThreadSafeQueue WITH q <- queue
JobQueue == INSTANCE ConcurrentJobQueue
PC == INSTANCE ProducerConsumer WITH buffer <- queue
Logger == INSTANCE AsyncBatchLogger

ASSUME ChannelsAssumption == /\ Queue!QueueAssumption
                             /\ JobQueue!JobQueueAssumption
                             /\ PC!BufferAssumption
                             /\ Logger!LoggerAssumption

Init == /\ program \in {"ThreadSafeQueue", "ConcurrentJobQueue",
                        "ProducerConsumer", "AsyncBatchLogger"}
        /\ Queue!Init
        /\ JobQueue!Init
        /\ PC!Init
        /\ Logger!Init

RunsQueue == /\ program = "ThreadSafeQueue"
             /\ UNCHANGED <<program, monitor, semaphores, logger>>
RunsJobQueue == /\ program = "ConcurrentJobQueue"
                /\ UNCHANGED <<program, condvars, semaphores, logger>>
RunsPC == /\ program = "ProducerConsumer"
          /\ UNCHANGED <<program, condvars, monitor, logger>>
RunsLogger == /\ program = "AsyncBatchLogger"
              /\ UNCHANGED <<program, common, condvars, monitor, semaphores>>
Next == \/ RunsQueue /\ Queue!Next
        \/ RunsJobQueue /\ JobQueue!Next
        \/ RunsPC /\ PC!Next
        \/ RunsLogger /\ Logger!Next

Proceed(t) == \/ RunsQueue /\ Queue!Proceed(t)
              \/ RunsJobQueue /\ JobQueue!Proceed(t)
              \/ RunsPC /\ PC!Proceed(t)

Spec == /\ Init /\ [][Next]_vars
        /\ \A t \in Producers \cup Consumers : WF_vars(Proceed(t))
        /\ WF_vars(RunsLogger /\ Logger!WorkerStep)
        /\ WF_vars(RunsLogger /\ Logger!DestructorStep)
        /\ WF_vars(RunsLogger /\ Logger!Tick)

-----------------------------------------------------------------------------
(* Nobody sleeps who could go on: not in the two condition variables, not  *)
(* in the one monitor of the Java queue, and not the logger's worker       *)
(* behind a full batch or a stop.                                          *)
NoSleeperLeftBehind ==
    /\ program = "ThreadSafeQueue" => Queue!NoLostWakeup
    /\ program = "ConcurrentJobQueue" => JobQueue!NoSleeperLeftBehind
    /\ program = "AsyncBatchLogger" => Logger!SleepsOnlyWhenIdle

(* The two semaphores account for every slot and every item.               *)
SlotsConserved == program = "ProducerConsumer" => PC!SlotsConserved

(* The logger's shutdown leaves no message unwritten.                      *)
NothingLost == program = "AsyncBatchLogger" => Logger!NothingLost

(* All four implement the FIFO channel, bounded in the queues.             *)
ChannelSpec == JobQueue!ChannelSpec /\ Logger!ChannelSpec

(* Every call returns, in the Java queue unless somebody is interrupted,   *)
(* and so does the logger's destructor.                                    *)
Termination == /\ program # "AsyncBatchLogger" => JobQueue!Termination
               /\ program = "AsyncBatchLogger" => Logger!DestructorReturns

(* A logged message is written without further calls.                      *)
EventuallyWritten == Logger!EventuallyWritten
=============================================================================
