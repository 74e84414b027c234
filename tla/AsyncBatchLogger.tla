------------------------- MODULE AsyncBatchLogger -------------------------
(***************************************************************************)
(* Practice/AsyncBatchLogger.cpp: AsyncLogger buffers messages, and a      *)
(* background thread writes them in batches when the buffer is full        *)
(* enough, when its wait times out, and when the destructor stops it.      *)
(* log is called by any number of threads until the destructor starts; a   *)
(* message is known by its place in the log.  The worker holds mtx from    *)
(* its wait to lock.unlock(), so that span is one step.                    *)
(***************************************************************************)
EXTENDS Naturals, Sequences

CONSTANTS BatchSize,     \* buffered messages that wake the worker: 5 in the code
          WaitSeconds,   \* the wait_for timeout: 2 in the code
          MaxMessages    \* bound on the number of calls of log

LoggerAssumption == /\ BatchSize \in Nat \ {0}
                    /\ WaitSeconds \in Nat \ {0}
                    /\ MaxMessages \in Nat

VARIABLES buffer,
          running,
          worker,      \* "atLoopTop" or "woken", both to lock mtx next,
                       \* "waiting", "writing" without mtx, or "exited"
          left,        \* seconds before the current wait_for times out
          batch,       \* logs_to_print
          destructor,  \* "idle", "stopping" (running is false, before the
                       \* notification), "joining", "joined"
          logged,      \* how many messages were logged so far
          written      \* history: the messages on the console, in order

vars == <<buffer, running, worker, left, batch, destructor, logged, written>>

Init == /\ buffer = <<>> /\ batch = <<>> /\ written = <<>>
        /\ running = TRUE /\ destructor = "idle"
        /\ worker = "atLoopTop" /\ left = WaitSeconds
        /\ logged = 0

-----------------------------------------------------------------------------
Notified == IF worker = "waiting" THEN "woken" ELSE worker

(* log: push the message; wake the worker when the buffer is full enough.  *)
Log == /\ destructor = "idle" /\ logged < MaxMessages
       /\ logged' = logged + 1
       /\ buffer' = Append(buffer, logged + 1)
       /\ worker' = IF Len(buffer') >= BatchSize THEN Notified ELSE worker
       /\ UNCHANGED <<running, left, batch, destructor, written>>

(* The predicate of wait_for, tested before every sleep.                   *)
Predicate == Len(buffer) >= BatchSize \/ ~running

(* The worker has locked mtx and wait_for returns: at once when the        *)
(* predicate holds, and whatever it says once the time is up.              *)
WaitReturns == \/ worker \in {"atLoopTop", "woken"} /\ Predicate
               \/ worker = "woken" /\ left = 0

Sleep == /\ worker \in {"atLoopTop", "woken"} /\ ~WaitReturns
         /\ worker' = "waiting"
         /\ left' = IF worker = "atLoopTop" THEN WaitSeconds ELSE left
         /\ UNCHANGED <<buffer, running, batch, destructor, logged, written>>

Exit_OnStop == /\ WaitReturns
               /\ ~running
               /\ worker' = "exited"
               /\ UNCHANGED <<buffer, running, left, batch, destructor, logged,
                              written>>

Exit == /\ WaitReturns
        /\ ~running /\ buffer = <<>>
        /\ worker' = "exited"
        /\ UNCHANGED <<buffer, running, left, batch, destructor, logged, written>>

(* Swap the buffer out and unlock; the batch may be empty.                 *)
TakeBatch == /\ WaitReturns
             /\ running \/ buffer # <<>>
             /\ batch' = buffer /\ buffer' = <<>>
             /\ worker' = "writing"
             /\ UNCHANGED <<running, left, destructor, logged, written>>

(* One message after the other, while log may be called.                   *)
WriteMessage == /\ worker = "writing" /\ batch # <<>>
                /\ written' = Append(written, Head(batch)) /\ batch' = Tail(batch)
                /\ UNCHANGED <<buffer, running, worker, left, destructor, logged>>

FinishBatch == /\ worker = "writing" /\ batch = <<>>
               /\ worker' = "atLoopTop"
               /\ UNCHANGED <<buffer, running, left, batch, destructor, logged,
                              written>>

(* wait in place of wait_for.                                              *)
TimeOut_Never == worker = "waiting" /\ FALSE /\ UNCHANGED vars

TimeOut == /\ worker = "waiting" /\ left = 0
           /\ worker' = "woken"
           /\ UNCHANGED <<buffer, running, left, batch, destructor, logged,
                          written>>

SpuriousWakeup == /\ worker = "waiting"
                  /\ worker' = "woken"
                  /\ UNCHANGED <<buffer, running, left, batch, destructor,
                                 logged, written>>

(* ~AsyncLogger: the flag under the lock, then notify_one, then join.      *)
Stop == /\ destructor = "idle"
        /\ running' = FALSE /\ destructor' = "stopping"
        /\ UNCHANGED <<buffer, worker, left, batch, logged, written>>

NotifyStop == /\ destructor = "stopping"
              /\ destructor' = "joining" /\ worker' = Notified
              /\ UNCHANGED <<buffer, running, left, batch, logged, written>>

Join == /\ destructor = "joining" /\ worker = "exited"
        /\ destructor' = "joined"
        /\ UNCHANGED <<buffer, running, worker, left, batch, logged, written>>

(* A second of a wait passes.                                              *)
Tick == /\ worker \in {"waiting", "woken"} /\ left > 0
        /\ left' = left - 1
        /\ UNCHANGED <<buffer, running, worker, batch, destructor, logged, written>>

WorkerStep == Sleep \/ Exit \/ TakeBatch \/ WriteMessage \/ FinishBatch
              \/ TimeOut
DestructorStep == NotifyStop \/ Join

Next == Log \/ WorkerStep \/ SpuriousWakeup \/ Stop \/ DestructorStep \/ Tick

Spec == Init /\ [][Next]_vars

(* The worker runs, time passes while it waits, and a destructor that has  *)
(* started goes on; nobody is obliged to log or to destroy the logger.     *)
Fairness == /\ WF_vars(WorkerStep) /\ WF_vars(DestructorStep)
            /\ WF_vars(Tick)
FairSpec == Spec /\ Fairness

-----------------------------------------------------------------------------
TypeOK == /\ {buffer, batch, written} \subseteq Seq(1 .. logged)
          /\ running = (destructor = "idle")
          /\ worker \in {"atLoopTop", "woken", "waiting", "writing", "exited"}
          /\ left \in 0 .. WaitSeconds
          /\ destructor \in {"idle", "stopping", "joining", "joined"}
          /\ logged \in 0 .. MaxMessages

(* Lines 14 and 15, graceful shutdown: every message is on the console, in *)
(* the batch or in the buffer, once, and when the destructor's join has    *)
(* returned all of them are on the console.                                *)
NothingLost ==
    /\ TypeOK
    /\ Len(written) + Len(batch) + Len(buffer) = logged
    /\ destructor = "joined" => Len(written) = logged

(* The messages reach the console once and in the order in which they were *)
(* logged.  The buffer of the code has no bound.                           *)
Channel == INSTANCE FifoChannel WITH Messages <- 1 .. MaxMessages,
                                     Capacity <- MaxMessages,
                                     sent <- [m \in 1 .. logged |-> m],
                                     rcvd <- written
ChannelSpec == Channel!Spec

(* The worker never sleeps through its wake-up call: asleep, it has        *)
(* neither a full buffer behind it nor a stop it will not be told of.      *)
SleepsOnlyWhenIdle ==
    worker = "waiting" => /\ Len(buffer) < BatchSize
                          /\ running \/ destructor = "stopping"

(* A logged message is written even if no more come and nobody stops the   *)
(* logger: the timeout takes care of the last ones.  At most MaxMessages   *)
(* are logged, so this is to say that the log is complete from some time   *)
(* on.                                                                     *)
EventuallyWritten == <>[](Len(written) = logged)

(* The destructor returns.                                                 *)
DestructorReturns == destructor = "stopping" ~> destructor = "joined"
=============================================================================
