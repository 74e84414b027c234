--------------------------- MODULE JobScheduler ---------------------------
(***************************************************************************)
(* JobScheduler.cpp: one worker thread runs delayed jobs from a priority   *)
(* queue ordered by executeAt.  schedule and stopScheduler are called from *)
(* any thread at any time, a running task included, since the worker       *)
(* unlocks while it runs one.  A critical section is one step; the         *)
(* worker's state says where it stands between two of them.  The clock     *)
(* runs by itself, so that every step may come late.                       *)
(***************************************************************************)
EXTENDS Integers, FiniteSets, TLAPS

CONSTANTS Jobs,     \* each is scheduled at most once
          Delays,   \* the delays callers ask for
          Horizon   \* bound: the clock stops here and no job is due later

ASSUME SchedulerAssumption == /\ Delays \subseteq Nat
                              /\ Horizon \in Nat

VARIABLES now,        \* steady_clock
          pq,         \* the jobs in the priority queue
          executeAt,  \* due time of every job scheduled so far, else -1
          stop,
          stopper,    \* the caller of stopScheduler: before, between, after
          worker,     \* "contending" for mtx, "waiting", "waitingUntil",
                      \* "running" a task with mtx released, or "exited"
          wakeAt,     \* the deadline of the wait_until in progress
          executed    \* history: [job, at, overtaken] of every task started;
                      \* overtaken: the jobs then in the queue

vars == <<now, pq, executeAt, stop, stopper, worker, wakeAt, executed>>

Scheduled == {j \in Jobs : executeAt[j] # -1}
Started == {r.job : r \in executed}
Asleep == worker \in {"waiting", "waitingUntil"}
Earliest == {j \in pq : \A k \in pq : executeAt[j] <= executeAt[k]}

Init == /\ now = 0
        /\ pq = {} /\ executeAt = [j \in Jobs |-> -1]
        /\ stop = FALSE /\ stopper = "before"
        /\ worker = "contending" /\ wakeAt = 0
        /\ executed = {}

-----------------------------------------------------------------------------
(* There is one sleeper at most, so notify_one and notify_all agree.       *)
Notified == IF Asleep THEN "contending" ELSE worker

Schedule_NotifyIfEmpty(j, d) ==
    /\ j \notin Scheduled /\ now + d <= Horizon
    /\ executeAt' = [executeAt EXCEPT ![j] = now + d]
    /\ pq' = pq \cup {j}
    /\ worker' = IF pq = {} THEN Notified ELSE worker
    /\ UNCHANGED <<now, stop, stopper, wakeAt, executed>>

Schedule(j, d) ==
    /\ j \notin Scheduled /\ now + d <= Horizon
    /\ executeAt' = [executeAt EXCEPT ![j] = now + d]
    /\ pq' = pq \cup {j}
    /\ worker' = Notified
    /\ UNCHANGED <<now, stop, stopper, wakeAt, executed>>

(* stopScheduler: the flag under the lock, the notification after it.      *)
SetStop == /\ stopper = "before"
           /\ stop' = TRUE /\ stopper' = "between"
           /\ UNCHANGED <<now, pq, executeAt, worker, wakeAt, executed>>

NotifyStop_Forgotten ==
    /\ stopper = "between" /\ stopper' = "after"
    /\ UNCHANGED <<now, pq, executeAt, stop, worker, wakeAt, executed>>

NotifyStop == /\ stopper = "between" /\ stopper' = "after"
              /\ worker' = Notified
              /\ UNCHANGED <<now, pq, executeAt, stop, wakeAt, executed>>

(* run, from the moment the worker holds mtx to the next wait, task or     *)
(* return.                                                                 *)
Exit_OnStop == /\ worker = "contending"
               /\ stop
               /\ worker' = "exited"
               /\ UNCHANGED <<now, pq, executeAt, stop, stopper, wakeAt, executed>>

Exit == /\ worker = "contending"
        /\ pq = {} /\ stop
        /\ worker' = "exited"
        /\ UNCHANGED <<now, pq, executeAt, stop, stopper, wakeAt, executed>>

WaitForJob == /\ worker = "contending"
              /\ pq = {} /\ ~stop
              /\ worker' = "waiting"
              /\ UNCHANGED <<now, pq, executeAt, stop, stopper, wakeAt, executed>>

StartTask_Any(j) == /\ worker = "contending"
                    /\ j \in pq /\ now >= executeAt[j]
                    /\ pq' = pq \ {j}
                    /\ executed' = executed \cup
                           {[job |-> j, at |-> now, overtaken |-> pq \ {j}]}
                    /\ worker' = "running"
                    /\ UNCHANGED <<now, executeAt, stop, stopper, wakeAt>>

StartTask(j) == /\ worker = "contending"
                /\ j \in Earliest /\ now >= executeAt[j]
                /\ pq' = pq \ {j}
                /\ executed' = executed \cup
                       {[job |-> j, at |-> now, overtaken |-> pq \ {j}]}
                /\ worker' = "running"
                /\ UNCHANGED <<now, executeAt, stop, stopper, wakeAt>>

WaitUntilDue(j) == /\ worker = "contending"
                   /\ j \in Earliest /\ now < executeAt[j]
                   /\ worker' = "waitingUntil" /\ wakeAt' = executeAt[j]
                   /\ UNCHANGED <<now, pq, executeAt, stop, stopper, executed>>

(* The task returns and the worker locks mtx again.                        *)
FinishTask == /\ worker = "running"
              /\ worker' = "contending"
              /\ UNCHANGED <<now, pq, executeAt, stop, stopper, wakeAt, executed>>

(* wait_until reaches its deadline.                                        *)
WakeAtDeadline == /\ worker = "waitingUntil" /\ now >= wakeAt
                  /\ worker' = "contending"
                  /\ UNCHANGED <<now, pq, executeAt, stop, stopper, wakeAt, executed>>

SpuriousWakeup == /\ Asleep
                  /\ worker' = "contending"
                  /\ UNCHANGED <<now, pq, executeAt, stop, stopper, wakeAt, executed>>

Tick == /\ now < Horizon /\ now' = now + 1
        /\ UNCHANGED <<pq, executeAt, stop, stopper, worker, wakeAt, executed>>

RunStep == \/ Exit \/ WaitForJob \/ FinishTask \/ WakeAtDeadline
           \/ \E j \in Jobs : StartTask(j) \/ WaitUntilDue(j)

Next == \/ \E j \in Jobs, d \in Delays : Schedule(j, d)
        \/ SetStop \/ NotifyStop
        \/ RunStep \/ SpuriousWakeup
        \/ Tick

Spec == Init /\ [][Next]_vars

(* The clock and the worker keep going, tasks return, and a caller of      *)
(* stopScheduler finishes its call; nobody is obliged to call it.          *)
Fairness == WF_vars(Tick) /\ WF_vars(RunStep) /\ WF_vars(NotifyStop)
FairSpec == Spec /\ Fairness

-----------------------------------------------------------------------------
Times == 0 .. Horizon
TypeOK == /\ now \in Times
          /\ pq \subseteq Scheduled
          /\ executeAt \in [Jobs -> Times \cup {-1}]
          /\ stop \in BOOLEAN
          /\ stopper \in {"before", "between", "after"}
          /\ stop <=> stopper # "before"
          /\ worker \in {"contending", "waiting", "waitingUntil", "running",
                         "exited"}
          /\ wakeAt \in Times
          /\ executed \subseteq [job : Jobs, at : Times, overtaken : SUBSET Jobs]

(* The worker never oversleeps: an untimed sleep means there is no job, a  *)
(* timed one ends no later than the earliest due time, whatever was        *)
(* scheduled meanwhile, and after stopScheduler has notified the worker it *)
(* never sleeps untimed again.                                             *)
NeverOversleeps ==
    /\ worker = "waiting" => pq = {} /\ stopper # "after"
    /\ worker = "waitingUntil" => \A j \in pq : wakeAt <= executeAt[j]

(* Every scheduled job is in the queue or was started, once, not before    *)
(* its time, and ahead only of jobs that were due no earlier.              *)
RunsInDueOrder ==
    /\ TypeOK
    /\ Scheduled = pq \cup Started /\ pq \cap Started = {}
    /\ \A r, s \in executed : r.job = s.job => r = s
    /\ \A r \in executed :
           /\ r.at >= executeAt[r.job]
           /\ \A k \in r.overtaken : executeAt[r.job] <= executeAt[k]

(* No job is dropped by the shutdown: a job in the queue while the worker  *)
(* lives, due in the future or not, is run even when stopScheduler comes   *)
(* first.  A job scheduled after the worker has exited never is.           *)
EveryJobRuns ==
    \A j \in Jobs : (j \in pq /\ worker # "exited") ~> j \in Started

(* stopScheduler leads to the worker's exit, so the join in main returns.  *)
StopEndsWorker == stop ~> worker = "exited"
-----------------------------------------------------------------------------
(* For any jobs and delays, however long the clock runs: the worker never  *)
(* oversleeps, and jobs are started once, in time and in due order.        *)

(* Every step that is not one of schedule, run's StartTask, or the clock   *)
(* leaves the queue, the due times and the history alone.                  *)
LEMMA OtherSteps ==
    ASSUME \/ SetStop \/ NotifyStop \/ Exit \/ WaitForJob \/ FinishTask
           \/ WakeAtDeadline \/ SpuriousWakeup \/ Tick \/ UNCHANGED vars
           \/ \E j \in Jobs : WaitUntilDue(j)
    PROVE  UNCHANGED <<pq, executeAt, executed>>
  BY DEF SetStop, NotifyStop, Exit, WaitForJob, FinishTask, WakeAtDeadline,
         SpuriousWakeup, Tick, WaitUntilDue, vars

(* A job that schedule accepts becomes scheduled, and no other.            *)
LEMMA ScheduleAdds ==
    ASSUME TypeOK, NEW j \in Jobs, NEW d \in Delays, Schedule(j, d)
    PROVE  /\ Scheduled' = Scheduled \cup {j}
           /\ now + d \in Times
           /\ \A k \in Scheduled : executeAt'[k] = executeAt[k]
           /\ executeAt'[j] = now + d
<1> USE SchedulerAssumption
<1>1. now + d \in Times /\ j \notin Scheduled
  BY DEF Schedule, TypeOK, Times
<1>2. \A k \in Jobs : executeAt'[k] = IF k = j THEN now + d ELSE executeAt[k]
  BY DEF Schedule, TypeOK
<1>3. now + d # -1
  BY <1>1 DEF Times
<1> QED BY <1>1, <1>2, <1>3 DEF Scheduled

-----------------------------------------------------------------------------
(* Types, for schedule, run and stopScheduler.                             *)
THEOREM TypeCorrect == Spec => []TypeOK
<1> USE SchedulerAssumption DEF Times
<1>1. Init => TypeOK
  <2> SUFFICES ASSUME Init PROVE TypeOK
    OBVIOUS
  <2>1. now \in Times /\ wakeAt \in Times
    BY DEF Init
  <2>2. executeAt \in [Jobs -> Times \cup {-1}]
    BY DEF Init
  <2>3. pq \subseteq Scheduled
    BY DEF Init
  <2>4. stop \in BOOLEAN /\ (stop <=> stopper # "before")
    BY DEF Init
  <2> QED BY <2>1, <2>2, <2>3, <2>4 DEF Init, TypeOK
<1>2. TypeOK /\ [Next]_vars => TypeOK'
  <2> SUFFICES ASSUME TypeOK, [Next]_vars PROVE TypeOK'
    OBVIOUS
  <2>1. ASSUME NEW j \in Jobs, NEW d \in Delays, Schedule(j, d) PROVE TypeOK'
    <3>1. pq' \subseteq Scheduled'
      BY <2>1, ScheduleAdds DEF Schedule, TypeOK
    <3>2. executeAt' \in [Jobs -> Times \cup {-1}]
      BY <2>1, ScheduleAdds DEF Schedule, TypeOK
    <3> QED BY <2>1, <3>1, <3>2 DEF Schedule, Notified, TypeOK
  <2>2. ASSUME NEW j \in Jobs, StartTask(j) PROVE TypeOK'
    <3>1. pq \in SUBSET Jobs
      BY DEF TypeOK, Scheduled
    <3> QED BY <2>2, <3>1 DEF StartTask, TypeOK, Scheduled
  <2>3. ASSUME NEW j \in Jobs, WaitUntilDue(j) PROVE TypeOK'
    <3>1. executeAt[j] \in Times
      BY <2>3 DEF WaitUntilDue, Earliest, TypeOK, Scheduled
    <3> QED BY <2>3, <3>1 DEF WaitUntilDue, TypeOK, Scheduled
  <2>4. CASE SetStop
    BY <2>4 DEF SetStop, TypeOK, Scheduled
  <2>5. CASE NotifyStop
    BY <2>5 DEF NotifyStop, Notified, TypeOK, Scheduled
  <2>6. CASE Exit \/ WaitForJob \/ FinishTask
    BY <2>6 DEF Exit, WaitForJob, FinishTask, TypeOK, Scheduled
  <2>7. CASE WakeAtDeadline \/ SpuriousWakeup
    BY <2>7 DEF WakeAtDeadline, SpuriousWakeup, TypeOK, Scheduled
  <2>8. CASE Tick
    BY <2>8 DEF Tick, TypeOK, Scheduled
  <2>9. CASE UNCHANGED vars
    BY <2>9 DEF vars, TypeOK, Scheduled
  <2> QED BY <2>1, <2>2, <2>3, <2>4, <2>5, <2>6, <2>7, <2>8, <2>9
          DEF Next, RunStep
<1> QED BY <1>1, <1>2, PTL DEF Spec

-----------------------------------------------------------------------------
(* The sleeps of run end no later than they must: an untimed one only      *)
(* begins with nothing to do and ends with the next call of schedule or    *)
(* stopScheduler, a timed one is never longer than to the next due time.   *)
THEOREM WakesInTime == Spec => []NeverOversleeps
<1>1. Init => NeverOversleeps
  BY DEF Init, NeverOversleeps
<1>2. TypeOK /\ NeverOversleeps /\ [Next]_vars => NeverOversleeps'
  <2> SUFFICES ASSUME TypeOK, NeverOversleeps, [Next]_vars
               PROVE  NeverOversleeps'
    OBVIOUS
  <2>1. ASSUME NEW j \in Jobs, NEW d \in Delays, Schedule(j, d)
        PROVE  NeverOversleeps'
    BY <2>1 DEF Schedule, Notified, Asleep, NeverOversleeps
  <2>2. CASE NotifyStop
    BY <2>2 DEF NotifyStop, Notified, Asleep, NeverOversleeps
  <2>3. CASE SetStop
    BY <2>3 DEF SetStop, NeverOversleeps
  <2>4. CASE WaitForJob
    BY <2>4 DEF WaitForJob, NeverOversleeps, TypeOK
  <2>5. ASSUME NEW j \in Jobs, WaitUntilDue(j) PROVE NeverOversleeps'
    BY <2>5 DEF WaitUntilDue, Earliest, NeverOversleeps
  <2>6. ASSUME NEW j \in Jobs, StartTask(j) PROVE NeverOversleeps'
    BY <2>6 DEF StartTask, NeverOversleeps
  <2>7. CASE Exit \/ FinishTask \/ WakeAtDeadline \/ SpuriousWakeup
    BY <2>7 DEF Exit, FinishTask, WakeAtDeadline, SpuriousWakeup, NeverOversleeps
  <2>8. CASE Tick \/ UNCHANGED vars
    BY <2>8 DEF Tick, vars, NeverOversleeps
  <2> QED BY <2>1, <2>2, <2>3, <2>4, <2>5, <2>6, <2>7, <2>8 DEF Next, RunStep
<1> QED BY <1>1, <1>2, TypeCorrect, PTL DEF Spec

-----------------------------------------------------------------------------
(* Each scheduled job is in the queue or was started, once, not before its *)
(* due time, and ahead only of jobs due no earlier, whatever is scheduled  *)
(* while the worker sleeps or runs a task.                                 *)
THEOREM DueOrder == Spec => []RunsInDueOrder
<1> DEFINE Accounted == Scheduled = pq \cup Started /\ pq \cap Started = {}
           Once == \A r, s \in executed : r.job = s.job => r = s
           InTime(r) == /\ r.at >= executeAt[r.job]
                        /\ \A k \in r.overtaken : executeAt[r.job] <= executeAt[k]
           IInv == Accounted /\ Once /\ \A r \in executed : InTime(r)
<1>1. Init => IInv
  BY DEF Init, Scheduled, Started
<1>2. TypeOK /\ IInv /\ [Next]_vars => IInv'
  <2> SUFFICES ASSUME TypeOK, IInv, [Next]_vars PROVE IInv'
    OBVIOUS
  <2>1. ASSUME NEW j \in Jobs, NEW d \in Delays, Schedule(j, d) PROVE IInv'
    <3>1. executed' = executed /\ pq' = pq \cup {j} /\ j \notin Scheduled
      BY <2>1 DEF Schedule
    <3>2. Started' = Started
      BY <3>1 DEF Started
    <3>3. Accounted' /\ Once'
      BY <2>1, <3>1, <3>2, ScheduleAdds
    <3>4. ASSUME NEW r \in executed PROVE InTime(r)'
      <4>1. r.job \in Scheduled
        BY DEF Started
      <4>2. r.overtaken \subseteq Scheduled
        BY <4>1, SchedulerAssumption DEF TypeOK, Scheduled, Times
      <4> QED BY <2>1, <4>1, <4>2, ScheduleAdds
    <3> QED BY <3>1, <3>3, <3>4
  <2>2. ASSUME NEW j \in Jobs, StartTask(j) PROVE IInv'
    <3>1. PICK new : /\ new.job = j /\ new.at = now /\ new.overtaken = pq \ {j}
                     /\ executed' = executed \cup {new}
      BY <2>2 DEF StartTask
    <3>2. /\ j \in Earliest /\ now >= executeAt[j]
          /\ pq' = pq \ {j} /\ executeAt' = executeAt
      BY <2>2 DEF StartTask
    <3>3. j \in pq /\ j \notin Started
      BY <3>2 DEF Earliest
    <3>4. Accounted'
      <4>1. Started' = Started \cup {j}
        BY <3>1 DEF Started
      <4>2. Scheduled' = Scheduled
        BY <3>2 DEF Scheduled
      <4> QED BY <3>2, <3>3, <4>1, <4>2
    <3>5. Once'
      <4>1. \A r \in executed : r.job # j
        BY <3>3 DEF Started
      <4> QED BY <3>1, <4>1
    <3>6. InTime(new)
      BY <3>1, <3>2 DEF Earliest
    <3> QED BY <3>1, <3>2, <3>4, <3>5, <3>6
  <2>3. CASE UNCHANGED <<pq, executeAt, executed>>
    BY <2>3 DEF Scheduled, Started
  <2> QED BY <2>1, <2>2, <2>3, OtherSteps DEF Next, RunStep
<1>3. TypeOK /\ IInv => RunsInDueOrder
  BY DEF RunsInDueOrder
<1> QED BY <1>1, <1>2, <1>3, TypeCorrect, PTL DEF Spec
=============================================================================
