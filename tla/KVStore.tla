------------------------------ MODULE KVStore ------------------------------
(***************************************************************************)
(* The two classes ThreadSafeKVStore, of KVStore.cpp and of Java/: a map   *)
(* behind a lock that readers share and writers do not.  A call waits in   *)
(* queue for the lock, and then takes a step for each access to the map;   *)
(* the last one is joined with the unlock and the return.  They differ in  *)
(* the lock, which lets waiting threads in by their order of arrival only  *)
(* in Java, and in the calls: Java has tryPut, which waits for a limited   *)
(* time, and main's thread A, whose call "hold" never unlocks.             *)
(***************************************************************************)
EXTENDS Integers, Sequences, FiniteSets

CONSTANTS Threads, Keys, Values,
          FairLock,   \* the threads enter in the order in which they came
          Ops,        \* the operations of the program
          Absent,     \* "" in C++, null in Java
          Idle, Nothing

KVAssumption == FairLock \in BOOLEAN /\ Absent \notin Values

Calls == [op : Ops \cap {"get", "hold"}, key : Keys, val : {Absent}]
         \cup [op : Ops \ {"get", "hold"}, key : Keys, val : Values]

VARIABLES store,
          queue,     \* the threads that wait for the lock, in order of arrival
          readers, writers,   \* the threads inside
          found,     \* found[t]: what the find of t's call said, or Nothing
          call,      \* call[t]: the call of t that has not returned, or Idle
          answer     \* answer[t]: what its last call returned, or Nothing

vars == <<store, queue, readers, writers, found, call, answer>>

Init == /\ store = [k \in Keys |-> Absent]
        /\ queue = <<>> /\ readers = {} /\ writers = {}
        /\ found = [t \in Threads |-> Nothing]
        /\ call = [t \in Threads |-> Idle]
        /\ answer = [t \in Threads |-> Nothing]

-----------------------------------------------------------------------------
Op(t) == IF call[t] = Idle THEN "none" ELSE call[t].op
Key(t) == call[t].key
Waits(t) == \E i \in DOMAIN queue : queue[i] = t

(* The lock, std::shared_mutex or ReentrantReadWriteLock.                  *)
MayEnter(t) == /\ Waits(t)
               /\ FairLock => t = Head(queue)
               /\ writers = {} /\ (Op(t) # "get" => readers = {})

Invoke(t, c) == /\ call[t] = Idle
                /\ call' = [call EXCEPT ![t] = c]
                /\ queue' = Append(queue, t)
                /\ answer' = [answer EXCEPT ![t] = Nothing]
                /\ UNCHANGED <<store, readers, writers, found>>

(* shared_lock in place of unique_lock.                                    *)
Lock_Shared(t) == /\ Waits(t) /\ writers = {}
                  /\ queue' = SelectSeq(queue, LAMBDA u : u # t)
                  /\ readers' = readers \cup {t}
                  /\ UNCHANGED <<store, found, call, answer, writers>>

Lock(t) == /\ MayEnter(t)
           /\ queue' = SelectSeq(queue, LAMBDA u : u # t)
           /\ IF Op(t) = "get" THEN readers' = readers \cup {t} /\ UNCHANGED writers
                               ELSE writers' = writers \cup {t} /\ UNCHANGED readers
           /\ UNCHANGED <<store, found, call, answer>>

Return(t, result) == /\ readers' = readers \ {t} /\ writers' = writers \ {t}
                     /\ call' = [call EXCEPT ![t] = Idle]
                     /\ found' = [found EXCEPT ![t] = Nothing]
                     /\ answer' = [answer EXCEPT ![t] = result]
                     /\ UNCHANGED queue

Inside(t) == t \in readers \cup writers

-----------------------------------------------------------------------------
(* find in get, find and containsKey in putIfAbsent.                       *)
Find(t) == /\ Inside(t) /\ found[t] = Nothing
           /\ Op(t) \in {"get", "putIfAbsent"}
           /\ found' = [found EXCEPT ![t] = store[Key(t)] # Absent]
           /\ UNCHANGED <<store, queue, readers, writers, call, answer>>

(* get: what find has found is read, or "" returned.                       *)
get(t) == /\ Inside(t) /\ Op(t) = "get" /\ found[t] # Nothing
          /\ Return(t, IF found[t] THEN store[Key(t)] ELSE Absent)
          /\ UNCHANGED store

put(t) == /\ Inside(t) /\ Op(t) = "put"
          /\ store' = [store EXCEPT ![Key(t)] = call[t].val]
          /\ Return(t, Nothing)

putIfAbsent(t) == /\ Inside(t) /\ Op(t) = "putIfAbsent" /\ found[t] # Nothing
                  /\ store' = [store EXCEPT ![Key(t)] = IF found[t] THEN @
                                                        ELSE call[t].val]
                  /\ Return(t, ~found[t])

(* Java: one access in get.                                                *)
javaGet(t) == /\ Inside(t) /\ Op(t) = "get"
              /\ Return(t, store[Key(t)])
              /\ UNCHANGED store

tryPut(t) == /\ Inside(t) /\ Op(t) = "tryPut"
             /\ store' = [store EXCEPT ![Key(t)] = call[t].val]
             /\ Return(t, TRUE)

(* The two seconds of tryLock are over.                                    *)
TimeOut(t) == /\ Waits(t) /\ Op(t) = "tryPut"
              /\ queue' = SelectSeq(queue, LAMBDA u : u # t)
              /\ call' = [call EXCEPT ![t] = Idle]
              /\ answer' = [answer EXCEPT ![t] = FALSE]
              /\ UNCHANGED <<store, readers, writers, found>>

Proceed(t) == Lock(t) \/ Find(t) \/ get(t) \/ put(t) \/ putIfAbsent(t)
JavaProceed(t) == \/ Lock(t)
                  \/ Find(t) /\ Op(t) = "putIfAbsent"
                  \/ javaGet(t) \/ tryPut(t) \/ putIfAbsent(t)

Next == \E t \in Threads : Proceed(t) \/ \E c \in Calls : Invoke(t, c)
JavaNext == \E t \in Threads : \/ JavaProceed(t) \/ TimeOut(t)
                               \/ \E c \in Calls : Invoke(t, c)

Spec == Init /\ [][Next]_vars
JavaSpec == Init /\ [][JavaNext]_vars

-----------------------------------------------------------------------------
(* "ATOMIC Check-Then-Act": every call takes effect at one moment, the two *)
(* accesses of putIfAbsent and of get included.                            *)
Atomic == INSTANCE AtomicStore WITH
              Calls <- [op : {"get", "put", "tryPut", "putIfAbsent", "hold"},
                        key : Keys, val : Values \cup {Absent}]
StoreSpec == Atomic!Spec

(* Java: tryPut never hangs, even behind a writer that does not unlock;    *)
(* and while there is none, fairness "prevents Writer Starvation if        *)
(* readers are endless", and every call returns.                           *)
CallsReturn ==
    /\ \A t \in Threads : Op(t) = "tryPut" /\ ~Inside(t) ~> call[t] = Idle
    /\ [](\A t \in Threads : Op(t) # "hold")
           => \A t \in Threads : call[t] # Idle ~> call[t] = Idle
=============================================================================
