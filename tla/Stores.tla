------------------------------- MODULE Stores -------------------------------
(***************************************************************************)
(* The programs that keep values under keys and give them out again, in    *)
(* one state space: the initial state chooses the program that runs, and   *)
(* the variables of the others never change.                               *)
(***************************************************************************)
EXTENDS Integers

CONSTANTS Threads, Keys, StoredValues,
          PutValues, Capacities,                                 \* ThreadSafeLRU
          LRUKeys, Capacity, Addresses, HeadNode, TailNode, Null, Miss,
          KVKeys,                                                \* KVStore and Cache
          Absent, NoCall, Nothing,                               \* KVStore
          Ttls, IntMax, TicksPerSecond, MaxClock, MaxSetBack,
          nullopt,                                               \* Cache
          Topics, Subscribers, MaxCalls                          \* Broker

VARIABLES program,
          nodes, mp, result, alive, usedSince, latest,  \* of LRUCache
          capacity, lru, inProgress, fetching, waiting, awake, arg,
          answer, stored,                               \* of ThreadSafeLRU
          store, queue, readers, writers, found, call,
          returned,                                     \* of the KVStores
          cache, clock, phase, setBack, got, last,      \* of Cache
          subscribers, console, calls                   \* of Broker

list == <<nodes, mp, result, alive, usedSince, latest>>
flight == <<capacity, lru, inProgress, fetching, waiting, awake, arg, answer, stored>>
kv == <<store, queue, readers, writers, found, call, returned>>
expiring == <<cache, clock, phase, setBack, got, last>>
broker == <<subscribers, console, calls>>
vars == <<program, list, flight, kv, expiring, broker>>

LRU == INSTANCE LRUCache
           WITH Keys <- LRUKeys, Values <- StoredValues,
                Head <- HeadNode, Tail <- TailNode
Flight == INSTANCE ThreadSafeLRU WITH cache <- lru, OneCall <- FALSE
KV == INSTANCE KVStore
          WITH Keys <- KVKeys, Values <- StoredValues, Idle <- NoCall,
               answer <- returned, FairLock <- FALSE,
               Ops <- {"get", "put", "putIfAbsent"}
JavaKV == INSTANCE KVStore
              WITH Keys <- KVKeys, Values <- StoredValues, Idle <- NoCall,
                   answer <- returned, FairLock <- TRUE,
                   Ops <- {"get", "tryPut", "putIfAbsent", "hold"}
Expiring == INSTANCE Cache WITH Keys <- KVKeys, Values <- StoredValues, result <- got
PubSub == INSTANCE Broker

ASSUME StoresAssumption == /\ LRU!ListAssumption
                           /\ Flight!LRUAssumption
                           /\ KV!KVAssumption
                           /\ Expiring!CacheAssumption

Init == /\ program \in {"LRUCache", "ThreadSafeLRU", "KVStore", "Java/KVStore",
                        "Cache", "Broker"}
        /\ LRU!Init
        /\ Flight!Init /\ (program # "ThreadSafeLRU" => capacity = 1)
        /\ KV!Init
        /\ Expiring!Init /\ (program # "Cache" => clock = 0 /\ phase = 0)
        /\ PubSub!Init

Runs(p) == program = p /\ UNCHANGED program
RunsLRU == Runs("LRUCache") /\ UNCHANGED <<flight, kv, expiring, broker>>
RunsFlight == Runs("ThreadSafeLRU") /\ UNCHANGED <<list, kv, expiring, broker>>
RunsKV == Runs("KVStore") /\ UNCHANGED <<list, flight, expiring, broker>>
RunsJavaKV == Runs("Java/KVStore") /\ UNCHANGED <<list, flight, expiring, broker>>
RunsCache == Runs("Cache") /\ UNCHANGED <<list, flight, kv, broker>>
RunsBroker == Runs("Broker") /\ UNCHANGED <<list, flight, kv, expiring>>

Next == \/ RunsLRU /\ LRU!Next
        \/ RunsFlight /\ Flight!Next
        \/ RunsKV /\ KV!Next
        \/ RunsJavaKV /\ JavaKV!JavaNext
        \/ RunsCache /\ Expiring!Next
        \/ RunsBroker /\ PubSub!Next

(* A fetch ends, a thread inside a call goes on when it can, and the time  *)
(* of a timed wait passes; nobody is obliged to make a call.               *)
Spec == /\ Init /\ [][Next]_vars
        /\ \A t \in Threads :
               /\ WF_vars(RunsFlight /\ UNCHANGED capacity /\ Flight!FinishFetch(t))
               /\ WF_vars(RunsFlight /\ UNCHANGED capacity
                             /\ (Flight!Resume(t) \/ Flight!SleepAgain(t)))
               /\ WF_vars(RunsJavaKV /\ JavaKV!JavaProceed(t))
               /\ WF_vars(RunsJavaKV /\ JavaKV!TimeOut(t))

-----------------------------------------------------------------------------
(* The LRU cache's list and map are in step, and no memory is lost.        *)
ListSound == program = "LRUCache" => LRU!ListSound

(* However fetches, puts and evictions race, the cache stays within its    *)
(* capacity and a key is fetched once at a time.                           *)
SingleFlight == program = "ThreadSafeLRU" => Flight!CacheBounded /\ Flight!SingleFlight

(* getOrCompute answers with the value last put or fetched for its key.    *)
AnswersFit == Flight!AnswersFit

(* getOrCompute returns if no eviction interferes; the Java store's calls  *)
(* return unless the lock is never given back, and tryPut even then.       *)
CallsReturn == /\ Flight!CallsReturn
               /\ program = "Java/KVStore" => JavaKV!CallsReturn

(* The LRU cache implements the policy, and the key-value stores a map     *)
(* whose calls take effect at one moment each.                             *)
StoreSpec == LRU!PolicySpec /\ KV!StoreSpec /\ JavaKV!StoreSpec

(* An expiring entry is found while it should be, and no longer, as far as *)
(* its expiry is an int.                                                   *)
ExpiresInTime == program = "Cache" => Expiring!ExpiresInTime

(* A message reaches the subscribers of its topic, in order, and no other. *)
Delivered == program = "Broker" => PubSub!Delivered
=============================================================================
