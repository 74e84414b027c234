--------------------------- MODULE ThreadSafeLRU ---------------------------
(***************************************************************************)
(* Microsoft/ThreadSafeLRU.cpp: an LRU cache whose getOrCompute fetches a  *)
(* missing key outside the lock, once, while other callers for that key    *)
(* sleep.  A critical section is one step (see CondVar).  The linked list  *)
(* and the map are abstracted to the sequence of the cached entries, the   *)
(* most recently used first; LRUCache models such a list by its pointers.  *)
(***************************************************************************)
EXTENDS Integers, Sequences, SequencesExt, FiniteSets, CondVar

CONSTANTS Threads,
          Keys,
          PutValues,  \* values that callers of put store
          Capacities, \* what the constructor may be called with
          OneCall     \* a thread calls getOrCompute once, as main's workers do

LRUAssumption == /\ IsFiniteSet(Threads) /\ IsFiniteSet(Keys)
                 /\ Keys \subseteq Nat /\ Keys # {}
                 /\ PutValues \subseteq Nat
                 /\ Capacities \subseteq Nat \ {0}
                 /\ OneCall \in BOOLEAN

VARIABLES capacity,
          cache,       \* [key, val] entries, most recently used first
          inProgress,
          fetching,    \* threads in slowFetch, without the lock
          waiting,     \* threads asleep in cv
          awake,       \* threads whose sleep has ended, before they re-lock
          arg,         \* arg[t]: the key of t's last call of getOrCompute
          answer,      \* answer[t]: what that call returned, <<>> until then
          stored       \* history: stored[k] is <<v>> for the value v last put
                       \* or fetched for k, <<>> before the first

vars == <<capacity, cache, inProgress, fetching, waiting, awake, arg, answer, stored>>

Idle(t) == t \notin fetching \cup waiting \cup awake
Calling(t) == Idle(t) /\ (OneCall => answer[t] = <<>>)
slowFetch(k) == k * 100
Values == {slowFetch(k) : k \in Keys} \cup PutValues

Cached(k) == \E i \in DOMAIN cache : cache[i].key = k
mp(k) == CHOOSE i \in DOMAIN cache : cache[i].key = k
ValueOf(k) == cache[mp(k)].val
removeNode(k) == RemoveAt(cache, mp(k))

Init == /\ capacity \in Capacities
        /\ cache = <<>>
        /\ inProgress = {}
        /\ fetching = {} /\ waiting = {} /\ awake = {}
        /\ arg = [t \in Threads |-> CHOOSE k \in Keys : TRUE]  \* no call yet
        /\ answer = [t \in Threads |-> <<>>]
        /\ stored = [k \in Keys |-> <<>>]

-----------------------------------------------------------------------------
(* The cache after getInternal and putInternal.                            *)
insertAtFront(entry, rest) == <<entry>> \o rest
getInternal(k) == insertAtFront([key |-> k, val |-> ValueOf(k)], removeNode(k))

Evicted == IF Len(cache) = capacity THEN SubSeq(cache, 1, capacity - 1) ELSE cache
putInternal(k, v) ==
    insertAtFront([key |-> k, val |-> v],
                  IF Cached(k) THEN removeNode(k) ELSE Evicted)

(* The public get and put.  A get that misses changes nothing.             *)
get(t, k) == /\ Idle(t)
             /\ Cached(k)
             /\ cache' = getInternal(k)
             /\ UNCHANGED <<inProgress, fetching, waiting, awake, arg, answer, stored>>

put(t, k, v) == /\ Idle(t)
                /\ cache' = putInternal(k, v)
                /\ stored' = [stored EXCEPT ![k] = <<v>>]
                /\ UNCHANGED <<inProgress, fetching, waiting, awake, arg, answer>>

(* getOrCompute finds the key cached,                                      *)
Hit(t, k) == /\ Calling(t)
             /\ Cached(k)
             /\ cache' = getInternal(k)
             /\ arg' = [arg EXCEPT ![t] = k]
             /\ answer' = [answer EXCEPT ![t] = <<ValueOf(k)>>]
             /\ UNCHANGED <<inProgress, fetching, waiting, awake, stored>>

(* or being fetched, and sleeps,                                           *)
Join(t, k) == /\ Calling(t)
              /\ ~Cached(k) /\ k \in inProgress
              /\ waiting' = waiting \cup {t}
              /\ arg' = [arg EXCEPT ![t] = k]
              /\ answer' = [answer EXCEPT ![t] = <<>>]
              /\ UNCHANGED <<cache, inProgress, fetching, awake, stored>>

StartFetch_Always(t, k) == /\ Calling(t)
                           /\ ~Cached(k)
                           /\ inProgress' = inProgress \cup {k}
                           /\ fetching' = fetching \cup {t}
                           /\ arg' = [arg EXCEPT ![t] = k]
                           /\ answer' = [answer EXCEPT ![t] = <<>>]
                           /\ UNCHANGED <<cache, waiting, awake, stored>>

(* or neither, and fetches it with the lock released.                      *)
StartFetch(t, k) == /\ Calling(t)
                    /\ ~Cached(k) /\ k \notin inProgress
                    /\ inProgress' = inProgress \cup {k}
                    /\ fetching' = fetching \cup {t}
                    /\ arg' = [arg EXCEPT ![t] = k]
                    /\ answer' = [answer EXCEPT ![t] = <<>>]
                    /\ UNCHANGED <<cache, waiting, awake, stored>>

FinishFetch_NotifyOne(t) ==
    /\ t \in fetching
    /\ cache' = putInternal(arg[t], slowFetch(arg[t]))
    /\ stored' = [stored EXCEPT ![arg[t]] = <<slowFetch(arg[t])>>]
    /\ inProgress' = inProgress \ {arg[t]}
    /\ fetching' = fetching \ {t}
    /\ waiting' \in NotifyOne(waiting)
    /\ awake' = awake \cup (waiting \ waiting')
    /\ answer' = [answer EXCEPT ![t] = <<slowFetch(arg[t])>>]
    /\ UNCHANGED arg

(* The fetcher stores its value, over one that was put meanwhile.          *)
FinishFetch(t) == /\ t \in fetching
                  /\ cache' = putInternal(arg[t], slowFetch(arg[t]))
                  /\ stored' = [stored EXCEPT ![arg[t]] = <<slowFetch(arg[t])>>]
                  /\ inProgress' = inProgress \ {arg[t]}
                  /\ fetching' = fetching \ {t}
                  /\ waiting' = NotifyAll(waiting)
                  /\ awake' = awake \cup waiting
                  /\ answer' = [answer EXCEPT ![t] = <<slowFetch(arg[t])>>]
                  /\ UNCHANGED arg

(* wait without a predicate: getInternal answers -1 for a missing key.     *)
Resume_Unchecked(t) ==
    /\ t \in awake
    /\ cache' = IF Cached(arg[t]) THEN getInternal(arg[t]) ELSE cache
    /\ awake' = awake \ {t}
    /\ answer' = [answer EXCEPT ![t] = IF Cached(arg[t]) THEN <<ValueOf(arg[t])>>
                                                         ELSE <<-1>>]
    /\ UNCHANGED <<inProgress, fetching, waiting, arg, stored>>

(* A sleeper that has the lock again returns the cached value or goes on   *)
(* sleeping.  It never looks at inProgress again.                          *)
Resume(t) == /\ t \in awake
             /\ Cached(arg[t])
             /\ cache' = getInternal(arg[t])
             /\ awake' = awake \ {t}
             /\ answer' = [answer EXCEPT ![t] = <<ValueOf(arg[t])>>]
             /\ UNCHANGED <<inProgress, fetching, waiting, arg, stored>>

SleepAgain(t) == /\ t \in awake
                 /\ ~Cached(arg[t])
                 /\ awake' = awake \ {t} /\ waiting' = waiting \cup {t}
                 /\ UNCHANGED <<cache, inProgress, fetching, arg, answer, stored>>

SpuriousWakeup(t) == /\ t \in waiting
                     /\ waiting' = waiting \ {t} /\ awake' = awake \cup {t}
                     /\ UNCHANGED <<cache, inProgress, fetching, arg, answer, stored>>

getOrCompute(t, k) == Hit(t, k) \/ Join(t, k) \/ StartFetch(t, k)

Next == /\ UNCHANGED capacity
        /\ \E t \in Threads :
               \/ \E k \in Keys : \/ getOrCompute(t, k)
                                  \/ get(t, k)
                                  \/ \E v \in PutValues : put(t, k, v)
               \/ FinishFetch(t) \/ Resume(t) \/ SleepAgain(t)
               \/ SpuriousWakeup(t)

Spec == Init /\ [][Next]_vars

(* A fetch ends, and a thread in getOrCompute gets the lock; nobody is     *)
(* obliged to make a call.                                                 *)
Fairness == \A t \in Threads : /\ WF_vars(UNCHANGED capacity /\ FinishFetch(t))
                               /\ WF_vars(UNCHANGED capacity /\ (Resume(t) \/ SleepAgain(t)))
FairSpec == Spec /\ Fairness

-----------------------------------------------------------------------------
TypeOK == /\ capacity \in Capacities
          /\ cache \in Seq([key : Keys, val : Values])
          /\ inProgress \subseteq Keys
          /\ UNION {fetching, waiting, awake} \subseteq Threads
          /\ arg \in [Threads -> Keys]
          /\ answer \in [Threads -> {<<>>} \cup {<<v>> : v \in Values}]
          /\ stored \in [Keys -> {<<>>} \cup {<<v>> : v \in Values}]

(* Types; and insertions after a fetch race with those of other threads,   *)
(* and still the cache holds at most capacity entries, one for a key.      *)
CacheBounded == /\ TypeOK
                /\ Len(cache) <= capacity
                /\ \A i, j \in DOMAIN cache : cache[i].key = cache[j].key => i = j

(* A key is fetched by one thread at a time, inProgress holds exactly the  *)
(* keys being fetched, and a thread is in one place only.                  *)
SingleFlight ==
    /\ inProgress = {arg[t] : t \in fetching}
    /\ \A t, u \in fetching : arg[t] = arg[u] => t = u
    /\ fetching \cap (waiting \cup awake) = {} /\ waiting \cap awake = {}

(* What the cache holds for a key is what was last put or fetched for it,  *)
(* and that is what a call of getOrCompute for the key returns: never the  *)
(* value of another key, an older one, or the -1 of a miss, though a put   *)
(* or an eviction may overtake a fetch or a sleeper that was notified.     *)
AnswersFit ==
    /\ [](\A k \in Keys : Cached(k) => stored[k] = <<ValueOf(k)>>)
    /\ [][\A t \in Threads : answer'[t] # answer[t]
             => answer'[t] = <<>> \/ answer'[t] = stored'[arg'[t]]]_vars

(* In a cache with room for every key each call of getOrCompute returns;   *)
(* nobody sleeps on after the fetch that it waits for.                     *)
CallsReturn ==
    capacity >= Cardinality(Keys) => \A t \in Threads : ~Idle(t) ~> Idle(t)

(* main, lines 127 to 134, prints a value for every caller and joins it,   *)
(* which the code does not ensure when an eviction can overtake a sleeper  *)
(* that was notified.                                                      *)
EveryCallerAnswered == \A t \in Threads : ~Idle(t) ~> Idle(t)
=============================================================================
