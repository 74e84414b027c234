------------------------------- MODULE Cache -------------------------------
(***************************************************************************)
(* Microsoft/Cache.cpp: a map whose entries expire.  Nothing removes an    *)
(* expired entry but the get that finds it.  The clock is that of the      *)
(* system, read in whole seconds, and may be set back.  It is a long, but  *)
(* the constructor of KeyEntry takes an expiry as an int.  Each call is    *)
(* one critical section.                                                   *)
(***************************************************************************)
EXTENDS Integers

CONSTANTS Keys, Values,
          Ttls,             \* the ttl of put, in seconds
          IntMax,           \* the largest int
          TicksPerSecond,   \* the ticks that the clock does not show
          MaxClock,         \* bound: the last second that the clock shows
          MaxSetBack,       \* bound: by how many seconds a clock is set back
          nullopt

(* A ttl is an int, and nullopt is neither a value nor an entry.           *)
CacheAssumption ==
    /\ IntMax \in Nat /\ MaxClock \in Nat /\ TicksPerSecond \in Nat \ {0}
    /\ Ttls \subseteq 0 .. IntMax /\ MaxSetBack \in 0 .. IntMax
    /\ nullopt \notin Values \cup [value : Values, expiryTime : Int]
                 \cup [value : Values, ttl : Ttls, age : Nat, fits : BOOLEAN]

VARIABLES cache,     \* cache[k]: [value, expiryTime], or nullopt
          clock,     \* now()
          phase,     \* the ticks since the clock's second began
          setBack,   \* the clock was set back
          result,    \* what the last get returned
          last       \* history: last[k] is the last put of k, as [value, ttl]
                     \* with its true age in ticks and whether its expiry
                     \* was an int, or nullopt

vars == <<cache, clock, phase, setBack, result, last>>

Init == /\ cache = [k \in Keys |-> nullopt]
        /\ clock \in 0 .. MaxClock /\ phase \in 0 .. TicksPerSecond - 1
        /\ setBack = FALSE /\ result = nullopt
        /\ last = [k \in Keys |-> nullopt]

-----------------------------------------------------------------------------
(* The conversion of a long to an int keeps its low bits.                  *)
Narrow(t) == ((t + IntMax + 1) % (2 * (IntMax + 1))) - (IntMax + 1)

put(k, v, ttl) ==
    /\ cache' = [cache EXCEPT ![k] = [value |-> v, expiryTime |-> Narrow(clock + ttl)]]
    /\ last' = [last EXCEPT ![k] = [value |-> v, ttl |-> ttl, age |-> 0,
                                    fits |-> clock + ttl <= IntMax]]
    /\ UNCHANGED <<clock, phase, setBack, result>>

Expired_AtEdge(k) == clock >= cache[k].expiryTime
Expired(k) == clock > cache[k].expiryTime
Answer(k) == IF cache[k] = nullopt THEN nullopt
             ELSE IF Expired(k) THEN nullopt ELSE cache[k].value

get(k) == /\ result' = Answer(k)
          /\ cache' = [cache EXCEPT ![k] = IF Answer(k) = nullopt THEN nullopt ELSE @]
          /\ UNCHANGED <<clock, phase, setBack, last>>

Tick == /\ phase' = (phase + 1) % TicksPerSecond
        /\ clock' = IF phase' = 0 THEN clock + 1 ELSE clock
        /\ clock' <= MaxClock
        /\ last' = [k \in Keys |-> IF last[k] = nullopt THEN nullopt
                                   ELSE [last[k] EXCEPT !.age = @ + 1]]
        /\ UNCHANGED <<cache, setBack, result>>

SetBack(d) == /\ ~setBack /\ setBack' = TRUE
              /\ d <= clock /\ clock' = clock - d
              /\ UNCHANGED <<cache, phase, result, last>>

Next == \/ \E k \in Keys : \/ get(k)
                           \/ \E v \in Values, ttl \in Ttls : put(k, v, ttl)
        \/ Tick
        \/ \E d \in 1 .. MaxSetBack : SetBack(d)

Spec == Init /\ [][Next]_vars

-----------------------------------------------------------------------------
TypeOK == /\ \A k \in Keys : cache[k] # nullopt =>
                 cache[k] \in [value : Values, expiryTime : -IntMax - 1 .. IntMax]
          /\ clock \in 0 .. MaxClock /\ phase \in 0 .. TicksPerSecond - 1
          /\ setBack \in BOOLEAN
          /\ result \in Values \cup {nullopt}

(* get answers with the value last put and with no other.  An entry whose  *)
(* expiry is an int is found for the whole ttl, though the clock is cut to *)
(* seconds and may be set back, and less than a second longer if it was    *)
(* not set back.  One whose expiry is not wraps, and is never found.       *)
ExpiresInTime ==
    /\ TypeOK
    /\ \A k \in Keys :
           IF last[k] = nullopt THEN Answer(k) = nullopt
           ELSE /\ Answer(k) \in {last[k].value, nullopt}
                /\ last[k].fits /\ last[k].age <= last[k].ttl * TicksPerSecond
                       => Answer(k) # nullopt
                /\ ~setBack /\ last[k].age >= (last[k].ttl + 1) * TicksPerSecond
                       => Answer(k) = nullopt
                /\ ~last[k].fits => Answer(k) = nullopt
=============================================================================
