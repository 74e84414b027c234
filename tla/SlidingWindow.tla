--------------------------- MODULE SlidingWindow ---------------------------
(***************************************************************************)
(* Rate limiters that remember when they allowed a request: the class      *)
(* SlidingWindow of SlidingWindowRateLimiter.cpp, and RateLimiter of       *)
(* Microsoft/, which keeps a queue for every client and reads its clock in *)
(* whole seconds.  Both drop what is older than the window and compare the *)
(* size of the rest with the limit, under a lock: a call is one step.      *)
(* Times are kept as ages, so that the clock needs no bound.               *)
(***************************************************************************)
EXTENDS Integers, Sequences

CONSTANTS Clients,
          limit,            \* maxRequests
          windowSeconds,
          TicksPerSecond,   \* 1 for a clock that is read exactly
          MaxSetBack,       \* bound: by how many seconds a clock is set back
          Nobody

WindowAssumption == /\ limit \in Nat \ {0} /\ windowSeconds \in Nat
                    /\ TicksPerSecond \in Nat \ {0} /\ MaxSetBack \in Nat
                    /\ Nobody \notin Clients

VARIABLES history,   \* clientRequests: the ages, oldest request first
          phase,     \* the ticks since the clock's second began
          setBack,   \* the clock was set back
          served,    \* the client whose request the last step allowed
          admitted   \* history: the true ages in ticks of the latest
                     \* requests that were allowed, one more than limit

vars == <<history, phase, setBack, served, admitted>>

Init == /\ history = [c \in Clients |-> <<>>]
        /\ phase \in 0 .. TicksPerSecond - 1
        /\ setBack = FALSE /\ served = Nobody
        /\ admitted = [c \in Clients |-> <<>>]

-----------------------------------------------------------------------------
Expired_AtEdge(age) == age >= windowSeconds
Expired(age) == age > windowSeconds

(* The queue after its expired front was popped.  What stands behind a     *)
(* request that has not expired stays, be it older or not.                 *)
Front(q) == CHOOSE n \in 1 .. Len(q) + 1 : /\ \A j \in 1 .. n - 1 : Expired(q[j])
                                           /\ n <= Len(q) => ~Expired(q[n])
Cleaned(q) == SubSeq(q, Front(q), Len(q))

Remembered(ages) == IF Len(ages) > limit THEN Tail(ages) ELSE ages

Allow(c) == LET q == Cleaned(history[c])
            IN  /\ Len(q) < limit
                /\ history' = [history EXCEPT ![c] = Append(q, 0)]
                /\ admitted' = [admitted EXCEPT ![c] = Append(Remembered(@), 0)]
                /\ served' = c
                /\ UNCHANGED <<phase, setBack>>

(* A request is remembered whether it was allowed or not.                  *)
Deny_Remembered(c) == LET q == Cleaned(history[c])
                      IN  /\ Len(q) >= limit
                          /\ history' = [history EXCEPT ![c] = Append(Tail(q), 0)]
                          /\ served' = Nobody
                          /\ UNCHANGED <<phase, setBack, admitted>>

Deny(c) == LET q == Cleaned(history[c])
           IN  /\ Len(q) >= limit
               /\ history' = [history EXCEPT ![c] = q]
               /\ served' = Nobody
               /\ UNCHANGED <<phase, setBack, admitted>>

allowRequest(c) == Allow(c) \/ Deny(c)

(* Time passes.  The ages of requests older than the window and any        *)
(* setting of the clock need not grow further, nor the true ages of those  *)
(* that the window has left by a second.                                   *)
Oldest == windowSeconds + 1 + MaxSetBack
Older(age) == IF age < Oldest THEN age + 1 ELSE age
Aged(age) == IF age < (windowSeconds + 1) * TicksPerSecond THEN age + 1 ELSE age
Tick == /\ phase' = (phase + 1) % TicksPerSecond
        /\ history' = IF phase' # 0 THEN history
                      ELSE [c \in Clients |->
                               [k \in DOMAIN history[c] |-> Older(history[c][k])]]
        /\ admitted' = [c \in Clients |->
                            [k \in DOMAIN admitted[c] |-> Aged(admitted[c][k])]]
        /\ served' = Nobody
        /\ UNCHANGED setBack

(* A clock that is not steady is set back, once.                           *)
SetBack(d) == /\ ~setBack /\ setBack' = TRUE
              /\ history' = [c \in Clients |->
                                [k \in DOMAIN history[c] |-> history[c][k] - d]]
              /\ served' = Nobody
              /\ UNCHANGED <<phase, admitted>>

Next == Tick \/ \E c \in Clients : allowRequest(c)

Spec == Init /\ [][Next]_vars

-----------------------------------------------------------------------------
TypeOK == /\ \A c \in Clients :
                 /\ history[c] \in Seq(-MaxSetBack .. Oldest)
                 /\ Len(history[c]) <= limit
                 /\ admitted[c] \in Seq(Nat)
          /\ phase \in 0 .. TicksPerSecond - 1
          /\ setBack \in BOOLEAN /\ served \in Clients \cup {Nobody}

(* The age of the i-th but latest of the entries of s.                     *)
Latest(s, i) == s[Len(s) - i]

(* No more than limit requests of a client are allowed in any stretch of   *)
(* windowSeconds of true time, the two ends included, even if the clock is *)
(* set back: the one before the limit latest is longer ago.                *)
WithinLimit ==
    TypeOK /\ \A c \in Clients :
                  Len(admitted[c]) > limit
                      => Latest(admitted[c], limit) > windowSeconds * TicksPerSecond

(* A request is denied only if limit of the same client were allowed in    *)
(* the window; a clock of whole seconds may stretch it by less than one.   *)
Admits(c) == Len(Cleaned(history[c])) < limit
DeniesOnlyAtLimit ==
    ~setBack => \A c \in Clients :
        ~Admits(c) => /\ Len(admitted[c]) >= limit
                      /\ Latest(admitted[c], limit - 1)
                             < (windowSeconds + 1) * TicksPerSecond

(* No client is locked out, not even by a clock that was set back: again   *)
(* and again its next request would be allowed, or one has just been.      *)
NeverLocksOut == \A c \in Clients : []<>(Admits(c) \/ served = c)
=============================================================================
