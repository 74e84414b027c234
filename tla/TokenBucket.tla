---------------------------- MODULE TokenBucket ----------------------------
(***************************************************************************)
(* TokenBucket.cpp: a rate limiter that refills lazily, from the time      *)
(* passed since the last refill, whenever somebody asks.  The lock is held *)
(* from the reading of the clock to the return, so that a call is one step *)
(* of any of the threads.  Tokens are counted in the units that refill in  *)
(* one tick, which makes the doubles of the code whole numbers; the clock  *)
(* is seen as its distance from lastRefillTime.                            *)
(***************************************************************************)
EXTENDS Integers

CONSTANTS capacity,       \* in tokens
          TicksPerToken,  \* the inverse of refillRate
          Requests,       \* the values of tokensNeeded
          MaxSetBack      \* bound: by how much a clock is set back

BucketAssumption == /\ capacity \in Nat \ {0} /\ TicksPerToken \in Nat \ {0}
                    /\ Requests \subseteq 1 .. capacity
                    /\ MaxSetBack \in Nat

VARIABLES currentTokens,
          sinceRefill,   \* now - lastRefillTime
          setBack,       \* the clock was set back
          granted,       \* the last step allowed a request
          load           \* history: the tokens handed out and not yet made
                         \* up for by the passing of time

vars == <<currentTokens, sinceRefill, setBack, granted, load>>

Full == capacity * TicksPerToken
Needed(n) == n * TicksPerToken

Init == /\ currentTokens = Full /\ sinceRefill = 0
        /\ setBack = FALSE /\ granted = FALSE
        /\ load = 0

-----------------------------------------------------------------------------
(* The tokens after the lazy refill, which does nothing unless the clock   *)
(* has advanced.                                                           *)
Refilled == LET tokens == currentTokens + sinceRefill
            IN  IF sinceRefill <= 0 THEN currentTokens
                ELSE IF tokens < Full THEN tokens ELSE Full
Refilling == sinceRefill' = IF sinceRefill > 0 THEN 0 ELSE sinceRefill

Allow(n) == /\ Refilled >= Needed(n)
            /\ currentTokens' = Refilled - Needed(n)
            /\ Refilling
            /\ granted' = TRUE /\ load' = load + Needed(n)
            /\ UNCHANGED setBack

(* The time since the last refill is forgotten when it was not enough.     *)
Deny_LosesRefill(n) == /\ Refilled < Needed(n)
                       /\ currentTokens' = currentTokens
                       /\ Refilling
                       /\ granted' = FALSE
                       /\ UNCHANGED <<setBack, load>>

Deny(n) == /\ Refilled < Needed(n)
           /\ currentTokens' = Refilled
           /\ Refilling
           /\ granted' = FALSE
           /\ UNCHANGED <<setBack, load>>

allowRequest(n) == Allow(n) \/ Deny(n)

(* Time passes; beyond what fills the bucket it makes no difference.       *)
Tick == /\ sinceRefill' = IF sinceRefill < Full + MaxSetBack THEN sinceRefill + 1
                                                             ELSE sinceRefill
        /\ load' = IF load > 0 THEN load - 1 ELSE 0
        /\ granted' = FALSE
        /\ UNCHANGED <<currentTokens, setBack>>

(* A clock that is not steady is set back, once.                           *)
SetBack(d) == /\ ~setBack /\ setBack' = TRUE
              /\ sinceRefill' = sinceRefill - d
              /\ granted' = FALSE
              /\ UNCHANGED <<currentTokens, load>>

Next == Tick \/ \E n \in Requests : allowRequest(n)

Spec == Init /\ [][Next]_vars

-----------------------------------------------------------------------------
TypeOK == /\ currentTokens \in 0 .. Full
          /\ sinceRefill \in -MaxSetBack .. Full + MaxSetBack
          /\ setBack \in BOOLEAN /\ granted \in BOOLEAN
          /\ load \in Nat

(* In no stretch of time are more tokens handed out than the capacity and  *)
(* what is refilled within it.  load is the largest excess over the refill *)
(* of any stretch that ends now.                                           *)
WithinLimit == TypeOK /\ load <= Full

(* The lazy refill loses nothing: a request is denied only if allowing it  *)
(* would exceed the limit.                                                 *)
Admits(n) == Refilled >= Needed(n)
DeniesOnlyAtLimit ==
    ~setBack => \A n \in Requests : ~Admits(n) => load + Needed(n) > Full

(* Nobody is locked out: whatever is asked in between, the limiter is      *)
(* again and again ready for any request, or has just allowed another.     *)
NeverLocksOut == \A n \in Requests : []<>(Admits(n) \/ granted)
=============================================================================
