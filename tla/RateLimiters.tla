--------------------------- MODULE RateLimiters ----------------------------
(***************************************************************************)
(* The five rate limiters of the repository, in one state space: the       *)
(* initial state chooses the program that runs, and the variables of the   *)
(* others never change.  Java/TokenBucketRateLimiter is TokenBucket by the *)
(* clock of the system, which may be set back, and so is RateLimiter of    *)
(* Microsoft/, of which CountRateLimiter.cpp is a second copy.             *)
(***************************************************************************)
EXTENDS Integers, Sequences

CONSTANTS capacity, TicksPerToken, Requests, Clients, limit, windowSeconds,
          MaxSetBack, Nobody

VARIABLES program,
          setBack,                                    \* of every program
          currentTokens, sinceRefill, granted, load,  \* of the buckets
          history, phase, served, admitted            \* of the windows

bucket == <<currentTokens, sinceRefill, granted, load>>
window == <<history, phase, served, admitted>>
vars == <<program, setBack, bucket, window>>

Bucket == INSTANCE TokenBucket
Sliding == INSTANCE SlidingWindow WITH TicksPerSecond <- 1
Limiter == INSTANCE SlidingWindow WITH TicksPerSecond <- 2

ASSUME LimitersAssumption == /\ Bucket!BucketAssumption
                             /\ Sliding!WindowAssumption
                             /\ Limiter!WindowAssumption
                             /\ Clients # {}   \* one queue at least

Buckets == {"TokenBucket", "Java/TokenBucketRateLimiter"}
Windows == {"Microsoft/RateLimiter", "Microsoft/CountRateLimiter"}
Init == /\ program \in Buckets \cup Windows \cup {"SlidingWindow"}
        /\ Bucket!Init
        /\ IF program = "SlidingWindow" THEN Sliding!Init ELSE Limiter!Init
        /\ program \in Buckets => phase = 0

Runs(p) == program = p /\ UNCHANGED program

-----------------------------------------------------------------------------
JavaAllowRequest(n) == Bucket!allowRequest(n)
TheClient == CHOOSE c \in Clients : TRUE    \* of SlidingWindow's one queue
LimiterAllowRequest(c) == Limiter!allowRequest(c)
CountAllowRequest(c) == Limiter!allowRequest(c)

RunsBucket == Runs("TokenBucket") /\ UNCHANGED window
RunsJava == Runs("Java/TokenBucketRateLimiter") /\ UNCHANGED window
RunsSliding == Runs("SlidingWindow") /\ UNCHANGED bucket
RunsLimiter == Runs("Microsoft/RateLimiter") /\ UNCHANGED bucket
RunsCount == Runs("Microsoft/CountRateLimiter") /\ UNCHANGED bucket

Tick == \/ (RunsBucket \/ RunsJava) /\ Bucket!Tick
        \/ RunsSliding /\ Sliding!Tick
        \/ (RunsLimiter \/ RunsCount) /\ Limiter!Tick

SetBack == \E d \in 1 .. MaxSetBack :
               \/ RunsJava /\ Bucket!SetBack(d)
               \/ (RunsLimiter \/ RunsCount) /\ Limiter!SetBack(d)

Next == \/ Tick \/ SetBack
        \/ RunsBucket /\ \E n \in Requests : Bucket!allowRequest(n)
        \/ RunsJava /\ \E n \in Requests : JavaAllowRequest(n)
        \/ RunsSliding /\ Sliding!allowRequest(TheClient)
        \/ RunsLimiter /\ \E c \in Clients : LimiterAllowRequest(c)
        \/ RunsCount /\ \E c \in Clients : CountAllowRequest(c)

(* Time passes; nobody has to ask.                                         *)
Spec == Init /\ [][Next]_vars /\ WF_vars(Tick)

-----------------------------------------------------------------------------
(* No limiter allows more than its limit in any stretch of time, however   *)
(* the threads' requests fall and though the clock may be set back.        *)
WithinLimit == /\ program \in Buckets => Bucket!WithinLimit
               /\ program = "SlidingWindow" => Sliding!WithinLimit
               /\ program \in Windows => Limiter!WithinLimit

(* None denies what the limit would permit.                                *)
DeniesOnlyAtLimit == /\ program \in Buckets => Bucket!DeniesOnlyAtLimit
                     /\ program = "SlidingWindow" => Sliding!DeniesOnlyAtLimit
                     /\ program \in Windows => Limiter!DeniesOnlyAtLimit

(* None denies for ever.                                                   *)
NeverLocksOut == /\ program \in Buckets => Bucket!NeverLocksOut
                 /\ program = "SlidingWindow" => Sliding!NeverLocksOut
                 /\ program \in Windows => Limiter!NeverLocksOut
=============================================================================
