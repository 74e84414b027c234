--------------------------- MODULE ConnectionPool ---------------------------
(***************************************************************************)
(* Practice/DBConnection.cpp: a pool of connections with a ledger of the   *)
(* borrowed ones and a timed wait.  Clients may hold several connections   *)
(* and call getConnection and releaseConnection as they like.  A critical  *)
(* section is one step.  What a client rightfully holds is not known to    *)
(* the code; holds records it, to say what the ledger is meant to achieve. *)
(***************************************************************************)
EXTENDS Naturals, Sequences, FiniteSets, CondVar

CONSTANTS Clients,
          MaxConnections,
          Fakes,        \* pointers the pool never made
          Careless,     \* clients that may return what they do not hold
          MaxCalls      \* bound on the calls of getConnection by one client

Conns == 0 .. MaxConnections - 1     \* the connections by id

PoolAssumption == /\ IsFiniteSet(Clients)
                  /\ MaxConnections \in Nat
                  /\ Conns \cap Fakes = {}
                  /\ Careless \subseteq Clients
                  /\ MaxCalls \in Nat

VARIABLES careless, \* the clients that do, in this behaviour
          pool,     \* free connections, front first
          leased,   \* leased_connections, the ledger
          waiting,  \* clients asleep in cv
          awake,    \* clients woken by a notification or spuriously
          expired,  \* clients whose wait has timed out
          holds,    \* holds[c]: what c was given and has not returned
          given,    \* given[c]: what c was ever given
          calls     \* calls[c]: calls of getConnection by c so far

vars == <<careless, pool, leased, waiting, awake, expired, holds, given, calls>>

Inside == waiting \cup awake \cup expired   \* clients in getConnection

Init == /\ careless \in SUBSET Careless
        /\ pool = [i \in 1 .. MaxConnections |-> i - 1]
        /\ leased = {}
        /\ waiting = {} /\ awake = {} /\ expired = {}
        /\ holds = [c \in Clients |-> {}]
        /\ given = [c \in Clients |-> {}]
        /\ calls = [c \in Clients |-> 0]

-----------------------------------------------------------------------------
(* A client that holds mtx and evaluates the predicate of wait_for: on its *)
(* call, after a wake-up, or for the last time after the timeout.          *)
Evaluates(c) == \/ c \notin Inside /\ calls[c] < MaxCalls
                \/ c \in awake \cup expired
Counted(c) == IF c \in Inside THEN calls ELSE [calls EXCEPT ![c] = @ + 1]

Get_NotPopped(c) ==
    /\ Evaluates(c)
    /\ pool # <<>>
    /\ leased' = leased \cup {Head(pool)}
    /\ holds' = [holds EXCEPT ![c] = @ \cup {Head(pool)}]
    /\ given' = [given EXCEPT ![c] = @ \cup {Head(pool)}]
    /\ awake' = awake \ {c} /\ expired' = expired \ {c}
    /\ calls' = Counted(c)
    /\ UNCHANGED <<pool, waiting>>

(* getConnection takes the front of the pool, even after the timeout.      *)
Get(c) == /\ Evaluates(c)
          /\ pool # <<>>
          /\ pool' = Tail(pool)
          /\ leased' = leased \cup {Head(pool)}
          /\ holds' = [holds EXCEPT ![c] = @ \cup {Head(pool)}]
          /\ given' = [given EXCEPT ![c] = @ \cup {Head(pool)}]
          /\ awake' = awake \ {c} /\ expired' = expired \ {c}
          /\ calls' = Counted(c)
          /\ UNCHANGED waiting

GetWaits(c) == /\ Evaluates(c) /\ c \notin expired
               /\ pool = <<>>
               /\ waiting' = waiting \cup {c}
               /\ awake' = awake \ {c}
               /\ calls' = Counted(c)
               /\ UNCHANGED <<pool, leased, expired, holds, given>>

(* getConnection returns nullptr.                                          *)
GetFails(c) == /\ c \in expired
               /\ pool = <<>>
               /\ expired' = expired \ {c}
               /\ UNCHANGED <<pool, leased, waiting, awake, holds, given, calls>>

(* wait in place of wait_for.                                              *)
TimeOut_Never(c) == c \in waiting /\ FALSE /\ UNCHANGED vars

(* The deadline passes while c sleeps, or before it has mtx back.          *)
TimeOut(c) == /\ c \in waiting \cup awake
              /\ waiting' = waiting \ {c} /\ awake' = awake \ {c}
              /\ expired' = expired \cup {c}
              /\ UNCHANGED <<pool, leased, holds, given, calls>>

SpuriousWakeup(c) == /\ c \in waiting
                     /\ waiting' = waiting \ {c} /\ awake' = awake \cup {c}
                     /\ UNCHANGED <<pool, leased, expired, holds, given, calls>>

(* What a client may pass to releaseConnection: what it holds, and when it *)
(* is careless any pointer that it has kept or that the pool never made.   *)
MayReturn(c, conn) == IF c \in careless THEN conn \in given[c] \cup Fakes
                                        ELSE conn \in holds[c]

(* The ledger says no.                                                     *)
ReleaseRejected(c, conn) == /\ c \notin Inside /\ MayReturn(c, conn)
                            /\ conn \notin leased
                            /\ UNCHANGED <<pool, leased, waiting, awake,
                                           expired, holds, given, calls>>

Release_NotifyIfWasEmpty(c, conn) ==
    /\ c \notin Inside /\ MayReturn(c, conn)
    /\ conn \in leased
    /\ leased' = leased \ {conn}
    /\ pool' = Append(pool, conn)
    /\ holds' = [holds EXCEPT ![c] = @ \ {conn}]
    /\ waiting' \in IF pool = <<>> THEN NotifyOne(waiting) ELSE {waiting}
    /\ awake' = awake \cup (waiting \ waiting')
    /\ UNCHANGED <<expired, given, calls>>

Release(c, conn) ==
    /\ c \notin Inside /\ MayReturn(c, conn)
    /\ conn \in leased
    /\ leased' = leased \ {conn}
    /\ pool' = Append(pool, conn)
    /\ holds' = [holds EXCEPT ![c] = @ \ {conn}]
    /\ waiting' \in NotifyOne(waiting)
    /\ awake' = awake \cup (waiting \ waiting')
    /\ UNCHANGED <<expired, given, calls>>

Next == /\ UNCHANGED careless
        /\ \E c \in Clients :
               \/ Get(c) \/ GetWaits(c) \/ GetFails(c)
               \/ TimeOut(c) \/ SpuriousWakeup(c)
               \/ \E conn \in Conns \cup Fakes :
                      Release(c, conn) \/ ReleaseRejected(c, conn)

Spec == Init /\ [][Next]_vars

(* Timeouts elapse and a client in getConnection gets the mutex: both are  *)
(* weakly fair.  Nobody is obliged to return a connection.                 *)
Proceed(c) == /\ UNCHANGED careless
              /\ c \in Inside
              /\ Get(c) \/ GetWaits(c) \/ GetFails(c)
Expire(c) == UNCHANGED careless /\ TimeOut(c)

-----------------------------------------------------------------------------
TypeOK == /\ careless \subseteq Careless
          /\ pool \in Seq(Conns)
          /\ leased \subseteq Conns
          /\ waiting \cup awake \cup expired \subseteq Clients
          /\ waiting \cap (awake \cup expired) = {} /\ awake \cap expired = {}
          /\ {holds, given} \subseteq [Clients -> SUBSET Conns]
          /\ calls \in [Clients -> 0 .. MaxCalls]

(* However clients misuse it, the pool itself stays sound: each connection *)
(* is either free, once, or in the ledger; none is lost or duplicated.     *)
PoolSound == /\ TypeOK
             /\ \A i, j \in 1 .. Len(pool) : pool[i] = pool[j] => i = j
             /\ {pool[i] : i \in 1 .. Len(pool)} = Conns \ leased

(* When no client is careless none of them share a connection, and the     *)
(* ledger lists exactly what they hold.                                    *)
ExclusiveLeases ==
    careless = {} =>
        /\ \A c, d \in Clients : c # d => holds[c] \cap holds[d] = {}
        /\ leased = UNION {holds[c] : c \in Clients}

(* No lost wakeup: while a client sleeps, every free connection has a      *)
(* client of its own on its way to it, timed-out clients included, which   *)
(* may no longer be notified but take a connection they find.              *)
NoLostWakeup ==
    waiting # {} => Len(pool) <= Cardinality(awake \cup expired)

(* Clients that hold one connection and wait for another may all wait for  *)
(* one another; still every call returns.                                  *)
CallsReturn == \A c \in Clients : c \in Inside ~> c \notin Inside
=============================================================================
