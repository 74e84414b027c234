------------------------------- MODULE Pools -------------------------------
(***************************************************************************)
(* The four pools of the repository, in one state space: the initial state *)
(* chooses the program that runs, and the variables of the others never    *)
(* change.  Two pools have a model of their own.  Microsoft/DBConnection   *)
(* is ConnectionPool without the timeout, and Java/PhoneNumberPool is      *)
(* PhoneNumberPool without any check of what it is given, so that careless *)
(* agents are not let near it.                                             *)
(***************************************************************************)
EXTENDS Naturals, Sequences, FiniteSets, CondVar

CONSTANTS Clients, Careless, MaxConnections, Fakes, MaxCalls

VARIABLES program,
          careless, pool, waiting, awake, holds,   \* of every program
          leased, expired, given, calls,           \* of ConnectionPool
          inPool                                   \* of PhoneNumberPool

common == <<careless, pool, waiting, awake, holds>>
ledger == <<leased, expired, given, calls>>
vars == <<program, common, ledger, inPool>>

CP == INSTANCE ConnectionPool
Phone == INSTANCE PhoneNumberPool
             WITH Agents <- Clients, Numbers <- 0 .. MaxConnections - 1,
                  Foreign <- Fakes, q <- pool, has <- holds

ASSUME PoolsAssumption == CP!PoolAssumption /\ Phone!NumbersAssumption

Init == \/ /\ program \in {"Practice/DBConnection", "Microsoft/DBConnection"}
           /\ CP!Init
           /\ inPool = {}
        \/ /\ program \in {"PhoneNumberPool", "Java/PhoneNumberPool"}
           /\ Phone!Init
           /\ program = "Java/PhoneNumberPool" => careless = {}
           /\ leased = {} /\ expired = {}
           /\ given = [c \in Clients |-> {}] /\ calls = [c \in Clients |-> 0]

-----------------------------------------------------------------------------
(* Microsoft/DBConnection.                                                 *)
acquire(c) == CP!Get(c) \/ CP!GetWaits(c)
release(c, conn) == CP!Release(c, conn) \/ CP!ReleaseRejected(c, conn)

DBConnectionNext ==
    /\ UNCHANGED careless
    /\ \E c \in Clients : \/ acquire(c) \/ CP!SpuriousWakeup(c)
                          \/ \E conn \in CP!Conns \cup Fakes : release(c, conn)

(* Java/PhoneNumberPool, which has no set of the free numbers.             *)
JavaAcquire(a) == \/ Phone!acquireWaits(a)
                  \/ /\ a \notin waiting
                     /\ pool # <<>>
                     /\ pool' = Tail(pool)
                     /\ holds' = [holds EXCEPT ![a] = @ \cup {Head(pool)}]
                     /\ awake' = awake \ {a}
                     /\ UNCHANGED <<waiting, inPool>>

JavaRelease(a, number) == /\ Phone!MayRelease(a, number)
                          /\ pool' = Append(pool, number)
                          /\ holds' = [holds EXCEPT ![a] = @ \ {number}]
                          /\ waiting' = NotifyAll(waiting)
                          /\ awake' = awake \cup waiting
                          /\ UNCHANGED inPool

JavaNext == /\ UNCHANGED careless
            /\ \E a \in Clients : \/ JavaAcquire(a) \/ Phone!SpuriousWakeup(a)
                                  \/ \E number \in Phone!All : JavaRelease(a, number)

Runs(p) == program = p /\ UNCHANGED program
Next == \/ Runs("Practice/DBConnection") /\ CP!Next /\ UNCHANGED inPool
        \/ Runs("Microsoft/DBConnection") /\ DBConnectionNext /\ UNCHANGED inPool
        \/ Runs("PhoneNumberPool") /\ Phone!Next /\ UNCHANGED ledger
        \/ Runs("Java/PhoneNumberPool") /\ JavaNext /\ UNCHANGED ledger

Spec == /\ Init /\ [][Next]_vars
        /\ \A c \in Clients :
               /\ WF_vars(/\ Runs("Practice/DBConnection") /\ UNCHANGED inPool
                          /\ CP!Proceed(c))
               /\ WF_vars(/\ Runs("Practice/DBConnection") /\ UNCHANGED inPool
                          /\ CP!Expire(c))

-----------------------------------------------------------------------------
(* However clients misuse them, the pools that check what is returned stay *)
(* sound: nothing is in them twice, and the ledger or the set of the free  *)
(* numbers agrees with the queue.                                          *)
PoolSound ==
    /\ program \in {"Practice/DBConnection", "Microsoft/DBConnection"} => CP!PoolSound
    /\ program = "PhoneNumberPool" => Phone!PoolSound

(* When every client returns what it was given, once, no two of them ever  *)
(* have the same connection or number, and none of these is lost.          *)
ExclusiveLeases ==
    /\ program \in {"Practice/DBConnection", "Microsoft/DBConnection"}
           => CP!ExclusiveLeases
    /\ program \in {"PhoneNumberPool", "Java/PhoneNumberPool"} => Phone!OneHolder

(* While a client sleeps, every free connection or number has a client of  *)
(* its own on its way to it: one notification per return is enough.        *)
NoLostWakeup == IF program = "Practice/DBConnection" THEN CP!NoLostWakeup
                                                     ELSE Phone!NoLostWakeup

(* Every getConnection with a timeout returns, even when all clients hold  *)
(* a connection and want another.                                          *)
CallsReturn == program = "Practice/DBConnection" => CP!CallsReturn
=============================================================================
