-------------------------- MODULE DistributedLock --------------------------
(***************************************************************************)
(* DistributedLock.cpp: a lock with an owner and a time to live, and the   *)
(* nodes that use it as serverNode does: acquire, work, release, unless    *)
(* they crash in between.  expiryTime enters every decision as its         *)
(* distance from steady_clock::now(), so the model keeps that distance:    *)
(* left counts down to -1, the value of every time past the expiry.        *)
(***************************************************************************)
EXTENDS Integers, TLAPS

CONSTANTS Nodes,
          NoOwner,    \* the empty string
          Ttl,        \* Ttl[n]: the ttlSeconds of node n
          Hold,       \* Hold[n]: bound on the time from n's acquisition to
                      \* its release, when it does not crash
          Crashable   \* nodes that may crash

ASSUME LockAssumption == /\ NoOwner \notin Nodes
                         /\ Ttl \in [Nodes -> Nat]
                         /\ Hold \in [Nodes -> Nat]
                         /\ Crashable \subseteq Nodes

VARIABLES owner,
          left,     \* expiryTime - now, or -1 once that is negative
          node,     \* node[n]: "idle", "working" or "crashed"
          busy      \* busy[n]: time since n acquired the lock, when working

vars == <<owner, left, node, busy>>

Init == /\ owner = NoOwner
        /\ left = -1
        /\ node = [n \in Nodes |-> "idle"]
        /\ busy = [n \in Nodes |-> 0]

-----------------------------------------------------------------------------
Taken_BeforeExpiry == owner # NoOwner /\ left > 0
Taken_Forever == owner # NoOwner
(* now <= expiryTime: the lock is still taken at the instant of expiry.    *)
Taken == owner # NoOwner /\ left >= 0

(* The lease is added to what an earlier owner left of its own.            *)
TryAcquire_Extends(n) ==
    /\ node[n] = "idle"
    /\ ~Taken
    /\ owner' = n
    /\ left' = left + Ttl[n]
    /\ node' = [node EXCEPT ![n] = "working"]
    /\ busy' = [busy EXCEPT ![n] = 0]

(* A tryAcquire that fails changes nothing; the node may try again.        *)
TryAcquire(n) == /\ node[n] = "idle"
                 /\ ~Taken
                 /\ owner' = n
                 /\ left' = Ttl[n]
                 /\ node' = [node EXCEPT ![n] = "working"]
                 /\ busy' = [busy EXCEPT ![n] = 0]

Release_Unchecked(n) == /\ node[n] = "working"
                        /\ owner' = NoOwner
                        /\ node' = [node EXCEPT ![n] = "idle"]
                        /\ busy' = [busy EXCEPT ![n] = 0]
                        /\ UNCHANGED left

(* The lock may have expired meanwhile and belong to another node.         *)
Release(n) == /\ node[n] = "working"
              /\ owner' = IF owner = n THEN NoOwner ELSE owner
              /\ node' = [node EXCEPT ![n] = "idle"]
              /\ busy' = [busy EXCEPT ![n] = 0]
              /\ UNCHANGED left

Crash(n) == /\ n \in Crashable
            /\ node[n] = "working"
            /\ node' = [node EXCEPT ![n] = "crashed"]
            /\ busy' = [busy EXCEPT ![n] = 0]
            /\ UNCHANGED <<owner, left>>

(* A restarted node knows nothing of the lease it may still have, and the  *)
(* lock does not recognise it: it competes like any other.                 *)
Restart(n) == /\ node[n] = "crashed"
              /\ node' = [node EXCEPT ![n] = "idle"]
              /\ UNCHANGED <<owner, left, busy>>

(* Time passes, for the lease and for the nodes at work.                   *)
Working == {n \in Nodes : node[n] = "working"}
Tick == /\ \A n \in Working : busy[n] < Hold[n]
        /\ left' = IF left >= 0 THEN left - 1 ELSE left
        /\ busy' = [n \in Nodes |-> IF n \in Working THEN busy[n] + 1 ELSE busy[n]]
        /\ UNCHANGED <<owner, node>>

Next == \/ \E n \in Nodes : TryAcquire(n) \/ Release(n) \/ Crash(n) \/ Restart(n)
        \/ Tick

Spec == Init /\ [][Next]_vars

(* Time goes on, work ends, and some node keeps trying (line 74); crashed   *)
(* nodes need not come back.                                               *)
Fairness == /\ WF_vars(Tick)
            /\ \A n \in Nodes : WF_vars(Release(n))
            /\ WF_vars(\E n \in Nodes : TryAcquire(n))
FairSpec == Spec /\ Fairness

-----------------------------------------------------------------------------
(* Types; no lease outlasts the time its owner asked for.                  *)
TypeOK == /\ owner \in Nodes \cup {NoOwner}
          /\ left \in Int /\ left >= -1
          /\ owner \in Nodes => left <= Ttl[owner]
          /\ node \in [Nodes -> {"idle", "working", "crashed"}]
          /\ busy \in [Nodes -> Nat]
          /\ \A n \in Working : busy[n] <= Hold[n]

(* The nodes that are within the leases they asked for work one at a time, *)
(* whoever crashes, restarts or works past its lease, although nothing     *)
(* tells a node that its lease is over.                                    *)
InLease == {n \in Working : busy[n] <= Ttl[n]}
MutualExclusion == \A m, n \in InLease : m = n

(* Even when a node works past its lease, nobody takes an unexpired lock   *)
(* away: it changes hands only when its owner releases it, and the late    *)
(* release of an earlier owner does not touch it.                          *)
LeaseHonoured ==
    [][\A n \in Nodes : (owner = n /\ left >= 0 /\ owner' # n)
                            => (n \in Working /\ n \notin Working')]_vars

(* Lines 7 and 8: a node that dies without releasing the lock does not     *)
(* keep it for ever: the lock expires and a node that is alive gets it.    *)
CrashNeverBlocks == \A n \in Nodes :
    (owner = n /\ node[n] = "crashed") ~> owner \in Working
-----------------------------------------------------------------------------
(* For any nodes and leases: nobody takes an unexpired lock away, and      *)
(* nodes within their leases exclude one another.                          *)

(* Types, for tryAcquire and release called by serverNode.                 *)
THEOREM TypeCorrect == Spec => []TypeOK
<1> USE LockAssumption DEF TypeOK, Working
<1>1. Init => TypeOK
  BY DEF Init
<1>2. TypeOK /\ [Next]_vars => TypeOK'
  <2> SUFFICES ASSUME TypeOK, [Next]_vars PROVE TypeOK'
    OBVIOUS
  <2>1. ASSUME NEW n \in Nodes, TryAcquire(n) PROVE TypeOK'
    BY <2>1 DEF TryAcquire
  <2>2. ASSUME NEW n \in Nodes, Release(n) PROVE TypeOK'
    BY <2>2 DEF Release
  <2>3. ASSUME NEW n \in Nodes, Crash(n) PROVE TypeOK'
    BY <2>3 DEF Crash
  <2>4. ASSUME NEW n \in Nodes, Restart(n) PROVE TypeOK'
    BY <2>4 DEF Restart
  <2>5. CASE Tick
    BY <2>5 DEF Tick
  <2>6. CASE UNCHANGED vars
    BY <2>6 DEF vars
  <2> QED BY <2>1, <2>2, <2>3, <2>4, <2>5, <2>6 DEF Next
<1> QED BY <1>1, <1>2, PTL DEF Spec

-----------------------------------------------------------------------------
(* Whoever is within its lease has the lock, and the lock lasts at least   *)
(* as long as what is left of that lease.                                  *)
LeaseCovers == \A n \in InLease : owner = n /\ left >= Ttl[n] - busy[n]

(* Nodes within their leases work one at a time, for tryAcquire, release   *)
(* and serverNode, whatever the leases are and however long anyone works.  *)
THEOREM Exclusion == Spec => []MutualExclusion
<1> USE LockAssumption DEF TypeOK, Working, InLease, LeaseCovers
<1>1. Init => LeaseCovers
  BY DEF Init
<1>2. TypeOK /\ LeaseCovers /\ [Next]_vars => LeaseCovers'
  <2> SUFFICES ASSUME TypeOK, LeaseCovers, [Next]_vars PROVE LeaseCovers'
    OBVIOUS
  <2>1. ASSUME NEW n \in Nodes, TryAcquire(n) PROVE LeaseCovers'
    <3>1. InLease = {}
      BY <2>1 DEF TryAcquire, Taken
    <3> QED BY <2>1, <3>1 DEF TryAcquire
  <2>2. ASSUME NEW n \in Nodes, Release(n) PROVE LeaseCovers'
    BY <2>2 DEF Release
  <2>3. ASSUME NEW n \in Nodes, Crash(n) PROVE LeaseCovers'
    BY <2>3 DEF Crash
  <2>4. ASSUME NEW n \in Nodes, Restart(n) PROVE LeaseCovers'
    BY <2>4 DEF Restart
  <2>5. CASE Tick
    <3> SUFFICES ASSUME NEW n \in Nodes, n \in InLease'
                 PROVE  (owner = n /\ left >= Ttl[n] - busy[n])'
      OBVIOUS
    <3>1. n \in InLease /\ busy'[n] = busy[n] + 1 /\ busy'[n] <= Ttl[n]
      BY <2>5 DEF Tick
    <3> QED BY <2>5, <3>1 DEF Tick
  <2>6. CASE UNCHANGED vars
    BY <2>6 DEF vars
  <2> QED BY <2>1, <2>2, <2>3, <2>4, <2>5, <2>6 DEF Next
<1>3. LeaseCovers => MutualExclusion
  BY DEF MutualExclusion
<1> QED BY <1>1, <1>2, <1>3, TypeCorrect, PTL DEF Spec

-----------------------------------------------------------------------------
(* An unexpired lock is given up by its owner only, however long the nodes *)
(* work: no assumption relates Hold and Ttl here.                          *)
THEOREM LeasesHonoured == Spec => LeaseHonoured
<1>1. TypeOK /\ [Next]_vars => [\A n \in Nodes : (owner = n /\ left >= 0 /\ owner' # n)
                          => (n \in Working /\ n \notin Working')]_vars
  <2> SUFFICES ASSUME TypeOK, Next, NEW n \in Nodes, owner = n, left >= 0, owner' # n
               PROVE  n \in Working /\ n \notin Working'
    OBVIOUS
  <2> USE LockAssumption DEF Working
  <2>1. ASSUME NEW m \in Nodes, TryAcquire(m) PROVE FALSE
    BY <2>1 DEF TryAcquire, Taken
  <2>2. ASSUME NEW m \in Nodes, Release(m) PROVE m = n
    BY <2>2 DEF Release
  <2>3. \A m \in Nodes : ~Crash(m) /\ ~Restart(m)
    BY DEF Crash, Restart
  <2>4. ~Tick
    BY DEF Tick
  <2>5. Release(n)
    BY <2>1, <2>2, <2>3, <2>4 DEF Next
  <2> QED BY <2>5 DEF Release, TypeOK
<1> QED BY <1>1, TypeCorrect, PTL DEF Spec, LeaseHonoured
=============================================================================
