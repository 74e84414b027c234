-------------------------- MODULE PhoneNumberPool --------------------------
(***************************************************************************)
(* PhoneNumberPool.cpp: a queue of free numbers and the set inPool of the  *)
(* numbers in it.  Agents acquire and release numbers as they like; a      *)
(* critical section is one step (see CondVar).  Nothing in the pool knows  *)
(* who holds a number: has records what an agent rightfully holds.         *)
(***************************************************************************)
EXTENDS Naturals, Sequences, FiniteSets, CondVar

CONSTANTS Agents,
          Numbers,      \* initialNumbers, all different
          Foreign,      \* other numbers that a careless agent may release
          Careless      \* agents that may release what they do not hold

NumbersAssumption == /\ IsFiniteSet(Agents) /\ IsFiniteSet(Numbers)
                     /\ Numbers \cap Foreign = {}
                     /\ Careless \subseteq Agents

VARIABLES careless,  \* the agents that do, in this behaviour
          q, inPool,
          waiting,   \* agents asleep in cv
          awake,     \* agents whose wait has ended, before they re-lock
          has        \* has[a]: numbers that acquire gave a and it still holds

vars == <<careless, q, inPool, waiting, awake, has>>

All == Numbers \cup Foreign
maxCapacity == Cardinality(Numbers)
Queued == {q[i] : i \in 1 .. Len(q)}

Init == /\ careless \in SUBSET Careless
        /\ q \in {s \in [1 .. maxCapacity -> Numbers] :
                      \A i, j \in DOMAIN s : s[i] = s[j] => i = j}
        /\ inPool = Numbers
        /\ waiting = {} /\ awake = {}
        /\ has = [a \in Agents |-> {}]

-----------------------------------------------------------------------------
(* acquire, at its call or after a wait.  An agent may hold numbers        *)
(* already, and another agent may take the number it was notified of.      *)
acquire(a) == /\ a \notin waiting
              /\ q # <<>>
              /\ q' = Tail(q)
              /\ inPool' = inPool \ {Head(q)}
              /\ has' = [has EXCEPT ![a] = @ \cup {Head(q)}]
              /\ awake' = awake \ {a}
              /\ UNCHANGED waiting

acquireWaits(a) == /\ a \notin waiting
                   /\ q = <<>>
                   /\ waiting' = waiting \cup {a}
                   /\ awake' = awake \ {a}
                   /\ UNCHANGED <<q, inPool, has>>

MayRelease(a, number) == /\ a \notin waiting \cup awake
                         /\ a \notin careless => number \in has[a]

(* A full pool, and a number that is in it, are ignored.                   *)
releaseIgnored(a, number) == /\ MayRelease(a, number)
                             /\ Len(q) >= maxCapacity \/ number \in inPool
                             /\ UNCHANGED <<q, inPool, waiting, awake, has>>

release_NoSetCheck(a, number) ==
    /\ MayRelease(a, number)
    /\ Len(q) < maxCapacity
    /\ q' = Append(q, number)
    /\ inPool' = inPool \cup {number}
    /\ has' = [has EXCEPT ![a] = @ \ {number}]
    /\ waiting' \in NotifyOne(waiting)
    /\ awake' = awake \cup (waiting \ waiting')

release(a, number) ==
    /\ MayRelease(a, number)
    /\ Len(q) < maxCapacity /\ number \notin inPool
    /\ q' = Append(q, number)
    /\ inPool' = inPool \cup {number}
    /\ has' = [has EXCEPT ![a] = @ \ {number}]
    /\ waiting' \in NotifyOne(waiting)
    /\ awake' = awake \cup (waiting \ waiting')

SpuriousWakeup(a) == /\ a \in waiting
                     /\ waiting' = waiting \ {a} /\ awake' = awake \cup {a}
                     /\ UNCHANGED <<q, inPool, has>>

Next == /\ UNCHANGED careless
        /\ \E a \in Agents :
               \/ acquire(a) \/ acquireWaits(a) \/ SpuriousWakeup(a)
               \/ \E number \in All :
                      release(a, number) \/ releaseIgnored(a, number)

Spec == Init /\ [][Next]_vars

-----------------------------------------------------------------------------
TypeOK == /\ careless \subseteq Careless
          /\ q \in Seq(All)
          /\ inPool \subseteq All
          /\ waiting \cup awake \subseteq Agents /\ waiting \cap awake = {}
          /\ has \in [Agents -> SUBSET All]

(* Whatever agents release, the pool never holds a number twice nor more   *)
(* numbers than it began with, and inPool is in step with the queue.       *)
PoolSound == /\ TypeOK
             /\ Len(q) <= maxCapacity
             /\ \A i, j \in 1 .. Len(q) : q[i] = q[j] => i = j
             /\ inPool = Queued

(* Line 14, "so someone else can use it": between careful agents a number  *)
(* is in one place only, and none is lost.                                 *)
OneHolder ==
    careless = {} =>
        /\ \A a, b \in Agents : a # b => has[a] \cap has[b] = {}
        /\ \A a \in Agents : has[a] \cap Queued = {}
        /\ Queued \cup UNION {has[a] : a \in Agents} = Numbers

(* While an agent sleeps, every free number has an agent on its way to it. *)
NoLostWakeup == waiting # {} => Len(q) <= Cardinality(awake)
=============================================================================
