---------------------------- MODULE PoolsProofs ----------------------------
(***************************************************************************)
(* For any clients, however many connections or numbers and whatever is    *)
(* returned to them: the pools hold nothing twice, careful clients share   *)
(* nothing, and no notification is lost.                                   *)
(***************************************************************************)
EXTENDS Pools, FiniteSetTheorems, SequenceTheorems, TLAPS

-----------------------------------------------------------------------------
(* A queue that holds nothing twice, and what is in it.                    *)
Distinct(s) == \A i, j \in 1 .. Len(s) : s[i] = s[j] => i = j
Elements(s) == {s[i] : i \in 1 .. Len(s)}

(* Popping the front takes exactly that element out.                       *)
LEMMA Popped ==
    ASSUME NEW S, NEW s \in Seq(S), s # <<>>, Distinct(s)
    PROVE  /\ Tail(s) \in Seq(S) /\ Distinct(Tail(s))
           /\ Len(s) \in Nat \ {0} /\ Len(Tail(s)) = Len(s) - 1
           /\ Head(s) \in S /\ Head(s) \in Elements(s)
           /\ Elements(Tail(s)) = Elements(s) \ {Head(s)}
<1>1. /\ Tail(s) \in Seq(S) /\ Head(s) \in S /\ Head(s) = s[1]
      /\ Len(s) \in Nat \ {0} /\ Len(Tail(s)) = Len(s) - 1
      /\ \A i \in 1 .. Len(Tail(s)) : Tail(s)[i] = s[i + 1]
  BY HeadTailProperties, EmptySeq
<1>2. \A i \in 1 .. Len(Tail(s)) : i + 1 \in 1 .. Len(s)
  BY <1>1
<1>3. Distinct(Tail(s))
  BY <1>1, <1>2 DEF Distinct
<1>4. 1 \in 1 .. Len(s)
  BY <1>1
<1>5. Head(s) \in Elements(s)
  BY <1>1, <1>4 DEF Elements
<1>6. ASSUME NEW e \in Elements(Tail(s))
      PROVE  e \in Elements(s) \ {Head(s)}
  <2>1. PICK i \in 1 .. Len(Tail(s)) : e = Tail(s)[i]
    BY <1>6 DEF Elements
  <2>2. e = s[i + 1] /\ i + 1 \in 1 .. Len(s) /\ i + 1 # 1
    BY <1>1, <1>2, <2>1
  <2> QED BY <1>1, <1>4, <2>2 DEF Elements, Distinct
<1>7. ASSUME NEW e \in Elements(s) \ {Head(s)}
      PROVE  e \in Elements(Tail(s))
  <2>1. PICK i \in 1 .. Len(s) : e = s[i]
    BY <1>7 DEF Elements
  <2>2. i # 1
    BY <1>1, <1>7, <2>1
  <2>3. i - 1 \in 1 .. Len(Tail(s)) /\ (i - 1) + 1 = i
    BY <1>1, <2>2
  <2>4. Tail(s)[i - 1] = e
    BY <1>1, <2>1, <2>3
  <2> QED BY <2>3, <2>4 DEF Elements
<1> QED BY <1>1, <1>3, <1>5, <1>6, <1>7

(* Pushing a new element adds exactly that one.                            *)
LEMMA Pushed ==
    ASSUME NEW S, NEW s \in Seq(S), NEW e \in S, e \notin Elements(s), Distinct(s)
    PROVE  /\ Append(s, e) \in Seq(S) /\ Distinct(Append(s, e))
           /\ Len(s) \in Nat /\ Len(Append(s, e)) = Len(s) + 1
           /\ Elements(Append(s, e)) = Elements(s) \cup {e}
<1> DEFINE t == Append(s, e)
<1>1. /\ t \in Seq(S) /\ Len(s) \in Nat /\ Len(t) = Len(s) + 1
      /\ \A i \in 1 .. Len(s) : t[i] = s[i]
      /\ t[Len(s) + 1] = e
  BY AppendProperties, LenProperties
<1> HIDE DEF t
<1>2. \A i \in 1 .. Len(t) : i \in 1 .. Len(s) \/ i = Len(s) + 1
  BY <1>1
<1>3. /\ \A i \in 1 .. Len(s) : i \in 1 .. Len(t)
      /\ Len(s) + 1 \in 1 .. Len(t)
  BY <1>1
<1>4. \A i \in 1 .. Len(s) : t[i] # e
  BY <1>1 DEF Elements
<1>5. Distinct(t)
  BY <1>1, <1>2, <1>4 DEF Distinct
<1>6. Elements(t) = Elements(s) \cup {e}
  BY <1>1, <1>2, <1>3 DEF Elements
<1> QED BY <1>1, <1>5, <1>6 DEF t

-----------------------------------------------------------------------------
(* Instances see the operators of FiniteSets under names of their own.     *)
LEMMA SameCardinality ==
    \A S : CP!Cardinality(S) = Cardinality(S) /\ Phone!Cardinality(S) = Cardinality(S)
BY DEF CP!Cardinality, Phone!Cardinality, Cardinality

(* What the assumptions say.                                               *)
LEMMA Constants ==
    /\ IsFiniteSet(Clients) /\ MaxConnections \in Nat
    /\ CP!Conns \cap Fakes = {} /\ Careless \subseteq Clients /\ MaxCalls \in Nat
    /\ Phone!maxCapacity = MaxConnections
<1>1. /\ IsFiniteSet(Clients) /\ MaxConnections \in Nat
      /\ CP!Conns \cap Fakes = {} /\ Careless \subseteq Clients /\ MaxCalls \in Nat
  BY PoolsAssumption
  DEF CP!PoolAssumption, CP!IsFiniteSet, IsFiniteSet
<1>2. Cardinality(0 .. MaxConnections - 1) = MaxConnections
  BY <1>1, FS_Interval
<1> QED BY <1>1, <1>2, SameCardinality DEF Phone!maxCapacity

-----------------------------------------------------------------------------
(* Of every pool: who sleeps is not on its way to the pool, and while      *)
(* somebody sleeps there are at least as many clients on their way as the  *)
(* pool has free connections or numbers.                                   *)
OnTheirWay == awake \cup expired
WaitersApart == /\ waiting \subseteq Clients /\ OnTheirWay \subseteq Clients
                /\ waiting \cap OnTheirWay = {}
Wakeups == /\ WaitersApart
           /\ waiting # {} => Len(pool) <= Cardinality(OnTheirWay)

(* The clients on their way are finitely many.                             *)
LEMMA Counted ==
    ASSUME WaitersApart
    PROVE  IsFiniteSet(OnTheirWay) /\ Cardinality(OnTheirWay) \in Nat
BY Constants, FS_Subset, FS_CardinalityType DEF WaitersApart

(* Whoever takes from the pool is at most one of those on their way.       *)
LEMMA TakingKeepsWakeups ==
    ASSUME Wakeups, NEW c \in Clients, waiting' = waiting,
           awake' = awake \ {c}, expired' = expired \ {c},
           Len(pool) \in Nat, Len(pool') = Len(pool) - 1
    PROVE  Wakeups'
<1>1. OnTheirWay' = OnTheirWay \ {c} /\ WaitersApart'
  BY DEF Wakeups, WaitersApart, OnTheirWay
<1>2. Cardinality(OnTheirWay') >= Cardinality(OnTheirWay) - 1
  <2>1. IsFiniteSet(OnTheirWay) /\ Cardinality(OnTheirWay) \in Nat
    BY Counted DEF Wakeups
  <2>2. Cardinality(OnTheirWay \ {c})
            = IF c \in OnTheirWay THEN Cardinality(OnTheirWay) - 1
                                 ELSE Cardinality(OnTheirWay)
    BY <2>1, FS_RemoveElement
  <2> QED BY <1>1, <2>1, <2>2
<1>3. Cardinality(OnTheirWay') \in Nat /\ Cardinality(OnTheirWay) \in Nat
  <2>1. OnTheirWay \in SUBSET Clients /\ OnTheirWay' \in SUBSET Clients
    BY <1>1 DEF Wakeups, WaitersApart
  <2> QED BY <2>1, Constants, FS_Subset, FS_CardinalityType
<1>4. waiting' # {} => Len(pool') <= Cardinality(OnTheirWay')
  BY <1>2, <1>3 DEF Wakeups
<1> QED BY <1>1, <1>4 DEF Wakeups

(* notify_one puts a sleeper on its way for the one that is returned.      *)
LEMMA ReturningKeepsWakeups ==
    ASSUME Wakeups, waiting' \in NotifyOne(waiting),
           awake' = awake \cup (waiting \ waiting'), expired' = expired,
           Len(pool) \in Nat, Len(pool') = Len(pool) + 1
    PROVE  Wakeups'
<1>1. CASE waiting = {}
  <2>1. waiting' = {} /\ OnTheirWay' = OnTheirWay
    BY <1>1 DEF NotifyOne, OnTheirWay
  <2> QED BY <2>1 DEF Wakeups, WaitersApart
<1>2. CASE waiting # {}
  <2>1. PICK c \in waiting : waiting' = waiting \ {c}
    BY <1>2 DEF NotifyOne
  <2>2. /\ OnTheirWay' = OnTheirWay \cup {c} /\ c \notin OnTheirWay
        /\ WaitersApart'
    BY <2>1 DEF Wakeups, WaitersApart, OnTheirWay
  <2>3. /\ Cardinality(OnTheirWay') = Cardinality(OnTheirWay) + 1
        /\ Cardinality(OnTheirWay) \in Nat
    BY <2>2, Counted, FS_AddElement DEF Wakeups
  <2>4. Len(pool') <= Cardinality(OnTheirWay')
    BY <1>2, <2>3 DEF Wakeups
  <2> QED BY <2>2, <2>4 DEF Wakeups
<1> QED BY <1>1, <1>2

(* A client that finds the pool empty goes to sleep or leaves.             *)
LEMMA EmptyKeepsWakeups ==
    ASSUME Wakeups, NEW c \in Clients, pool' = <<>>,
           waiting' \subseteq waiting \cup {c},
           OnTheirWay' \subseteq OnTheirWay, waiting' \cap OnTheirWay' = {}
    PROVE  Wakeups'
<1>1. WaitersApart'
  BY DEF Wakeups, WaitersApart
<1>2. Cardinality(OnTheirWay') \in Nat
  BY <1>1, Constants, FS_Subset, FS_CardinalityType DEF WaitersApart
<1>3. Len(pool') = 0
  BY EmptySeq
<1> QED BY <1>1, <1>2, <1>3 DEF Wakeups

(* A sleeper that wakes up by itself, or whose time is up, is on its way.  *)
LEMMA WakingKeepsWakeups ==
    ASSUME Wakeups, pool' = pool, NEW c \in Clients,
           waiting' = waiting \ {c}, OnTheirWay' = OnTheirWay \cup {c},
           Len(pool) \in Nat
    PROVE  Wakeups'
<1>1. WaitersApart'
  BY DEF Wakeups, WaitersApart
<1>2. /\ Cardinality(OnTheirWay') >= Cardinality(OnTheirWay)
      /\ Cardinality(OnTheirWay') \in Nat /\ Cardinality(OnTheirWay) \in Nat
  BY <1>1, Counted, FS_AddElement, Constants, FS_Subset, FS_CardinalityType
  DEF Wakeups, WaitersApart
<1>3. waiting' # {} => Len(pool') <= Cardinality(OnTheirWay')
  BY <1>2 DEF Wakeups
<1> QED BY <1>1, <1>3 DEF Wakeups
-----------------------------------------------------------------------------
(* The connection pools: a connection that getConnection hands out is in   *)
(* no client's hands, and one that the ledger lets back in is not in the   *)
(* pool.                                                                   *)
LEMMA GetKeeps ==
    ASSUME CP!PoolSound, CP!ExclusiveLeases, Wakeups, careless' = careless,
           NEW c \in Clients, CP!Get(c)
    PROVE  CP!PoolSound' /\ CP!ExclusiveLeases' /\ Wakeups'
<1> DEFINE conn == Head(pool)
<1>1. /\ pool \in Seq(CP!Conns) /\ Distinct(pool) /\ pool # <<>>
      /\ Elements(pool) = CP!Conns \ leased
      /\ pool' = Tail(pool) /\ leased' = leased \cup {conn}
      /\ holds' = [holds EXCEPT ![c] = @ \cup {conn}]
      /\ given' = [given EXCEPT ![c] = @ \cup {conn}]
      /\ awake' = awake \ {c} /\ expired' = expired \ {c} /\ waiting' = waiting
      /\ calls' = CP!Counted(c)
  BY DEF CP!PoolSound, CP!TypeOK, CP!Get, Distinct, Elements
<1>2. /\ pool' \in Seq(CP!Conns) /\ Distinct(pool')
      /\ Len(pool) \in Nat /\ Len(pool') = Len(pool) - 1
      /\ conn \in CP!Conns /\ conn \notin leased
      /\ Elements(pool') = CP!Conns \ leased'
  BY <1>1, Popped
<1>3. calls' \in [Clients -> 0 .. MaxCalls]
  <2>1. calls \in [Clients -> 0 .. MaxCalls]
    BY DEF CP!PoolSound, CP!TypeOK
  <2>2. c \in CP!Inside \/ calls[c] < MaxCalls
    BY DEF CP!Get, CP!Evaluates, CP!Inside
  <2>3. c \notin CP!Inside => calls[c] + 1 \in 0 .. MaxCalls
    BY <2>1, <2>2, Constants
  <2> QED BY <1>1, <2>1, <2>3 DEF CP!Counted
<1> HIDE DEF conn
<1>4. CP!TypeOK'
  <2>1. holds' \in [Clients -> SUBSET CP!Conns] /\ given' \in [Clients -> SUBSET CP!Conns]
    BY <1>1, <1>2 DEF CP!PoolSound, CP!TypeOK
  <2>2. leased' \subseteq CP!Conns
    BY <1>1, <1>2 DEF CP!PoolSound, CP!TypeOK
  <2>3. /\ waiting' \cup awake' \cup expired' \subseteq Clients
        /\ waiting' \cap (awake' \cup expired') = {} /\ awake' \cap expired' = {}
    BY <1>1 DEF CP!PoolSound, CP!TypeOK
  <2>4. careless' \subseteq Careless
    BY DEF CP!PoolSound, CP!TypeOK
  <2> QED BY <1>2, <1>3, <2>1, <2>2, <2>3, <2>4 DEF CP!TypeOK
<1>5. CP!PoolSound'
  BY <1>2, <1>4 DEF CP!PoolSound, Distinct, Elements
<1>6. CP!ExclusiveLeases'
  <2> SUFFICES ASSUME careless = {}
               PROVE  /\ \A d, e \in Clients : d # e => holds'[d] \cap holds'[e] = {}
                      /\ leased' = UNION {holds'[d] : d \in Clients}
    BY DEF CP!ExclusiveLeases
  <2>1. \A d \in Clients : holds'[d] = IF d = c THEN holds[d] \cup {conn} ELSE holds[d]
    BY <1>1 DEF CP!PoolSound, CP!TypeOK
  <2>2. /\ \A d, e \in Clients : d # e => holds[d] \cap holds[e] = {}
        /\ leased = UNION {holds[d] : d \in Clients}
    BY DEF CP!ExclusiveLeases
  <2>3. \A d \in Clients : conn \notin holds[d]
    BY <1>2, <2>2
  <2>4. \A x : x \in leased' <=> \E d \in Clients : x \in holds'[d]
    <3>1. \A x : x \in leased <=> \E d \in Clients : x \in holds[d]
      BY <2>2
    <3>2. \A x : x \in leased' <=> x \in leased \/ x = conn
      BY <1>1
    <3>3. \A x : \A d \in Clients :
              x \in holds'[d] <=> x \in holds[d] \/ (d = c /\ x = conn)
      BY <2>1
    <3> QED BY <3>1, <3>2, <3>3
  <2>5. \A d, e \in Clients : d # e => holds'[d] \cap holds'[e] = {}
    BY <2>1, <2>2, <2>3
  <2> QED BY <2>4, <2>5
<1>7. Wakeups'
  BY <1>1, <1>2, TakingKeepsWakeups
<1> QED BY <1>5, <1>6, <1>7

LEMMA ReleaseKeeps ==
    ASSUME CP!PoolSound, CP!ExclusiveLeases, Wakeups, careless' = careless,
           NEW c \in Clients, NEW conn, CP!Release(c, conn)
    PROVE  CP!PoolSound' /\ CP!ExclusiveLeases' /\ Wakeups'
<1>1. /\ pool \in Seq(CP!Conns) /\ Distinct(pool)
      /\ Elements(pool) = CP!Conns \ leased
      /\ conn \in leased /\ leased \subseteq CP!Conns
      /\ pool' = Append(pool, conn) /\ leased' = leased \ {conn}
      /\ holds' = [holds EXCEPT ![c] = @ \ {conn}]
      /\ waiting' \in NotifyOne(waiting) /\ awake' = awake \cup (waiting \ waiting')
      /\ expired' = expired /\ given' = given /\ calls' = calls
  BY DEF CP!PoolSound, CP!TypeOK, CP!Release, Distinct, Elements, NotifyOne, CP!NotifyOne
<1>2. /\ pool' \in Seq(CP!Conns) /\ Distinct(pool')
      /\ Len(pool) \in Nat /\ Len(pool') = Len(pool) + 1
      /\ Elements(pool') = CP!Conns \ leased'
  BY <1>1, Pushed
<1>3. CP!TypeOK'
  <2>1. holds' \in [Clients -> SUBSET CP!Conns]
    BY <1>1 DEF CP!PoolSound, CP!TypeOK
  <2>2. /\ waiting' \cup awake' \cup expired' \subseteq Clients
        /\ waiting' \cap (awake' \cup expired') = {} /\ awake' \cap expired' = {}
    BY <1>1 DEF CP!PoolSound, CP!TypeOK, NotifyOne
  <2>3. /\ careless' \subseteq Careless /\ leased' \subseteq CP!Conns
        /\ given' \in [Clients -> SUBSET CP!Conns]
        /\ calls' \in [Clients -> 0 .. MaxCalls]
    BY <1>1 DEF CP!PoolSound, CP!TypeOK
  <2> QED BY <1>2, <2>1, <2>2, <2>3 DEF CP!TypeOK
<1>4. CP!PoolSound'
  BY <1>2, <1>3 DEF CP!PoolSound, Distinct, Elements
<1>5. CP!ExclusiveLeases'
  <2> SUFFICES ASSUME careless = {}
               PROVE  /\ \A d, e \in Clients : d # e => holds'[d] \cap holds'[e] = {}
                      /\ leased' = UNION {holds'[d] : d \in Clients}
    BY DEF CP!ExclusiveLeases
  <2>1. \A d \in Clients : holds'[d] = IF d = c THEN holds[d] \ {conn} ELSE holds[d]
    BY <1>1 DEF CP!PoolSound, CP!TypeOK
  <2>2. /\ \A d, e \in Clients : d # e => holds[d] \cap holds[e] = {}
        /\ leased = UNION {holds[d] : d \in Clients}
    BY DEF CP!ExclusiveLeases
  <2>3. conn \in holds[c]
    BY DEF CP!Release, CP!MayReturn
  <2>4. \A x : x \in leased' <=> \E d \in Clients : x \in holds'[d]
    <3>1. \A x : x \in leased <=> \E d \in Clients : x \in holds[d]
      BY <2>2
    <3>2. \A x : x \in leased' <=> x \in leased /\ x # conn
      BY <1>1
    <3>3. \A x : \A d \in Clients :
              x \in holds'[d] <=> x \in holds[d] /\ ~(d = c /\ x = conn)
      BY <2>1
    <3>4. \A d \in Clients : conn \in holds[d] => d = c
      BY <2>2, <2>3
    <3> QED BY <3>1, <3>2, <3>3, <3>4
  <2>5. \A d, e \in Clients : d # e => holds'[d] \cap holds'[e] = {}
    BY <2>1, <2>2
  <2> QED BY <2>4, <2>5
<1>6. Wakeups'
  BY <1>1, <1>2, ReturningKeepsWakeups
<1> QED BY <1>4, <1>5, <1>6

(* The other steps move clients between the sets of those inside.          *)
LEMMA WaitsKeep ==
    ASSUME CP!PoolSound, CP!ExclusiveLeases, Wakeups, careless' = careless,
           NEW c \in Clients,
           CP!GetWaits(c) \/ CP!GetFails(c) \/ CP!TimeOut(c) \/ CP!SpuriousWakeup(c)
    PROVE  CP!PoolSound' /\ CP!ExclusiveLeases' /\ Wakeups'
<1>1. /\ pool' = pool /\ leased' = leased /\ holds' = holds /\ given' = given
      /\ calls' = calls \/ (calls' = CP!Counted(c) /\ CP!Evaluates(c))
      /\ pool \in Seq(CP!Conns) /\ Len(pool) \in Nat
  BY LenProperties DEF CP!GetWaits, CP!GetFails, CP!TimeOut, CP!SpuriousWakeup,
     CP!PoolSound, CP!TypeOK
<1>2. calls' \in [Clients -> 0 .. MaxCalls]
  <2>1. calls \in [Clients -> 0 .. MaxCalls]
    BY DEF CP!PoolSound, CP!TypeOK
  <2>2. CP!Evaluates(c) /\ c \notin CP!Inside => calls[c] + 1 \in 0 .. MaxCalls
    BY <2>1, Constants DEF CP!Evaluates, CP!Inside
  <2> QED BY <1>1, <2>1, <2>2 DEF CP!Counted
<1>3. /\ waiting' \cup awake' \cup expired' \subseteq Clients
      /\ waiting' \cap (awake' \cup expired') = {} /\ awake' \cap expired' = {}
  BY DEF CP!GetWaits, CP!GetFails, CP!TimeOut, CP!SpuriousWakeup,
     CP!PoolSound, CP!TypeOK, CP!Evaluates, CP!Inside
<1>4. CP!PoolSound'
  BY <1>1, <1>2, <1>3 DEF CP!PoolSound, CP!TypeOK
<1>5. CP!ExclusiveLeases'
  BY <1>1 DEF CP!ExclusiveLeases
<1>6. CASE CP!GetWaits(c) \/ CP!GetFails(c)
  <2>1. /\ pool' = <<>> /\ waiting' \subseteq waiting \cup {c}
        /\ OnTheirWay' \subseteq OnTheirWay /\ waiting' \cap OnTheirWay' = {}
    BY <1>3, <1>6 DEF CP!GetWaits, CP!GetFails, OnTheirWay
  <2> QED BY <1>4, <1>5, <2>1, EmptyKeepsWakeups
<1>7. CASE CP!TimeOut(c) \/ CP!SpuriousWakeup(c)
  <2>1. waiting' = waiting \ {c} /\ OnTheirWay' = OnTheirWay \cup {c}
    BY <1>7 DEF CP!TimeOut, CP!SpuriousWakeup, OnTheirWay
  <2> QED BY <1>1, <1>4, <1>5, <2>1, WakingKeepsWakeups
<1> QED BY <1>6, <1>7
-----------------------------------------------------------------------------
(* The phone number pools: the queue holds nothing twice and careful       *)
(* agents share nothing, with the set inPool and without it.               *)
PhoneInv ==
    /\ Phone!TypeOK /\ Distinct(pool) /\ Phone!OneHolder
    /\ program = "PhoneNumberPool" => Phone!PoolSound
    /\ program = "Java/PhoneNumberPool" => careless = {}

(* One element of Q is handed to a: nobody else has it.                    *)
LEMMA Handed ==
    ASSUME NEW S, NEW h \in [Clients -> SUBSET S], NEW Q, NEW x \in Q,
           NEW a \in Clients,
           \A b, d \in Clients : b # d => h[b] \cap h[d] = {},
           \A b \in Clients : h[b] \cap Q = {},
           NEW g, g = [h EXCEPT ![a] = @ \cup {x}]
    PROVE  /\ \A b, d \in Clients : b # d => g[b] \cap g[d] = {}
           /\ \A b \in Clients : g[b] \cap (Q \ {x}) = {}
           /\ (Q \ {x}) \cup UNION {g[b] : b \in Clients}
                  = Q \cup UNION {h[b] : b \in Clients}
<1>1. \A b \in Clients : g[b] = IF b = a THEN h[b] \cup {x} ELSE h[b]
  OBVIOUS
<1>2. \A b \in Clients : x \notin h[b]
  OBVIOUS
<1>3. \A b, d \in Clients : b # d => g[b] \cap g[d] = {}
  BY <1>1, <1>2
<1>4. \A b \in Clients : g[b] \cap (Q \ {x}) = {}
  BY <1>1
<1>5. \A y : \A b \in Clients : y \in g[b] <=> y \in h[b] \/ (b = a /\ y = x)
  BY <1>1
<1>6. \A y : y \in (Q \ {x}) \cup UNION {g[b] : b \in Clients}
                 <=> y \in Q \cup UNION {h[b] : b \in Clients}
  BY <1>5
<1> QED BY <1>3, <1>4, <1>6

(* acquire, however the pool keeps track of what it holds.                 *)
LEMMA AcquireKeeps ==
    ASSUME Phone!TypeOK, Distinct(pool), Phone!OneHolder, careless' = careless,
           NEW a \in Clients, pool # <<>>, pool' = Tail(pool),
           holds' = [holds EXCEPT ![a] = @ \cup {Head(pool)}]
    PROVE  /\ pool' \in Seq(Phone!All) /\ Distinct(pool') /\ Phone!OneHolder'
           /\ holds' \in [Clients -> SUBSET Phone!All]
           /\ Len(pool) \in Nat /\ Len(pool') = Len(pool) - 1
           /\ Elements(pool') = Elements(pool) \ {Head(pool)}
<1>1. pool \in Seq(Phone!All) /\ holds \in [Clients -> SUBSET Phone!All]
  BY DEF Phone!TypeOK
<1>2. /\ pool' \in Seq(Phone!All) /\ Distinct(pool')
      /\ Len(pool) \in Nat /\ Len(pool') = Len(pool) - 1
      /\ Head(pool) \in Phone!All /\ Head(pool) \in Elements(pool)
      /\ Elements(pool') = Elements(pool) \ {Head(pool)}
  BY <1>1, Popped
<1>3. holds' \in [Clients -> SUBSET Phone!All]
  BY <1>1, <1>2
<1>4. Phone!OneHolder'
  <2> SUFFICES ASSUME careless = {}
               PROVE  /\ \A b, d \in Clients : b # d => holds'[b] \cap holds'[d] = {}
                      /\ \A b \in Clients : holds'[b] \cap Elements(pool') = {}
                      /\ Elements(pool') \cup UNION {holds'[b] : b \in Clients}
                             = 0 .. MaxConnections - 1
    BY DEF Phone!OneHolder, Phone!Queued, Elements
  <2>1. /\ \A b, d \in Clients : b # d => holds[b] \cap holds[d] = {}
        /\ \A b \in Clients : holds[b] \cap Elements(pool) = {}
        /\ Elements(pool) \cup UNION {holds[b] : b \in Clients}
               = 0 .. MaxConnections - 1
    BY DEF Phone!OneHolder, Phone!Queued, Elements
  <2> QED BY <1>1, <1>2, <2>1, Handed
<1> QED BY <1>2, <1>3, <1>4

(* release of a number that is not in the pool, and that a careful agent   *)
(* holds.                                                                  *)
LEMMA PutBackKeeps ==
    ASSUME Phone!TypeOK, Distinct(pool), Phone!OneHolder, careless' = careless,
           NEW a \in Clients, NEW number \in Phone!All, number \notin Elements(pool),
           careless = {} => number \in holds[a],
           pool' = Append(pool, number),
           holds' = [holds EXCEPT ![a] = @ \ {number}]
    PROVE  /\ pool' \in Seq(Phone!All) /\ Distinct(pool') /\ Phone!OneHolder'
           /\ holds' \in [Clients -> SUBSET Phone!All]
           /\ Len(pool) \in Nat /\ Len(pool') = Len(pool) + 1
           /\ Elements(pool') = Elements(pool) \cup {number}
<1>1. pool \in Seq(Phone!All) /\ holds \in [Clients -> SUBSET Phone!All]
  BY DEF Phone!TypeOK
<1>2. /\ pool' \in Seq(Phone!All) /\ Distinct(pool')
      /\ Len(pool) \in Nat /\ Len(pool') = Len(pool) + 1
      /\ Elements(pool') = Elements(pool) \cup {number}
  BY <1>1, Pushed
<1>3. /\ \A b \in Clients :
             holds'[b] = IF b = a THEN holds[b] \ {number} ELSE holds[b]
      /\ holds' \in [Clients -> SUBSET Phone!All]
  BY <1>1
<1>4. Phone!OneHolder'
  <2> SUFFICES ASSUME careless = {}
               PROVE  /\ \A b, d \in Clients : b # d => holds'[b] \cap holds'[d] = {}
                      /\ \A b \in Clients : holds'[b] \cap Elements(pool') = {}
                      /\ Elements(pool') \cup UNION {holds'[b] : b \in Clients}
                             = 0 .. MaxConnections - 1
    BY DEF Phone!OneHolder, Phone!Queued, Elements
  <2>1. /\ \A b, d \in Clients : b # d => holds[b] \cap holds[d] = {}
        /\ \A b \in Clients : holds[b] \cap Elements(pool) = {}
        /\ Elements(pool) \cup UNION {holds[b] : b \in Clients}
               = 0 .. MaxConnections - 1
    BY DEF Phone!OneHolder, Phone!Queued, Elements
  <2>2. \A b \in Clients : number \in holds[b] => b = a
    BY <2>1
  <2>3. /\ \A b, d \in Clients : b # d => holds'[b] \cap holds'[d] = {}
        /\ \A b \in Clients : holds'[b] \cap Elements(pool') = {}
    BY <1>2, <1>3, <2>1, <2>2
  <2>4. \A x : x \in Elements(pool') \/ (\E b \in Clients : x \in holds'[b])
                  <=> x \in 0 .. MaxConnections - 1
    <3>1. \A x : x \in Elements(pool) \/ (\E b \in Clients : x \in holds[b])
                    <=> x \in 0 .. MaxConnections - 1
      BY <2>1
    <3>2. \A x : x \in Elements(pool') <=> x \in Elements(pool) \/ x = number
      BY <1>2
    <3>3. \A x : \A b \in Clients :
              x \in holds'[b] <=> x \in holds[b] /\ ~(b = a /\ x = number)
      BY <1>3
    <3>4. number \in holds[a]
      OBVIOUS
    <3> QED BY <3>1, <3>2, <3>3, <3>4
  <2> QED BY <2>3, <2>4
<1> QED BY <1>2, <1>3, <1>4

(* So acquire and release keep the invariant, in C++ and in Java.          *)
LEMMA PhoneStep ==
    ASSUME PhoneInv, Wakeups, expired = {}, expired' = {}, careless' = careless,
           program' = program, NEW a \in Clients,
           \/ /\ program = "PhoneNumberPool"
              /\ \/ Phone!acquire(a) \/ Phone!acquireWaits(a) \/ Phone!SpuriousWakeup(a)
                 \/ \E number \in Phone!All :
                        Phone!release(a, number) \/ Phone!releaseIgnored(a, number)
           \/ /\ program = "Java/PhoneNumberPool"
              /\ \/ JavaAcquire(a) \/ Phone!SpuriousWakeup(a)
                 \/ \E number \in Phone!All : JavaRelease(a, number)
    PROVE  PhoneInv' /\ Wakeups'
<1>0. /\ Phone!TypeOK /\ Distinct(pool) /\ Phone!OneHolder
      /\ program = "PhoneNumberPool" =>
             Len(pool) <= MaxConnections /\ inPool = Elements(pool)
      /\ program = "Java/PhoneNumberPool" => careless = {}
      /\ pool \in Seq(Phone!All) /\ Len(pool) \in Nat
      /\ careless \subseteq Careless /\ inPool \subseteq Phone!All
      /\ holds \in [Clients -> SUBSET Phone!All]
      /\ waiting \cup awake \subseteq Clients /\ waiting \cap awake = {}
      /\ MaxConnections \in Nat
  BY Constants, LenProperties
  DEF PhoneInv, Phone!PoolSound, Phone!Queued, Elements, Phone!TypeOK
<1>1. ASSUME Phone!TypeOK', Distinct(pool'), Phone!OneHolder',
             program = "PhoneNumberPool" =>
                 Len(pool') <= MaxConnections /\ inPool' = Elements(pool')
      PROVE  PhoneInv'
  <2>1. program = "PhoneNumberPool" => Phone!PoolSound'
    BY <1>1, Constants
    DEF Phone!PoolSound, Phone!Queued, Phone!maxCapacity, Elements, Distinct
  <2> QED BY <1>0, <1>1, <2>1 DEF PhoneInv
<1>2. CASE \/ program = "PhoneNumberPool" /\ Phone!acquire(a)
           \/ /\ program = "Java/PhoneNumberPool"
              /\ JavaAcquire(a) /\ ~Phone!acquireWaits(a)
  <2>1. /\ pool # <<>> /\ pool' = Tail(pool)
        /\ holds' = [holds EXCEPT ![a] = @ \cup {Head(pool)}]
        /\ waiting' = waiting /\ awake' = awake \ {a}
        /\ inPool' \in {inPool, inPool \ {Head(pool)}}
    BY <1>2 DEF Phone!acquire, JavaAcquire
  <2>2. /\ pool' \in Seq(Phone!All) /\ Distinct(pool') /\ Phone!OneHolder'
        /\ holds' \in [Clients -> SUBSET Phone!All]
        /\ Len(pool') = Len(pool) - 1
        /\ Elements(pool') = Elements(pool) \ {Head(pool)}
    BY <1>0, <2>1, AcquireKeeps
  <2>3. Phone!TypeOK'
    <3>1. inPool' \subseteq Phone!All
      BY <1>0, <2>1
    <3>2. waiting' \cup awake' \subseteq Clients /\ waiting' \cap awake' = {}
      BY <1>0, <2>1
    <3>3. careless' \subseteq Careless
      BY <1>0
    <3> QED BY <2>2, <3>1, <3>2, <3>3 DEF Phone!TypeOK
  <2>4. program = "PhoneNumberPool" => inPool' = inPool \ {Head(pool)}
    BY <1>2 DEF Phone!acquire
  <2>5. program = "PhoneNumberPool" =>
            Len(pool') <= MaxConnections /\ inPool' = Elements(pool')
    BY <1>0, <2>2, <2>4
  <2>6. Wakeups'
    BY <1>0, <2>1, <2>2, TakingKeepsWakeups
  <2> QED BY <1>1, <2>2, <2>3, <2>5, <2>6
<1>3. CASE Phone!acquireWaits(a)
  <2>1. /\ pool' = <<>> /\ pool' = pool /\ waiting' = waiting \cup {a}
        /\ awake' = awake \ {a} /\ inPool' = inPool /\ holds' = holds
    BY <1>3 DEF Phone!acquireWaits
  <2>2. Phone!TypeOK' /\ Phone!OneHolder'
    BY <1>0, <2>1 DEF Phone!TypeOK, Phone!OneHolder, Phone!Queued
  <2>3. OnTheirWay' \subseteq OnTheirWay /\ waiting' \cap OnTheirWay' = {}
    BY <1>0, <2>1 DEF OnTheirWay
  <2>4. Wakeups'
    BY <2>1, <2>3, EmptyKeepsWakeups
  <2> QED BY <1>0, <1>1, <2>1, <2>2, <2>4
<1>4. CASE Phone!SpuriousWakeup(a)
  <2>1. /\ pool' = pool /\ waiting' = waiting \ {a}
        /\ awake' = awake \cup {a} /\ inPool' = inPool /\ holds' = holds
    BY <1>4 DEF Phone!SpuriousWakeup
  <2>2. Phone!TypeOK' /\ Phone!OneHolder'
    BY <1>0, <2>1 DEF Phone!TypeOK, Phone!OneHolder, Phone!Queued
  <2>3. OnTheirWay' = OnTheirWay \cup {a}
    BY <2>1 DEF OnTheirWay
  <2>4. Wakeups'
    BY <1>0, <2>1, <2>3, WakingKeepsWakeups
  <2> QED BY <1>0, <1>1, <2>1, <2>2, <2>4
<1>5. ASSUME program = "PhoneNumberPool", NEW number \in Phone!All,
             Phone!release(a, number)
      PROVE  PhoneInv' /\ Wakeups'
  <2>1. /\ number \notin Elements(pool) /\ Len(pool) < MaxConnections
        /\ careless = {} => number \in holds[a]
        /\ pool' = Append(pool, number) /\ inPool' = inPool \cup {number}
        /\ holds' = [holds EXCEPT ![a] = @ \ {number}]
        /\ waiting' \in NotifyOne(waiting) /\ awake' = awake \cup (waiting \ waiting')
    BY <1>0, <1>5, Constants DEF Phone!release, Phone!MayRelease, NotifyOne,
       Phone!NotifyOne
  <2>2. /\ pool' \in Seq(Phone!All) /\ Distinct(pool') /\ Phone!OneHolder'
        /\ holds' \in [Clients -> SUBSET Phone!All]
        /\ Len(pool') = Len(pool) + 1
        /\ Elements(pool') = Elements(pool) \cup {number}
    BY <1>0, <2>1, PutBackKeeps
  <2>3. waiting' \cup awake' \subseteq Clients /\ waiting' \cap awake' = {}
    BY <1>0, <2>1 DEF NotifyOne
  <2>4. Phone!TypeOK'
    BY <1>0, <2>1, <2>2, <2>3 DEF Phone!TypeOK
  <2>5. Len(pool') <= MaxConnections /\ inPool' = Elements(pool')
    BY <1>0, <1>5, <2>1, <2>2
  <2>6. Wakeups'
    BY <1>0, <2>1, <2>2, ReturningKeepsWakeups
  <2> QED BY <1>1, <2>2, <2>4, <2>5, <2>6
<1>6. ASSUME NEW number \in Phone!All, Phone!releaseIgnored(a, number)
      PROVE  PhoneInv' /\ Wakeups'
  <2>1. UNCHANGED <<pool, inPool, waiting, awake, holds>>
    BY <1>6 DEF Phone!releaseIgnored
  <2>2. Phone!TypeOK' /\ Phone!OneHolder'
    BY <1>0, <2>1 DEF Phone!TypeOK, Phone!OneHolder, Phone!Queued
  <2>3. Wakeups'
    BY <2>1 DEF Wakeups, WaitersApart, OnTheirWay
  <2> QED BY <1>0, <1>1, <2>1, <2>2, <2>3
<1>7. ASSUME program = "Java/PhoneNumberPool", NEW number \in Phone!All,
             JavaRelease(a, number)
      PROVE  PhoneInv' /\ Wakeups'
  <2>1. /\ careless = {} /\ number \in holds[a]
        /\ pool' = Append(pool, number) /\ inPool' = inPool
        /\ holds' = [holds EXCEPT ![a] = @ \ {number}]
        /\ waiting' = {} /\ awake' = awake \cup waiting
    BY <1>0, <1>7 DEF JavaRelease, Phone!MayRelease, NotifyAll
  <2>2. number \notin Elements(pool)
    BY <1>0, <2>1 DEF Phone!OneHolder, Phone!Queued, Elements
  <2>3. /\ pool' \in Seq(Phone!All) /\ Distinct(pool') /\ Phone!OneHolder'
        /\ holds' \in [Clients -> SUBSET Phone!All]
    BY <1>0, <2>1, <2>2, PutBackKeeps
  <2>4. Phone!TypeOK'
    BY <1>0, <2>1, <2>3 DEF Phone!TypeOK
  <2>5. Wakeups'
    BY <1>0, <2>1 DEF Wakeups, WaitersApart, OnTheirWay
  <2> QED BY <1>1, <1>7, <2>3, <2>4, <2>5
<1> QED BY <1>2, <1>3, <1>4, <1>5, <1>6, <1>7 DEF JavaAcquire

-----------------------------------------------------------------------------
(* The invariant of the four programs.                                     *)
DBPrograms == {"Practice/DBConnection", "Microsoft/DBConnection"}
PhonePrograms == {"PhoneNumberPool", "Java/PhoneNumberPool"}

Inv == /\ program \in DBPrograms \cup PhonePrograms
       /\ Wakeups
       /\ program # "Practice/DBConnection" => expired = {}
       /\ program \in DBPrograms => CP!PoolSound /\ CP!ExclusiveLeases
       /\ program \in PhonePrograms => PhoneInv

(* A queue with all the numbers in any order holds each of them.           *)
LEMMA Shuffled ==
    ASSUME NEW n \in Nat, NEW S, IsFiniteSet(S), Cardinality(S) = n,
           NEW s \in [1 .. n -> S], \A i, j \in 1 .. n : s[i] = s[j] => i = j
    PROVE  s \in Seq(S) /\ Len(s) = n /\ Distinct(s) /\ Elements(s) = S
<1>1. s \in Seq(S) /\ Len(s) = n
  OBVIOUS
<1>2. s \in Injection(1 .. n, S)
  BY DEF Injection, IsInjective
<1>3. Cardinality(1 .. n) = n
  BY FS_Interval
<1>4. s \in Surjection(1 .. n, S)
  BY <1>2, <1>3, FS_Injection
<1> QED BY <1>1, <1>4 DEF Surjection, Distinct, Elements

(* Every pool begins full, with nobody inside.                             *)
LEMMA InitInv == Init => Inv
<1> SUFFICES ASSUME Init
             PROVE  Inv
  OBVIOUS
<1>1. /\ waiting = {} /\ awake = {} /\ expired = {}
      /\ holds = [c \in Clients |-> {}]
      /\ program \in DBPrograms \cup PhonePrograms
  BY DEF Init, CP!Init, Phone!Init, DBPrograms, PhonePrograms
<1>2. Wakeups
  BY <1>1 DEF Wakeups, WaitersApart, OnTheirWay
<1>3. CASE program \in DBPrograms
  <2>1. /\ pool = [i \in 1 .. MaxConnections |-> i - 1] /\ leased = {}
        /\ careless \subseteq Careless
        /\ given = [c \in Clients |-> {}] /\ calls = [c \in Clients |-> 0]
    BY <1>3 DEF Init, CP!Init, DBPrograms
  <2>2. pool \in [1 .. MaxConnections -> CP!Conns]
    BY <2>1, Constants DEF CP!Conns
  <2>3. /\ pool \in Seq(CP!Conns) /\ Len(pool) = MaxConnections
    BY <2>2, Constants
  <2>4. CP!TypeOK
    BY <1>1, <2>1, <2>3, Constants DEF CP!TypeOK
  <2>5. \A i, j \in 1 .. Len(pool) : pool[i] = pool[j] => i = j
    <3>1. \A i \in 1 .. Len(pool) : pool[i] = i - 1
      BY <2>1, <2>3
    <3> QED BY <2>3, <3>1, Constants
  <2>6. {pool[i] : i \in 1 .. Len(pool)} = CP!Conns
    <3>1. \A k \in CP!Conns : k + 1 \in 1 .. MaxConnections /\ pool[k + 1] = k
      BY <2>1, Constants DEF CP!Conns
    <3>2. \A i \in 1 .. MaxConnections : pool[i] \in CP!Conns
      BY <2>2
    <3> QED BY <2>3, <3>1, <3>2
  <2>7. CP!PoolSound
    BY <2>1, <2>4, <2>5, <2>6 DEF CP!PoolSound
  <2>8. CP!ExclusiveLeases
    BY <1>1, <2>1 DEF CP!ExclusiveLeases
  <2> QED BY <1>1, <1>2, <1>3, <2>7, <2>8 DEF Inv, DBPrograms, PhonePrograms
<1>4. CASE program \in PhonePrograms
  <2>1. Phone!Init /\ (program = "Java/PhoneNumberPool" => careless = {})
    BY <1>4 DEF Init, PhonePrograms
  <2>2. /\ IsFiniteSet(0 .. MaxConnections - 1)
        /\ Cardinality(0 .. MaxConnections - 1) = MaxConnections
    BY Constants, FS_Interval
  <2>3. /\ pool \in [1 .. MaxConnections -> 0 .. MaxConnections - 1]
        /\ \A i, j \in 1 .. MaxConnections : pool[i] = pool[j] => i = j
        /\ inPool = 0 .. MaxConnections - 1 /\ careless \subseteq Careless
    BY <2>1, Constants DEF Phone!Init
  <2>4. /\ pool \in Seq(0 .. MaxConnections - 1) /\ Len(pool) = MaxConnections
        /\ Distinct(pool) /\ Elements(pool) = 0 .. MaxConnections - 1
    BY <2>2, <2>3, Constants, Shuffled
  <2>5. pool \in Seq(Phone!All)
    BY <2>4, SeqMonotonic DEF Phone!All
  <2>6. Phone!TypeOK
    BY <1>1, <2>3, <2>5 DEF Phone!TypeOK, Phone!All
  <2>7. Phone!OneHolder
    BY <1>1, <2>4 DEF Phone!OneHolder, Phone!Queued, Elements
  <2>8. Phone!PoolSound
    BY <2>3, <2>4, <2>6, Constants
    DEF Phone!PoolSound, Phone!Queued, Elements, Distinct
  <2> QED BY <1>1, <1>2, <1>4, <2>1, <2>4, <2>6, <2>7, <2>8
          DEF Inv, PhoneInv, DBPrograms, PhonePrograms
<1> QED BY <1>1, <1>3, <1>4

(* The invariant holds in every reachable state of every pool, whatever    *)
(* its clients return and however their calls interleave.                  *)
THEOREM Invariance == Spec => []Inv
<1>1. Inv /\ [Next]_vars => Inv'
  <2> SUFFICES ASSUME Inv, [Next]_vars
               PROVE  Inv'
    OBVIOUS
  <2> USE DEF DBPrograms, PhonePrograms
  <2>1. CASE Runs("Practice/DBConnection") /\ CP!Next /\ UNCHANGED inPool
    <3>1. CP!PoolSound /\ CP!ExclusiveLeases /\ Wakeups /\ careless' = careless
      BY <2>1 DEF Inv, Runs, CP!Next
    <3>2. CP!PoolSound' /\ CP!ExclusiveLeases' /\ Wakeups'
      <4>1. ASSUME NEW c \in Clients, NEW conn, CP!ReleaseRejected(c, conn)
            PROVE  CP!PoolSound' /\ CP!ExclusiveLeases' /\ Wakeups'
        BY <3>1, <4>1 DEF CP!ReleaseRejected, CP!PoolSound, CP!TypeOK,
           CP!ExclusiveLeases, Wakeups, WaitersApart, OnTheirWay
      <4> QED BY <2>1, <3>1, <4>1, GetKeeps, WaitsKeep, ReleaseKeeps DEF CP!Next
    <3> QED BY <2>1, <3>2 DEF Inv, Runs
  <2>2. CASE Runs("Microsoft/DBConnection") /\ DBConnectionNext /\ UNCHANGED inPool
    <3>1. /\ CP!PoolSound /\ CP!ExclusiveLeases /\ Wakeups /\ careless' = careless
          /\ expired = {}
      BY <2>2 DEF Inv, Runs, DBConnectionNext
    <3>2. /\ CP!PoolSound' /\ CP!ExclusiveLeases' /\ Wakeups'
          /\ expired' = {}
      <4>1. ASSUME NEW c \in Clients, NEW conn, CP!ReleaseRejected(c, conn)
            PROVE  /\ CP!PoolSound' /\ CP!ExclusiveLeases' /\ Wakeups'
                   /\ expired' = {}
        BY <3>1, <4>1 DEF CP!ReleaseRejected, CP!PoolSound, CP!TypeOK,
           CP!ExclusiveLeases, Wakeups, WaitersApart, OnTheirWay
      <4>2. ASSUME NEW c \in Clients, CP!Get(c)
            PROVE  expired' = {}
        BY <3>1, <4>2 DEF CP!Get
      <4>3. ASSUME NEW c \in Clients, CP!GetWaits(c) \/ CP!SpuriousWakeup(c)
            PROVE  expired' = {}
        BY <3>1, <4>3 DEF CP!GetWaits, CP!SpuriousWakeup
      <4>4. ASSUME NEW c \in Clients, NEW conn, CP!Release(c, conn)
            PROVE  expired' = {}
        BY <3>1, <4>4 DEF CP!Release
      <4> QED BY <2>2, <3>1, <4>1, <4>2, <4>3, <4>4, GetKeeps, WaitsKeep, ReleaseKeeps
              DEF DBConnectionNext, acquire, release
    <3> QED BY <2>2, <3>2 DEF Inv, Runs
  <2>3. CASE Runs("PhoneNumberPool") /\ Phone!Next /\ UNCHANGED ledger
    <3>1. /\ PhoneInv /\ Wakeups /\ expired = {} /\ expired' = {}
          /\ program = "PhoneNumberPool" /\ program' = program /\ careless' = careless
      BY <2>3 DEF Inv, Runs, ledger, Phone!Next
    <3>2. PhoneInv' /\ Wakeups'
      BY <2>3, <3>1, PhoneStep DEF Phone!Next
    <3> QED BY <3>1, <3>2 DEF Inv
  <2>4. CASE Runs("Java/PhoneNumberPool") /\ JavaNext /\ UNCHANGED ledger
    <3>1. /\ PhoneInv /\ Wakeups /\ expired = {} /\ expired' = {}
          /\ program = "Java/PhoneNumberPool" /\ program' = program
          /\ careless' = careless
      BY <2>4 DEF Inv, Runs, ledger, JavaNext
    <3>2. PhoneInv' /\ Wakeups'
      BY <2>4, <3>1, PhoneStep DEF JavaNext
    <3> QED BY <3>1, <3>2 DEF Inv
  <2>5. CASE UNCHANGED vars
    <3>1. /\ UNCHANGED <<program, careless, pool, waiting, awake, holds>>
          /\ UNCHANGED <<leased, expired, given, calls, inPool>>
      BY <2>5 DEF vars, common, ledger
    <3>2. Wakeups => Wakeups'
      BY <3>1 DEF Wakeups, WaitersApart, OnTheirWay
    <3>3. CP!PoolSound => CP!PoolSound'
      BY <3>1 DEF CP!PoolSound, CP!TypeOK
    <3>4. CP!ExclusiveLeases => CP!ExclusiveLeases'
      BY <3>1 DEF CP!ExclusiveLeases
    <3>5. PhoneInv => PhoneInv'
      <4>1. Phone!TypeOK => Phone!TypeOK'
        BY <3>1 DEF Phone!TypeOK
      <4>2. Phone!OneHolder => Phone!OneHolder'
        BY <3>1 DEF Phone!OneHolder, Phone!Queued
      <4>3. Phone!PoolSound => Phone!PoolSound'
        BY <3>1, <4>1 DEF Phone!PoolSound, Phone!Queued, Phone!maxCapacity
      <4> QED BY <3>1, <4>1, <4>2, <4>3 DEF PhoneInv, Distinct
    <3> QED BY <3>1, <3>2, <3>3, <3>4, <3>5 DEF Inv
  <2> QED BY <2>1, <2>2, <2>3, <2>4, <2>5 DEF Next
<1> QED BY <1>1, InitInv, PTL DEF Spec

(* Whatever a careless client passes, releaseConnection and release let    *)
(* nothing into the pool that is in it already, the pool does not outgrow  *)
(* its size, and a connection that it did not make stays outside.  (A      *)
(* foreign number is let into PhoneNumberPool when its queue is short.)    *)
THEOREM PoolsSound == Spec => []PoolSound
<1>1. Inv => PoolSound
  BY DEF Inv, PoolSound, PhoneInv, DBPrograms, PhonePrograms
<1> QED BY <1>1, Invariance, PTL

(* Careful clients never share a connection or a number, and none of these *)
(* is lost: it is in the pool or in the hands of one of them.              *)
THEOREM LeasesExclusive == Spec => []ExclusiveLeases
<1>1. Inv => ExclusiveLeases
  BY DEF Inv, ExclusiveLeases, PhoneInv, DBPrograms, PhonePrograms
<1> QED BY <1>1, Invariance, PTL

(* One notification per return is enough: while a client sleeps, each free *)
(* connection or number has a client of its own on its way to it, even     *)
(* when others overtake it, time out or wake up by themselves.             *)
THEOREM WakeupsSuffice == Spec => []NoLostWakeup
<1>1. Inv => NoLostWakeup
  <2> SUFFICES ASSUME Inv
               PROVE  NoLostWakeup
    OBVIOUS
  <2>1. waiting # {} => Len(pool) <= Cardinality(awake \cup expired)
    BY DEF Inv, Wakeups, OnTheirWay
  <2>2. program # "Practice/DBConnection" => awake \cup expired = awake
    BY DEF Inv
  <2> QED BY <2>1, <2>2, SameCardinality
          DEF NoLostWakeup, CP!NoLostWakeup, Phone!NoLostWakeup
<1> QED BY <1>1, Invariance, PTL
=============================================================================
