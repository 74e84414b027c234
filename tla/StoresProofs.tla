---------------------------- MODULE StoresProofs ----------------------------
(***************************************************************************)
(* For any threads, keys, values, capacities and ttls: the single-flight   *)
(* cache stays bounded and fetches a key once at a time, the calls of the  *)
(* key-value stores are atomic, an entry expires in time, the LRU cache    *)
(* with its pointers follows its policy, and messages reach those who had  *)
(* subscribed.                                                             *)
(***************************************************************************)
EXTENDS Stores, Sequences, SequenceTheorems, FiniteSetTheorems, WellFoundedInduction,
        TLAPS

-----------------------------------------------------------------------------
(* What the assumptions say of ThreadSafeLRU.                              *)
LEMMA FlightConstants ==
    Keys \subseteq Nat /\ Keys # {} /\ PutValues \subseteq Nat
        /\ Capacities \subseteq Nat \ {0}
BY StoresAssumption DEF Flight!LRUAssumption

(* The entries of the cache, most recently used first: one for a key, each *)
(* with the value that the history h has as the last one for its key.      *)
Entries == [key : Keys, val : Flight!Values]
Fits(e, h) == h[e.key] = <<e.val>>
Sound(s, h) == /\ s \in Seq(Entries)
               /\ \A i, j \in 1 .. Len(s) : s[i].key = s[j].key => i = j
               /\ \A i \in 1 .. Len(s) : Fits(s[i], h)

Without(s, i) == Flight!RemoveAt(s, i)
Shorter(s) == SubSeq(s, 1, Len(s) - 1)

(* Unlinking an entry leaves the others, and none for its key.             *)
LEMMA Unlinked ==
    ASSUME NEW h, NEW s, Sound(s, h), NEW i \in 1 .. Len(s),
           NEW k, k = s[i].key
    PROVE  /\ Sound(Without(s, i), h) /\ Len(Without(s, i)) = Len(s) - 1
           /\ \A j \in 1 .. Len(Without(s, i)) : Without(s, i)[j].key # k
<1> DEFINE r == Without(s, i)
<1>r. r = SubSeq(s, 1, i - 1) \o SubSeq(s, i + 1, Len(s))
  BY DEF Without, Flight!RemoveAt
<1> HIDE DEF r
<1>1. s \in Seq(Entries) /\ Len(s) \in Nat /\ \A j \in 1 .. Len(s) : s[j] \in Entries
  BY LenProperties, ElementOfSeq DEF Sound
<1> DEFINE a == SubSeq(s, 1, i - 1)
           b == SubSeq(s, i + 1, Len(s))
<1>2. /\ a \in Seq(Entries) /\ Len(a) = i - 1
      /\ \A j \in 1 .. i - 1 : a[j] = s[j]
  <2>1. \A j \in 1 .. i - 1 : s[j] \in Entries
    BY <1>1
  <2>2. /\ a \in Seq(Entries) /\ Len(a) = IF 1 <= i - 1 THEN (i - 1) - 1 + 1 ELSE 0
        /\ \A j \in 1 .. (i - 1) - 1 + 1 : a[j] = s[1 + j - 1]
    BY <1>1, <2>1, SubSeqProperties
  <2> QED BY <1>1, <2>2
<1>3. /\ b \in Seq(Entries) /\ Len(b) = Len(s) - i
      /\ \A j \in 1 .. Len(s) - i : b[j] = s[i + j]
  <2>1. \A j \in i + 1 .. Len(s) : s[j] \in Entries
    BY <1>1
  <2>2. /\ b \in Seq(Entries)
        /\ Len(b) = IF i + 1 <= Len(s) THEN Len(s) - (i + 1) + 1 ELSE 0
        /\ \A j \in 1 .. Len(s) - (i + 1) + 1 : b[j] = s[(i + 1) + j - 1]
    BY <1>1, <2>1, SubSeqProperties
  <2> QED BY <1>1, <2>2
<1> HIDE DEF a, b
<1>4. /\ r \in Seq(Entries) /\ Len(r) = Len(s) - 1
      /\ \A j \in 1 .. Len(a) + Len(b) :
             r[j] = IF j <= Len(a) THEN a[j] ELSE b[j - Len(a)]
  <2>1. r = a \o b
    BY <1>r DEF a, b
  <2>2. r \in Seq(Entries) /\ Len(r) = Len(a) + Len(b)
    BY <1>2, <1>3, <2>1, ConcatProperties
  <2>3. \A j \in 1 .. Len(a) + Len(b) : r[j] = IF j <= Len(a) THEN a[j] ELSE b[j - Len(a)]
    <3>1. a \in Seq(Entries) /\ b \in Seq(Entries)
      BY <1>2, <1>3
    <3> QED BY ONLY <2>1, <3>1, ConcatProperties
  <2>4. Len(a) + Len(b) = Len(s) - 1
    <3> DEFINE la == Len(a)  lb == Len(b)  ls == Len(s)
    <3>1. la = i - 1 /\ lb = ls - i /\ ls \in Nat /\ i \in Nat
      BY <1>1, <1>2, <1>3
    <3> HIDE DEF la, lb, ls
    <3>2. la + lb = ls - 1
      BY <3>1
    <3> QED BY <3>2 DEF la, lb, ls
  <2> QED BY <2>2, <2>3, <2>4
<1> DEFINE la == Len(a)  lb == Len(b)  ls == Len(s)  lr == Len(r)
<1>l. /\ la = i - 1 /\ lb = ls - i /\ lr = ls - 1
      /\ ls \in Nat /\ i \in Nat /\ 1 <= i /\ i <= ls
  <2>1. la = i - 1 /\ lb = ls - i /\ lr = ls - 1 /\ ls \in Nat
    BY <1>1, <1>2, <1>3, <1>4
  <2>2. i \in 1 .. ls
    BY DEF ls
  <2> HIDE DEF la, lb, ls, lr
  <2> QED BY <2>1, <2>2
<1> HIDE DEF la, lb, ls, lr
<1>5. ASSUME NEW j \in 1 .. Len(r)
      PROVE  \E n \in 1 .. Len(s) : n # i /\ r[j] = s[n] /\ n = IF j < i THEN j ELSE j + 1
  <2>1. CASE j < i
    <3>1. j \in 1 .. lr
      BY DEF lr
    <3>2. /\ j \in 1 .. i - 1 /\ j <= la /\ j \in 1 .. la + lb
          /\ j \in 1 .. ls /\ j # i
      BY <1>l, <2>1, <3>1
    <3>3. r[j] = a[j]
      BY <1>4, <3>2 DEF la, lb
    <3>4. r[j] = s[j]
      BY <1>2, <3>2, <3>3
    <3> QED BY <2>1, <3>2, <3>4 DEF ls
  <2>2. CASE ~(j < i)
    <3>1. j \in 1 .. lr
      BY DEF lr
    <3>2. /\ j - la \in 1 .. ls - i /\ ~(j <= la)
          /\ j \in 1 .. la + lb /\ i + (j - la) = j + 1
          /\ j + 1 \in 1 .. ls /\ j + 1 # i
      BY <1>l, <2>2, <3>1
    <3>3. r[j] = b[j - la]
      BY <1>4, <3>2 DEF la, lb
    <3>4. r[j] = s[j + 1]
      BY <1>3, <3>2, <3>3 DEF ls
    <3> QED BY <2>2, <3>2, <3>4 DEF ls
  <2> QED BY <2>1, <2>2
<1>6. \A j \in 1 .. Len(r) : r[j].key # s[i].key /\ Fits(r[j], h)
  BY <1>5 DEF Sound
<1>7. ASSUME NEW j \in 1 .. Len(r), NEW g \in 1 .. Len(r), r[j].key = r[g].key
      PROVE  j = g
  <2>1. PICK m \in 1 .. Len(s) : r[j] = s[m] /\ m = IF j < i THEN j ELSE j + 1
    BY <1>5
  <2>2. PICK n \in 1 .. Len(s) : r[g] = s[n] /\ n = IF g < i THEN g ELSE g + 1
    BY <1>5
  <2>3. m = n
    BY <1>7, <2>1, <2>2 DEF Sound
  <2>4. i \in Nat /\ j \in Nat /\ g \in Nat
    BY <1>1, <1>4
  <2> QED BY <2>1, <2>2, <2>3, <2>4
<1>8. Sound(r, h)
  BY <1>4, <1>6, <1>7 DEF Sound
<1> QED BY <1>4, <1>6, <1>8 DEF r

(* Adding an entry for a new key at the front.                             *)
LEMMA Prepended ==
    ASSUME NEW h, NEW s, Sound(s, h), NEW e \in Entries, Fits(e, h),
           \A j \in 1 .. Len(s) : s[j].key # e.key
    PROVE  Sound(<<e>> \o s, h) /\ Len(<<e>> \o s) = Len(s) + 1
<1> DEFINE r == <<e>> \o s
<1>1. s \in Seq(Entries) /\ Len(s) \in Nat
  BY LenProperties DEF Sound
<1>2. <<e>> \in Seq(Entries) /\ Len(<<e>>) = 1 /\ <<e>>[1] = e
  OBVIOUS
<1>r. r = <<e>> \o s
  OBVIOUS
<1> HIDE DEF r
<1>3. /\ r \in Seq(Entries) /\ Len(r) = Len(s) + 1
      /\ \A j \in 1 .. Len(s) + 1 : r[j] = IF j <= 1 THEN <<e>>[j] ELSE s[j - 1]
  BY <1>r, <1>1, <1>2, ConcatProperties
<1>4. r[1] = e
  BY <1>1, <1>2, <1>3
<1>5. \A j \in 1 .. Len(r) : j = 1 \/ (j - 1 \in 1 .. Len(s) /\ r[j] = s[j - 1])
  BY <1>1, <1>3
<1>6. \A j \in 1 .. Len(r) : Fits(r[j], h)
  BY <1>4, <1>5 DEF Sound
<1>7. ASSUME NEW j \in 1 .. Len(r), NEW k \in 1 .. Len(r), r[j].key = r[k].key
      PROVE  j = k
  <2>1. CASE j = 1 /\ k # 1
    BY <1>4, <1>5, <1>7, <2>1
  <2>2. CASE j # 1 /\ k = 1
    BY <1>4, <1>5, <1>7, <2>2
  <2>3. CASE j # 1 /\ k # 1
    <3>1. /\ j - 1 \in 1 .. Len(s) /\ k - 1 \in 1 .. Len(s)
          /\ s[j - 1].key = s[k - 1].key
      BY <1>5, <1>7, <2>3
    <3>2. j - 1 = k - 1
      BY <3>1 DEF Sound
    <3>3. j \in Nat /\ k \in Nat
      BY <1>1, <1>3
    <3> QED BY <3>2, <3>3
  <2> QED BY <2>1, <2>2, <2>3
<1>8. Sound(r, h)
  BY <1>3, <1>6, <1>7 DEF Sound
<1> QED BY <1>r, <1>3, <1>8

(* Evicting the last entry.                                                *)
LEMMA Shortened ==
    ASSUME NEW h, NEW s, Sound(s, h), s # <<>>
    PROVE  /\ Sound(Shorter(s), h) /\ Len(Shorter(s)) = Len(s) - 1
           /\ \A j \in 1 .. Len(Shorter(s)) : j \in 1 .. Len(s) /\ Shorter(s)[j] = s[j]
<1> DEFINE r == Shorter(s)
           n == Len(s)
<1>n. n \in Nat \ {0} /\ Len(s) = n
  BY EmptySeq DEF Sound
<1>r. r = SubSeq(s, 1, n - 1)
  BY DEF Shorter
<1> HIDE DEF r, n
<1>1. s \in Seq(Entries) /\ \A j \in 1 .. n - 1 : s[j] \in Entries
  <2>1. s \in Seq(Entries) /\ \A j \in 1 .. Len(s) : s[j] \in Entries
    BY ElementOfSeq DEF Sound
  <2>2. \A j \in 1 .. n - 1 : j \in 1 .. n
    BY <1>n
  <2> QED BY <1>n, <2>1, <2>2
<1>2. /\ r \in Seq(Entries) /\ Len(r) = IF 1 <= n - 1 THEN (n - 1) - 1 + 1 ELSE 0
      /\ \A j \in 1 .. (n - 1) - 1 + 1 : r[j] = s[1 + j - 1]
  <2>1. n - 1 \in Int /\ 1 \in Int
    BY <1>n
  <2> QED BY <1>1, <1>r, <2>1, SubSeqProperties
<1>3. Len(r) = n - 1
  BY <1>n, <1>2
<1>4. \A j \in 1 .. Len(r) : j \in 1 .. Len(s) /\ r[j] = s[j]
  BY <1>n, <1>2, <1>3
<1>5. \A j \in 1 .. Len(r) : Fits(r[j], h)
  BY <1>4 DEF Sound
<1>6. ASSUME NEW i \in 1 .. Len(r), NEW j \in 1 .. Len(r), r[i].key = r[j].key
      PROVE  i = j
  BY <1>4, <1>6 DEF Sound
<1>7. Sound(r, h)
  BY <1>2, <1>5, <1>6 DEF Sound
<1> QED BY <1>n, <1>3, <1>4, <1>7 DEF r

-----------------------------------------------------------------------------
(* The single-flight cache.                                                *)
Recorded == {<<>>} \cup {<<v>> : v \in Flight!Values}

(* The threads inside getOrCompute, and what the callers were told.        *)
Callers ==
    /\ inProgress \subseteq Keys
    /\ fetching \subseteq Threads /\ waiting \subseteq Threads /\ awake \subseteq Threads
    /\ arg \in [Threads -> Keys]
    /\ answer \in [Threads -> Recorded]
    /\ Flight!SingleFlight

(* The cache agrees with the history of what was put and fetched.          *)
FlightInv == /\ capacity \in Capacities
             /\ stored \in [Keys -> Recorded]
             /\ Sound(lru, stored) /\ Len(lru) <= capacity
             /\ Callers

LEMMA StoredValuesFit ==
    /\ \A k \in Keys : Flight!slowFetch(k) \in Flight!Values
    /\ \A v \in PutValues : v \in Flight!Values
    /\ \A v \in Flight!Values : <<v>> \in Recorded
BY DEF Flight!Values, Recorded

(* An entry that is found is the one for the key.                          *)
LEMMA Found ==
    ASSUME Sound(lru, stored), NEW k \in Keys, Flight!Cached(k)
    PROVE  /\ Flight!mp(k) \in 1 .. Len(lru) /\ lru[Flight!mp(k)].key = k
           /\ Flight!ValueOf(k) \in Flight!Values /\ stored[k] = <<Flight!ValueOf(k)>>
           /\ Sound(Flight!removeNode(k), stored)
           /\ Len(Flight!removeNode(k)) = Len(lru) - 1
           /\ \A j \in 1 .. Len(Flight!removeNode(k)) : Flight!removeNode(k)[j].key # k
<1>1. DOMAIN lru = 1 .. Len(lru)
  BY LenProperties DEF Sound
<1>2. Flight!mp(k) \in 1 .. Len(lru) /\ lru[Flight!mp(k)].key = k
  BY <1>1 DEF Flight!mp, Flight!Cached
<1>3. lru[Flight!mp(k)] \in Entries
  BY <1>2, ElementOfSeq DEF Sound
<1>4. Flight!ValueOf(k) \in Flight!Values
  BY <1>3 DEF Flight!ValueOf, Entries
<1>5. stored[k] = <<Flight!ValueOf(k)>>
  BY <1>2 DEF Flight!ValueOf, Sound, Fits
<1>6. Flight!removeNode(k) = Without(lru, Flight!mp(k))
  BY DEF Flight!removeNode, Without
<1>7. /\ Sound(Flight!removeNode(k), stored)
      /\ Len(Flight!removeNode(k)) = Len(lru) - 1
      /\ \A j \in 1 .. Len(Flight!removeNode(k)) : Flight!removeNode(k)[j].key # k
  BY <1>2, <1>6, Unlinked
<1> QED BY <1>2, <1>4, <1>5, <1>7

(* A hit moves the entry to the front.                                     *)
LEMMA Moved ==
    ASSUME Sound(lru, stored), NEW k \in Keys, Flight!Cached(k)
    PROVE  /\ Sound(Flight!getInternal(k), stored)
           /\ Len(Flight!getInternal(k)) = Len(lru)
<1> DEFINE e == [key |-> k, val |-> Flight!ValueOf(k)]
           r == Flight!removeNode(k)
<1>1. /\ Sound(r, stored) /\ Len(r) = Len(lru) - 1
      /\ \A j \in 1 .. Len(r) : r[j].key # k
      /\ Flight!ValueOf(k) \in Flight!Values /\ stored[k] = <<Flight!ValueOf(k)>>
  BY Found
<1>2. e \in Entries /\ Fits(e, stored) /\ e.key = k
  BY <1>1 DEF Entries, Fits
<1>3. Flight!getInternal(k) = <<e>> \o r
  BY DEF Flight!getInternal, Flight!insertAtFront
<1> HIDE DEF e, r
<1>4. Sound(<<e>> \o r, stored) /\ Len(<<e>> \o r) = Len(r) + 1
  <2>1. \A j \in 1 .. Len(r) : r[j].key # e.key
    BY <1>1, <1>2
  <2> QED BY ONLY <1>1, <1>2, <2>1, Prepended
<1>5. Len(lru) \in Nat
  BY LenProperties DEF Sound
<1> QED BY <1>1, <1>3, <1>4, <1>5

(* The entries of the other keys agree with a history of one store more.   *)
LEMMA OthersFit ==
    ASSUME NEW s, Sound(s, stored), NEW k \in Keys, NEW x,
           \A j \in 1 .. Len(s) : s[j].key # k, stored \in [Keys -> Recorded]
    PROVE  Sound(s, [stored EXCEPT ![k] = x])
<1>1. ASSUME NEW j \in 1 .. Len(s)
      PROVE  Fits(s[j], [stored EXCEPT ![k] = x])
  <2>1. s[j] \in Entries
    BY ElementOfSeq DEF Sound
  <2>2. s[j].key \in Keys /\ s[j].key # k /\ stored[s[j].key] = <<s[j].val>>
    BY <2>1 DEF Entries, Sound, Fits
  <2> QED BY <2>2 DEF Fits
<1> QED BY <1>1 DEF Sound

(* A put leaves at most capacity entries, one for the key, and the value   *)
(* that it stored is the one found from now on.                            *)
LEMMA Stored ==
    ASSUME FlightInv, NEW k \in Keys, NEW v \in Flight!Values
    PROVE  /\ Sound(Flight!putInternal(k, v), [stored EXCEPT ![k] = <<v>>])
           /\ Len(Flight!putInternal(k, v)) <= capacity
<1>1. /\ Sound(lru, stored) /\ Len(lru) \in Nat /\ DOMAIN lru = 1 .. Len(lru)
      /\ capacity \in Nat \ {0} /\ Len(lru) <= capacity
  BY FlightConstants, LenProperties DEF FlightInv, Sound
<1> DEFINE e == [key |-> k, val |-> v]
           h == [stored EXCEPT ![k] = <<v>>]
           rest == IF Flight!Cached(k) THEN Flight!removeNode(k) ELSE Flight!Evicted
<1>2. e \in Entries /\ Fits(e, h) /\ e.key = k
  BY DEF Entries, Fits, FlightInv
<1>3. Flight!putInternal(k, v) = <<e>> \o rest
  BY DEF Flight!putInternal, Flight!insertAtFront
<1>r. /\ Flight!Cached(k) => rest = Flight!removeNode(k)
      /\ ~Flight!Cached(k) /\ Len(lru) = capacity => rest = Shorter(lru)
      /\ ~Flight!Cached(k) /\ Len(lru) # capacity => rest = lru
  BY Zenon DEF Flight!Evicted, Shorter
<1> HIDE DEF e, rest
<1>4. /\ Sound(rest, stored) /\ Len(rest) \in Nat /\ Len(rest) + 1 <= capacity
      /\ \A j \in 1 .. Len(rest) : rest[j].key # k
  <2>1. CASE Flight!Cached(k)
    <3>1. /\ Sound(rest, stored) /\ Len(rest) = Len(lru) - 1
          /\ \A j \in 1 .. Len(rest) : rest[j].key # k
      <4>1. /\ Sound(Flight!removeNode(k), stored)
            /\ Len(Flight!removeNode(k)) = Len(lru) - 1
            /\ \A j \in 1 .. Len(Flight!removeNode(k)) : Flight!removeNode(k)[j].key # k
        BY <1>1, <2>1, Found, Zenon
      <4>2. rest = Flight!removeNode(k)
        BY <1>r, <2>1, Zenon
      <4> QED BY ONLY <4>1, <4>2, Zenon
    <3>2. Len(rest) \in Nat /\ Len(rest) + 1 <= capacity
      BY ONLY <1>1, <3>1
    <3> QED BY <3>1, <3>2
  <2>2. CASE ~Flight!Cached(k) /\ Len(lru) = capacity
    <3>1. rest = Shorter(lru)
      BY <1>r, <2>2
    <3>2. lru # <<>>
      BY <1>1, <2>2
    <3>3. /\ Sound(rest, stored) /\ Len(rest) = Len(lru) - 1
          /\ \A j \in 1 .. Len(rest) : j \in 1 .. Len(lru) /\ rest[j] = lru[j]
      BY ONLY <1>1, <3>1, <3>2, Shortened, Zenon
    <3>4. \A j \in 1 .. Len(lru) : lru[j].key # k
      BY <1>1, <2>2 DEF Flight!Cached
    <3>5. Len(rest) \in Nat /\ Len(rest) + 1 <= capacity
      BY ONLY <1>1, <2>2, <3>3
    <3> QED BY <3>3, <3>4, <3>5
  <2>3. CASE ~Flight!Cached(k) /\ Len(lru) # capacity
    <3>1. rest = lru
      BY <1>r, <2>3, Zenon
    <3>2. \A j \in 1 .. Len(lru) : lru[j].key # k
      BY <1>1, <2>3 DEF Flight!Cached
    <3>3. Len(lru) + 1 <= capacity
      <4> DEFINE l == Len(lru)
      <4>1. l \in Nat /\ capacity \in Nat /\ l <= capacity /\ l # capacity
        BY <1>1, <2>3, Zenon
      <4> HIDE DEF l
      <4>2. l + 1 <= capacity
        BY ONLY <4>1
      <4> QED BY ONLY <4>2, Zenon DEF l
    <3> QED BY <1>1, <3>1, <3>2, <3>3
  <2> QED BY <2>1, <2>2, <2>3, Zenon
<1>5. Sound(rest, h)
  BY <1>4, OthersFit DEF FlightInv
<1> HIDE DEF h
<1>6. Sound(<<e>> \o rest, h) /\ Len(<<e>> \o rest) = Len(rest) + 1
  <2>1. \A j \in 1 .. Len(rest) : rest[j].key # e.key
    BY <1>2, <1>4
  <2> QED BY ONLY <1>2, <1>5, <2>1, Prepended
<1> QED BY <1>3, <1>4, <1>6 DEF h

(* What a step of a thread does to the cache: nothing, a hit or a put.     *)
LEMMA CacheSteps ==
    ASSUME FlightInv, Flight!Next
    PROVE  /\ capacity' = capacity
           /\ stored' \in [Keys -> Recorded]
           /\ Sound(lru', stored') /\ Len(lru') <= capacity
<1>1. /\ capacity' = capacity /\ Sound(lru, stored) /\ Len(lru) <= capacity
      /\ arg \in [Threads -> Keys] /\ stored \in [Keys -> Recorded]
  BY DEF FlightInv, Callers, Flight!Next
<1>2. \/ lru' = lru /\ stored' = stored
      \/ /\ stored' = stored
         /\ \E k \in Keys : Flight!Cached(k) /\ lru' = Flight!getInternal(k)
      \/ \E k \in Keys : \E v \in Flight!Values :
             /\ lru' = Flight!putInternal(k, v)
             /\ stored' = [stored EXCEPT ![k] = <<v>>]
  <2>1. PICK t \in Threads :
            \/ \E k \in Keys : \/ Flight!getOrCompute(t, k)
                               \/ Flight!get(t, k)
                               \/ \E v \in PutValues : Flight!put(t, k, v)
            \/ Flight!FinishFetch(t) \/ Flight!Resume(t) \/ Flight!SleepAgain(t)
            \/ Flight!SpuriousWakeup(t)
    BY DEF Flight!Next
  <2>2. arg[t] \in Keys /\ Flight!slowFetch(arg[t]) \in Flight!Values
    BY <1>1, StoredValuesFit
  <2>3. CASE \E k \in Keys : Flight!getOrCompute(t, k)
    BY <2>3 DEF Flight!getOrCompute, Flight!Hit, Flight!Join, Flight!StartFetch
  <2>4. CASE \E k \in Keys : Flight!get(t, k)
    BY <2>4 DEF Flight!get
  <2>5. CASE \E k \in Keys : \E v \in PutValues : Flight!put(t, k, v)
    BY <2>5, StoredValuesFit DEF Flight!put
  <2>6. CASE Flight!FinishFetch(t)
    BY <2>2, <2>6 DEF Flight!FinishFetch
  <2>7. CASE Flight!Resume(t) \/ Flight!SleepAgain(t) \/ Flight!SpuriousWakeup(t)
    BY <2>2, <2>7 DEF Flight!Resume, Flight!SleepAgain, Flight!SpuriousWakeup
  <2> QED BY <2>1, <2>3, <2>4, <2>5, <2>6, <2>7
<1>3. CASE lru' = lru /\ stored' = stored
  BY <1>1, <1>3
<1>4. CASE /\ stored' = stored
           /\ \E k \in Keys : Flight!Cached(k) /\ lru' = Flight!getInternal(k)
  BY <1>1, <1>4, Moved
<1>5. CASE \E k \in Keys : \E v \in Flight!Values :
              /\ lru' = Flight!putInternal(k, v)
              /\ stored' = [stored EXCEPT ![k] = <<v>>]
  <2>1. PICK k \in Keys, v \in Flight!Values :
            /\ lru' = Flight!putInternal(k, v)
            /\ stored' = [stored EXCEPT ![k] = <<v>>]
    BY <1>5
  <2>2. Sound(lru', stored') /\ Len(lru') <= capacity
    BY <2>1, Stored, Zenon
  <2>3. stored' \in [Keys -> Recorded]
    BY <1>1, <2>1, StoredValuesFit
  <2> QED BY <1>1, <2>2, <2>3
<1> QED BY <1>1, <1>2, <1>3, <1>4, <1>5

(* Asking for a key, or being answered.                                    *)
LEMMA AnswersKept ==
    ASSUME Callers, NEW t \in Threads, NEW k \in Keys, NEW a \in Recorded,
           arg' = [arg EXCEPT ![t] = k], answer' = [answer EXCEPT ![t] = a]
    PROVE  arg' \in [Threads -> Keys] /\ answer' \in [Threads -> Recorded]
BY DEF Callers

LEMMA CallSteps ==
    ASSUME Sound(lru, stored), Callers, Flight!Next
    PROVE  Callers'
<1> DEFINE Told == arg' \in [Threads -> Keys] /\ answer' \in [Threads -> Recorded]
           Places == /\ inProgress' \subseteq Keys
                     /\ fetching' \subseteq Threads /\ waiting' \subseteq Threads
                     /\ awake' \subseteq Threads
                     /\ Flight!SingleFlight'
<1>1. SUFFICES Told /\ Places
  BY DEF Callers, Recorded, Flight!Values, Flight!slowFetch
<1>2. arg \in [Threads -> Keys] /\ DOMAIN answer = Threads /\ <<>> \in Recorded
  BY DEF Callers, Recorded
<1>3. PICK t \in Threads :
          \/ \E k \in Keys : \/ Flight!Hit(t, k) \/ Flight!Join(t, k) \/ Flight!StartFetch(t, k)
                             \/ Flight!get(t, k)
                             \/ \E v \in PutValues : Flight!put(t, k, v)
          \/ Flight!FinishFetch(t) \/ Flight!Resume(t) \/ Flight!SleepAgain(t)
          \/ Flight!SpuriousWakeup(t)
  BY DEF Flight!Next, Flight!getOrCompute
<1>4. arg[t] \in Keys /\ arg = [arg EXCEPT ![t] = arg[t]]
  BY <1>2
<1>5. ASSUME arg' = arg, answer' = answer
      PROVE  Told
  BY <1>5 DEF Callers
<1> HIDE DEF Told
<1>6. ASSUME NEW k \in Keys, Flight!Hit(t, k)
      PROVE  Told /\ Places
  <2>1. <<Flight!ValueOf(k)>> \in Recorded
    BY <1>6, Found, StoredValuesFit DEF Flight!Hit
  <2>2. Told
    BY <1>6, <2>1, AnswersKept DEF Flight!Hit, Told
  <2>3. Places
    BY <1>2, <1>6 DEF Flight!Hit, Flight!Calling, Flight!Idle, Callers, Flight!SingleFlight
  <2> QED BY <2>2, <2>3
<1>7. ASSUME NEW k \in Keys, Flight!Join(t, k)
      PROVE  Told /\ Places
  <2>1. Told
    BY <1>2, <1>7, AnswersKept DEF Flight!Join, Told
  <2>2. Places
    BY <1>2, <1>7 DEF Flight!Join, Flight!Calling, Flight!Idle, Callers, Flight!SingleFlight
  <2> QED BY <2>1, <2>2
<1>8. ASSUME NEW k \in Keys, Flight!StartFetch(t, k)
      PROVE  Told /\ Places
  <2>1. Told
    BY <1>2, <1>8, AnswersKept DEF Flight!StartFetch, Told
  <2>2. Places
    BY <1>2, <1>8 DEF Flight!StartFetch, Flight!Calling, Flight!Idle, Callers, Flight!SingleFlight
  <2> QED BY <2>1, <2>2
<1>9. CASE \E k \in Keys : Flight!get(t, k) \/ \E v \in PutValues : Flight!put(t, k, v)
  <2>1. Told
    BY <1>5, <1>9 DEF Flight!get, Flight!put
  <2>2. Places
    BY <1>9 DEF Flight!get, Flight!put, Callers, Flight!SingleFlight
  <2> QED BY <2>1, <2>2
<1>10. CASE Flight!FinishFetch(t)
  <2>1. <<Flight!slowFetch(arg[t])>> \in Recorded
    BY <1>4, StoredValuesFit
  <2>2. Told
    BY <1>4, <1>10, <2>1, AnswersKept DEF Flight!FinishFetch, Told
  <2>3. Places
    BY <1>2, <1>10 DEF Flight!FinishFetch, Callers, Flight!SingleFlight, Flight!NotifyAll
  <2> QED BY <2>2, <2>3
<1>11. CASE Flight!Resume(t)
  <2>1. <<Flight!ValueOf(arg[t])>> \in Recorded
    BY <1>4, <1>11, Found, StoredValuesFit DEF Flight!Resume
  <2>2. Told
    BY <1>4, <1>11, <2>1, AnswersKept DEF Flight!Resume, Told
  <2>3. Places
    BY <1>2, <1>11 DEF Flight!Resume, Callers, Flight!SingleFlight
  <2> QED BY <2>2, <2>3
<1>12. CASE Flight!SleepAgain(t) \/ Flight!SpuriousWakeup(t)
  <2>1. Told
    BY <1>5, <1>12 DEF Flight!SleepAgain, Flight!SpuriousWakeup
  <2>2. Places
    BY <1>12 DEF Flight!SleepAgain, Flight!SpuriousWakeup, Callers, Flight!SingleFlight
  <2> QED BY <2>1, <2>2
<1> QED BY <1>3, <1>6, <1>7, <1>8, <1>9, <1>10, <1>11, <1>12

(* An answer is what the history has as the last value of the key.         *)
LEMMA AnswerSteps ==
    ASSUME FlightInv, Flight!Next
    PROVE  \A t \in Threads : answer'[t] # answer[t]
               => answer'[t] = <<>> \/ answer'[t] = stored'[arg'[t]]
<1>1. /\ arg \in [Threads -> Keys] /\ stored \in [Keys -> Recorded]
      /\ answer \in [Threads -> Recorded] /\ Sound(lru, stored)
  BY DEF FlightInv, Callers
<1>2. SUFFICES ASSUME NEW u \in Threads, answer'[u] # answer[u]
               PROVE  answer'[u] = <<>> \/ answer'[u] = stored'[arg'[u]]
  OBVIOUS
<1>3. PICK t \in Threads :
          \/ \E k \in Keys : \/ Flight!Hit(t, k) \/ Flight!Join(t, k) \/ Flight!StartFetch(t, k)
                             \/ Flight!get(t, k)
                             \/ \E v \in PutValues : Flight!put(t, k, v)
          \/ Flight!FinishFetch(t) \/ Flight!Resume(t) \/ Flight!SleepAgain(t)
          \/ Flight!SpuriousWakeup(t)
  BY DEF Flight!Next, Flight!getOrCompute
<1>4. arg[t] \in Keys
  BY <1>1
<1>5. ASSUME NEW k \in Keys, Flight!Hit(t, k)
      PROVE  answer'[u] = stored'[arg'[u]]
  <2>1. stored[k] = <<Flight!ValueOf(k)>>
    BY <1>1, <1>5, Found DEF Flight!Hit
  <2> QED BY <1>1, <1>2, <1>5, <2>1 DEF Flight!Hit
<1>6. ASSUME NEW k \in Keys, Flight!Join(t, k) \/ Flight!StartFetch(t, k)
      PROVE  answer'[u] = <<>>
  BY <1>1, <1>2, <1>6 DEF Flight!Join, Flight!StartFetch
<1>7. CASE Flight!FinishFetch(t)
  BY <1>1, <1>2, <1>4, <1>7 DEF Flight!FinishFetch
<1>8. CASE Flight!Resume(t)
  <2>1. stored[arg[t]] = <<Flight!ValueOf(arg[t])>>
    BY <1>1, <1>4, <1>8, Found DEF Flight!Resume
  <2> QED BY <1>1, <1>2, <1>8, <2>1 DEF Flight!Resume
<1> QED BY <1>2, <1>3, <1>5, <1>6, <1>7, <1>8
        DEF Flight!get, Flight!put, Flight!SleepAgain, Flight!SpuriousWakeup

LEMMA FlightInit == Init => FlightInv
<1> SUFFICES ASSUME Init PROVE FlightInv
  OBVIOUS
<1>1. /\ capacity \in Capacities /\ lru = <<>> /\ inProgress = {}
      /\ fetching = {} /\ waiting = {} /\ awake = {}
      /\ arg = [t \in Threads |-> CHOOSE k \in Keys : TRUE]
      /\ answer = [t \in Threads |-> <<>>]
      /\ stored = [k \in Keys |-> <<>>]
  BY DEF Init, Flight!Init
<1>2. Sound(lru, stored) /\ Len(lru) <= capacity
  <2>1. Sound(<<>>, stored) /\ Len(<<>>) = 0
    BY EmptySeq DEF Sound
  <2> QED BY <1>1, <2>1, FlightConstants
<1>3. (CHOOSE k \in Keys : TRUE) \in Keys
  BY FlightConstants
<1>4. Callers /\ stored \in [Keys -> Recorded]
  BY <1>1, <1>3 DEF Callers, Recorded, Flight!SingleFlight
<1> QED BY <1>1, <1>2, <1>4 DEF FlightInv

LEMMA FlightStep == FlightInv /\ [Next]_vars => FlightInv'
<1>1. ASSUME FlightInv, UNCHANGED flight
      PROVE  FlightInv'
  BY <1>1 DEF flight, FlightInv, Sound, Callers, Flight!SingleFlight, Recorded,
              Flight!Values, Flight!slowFetch, Entries, Fits
<1>2. ASSUME FlightInv, Flight!Next
      PROVE  FlightInv'
  <2>1. /\ capacity' \in Capacities /\ stored' \in [Keys -> Recorded]
        /\ Sound(lru', stored') /\ Len(lru') <= capacity'
    BY <1>2, CacheSteps DEF FlightInv
  <2>2. Sound(lru', stored')  = Sound(lru, stored)'
    BY DEF Sound, Fits, Entries, Flight!Values, Flight!slowFetch
  <2>3. Callers'
    BY <1>2, CallSteps DEF FlightInv
  <2>4. (stored \in [Keys -> Recorded])'
    BY <2>1 DEF Recorded, Flight!Values, Flight!slowFetch
  <2> QED BY <2>1, <2>2, <2>3, <2>4 DEF FlightInv
<1> QED BY <1>1, <1>2 DEF Next, vars, RunsLRU, RunsFlight, RunsKV, RunsJavaKV, RunsCache,
                          RunsBroker

(* For every set of threads and keys and every capacity, and whatever the  *)
(* order of fetches, puts, evictions and wake-ups: the cache holds at most *)
(* capacity entries, one for a key, and a key is fetched by one thread at  *)
(* a time (ThreadSafeLRU.cpp, lines 96 to 124).                            *)
THEOREM FetchesOnce == Spec => []SingleFlight
<1>1. FlightInv => SingleFlight
  <2> SUFFICES ASSUME FlightInv PROVE Flight!CacheBounded /\ Flight!SingleFlight
    BY DEF SingleFlight
  <2>1. Flight!TypeOK
    BY DEF FlightInv, Callers, Recorded, Sound, Entries, Flight!TypeOK
  <2>2. DOMAIN lru = 1 .. Len(lru)
    BY LenProperties DEF FlightInv, Sound
  <2>3. Flight!CacheBounded
    BY <2>1, <2>2 DEF FlightInv, Sound, Flight!CacheBounded
  <2> QED BY <2>3 DEF FlightInv, Callers
<1> QED BY <1>1, FlightInit, FlightStep, PTL DEF Spec

(* The cache holds for a key what was last put or fetched for it, and      *)
(* getOrCompute answers with that value, never with an older one, that of  *)
(* another key or the -1 of a miss, although the entry may be evicted      *)
(* between the notification and the answer (ThreadSafeLRU.cpp, lines 54 to *)
(* 71 and 98 to 122).                                                      *)
THEOREM AnswersTheKey == Spec => AnswersFit
<1> DEFINE Agrees == \A k \in Keys : Flight!Cached(k) => stored[k] = <<Flight!ValueOf(k)>>
           Answers == \A t \in Threads : answer'[t] # answer[t]
                          => answer'[t] = <<>> \/ answer'[t] = stored'[arg'[t]]
<1>1. FlightInv => Agrees
  BY Found DEF FlightInv
<1>2. FlightInv /\ [Next]_vars => [Answers]_Flight!vars
  <2>1. UNCHANGED flight => UNCHANGED Flight!vars
    BY DEF flight, Flight!vars
  <2>2. [Next]_vars => Flight!Next \/ UNCHANGED flight
    BY DEF Next, vars, RunsLRU, RunsFlight, RunsKV, RunsJavaKV, RunsCache, RunsBroker
  <2>3. FlightInv /\ Flight!Next => Answers
    BY AnswerSteps
  <2> HIDE DEF Answers
  <2> QED BY <2>1, <2>2, <2>3
<1>3. Spec => []Agrees
  <2> HIDE DEF Agrees
  <2> QED BY <1>1, FlightInit, FlightStep, PTL DEF Spec
<1>4. Spec => [][Answers]_Flight!vars
  <2> HIDE DEF Answers
  <2> QED BY <1>2, FlightInit, FlightStep, PTL DEF Spec
<1> QED BY <1>3, <1>4 DEF AnswersFit, Flight!AnswersFit

-----------------------------------------------------------------------------
(* The key-value stores.  A thread that has looked a key up is inside the  *)
(* lock, and what it found is still so: a reader only gets, and a writer   *)
(* is alone.                                                               *)
KVInv ==
    /\ DOMAIN call = Threads /\ DOMAIN found = Threads /\ DOMAIN returned = Threads
    /\ \A t \in readers : call[t] # NoCall /\ call[t].op = "get"
    /\ \A t \in writers : writers = {t} /\ readers = {}
    /\ \A t \in Threads : found[t] # Nothing =>
           /\ t \in readers \cup writers /\ call[t] # NoCall
           /\ call[t].op \in {"get", "putIfAbsent"}
           /\ found[t] \in BOOLEAN
           /\ found[t] <=> store[call[t].key] # Absent

LEMMA KVInit == Init => KVInv
BY DEF Init, KV!Init, KVInv

(* A call takes effect when it returns, and its other steps change nothing *)
(* that a caller can see.  The two programs share most of their steps.     *)
KVSteps(t) == KV!Lock(t) \/ KV!Find(t) \/ KV!get(t) \/ KV!put(t) \/ KV!putIfAbsent(t)
                \/ KV!javaGet(t) \/ KV!tryPut(t) \/ KV!TimeOut(t)
                \/ \E c \in KV!Calls \cup JavaKV!Calls : KV!Invoke(t, c)

LEMMA KVStep ==
    ASSUME KVInv, NEW t \in Threads, KVSteps(t)
    PROVE  KVInv' /\ (KV!Atomic!Next \/ UNCHANGED <<store, call, returned>>)
<1> USE DEF KV!Inside, KV!Op, KV!Key
<1>1. CASE KV!Lock(t)
  <2>1. KVInv'
    BY <1>1 DEF KVInv, KV!Lock, KV!MayEnter
  <2> QED BY <1>1, <2>1 DEF KV!Lock
<1>2. CASE KV!Find(t)
  <2>1. KVInv'
    BY <1>2 DEF KVInv, KV!Find
  <2> QED BY <1>2, <2>1 DEF KV!Find
<1>3. CASE KV!get(t)
  <2>1. KVInv'
    BY <1>3 DEF KVInv, KV!get, KV!Return
  <2>2. KV!Atomic!Get(t) /\ call[t] # NoCall
    BY <1>3 DEF KVInv, KV!get, KV!Return, KV!Atomic!Get, KV!Atomic!Returns
  <2> QED BY <2>1, <2>2 DEF KV!Atomic!Next
<1>4. CASE KV!put(t)
  <2>1. KVInv'
    BY <1>4 DEF KVInv, KV!put, KV!Return
  <2>2. KV!Atomic!Put(t) /\ call[t] # NoCall
    BY <1>4 DEF KVInv, KV!put, KV!Return, KV!Atomic!Put, KV!Atomic!Returns
  <2> QED BY <2>1, <2>2 DEF KV!Atomic!Next
<1>5. CASE KV!putIfAbsent(t)
  <2>1. KVInv'
    BY <1>5 DEF KVInv, KV!putIfAbsent, KV!Return
  <2>2. KV!Atomic!PutIfAbsent(t) /\ call[t] # NoCall
    BY <1>5 DEF KVInv, KV!putIfAbsent, KV!Return, KV!Atomic!PutIfAbsent, KV!Atomic!Returns
  <2> QED BY <2>1, <2>2 DEF KV!Atomic!Next
<1>6. CASE KV!javaGet(t)
  <2>1. KVInv'
    BY <1>6 DEF KVInv, KV!javaGet, KV!Return
  <2>2. KV!Atomic!Get(t) /\ call[t] # NoCall
    BY <1>6 DEF KVInv, KV!javaGet, KV!Return, KV!Atomic!Get, KV!Atomic!Returns
  <2> QED BY <2>1, <2>2 DEF KV!Atomic!Next
<1>7. CASE KV!tryPut(t)
  <2>1. KVInv'
    BY <1>7 DEF KVInv, KV!tryPut, KV!Return
  <2>2. KV!Atomic!Put(t) /\ call[t] # NoCall
    BY <1>7 DEF KVInv, KV!tryPut, KV!Return, KV!Atomic!Put, KV!Atomic!Returns
  <2> QED BY <2>1, <2>2 DEF KV!Atomic!Next
<1>8. CASE KV!TimeOut(t)
  <2>1. KVInv'
    BY <1>8 DEF KVInv, KV!TimeOut
  <2>2. KV!Atomic!GiveUp(t) /\ call[t] # NoCall
    BY <1>8 DEF KVInv, KV!TimeOut, KV!Atomic!GiveUp, KV!Atomic!Returns
  <2> QED BY <2>1, <2>2 DEF KV!Atomic!Next
<1>9. CASE \E c \in KV!Calls \cup JavaKV!Calls : KV!Invoke(t, c)
  <2>1. PICK c \in KV!Calls \cup JavaKV!Calls : KV!Invoke(t, c)
    BY <1>9
  <2>2. KVInv'
    BY <2>1 DEF KVInv, KV!Invoke
  <2>3. c \in [op : {"get", "put", "tryPut", "putIfAbsent", "hold"},
               key : KVKeys, val : StoredValues \cup {Absent}]
    BY <2>1 DEF KV!Calls, JavaKV!Calls
  <2>4. KV!Atomic!Invoke(t, c)
    BY <2>1 DEF KV!Invoke, KV!Atomic!Invoke
  <2> QED BY <2>2, <2>3, <2>4 DEF KV!Atomic!Next
<1> QED BY <1>1, <1>2, <1>3, <1>4, <1>5, <1>6, <1>7, <1>8, <1>9 DEF KVSteps

LEMMA StoreStep ==
    KVInv /\ [Next]_vars => KVInv' /\ [KV!Atomic!Next]_<<store, call, returned>>
<1>1. ASSUME KVInv, UNCHANGED kv
      PROVE  KVInv' /\ UNCHANGED <<store, call, returned>>
  BY <1>1 DEF kv, KVInv
<1>2. ASSUME KVInv, KV!Next
      PROVE  KVInv' /\ [KV!Atomic!Next]_<<store, call, returned>>
  <2>1. PICK t \in Threads : KV!Proceed(t) \/ \E c \in KV!Calls : KV!Invoke(t, c)
    BY <1>2 DEF KV!Next
  <2>2. KVSteps(t)
    BY <2>1 DEF KV!Proceed, KVSteps
  <2> QED BY <1>2, <2>2, KVStep
<1>3. ASSUME KVInv, JavaKV!JavaNext
      PROVE  KVInv' /\ [KV!Atomic!Next]_<<store, call, returned>>
  <2>1. PICK t \in Threads : \/ JavaKV!JavaProceed(t) \/ JavaKV!TimeOut(t)
                             \/ \E c \in JavaKV!Calls : JavaKV!Invoke(t, c)
    BY <1>3 DEF JavaKV!JavaNext
  <2>2. ASSUME JavaKV!JavaProceed(t)
        PROVE  KVSteps(t)
    <3>1. JavaKV!Lock(t) => KV!Lock(t)
      BY DEF JavaKV!Lock, KV!Lock, JavaKV!MayEnter, KV!MayEnter, JavaKV!Waits, KV!Waits,
             JavaKV!Op, KV!Op
    <3>2. JavaKV!Find(t) => KV!Find(t)
      BY DEF JavaKV!Find, KV!Find, JavaKV!Inside, KV!Inside, JavaKV!Op, KV!Op,
             JavaKV!Key, KV!Key
    <3>3. /\ JavaKV!javaGet(t) => KV!javaGet(t)
          /\ JavaKV!tryPut(t) => KV!tryPut(t)
          /\ JavaKV!putIfAbsent(t) => KV!putIfAbsent(t)
      BY DEF JavaKV!javaGet, KV!javaGet, JavaKV!tryPut, KV!tryPut, JavaKV!putIfAbsent,
             KV!putIfAbsent, JavaKV!Inside, KV!Inside, JavaKV!Op, KV!Op,
             JavaKV!Key, KV!Key, JavaKV!Return, KV!Return
    <3> QED BY <2>2, <3>1, <3>2, <3>3 DEF JavaKV!JavaProceed, KVSteps
  <2>3. ASSUME JavaKV!TimeOut(t)
        PROVE  KVSteps(t)
    BY <2>3 DEF JavaKV!TimeOut, KV!TimeOut, JavaKV!Waits, KV!Waits, JavaKV!Op, KV!Op, KVSteps
  <2>4. ASSUME NEW c \in JavaKV!Calls, JavaKV!Invoke(t, c)
        PROVE  KVSteps(t)
    BY <2>4 DEF JavaKV!Invoke, KV!Invoke, KVSteps
  <2> QED BY <1>3, <2>1, <2>2, <2>3, <2>4, KVStep
<1> QED BY <1>1, <1>2, <1>3 DEF Next, vars, RunsLRU, RunsFlight, RunsKV, RunsJavaKV,
                                RunsCache, RunsBroker

(* For any threads, keys and values: every call of both stores takes       *)
(* effect at one moment, the two accesses of putIfAbsent and of get        *)
(* included, whatever the lock's order of entry (KVStore.cpp, lines 25 to  *)
(* 55; Java/ThreadSafeKVStore.java, lines 26 to 67).                       *)
THEOREM CallsAtomic == Spec => KV!StoreSpec /\ JavaKV!StoreSpec
<1>1. Init => KV!Atomic!Init /\ JavaKV!Atomic!Init
  BY DEF Init, KV!Init, KV!Atomic!Init, JavaKV!Atomic!Init
<1>2. KV!Atomic!Next => JavaKV!Atomic!Next
  BY DEF KV!Atomic!Next, KV!Atomic!Invoke, KV!Atomic!Get, KV!Atomic!Put, KV!Atomic!GiveUp,
         KV!Atomic!PutIfAbsent, KV!Atomic!Returns,
         JavaKV!Atomic!Next, JavaKV!Atomic!Invoke, JavaKV!Atomic!Get, JavaKV!Atomic!Put,
         JavaKV!Atomic!GiveUp, JavaKV!Atomic!PutIfAbsent, JavaKV!Atomic!Returns
<1>3. KVInv /\ [Next]_vars => /\ [KV!Atomic!Next]_(KV!Atomic!vars)
                              /\ [JavaKV!Atomic!Next]_(JavaKV!Atomic!vars)
  <2>1. KVInv /\ [Next]_vars => [KV!Atomic!Next]_<<store, call, returned>>
    BY StoreStep
  <2>2. [KV!Atomic!Next]_<<store, call, returned>>
            => /\ [KV!Atomic!Next]_(KV!Atomic!vars)
               /\ [JavaKV!Atomic!Next]_(JavaKV!Atomic!vars)
    BY <1>2 DEF KV!Atomic!vars, JavaKV!Atomic!vars
  <2> QED BY <2>1, <2>2
<1>4. Spec => []KVInv
  <2>1. KVInv /\ [Next]_vars => KVInv'
    BY StoreStep
  <2> QED BY <2>1, KVInit, PTL DEF Spec
<1> QED BY <1>1, <1>3, <1>4, PTL DEF Spec, KV!StoreSpec, JavaKV!StoreSpec, KV!Atomic!Spec,
                                     JavaKV!Atomic!Spec

-----------------------------------------------------------------------------
(* The expiring cache.                                                     *)
P == TicksPerSecond

LEMMA CacheConstants ==
    /\ P \in Nat \ {0} /\ IntMax \in Nat /\ MaxClock \in Nat
    /\ MaxSetBack \in Nat /\ MaxSetBack <= IntMax
    /\ \A ttl \in Ttls : ttl \in Nat /\ ttl <= IntMax
    /\ nullopt \notin StoredValues
    /\ \A e \in [value : StoredValues, expiryTime : Int] : e # nullopt
    /\ \A e \in [value : StoredValues, ttl : Ttls, age : Nat, fits : BOOLEAN] :
           e # nullopt
BY StoresAssumption DEF Expiring!CacheAssumption, P

LEMMA Remainder ==
    ASSUME NEW a \in Nat, NEW m \in Nat \ {0}
    PROVE  /\ a % m \in 0 .. m - 1
           /\ a < m => a % m = a
           /\ a >= m => a % m <= a - m
OBVIOUS

(* A time that is no int becomes one that is past by more than IntMax.     *)
LEMMA Narrowed ==
    ASSUME NEW t \in Nat
    PROVE  /\ Expiring!Narrow(t) \in -IntMax - 1 .. IntMax
           /\ t <= IntMax => Expiring!Narrow(t) = t
           /\ t > IntMax => Expiring!Narrow(t) <= t - 2 * (IntMax + 1)
<1> DEFINE m == 2 * (IntMax + 1)
           a == t + IntMax + 1
           r == a % m
<1>1. a \in Nat /\ m \in Nat \ {0} /\ IntMax \in Nat
  BY CacheConstants
<1>2. /\ r \in 0 .. m - 1
      /\ a < m => r = a
      /\ a >= m => r <= a - m
  <2> HIDE DEF a, m
  <2> QED BY <1>1, Remainder
<1>3. Expiring!Narrow(t) = r - (IntMax + 1)
  BY DEF Expiring!Narrow
<1> HIDE DEF r
<1> QED BY <1>1, <1>2, <1>3

(* What is left until the expiry.  The clock counts whole seconds, and so  *)
(* what it says of the time since the put is wrong by less than a second:  *)
(* never too early, however much it was set back, and too late only if it  *)
(* was.                                                                    *)
Timely(left, ttl, age, f, back) ==
    /\ (ttl - left) * P <= age + P - 1 - f
    /\ back \/ age - f <= (ttl - left) * P

LEMMA Products ==
    ASSUME NEW x \in Int, NEW y \in Int
    PROVE  /\ x * P \in Int /\ (x + 1) * P = x * P + P
           /\ x < y => x * P + P <= y * P
           /\ x <= y => x * P <= y * P
BY CacheConstants

LEMMA TimelyPut ==
    ASSUME NEW ttl \in Ttls, NEW f \in 0 .. P - 1, NEW back \in BOOLEAN
    PROVE  Timely(ttl, ttl, 0, f, back)
<1>1. ttl \in Nat /\ ttl - ttl = 0 /\ 0 * P = 0
  BY CacheConstants
<1> QED BY <1>1, CacheConstants DEF Timely

(* The clock shows a second more when the ticks of one have passed.        *)
LEMMA NextTick ==
    ASSUME NEW f \in 0 .. P - 1, NEW f2, f2 = (f + 1) % P
    PROVE  /\ f2 = IF f + 1 = P THEN 0 ELSE f + 1
           /\ f2 \in 0 .. P - 1
<1>1. P \in Nat \ {0} /\ f \in 0 .. P - 1 /\ f2 = (f + 1) % P
  BY CacheConstants
<1>2. f2 = IF f + 1 = P THEN 0 ELSE f + 1
  BY ONLY <1>1
<1> QED BY ONLY <1>1, <1>2

LEMMA TimelyTick ==
    ASSUME NEW left \in Int, NEW ttl \in Ttls, NEW age \in Nat,
           NEW f \in 0 .. P - 1, NEW back \in BOOLEAN, Timely(left, ttl, age, f, back),
           NEW f2, f2 = (f + 1) % P,
           NEW left2, left2 = IF f2 = 0 THEN left - 1 ELSE left
    PROVE  Timely(left2, ttl, age + 1, f2, back)
<1>1. /\ f2 = IF f + 1 = P THEN 0 ELSE f + 1
      /\ ttl \in Int /\ P \in Nat \ {0} /\ f \in Nat /\ f <= P - 1
  BY NextTick, CacheConstants
<1> DEFINE e == (ttl - left) * P
           e2 == (ttl - left2) * P
<1>2. /\ e <= age + P - 1 - f
      /\ back \/ age - f <= e
  BY DEF Timely
<1>3. CASE f + 1 # P
  <2>1. e2 = e /\ f2 = f + 1 /\ e \in Int
    BY <1>1, <1>3, Products
  <2>2. /\ e2 <= (age + 1) + P - 1 - f2
        /\ back \/ (age + 1) - f2 <= e2
    <3> HIDE DEF e, e2
    <3> QED BY <1>1, <1>2, <2>1
  <2> QED BY <2>2 DEF Timely
<1>4. CASE f + 1 = P
  <2>1. ttl - left2 = (ttl - left) + 1 /\ ttl - left \in Int /\ f2 = 0
    BY <1>1, <1>4
  <2>2. e2 = e + P /\ e \in Int
    BY <2>1, Products
  <2>3. /\ e2 <= (age + 1) + P - 1 - f2
        /\ back \/ (age + 1) - f2 <= e2
    <3> HIDE DEF e, e2
    <3> QED BY <1>1, <1>2, <1>4, <2>1, <2>2
  <2> QED BY <2>3 DEF Timely
<1> QED BY <1>3, <1>4

LEMMA TimelySetBack ==
    ASSUME NEW left \in Int, NEW ttl \in Ttls, NEW age \in Nat,
           NEW f \in 0 .. P - 1, NEW d \in Nat, Timely(left, ttl, age, f, FALSE)
    PROVE  Timely(left + d, ttl, age, f, TRUE)
<1>1. ttl \in Int /\ P \in Nat \ {0} /\ f \in Nat
  BY CacheConstants
<1> DEFINE e == (ttl - left) * P
           e2 == (ttl - (left + d)) * P
<1>2. e \in Int /\ e2 \in Int /\ e2 <= e
  BY <1>1, Products
<1>3. e <= age + P - 1 - f
  BY DEF Timely
<1>4. e2 <= age + P - 1 - f
  <2> HIDE DEF e, e2
  <2> QED BY <1>1, <1>2, <1>3
<1> QED BY <1>4 DEF Timely

(* What is left of the ttl answers the two questions about the age.        *)
LEMMA TimelyAnswer ==
    ASSUME NEW left \in Int, NEW ttl \in Ttls, NEW age \in Nat,
           NEW f \in 0 .. P - 1, NEW back \in BOOLEAN, Timely(left, ttl, age, f, back)
    PROVE  /\ age <= ttl * P => ~(left < 0)
           /\ ~back /\ age >= (ttl + 1) * P => left < 0
<1>1. ttl \in Nat /\ P \in Nat \ {0} /\ f \in Nat /\ f <= P - 1
  BY CacheConstants
<1>2. (ttl + 1) * P = ttl * P + P /\ ttl * P \in Int
  BY <1>1, Products
<1>3. ASSUME age <= ttl * P, left < 0
      PROVE  FALSE
  <2>1. ttl * P + P <= (ttl - left) * P /\ (ttl - left) * P \in Int
    BY <1>1, <1>3, Products
  <2>2. (ttl - left) * P <= age + P - 1 - f
    BY DEF Timely
  <2> QED BY <1>1, <1>2, <1>3, <2>1, <2>2
<1>4. ASSUME ~back, age >= (ttl + 1) * P, ~(left < 0)
      PROVE  FALSE
  <2>1. (ttl - left) * P <= ttl * P /\ (ttl - left) * P \in Int
    BY <1>1, <1>4, Products
  <2>2. age - f <= (ttl - left) * P
    BY <1>4 DEF Timely
  <2> QED BY <1>1, <1>2, <1>4, <2>1, <2>2
<1> QED BY <1>3, <1>4

Timed == [value : StoredValues, expiryTime : -IntMax - 1 .. IntMax]
Puts == [value : StoredValues, ttl : Ttls, age : Nat, fits : BOOLEAN]

(* An entry c is the last one put, l, with its expiry or with one that has *)
(* wrapped and stays past; one that get has dropped was overdue.           *)
InTime(c, l, t, f, back) ==
    /\ l = nullopt => c = nullopt
    /\ l # nullopt /\ c = nullopt /\ l.fits => l.age > l.ttl * P
    /\ c # nullopt =>
           /\ c.value = l.value
           /\ l.fits => Timely(c.expiryTime - t, l.ttl, l.age, f, back)
           /\ ~l.fits => c.expiryTime < t - (IF back THEN 0 ELSE MaxSetBack)

CacheInv == /\ clock \in 0 .. MaxClock /\ phase \in 0 .. P - 1 /\ setBack \in BOOLEAN
            /\ got \in StoredValues \cup {nullopt}
            /\ cache \in [KVKeys -> Timed \cup {nullopt}]
            /\ last \in [KVKeys -> Puts \cup {nullopt}]
            /\ \A k \in KVKeys : InTime(cache[k], last[k], clock, phase, setBack)

(* get answers with an entry's value unless it has expired.                *)
LEMMA Answers ==
    ASSUME CacheInv, NEW k \in KVKeys
    PROVE  /\ cache[k] = nullopt => Expiring!Answer(k) = nullopt
           /\ cache[k] # nullopt /\ cache[k].expiryTime < clock
                  => Expiring!Answer(k) = nullopt
           /\ cache[k] # nullopt /\ ~(cache[k].expiryTime < clock)
                  => /\ Expiring!Answer(k) = cache[k].value
                     /\ Expiring!Answer(k) # nullopt
           /\ Expiring!Answer(k) \in StoredValues \cup {nullopt}
<1>1. /\ clock \in Int
      /\ cache[k] # nullopt => cache[k].expiryTime \in Int /\ cache[k].value \in StoredValues
  BY CacheConstants DEF CacheInv, Timed
<1> QED BY <1>1, CacheConstants DEF Expiring!Answer, Expiring!Expired

(* A cached entry that was put, with what is known of its time.            *)
LEMMA Entry ==
    ASSUME CacheInv, NEW k \in KVKeys, cache[k] # nullopt
    PROVE  /\ cache[k] \in Timed /\ cache[k].expiryTime \in Int
           /\ cache[k].value \in StoredValues
           /\ last[k] # nullopt /\ last[k] \in Puts
           /\ last[k].ttl \in Ttls /\ last[k].age \in Nat /\ last[k].fits \in BOOLEAN
           /\ cache[k].value = last[k].value
           /\ clock \in Int /\ phase \in 0 .. P - 1 /\ setBack \in BOOLEAN
           /\ last[k].fits => Timely(cache[k].expiryTime - clock, last[k].ttl,
                                     last[k].age, phase, setBack)
           /\ ~last[k].fits => cache[k].expiryTime
                                   < clock - (IF setBack THEN 0 ELSE MaxSetBack)
<1>1. /\ cache[k] \in Timed /\ InTime(cache[k], last[k], clock, phase, setBack)
      /\ clock \in Int /\ phase \in 0 .. P - 1 /\ setBack \in BOOLEAN
  BY CacheConstants DEF CacheInv
<1>2. last[k] # nullopt /\ last[k] \in Puts
  BY <1>1 DEF CacheInv, InTime
<1>3. last[k].ttl \in Ttls /\ last[k].age \in Nat /\ last[k].fits \in BOOLEAN
  BY <1>2 DEF Puts
<1>4. cache[k].expiryTime \in Int /\ cache[k].value \in StoredValues
  BY <1>1, CacheConstants DEF Timed
<1> QED BY <1>1, <1>2, <1>3, <1>4 DEF InTime

LEMMA CacheInit == Init => CacheInv
<1> SUFFICES ASSUME Init PROVE CacheInv
  OBVIOUS
<1>1. \A k \in KVKeys : cache[k] = nullopt /\ last[k] = nullopt
  BY DEF Init, Expiring!Init
<1>2. \A k \in KVKeys : InTime(cache[k], last[k], clock, phase, setBack)
  BY <1>1 DEF InTime
<1>3. clock \in 0 .. MaxClock /\ phase \in 0 .. P - 1 /\ setBack \in BOOLEAN
  BY DEF Init, Expiring!Init, P
<1> QED BY <1>2, <1>3 DEF CacheInv, Init, Expiring!Init

LEMMA PutStep ==
    ASSUME CacheInv, NEW k \in KVKeys, NEW v \in StoredValues, NEW ttl \in Ttls,
           Expiring!put(k, v, ttl)
    PROVE  CacheInv'
<1> DEFINE due == clock + ttl
           c == [value |-> v, expiryTime |-> Expiring!Narrow(due)]
           l == [value |-> v, ttl |-> ttl, age |-> 0, fits |-> due <= IntMax]
<1>1. /\ due \in Nat /\ due = clock + ttl /\ clock \in Nat /\ setBack \in BOOLEAN
      /\ ttl \in Nat /\ ttl <= IntMax /\ phase \in 0 .. P - 1
  BY CacheConstants DEF CacheInv
<1>2. /\ cache' = [cache EXCEPT ![k] = c] /\ last' = [last EXCEPT ![k] = l]
      /\ clock' = clock /\ phase' = phase /\ setBack' = setBack /\ got' = got
  BY DEF Expiring!put
<1> HIDE DEF due
<1>3. /\ Expiring!Narrow(due) \in -IntMax - 1 .. IntMax
      /\ due <= IntMax => Expiring!Narrow(due) = due
      /\ due > IntMax => Expiring!Narrow(due) <= due - 2 * (IntMax + 1)
  BY <1>1, Narrowed
<1>4. c \in Timed /\ l \in Puts /\ c # nullopt /\ l # nullopt
  <2>1. c \in Timed /\ l \in Puts
    BY <1>3 DEF Timed, Puts
  <2>2. c \in [value : StoredValues, expiryTime : Int]
    BY <1>3, CacheConstants
  <2> QED BY <2>1, <2>2, CacheConstants DEF Puts
<1>5. InTime(c, l, clock, phase, setBack)
  <2>1. ASSUME due <= IntMax
        PROVE  Timely(c.expiryTime - clock, ttl, 0, phase, setBack)
    <3>1. c.expiryTime - clock = ttl
      BY <1>1, <1>3, <2>1
    <3>2. Timely(ttl, ttl, 0, phase, setBack)
      BY <1>1, TimelyPut
    <3> QED BY <3>1, <3>2
  <2>2. ASSUME ~(due <= IntMax)
        PROVE  c.expiryTime < clock - (IF setBack THEN 0 ELSE MaxSetBack)
    <3> DEFINE n == Expiring!Narrow(due)
    <3>1. c.expiryTime = n /\ n \in Int /\ n <= due - 2 * (IntMax + 1)
      BY <1>1, <1>3, <2>2, CacheConstants
    <3> HIDE DEF n, c
    <3> QED BY <1>1, <3>1, CacheConstants
  <2> QED BY <1>4, <2>1, <2>2 DEF InTime
<1> HIDE DEF c, l
<1>6. /\ cache' \in [KVKeys -> Timed \cup {nullopt}]
      /\ last' \in [KVKeys -> Puts \cup {nullopt}]
  BY <1>2, <1>4 DEF CacheInv
<1>7. ASSUME NEW j \in KVKeys
      PROVE  InTime(cache'[j], last'[j], clock', phase', setBack')
  <2>1. CASE j = k
    BY <1>2, <1>5, <2>1 DEF CacheInv
  <2>2. CASE j # k
    BY <1>2, <2>2 DEF CacheInv
  <2> QED BY <2>1, <2>2
<1>8. (\A j \in KVKeys : InTime(cache[j], last[j], clock, phase, setBack))'
  BY <1>7 DEF InTime, Timely, P
<1> QED BY <1>2, <1>6, <1>8 DEF CacheInv, Timed, Puts, P

(* get drops an entry only when its ttl is over, or its expiry no int.     *)
LEMMA GetStep ==
    ASSUME CacheInv, NEW k \in KVKeys, Expiring!get(k)
    PROVE  CacheInv'
<1>1. /\ cache' = [cache EXCEPT ![k] = IF Expiring!Answer(k) = nullopt THEN nullopt ELSE @]
      /\ last' = last /\ clock' = clock /\ phase' = phase /\ setBack' = setBack
      /\ got' = Expiring!Answer(k)
  BY DEF Expiring!get
<1>2. /\ cache' \in [KVKeys -> Timed \cup {nullopt}]
      /\ got' \in StoredValues \cup {nullopt}
  BY <1>1, Answers DEF CacheInv
<1>3. ASSUME NEW j \in KVKeys
      PROVE  InTime(cache'[j], last'[j], clock', phase', setBack')
  <2>1. cache'[j] = cache[j] \/ (j = k /\ cache'[j] = nullopt /\ Expiring!Answer(k) = nullopt)
    BY <1>1 DEF CacheInv
  <2>2. CASE cache'[j] = cache[j]
    BY <1>1, <2>2 DEF CacheInv
  <2>3. CASE j = k /\ cache'[j] = nullopt /\ cache[j] # nullopt /\ Expiring!Answer(k) = nullopt
    <3>1. cache[k].expiryTime < clock
      BY <2>3, Answers
    <3>2. ASSUME last[k].fits
          PROVE  last[k].age > last[k].ttl * P
      <4>1. /\ last[k].age \in Nat /\ last[k].ttl \in Ttls /\ last[k].ttl * P \in Int
            /\ cache[k].expiryTime - clock \in Int /\ cache[k].expiryTime - clock < 0
        <5>1. last[k].age \in Nat /\ last[k].ttl \in Ttls
          BY <2>3, Entry
        <5>2. last[k].ttl \in Int
          BY <5>1, CacheConstants
        <5>3. cache[k].expiryTime \in Int /\ clock \in Int
          BY <2>3, Entry
        <5>4. cache[k].expiryTime - clock \in Int /\ cache[k].expiryTime - clock < 0
          BY <3>1, <5>3
        <5> QED BY <5>1, <5>2, <5>4, Products
      <4>2. ~(last[k].age <= last[k].ttl * P)
        <5>1. /\ phase \in 0 .. P - 1 /\ setBack \in BOOLEAN
              /\ Timely(cache[k].expiryTime - clock, last[k].ttl, last[k].age, phase, setBack)
          BY <2>3, <3>2, Entry
        <5> QED BY <4>1, <5>1, TimelyAnswer
      <4> QED BY <4>1, <4>2
    <3>3. last[k] # nullopt
      BY <2>3, Entry
    <3> QED BY <1>1, <2>3, <3>2, <3>3 DEF InTime
  <2> QED BY <2>1, <2>2, <2>3
<1>4. (\A j \in KVKeys : InTime(cache[j], last[j], clock, phase, setBack))'
  BY <1>3 DEF InTime, Timely, P
<1> QED BY <1>1, <1>2, <1>4 DEF CacheInv, Timed, Puts, P

LEMMA TickStep ==
    ASSUME CacheInv, Expiring!Tick
    PROVE  CacheInv'
<1>1. /\ phase' = (phase + 1) % P /\ clock' = (IF phase' = 0 THEN clock + 1 ELSE clock)
      /\ clock' <= MaxClock /\ cache' = cache /\ setBack' = setBack /\ got' = got
  BY DEF Expiring!Tick, P
<1>2. phase' \in 0 .. P - 1 /\ clock' \in 0 .. MaxClock /\ clock' >= clock /\ clock \in Int
  <2>1. phase' \in 0 .. P - 1
    BY <1>1, NextTick DEF CacheInv
  <2>2. clock \in 0 .. MaxClock /\ MaxClock \in Nat
    BY CacheConstants DEF CacheInv
  <2> QED BY <1>1, <2>1, <2>2
<1>3. ASSUME NEW k \in KVKeys, last[k] # nullopt
      PROVE  /\ last'[k] \in Puts /\ last[k] \in Puts
             /\ last'[k].value = last[k].value /\ last'[k].ttl = last[k].ttl
             /\ last'[k].fits = last[k].fits /\ last'[k].age = last[k].age + 1
  <2>1. last[k] \in Puts
    BY <1>3 DEF CacheInv
  <2>2. last'[k] = [last[k] EXCEPT !.age = @ + 1]
    BY <1>3 DEF Expiring!Tick
  <2> QED BY <2>1, <2>2 DEF Puts
<1>4. \A k \in KVKeys : last[k] = nullopt => last'[k] = nullopt
  BY DEF Expiring!Tick
<1>5. last' \in [KVKeys -> Puts \cup {nullopt}]
  <2>1. DOMAIN last' = KVKeys /\ last' = [k \in KVKeys |-> last'[k]]
    BY DEF Expiring!Tick
  <2>2. \A k \in KVKeys : last'[k] \in Puts \cup {nullopt}
    BY <1>3, <1>4
  <2> QED BY <2>1, <2>2
<1>6. ASSUME NEW k \in KVKeys
      PROVE  InTime(cache'[k], last'[k], clock', phase', setBack')
  <2>1. InTime(cache[k], last[k], clock, phase, setBack)
    BY DEF CacheInv
  <2>2. CASE last[k] = nullopt
    <3>1. last'[k] = nullopt /\ cache'[k] = nullopt
      BY <1>1, <1>4, <2>1, <2>2 DEF InTime
    <3> QED BY <3>1 DEF InTime
  <2>3. CASE last[k] # nullopt
    <3>1. last'[k] # nullopt
      BY <1>3, <2>3, CacheConstants DEF Puts
    <3>2. ASSUME cache'[k] = nullopt, last'[k].fits
          PROVE  last'[k].age > last'[k].ttl * P
      <4>1. last[k].age \in Nat /\ last[k].ttl \in Ttls
        BY <1>3, <2>3 DEF Puts
      <4>2. last[k].age > last[k].ttl * P
        BY <1>1, <1>3, <2>1, <2>3, <3>2 DEF InTime
      <4>3. last[k].ttl * P \in Int
        BY <4>1, CacheConstants, Products
      <4>4. last'[k].ttl = last[k].ttl /\ last'[k].age = last[k].age + 1
        BY <1>3, <2>3
      <4> QED BY <4>1, <4>2, <4>3, <4>4
    <3>3. ASSUME cache'[k] # nullopt
          PROVE  /\ cache'[k].value = last'[k].value
                 /\ last'[k].fits => Timely(cache'[k].expiryTime - clock', last'[k].ttl,
                                            last'[k].age, phase', setBack')
                 /\ ~last'[k].fits => cache'[k].expiryTime
                                         < clock' - (IF setBack' THEN 0 ELSE MaxSetBack)
      <4>1. cache'[k] = cache[k] /\ cache[k] # nullopt
        BY <1>1, <3>3
      <4>2. /\ cache[k].expiryTime \in Int /\ cache[k].value = last[k].value
            /\ phase \in 0 .. P - 1 /\ setBack \in BOOLEAN
            /\ last[k].ttl \in Ttls /\ last[k].age \in Nat
            /\ last[k].fits => Timely(cache[k].expiryTime - clock, last[k].ttl,
                                      last[k].age, phase, setBack)
            /\ ~last[k].fits => cache[k].expiryTime
                                    < clock - (IF setBack THEN 0 ELSE MaxSetBack)
        BY <4>1, Entry
      <4> DEFINE left == cache[k].expiryTime - clock
                 left2 == cache[k].expiryTime - clock'
      <4>3. left \in Int /\ left2 = IF phase' = 0 THEN left - 1 ELSE left
        BY <1>1, <1>2, <4>2
      <4>4. last[k].fits => Timely(left2, last[k].ttl, last[k].age + 1, phase', setBack)
        <5> HIDE DEF left2
        <5>1. ASSUME last[k].fits PROVE Timely(left, last[k].ttl, last[k].age, phase, setBack)
          BY <4>2, <5>1
        <5> HIDE DEF left
        <5> QED BY <1>1, <4>2, <4>3, <5>1, TimelyTick
      <4>5. ~last[k].fits => cache[k].expiryTime
                                 < clock' - (IF setBack THEN 0 ELSE MaxSetBack)
        BY <1>2, <4>2, CacheConstants
      <4> QED BY <1>1, <1>3, <2>3, <4>1, <4>2, <4>4, <4>5
    <3> QED BY <3>1, <3>2, <3>3 DEF InTime
  <2> QED BY <2>2, <2>3
<1>7. (\A j \in KVKeys : InTime(cache[j], last[j], clock, phase, setBack))'
  BY <1>6 DEF InTime, Timely, P
<1>8. setBack' \in BOOLEAN /\ got' \in StoredValues \cup {nullopt}
      /\ cache' \in [KVKeys -> Timed \cup {nullopt}]
  BY <1>1 DEF CacheInv
<1>9. (phase \in 0 .. P - 1)'
  BY <1>2 DEF P
<1> QED BY <1>2, <1>5, <1>7, <1>8, <1>9 DEF CacheInv, Timed, Puts

LEMMA SetBackStep ==
    ASSUME CacheInv, NEW d \in 1 .. MaxSetBack, Expiring!SetBack(d)
    PROVE  CacheInv'
<1>1. /\ setBack = FALSE /\ setBack' = TRUE /\ clock' = clock - d /\ d <= clock
      /\ cache' = cache /\ phase' = phase /\ got' = got /\ last' = last
  BY DEF Expiring!SetBack, CacheInv
<1>2. d \in Nat /\ d <= MaxSetBack /\ clock \in Int /\ clock' \in 0 .. MaxClock
  BY <1>1, CacheConstants DEF CacheInv
<1>3. ASSUME NEW k \in KVKeys
      PROVE  InTime(cache'[k], last'[k], clock', phase', setBack')
  <2>1. CASE cache[k] = nullopt
    BY <1>1, <2>1 DEF CacheInv, InTime
  <2>2. CASE cache[k] # nullopt
    <3> DEFINE left == cache[k].expiryTime - clock
    <3>1. /\ cache[k].expiryTime \in Int /\ cache[k].value = last[k].value
          /\ last[k] # nullopt /\ last[k].ttl \in Ttls /\ last[k].age \in Nat
          /\ phase \in 0 .. P - 1
          /\ last[k].fits => Timely(left, last[k].ttl, last[k].age, phase, FALSE)
          /\ ~last[k].fits => cache[k].expiryTime < clock - MaxSetBack
      BY <1>1, <2>2, Entry
    <3>2. cache[k].expiryTime - clock' = left + d /\ left \in Int
      BY <1>1, <1>2, <3>1
    <3>3. last[k].fits
              => Timely(cache[k].expiryTime - clock', last[k].ttl, last[k].age, phase, TRUE)
      <4> HIDE DEF left
      <4> QED BY <1>2, <3>1, <3>2, TimelySetBack
    <3>4. ~last[k].fits => cache[k].expiryTime < clock' - 0
      BY <1>1, <1>2, <3>1, CacheConstants
    <3> QED BY <1>1, <2>2, <3>1, <3>3, <3>4 DEF InTime
  <2> QED BY <2>1, <2>2
<1>4. (\A j \in KVKeys : InTime(cache[j], last[j], clock, phase, setBack))'
  BY <1>3 DEF InTime, Timely, P
<1> QED BY <1>1, <1>2, <1>4 DEF CacheInv, Timed, Puts, P

LEMMA CacheStep == CacheInv /\ [Next]_vars => CacheInv'
<1>1. ASSUME CacheInv, UNCHANGED expiring
      PROVE  CacheInv'
  BY <1>1 DEF expiring, CacheInv, InTime, Timely, P, Timed, Puts
<1>2. ASSUME CacheInv, Expiring!Next
      PROVE  CacheInv'
  BY <1>2, PutStep, GetStep, TickStep, SetBackStep DEF Expiring!Next
<1> QED BY <1>1, <1>2 DEF Next, vars, RunsLRU, RunsFlight, RunsKV, RunsJavaKV, RunsCache,
                          RunsBroker

(* For any ints as ttls, any width of an int, any resolution of the clock  *)
(* and a clock that is set back by any number of seconds: get answers with *)
(* the last value put.  If its expiry is an int, it does so for the whole  *)
(* ttl, and less than a second longer unless the clock was set back; if it *)
(* is not, never (Microsoft/Cache.cpp, lines 9 to 41).                     *)
THEOREM FoundInTime == Spec => []ExpiresInTime
<1>1. CacheInv => ExpiresInTime
  <2> SUFFICES ASSUME CacheInv PROVE Expiring!ExpiresInTime
    BY DEF ExpiresInTime
  <2>1. Expiring!TypeOK
    BY DEF Expiring!TypeOK, CacheInv, Timed, P
  <2>2. ASSUME NEW k \in KVKeys
        PROVE  IF last[k] = nullopt THEN Expiring!Answer(k) = nullopt
               ELSE /\ Expiring!Answer(k) \in {last[k].value, nullopt}
                    /\ last[k].fits /\ last[k].age <= last[k].ttl * P
                           => Expiring!Answer(k) # nullopt
                    /\ ~setBack /\ last[k].age >= (last[k].ttl + 1) * P
                           => Expiring!Answer(k) = nullopt
                    /\ ~last[k].fits => Expiring!Answer(k) = nullopt
    <3>1. CASE last[k] = nullopt
      BY <3>1, Answers DEF CacheInv, InTime
    <3>2. CASE last[k] # nullopt /\ cache[k] = nullopt
      <4>1. ASSUME last[k].fits PROVE ~(last[k].age <= last[k].ttl * P)
        <5>1. last[k].age \in Nat /\ last[k].ttl \in Ttls
          BY <3>2 DEF CacheInv, Puts
        <5>2. last[k].ttl * P \in Int
          BY <5>1, CacheConstants, Products
        <5>3. last[k].age > last[k].ttl * P
          BY <3>2, <4>1 DEF CacheInv, InTime
        <5> QED BY <5>1, <5>2, <5>3
      <4> QED BY <3>2, <4>1, Answers
    <3>3. CASE last[k] # nullopt /\ cache[k] # nullopt
      <4> DEFINE left == cache[k].expiryTime - clock
      <4>1. /\ cache[k].value = last[k].value
            /\ cache[k].expiryTime \in Int /\ clock \in Int /\ last[k].fits \in BOOLEAN
            /\ last[k].ttl \in Ttls /\ last[k].age \in Nat
            /\ phase \in 0 .. P - 1 /\ setBack \in BOOLEAN
            /\ last[k].fits => Timely(left, last[k].ttl, last[k].age, phase, setBack)
            /\ ~last[k].fits => cache[k].expiryTime
                                    < clock - (IF setBack THEN 0 ELSE MaxSetBack)
        BY <3>3, Entry
      <4>2. left \in Int /\ (left < 0 <=> cache[k].expiryTime < clock)
        BY <4>1
      <4>3. last[k].fits => /\ last[k].age <= last[k].ttl * P => ~(left < 0)
                            /\ ~setBack /\ last[k].age >= (last[k].ttl + 1) * P => left < 0
        <5> HIDE DEF left
        <5> QED BY <4>1, <4>2, TimelyAnswer
      <4>4. ~last[k].fits => cache[k].expiryTime < clock
        BY <4>1, CacheConstants
      <4> HIDE DEF left
      <4> QED BY <3>3, <4>1, <4>2, <4>3, <4>4, Answers
    <3> QED BY <3>1, <3>2, <3>3
  <2> QED BY <2>1, <2>2 DEF Expiring!ExpiresInTime, P
<1> QED BY <1>1, CacheInit, CacheStep, PTL DEF Spec

-----------------------------------------------------------------------------
(* The LRU cache.  The order of its list is not a variable: the invariant  *)
(* says that there is one.                                                 *)
At == Addresses \cup {HeadNode, TailNode}
Heap == [next : [At -> At \cup {Null}], prev : [At -> At \cup {Null}],
         key : [Addresses -> LRUKeys \cup {Null}],
         val : [Addresses -> StoredValues \cup {Null}]]

(* The nodes o[1], ..., o[n] lie between the sentinels in this order.      *)
Linked(h, n, o) ==
    /\ o \in [0 .. n + 1 -> At] /\ o[0] = HeadNode /\ o[n + 1] = TailNode
    /\ \A i, j \in 0 .. n + 1 : o[i] = o[j] => i = j
    /\ \A i \in 0 .. n : h.next[o[i]] = o[i + 1] /\ h.prev[o[i + 1]] = o[i]

(* The order without its node p, and with a at the end.                    *)
Skip(o, n, p) == [i \in 0 .. n |-> IF i < p THEN o[i] ELSE o[i + 1]]
Grown(o, n, a) == [i \in 0 .. n + 2 |-> IF i <= n THEN o[i]
                                        ELSE IF i = n + 1 THEN a ELSE TailNode]

LEMMA ListConstants ==
    /\ Capacity \in Nat \ {0} /\ IsFiniteSet(Addresses)
    /\ Cardinality(Addresses) \in Nat
    /\ HeadNode # TailNode /\ HeadNode # Null /\ TailNode # Null
    /\ HeadNode \notin Addresses /\ TailNode \notin Addresses /\ Null \notin Addresses
    /\ Null \notin LRUKeys /\ Miss \notin StoredValues
<1>1. LRU!IsFiniteSet(Addresses) <=> IsFiniteSet(Addresses)
  BY DEF LRU!IsFiniteSet, IsFiniteSet
<1> QED BY <1>1, StoresAssumption, FS_CardinalityType DEF LRU!ListAssumption

LEMMA Removed ==
    ASSUME NEW h \in Heap, NEW n \in Nat, NEW o, Linked(h, n, o), NEW p \in 1 .. n
    PROVE  LET r == LRU!remove(h, o[p])
           IN  /\ r \in Heap /\ r.key = h.key /\ r.val = h.val
               /\ Linked(r, n - 1, Skip(o, n, p))
<1> DEFINE r == LRU!remove(h, o[p])
           s == Skip(o, n, p)
<1>1. /\ p - 1 \in 0 .. n /\ p \in 0 .. n /\ p + 1 \in 0 .. n + 1 /\ p - 1 \in 0 .. n + 1
      /\ p \in 0 .. n + 1 /\ p - 1 + 1 = p /\ n \in 0 .. n /\ n - 1 + 1 = n /\ p <= n /\ p \in Nat
  OBVIOUS
<1>2. h.prev[o[p]] = o[p - 1] /\ h.next[o[p]] = o[p + 1]
  BY <1>1 DEF Linked
<1>3. o[p - 1] \in At /\ o[p + 1] \in At /\ o[p] \in At
  BY <1>1 DEF Linked
<1>4. r = [h EXCEPT !.next[o[p - 1]] = o[p + 1], !.prev[o[p + 1]] = o[p - 1]]
  BY <1>2 DEF LRU!remove
<1>5. /\ r \in Heap /\ r.key = h.key /\ r.val = h.val
      /\ r.next = [h.next EXCEPT ![o[p - 1]] = o[p + 1]]
      /\ r.prev = [h.prev EXCEPT ![o[p + 1]] = o[p - 1]]
  <2> DEFINE N == [h.next EXCEPT ![o[p - 1]] = o[p + 1]]
             Q == [h.prev EXCEPT ![o[p + 1]] = o[p - 1]]
  <2>1. r = [h EXCEPT !.next = N, !.prev = Q]
    BY <1>4
  <2>2. N \in [At -> At \cup {Null}] /\ Q \in [At -> At \cup {Null}]
    BY <1>3 DEF Heap
  <2> HIDE DEF N, Q
  <2>3. r = [next |-> N, prev |-> Q, key |-> h.key, val |-> h.val]
    BY <2>1 DEF Heap
  <2>4. r \in Heap /\ r.key = h.key /\ r.val = h.val /\ r.next = N /\ r.prev = Q
    BY <2>2, <2>3 DEF Heap
  <2> QED BY <2>4 DEF N, Q
<1> HIDE DEF r
<1>6. s \in [0 .. n -> At]
  <2>1. \A i \in 0 .. n : i \in 0 .. n + 1 /\ i + 1 \in 0 .. n + 1
    OBVIOUS
  <2> QED BY <2>1 DEF Skip, Linked
<1>7. \A i \in 0 .. n : s[i] = IF i < p THEN o[i] ELSE o[i + 1]
  BY DEF Skip
<1>8. s[0] = HeadNode /\ s[n] = TailNode
  <2>1. 0 \in 0 .. n /\ n \in 0 .. n /\ 0 < p /\ ~(n < p)
    OBVIOUS
  <2> QED BY <1>7, <2>1 DEF Linked
<1> HIDE DEF s
<1>9. ASSUME NEW i \in 0 .. n, NEW j \in 0 .. n, s[i] = s[j]
      PROVE  i = j
  <2> DEFINE f(x) == IF x < p THEN x ELSE x + 1
  <2>1. f(i) \in 0 .. n + 1 /\ f(j) \in 0 .. n + 1 /\ (f(i) = f(j) => i = j)
    BY <1>1
  <2>2. s[i] = o[f(i)] /\ s[j] = o[f(j)]
    BY <1>7
  <2> HIDE DEF f
  <2>3. \A x, y \in 0 .. n + 1 : o[x] = o[y] => x = y
    BY DEF Linked
  <2> QED BY <1>9, <2>1, <2>2, <2>3
<1>10. ASSUME NEW i \in 0 .. n - 1
       PROVE  r.next[s[i]] = s[i + 1] /\ r.prev[s[i + 1]] = s[i]
  <2>1. i \in 0 .. n /\ i + 1 \in 0 .. n /\ i + 1 \in 0 .. n + 1 /\ i \in 0 .. n + 1
          /\ i + 1 + 1 \in 0 .. n + 1 /\ i \in Nat
    OBVIOUS
  <2>2. \A x \in 0 .. n : /\ h.next[o[x]] = o[x + 1] /\ h.prev[o[x + 1]] = o[x]
                          /\ o[x] \in At /\ o[x + 1] \in At
    <3>1. \A x \in 0 .. n : x \in 0 .. n + 1 /\ x + 1 \in 0 .. n + 1
      OBVIOUS
    <3> QED BY <3>1 DEF Linked
  <2>3. h.next \in [At -> At \cup {Null}] /\ h.prev \in [At -> At \cup {Null}]
    BY DEF Heap
  <2>4. \A x, y \in 0 .. n + 1 : o[x] = o[y] => x = y
    BY DEF Linked
  <2>5. CASE i + 1 < p
    <3>1. i < p /\ i # p - 1 /\ i + 1 # p + 1
      BY <1>1, <2>1, <2>5
    <3>2. s[i] = o[i] /\ s[i + 1] = o[i + 1]
      BY <1>7, <2>1, <2>5, <3>1
    <3>3. o[i] # o[p - 1] /\ o[i + 1] # o[p + 1]
      BY <1>1, <2>1, <2>4, <3>1
    <3> QED BY <1>5, <2>1, <2>2, <2>3, <3>2, <3>3
  <2>6. CASE i + 1 = p
    <3>1. i < p /\ i = p - 1 /\ ~(i + 1 < p) /\ i + 1 + 1 = p + 1
      BY <1>1, <2>1, <2>6
    <3>2. s[i] = o[p - 1] /\ s[i + 1] = o[p + 1]
      BY <1>7, <2>1, <3>1
    <3> QED BY <1>3, <1>5, <2>3, <3>2
  <2>7. CASE i + 1 > p
    <3>1. ~(i < p) /\ ~(i + 1 < p) /\ i + 1 # p - 1 /\ i + 1 + 1 # p + 1
      BY <1>1, <2>1, <2>7
    <3>2. s[i] = o[i + 1] /\ s[i + 1] = o[i + 1 + 1]
      BY <1>7, <2>1, <3>1
    <3>3. o[i + 1] # o[p - 1] /\ o[i + 1 + 1] # o[p + 1]
      BY <1>1, <2>1, <2>4, <3>1
    <3> QED BY <1>5, <2>1, <2>2, <2>3, <3>2, <3>3
  <2> QED BY <1>1, <2>1, <2>5, <2>6, <2>7
<1>11. Linked(r, n - 1, s)
  BY <1>1, <1>6, <1>8, <1>9, <1>10 DEF Linked
<1> QED BY <1>5, <1>11 DEF r, s

LEMMA Appended ==
    ASSUME NEW h \in Heap, NEW n \in Nat, NEW o, Linked(h, n, o),
           NEW a \in Addresses, \A i \in 0 .. n + 1 : o[i] # a
    PROVE  LET r == LRU!add(h, a)
           IN  /\ r \in Heap /\ r.key = h.key /\ r.val = h.val
               /\ Linked(r, n + 1, Grown(o, n, a))
<1> DEFINE r == LRU!add(h, a)
           g == Grown(o, n, a)
<1>1. /\ n \in 0 .. n /\ n \in 0 .. n + 1 /\ n + 1 \in 0 .. n + 1 /\ n + 1 + 1 = n + 2
      /\ ~(n + 1 <= n) /\ n + 2 # n + 1 /\ ~(n + 2 <= n) /\ n <= n
  OBVIOUS
<1>2. h.prev[TailNode] = o[n] /\ o[n] \in At /\ o[n] # a /\ TailNode \in At /\ a \in At
        /\ a # TailNode /\ o[n] # TailNode
  <2>1. h.prev[TailNode] = o[n] /\ o[n] \in At
    BY <1>1 DEF Linked
  <2>2. o[n] # o[n + 1]
    BY <1>1 DEF Linked
  <2> QED BY <1>1, <2>1, <2>2, ListConstants DEF Linked, At
<1>3. r = [h EXCEPT !.next[a] = TailNode, !.prev[a] = o[n],
                    !.next[o[n]] = a, !.prev[TailNode] = a]
  BY <1>2 DEF LRU!add
<1>4. /\ r \in Heap /\ r.key = h.key /\ r.val = h.val
      /\ r.next = [[h.next EXCEPT ![a] = TailNode] EXCEPT ![o[n]] = a]
      /\ r.prev = [[h.prev EXCEPT ![a] = o[n]] EXCEPT ![TailNode] = a]
  <2> DEFINE N == [[h.next EXCEPT ![a] = TailNode] EXCEPT ![o[n]] = a]
             Q == [[h.prev EXCEPT ![a] = o[n]] EXCEPT ![TailNode] = a]
  <2>1. r = [h EXCEPT !.next = N, !.prev = Q]
    BY <1>3
  <2>2. N \in [At -> At \cup {Null}] /\ Q \in [At -> At \cup {Null}]
    BY <1>2 DEF Heap
  <2> HIDE DEF N, Q
  <2>3. r = [next |-> N, prev |-> Q, key |-> h.key, val |-> h.val]
    BY <2>1 DEF Heap
  <2>4. r \in Heap /\ r.key = h.key /\ r.val = h.val /\ r.next = N /\ r.prev = Q
    BY <2>2, <2>3 DEF Heap
  <2> QED BY <2>4 DEF N, Q
<1> HIDE DEF r
<1>5. \A i \in 0 .. n + 2 : g[i] = IF i <= n THEN o[i] ELSE IF i = n + 1 THEN a ELSE TailNode
  BY DEF Grown
<1>6. g \in [0 .. n + 2 -> At]
  <2>1. \A i \in 0 .. n + 2 : i <= n => i \in 0 .. n + 1
    OBVIOUS
  <2> QED BY <1>2, <2>1 DEF Grown, Linked
<1>7. g[0] = HeadNode /\ g[n + 1] = a /\ g[n + 2] = TailNode /\ \A i \in 0 .. n : g[i] = o[i]
  <2>1. 0 \in 0 .. n + 2 /\ 0 <= n /\ n + 1 \in 0 .. n + 2 /\ n + 2 \in 0 .. n + 2
          /\ \A i \in 0 .. n : i \in 0 .. n + 2 /\ i <= n
    OBVIOUS
  <2> QED BY <1>1, <1>5, <2>1 DEF Linked
<1> HIDE DEF g
<1>8. ASSUME NEW i \in 0 .. n + 2, NEW j \in 0 .. n + 2, g[i] = g[j]
      PROVE  i = j
  <2>1. \A x \in 0 .. n : o[x] # a /\ o[x] # TailNode /\ x \in 0 .. n + 1
    <3>1. \A x \in 0 .. n : x \in 0 .. n + 1 /\ x # n + 1
      OBVIOUS
    <3> QED BY <1>1, <3>1 DEF Linked
  <2>2. i \in 0 .. n \/ i = n + 1 \/ i = n + 2
    OBVIOUS
  <2>3. j \in 0 .. n \/ j = n + 1 \/ j = n + 2
    OBVIOUS
  <2>4. \A x, y \in 0 .. n + 1 : o[x] = o[y] => x = y
    BY DEF Linked
  <2> QED BY <1>2, <1>7, <1>8, <2>1, <2>2, <2>3, <2>4
<1>9. ASSUME NEW i \in 0 .. n + 1
      PROVE  r.next[g[i]] = g[i + 1] /\ r.prev[g[i + 1]] = g[i]
  <2>1. h.next \in [At -> At \cup {Null}] /\ h.prev \in [At -> At \cup {Null}]
    BY DEF Heap
  <2>2. CASE i = n + 1
    BY <1>1, <1>2, <1>4, <1>7, <2>1, <2>2
  <2>3. CASE i = n
    BY <1>1, <1>2, <1>4, <1>7, <2>1, <2>3
  <2>4. CASE i \in 0 .. n - 1
    <3>1. i \in 0 .. n /\ i + 1 \in 0 .. n /\ i \in 0 .. n + 1 /\ i + 1 \in 0 .. n + 1
            /\ i # n /\ i + 1 # n + 1
      BY <2>4
    <3>2. o[i] # o[n] /\ o[i + 1] # TailNode /\ o[i] # a /\ o[i + 1] # a
            /\ o[i] \in At /\ o[i + 1] \in At
      BY <1>1, <3>1 DEF Linked
    <3>3. h.next[o[i]] = o[i + 1] /\ h.prev[o[i + 1]] = o[i]
      BY <3>1 DEF Linked
    <3> QED BY <1>4, <1>7, <2>1, <3>1, <3>2, <3>3
  <2> QED BY <2>2, <2>3, <2>4
<1>10. Linked(r, n + 1, g)
  <2>1. n + 1 + 1 = n + 2
    OBVIOUS
  <2> QED BY <2>1, <1>6, <1>7, <1>8, <1>9 DEF Linked
<1> QED BY <1>4, <1>10 DEF r, g

(* The nodes of the list are those that hold entries.                      *)
InOrder(h, n, o) ==
    /\ Linked(h, n, o)
    /\ \A a \in Addresses : h.key[a] # Null <=> \E i \in 1 .. n : o[i] = a

(* Since its own last use the later ones in the list were used, and no     *)
(* other of them, the key k left aside.                                    *)
Recent(key, n, o, used, k) ==
    \A i \in 1 .. n : \A c \in LRUKeys \ {k} :
        c \in used[key[o[i]]] <=> \E j \in i + 1 .. n : key[o[j]] = c

LEMMA Between ==
    ASSUME NEW h, NEW n \in Nat, NEW o, Linked(h, n, o), NEW i \in 1 .. n
    PROVE  o[i] \in Addresses /\ o[i] # HeadNode /\ o[i] # TailNode
<1>1. i \in 0 .. n + 1 /\ 0 \in 0 .. n + 1 /\ n + 1 \in 0 .. n + 1 /\ i # 0 /\ i # n + 1
  OBVIOUS
<1>2. o[i] \in At /\ o[i] # o[0] /\ o[i] # o[n + 1]
  BY <1>1 DEF Linked
<1> QED BY <1>2 DEF Linked, At

LEMMA SkipRecent ==
    ASSUME NEW n \in Nat, NEW o, NEW p \in 1 .. n, NEW key, NEW used,
           Recent(key, n, o, used, Null)
    PROVE  Recent(key, n - 1, Skip(o, n, p), used, key[o[p]])
<1> DEFINE s == Skip(o, n, p)
           f(i) == IF i < p THEN i ELSE i + 1
<1>1. ASSUME NEW i \in 1 .. n - 1
      PROVE  s[i] = o[f(i)] /\ f(i) \in 1 .. n /\ f(i) # p
  <2>1. i \in 0 .. n
    OBVIOUS
  <2>2. s[i] = o[f(i)]
    BY <2>1 DEF Skip
  <2> HIDE DEF s
  <2> QED BY <2>2
<1>2. ASSUME NEW j \in 1 .. n, j # p
      PROVE  \E m \in 1 .. n - 1 : f(m) = j
  <2>1. CASE j < p
    <3>1. j \in 1 .. n - 1 /\ f(j) = j
      BY <2>1
    <3> QED BY <3>1
  <2>2. CASE j > p
    <3>1. j - 1 \in 1 .. n - 1 /\ f(j - 1) = j
      BY <2>2
    <3> QED BY <3>1
  <2> QED BY <1>2, <2>1, <2>2
<1>3. \A i, j \in 1 .. n - 1 : f(j) \in f(i) + 1 .. n <=> j \in i + 1 .. n - 1
  OBVIOUS
<1>4. SUFFICES ASSUME NEW i \in 1 .. n - 1, NEW c \in LRUKeys \ {key[o[p]]}
               PROVE  c \in used[key[s[i]]] <=> \E j \in i + 1 .. n - 1 : key[s[j]] = c
  BY DEF Recent
<1> HIDE DEF s
<1>5. c # Null
  BY ListConstants
<1>6. c \in used[key[s[i]]] <=> \E j \in f(i) + 1 .. n : key[o[j]] = c
  BY <1>1, <1>5 DEF Recent
<1>7. ASSUME NEW j \in f(i) + 1 .. n, key[o[j]] = c
      PROVE  \E m \in i + 1 .. n - 1 : key[s[m]] = c
  <2>1. j # p /\ j \in 1 .. n
    BY <1>1, <1>7
  <2>2. PICK m \in 1 .. n - 1 : f(m) = j
    BY <1>2, <2>1
  <2>3. m \in i + 1 .. n - 1
    BY <1>3, <2>2
  <2>4. s[m] = o[j]
    BY <1>1, <2>2
  <2> QED BY <1>7, <2>3, <2>4
<1>8. ASSUME NEW j \in i + 1 .. n - 1, key[s[j]] = c
      PROVE  \E m \in f(i) + 1 .. n : key[o[m]] = c
  <2>1. j \in 1 .. n - 1
    OBVIOUS
  <2>2. f(j) \in f(i) + 1 .. n
    BY <1>3, <2>1
  <2> HIDE DEF f
  <2> QED BY <1>1, <1>8, <2>1, <2>2
<1> HIDE DEF f
<1> QED BY <1>6, <1>7, <1>8

(* The first node is the least recently used: no other key in the list was *)
(* used before it.                                                         *)
LEMMA SkipFirst ==
    ASSUME NEW n \in Nat \ {0}, NEW o, NEW key, NEW used, NEW k,
           Recent(key, n, o, used, Null),
           \A i, j \in 1 .. n : key[o[i]] = key[o[j]] => i = j
    PROVE  Recent(key, n - 1, Skip(o, n, 1), used, k)
<1> DEFINE s == Skip(o, n, 1)
<1>1. 1 \in 1 .. n
  OBVIOUS
<1>2. Recent(key, n - 1, s, used, key[o[1]])
  BY <1>1, SkipRecent
<1>3. \A i \in 1 .. n - 1 : s[i] = o[i + 1] /\ i + 1 \in 1 .. n /\ i + 1 # 1
  <2>1. \A i \in 1 .. n - 1 : i \in 0 .. n /\ ~(i < 1) /\ i + 1 \in 1 .. n /\ i + 1 # 1
    OBVIOUS
  <2> QED BY <2>1 DEF Skip
<1> HIDE DEF s
<1>4. ASSUME NEW i \in 1 .. n - 1, NEW c \in LRUKeys, c = key[o[1]]
      PROVE  c \notin used[key[s[i]]] /\ ~\E j \in i + 1 .. n - 1 : key[s[j]] = c
  <2>1. \A j \in 1 .. n - 1 : key[s[j]] # c
    BY <1>1, <1>3, <1>4
  <2>2. \A j \in i + 1 + 1 .. n : j \in 1 .. n /\ j # 1
    OBVIOUS
  <2>3. \A j \in i + 1 + 1 .. n : key[o[j]] # c
    BY <1>1, <1>4, <2>2
  <2>4. c # Null
    BY ListConstants
  <2>5. c \notin used[key[o[i + 1]]]
    BY <1>3, <2>3, <2>4 DEF Recent
  <2>6. \A j \in i + 1 .. n - 1 : j \in 1 .. n - 1
    OBVIOUS
  <2> QED BY <1>3, <2>1, <2>5, <2>6
<1>5. SUFFICES ASSUME NEW i \in 1 .. n - 1, NEW c \in LRUKeys \ {k}
               PROVE  c \in used[key[s[i]]] <=> \E j \in i + 1 .. n - 1 : key[s[j]] = c
  BY DEF Recent, s
<1> QED BY <1>2, <1>4 DEF Recent

Use(used, k) == [j \in LRUKeys |-> IF j = k THEN {} ELSE used[j] \cup {k}]

LEMMA GrownRecent ==
    ASSUME NEW n \in Nat, NEW o, NEW key, NEW used, NEW k \in LRUKeys, NEW a,
           Recent(key, n, o, used, k), key[a] = k,
           \A i \in 1 .. n : key[o[i]] \in LRUKeys \ {k}
    PROVE  Recent(key, n + 1, Grown(o, n, a), Use(used, k), Null)
<1> DEFINE g == Grown(o, n, a)
<1>1. g[n + 1] = a /\ \A i \in 1 .. n : g[i] = o[i]
  <2>1. n + 1 \in 0 .. n + 2 /\ ~(n + 1 <= n) /\ \A i \in 1 .. n : i \in 0 .. n + 2 /\ i <= n
    OBVIOUS
  <2> QED BY <2>1 DEF Grown
<1> HIDE DEF g
<1>2. SUFFICES ASSUME NEW i \in 1 .. n + 1, NEW c \in LRUKeys
               PROVE  c \in Use(used, k)[key[g[i]]]
                          <=> \E j \in i + 1 .. n + 1 : key[g[j]] = c
  BY DEF Recent, g
<1>3. CASE i = n + 1
  <2>1. i + 1 .. n + 1 = {}
    BY <1>3
  <2> QED BY <1>1, <1>3, <2>1 DEF Use
<1>4. CASE i \in 1 .. n
  <2>1. key[g[i]] \in LRUKeys \ {k}
    BY <1>1, <1>4
  <2>2. Use(used, k)[key[g[i]]] = used[key[o[i]]] \cup {k}
    BY <1>1, <1>4, <2>1 DEF Use
  <2>3. n + 1 \in i + 1 .. n + 1 /\ \A j \in i + 1 .. n : j \in i + 1 .. n + 1 /\ j \in 1 .. n
    BY <1>4
  <2>4. \A j \in i + 1 .. n + 1 : j = n + 1 \/ (j \in i + 1 .. n /\ j \in 1 .. n)
    BY <1>4
  <2>5. CASE c = k
    BY <1>1, <2>2, <2>3, <2>5
  <2>6. CASE c # k
    <3>1. c \in used[key[o[i]]] <=> \E j \in i + 1 .. n : key[o[j]] = c
      BY <1>4, <2>6 DEF Recent
    <3> QED BY <1>1, <2>2, <2>3, <2>4, <2>6, <3>1
  <2> QED BY <2>5, <2>6
<1> QED BY <1>3, <1>4

(* A node that is appended becomes the most recently used.                 *)
LEMMA UsedLast ==
    ASSUME NEW h \in Heap, NEW n \in Nat, NEW o, Linked(h, n, o),
           NEW used, NEW k \in LRUKeys, NEW a \in Addresses, h.key[a] = k,
           \A b \in Addresses : h.key[b] # Null <=> b = a \/ \E i \in 1 .. n : o[i] = b,
           \A i \in 1 .. n : o[i] # a /\ h.key[o[i]] # k,
           Recent(h.key, n, o, used, k),
           NEW r, r = LRU!add(h, a)
    PROVE  /\ r \in Heap /\ r.key = h.key /\ r.val = h.val
           /\ \E m \in Nat : \E s : /\ InOrder(r, m, s)
                                    /\ Recent(r.key, m, s, Use(used, k), Null)
<1> DEFINE g == Grown(o, n, a)
<1>1. \A i \in 0 .. n + 1 : o[i] # a
  <2>1. \A i \in 0 .. n + 1 : i = 0 \/ i = n + 1 \/ i \in 1 .. n
    OBVIOUS
  <2> QED BY <2>1, ListConstants DEF Linked
<1>2. r \in Heap /\ r.key = h.key /\ r.val = h.val /\ Linked(r, n + 1, g)
  BY <1>1, Appended
<1>3. \A i \in 1 .. n : h.key[o[i]] \in LRUKeys \ {k}
  <2>1. \A i \in 1 .. n : o[i] \in Addresses
    BY Between
  <2>2. h.key \in [Addresses -> LRUKeys \cup {Null}]
    BY DEF Heap
  <2> QED BY <2>1, <2>2
<1>4. Recent(h.key, n + 1, g, Use(used, k), Null)
  BY <1>3, GrownRecent
<1>5. g[n + 1] = a /\ \A i \in 1 .. n : g[i] = o[i]
  <2>1. n + 1 \in 0 .. n + 2 /\ ~(n + 1 <= n) /\ \A i \in 1 .. n : i \in 0 .. n + 2 /\ i <= n
    OBVIOUS
  <2> QED BY <2>1 DEF Grown
<1>6. \A b : (\E i \in 1 .. n + 1 : g[i] = b) <=> b = a \/ \E i \in 1 .. n : o[i] = b
  <2>1. n + 1 \in 1 .. n + 1 /\ \A i \in 1 .. n : i \in 1 .. n + 1
    OBVIOUS
  <2>2. \A i \in 1 .. n + 1 : i = n + 1 \/ i \in 1 .. n
    OBVIOUS
  <2> HIDE DEF g
  <2> QED BY <1>5, <2>1, <2>2
<1>7. InOrder(r, n + 1, g)
  BY <1>2, <1>6 DEF InOrder
<1>8. n + 1 \in Nat
  OBVIOUS
<1> HIDE DEF g
<1> QED BY <1>2, <1>4, <1>7, <1>8

(* Map and list agree, and the values are those last put.                  *)
Matching(h, m, l) ==
    /\ \A a \in Addresses : h.key[a] # Null =>
           /\ m[h.key[a]] = a
           /\ h.val[a] = l[h.key[a]] /\ h.val[a] \in StoredValues
    /\ \A k \in LRUKeys : m[k] # Null => h.key[m[k]] = k

Mapped(m) == {k \in LRUKeys : m[k] # Null}

(* Keys without an entry were never put, or enough others used since.      *)
Forgotten(m, l, used) ==
    \A k \in LRUKeys : m[k] = Null => l[k] = Miss \/ Cardinality(used[k]) >= Capacity

ListTypes == /\ nodes \in Heap /\ mp \in [LRUKeys -> Addresses \cup {Null}]
             /\ result \in StoredValues \cup {Miss} /\ alive \in BOOLEAN
             /\ latest \in [LRUKeys -> StoredValues \cup {Miss}]
             /\ usedSince \in [LRUKeys -> SUBSET LRUKeys]
             /\ \A k \in LRUKeys : IsFiniteSet(usedSince[k])

Listed(h, m, l, used) ==
    /\ Matching(h, m, l)
    /\ IsFiniteSet(Mapped(m)) /\ Cardinality(Mapped(m)) <= Capacity
    /\ Forgotten(m, l, used)
    /\ \E n \in Nat : \E o : InOrder(h, n, o) /\ Recent(h.key, n, o, used, Null)

ListInv ==
    /\ ListTypes
    /\ alive => Listed(nodes, mp, latest, usedSince)
    /\ ~alive => \A a \in Addresses : nodes.key[a] = Null

LEMMA ListNext ==
    ASSUME ListTypes', alive' => Listed(nodes', mp', latest', usedSince'),
           ~alive' => \A a \in Addresses : nodes'.key[a] = Null
    PROVE  ListInv'
BY DEF ListInv, Listed, Matching, Mapped, Forgotten, InOrder, Linked, Recent

LEMMA SizeIsMapped == LRU!Size = Cardinality(Mapped(mp))
<1>1. \A S : LRU!Cardinality(S) = Cardinality(S)
  BY DEF LRU!Cardinality, Cardinality
<1> QED BY <1>1 DEF LRU!Size, Mapped

LEMMA PolicyCardinality == \A S : LRU!Policy!Cardinality(S) = Cardinality(S)
BY DEF LRU!Policy!Cardinality, Cardinality

(* Different nodes hold different keys.                                    *)
LEMMA KeysDiffer ==
    ASSUME NEW h \in Heap, NEW m, NEW l, Matching(h, m, l), NEW n \in Nat, NEW o, InOrder(h, n, o)
    PROVE  /\ \A i \in 1 .. n : /\ o[i] \in Addresses /\ h.key[o[i]] \in LRUKeys
                                /\ m[h.key[o[i]]] = o[i]
           /\ \A i, j \in 1 .. n : h.key[o[i]] = h.key[o[j]] => i = j
<1>1. ASSUME NEW i \in 1 .. n
      PROVE  /\ o[i] \in Addresses /\ h.key[o[i]] \in LRUKeys
             /\ m[h.key[o[i]]] = o[i]
  <2>1. o[i] \in Addresses
    BY Between DEF InOrder
  <2>2. h.key[o[i]] # Null
    BY <2>1 DEF InOrder
  <2> QED BY <2>1, <2>2 DEF Heap, Matching
<1>2. ASSUME NEW i \in 1 .. n, NEW j \in 1 .. n, h.key[o[i]] = h.key[o[j]]
      PROVE  i = j
  <2>1. o[i] = o[j]
    BY <1>1, <1>2
  <2>2. i \in 0 .. n + 1 /\ j \in 0 .. n + 1
    OBVIOUS
  <2> QED BY <2>1, <2>2 DEF InOrder, Linked
<1> QED BY <1>1, <1>2

(* The node of a key has a place in the list, and later nodes hold the     *)
(* keys used since; there are fewer of these than entries.                 *)
LEMMA PlaceOf ==
    ASSUME ListInv, alive, NEW k \in LRUKeys, mp[k] # Null,
           NEW n \in Nat, NEW o, InOrder(nodes, n, o),
           Recent(nodes.key, n, o, usedSince, Null)
    PROVE  /\ \E p \in 1 .. n : o[p] = mp[k]
           /\ nodes.key[mp[k]] = k /\ mp[k] \in Addresses
           /\ nodes.val[mp[k]] = latest[k] /\ latest[k] \in StoredValues
           /\ Cardinality(usedSince[k]) < Capacity
<1>1. mp[k] \in Addresses /\ nodes.key[mp[k]] = k
  BY DEF ListInv, ListTypes, Listed, Matching
<1>2. nodes.key[mp[k]] # Null
  BY <1>1, ListConstants
<1>3. PICK p \in 1 .. n : o[p] = mp[k]
  BY <1>1, <1>2 DEF InOrder
<1>4. nodes.val[mp[k]] = latest[k] /\ latest[k] \in StoredValues
  BY <1>1, <1>2 DEF ListInv, Listed, Matching
<1>5. usedSince[k] \subseteq Mapped(mp) \ {k}
  <2>1. SUFFICES ASSUME NEW c \in usedSince[k] PROVE c \in Mapped(mp) /\ c # k
    OBVIOUS
  <2>2. c \in LRUKeys /\ c # Null
    BY ListConstants DEF ListInv, ListTypes
  <2>3. PICK j \in p + 1 .. n : nodes.key[o[j]] = c
    BY <1>1, <1>3, <2>2 DEF Recent
  <2>4. j \in 1 .. n /\ j # p
    OBVIOUS
  <2>5. mp[c] = o[j] /\ o[j] \in Addresses /\ c # k
    BY <1>1, <1>3, <2>3, <2>4, KeysDiffer DEF ListInv, Listed, ListTypes
  <2> QED BY <2>2, <2>5, ListConstants DEF Mapped
<1>6. k \in Mapped(mp) /\ IsFiniteSet(Mapped(mp)) /\ Cardinality(Mapped(mp)) <= Capacity
  BY DEF Mapped, ListInv, Listed
<1>7. /\ IsFiniteSet(Mapped(mp) \ {k})
      /\ Cardinality(Mapped(mp) \ {k}) = Cardinality(Mapped(mp)) - 1
  BY <1>6, FS_RemoveElement
<1>8. Cardinality(usedSince[k]) <= Cardinality(Mapped(mp) \ {k})
  BY <1>5, <1>7, FS_Subset
<1>9. Cardinality(usedSince[k]) \in Nat /\ Cardinality(Mapped(mp)) \in Nat
  BY <1>6, FS_CardinalityType DEF ListInv, ListTypes
<1>10. Cardinality(usedSince[k]) < Capacity
  BY <1>6, <1>7, <1>8, <1>9, ListConstants
<1> QED BY <1>1, <1>3, <1>4, <1>10

(* What a use does to the history.                                         *)
LEMMA UseKept ==
    ASSUME ListTypes, NEW k \in LRUKeys, NEW u, u = Use(usedSince, k)
    PROVE  /\ u \in [LRUKeys -> SUBSET LRUKeys]
           /\ \A c \in LRUKeys : IsFiniteSet(u[c])
           /\ \A c \in LRUKeys \ {k} : Cardinality(usedSince[c]) <= Cardinality(u[c])
<1>1. \A c \in LRUKeys : u[c] = IF c = k THEN {} ELSE usedSince[c] \cup {k}
  BY DEF Use
<1>2. u \in [LRUKeys -> SUBSET LRUKeys]
  BY DEF Use, ListTypes
<1>3. ASSUME NEW c \in LRUKeys
      PROVE  IsFiniteSet(u[c])
  <2>1. IsFiniteSet(usedSince[c] \cup {k})
    BY FS_AddElement DEF ListTypes
  <2> QED BY <1>1, <2>1, FS_EmptySet
<1>4. ASSUME NEW c \in LRUKeys \ {k}
      PROVE  Cardinality(usedSince[c]) <= Cardinality(u[c])
  <2>1. usedSince[c] \subseteq u[c]
    BY <1>1
  <2> QED BY <1>3, <2>1, FS_Subset
<1> QED BY <1>2, <1>3, <1>4

Revalued(h, a, v) == [h EXCEPT !.val[a] = v]

(* The list with the node of k moved to the end.                           *)
LEMMA Touched ==
    ASSUME ListInv, alive, NEW k \in LRUKeys, mp[k] # Null,
           NEW g, \/ g = LRU!remove(nodes, mp[k])
                  \/ \E v \in StoredValues : g = Revalued(LRU!remove(nodes, mp[k]), mp[k], v),
           NEW r, r = LRU!add(g, mp[k])
    PROVE  /\ r \in Heap /\ r.key = nodes.key /\ r.val = g.val
           /\ \E m \in Nat : \E s : /\ InOrder(r, m, s)
                                    /\ Recent(r.key, m, s, Use(usedSince, k), Null)
<1>n. PICK n \in Nat : \E o : InOrder(nodes, n, o) /\ Recent(nodes.key, n, o, usedSince, Null)
  BY DEF ListInv, Listed
<1>1. PICK o : InOrder(nodes, n, o) /\ Recent(nodes.key, n, o, usedSince, Null)
  BY <1>n
<1>2. PICK p \in 1 .. n : o[p] = mp[k]
  BY <1>1, PlaceOf
<1>3. nodes.key[mp[k]] = k /\ mp[k] \in Addresses /\ nodes \in Heap
  BY <1>1, PlaceOf DEF ListInv, ListTypes
<1> DEFINE h == LRU!remove(nodes, o[p])
           s == Skip(o, n, p)
<1>4. h \in Heap /\ h.key = nodes.key /\ h.val = nodes.val /\ Linked(h, n - 1, s)
  BY <1>1, <1>3, Removed DEF InOrder
<1>5. Recent(nodes.key, n - 1, s, usedSince, k)
  BY <1>1, <1>2, <1>3, SkipRecent
<1> HIDE DEF h
<1>6. g \in Heap /\ g.key = nodes.key /\ g.next = h.next /\ g.prev = h.prev
  <2>1. CASE g = h
    BY <1>4, <2>1
  <2>2. CASE \E v \in StoredValues : g = Revalued(h, mp[k], v)
    <3>1. PICK v \in StoredValues : g = [h EXCEPT !.val[mp[k]] = v]
      BY <2>2 DEF Revalued
    <3> DEFINE V == [h.val EXCEPT ![mp[k]] = v]
    <3>2. V \in [Addresses -> StoredValues \cup {Null}] /\ g = [h EXCEPT !.val = V]
      BY <1>4, <3>1 DEF Heap
    <3> HIDE DEF V
    <3>3. g = [next |-> h.next, prev |-> h.prev, key |-> h.key, val |-> V]
      BY <1>4, <3>2 DEF Heap
    <3> QED BY <1>4, <3>2, <3>3 DEF Heap
  <2> QED BY <1>2, <2>1, <2>2 DEF h
<1>7. Linked(g, n - 1, s) /\ n - 1 \in Nat
  BY <1>4, <1>6 DEF Linked
<1>8. \A i \in 1 .. n - 1 : \E j \in 1 .. n : j # p /\ s[i] = o[j]
  <2>1. ASSUME NEW i \in 1 .. n - 1
        PROVE  \E j \in 1 .. n : j # p /\ s[i] = o[j]
    <3>1. i \in 0 .. n /\ (i < p => i \in 1 .. n /\ i # p)
            /\ (~(i < p) => i + 1 \in 1 .. n /\ i + 1 # p)
      OBVIOUS
    <3> QED BY <3>1 DEF Skip
  <2> QED BY <2>1
<1>9. \A j \in 1 .. n : j # p => \E i \in 1 .. n - 1 : s[i] = o[j]
  <2>1. ASSUME NEW j \in 1 .. n, j # p
        PROVE  \E i \in 1 .. n - 1 : s[i] = o[j]
    <3>1. CASE j < p
      <4>1. j \in 1 .. n - 1 /\ j \in 0 .. n
        BY <3>1
      <4> QED BY <3>1, <4>1 DEF Skip
    <3>2. CASE j > p
      <4>1. j - 1 \in 1 .. n - 1 /\ j - 1 \in 0 .. n /\ ~(j - 1 < p) /\ j - 1 + 1 = j
        BY <3>2
      <4> QED BY <4>1 DEF Skip
    <3> QED BY <2>1, <3>1, <3>2
  <2> QED BY <2>1
<1> HIDE DEF s
<1>10. \A i \in 1 .. n - 1 : s[i] # mp[k] /\ g.key[s[i]] # k
  BY <1>1, <1>2, <1>3, <1>6, <1>8, KeysDiffer DEF ListInv, Listed
<1>11. \A b \in Addresses : g.key[b] # Null <=> b = mp[k] \/ \E i \in 1 .. n - 1 : s[i] = b
  BY <1>1, <1>2, <1>6, <1>8, <1>9 DEF InOrder
<1>12. Recent(g.key, n - 1, s, usedSince, k) /\ g.key[mp[k]] = k
  BY <1>3, <1>5, <1>6
<1>13. /\ r \in Heap /\ r.key = g.key /\ r.val = g.val
       /\ \E m \in Nat : \E x : /\ InOrder(r, m, x)
                                /\ Recent(r.key, m, x, Use(usedSince, k), Null)
  <2> DEFINE q == n - 1
  <2>1. Linked(g, q, s) /\ q \in Nat /\ g \in Heap /\ mp[k] \in Addresses
    BY <1>3, <1>6, <1>7
  <2>2. \A i \in 1 .. q : s[i] # mp[k] /\ g.key[s[i]] # k
    BY <1>10
  <2>3. \A b \in Addresses : g.key[b] # Null <=> b = mp[k] \/ \E i \in 1 .. q : s[i] = b
    BY <1>11
  <2>4. Recent(g.key, q, s, usedSince, k)
    BY <1>12
  <2>5. g.key[mp[k]] = k
    BY <1>12
  <2> HIDE DEF q
  <2> QED BY ONLY k \in LRUKeys, r = LRU!add(g, mp[k]), <2>1, <2>2, <2>3, <2>4, <2>5,
                  UsedLast
<1> QED BY <1>6, <1>13

(* A new node at the end of the list.                                      *)
LEMMA Inserted ==
    ASSUME NEW h \in Heap, NEW n \in Nat, NEW o, InOrder(h, n, o),
           NEW used, NEW k \in LRUKeys, NEW v \in StoredValues,
           NEW a \in Addresses, h.key[a] = Null,
           \A i \in 1 .. n : h.key[o[i]] # k,
           Recent(h.key, n, o, used, k),
           NEW r, r = LRU!add(LRU!construct(h, a, k, v), a)
    PROVE  /\ r \in Heap
           /\ r.key = [h.key EXCEPT ![a] = k] /\ r.val = [h.val EXCEPT ![a] = v]
           /\ \E m \in Nat : \E s : /\ InOrder(r, m, s)
                                    /\ Recent(r.key, m, s, Use(used, k), Null)
<1>g. PICK g : g = LRU!construct(h, a, k, v)
  OBVIOUS
<1>1. /\ g \in Heap
      /\ g.key = [h.key EXCEPT ![a] = k] /\ g.val = [h.val EXCEPT ![a] = v]
      /\ g.next = [h.next EXCEPT ![a] = Null] /\ g.prev = [h.prev EXCEPT ![a] = Null]
  <2> DEFINE N == [h.next EXCEPT ![a] = Null]  Q == [h.prev EXCEPT ![a] = Null]
             K == [h.key EXCEPT ![a] = k]      V == [h.val EXCEPT ![a] = v]
  <2>1. g = [h EXCEPT !.key = K, !.val = V, !.next = N, !.prev = Q]
    BY <1>g DEF LRU!construct
  <2>2. /\ N \in [At -> At \cup {Null}] /\ Q \in [At -> At \cup {Null}]
        /\ K \in [Addresses -> LRUKeys \cup {Null}] /\ V \in [Addresses -> StoredValues \cup {Null}]
    BY DEF Heap
  <2> HIDE DEF N, Q, K, V
  <2>3. g = [next |-> N, prev |-> Q, key |-> K, val |-> V]
    BY <2>1 DEF Heap
  <2>4. g \in Heap /\ g.key = K /\ g.val = V /\ g.next = N /\ g.prev = Q
    BY <2>2, <2>3 DEF Heap
  <2> QED BY <2>4 DEF N, Q, K, V
<1>r. r = LRU!add(g, a)
  BY <1>g
<1>2. \A i \in 1 .. n : o[i] # a /\ o[i] \in Addresses
  <2>1. \A i \in 1 .. n : o[i] \in Addresses
    BY Between DEF InOrder
  <2> QED BY <2>1 DEF InOrder
<1>3. \A i \in 0 .. n + 1 : o[i] # a /\ o[i] \in At
  <2>1. \A i \in 0 .. n + 1 : i = 0 \/ i = n + 1 \/ i \in 1 .. n
    OBVIOUS
  <2> QED BY <1>2, <2>1, ListConstants DEF InOrder, Linked
<1>4. Linked(g, n, o)
  <2>1. \A i \in 0 .. n : g.next[o[i]] = o[i + 1] /\ g.prev[o[i + 1]] = o[i]
    <3>1. \A i \in 0 .. n : i \in 0 .. n + 1 /\ i + 1 \in 0 .. n + 1
      OBVIOUS
    <3>2. h.next \in [At -> At \cup {Null}] /\ h.prev \in [At -> At \cup {Null}]
      BY DEF Heap
    <3>3. \A i \in 0 .. n : h.next[o[i]] = o[i + 1] /\ h.prev[o[i + 1]] = o[i]
      BY DEF InOrder, Linked
    <3> QED BY <1>1, <1>3, <3>1, <3>2, <3>3
  <2> QED BY <2>1 DEF InOrder, Linked
<1>5. h.key \in [Addresses -> LRUKeys \cup {Null}]
  BY DEF Heap
<1>6. g.key[a] = k /\ \A i \in 1 .. n : g.key[o[i]] = h.key[o[i]]
  BY <1>1, <1>2, <1>5
<1>7. Recent(g.key, n, o, used, k)
  <2>1. \A i \in 1 .. n : \A j \in i + 1 .. n : j \in 1 .. n
    OBVIOUS
  <2> QED BY <1>6, <2>1 DEF Recent
<1>8. \A b \in Addresses : g.key[b] # Null <=> b = a \/ \E i \in 1 .. n : o[i] = b
  BY <1>1, <1>5, ListConstants DEF InOrder
<1>9. \A i \in 1 .. n : o[i] # a /\ g.key[o[i]] # k
  BY <1>2, <1>6
<1>10. /\ r \in Heap /\ r.key = g.key /\ r.val = g.val
       /\ \E m \in Nat : \E s : /\ InOrder(r, m, s)
                                /\ Recent(r.key, m, s, Use(used, k), Null)
  <2>1. g \in Heap /\ g.key[a] = k
    BY <1>1, <1>6
  <2> QED BY ONLY n \in Nat, k \in LRUKeys, a \in Addresses,
                  <1>r, <2>1, <1>4, <1>7, <1>8, <1>9, UsedLast
<1> QED BY <1>1, <1>10

LEMMA ListInit == Init => ListInv
<1> SUFFICES ASSUME Init PROVE ListInv
  OBVIOUS
<1>1. LRU!Init /\ LRU!Policy!Init
  BY DEF Init, LRU!Init
<1>2. ListTypes
  <2>1. /\ nodes = [next |-> [a \in At |-> IF a = HeadNode THEN TailNode ELSE Null],
                    prev |-> [a \in At |-> IF a = TailNode THEN HeadNode ELSE Null],
                    key  |-> [a \in Addresses |-> Null],
                    val  |-> [a \in Addresses |-> Null]]
        /\ mp = [k \in LRUKeys |-> Null] /\ result = Miss /\ alive = TRUE
        /\ latest = [k \in LRUKeys |-> Miss] /\ usedSince = [k \in LRUKeys |-> {}]
    BY <1>1 DEF LRU!Init, LRU!Policy!Init, At
  <2>2. nodes \in Heap
    BY <2>1 DEF Heap, At
  <2> QED BY <2>1, <2>2, FS_EmptySet DEF ListTypes
<1>3. alive = TRUE /\ mp = [k \in LRUKeys |-> Null]
  BY <1>1 DEF LRU!Init
<1>4. \A a \in Addresses : nodes.key[a] = Null
  BY <1>1 DEF LRU!Init
<1>5. Mapped(mp) = {}
  BY <1>3 DEF Mapped
<1>6. IsFiniteSet(Mapped(mp)) /\ Cardinality(Mapped(mp)) <= Capacity
  BY <1>5, FS_EmptySet, ListConstants
<1>7. Forgotten(mp, latest, usedSince)
  BY <1>1 DEF LRU!Policy!Init, Forgotten
<1>8. Matching(nodes, mp, latest)
  BY <1>3, <1>4 DEF Matching
<1> DEFINE o == [i \in 0 .. 0 + 1 |-> IF i = 0 THEN HeadNode ELSE TailNode]
<1>9. InOrder(nodes, 0, o) /\ Recent(nodes.key, 0, o, usedSince, Null)
  <2>1. \A i \in 0 .. 0 + 1 : i = 0 \/ i = 1
    OBVIOUS
  <2>2. o \in [0 .. 0 + 1 -> At]
    BY DEF At
  <2>3. o[0] = HeadNode /\ o[0 + 1] = TailNode /\ o[1] = TailNode
    OBVIOUS
  <2>4. nodes.next[HeadNode] = TailNode /\ nodes.prev[TailNode] = HeadNode
    BY <1>1 DEF LRU!Init
  <2>5. \A i \in 0 .. 0 : i = 0
    OBVIOUS
  <2>6. 1 .. 0 = {}
    OBVIOUS
  <2> HIDE DEF o
  <2>7. Linked(nodes, 0, o)
    BY <2>1, <2>2, <2>3, <2>4, <2>5, ListConstants DEF Linked
  <2> QED BY <1>4, <2>6, <2>7 DEF InOrder, Recent
<1> HIDE DEF o
<1> QED BY <1>2, <1>3, <1>6, <1>7, <1>8, <1>9 DEF ListInv, Listed

LEMMA PolicyUse == \A k \in LRUKeys : LRU!Policy!Use(k) = Use(usedSince, k)
BY DEF LRU!Policy!Use, Use

(* What is forgotten stays so when other keys are used.                    *)
LEMMA ForgottenKept ==
    ASSUME ListInv, alive, NEW k \in LRUKeys
    PROVE  \A c \in LRUKeys \ {k} :
               mp[c] = Null => \/ latest[c] = Miss
                               \/ Cardinality(Use(usedSince, k)[c]) >= Capacity
<1> DEFINE u == Use(usedSince, k)
<1>1. /\ \A c \in LRUKeys : IsFiniteSet(u[c])
      /\ \A c \in LRUKeys \ {k} : Cardinality(usedSince[c]) <= Cardinality(u[c])
  BY UseKept DEF ListInv
<1> HIDE DEF u
<1>2. SUFFICES ASSUME NEW c \in LRUKeys \ {k}, mp[c] = Null
               PROVE  latest[c] = Miss \/ Cardinality(u[c]) >= Capacity
  BY DEF u
<1>3. latest[c] = Miss \/ Cardinality(usedSince[c]) >= Capacity
  BY <1>2 DEF ListInv, Listed, Forgotten
<1>5. Cardinality(u[c]) \in Nat /\ Cardinality(usedSince[c]) \in Nat /\ Capacity \in Nat
        /\ Cardinality(usedSince[c]) <= Cardinality(u[c])
  BY <1>1, FS_CardinalityType, ListConstants DEF ListInv, ListTypes
<1> QED BY <1>3, <1>5

LEMMA ListGet ==
    ASSUME ListInv, NEW k \in LRUKeys, LRU!get(k)
    PROVE  ListInv' /\ LRU!Policy!Get(k)
<1>1. alive /\ alive' = alive /\ mp' = mp /\ latest' = latest
  BY DEF LRU!get
<1>2. CASE mp[k] = Null
  <2>1. nodes' = nodes /\ usedSince' = usedSince /\ result' = Miss
    BY <1>2 DEF LRU!get
  <2>2. ListInv'
    <3>1. ListTypes'
      BY <1>1, <2>1 DEF ListInv, ListTypes
    <3>2. Listed(nodes', mp', latest', usedSince')
      BY <1>1, <2>1 DEF ListInv
    <3> QED BY <1>1, <3>1, <3>2, ListNext
  <2>3. latest[k] = Miss \/ Cardinality(usedSince[k]) >= Capacity
    BY <1>1, <1>2 DEF ListInv, Listed, Forgotten
  <2>4. Cardinality(usedSince[k]) \in Nat
    BY FS_CardinalityType DEF ListInv, ListTypes
  <2>5. ~LRU!Policy!Found(k)
    BY <2>3, <2>4, ListConstants, PolicyCardinality DEF LRU!Policy!Found
  <2> QED BY <1>1, <2>1, <2>2, <2>5 DEF LRU!Policy!Get
<1>3. CASE mp[k] # Null
  <2>1. /\ nodes' = LRU!add(LRU!remove(nodes, mp[k]), mp[k])
        /\ result' = nodes.val[mp[k]] /\ usedSince' = Use(usedSince, k)
    BY <1>3, PolicyUse DEF LRU!get
  <2>2. /\ nodes.key[mp[k]] = k /\ nodes.val[mp[k]] = latest[k]
        /\ latest[k] \in StoredValues /\ Cardinality(usedSince[k]) < Capacity
    BY <1>1, <1>3, PlaceOf DEF ListInv, Listed
  <2>3. LRU!Policy!Get(k)
    <3>1. LRU!Policy!Found(k)
      BY <2>2, ListConstants, PolicyCardinality DEF LRU!Policy!Found
    <3> QED BY <1>1, <2>1, <2>2, <3>1, PolicyUse DEF LRU!Policy!Get
  <2> DEFINE g == LRU!remove(nodes, mp[k])
  <2>4. /\ nodes' \in Heap /\ nodes'.key = nodes.key /\ nodes'.val = g.val
        /\ \E m \in Nat : \E s : /\ InOrder(nodes', m, s)
                                 /\ Recent(nodes'.key, m, s, Use(usedSince, k), Null)
    BY <1>1, <1>3, <2>1, Touched
  <2>5. g.val = nodes.val
    <3>1. nodes \in Heap
      BY DEF ListInv, ListTypes
    <3> QED BY <3>1 DEF LRU!remove, Heap
  <2>6. Matching(nodes', mp, latest)
    BY <1>1, <2>4, <2>5 DEF ListInv, Listed, Matching
  <2>7. Forgotten(mp, latest, Use(usedSince, k))
    BY <1>1, <1>3, ForgottenKept DEF Forgotten
  <2>8. ListTypes'
    BY <1>1, <2>1, <2>2, <2>4, UseKept DEF ListInv, ListTypes
  <2>9. ListInv'
    <3>1. IsFiniteSet(Mapped(mp)) /\ Cardinality(Mapped(mp)) <= Capacity
      BY <1>1 DEF ListInv, Listed
    <3>2. ListTypes' /\ alive'
      BY <1>1, <2>8
    <3> HIDE DEF ListTypes
    <3>3. Listed(nodes', mp', latest', usedSince')
      BY <1>1, <2>1, <2>4, <2>6, <2>7, <3>1 DEF Listed
    <3> QED BY <3>2, <3>3, ListNext
  <2> QED BY <2>3, <2>9
<1> QED BY <1>2, <1>3

LEMMA ListPutUpdates ==
    ASSUME ListInv, NEW k \in LRUKeys, NEW v \in StoredValues, LRU!putUpdates(k, v)
    PROVE  ListInv' /\ LRU!Policy!Put(k, v)
<1>g. PICK g : g = [LRU!remove(nodes, mp[k]) EXCEPT !.val[mp[k]] = v]
  OBVIOUS
<1>1. /\ alive /\ alive' = alive /\ mp' = mp /\ result' = result /\ mp[k] # Null
      /\ latest' = [latest EXCEPT ![k] = v] /\ usedSince' = Use(usedSince, k)
      /\ nodes' = LRU!add(g, mp[k])
  BY <1>g, PolicyUse DEF LRU!putUpdates
<1>2. LRU!Policy!Put(k, v)
  BY <1>1, PolicyUse DEF LRU!Policy!Put
<1>3. nodes.key[mp[k]] = k /\ mp[k] \in Addresses /\ nodes \in Heap
        /\ latest \in [LRUKeys -> StoredValues \cup {Miss}]
  BY <1>1, PlaceOf DEF ListInv, Listed, ListTypes
<1>4. /\ nodes' \in Heap /\ nodes'.key = nodes.key /\ nodes'.val = g.val
      /\ \E m \in Nat : \E s : /\ InOrder(nodes', m, s)
                               /\ Recent(nodes'.key, m, s, Use(usedSince, k), Null)
  <2>1. \E w \in StoredValues : g = Revalued(LRU!remove(nodes, mp[k]), mp[k], w)
    BY <1>g DEF Revalued
  <2>2. PICK r : r = nodes'
    OBVIOUS
  <2>3. r = LRU!add(g, mp[k])
    BY <1>1, <2>2
  <2>4. /\ r \in Heap /\ r.key = nodes.key /\ r.val = g.val
        /\ \E m \in Nat : \E s : /\ InOrder(r, m, s)
                                 /\ Recent(r.key, m, s, Use(usedSince, k), Null)
    BY <1>1, <2>1, <2>3, Touched
  <2> QED BY <2>2, <2>4
<1>5. g.val = [nodes.val EXCEPT ![mp[k]] = v]
  BY <1>3, <1>g DEF LRU!remove, Heap
<1>6. Matching(nodes', mp, latest')
  <2>1. \A a \in Addresses : nodes'.val[a] = IF a = mp[k] THEN v ELSE nodes.val[a]
    BY <1>3, <1>4, <1>5 DEF Heap
  <2>2. Matching(nodes, mp, latest)
    BY <1>1 DEF ListInv, Listed
  <2>3. \A c \in LRUKeys : latest'[c] = IF c = k THEN v ELSE latest[c]
    BY <1>1, <1>3
  <2>4. ASSUME NEW a \in Addresses, nodes'.key[a] # Null
        PROVE  /\ mp[nodes'.key[a]] = a
               /\ nodes'.val[a] = latest'[nodes'.key[a]] /\ nodes'.val[a] \in StoredValues
    <3>1. nodes'.key[a] = nodes.key[a] /\ nodes.key[a] \in LRUKeys
      BY <1>3, <1>4, <2>4 DEF Heap
    <3>2. mp[nodes.key[a]] = a /\ nodes.val[a] = latest[nodes.key[a]]
            /\ nodes.val[a] \in StoredValues
      BY <2>2, <2>4, <3>1 DEF Matching
    <3> QED BY <1>3, <2>1, <2>3, <3>1, <3>2
  <2> QED BY <1>4, <2>2, <2>4 DEF Matching
<1>7. Forgotten(mp, latest', usedSince')
  BY <1>1, <1>3, ForgottenKept DEF Forgotten
<1>8. ListTypes'
  BY <1>1, <1>3, <1>4, UseKept DEF ListInv, ListTypes
<1>9. Listed(nodes', mp', latest', usedSince')
  <2>1. IsFiniteSet(Mapped(mp)) /\ Cardinality(Mapped(mp)) <= Capacity
    BY <1>1 DEF ListInv, Listed
  <2> QED BY <1>1, <1>4, <1>6, <1>7, <2>1 DEF Listed
<1> QED BY <1>1, <1>2, <1>8, <1>9, ListNext

LEMMA ListPutInserts ==
    ASSUME ListInv, NEW k \in LRUKeys, NEW v \in StoredValues, LRU!putInserts(k, v)
    PROVE  ListInv' /\ LRU!Policy!Put(k, v)
<1>1. /\ alive /\ alive' = alive /\ result' = result /\ mp[k] = Null /\ LRU!Size # Capacity
      /\ latest' = [latest EXCEPT ![k] = v] /\ usedSince' = Use(usedSince, k)
  BY PolicyUse DEF LRU!putInserts
<1>2. PICK a \in Addresses \ LRU!Allocated :
          /\ nodes' = LRU!add(LRU!construct(nodes, a, k, v), a)
          /\ mp' = [mp EXCEPT ![k] = a]
  BY DEF LRU!putInserts
<1>3. LRU!Policy!Put(k, v)
  BY <1>1, PolicyUse DEF LRU!Policy!Put
<1>4. /\ nodes \in Heap /\ mp \in [LRUKeys -> Addresses \cup {Null}] /\ nodes.key[a] = Null
      /\ latest \in [LRUKeys -> StoredValues \cup {Miss}]
      /\ Matching(nodes, mp, latest)
  BY <1>1 DEF ListInv, Listed, ListTypes, LRU!Allocated
<1>n. PICK n \in Nat : \E o : InOrder(nodes, n, o) /\ Recent(nodes.key, n, o, usedSince, Null)
  BY <1>1 DEF ListInv, Listed
<1>5. PICK o : InOrder(nodes, n, o) /\ Recent(nodes.key, n, o, usedSince, Null)
  BY <1>n
<1>6. \A i \in 1 .. n : nodes.key[o[i]] # k
  BY <1>1, <1>4, <1>5, KeysDiffer, ListConstants
<1>7. Recent(nodes.key, n, o, usedSince, k)
  BY <1>5, ListConstants DEF Recent
<1>8. /\ nodes' \in Heap
      /\ nodes'.key = [nodes.key EXCEPT ![a] = k] /\ nodes'.val = [nodes.val EXCEPT ![a] = v]
      /\ \E m \in Nat : \E s : /\ InOrder(nodes', m, s)
                               /\ Recent(nodes'.key, m, s, Use(usedSince, k), Null)
  BY <1>2, <1>4, <1>5, <1>6, <1>7, Inserted
<1>9. Matching(nodes', mp', latest')
  <2>1. /\ nodes.key \in [Addresses -> LRUKeys \cup {Null}]
        /\ nodes.val \in [Addresses -> StoredValues \cup {Null}]
    BY <1>4 DEF Heap
  <2>2. \A b \in Addresses : /\ nodes'.key[b] = IF b = a THEN k ELSE nodes.key[b]
                             /\ nodes'.val[b] = IF b = a THEN v ELSE nodes.val[b]
    BY <1>8, <2>1
  <2>3. \A c \in LRUKeys : /\ latest'[c] = IF c = k THEN v ELSE latest[c]
                           /\ mp'[c] = IF c = k THEN a ELSE mp[c]
    BY <1>1, <1>2, <1>4
  <2>4. ASSUME NEW b \in Addresses, nodes'.key[b] # Null
        PROVE  /\ mp'[nodes'.key[b]] = b
               /\ nodes'.val[b] = latest'[nodes'.key[b]] /\ nodes'.val[b] \in StoredValues
    <3>1. CASE b = a
      BY <2>2, <2>3, <3>1
    <3>2. CASE b # a
      <4>1. nodes.key[b] \in LRUKeys /\ nodes.key[b] # Null /\ nodes'.key[b] = nodes.key[b]
        BY <2>1, <2>2, <2>4, <3>2
      <4>2. mp[nodes.key[b]] = b /\ nodes.val[b] = latest[nodes.key[b]]
              /\ nodes.val[b] \in StoredValues
        BY <1>4, <4>1 DEF Matching
      <4>3. nodes.key[b] # k
        BY <1>1, <4>2, ListConstants
      <4> QED BY <2>2, <2>3, <3>2, <4>1, <4>2, <4>3
    <3> QED BY <3>1, <3>2
  <2>5. ASSUME NEW c \in LRUKeys, mp'[c] # Null
        PROVE  nodes'.key[mp'[c]] = c
    <3>1. CASE c = k
      BY <2>2, <2>3, <3>1
    <3>2. CASE c # k
      <4>1. mp'[c] = mp[c] /\ mp[c] \in Addresses /\ nodes.key[mp[c]] = c
        BY <1>4, <2>3, <2>5, <3>2 DEF Matching
      <4>2. mp[c] # a
        BY <1>4, <4>1, ListConstants
      <4> QED BY <2>2, <4>1, <4>2
    <3> QED BY <3>1, <3>2
  <2> QED BY <2>4, <2>5 DEF Matching
<1>10. IsFiniteSet(Mapped(mp')) /\ Cardinality(Mapped(mp')) <= Capacity
  <2>1. Mapped(mp') = Mapped(mp) \cup {k}
    BY <1>2, <1>4, ListConstants DEF Mapped
  <2>2. IsFiniteSet(Mapped(mp)) /\ Cardinality(Mapped(mp)) <= Capacity
          /\ Cardinality(Mapped(mp)) # Capacity
    BY <1>1, SizeIsMapped DEF ListInv, Listed
  <2>3. k \notin Mapped(mp)
    BY <1>1 DEF Mapped
  <2>4. /\ IsFiniteSet(Mapped(mp'))
        /\ Cardinality(Mapped(mp')) = Cardinality(Mapped(mp)) + 1
    BY <2>1, <2>2, <2>3, FS_AddElement
  <2>5. Cardinality(Mapped(mp)) \in Nat
    BY <2>2, FS_CardinalityType
  <2> QED BY <2>2, <2>4, <2>5, ListConstants
<1>11. Forgotten(mp', latest', usedSince')
  <2>1. \A c \in LRUKeys : mp'[c] = Null => c # k /\ mp[c] = Null /\ latest'[c] = latest[c]
    BY <1>1, <1>2, <1>4, ListConstants
  <2> QED BY <1>1, <2>1, ForgottenKept DEF Forgotten
<1>12. ListTypes'
  BY <1>1, <1>2, <1>4, <1>8, UseKept DEF ListInv, ListTypes
<1>13. Listed(nodes', mp', latest', usedSince')
  BY <1>1, <1>8, <1>9, <1>10, <1>11 DEF Listed
<1> QED BY <1>1, <1>3, <1>12, <1>13, ListNext

(* Every entry has a key of its own, and none has the key k.               *)
Apart(key, n, o, k) == /\ \A i \in 1 .. n : key[o[i]] # k
                       /\ \A i, j \in 1 .. n : key[o[i]] = key[o[j]] => i = j

Cleared(f, a) == [f EXCEPT ![a] = Null]

(* The full cache without its first node.                                  *)
LEMMA Evicted ==
    ASSUME NEW h \in Heap, NEW n \in Nat, n # 0, NEW o, InOrder(h, n, o),
           NEW used, Recent(h.key, n, o, used, Null),
           NEW k \in LRUKeys, Apart(h.key, n, o, k),
           NEW r, r = LRU!delete(LRU!remove(h, o[1]), o[1])
    PROVE  /\ r \in Heap
           /\ r.key = Cleared(h.key, o[1]) /\ r.val = Cleared(h.val, o[1])
           /\ \E s : /\ InOrder(r, n - 1, s) /\ Recent(r.key, n - 1, s, used, k)
                     /\ \A i \in 1 .. n - 1 : r.key[s[i]] # k
<1> DEFINE s == Skip(o, n, 1)
<1>g. PICK g : g = LRU!remove(h, o[1])
  OBVIOUS
<1>1. 1 \in 1 .. n /\ n \in Nat
  OBVIOUS
<1>2. Linked(h, n, o)
  BY DEF InOrder
<1>3. g \in Heap /\ g.key = h.key /\ g.val = h.val /\ Linked(g, n - 1, s)
  BY <1>1, <1>2, <1>g, Removed
<1>4. \A i \in 1 .. n : o[i] \in Addresses
  BY <1>1, <1>2, Between
<1>5. /\ \A i \in 1 .. n : h.key[o[i]] # k
      /\ \A i, j \in 1 .. n : h.key[o[i]] = h.key[o[j]] => i = j
  BY DEF Apart
<1>6. /\ r \in Heap
      /\ r.next = [g.next EXCEPT ![o[1]] = Null] /\ r.prev = [g.prev EXCEPT ![o[1]] = Null]
      /\ r.key = [h.key EXCEPT ![o[1]] = Null] /\ r.val = [h.val EXCEPT ![o[1]] = Null]
  <2> DEFINE K == [h.key EXCEPT ![o[1]] = Null]  V == [h.val EXCEPT ![o[1]] = Null]
             N == [g.next EXCEPT ![o[1]] = Null] Q == [g.prev EXCEPT ![o[1]] = Null]
  <2>1. r = [g EXCEPT !.key = K, !.val = V, !.next = N, !.prev = Q]
    BY <1>3, <1>g DEF LRU!delete
  <2>2. /\ K \in [Addresses -> LRUKeys \cup {Null}] /\ V \in [Addresses -> StoredValues \cup {Null}]
        /\ N \in [At -> At \cup {Null}] /\ Q \in [At -> At \cup {Null}]
    BY <1>3 DEF Heap
  <2> HIDE DEF K, V, N, Q
  <2>3. r = [next |-> N, prev |-> Q, key |-> K, val |-> V]
    BY <1>3, <2>1 DEF Heap
  <2>4. r \in Heap /\ r.key = K /\ r.val = V /\ r.next = N /\ r.prev = Q
    BY <2>2, <2>3 DEF Heap
  <2> QED BY <2>4 DEF K, V, N, Q
<1>7. Linked(r, n - 1, s)
  <2>1. \A i \in 0 .. n : i = 0 \/ (s[i] = o[i + 1] /\ i + 1 \in 0 .. n + 1 /\ i + 1 # 1)
    <3>1. \A i \in 0 .. n : i = 0 \/ (~(i < 1) /\ i + 1 \in 0 .. n + 1 /\ i + 1 # 1)
      OBVIOUS
    <3> QED BY <3>1 DEF Skip
  <2>2. 1 \in 0 .. n + 1 /\ 0 \in 0 .. n + 1 /\ 0 \in 0 .. n - 1 + 1 /\ n - 1 + 1 = n
    OBVIOUS
  <2> HIDE DEF s
  <2>3. \A i \in 0 .. n : s[i] # o[1] /\ s[i] \in At
    BY <1>2, <1>3, <2>1, <2>2 DEF Linked
  <2>4. \A i \in 0 .. n - 1 : i \in 0 .. n /\ i + 1 \in 0 .. n
    OBVIOUS
  <2>5. \A i \in 0 .. n - 1 : g.next[s[i]] = s[i + 1] /\ g.prev[s[i + 1]] = s[i]
    BY <1>3 DEF Linked
  <2>6. g.next \in [At -> At \cup {Null}] /\ g.prev \in [At -> At \cup {Null}]
    BY <1>3 DEF Heap
  <2>7. \A i \in 0 .. n - 1 : r.next[s[i]] = s[i + 1] /\ r.prev[s[i + 1]] = s[i]
    BY <1>6, <2>3, <2>4, <2>5, <2>6
  <2> QED BY <1>3, <2>7 DEF Linked
<1>8. \A i \in 1 .. n - 1 : s[i] = o[i + 1] /\ i + 1 \in 1 .. n /\ i + 1 # 1
  <2>1. \A i \in 1 .. n - 1 : i \in 0 .. n /\ ~(i < 1) /\ i + 1 \in 1 .. n /\ i + 1 # 1
    OBVIOUS
  <2> QED BY <2>1 DEF Skip
<1>9. \A j \in 1 .. n : j # 1 => \E i \in 1 .. n - 1 : s[i] = o[j]
  <2>1. \A j \in 1 .. n : j # 1 => j - 1 \in 1 .. n - 1 /\ j - 1 + 1 = j
    OBVIOUS
  <2> QED BY <1>8, <2>1
<1>10. Recent(h.key, n - 1, s, used, k)
  BY <1>5, SkipFirst
<1> HIDE DEF s
<1>11. \A i, j \in 1 .. n : o[i] = o[j] => i = j
  BY <1>5
<1>12. h.key \in [Addresses -> LRUKeys \cup {Null}]
  BY DEF Heap
<1>13. \A i \in 1 .. n - 1 : r.key[s[i]] = h.key[s[i]] /\ h.key[s[i]] # k
  <2>1. \A i \in 1 .. n - 1 : s[i] \in Addresses /\ s[i] # o[1] /\ h.key[s[i]] # k
    BY <1>1, <1>4, <1>5, <1>8, <1>11
  <2> QED BY <1>6, <1>12, <2>1
<1>14. Recent(r.key, n - 1, s, used, k)
  <2>1. \A i \in 1 .. n - 1 : \A j \in i + 1 .. n - 1 : j \in 1 .. n - 1
    OBVIOUS
  <2> QED BY <1>10, <1>13, <2>1 DEF Recent
<1>15. \A a \in Addresses : r.key[a] # Null <=> \E i \in 1 .. n - 1 : s[i] = a
  <2>1. \A a \in Addresses : r.key[a] # Null <=> a # o[1] /\ h.key[a] # Null
    BY <1>6, <1>12
  <2>2. \A a \in Addresses : h.key[a] # Null <=> \E i \in 1 .. n : o[i] = a
    BY DEF InOrder
  <2> QED BY <1>1, <1>8, <1>9, <1>11, <2>1, <2>2
<1>16. InOrder(r, n - 1, s)
  BY <1>7, <1>15 DEF InOrder
<1> QED BY <1>6, <1>13, <1>14, <1>16 DEF Cleared

LEMMA ListPutEvicts ==
    ASSUME ListInv, NEW k \in LRUKeys, NEW v \in StoredValues, LRU!putEvicts(k, v)
    PROVE  ListInv' /\ LRU!Policy!Put(k, v)
<1>1. /\ alive /\ alive' = alive /\ result' = result /\ mp[k] = Null /\ LRU!Size = Capacity
      /\ latest' = [latest EXCEPT ![k] = v] /\ usedSince' = Use(usedSince, k)
  BY PolicyUse DEF LRU!putEvicts
<1>2. LRU!Policy!Put(k, v)
  BY <1>1, PolicyUse DEF LRU!Policy!Put
<1>3. /\ nodes \in Heap /\ mp \in [LRUKeys -> Addresses \cup {Null}]
      /\ latest \in [LRUKeys -> StoredValues \cup {Miss}]
      /\ Matching(nodes, mp, latest) /\ Forgotten(mp, latest, usedSince)
      /\ \A c \in LRUKeys : IsFiniteSet(usedSince[c])
  BY <1>1 DEF ListInv, Listed, ListTypes
<1>n. PICK n \in Nat : \E o : InOrder(nodes, n, o) /\ Recent(nodes.key, n, o, usedSince, Null)
  BY <1>1 DEF ListInv, Listed
<1>4. PICK o : InOrder(nodes, n, o) /\ Recent(nodes.key, n, o, usedSince, Null)
  BY <1>n
<1>5. IsFiniteSet(Mapped(mp)) /\ Cardinality(Mapped(mp)) = Capacity
  BY <1>1, SizeIsMapped DEF ListInv, Listed
<1>6. n # 0
  <2>1. Mapped(mp) # {}
    BY <1>5, FS_EmptySet, ListConstants
  <2>2. PICK c \in LRUKeys : mp[c] # Null
    BY <2>1 DEF Mapped
  <2>3. \E p \in 1 .. n : o[p] = mp[c]
    BY <1>1, <1>4, <2>2, PlaceOf
  <2> QED BY <2>3
<1>7. n \in Nat \ {0} /\ 1 \in 1 .. n
  BY <1>6
<1>8. nodes.next[HeadNode] = o[1]
  <2>1. 0 \in 0 .. n /\ 0 + 1 = 1
    OBVIOUS
  <2> QED BY <1>4, <2>1 DEF InOrder, Linked
<1>9. PICK e : e = nodes.key[o[1]]
  OBVIOUS
<1>10. \A i \in 1 .. n : /\ o[i] \in Addresses /\ nodes.key[o[i]] \in LRUKeys
                         /\ mp[nodes.key[o[i]]] = o[i]
  BY <1>3, <1>4, KeysDiffer
<1>11. /\ o[1] \in Addresses /\ e \in LRUKeys /\ mp[e] = o[1] /\ e # k
       /\ nodes.key[o[1]] = e
  BY <1>1, <1>7, <1>9, <1>10, ListConstants
<1>12. PICK g : g = LRU!delete(LRU!remove(nodes, o[1]), o[1])
  OBVIOUS
<1>13. /\ g \in Heap
       /\ g.key = [nodes.key EXCEPT ![o[1]] = Null] /\ g.val = [nodes.val EXCEPT ![o[1]] = Null]
       /\ \E s : /\ InOrder(g, n - 1, s) /\ Recent(g.key, n - 1, s, usedSince, k)
                 /\ \A i \in 1 .. n - 1 : g.key[s[i]] # k
  <2>1. Apart(nodes.key, n, o, k)
    BY <1>1, <1>3, <1>4, <1>10, KeysDiffer, ListConstants DEF Apart
  <2>2. /\ g \in Heap
        /\ g.key = Cleared(nodes.key, o[1]) /\ g.val = Cleared(nodes.val, o[1])
        /\ \E s : /\ InOrder(g, n - 1, s) /\ Recent(g.key, n - 1, s, usedSince, k)
                  /\ \A i \in 1 .. n - 1 : g.key[s[i]] # k
    BY <1>3, <1>4, <1>6, <1>12, <2>1, Evicted
  <2> QED BY <2>2 DEF Cleared
<1>14. PICK a \in Addresses : /\ g.key[a] = Null
                              /\ nodes' = LRU!add(LRU!construct(g, a, k, v), a)
                              /\ mp' = [mp EXCEPT ![e] = Null, ![k] = a]
  BY <1>8, <1>9, <1>12 DEF LRU!putEvicts
<1>15. /\ nodes' \in Heap
       /\ nodes'.key = [g.key EXCEPT ![a] = k] /\ nodes'.val = [g.val EXCEPT ![a] = v]
       /\ \E m \in Nat : \E s : /\ InOrder(nodes', m, s)
                                /\ Recent(nodes'.key, m, s, Use(usedSince, k), Null)
  <2>1. PICK s : /\ InOrder(g, n - 1, s) /\ Recent(g.key, n - 1, s, usedSince, k)
                 /\ \A i \in 1 .. n - 1 : g.key[s[i]] # k
    BY <1>13
  <2>2. n - 1 \in Nat
    BY <1>7
  <2>3. PICK q \in Nat : q = n - 1
    BY <2>2
  <2>4. PICK r : r = nodes'
    OBVIOUS
  <2>5. /\ InOrder(g, q, s) /\ Recent(g.key, q, s, usedSince, k)
        /\ \A i \in 1 .. q : g.key[s[i]] # k
        /\ r = LRU!add(LRU!construct(g, a, k, v), a)
    BY <1>14, <2>1, <2>3, <2>4
  <2>6. /\ r \in Heap
        /\ r.key = [g.key EXCEPT ![a] = k] /\ r.val = [g.val EXCEPT ![a] = v]
        /\ \E m \in Nat : \E x : /\ InOrder(r, m, x)
                                 /\ Recent(r.key, m, x, Use(usedSince, k), Null)
    <3>1. g \in Heap /\ a \in Addresses /\ g.key[a] = Null /\ q \in Nat
      BY <1>13, <1>14, <2>3
    <3> QED BY ONLY k \in LRUKeys, v \in StoredValues, <3>1, <2>5, Inserted, SMTT(40)
  <2> QED BY <2>4, <2>6
<1>16. \A b \in Addresses :
           /\ nodes'.key[b] = IF b = a THEN k ELSE IF b = o[1] THEN Null ELSE nodes.key[b]
           /\ b # o[1] => nodes'.val[b] = IF b = a THEN v ELSE nodes.val[b]
  <2>1. /\ nodes.key \in [Addresses -> LRUKeys \cup {Null}]
        /\ nodes.val \in [Addresses -> StoredValues \cup {Null}]
    BY <1>3 DEF Heap
  <2> QED BY <1>11, <1>13, <1>15, <2>1
<1>17. nodes'.val[a] = v
  <2>1. nodes.val \in [Addresses -> StoredValues \cup {Null}]
    BY <1>3 DEF Heap
  <2> QED BY <1>11, <1>13, <1>15, <2>1
<1>18. \A c \in LRUKeys : /\ latest'[c] = IF c = k THEN v ELSE latest[c]
                          /\ mp'[c] = IF c = k THEN a ELSE IF c = e THEN Null ELSE mp[c]
  BY <1>1, <1>3, <1>11, <1>14
<1>19. Matching(nodes', mp', latest')
  <2>1. nodes.key \in [Addresses -> LRUKeys \cup {Null}]
    BY <1>3 DEF Heap
  <2>2. ASSUME NEW b \in Addresses, nodes'.key[b] # Null
        PROVE  /\ mp'[nodes'.key[b]] = b
               /\ nodes'.val[b] = latest'[nodes'.key[b]] /\ nodes'.val[b] \in StoredValues
    <3>1. CASE b = a
      BY <1>16, <1>17, <1>18, <3>1
    <3>2. CASE b # a
      <4>1. /\ b # o[1] /\ nodes.key[b] \in LRUKeys /\ nodes.key[b] # Null
            /\ nodes'.key[b] = nodes.key[b] /\ nodes'.val[b] = nodes.val[b]
        BY <1>16, <2>1, <2>2, <3>2
      <4>2. mp[nodes.key[b]] = b /\ nodes.val[b] = latest[nodes.key[b]]
              /\ nodes.val[b] \in StoredValues
        BY <1>3, <4>1 DEF Matching
      <4>3. nodes.key[b] # k /\ nodes.key[b] # e
        BY <1>1, <1>11, <4>1, <4>2, ListConstants
      <4> QED BY <1>18, <4>1, <4>2, <4>3
    <3> QED BY <3>1, <3>2
  <2>3. ASSUME NEW c \in LRUKeys, mp'[c] # Null
        PROVE  nodes'.key[mp'[c]] = c
    <3>1. CASE c = k
      BY <1>16, <1>18, <3>1
    <3>2. CASE c # k
      <4>1. c # e /\ mp'[c] = mp[c] /\ mp[c] \in Addresses /\ nodes.key[mp[c]] = c
        BY <1>3, <1>18, <2>3, <3>2 DEF Matching
      <4>2. mp[c] # o[1]
        BY <1>11, <4>1
      <4>3. mp[c] # a
        <5>1. a = o[1] \/ nodes.key[a] = Null
          BY <1>13, <1>14, <2>1
        <5> QED BY <4>1, <4>2, <5>1, ListConstants
      <4> QED BY <1>16, <4>1, <4>2, <4>3
    <3> QED BY <3>1, <3>2
  <2> QED BY <2>2, <2>3 DEF Matching
<1>20. k \notin Mapped(mp) /\ e \in Mapped(mp)
  BY <1>1, <1>11, ListConstants DEF Mapped
<1>21. /\ IsFiniteSet(Mapped(mp) \ {e}) /\ Cardinality(Mapped(mp) \ {e}) = Capacity - 1
       /\ IsFiniteSet((Mapped(mp) \ {e}) \cup {k})
       /\ Cardinality((Mapped(mp) \ {e}) \cup {k}) = Capacity
  <2>1. /\ IsFiniteSet(Mapped(mp) \ {e}) /\ Cardinality(Mapped(mp) \ {e}) = Capacity - 1
    BY <1>5, <1>20, FS_RemoveElement
  <2>2. /\ IsFiniteSet((Mapped(mp) \ {e}) \cup {k})
        /\ Cardinality((Mapped(mp) \ {e}) \cup {k}) = Capacity - 1 + 1
    BY <1>20, <2>1, FS_AddElement
  <2> QED BY <2>1, <2>2, ListConstants
<1>22. IsFiniteSet(Mapped(mp')) /\ Cardinality(Mapped(mp')) <= Capacity
  <2>1. Mapped(mp') = (Mapped(mp) \ {e}) \cup {k}
    BY <1>11, <1>18, ListConstants DEF Mapped
  <2> QED BY <1>21, <2>1, ListConstants
<1>23. Cardinality(Use(usedSince, k)[e]) >= Capacity
  <2>1. ASSUME NEW c \in Mapped(mp), c # e
        PROVE  c \in usedSince[e]
    <3>1. c \in LRUKeys /\ mp[c] # Null
      BY <2>1 DEF Mapped
    <3>2. PICK j \in 1 .. n : o[j] = mp[c]
      BY <1>1, <1>4, <3>1, PlaceOf
    <3>3. nodes.key[o[j]] = c
      BY <1>1, <1>4, <3>1, <3>2, PlaceOf
    <3>4. j # 1
      BY <1>9, <2>1, <3>3
    <3>5. j \in 1 + 1 .. n
      BY <3>4
    <3>6. c # Null
      BY <3>1, ListConstants
    <3> QED BY <1>4, <1>7, <1>9, <3>1, <3>3, <3>5, <3>6 DEF Recent
  <2>2. Use(usedSince, k)[e] = usedSince[e] \cup {k}
    BY <1>11 DEF Use
  <2>3. (Mapped(mp) \ {e}) \cup {k} \subseteq Use(usedSince, k)[e]
    BY <2>1, <2>2
  <2>4. IsFiniteSet(Use(usedSince, k)[e])
    <3>1. IsFiniteSet(usedSince[e])
      BY <1>3, <1>11
    <3> QED BY <2>2, <3>1, FS_AddElement
  <2>5. Capacity <= Cardinality(Use(usedSince, k)[e])
    BY <1>21, <2>3, <2>4, FS_Subset
  <2>6. Cardinality(Use(usedSince, k)[e]) \in Nat
    BY <2>4, FS_CardinalityType
  <2> QED BY <2>5, <2>6, ListConstants
<1>24. Forgotten(mp', latest', usedSince')
  <2>1. \A c \in LRUKeys : mp'[c] = Null =>
            c = e \/ (c # k /\ mp[c] = Null /\ latest'[c] = latest[c])
    BY <1>18, ListConstants
  <2>2. \A c \in LRUKeys \ {k} :
            mp[c] = Null => \/ latest[c] = Miss
                            \/ Cardinality(Use(usedSince, k)[c]) >= Capacity
    BY <1>1, ForgottenKept
  <2> QED BY <1>1, <1>23, <2>1, <2>2 DEF Forgotten
<1>25. ListTypes'
  <2>1. mp' \in [LRUKeys -> Addresses \cup {Null}]
    BY <1>3, <1>14
  <2> QED BY <1>1, <1>15, <2>1, UseKept DEF ListInv, ListTypes
<1>26. Listed(nodes', mp', latest', usedSince')
  BY <1>1, <1>15, <1>19, <1>22, <1>24 DEF Listed
<1> QED BY <1>1, <1>2, <1>25, <1>26, ListNext

(* Sets of natural numbers have a least one.                               *)
LEMMA Least ==
    ASSUME NEW S \in SUBSET Nat, S # {}
    PROVE  \E n \in S : \A m \in S : n <= m
<1> DEFINE R == OpToRel(<, Nat)
<1>1. IsWellFoundedOn(R, Nat)
  BY NatLessThanWellFounded, Zenon
<1> HIDE DEF R
<1>2. PICK n \in S : \A m \in S : ~(<<m, n>> \in R)
  BY <1>1, WFMin
<1>3. ASSUME NEW m \in S
      PROVE  n <= m
  <2>1. ~(m < n)
    BY <1>2 DEF R, OpToRel
  <2> QED BY <2>1
<1> QED BY <1>3


(* The list is no longer than there are addresses,                         *)
LEMMA ListFits ==
    ASSUME NEW h, NEW n \in Nat, NEW o, Linked(h, n, o)
    PROVE  n <= Cardinality(Addresses)
<1> DEFINE f == [i \in 1 .. n |-> o[i]]
<1>1. f \in [1 .. n -> Addresses]
  BY Between
<1>2. \A i, j \in 1 .. n : f[i] = f[j] => i = j
  <2>1. \A i \in 1 .. n : i \in 0 .. n + 1
    OBVIOUS
  <2> QED BY <2>1 DEF Linked
<1> HIDE DEF f
<1>3. f \in Injection(1 .. n, Addresses)
  BY <1>1, <1>2 DEF Injection, IsInjective
<1>4. Cardinality(1 .. n) <= Cardinality(Addresses)
  BY <1>3, FS_Injection, ListConstants
<1>5. Cardinality(1 .. n) = n
  <2>1. Cardinality(1 .. n) = IF 1 > n THEN 0 ELSE n - 1 + 1
    BY FS_Interval
  <2> QED BY <2>1
<1> QED BY <1>4, <1>5

(* so that the walk from the head reaches its end.                         *)
LEMMA WalkFollows ==
    ASSUME NEW n \in Nat, NEW o, Linked(nodes, n, o)
    PROVE  \A i \in 0 .. n + 1 : o[i] \in LRU!Reached
<1> DEFINE N == Cardinality(Addresses)
           D == 0 .. N + 1
           Eq(w) == w = [i \in D |-> IF i = 0 THEN HeadNode
                                     ELSE IF w[i - 1] \in {TailNode, Null} THEN Null
                                     ELSE nodes.next[w[i - 1]]]
           g == [i \in D |-> IF i <= n + 1 THEN o[i] ELSE Null]
           W == LRU!Walk
<1>1. N \in Nat /\ n <= N /\ LRU!Cardinality(Addresses) = N
  BY ListFits, ListConstants DEF LRU!Cardinality, Cardinality
<1>2. \A i \in 0 .. n : o[i] # TailNode /\ o[i] # Null /\ nodes.next[o[i]] = o[i + 1]
  <2>1. \A i \in 0 .. n : i \in 0 .. n + 1 /\ n + 1 \in 0 .. n + 1 /\ i # n + 1
    OBVIOUS
  <2> QED BY <2>1, ListConstants DEF Linked, At
<1>3. o[0] = HeadNode /\ o[n + 1] = TailNode
  BY DEF Linked
<1> HIDE DEF N
<1>4. Eq(g)
  <2>1. ASSUME NEW i \in D
        PROVE  g[i] = IF i = 0 THEN HeadNode
                      ELSE IF g[i - 1] \in {TailNode, Null} THEN Null
                      ELSE nodes.next[g[i - 1]]
    <3>1. CASE i = 0
      BY <1>3, <3>1
    <3>2. CASE i \in 1 .. n + 1
      <4>1. i - 1 \in 0 .. n /\ i - 1 \in D /\ i - 1 <= n + 1 /\ i <= n + 1 /\ i # 0
              /\ i - 1 + 1 = i
        BY <1>1, <3>2
      <4>2. g[i - 1] = o[i - 1] /\ g[i] = o[i]
        BY <4>1
      <4> QED BY <1>2, <4>1, <4>2
    <3>3. CASE i > n + 1
      <4>1. i - 1 \in D /\ ~(i <= n + 1) /\ i # 0
        BY <1>1, <3>3
      <4>2. g[i] = Null
        BY <4>1
      <4>3. g[i - 1] \in {TailNode, Null}
        <5>1. CASE i - 1 = n + 1
          BY <1>3, <4>1, <5>1
        <5>2. CASE i - 1 # n + 1
          <6>1. ~(i - 1 <= n + 1)
            BY <1>1, <3>3, <5>2
          <6> QED BY <4>1, <6>1
        <5> QED BY <5>1, <5>2
      <4> QED BY <4>1, <4>2, <4>3
    <3>4. i = 0 \/ i \in 1 .. n + 1 \/ i > n + 1
      BY <1>1
    <3> QED BY <3>1, <3>2, <3>3, <3>4
  <2>2. g = [i \in D |-> g[i]]
    OBVIOUS
  <2> HIDE DEF g, D
  <2> QED BY <2>1, <2>2
<1>5. Eq(W)
  <2> HIDE DEF g
  <2>1. W = CHOOSE w : Eq(w)
    BY <1>1 DEF LRU!Walk
  <2> HIDE DEF W, Eq
  <2> QED BY <1>4, <2>1
<1> HIDE DEF W, g
<1>6. \A i \in D : W[i] = IF i = 0 THEN HeadNode
                          ELSE IF W[i - 1] \in {TailNode, Null} THEN Null
                          ELSE nodes.next[W[i - 1]]
  BY <1>5
<1>7. DOMAIN W = D
  BY <1>5
<1> HIDE DEF Eq
<1> DEFINE S == {i \in 0 .. n + 1 : W[i] # o[i]}
<1>8. S = {}
  <2> SUFFICES ASSUME S # {} PROVE FALSE
    OBVIOUS
  <2>1. S \in SUBSET Nat
    OBVIOUS
  <2>2. PICK m \in S : \A i \in S : m <= i
    BY <2>1, Least
  <2>3. m \in 0 .. n + 1 /\ m \in D /\ W[m] # o[m]
    BY <1>1, <2>2
  <2>4. m # 0
    BY <1>3, <1>6, <2>3
  <2>5. m - 1 \in 0 .. n /\ m - 1 \in 0 .. n + 1 /\ m - 1 \notin S /\ m - 1 + 1 = m
    BY <2>2, <2>3, <2>4
  <2>6. W[m - 1] = o[m - 1]
    BY <2>5
  <2>7. W[m] = o[m]
    BY <1>2, <1>6, <2>3, <2>4, <2>5, <2>6
  <2> QED BY <2>3, <2>7
<1>9. \A i \in 0 .. n + 1 : i \in D /\ W[i] = o[i]
  BY <1>1, <1>8
<1> QED BY <1>7, <1>9 DEF LRU!Reached, W

LEMMA ListDestroy ==
    ASSUME ListInv, LRU!destroy
    PROVE  ListInv'
<1>1. /\ alive /\ alive' = FALSE /\ UNCHANGED <<mp, result, usedSince, latest>>
      /\ nodes' = [nodes EXCEPT !.key = [a \in Addresses |->
                                   IF a \in LRU!Reached THEN Null ELSE nodes.key[a]]]
  BY DEF LRU!destroy
<1>2. nodes \in Heap
  BY DEF ListInv, ListTypes
<1>n. PICK n \in Nat : \E o : InOrder(nodes, n, o)
  BY <1>1 DEF ListInv, Listed
<1>3. PICK o : InOrder(nodes, n, o)
  BY <1>n
<1>4. \A i \in 1 .. n : o[i] \in LRU!Reached
  <2>1. \A i \in 1 .. n : i \in 0 .. n + 1
    OBVIOUS
  <2> QED BY <1>3, <2>1, WalkFollows DEF InOrder
<1> DEFINE K == [a \in Addresses |-> IF a \in LRU!Reached THEN Null ELSE nodes.key[a]]
<1>5. \A a \in Addresses : K[a] = Null
  BY <1>3, <1>4 DEF InOrder
<1>6. K \in [Addresses -> LRUKeys \cup {Null}]
  BY <1>5
<1>7. nodes' = [nodes EXCEPT !.key = K]
  BY <1>1
<1> HIDE DEF K
<1>8. nodes' = [next |-> nodes.next, prev |-> nodes.prev, key |-> K, val |-> nodes.val]
  BY <1>2, <1>7 DEF Heap
<1>9. nodes' \in Heap /\ nodes'.key = K
  BY <1>2, <1>6, <1>8 DEF Heap
<1>10. ListTypes'
  BY <1>1, <1>9 DEF ListInv, ListTypes
<1> QED BY <1>1, <1>5, <1>9, <1>10, ListNext

(* Every step keeps the invariant, and is one of the policy or leaves what *)
(* the policy knows alone.                                                 *)
LEMMA ListStep ==
    ListInv /\ [Next]_vars => ListInv' /\ [LRU!Policy!Next]_(LRU!Policy!vars)
<1> SUFFICES ASSUME ListInv, [Next]_vars
             PROVE  ListInv' /\ [LRU!Policy!Next]_(LRU!Policy!vars)
  OBVIOUS
<1>1. CASE UNCHANGED list
  <2>1. /\ nodes' = nodes /\ mp' = mp /\ result' = result /\ alive' = alive
        /\ usedSince' = usedSince /\ latest' = latest
    BY <1>1 DEF list
  <2>2. ListTypes'
    BY <2>1 DEF ListInv, ListTypes
  <2>3. alive' => Listed(nodes', mp', latest', usedSince')
    BY <2>1 DEF ListInv
  <2>4. ~alive' => \A a \in Addresses : nodes'.key[a] = Null
    BY <2>1 DEF ListInv
  <2> QED BY <2>1, <2>2, <2>3, <2>4, ListNext DEF LRU!Policy!vars
<1>2. CASE LRU!Next
  <2>1. ASSUME NEW k \in LRUKeys, LRU!get(k)
        PROVE  ListInv' /\ LRU!Policy!Next
    BY <2>1, ListGet DEF LRU!Policy!Next
  <2>2. ASSUME NEW k \in LRUKeys, NEW v \in StoredValues,
               LRU!putUpdates(k, v) \/ LRU!putInserts(k, v) \/ LRU!putEvicts(k, v)
        PROVE  ListInv' /\ LRU!Policy!Next
    <3>1. ListInv' /\ LRU!Policy!Put(k, v)
      BY <2>2, ListPutUpdates, ListPutInserts, ListPutEvicts
    <3> QED BY <3>1 DEF LRU!Policy!Next
  <2>3. ASSUME LRU!destroy
        PROVE  ListInv' /\ UNCHANGED LRU!Policy!vars
    BY <2>3, ListDestroy DEF LRU!destroy, LRU!Policy!vars
  <2> QED BY <1>2, <2>1, <2>2, <2>3 DEF LRU!Next
<1> QED BY <1>1, <1>2 DEF Next, vars, RunsLRU, RunsFlight, RunsKV, RunsJavaKV, RunsCache,
                          RunsBroker

LEMMA ListIsSound == ListInv => LRU!ListSound
<1> SUFFICES ASSUME ListInv PROVE LRU!ListSound
  OBVIOUS
<1>1. LRU!TypeOK
  BY DEF ListInv, ListTypes, Heap, At, LRU!TypeOK
<1>2. ~alive => LRU!Allocated = {}
  BY DEF ListInv, LRU!Allocated
<1>3. ASSUME alive
      PROVE  /\ \A a \in LRU!Allocated \cup {HeadNode} :
                    /\ nodes.next[a] \in LRU!Allocated \cup {TailNode}
                    /\ nodes.prev[nodes.next[a]] = a
             /\ \A a \in LRU!Allocated \cup {TailNode} :
                    /\ nodes.prev[a] \in LRU!Allocated \cup {HeadNode}
                    /\ nodes.next[nodes.prev[a]] = a
             /\ LRU!Allocated \cup {HeadNode, TailNode} \subseteq LRU!Reached
  <2>n. PICK n \in Nat : \E o : InOrder(nodes, n, o)
    BY <1>3 DEF ListInv, Listed
  <2>1. PICK o : InOrder(nodes, n, o)
    BY <2>n
  <2>2. \A i \in 1 .. n : o[i] \in LRU!Allocated
    BY <2>1, Between DEF InOrder, LRU!Allocated
  <2>3. \A a \in LRU!Allocated : \E i \in 1 .. n : o[i] = a
    BY <2>1 DEF InOrder, LRU!Allocated
  <2>4. /\ o[0] = HeadNode /\ o[n + 1] = TailNode
        /\ \A i \in 0 .. n : nodes.next[o[i]] = o[i + 1] /\ nodes.prev[o[i + 1]] = o[i]
    BY <2>1 DEF InOrder, Linked
  <2>5. \A i \in 0 .. n : i + 1 = n + 1 \/ i + 1 \in 1 .. n
    OBVIOUS
  <2>6. \A i \in 0 .. n : i = 0 \/ i \in 1 .. n
    OBVIOUS
  <2>7. \A i \in 1 .. n : i \in 0 .. n /\ i - 1 \in 0 .. n /\ i - 1 + 1 = i
    OBVIOUS
  <2>8. 0 \in 0 .. n /\ n \in 0 .. n /\ 0 \in 0 .. n + 1 /\ n + 1 \in 0 .. n + 1
          /\ \A i \in 1 .. n : i \in 0 .. n + 1
    OBVIOUS
  <2>9. ASSUME NEW a \in LRU!Allocated \cup {HeadNode}
        PROVE  /\ nodes.next[a] \in LRU!Allocated \cup {TailNode}
               /\ nodes.prev[nodes.next[a]] = a
    <3>1. PICK i \in 0 .. n : o[i] = a
      BY <2>3, <2>4, <2>7, <2>8
    <3>2. nodes.next[a] = o[i + 1] /\ nodes.prev[o[i + 1]] = a
      BY <2>4, <3>1
    <3> QED BY <2>2, <2>4, <2>5, <3>2
  <2>10. ASSUME NEW a \in LRU!Allocated \cup {TailNode}
         PROVE  /\ nodes.prev[a] \in LRU!Allocated \cup {HeadNode}
                /\ nodes.next[nodes.prev[a]] = a
    <3>1. PICK i \in 0 .. n : o[i + 1] = a
      BY <2>3, <2>4, <2>7, <2>8
    <3>2. nodes.prev[a] = o[i] /\ nodes.next[o[i]] = a
      BY <2>4, <3>1
    <3> QED BY <2>2, <2>4, <2>6, <3>2
  <2>11. LRU!Allocated \cup {HeadNode, TailNode} \subseteq LRU!Reached
    <3>1. \A i \in 0 .. n + 1 : o[i] \in LRU!Reached
      BY <2>1, WalkFollows DEF InOrder
    <3> QED BY <2>3, <2>4, <2>8, <3>1
  <2> QED BY <2>9, <2>10, <2>11
<1>4. ASSUME alive
      PROVE  /\ LRU!Allocated = {mp[k] : k \in LRUKeys} \ {Null}
             /\ \A k \in LRUKeys : mp[k] # Null => nodes.key[mp[k]] = k
  <2>1. /\ Matching(nodes, mp, latest) /\ mp \in [LRUKeys -> Addresses \cup {Null}]
        /\ nodes.key \in [Addresses -> LRUKeys \cup {Null}]
    BY <1>4 DEF ListInv, Listed, ListTypes, Heap
  <2>2. \A k \in LRUKeys : mp[k] # Null => nodes.key[mp[k]] = k /\ mp[k] \in LRU!Allocated
    BY <2>1, ListConstants DEF Matching, LRU!Allocated
  <2>3. \A a \in LRU!Allocated : nodes.key[a] \in LRUKeys /\ mp[nodes.key[a]] = a /\ a # Null
    BY <2>1, ListConstants DEF Matching, LRU!Allocated
  <2> QED BY <2>2, <2>3
<1> QED BY <1>1, <1>2, <1>3, <1>4 DEF LRU!ListSound

(* For any keys, capacity and addresses that are used again: next and prev *)
(* are inverse, the map finds every node, and the destructor's walk from   *)
(* the head reaches all of them (LRUCache.cpp, lines 26 to 91).           *)
THEOREM ListAndMapInStep == Spec => []ListSound
<1>1. ListInv => ListSound
  BY ListIsSound DEF ListSound
<1>2. ListInv /\ [Next]_vars => ListInv'
  BY ListStep
<1> QED BY <1>1, <1>2, ListInit, PTL DEF Spec

(* Gets of the LRU cache hit and miss as the policy says, with the value   *)
(* last put, whatever becomes of its pointers (LRUCache.cpp, lines 58 to   *)
(* 91).                                                                    *)
THEOREM PolicyKept == Spec => LRU!PolicySpec
<1>1. Init => LRU!Policy!Init
  BY DEF Init, LRU!Init
<1>2. ListInv /\ [Next]_vars => ListInv' /\ [LRU!Policy!Next]_(LRU!Policy!vars)
  BY ListStep
<1> QED BY <1>1, <1>2, ListInit, PTL DEF Spec, LRU!PolicySpec, LRU!Policy!Spec

(* Each store implements what it promises: the LRU cache its policy, and   *)
(* the key-value stores a map whose calls take effect at one moment.       *)
THEOREM StoresKeepPromises == Spec => StoreSpec
BY PolicyKept, CallsAtomic DEF StoreSpec

-----------------------------------------------------------------------------
(* The broker.  A topic's list has its subscriptions in the order in which *)
(* they were made: each stands behind as many as there were before it.     *)
Subs(topic, c) == {i \in DOMAIN c : c[i].topic = topic /\ c[i].sub # <<>>}
Dels(c) == {d \in (DOMAIN c) \X (DOMAIN c) :
                c[d[1]].sub = <<>> /\ d[2] < d[1] /\ d[2] \in Subs(c[d[1]].topic, c)}
Earlier(i, S) == {j \in S : j < i}
Behind(d, D) == {e \in D : PubSub!Before(e, d)}
BrokerCalls == [topic : Topics, sub : {<<>>} \cup {<<s>> : s \in Subscribers}]
Prints == [to : Subscribers, text : Nat]

Enrolled(subs, topic, c) ==
    /\ subs \in Seq(Subscribers) /\ Len(subs) = Cardinality(Subs(topic, c))
    /\ \A i \in Subs(topic, c) :
          subs[1 + Cardinality(Earlier(i, Subs(topic, c)))] = c[i].sub[1]

PrintedAll(out, c) ==
    /\ out \in Seq(Prints) /\ Len(out) = Cardinality(Dels(c))
    /\ \A d \in Dels(c) :
          out[1 + Cardinality(Behind(d, Dels(c)))] = [to |-> c[d[2]].sub[1], text |-> d[1]]

BrokerInv ==
    /\ calls \in Seq(BrokerCalls) /\ DOMAIN subscribers = Topics
    /\ \A topic \in Topics : Enrolled(subscribers[topic], topic, calls)
    /\ PrintedAll(console, calls)

LEMMA PrintedMeansDelivered == PrintedAll(console, calls) => PubSub!Delivered
<1>1. \A S : PubSub!Cardinality(S) = Cardinality(S)
  BY DEF PubSub!Cardinality, PubSub!IsFiniteSet, Cardinality, IsFiniteSet
<1>2. PubSub!Deliveries = Dels(calls)
  BY DEF PubSub!Deliveries, PubSub!Subscriptions, Dels, Subs
<1> QED BY <1>1, <1>2 DEF PubSub!Delivered, PrintedAll, Behind

LEMMA CallsFinite ==
    ASSUME NEW c \in Seq(BrokerCalls), NEW topic
    PROVE  /\ IsFiniteSet(Subs(topic, c)) /\ Cardinality(Subs(topic, c)) \in Nat
           /\ IsFiniteSet(Dels(c)) /\ Cardinality(Dels(c)) \in Nat
<1>1. DOMAIN c = 1 .. Len(c) /\ Len(c) \in Nat
  BY LenProperties
<1>2. IsFiniteSet(DOMAIN c)
  BY <1>1, FS_Interval
<1>3. IsFiniteSet(Subs(topic, c))
  BY <1>2, FS_Subset DEF Subs
<1>4. IsFiniteSet((DOMAIN c) \X (DOMAIN c))
  BY <1>2, FS_Product
<1>5. IsFiniteSet(Dels(c))
  BY <1>4, FS_Subset DEF Dels
<1> QED BY <1>3, <1>5, FS_CardinalityType

(* The rank of a member is below the number of all.                        *)
LEMMA Ranked ==
    ASSUME NEW S, IsFiniteSet(S), S \subseteq Nat, NEW i \in S
    PROVE  /\ IsFiniteSet(Earlier(i, S))
           /\ Cardinality(Earlier(i, S)) \in Nat
           /\ 1 + Cardinality(Earlier(i, S)) <= Cardinality(S)
<1>1. IsFiniteSet(S \ {i}) /\ Cardinality(S \ {i}) = Cardinality(S) - 1
  BY FS_RemoveElement
<1>2. Earlier(i, S) \subseteq S \ {i}
  BY DEF Earlier
<1>3. IsFiniteSet(Earlier(i, S)) /\ Cardinality(Earlier(i, S)) <= Cardinality(S \ {i})
  BY <1>1, <1>2, FS_Subset
<1> QED BY <1>1, <1>3, FS_CardinalityType

(* Deliveries of a new message come after all others.                      *)
LEMMA WithNew ==
    ASSUME NEW D, IsFiniteSet(D), NEW S, IsFiniteSet(S), NEW m, \A d \in D : d[1] # m
    PROVE  /\ IsFiniteSet({m} \X S) /\ IsFiniteSet(D \cup ({m} \X S))
           /\ Cardinality(D \cup ({m} \X S)) = Cardinality(D) + Cardinality(S)
<1>1. IsFiniteSet({m}) /\ Cardinality({m}) = 1
  BY FS_Singleton
<1>2. IsFiniteSet({m} \X S) /\ Cardinality({m} \X S) = 1 * Cardinality(S)
  BY <1>1, FS_Product
<1>3. D \cap ({m} \X S) = {}
  OBVIOUS
<1>4. Cardinality(D) \in Nat /\ Cardinality(S) \in Nat
  BY FS_CardinalityType
<1> QED BY <1>2, <1>3, <1>4, FS_Union, FS_EmptySet

(* What one more call leaves of the earlier ones.                          *)
LEMMA OneCallMore ==
    ASSUME NEW c \in Seq(BrokerCalls), NEW new \in BrokerCalls, NEW c2,
           c2 = Append(c, new)
    PROVE  /\ c2 \in Seq(BrokerCalls) /\ Len(c2) = Len(c) + 1 /\ Len(c) \in Nat
           /\ DOMAIN c = 1 .. Len(c) /\ DOMAIN c2 = 1 .. Len(c) + 1
           /\ \A i \in DOMAIN c : c2[i] = c[i]
           /\ c2[Len(c) + 1] = new
BY LenProperties

Its(topic, new, m) == IF new.topic = topic /\ new.sub # <<>> THEN {m} ELSE {}

LEMMA OneSubMore ==
    ASSUME NEW c \in Seq(BrokerCalls), NEW new \in BrokerCalls, NEW c2,
           c2 = Append(c, new), NEW topic
    PROVE  Subs(topic, c2) = Subs(topic, c) \cup Its(topic, new, Len(c) + 1)
<1>1. /\ c2 \in Seq(BrokerCalls) /\ Len(c2) = Len(c) + 1 /\ Len(c) \in Nat
      /\ DOMAIN c = 1 .. Len(c) /\ DOMAIN c2 = 1 .. Len(c) + 1
      /\ \A i \in DOMAIN c : c2[i] = c[i]
      /\ c2[Len(c) + 1] = new
  BY LenProperties
<1>2. ASSUME NEW i
      PROVE  i \in Subs(topic, c2) <=> \/ i \in Subs(topic, c)
                                       \/ /\ i = Len(c) + 1
                                          /\ new.topic = topic /\ new.sub # <<>>
  <2>1. CASE i \in DOMAIN c
    BY <1>1, <2>1 DEF Subs
  <2>2. CASE i = Len(c) + 1
    BY <1>1, <2>2 DEF Subs
  <2>3. CASE i \notin DOMAIN c /\ i # Len(c) + 1
    BY <1>1, <2>3 DEF Subs
  <2> QED BY <2>1, <2>2, <2>3
<1> QED BY <1>2 DEF Its

(* The deliveries of a published message, and none of a subscription.      *)
LEMMA NewDeliveries ==
    ASSUME NEW c \in Seq(BrokerCalls), NEW new \in BrokerCalls, NEW c2,
           c2 = Append(c, new)
    PROVE  Dels(c2) = Dels(c) \cup (IF new.sub = <<>>
                                    THEN {Len(c) + 1} \X Subs(new.topic, c) ELSE {})
<1> DEFINE n == Len(c)
           more == IF new.sub = <<>> THEN {n + 1} \X Subs(new.topic, c) ELSE {}
<1>a. /\ Len(c) \in Nat /\ DOMAIN c = 1 .. Len(c) /\ DOMAIN c2 = 1 .. Len(c) + 1
      /\ \A i \in DOMAIN c : c2[i] = c[i]
      /\ c2[Len(c) + 1] = new
  BY OneCallMore
<1>b. \A topic : Subs(topic, c2) = Subs(topic, c) \cup Its(topic, new, Len(c) + 1)
  BY OneSubMore
<1>1. /\ n \in Nat /\ DOMAIN c = 1 .. n /\ DOMAIN c2 = 1 .. n + 1
      /\ \A i \in DOMAIN c : c2[i] = c[i]
      /\ c2[n + 1] = new
      /\ \A topic : Subs(topic, c2) = Subs(topic, c)
             \cup (IF new.topic = topic /\ new.sub # <<>> THEN {n + 1} ELSE {})
  BY <1>a, <1>b DEF Its
<1>2. \A topic : Subs(topic, c) \subseteq 1 .. n
  BY <1>1 DEF Subs
<1> HIDE DEF n
<1>3. ASSUME NEW m \in 1 .. n + 1, NEW i \in 1 .. n + 1
      PROVE  <<m, i>> \in Dels(c2) <=> <<m, i>> \in Dels(c) \/ <<m, i>> \in more
  <2>1. <<m, i>> \in Dels(c2)
            <=> c2[m].sub = <<>> /\ i < m /\ i \in Subs(c2[m].topic, c2)
    BY <1>1 DEF Dels
  <2>2. <<m, i>> \in Dels(c)
            <=> m \in 1 .. n /\ c[m].sub = <<>> /\ i < m /\ i \in Subs(c[m].topic, c)
    BY <1>1, <1>2 DEF Dels
  <2>3. <<m, i>> \in more <=> m = n + 1 /\ new.sub = <<>> /\ i \in Subs(new.topic, c)
    BY <1>2
  <2>4. i < m => i # n + 1
    BY <1>1
  <2>5. CASE m = n + 1
    BY <1>1, <1>2, <2>1, <2>2, <2>3, <2>4, <2>5
  <2>6. CASE m \in 1 .. n
    <3>1. c2[m] = c[m] /\ m # n + 1
      BY <1>1, <2>6
    <3>2. i < m => (i \in Subs(c[m].topic, c2) <=> i \in Subs(c[m].topic, c))
      BY <1>1, <2>4
    <3> QED BY <2>1, <2>2, <2>3, <2>6, <3>1, <3>2
  <2> QED BY <1>1, <2>5, <2>6
<1>4. Dels(c2) \subseteq (1 .. n + 1) \X (1 .. n + 1)
  BY <1>1 DEF Dels
<1>5. Dels(c) \subseteq (1 .. n + 1) \X (1 .. n + 1)
  BY <1>1 DEF Dels
<1>6. more \subseteq (1 .. n + 1) \X (1 .. n + 1)
  BY <1>1, <1>2
<1> HIDE DEF more
<1>7. Dels(c2) = Dels(c) \cup more
  BY <1>3, <1>4, <1>5, <1>6
<1> QED BY <1>7 DEF more, n

(* A subscription goes to the end of its topic's list.                     *)
LEMMA Enrolment ==
    ASSUME NEW c \in Seq(BrokerCalls), NEW t, NEW topic \in Topics, NEW sub \in Subscribers,
           NEW subs, Enrolled(subs, t, c), NEW c2, NEW subs2,
           c2 = Append(c, [topic |-> topic, sub |-> <<sub>>]),
           subs2 = IF t = topic THEN Append(subs, sub) ELSE subs
    PROVE  Enrolled(subs2, t, c2)
<1> DEFINE n == Len(c)
           S == Subs(t, c)
           S2 == Subs(t, c2)
<1>1. [topic |-> topic, sub |-> <<sub>>] \in BrokerCalls /\ <<sub>> # <<>> /\ <<sub>>[1] = sub
  BY DEF BrokerCalls
<1> DEFINE new == [topic |-> topic, sub |-> <<sub>>]
<1>a. new \in BrokerCalls /\ new.topic = topic /\ new.sub # <<>> /\ new.sub[1] = sub
      /\ c2 = Append(c, new)
  BY <1>1
<1> HIDE DEF new
<1>b. /\ Len(c) \in Nat /\ DOMAIN c = 1 .. Len(c)
      /\ \A i \in DOMAIN c : c2[i] = c[i]
      /\ c2[Len(c) + 1] = new
  BY <1>a, OneCallMore
<1>c. Subs(t, c2) = Subs(t, c) \cup Its(t, new, Len(c) + 1)
  BY <1>a, OneSubMore
<1>2. /\ n \in Nat /\ DOMAIN c = 1 .. n
      /\ \A i \in DOMAIN c : c2[i] = c[i]
      /\ c2[n + 1].sub[1] = sub
      /\ S2 = S \cup (IF t = topic THEN {n + 1} ELSE {})
  BY <1>a, <1>b, <1>c DEF Its
<1>3. /\ subs \in Seq(Subscribers) /\ Len(subs) = Cardinality(S)
      /\ \A i \in S : subs[1 + Cardinality(Earlier(i, S))] = c[i].sub[1]
  BY DEF Enrolled
<1>4. IsFiniteSet(S) /\ Cardinality(S) \in Nat
  BY CallsFinite
<1>5. S \subseteq 1 .. n /\ S \subseteq Nat /\ \A j \in S : j < n + 1
  BY <1>2 DEF Subs
<1> HIDE DEF n, S, S2
<1>6. CASE t = topic
  <2>1. S2 = S \cup {n + 1} /\ n + 1 \notin S /\ subs2 = Append(subs, sub)
    BY <1>2, <1>5, <1>6
  <2>2. Cardinality(S2) = Cardinality(S) + 1
    BY <1>4, <2>1, FS_AddElement
  <2>3. subs2 \in Seq(Subscribers) /\ Len(subs2) = Cardinality(S2)
    BY <1>3, <2>1, <2>2
  <2>4. ASSUME NEW i \in S2
        PROVE  subs2[1 + Cardinality(Earlier(i, S2))] = c2[i].sub[1]
    <3>1. CASE i \in S
      <4>1. Earlier(i, S2) = Earlier(i, S)
        BY <3>1, <1>2, <1>5, <2>1 DEF Earlier
      <4>2. 1 + Cardinality(Earlier(i, S)) \in 1 .. Len(subs)
        <5>1. /\ Cardinality(Earlier(i, S)) \in Nat
              /\ 1 + Cardinality(Earlier(i, S)) <= Cardinality(S)
          BY <1>4, <1>5, <3>1, Ranked
        <5> QED BY <1>3, <1>4, <5>1
      <4>3. subs2[1 + Cardinality(Earlier(i, S))] = subs[1 + Cardinality(Earlier(i, S))]
        BY <1>3, <2>1, <4>2
      <4>4. c2[i] = c[i]
        BY <1>2, <1>5, <3>1
      <4> QED BY <1>3, <3>1, <4>1, <4>3, <4>4
    <3>2. CASE i = n + 1
      <4>1. Earlier(i, S2) = S
        <5>1. ~(n + 1 < n + 1)
          BY <1>2
        <5> QED BY <3>2, <1>5, <2>1, <5>1 DEF Earlier
      <4>2. subs2[1 + Cardinality(S)] = sub
        BY <1>3, <1>4, <2>1
      <4> QED BY <1>2, <3>2, <4>1, <4>2
    <3> QED BY <2>1, <3>1, <3>2
  <2> QED BY <2>3, <2>4 DEF Enrolled, S2
<1>7. CASE t # topic
  <2>1. S2 = S /\ subs2 = subs /\ \A i \in S : c2[i] = c[i]
    BY <1>2, <1>5, <1>7
  <2> QED BY <1>3, <2>1 DEF Enrolled, S2
<1> QED BY <1>6, <1>7

LEMMA SubscribeStep ==
    ASSUME BrokerInv, NEW topic \in Topics, NEW sub \in Subscribers,
           PubSub!subscribe(topic, sub)
    PROVE  BrokerInv'
<1> DEFINE new == [topic |-> topic, sub |-> <<sub>>]
<1>1. /\ subscribers' = [subscribers EXCEPT ![topic] = Append(@, sub)]
      /\ calls' = Append(calls, new) /\ console' = console
      /\ calls \in Seq(BrokerCalls) /\ DOMAIN subscribers = Topics
      /\ PrintedAll(console, calls)
      /\ \A t \in Topics : Enrolled(subscribers[t], t, calls)
  BY DEF PubSub!subscribe, BrokerInv
<1>2. new \in BrokerCalls /\ new.sub # <<>>
  BY DEF BrokerCalls
<1>3. \A t \in Topics : Enrolled(subscribers'[t], t, calls')
  BY <1>1, Enrolment
<1>4. /\ calls' \in Seq(BrokerCalls) /\ DOMAIN calls = 1 .. Len(calls)
      /\ \A i \in DOMAIN calls : calls'[i] = calls[i]
  BY <1>1, <1>2, OneCallMore
<1>5. Dels(calls') = Dels(calls)
  BY <1>1, <1>2, NewDeliveries
<1>6. \A d \in Dels(calls) : calls'[d[2]] = calls[d[2]]
  BY <1>4 DEF Dels
<1>7. PrintedAll(console', calls')
  BY <1>1, <1>5, <1>6 DEF PrintedAll
<1> QED BY <1>1, <1>3, <1>4, <1>7 DEF BrokerInv

(* A message goes to the end of the console, once for each in the list.    *)
LEMMA Publication ==
    ASSUME NEW c \in Seq(BrokerCalls), NEW topic \in Topics,
           NEW subs, Enrolled(subs, topic, c), NEW out, PrintedAll(out, c), NEW c2, NEW out2,
           c2 = Append(c, [topic |-> topic, sub |-> <<>>]),
           out2 = out \o [i \in DOMAIN subs |-> [to |-> subs[i], text |-> Len(c) + 1]]
    PROVE  PrintedAll(out2, c2)
<1> DEFINE n == Len(c)
           new == [topic |-> topic, sub |-> <<>>]
           S == Subs(topic, c)
           D == Dels(c)
           D2 == Dels(c2)
           prints == [i \in DOMAIN subs |-> [to |-> subs[i], text |-> n + 1]]
<1>1. new \in BrokerCalls /\ new.topic = topic /\ new.sub = <<>> /\ c2 = Append(c, new)
  BY DEF BrokerCalls
<1> HIDE DEF new
<1>2. /\ Len(c) \in Nat /\ DOMAIN c = 1 .. Len(c)
      /\ \A i \in DOMAIN c : c2[i] = c[i]
  BY <1>1, OneCallMore
<1>3. Dels(c2) = Dels(c) \cup (IF new.sub = <<>>
                               THEN {Len(c) + 1} \X Subs(new.topic, c) ELSE {})
  BY <1>1, NewDeliveries
<1>4. n \in Nat /\ D2 = D \cup ({n + 1} \X S)
  BY <1>1, <1>2, <1>3
<1>5. /\ IsFiniteSet(S) /\ Cardinality(S) \in Nat
      /\ IsFiniteSet(D) /\ Cardinality(D) \in Nat
  BY CallsFinite
<1>6. S \subseteq 1 .. n /\ S \subseteq Nat
  BY <1>2 DEF Subs
<1>7. D \subseteq (1 .. n) \X (1 .. n)
  BY <1>2 DEF Dels
<1>8. /\ subs \in Seq(Subscribers) /\ Len(subs) = Cardinality(S)
      /\ \A i \in S : subs[1 + Cardinality(Earlier(i, S))] = c[i].sub[1]
  BY DEF Enrolled
<1>9. /\ out \in Seq(Prints) /\ Len(out) = Cardinality(D)
      /\ \A d \in D : out[1 + Cardinality(Behind(d, D))]
                         = [to |-> c[d[2]].sub[1], text |-> d[1]]
  BY DEF PrintedAll
<1>10. \A i \in 1 .. n : c2[i] = c[i]
  BY <1>2
<1>11. out2 = out \o prints
  OBVIOUS
<1> HIDE DEF n, S, D, D2
<1>12. /\ prints \in Seq(Prints) /\ Len(prints) = Len(subs)
       /\ \A i \in 1 .. Len(subs) : prints[i] = [to |-> subs[i], text |-> n + 1]
  <2>1. DOMAIN subs = 1 .. Len(subs) /\ Len(subs) \in Nat
    BY <1>8, LenProperties
  <2>2. \A i \in 1 .. Len(subs) : subs[i] \in Subscribers
    BY <1>8, ElementOfSeq
  <2>3. \A i \in 1 .. Len(subs) : [to |-> subs[i], text |-> n + 1] \in Prints
    BY <1>4, <2>2 DEF Prints
  <2> QED BY <2>1, <2>3
<1> HIDE DEF prints
<1>13. /\ out2 \in Seq(Prints) /\ Len(out2) = Cardinality(D) + Cardinality(S)
       /\ \A i \in 1 .. Cardinality(D) : out2[i] = out[i]
       /\ \A i \in 1 .. Cardinality(S) :
             out2[Cardinality(D) + i] = [to |-> subs[i], text |-> n + 1]
  <2>1. /\ out2 \in Seq(Prints) /\ Len(out2) = Len(out) + Len(prints)
        /\ \A i \in 1 .. Len(out) + Len(prints) :
              out2[i] = IF i <= Len(out) THEN out[i] ELSE prints[i - Len(out)]
    <3>1. out \in Seq(Prints) /\ prints \in Seq(Prints)
      BY <1>9, <1>12
    <3>2. /\ out \o prints \in Seq(Prints) /\ Len(out \o prints) = Len(out) + Len(prints)
          /\ \A i \in 1 .. Len(out) + Len(prints) : (out \o prints)[i]
                 = IF i <= Len(out) THEN out[i] ELSE prints[i - Len(out)]
      BY ONLY <3>1, ConcatProperties
    <3> QED BY <1>11, <3>2
  <2>2. ASSUME NEW i \in 1 .. Cardinality(D) PROVE out2[i] = out[i]
    BY <1>5, <1>8, <1>9, <1>12, <2>1
  <2>3. ASSUME NEW i \in 1 .. Cardinality(S)
        PROVE  out2[Cardinality(D) + i] = [to |-> subs[i], text |-> n + 1]
    <3> DEFINE k == Cardinality(D) + i
    <3>1. k \in 1 .. Len(out) + Len(prints) /\ ~(k <= Len(out)) /\ k - Len(out) = i
      BY <1>5, <1>8, <1>9, <1>12
    <3>2. \A j \in 1 .. Len(out) + Len(prints) :
             ~(j <= Len(out)) => out2[j] = prints[j - Len(out)]
      BY <2>1
    <3> HIDE DEF k
    <3>4. out2[k] = prints[k - Len(out)]
      BY <3>1, <3>2
    <3>5. out2[k] = prints[i]
      BY <3>1, <3>4
    <3>3. prints[i] = [to |-> subs[i], text |-> n + 1]
      BY <1>8, <1>12
    <3> QED BY <3>3, <3>5 DEF k
  <2> QED BY <1>8, <1>9, <1>12, <2>1, <2>2, <2>3
<1>14. \A d \in D : d[1] # n + 1
  BY <1>4, <1>7
<1>15. Len(out2) = Cardinality(D2)
  <2>1. Cardinality(D \cup ({n + 1} \X S)) = Cardinality(D) + Cardinality(S)
    BY ONLY <1>5, <1>14, WithNew
  <2> QED BY <1>4, <1>13, <2>1
<1>16. ASSUME NEW d \in D2
       PROVE  out2[1 + Cardinality(Behind(d, D2))] = [to |-> c2[d[2]].sub[1], text |-> d[1]]
  <2>1. CASE d \in D
    <3>1. Behind(d, D2) = Behind(d, D)
      <4>1. \A e \in {n + 1} \X S : ~PubSub!Before(e, d)
        BY <1>4, <1>7, <2>1 DEF PubSub!Before
      <4> QED BY <1>4, <4>1 DEF Behind
    <3>2. 1 + Cardinality(Behind(d, D)) \in 1 .. Cardinality(D)
      <4>1. Behind(d, D) \subseteq D \ {d}
        BY <1>7, <2>1 DEF Behind, PubSub!Before
      <4>2. IsFiniteSet(D \ {d}) /\ Cardinality(D \ {d}) = Cardinality(D) - 1
        BY <1>5, <2>1, FS_RemoveElement
      <4>3. IsFiniteSet(Behind(d, D)) /\ Cardinality(Behind(d, D)) <= Cardinality(D \ {d})
        BY <4>1, <4>2, FS_Subset
      <4>4. Cardinality(Behind(d, D)) \in Nat
        BY <4>3, FS_CardinalityType
      <4> QED BY <1>5, <4>2, <4>3, <4>4
    <3>3. c2[d[2]] = c[d[2]]
      BY <1>7, <1>10, <2>1
    <3> QED BY <1>9, <1>13, <2>1, <3>1, <3>2, <3>3
  <2>2. CASE d \in {n + 1} \X S
    <3>1. PICK i \in S : d = <<n + 1, i>>
      BY <2>2
    <3>2. Behind(d, D2) = D \cup ({n + 1} \X Earlier(i, S))
      <4>1. \A e \in D : PubSub!Before(e, d)
        BY <1>4, <1>7, <3>1 DEF PubSub!Before
      <4>2. \A j \in S : PubSub!Before(<<n + 1, j>>, d) <=> j < i
        BY <1>4, <1>6, <3>1 DEF PubSub!Before
      <4> QED BY <1>4, <4>1, <4>2 DEF Behind, Earlier
    <3>3. /\ IsFiniteSet(Earlier(i, S)) /\ Cardinality(Earlier(i, S)) \in Nat
          /\ 1 + Cardinality(Earlier(i, S)) <= Cardinality(S)
      BY <1>5, <1>6, Ranked
    <3>4. Cardinality(Behind(d, D2)) = Cardinality(D) + Cardinality(Earlier(i, S))
      <4>1. Cardinality(D \cup ({n + 1} \X Earlier(i, S)))
                = Cardinality(D) + Cardinality(Earlier(i, S))
        BY ONLY <1>5, <1>14, <3>3, WithNew
      <4> QED BY <3>2, <4>1
    <3>5. 1 + Cardinality(Earlier(i, S)) \in 1 .. Cardinality(S)
      BY <1>5, <3>3
    <3>6. 1 + Cardinality(Behind(d, D2)) = Cardinality(D) + (1 + Cardinality(Earlier(i, S)))
      BY <1>5, <3>3, <3>4
    <3>7. out2[1 + Cardinality(Behind(d, D2))] = [to |-> c[i].sub[1], text |-> n + 1]
      BY <1>8, <1>13, <3>5, <3>6
    <3>8. c2[d[2]] = c[i] /\ d[1] = n + 1
      BY <1>6, <1>10, <3>1
    <3> QED BY <3>7, <3>8
  <2> QED BY <1>4, <2>1, <2>2
<1> QED BY <1>13, <1>15, <1>16 DEF PrintedAll, D2

LEMMA PublishStep ==
    ASSUME BrokerInv, NEW topic \in Topics, PubSub!publish(topic)
    PROVE  BrokerInv'
<1> DEFINE new == [topic |-> topic, sub |-> <<>>]
<1>1. /\ subscribers' = subscribers /\ calls' = Append(calls, new)
      /\ console' = console \o [i \in DOMAIN subscribers[topic] |->
                         [to |-> subscribers[topic][i], text |-> Len(calls) + 1]]
      /\ calls \in Seq(BrokerCalls) /\ DOMAIN subscribers = Topics
      /\ PrintedAll(console, calls)
      /\ \A t \in Topics : Enrolled(subscribers[t], t, calls)
  BY DEF PubSub!publish, BrokerInv
<1>2. new \in BrokerCalls /\ new.sub = <<>>
  BY DEF BrokerCalls
<1>3. /\ calls' \in Seq(BrokerCalls) /\ DOMAIN calls = 1 .. Len(calls)
      /\ \A i \in DOMAIN calls : calls'[i] = calls[i]
  BY <1>1, <1>2, OneCallMore
<1>4. ASSUME NEW t \in Topics PROVE Enrolled(subscribers'[t], t, calls')
  <2>1. Subs(t, calls') = Subs(t, calls) \cup Its(t, new, Len(calls) + 1)
    BY <1>1, <1>2, OneSubMore
  <2>2. Subs(t, calls') = Subs(t, calls)
    BY <1>2, <2>1 DEF Its
  <2>3. \A i \in Subs(t, calls) : calls'[i] = calls[i]
    BY <1>3 DEF Subs
  <2>4. subscribers'[t] = subscribers[t] /\ Enrolled(subscribers[t], t, calls)
    BY <1>1
  <2> HIDE DEF new
  <2> QED BY <2>2, <2>3, <2>4 DEF Enrolled
<1>5. PrintedAll(console', calls')
  BY <1>1, Publication
<1> QED BY <1>1, <1>3, <1>4, <1>5 DEF BrokerInv

LEMMA BrokerInit == Init => BrokerInv
<1> SUFFICES ASSUME Init PROVE BrokerInv
  OBVIOUS
<1>1. subscribers = [topic \in Topics |-> <<>>] /\ console = <<>> /\ calls = <<>>
  BY DEF Init, PubSub!Init
<1>2. DOMAIN calls = {} /\ Len(console) = 0 /\ \A t \in Topics : Len(subscribers[t]) = 0
  BY <1>1
<1>3. Dels(calls) = {} /\ \A t : Subs(t, calls) = {}
  BY <1>2 DEF Dels, Subs
<1>4. calls \in Seq(BrokerCalls) /\ console \in Seq(Prints)
      /\ \A t \in Topics : subscribers[t] \in Seq(Subscribers)
  BY <1>1
<1>5. \A t \in Topics : Enrolled(subscribers[t], t, calls)
  BY <1>2, <1>3, <1>4, FS_EmptySet DEF Enrolled
<1>6. PrintedAll(console, calls)
  BY <1>2, <1>3, <1>4, FS_EmptySet DEF PrintedAll
<1> QED BY <1>1, <1>4, <1>5, <1>6 DEF BrokerInv

LEMMA BrokerStep == BrokerInv /\ [Next]_vars => BrokerInv'
<1> SUFFICES ASSUME BrokerInv, [Next]_vars PROVE BrokerInv'
  OBVIOUS
<1>1. CASE RunsBroker /\ PubSub!Next
  BY <1>1, SubscribeStep, PublishStep DEF PubSub!Next
<1>2. CASE UNCHANGED broker
  BY <1>2 DEF broker, BrokerInv
<1>3. \/ RunsBroker /\ PubSub!Next
      \/ UNCHANGED broker
  BY DEF Next, vars, RunsLRU, RunsFlight, RunsKV, RunsJavaKV, RunsCache
<1> QED BY <1>1, <1>2, <1>3

(* Every message reaches the subscriptions made before it to its topic,    *)
(* each once, in order, and no other, however many calls are made          *)
(* (PubSubBrokerBasic.cpp, lines 34 to 44).                                *)
THEOREM MessagesDelivered == Spec => []Delivered
<1>1. BrokerInv => Delivered
  BY PrintedMeansDelivered DEF BrokerInv, Delivered
<1> QED BY <1>1, BrokerInit, BrokerStep, PTL DEF Spec
=============================================================================
