------------------------- MODULE RateLimitersProofs -------------------------
(***************************************************************************)
(* For any capacity, limit, window and resolution of the clock: no limiter *)
(* allows more than its limit, and none denies what the limit permits.     *)
(***************************************************************************)
EXTENDS RateLimiters, SequenceTheorems, WellFoundedInduction, TLAPS

Cap == Bucket!Full

LEMMA Constants ==
    /\ capacity \in Nat \ {0} /\ TicksPerToken \in Nat \ {0}
    /\ Requests \subseteq 1 .. capacity /\ MaxSetBack \in Nat
    /\ limit \in Nat \ {0} /\ windowSeconds \in Nat
    /\ Nobody \notin Clients
    /\ Cap \in Nat /\ Cap > 0
    /\ \A n \in Requests : Bucket!Needed(n) \in Nat
<1>1. /\ capacity \in Nat \ {0} /\ TicksPerToken \in Nat \ {0}
      /\ Requests \subseteq 1 .. capacity /\ MaxSetBack \in Nat
      /\ limit \in Nat \ {0} /\ windowSeconds \in Nat
      /\ Nobody \notin Clients
  BY LimitersAssumption DEF Bucket!BucketAssumption, Sliding!WindowAssumption
<1>2. \A x, y \in Nat \ {0} : x * y \in Nat /\ x * y > 0
  OBVIOUS
<1>3. Cap \in Nat /\ Cap > 0
  BY <1>1, <1>2 DEF Cap, Bucket!Full
<1>4. \A n \in Requests : n \in Nat \ {0}
  BY <1>1
<1>5. \A n \in Requests : Bucket!Needed(n) \in Nat
  BY <1>1, <1>2, <1>4 DEF Bucket!Needed
<1> QED BY <1>1, <1>3, <1>5

-----------------------------------------------------------------------------
(* The buckets.  What was handed out and what could be handed out now make *)
(* up the capacity: they never exceed it, and fall short of it only if the *)
(* clock was set back.                                                     *)
Ready(tokens, since) == IF since <= 0 THEN tokens
                        ELSE IF tokens + since < Cap THEN tokens + since ELSE Cap
Balanced(tokens, since, back, out) ==
    /\ tokens \in 0 .. Cap
    /\ since \in -MaxSetBack .. Cap + MaxSetBack
    /\ back \in BOOLEAN /\ out \in Nat
    /\ out + Ready(tokens, since) <= Cap
    /\ back \/ (since >= 0 /\ out + Ready(tokens, since) >= Cap)

BucketInv == granted \in BOOLEAN /\ Balanced(currentTokens, sinceRefill, setBack, load)

LEMMA BalanceMeans ==
    ASSUME NEW tokens, NEW since, NEW back, NEW out, Balanced(tokens, since, back, out)
    PROVE  /\ tokens \in Int /\ 0 <= tokens /\ tokens <= Cap
           /\ since \in Int /\ -MaxSetBack <= since /\ since <= Cap + MaxSetBack
           /\ back \in BOOLEAN /\ out \in Int /\ 0 <= out
           /\ Cap \in Int /\ 0 < Cap /\ MaxSetBack \in Int /\ 0 <= MaxSetBack
           /\ Ready(tokens, since) \in Int /\ 0 <= Ready(tokens, since)
           /\ Ready(tokens, since) <= Cap
           /\ out + Ready(tokens, since) <= Cap
           /\ back \/ (since >= 0 /\ out + Ready(tokens, since) >= Cap)
<1>1. /\ tokens \in Int /\ 0 <= tokens /\ tokens <= Cap
      /\ since \in Int /\ -MaxSetBack <= since /\ since <= Cap + MaxSetBack
      /\ back \in BOOLEAN /\ out \in Int /\ 0 <= out
      /\ Cap \in Int /\ 0 < Cap /\ MaxSetBack \in Int /\ 0 <= MaxSetBack
  BY Constants DEF Balanced
<1>2. /\ Ready(tokens, since) \in Int /\ 0 <= Ready(tokens, since)
      /\ Ready(tokens, since) <= Cap
  BY <1>1 DEF Ready
<1> QED BY <1>1, <1>2 DEF Balanced

(* A request, granted or not, the passing of time and a setting of the     *)
(* clock keep the balance.                                                 *)
LEMMA BalancedRequest ==
    ASSUME NEW tokens, NEW since, NEW back, NEW out, Balanced(tokens, since, back, out),
           NEW n \in Nat, n <= Ready(tokens, since),
           NEW since2, since2 = IF since > 0 THEN 0 ELSE since
    PROVE  Balanced(Ready(tokens, since) - n, since2, back, out + n)
<1>1. /\ tokens \in Int /\ 0 <= tokens /\ tokens <= Cap
      /\ since \in Int /\ -MaxSetBack <= since /\ since <= Cap + MaxSetBack
      /\ back \in BOOLEAN /\ out \in Int /\ 0 <= out
      /\ Cap \in Int /\ 0 < Cap /\ MaxSetBack \in Int /\ 0 <= MaxSetBack
  BY BalanceMeans
<1> DEFINE r == Ready(tokens, since)
<1>2. /\ r \in Int /\ 0 <= r /\ r <= Cap /\ out + r <= Cap
      /\ back \/ (since >= 0 /\ out + r >= Cap)
  BY BalanceMeans
<1>3. r = IF since <= 0 THEN tokens ELSE IF tokens + since < Cap THEN tokens + since ELSE Cap
  BY DEF Ready
<1> HIDE DEF r
<1>4. /\ r - n \in 0 .. Cap /\ out + n \in Nat
      /\ since2 \in -MaxSetBack .. Cap + MaxSetBack /\ since2 <= 0
      /\ since >= 0 => since2 >= 0
  BY <1>1, <1>2 DEF r
<1>5. Ready(r - n, since2) = r - n
  BY <1>4 DEF Ready
<1>6. (out + n) + (r - n) = out + r
  BY <1>1, <1>2
<1> QED BY <1>1, <1>2, <1>4, <1>5, <1>6 DEF Balanced, r

LEMMA BalancedTick ==
    ASSUME NEW tokens, NEW since, NEW back, NEW out, Balanced(tokens, since, back, out),
           NEW since2, since2 = IF since < Cap + MaxSetBack THEN since + 1 ELSE since,
           NEW out2, out2 = IF out > 0 THEN out - 1 ELSE 0
    PROVE  Balanced(tokens, since2, back, out2)
<1>1. /\ tokens \in Int /\ 0 <= tokens /\ tokens <= Cap
      /\ since \in Int /\ -MaxSetBack <= since /\ since <= Cap + MaxSetBack
      /\ back \in BOOLEAN /\ out \in Int /\ 0 <= out
      /\ Cap \in Int /\ 0 < Cap /\ MaxSetBack \in Int /\ 0 <= MaxSetBack
  BY BalanceMeans
<1> DEFINE r == Ready(tokens, since)
<1>2. /\ r \in Int /\ 0 <= r /\ r <= Cap /\ out + r <= Cap
      /\ back \/ (since >= 0 /\ out + r >= Cap)
  BY BalanceMeans
<1>3. r = IF since <= 0 THEN tokens ELSE IF tokens + since < Cap THEN tokens + since ELSE Cap
  BY DEF Ready
<1>4. /\ since2 \in -MaxSetBack .. Cap + MaxSetBack /\ out2 \in Nat
      /\ since >= 0 => since2 >= 0
  BY <1>1
<1> DEFINE r2 == Ready(tokens, since2)
<1>5. r2 = IF since2 <= 0 THEN tokens ELSE IF tokens + since2 < Cap THEN tokens + since2 ELSE Cap
  BY DEF Ready
<1> HIDE DEF r, r2
<1>6. out2 + r2 <= Cap /\ (since >= 0 /\ out + r >= Cap => out2 + r2 >= Cap)
  BY <1>1, <1>2, <1>3, <1>4, <1>5
<1> QED BY <1>1, <1>2, <1>4, <1>6 DEF Balanced, r2

LEMMA BalancedSetBack ==
    ASSUME NEW tokens, NEW since, NEW out, Balanced(tokens, since, FALSE, out),
           NEW d \in 1 .. MaxSetBack
    PROVE  Balanced(tokens, since - d, TRUE, out)
<1>1. /\ tokens \in Int /\ 0 <= tokens /\ tokens <= Cap
      /\ since \in Int /\ -MaxSetBack <= since /\ since <= Cap + MaxSetBack
      /\  out \in Int /\ 0 <= out
      /\ Cap \in Int /\ 0 < Cap /\ MaxSetBack \in Int /\ 0 <= MaxSetBack
  BY BalanceMeans
<1> DEFINE r == Ready(tokens, since)
<1>2. /\ r \in Int /\ 0 <= r /\ r <= Cap /\ out + r <= Cap
      /\ since >= 0 /\ out + r >= Cap
  BY BalanceMeans
<1>3. r = IF since <= 0 THEN tokens ELSE IF tokens + since < Cap THEN tokens + since ELSE Cap
  BY DEF Ready
<1>4. since - d \in -MaxSetBack .. Cap + MaxSetBack
  BY <1>1, <1>2
<1> DEFINE r2 == Ready(tokens, since - d)
<1>5. r2 = IF since - d <= 0 THEN tokens
           ELSE IF tokens + (since - d) < Cap THEN tokens + (since - d) ELSE Cap
  BY DEF Ready
<1> HIDE DEF r, r2
<1>6. out + r2 <= Cap
  BY <1>1, <1>2, <1>3, <1>4, <1>5
<1> QED BY <1>1, <1>4, <1>6 DEF Balanced, r2

LEMMA Refilled ==
    ASSUME BucketInv
    PROVE  Bucket!Refilled = Ready(currentTokens, sinceRefill)
BY DEF Bucket!Refilled, Ready, Cap

LEMMA BucketInit == Init => BucketInv
<1> SUFFICES ASSUME Init PROVE BucketInv
  OBVIOUS
<1>1. /\ currentTokens = Cap /\ sinceRefill = 0 /\ setBack = FALSE /\ granted = FALSE
      /\ load = 0
  BY DEF Init, Bucket!Init, Cap
<1>2. Balanced(Cap, 0, FALSE, 0)
  BY Constants DEF Balanced, Ready
<1> QED BY <1>1, <1>2 DEF BucketInv

LEMMA BucketStep ==
    ASSUME BucketInv, Bucket!Next \/ \E d \in 1 .. MaxSetBack : Bucket!SetBack(d)
    PROVE  BucketInv'
<1>1. SUFFICES /\ granted' \in BOOLEAN
               /\ Balanced(currentTokens', sinceRefill', setBack', load')
  BY DEF BucketInv, Balanced, Ready, Cap, Bucket!Full
<1>2. /\ Balanced(currentTokens, sinceRefill, setBack, load)
      /\ Bucket!Refilled = Ready(currentTokens, sinceRefill)
  BY Refilled DEF BucketInv
<1> DEFINE R == Ready(currentTokens, sinceRefill)
           Kept == granted' \in BOOLEAN
                       /\ Balanced(currentTokens', sinceRefill', setBack', load')
<1>3. ASSUME NEW n \in Requests, Bucket!Allow(n)
      PROVE  Kept
  <2>1. Bucket!Needed(n) \in Nat
    BY Constants
  <2>2. /\ Bucket!Needed(n) <= R /\ currentTokens' = R - Bucket!Needed(n)
        /\ sinceRefill' = IF sinceRefill > 0 THEN 0 ELSE sinceRefill
        /\ granted' = TRUE /\ load' = load + Bucket!Needed(n) /\ setBack' = setBack
    <3>1. R \in Int
      BY <1>2, BalanceMeans
    <3>2. R >= Bucket!Needed(n)
      BY <1>2, <1>3 DEF Bucket!Allow
    <3>3. Bucket!Needed(n) <= R
      BY <2>1, <3>1, <3>2
    <3> QED BY <1>2, <1>3, <3>3 DEF Bucket!Allow, Bucket!Refilling
  <2> HIDE DEF R
  <2>3. Balanced(R - Bucket!Needed(n), sinceRefill', setBack, load + Bucket!Needed(n))
    BY <1>2, <2>1, <2>2, BalancedRequest DEF R
  <2> QED BY <2>2, <2>3
<1>4. ASSUME NEW n \in Requests, Bucket!Deny(n)
      PROVE  Kept
  <2>1. /\ currentTokens' = R
        /\ sinceRefill' = IF sinceRefill > 0 THEN 0 ELSE sinceRefill
        /\ granted' = FALSE /\ load' = load /\ setBack' = setBack
    BY <1>2, <1>4 DEF Bucket!Deny, Bucket!Refilling
  <2>2. R \in Int /\ 0 <= R /\ load \in Int
    BY <1>2, BalanceMeans
  <2>3. Balanced(R - 0, sinceRefill', setBack, load + 0)
    BY <1>2, <2>1, <2>2, BalancedRequest
  <2>4. R - 0 = R /\ load + 0 = load
    BY <2>2
  <2> QED BY <2>1, <2>3, <2>4
<1>5. ASSUME Bucket!Tick
      PROVE  Kept
  <2>1. /\ sinceRefill' = IF sinceRefill < Cap + MaxSetBack THEN sinceRefill + 1
                                                           ELSE sinceRefill
        /\ load' = (IF load > 0 THEN load - 1 ELSE 0)
        /\ granted' = FALSE /\ currentTokens' = currentTokens /\ setBack' = setBack
    BY <1>5 DEF Bucket!Tick, Cap
  <2> QED BY <1>2, <2>1, BalancedTick
<1>6. ASSUME NEW d \in 1 .. MaxSetBack, Bucket!SetBack(d)
      PROVE  Kept
  <2>1. /\ ~setBack /\ setBack' = TRUE /\ sinceRefill' = sinceRefill - d
        /\ granted' = FALSE /\ currentTokens' = currentTokens /\ load' = load
    BY <1>6 DEF Bucket!SetBack
  <2>2. setBack = FALSE
    BY <1>2, <2>1, BalanceMeans
  <2>3. Balanced(currentTokens, sinceRefill, FALSE, load)
    BY <1>2, <2>2
  <2>4. Balanced(currentTokens, sinceRefill - d, TRUE, load)
    BY <2>3, BalancedSetBack
  <2> QED BY <2>1, <2>4
<1> QED BY <1>3, <1>4, <1>5, <1>6 DEF Bucket!Next, Bucket!allowRequest

LEMMA BucketSound ==
    ASSUME BucketInv
    PROVE  Bucket!WithinLimit /\ Bucket!DeniesOnlyAtLimit
<1> DEFINE R == Ready(currentTokens, sinceRefill)
<1>1. /\ Bucket!Refilled = R /\ R \in Nat /\ load \in Nat /\ Cap \in Nat
      /\ load + R <= Cap
      /\ ~setBack => load + R >= Cap
  <2>1. Balanced(currentTokens, sinceRefill, setBack, load)
    BY DEF BucketInv
  <2> HIDE DEF R
  <2>2. /\ R \in Int /\ 0 <= R /\ load \in Int /\ 0 <= load /\ Cap \in Int /\ 0 < Cap
        /\ load + R <= Cap
        /\ setBack \/ load + R >= Cap
    BY <2>1, BalanceMeans DEF R
  <2>3. Bucket!Refilled = R
    BY Refilled DEF R
  <2> QED BY <2>2, <2>3
<1> HIDE DEF R
<1>2. Bucket!WithinLimit
  <2>1. load <= Cap
    BY <1>1
  <2> QED BY <1>1, <2>1 DEF Bucket!WithinLimit, Bucket!TypeOK, BucketInv, Balanced, Cap
<1>3. ASSUME ~setBack, NEW n \in Requests, ~Bucket!Admits(n)
      PROVE  load + Bucket!Needed(n) > Cap
  <2>1. Bucket!Needed(n) \in Nat
    BY Constants
  <2>2. ~(R >= Bucket!Needed(n))
    BY <1>1, <1>3 DEF Bucket!Admits
  <2> QED BY <1>1, <1>3, <2>1, <2>2
<1> QED BY <1>2, <1>3 DEF Bucket!DeniesOnlyAtLimit, Cap

-----------------------------------------------------------------------------
(* Sequences seen from their end.                                          *)
Latest(s, i) == Sliding!Latest(s, i)

LEMMA Appended ==
    ASSUME NEW S, NEW s \in Seq(S), NEW e \in S
    PROVE  /\ Append(s, e) \in Seq(S) /\ Len(Append(s, e)) = Len(s) + 1
           /\ Latest(Append(s, e), 0) = e
           /\ \A i \in 1 .. Len(s) : Latest(Append(s, e), i) = Latest(s, i - 1)
<1>1. /\ Append(s, e) \in Seq(S) /\ Len(Append(s, e)) = Len(s) + 1 /\ Len(s) \in Nat
      /\ Append(s, e)[Len(s) + 1] = e
      /\ \A j \in 1 .. Len(s) : Append(s, e)[j] = s[j]
  BY AppendProperties, LenProperties
<1>2. Latest(Append(s, e), 0) = e
  BY <1>1 DEF Latest, Sliding!Latest
<1>3. ASSUME NEW i \in 1 .. Len(s)
      PROVE  Latest(Append(s, e), i) = Latest(s, i - 1)
  <2>1. Len(s) + 1 - i \in 1 .. Len(s) /\ Len(s) + 1 - i = Len(s) - (i - 1)
    BY <1>1
  <2> QED BY <1>1, <2>1 DEF Latest, Sliding!Latest
<1> QED BY <1>1, <1>2, <1>3

LEMMA Suffix ==
    ASSUME NEW S, NEW s \in Seq(S), NEW n \in 1 .. Len(s) + 1
    PROVE  /\ SubSeq(s, n, Len(s)) \in Seq(S)
           /\ Len(SubSeq(s, n, Len(s))) = Len(s) + 1 - n
           /\ \A i \in 0 .. Len(s) - n : Latest(SubSeq(s, n, Len(s)), i) = Latest(s, i)
<1> DEFINE l == Len(s)
           r == SubSeq(s, n, l)
<1>1. l \in Nat /\ \A j \in n .. l : s[j] \in S
  BY LenProperties, ElementOfSeq
<1> HIDE DEF l
<1>2. n \in 1 .. l + 1 /\ n \in Int /\ l \in Int
  BY <1>1 DEF l
<1>3. /\ r \in Seq(S) /\ Len(r) = IF n <= l THEN l - n + 1 ELSE 0
      /\ \A j \in 1 .. l - n + 1 : r[j] = s[n + j - 1]
  BY <1>1, <1>2, SubSeqProperties
<1> HIDE DEF r
<1>4. Len(r) = l + 1 - n
  BY <1>2, <1>3
<1>5. ASSUME NEW i \in 0 .. l - n
      PROVE  Latest(r, i) = Latest(s, i)
  <2>1. (l + 1 - n) - i \in 1 .. l - n + 1 /\ n + ((l + 1 - n) - i) - 1 = l - i
    BY <1>2
  <2> QED BY <1>3, <1>4, <2>1 DEF Latest, Sliding!Latest, l
<1> QED BY <1>3, <1>4, <1>5 DEF r, l

(* A sequence whose entries change in place.                               *)
LEMMA InPlace ==
    ASSUME NEW S, NEW s \in Seq(S), NEW T, NEW r,
           r = [k \in DOMAIN s |-> r[k]], \A k \in DOMAIN s : r[k] \in T
    PROVE  r \in Seq(T) /\ Len(r) = Len(s)
<1>1. DOMAIN s = 1 .. Len(s) /\ Len(s) \in Nat
  BY LenProperties
<1>2. r \in [1 .. Len(s) -> T]
  BY <1>1
<1>3. r \in Seq(T)
  BY <1>1, <1>2, SeqDef
<1>4. Len(r) = Len(s)
  BY <1>1, <1>2, <1>3, LenProperties
<1> QED BY <1>3, <1>4

(* The least of a set of numbers.                                          *)
LEMMA Least ==
    ASSUME NEW S \in SUBSET Nat, S # {}
    PROVE  \E n \in S : \A m \in S : n <= m
<1> DEFINE R == OpToRel(<, Nat)
<1>1. IsWellFoundedOn(R, Nat)
  BY NatLessThanWellFounded, Zenon
<1> HIDE DEF R
<1>2. PICK n \in S : \A m \in S : ~(<<m, n>> \in R)
  BY <1>1, WFMin
<1>3. ASSUME NEW m \in S
      PROVE  n <= m
  <2>1. ~(m < n)
    BY <1>2 DEF R, OpToRel
  <2> QED BY <2>1
<1> QED BY <1>3

(* What is left of a queue when its expired front was popped.              *)
LEMMA FrontPopped ==
    ASSUME NEW q \in Seq(Int), NEW r, r = Sliding!Cleaned(q), NEW n, n = Len(r)
    PROVE  /\ r \in Seq(Int) /\ n \in Nat /\ n <= Len(q)
           /\ \A i \in 0 .. n - 1 : Latest(r, i) = Latest(q, i)
           /\ \A i \in n .. Len(q) - 1 : Latest(q, i) > windowSeconds
           /\ n > 0 => ~(Latest(q, n - 1) > windowSeconds)
<1> DEFINE l == Len(q)
<1>1. l \in Nat /\ \A j \in 1 .. l : q[j] \in Int
  BY LenProperties, ElementOfSeq
<1> DEFINE Stays(m) == /\ \A j \in 1 .. m - 1 : Sliding!Expired(q[j])
                       /\ m <= l => ~Sliding!Expired(q[m])
<1>2. \E m \in 1 .. l + 1 : Stays(m)
  <2> DEFINE T == {m \in 1 .. l + 1 : m <= l => ~Sliding!Expired(q[m])}
  <2>1. T \in SUBSET Nat /\ l + 1 \in T
    BY <1>1
  <2>2. PICK m \in T : \A j \in T : m <= j
    BY <2>1, Least
  <2>3. ASSUME NEW j \in 1 .. m - 1
        PROVE  Sliding!Expired(q[j])
    <3>1. m \in Nat /\ m <= l + 1 /\ j \in Nat /\ j < m /\ j \in 1 .. l + 1
      BY <1>1, <2>1
    <3>2. j \notin T
      BY <2>2, <3>1
    <3> QED BY <3>1, <3>2
  <2> QED BY <2>3
<1> DEFINE f == Sliding!Front(q)
<1>3. f \in 1 .. l + 1 /\ Stays(f)
  BY <1>2 DEF Sliding!Front
<1>4. r = SubSeq(q, f, l)
  BY DEF Sliding!Cleaned
<1> HIDE DEF f, l, Stays
<1>5. f \in 1 .. Len(q) + 1
  BY <1>3 DEF l
<1>6. /\ r \in Seq(Int) /\ Len(r) = l + 1 - f
      /\ \A i \in 0 .. l - f : Latest(r, i) = Latest(q, i)
  BY <1>4, <1>5, Suffix DEF l
<1>7. n \in Nat /\ n <= l /\ n = l + 1 - f
  BY <1>1, <1>3, <1>6
<1>8. ASSUME NEW i \in n .. l - 1
      PROVE  Latest(q, i) > windowSeconds
  <2>1. l - i \in 1 .. f - 1
    BY <1>1, <1>3, <1>7
  <2>2. Sliding!Expired(q[l - i])
    BY <1>3, <2>1 DEF Stays
  <2> QED BY <2>2 DEF Sliding!Expired, Latest, Sliding!Latest, l
<1>9. n > 0 => ~(Latest(q, n - 1) > windowSeconds)
  <2>1. SUFFICES ASSUME n > 0 PROVE ~(Latest(q, n - 1) > windowSeconds)
    OBVIOUS
  <2>2. f <= l /\ l - (n - 1) = f
    BY <1>1, <1>3, <1>7, <2>1
  <2>3. ~Sliding!Expired(q[f])
    BY <1>3, <2>2 DEF Stays
  <2> QED BY <2>2, <2>3 DEF Sliding!Expired, Latest, Sliding!Latest, l
<1>10. \A i \in 0 .. n - 1 : Latest(r, i) = Latest(q, i)
  <2>1. n - 1 = l - f
    BY <1>1, <1>3, <1>7
  <2> QED BY <1>6, <2>1
<1> QED BY <1>6, <1>7, <1>8, <1>9, <1>10 DEF l

-----------------------------------------------------------------------------
(* The windows.  A clock of P ticks a second that counts whole seconds is  *)
(* wrong about the age t of a request, seen as s, by less than a second:   *)
(* never too late, however much it is set back, and too early only if it   *)
(* was.  Ages over the window may have stopped to grow.                    *)
Oldest == Sliding!Oldest
W == windowSeconds
Close(s, t, f, back, P) ==
    /\ s \in Int /\ -MaxSetBack <= s /\ s <= Oldest /\ (back \/ 0 <= s)
    /\ t \in Nat
    /\ t < (W + 1) * P => s * P <= t + P - 1 - f
    /\ back \/ s > W \/ t - f <= s * P

LEMMA Products ==
    ASSUME NEW P \in Nat \ {0}, NEW x \in Int, NEW y \in Int
    PROVE  /\ x * P \in Int /\ (x + 1) * P = x * P + P /\ 0 * P = 0
           /\ x <= y => x * P <= y * P
OBVIOUS

LEMMA CloseNew ==
    ASSUME NEW P \in Nat \ {0}, NEW f \in 0 .. P - 1, NEW back \in BOOLEAN
    PROVE  Close(0, 0, f, back, P)
<1>1. 0 * P = 0 /\ W \in Nat /\ MaxSetBack \in Nat /\ P \in Nat /\ f \in Nat /\ f <= P - 1
  BY Constants DEF W
<1> QED BY <1>1 DEF Close, Oldest, Sliding!Oldest, W

LEMMA CloseTick ==
    ASSUME NEW P \in Nat \ {0}, NEW f \in 0 .. P - 1, NEW back \in BOOLEAN,
           NEW s, NEW t, Close(s, t, f, back, P),
           NEW f2, f2 = (f + 1) % P,
           NEW s2, s2 = IF f2 # 0 THEN s ELSE Sliding!Older(s),
           NEW t2, t2 = IF t < (W + 1) * P THEN t + 1 ELSE t
    PROVE  Close(s2, t2, f2, back, P)
<1> DEFINE edge == (W + 1) * P
           sp == s * P
           s2p == s2 * P
<1>1. f2 = IF f + 1 = P THEN 0 ELSE f + 1
  BY ONLY P \in Nat \ {0}, f \in 0 .. P - 1, f2 = (f + 1) % P
<1>2. /\ s \in Int /\ -MaxSetBack <= s /\ s <= Oldest /\ (back \/ 0 <= s)
      /\ t \in Nat
      /\ t < edge => sp <= t + P - 1 - f
      /\ back \/ s > W \/ t - f <= sp
  BY DEF Close
<1>3. P \in Nat /\ 0 < P /\ f \in Nat /\ W \in Nat /\ Oldest \in Nat /\ Oldest > W
  BY Constants DEF W, Oldest, Sliding!Oldest
<1>4. s2 = IF f2 # 0 \/ s = Oldest THEN s ELSE s + 1
  BY <1>2, <1>3 DEF Sliding!Older, Oldest
<1>5. sp \in Int /\ s2p \in Int /\ edge \in Int /\ (s2 = s + 1 => s2p = sp + P)
  BY <1>2, <1>3, <1>4, Products
<1>6. t2 = IF t < edge THEN t + 1 ELSE t
  OBVIOUS
<1>7. s2 = s => s2p = sp
  OBVIOUS
<1> HIDE DEF edge, sp, s2p
<1>8. s2 \in Int /\ -MaxSetBack <= s2 /\ s2 <= Oldest /\ (back \/ 0 <= s2) /\ t2 \in Nat
  BY <1>2, <1>3, <1>4, <1>6, Constants
<1>9. t2 < edge => s2p <= t2 + P - 1 - f2
  BY <1>1, <1>2, <1>3, <1>4, <1>5, <1>6, <1>7
<1>10. back \/ s2 > W \/ t2 - f2 <= s2p
  BY <1>1, <1>2, <1>3, <1>4, <1>5, <1>6, <1>7
<1> QED BY <1>8, <1>9, <1>10 DEF Close, edge, s2p

LEMMA CloseSetBack ==
    ASSUME NEW P \in Nat \ {0}, NEW f \in 0 .. P - 1, NEW s, NEW t,
           Close(s, t, f, FALSE, P), NEW d \in 1 .. MaxSetBack
    PROVE  Close(s - d, t, f, TRUE, P)
<1>1. /\ s \in Int /\ 0 <= s /\ s <= Oldest /\ t \in Nat
      /\ t < (W + 1) * P => s * P <= t + P - 1 - f
      /\ P \in Nat /\ f \in Nat /\ d \in Nat /\ 1 <= d /\ d <= MaxSetBack
      /\ MaxSetBack \in Nat /\ Oldest \in Int
  BY Constants DEF Close, Oldest, Sliding!Oldest
<1>2. (s - d) * P <= s * P /\ (s - d) * P \in Int /\ s * P \in Int
  BY <1>1, Products
<1>3. t < (W + 1) * P => (s - d) * P <= t + P - 1 - f
  BY <1>1, <1>2
<1>4. s - d \in Int /\ -MaxSetBack <= s - d /\ s - d <= Oldest
  BY <1>1
<1> QED BY <1>1, <1>3, <1>4 DEF Close

(* What the clock says of a request decides rightly.                       *)
LEMMA CloseDecides ==
    ASSUME NEW P \in Nat \ {0}, NEW f \in 0 .. P - 1, NEW back \in BOOLEAN,
           NEW s, NEW t, Close(s, t, f, back, P)
    PROVE  /\ s > W => t > W * P
           /\ ~back /\ ~(s > W) => t < (W + 1) * P
<1>1. /\ s \in Int /\ t \in Nat /\ W \in Nat /\ P \in Nat /\ 0 < P /\ f \in Nat /\ f <= P - 1
      /\ t < (W + 1) * P => s * P <= t + P - 1 - f
      /\ back \/ s > W \/ t - f <= s * P
  BY Constants DEF Close, W
<1>2. (W + 1) * P = W * P + P /\ W * P \in Int /\ s * P \in Int /\ (W + 1) * P \in Int
  BY <1>1, Products
<1>3. ASSUME s > W
      PROVE  t > W * P
  <2>1. (W + 1) * P <= s * P
    BY <1>1, <1>3, Products
  <2> QED BY <1>1, <1>2, <2>1
<1>4. ASSUME ~back, ~(s > W)
      PROVE  t < (W + 1) * P
  <2>1. s * P <= W * P
    BY <1>1, <1>4, Products
  <2> QED BY <1>1, <1>2, <1>4, <2>1
<1> QED BY <1>3, <1>4

(* The queue h of a client holds the latest of the allowed requests a, of  *)
(* which those that it has dropped are out of the window.                  *)
Kept(h, a, f, back, P) ==
    /\ h \in Seq(Int) /\ a \in Seq(Nat)
    /\ Len(h) <= limit /\ Len(h) <= Len(a) /\ Len(a) <= limit + 1
    /\ \A i \in 0 .. Len(h) - 1 : Close(Latest(h, i), Latest(a, i), f, back, P)
    /\ \A i \in Len(h) .. Len(a) - 1 : Latest(a, i) > W * P

LEMMA KeptCleaned ==
    ASSUME NEW P \in Nat \ {0}, NEW f \in 0 .. P - 1, NEW back \in BOOLEAN,
           NEW h, NEW a, Kept(h, a, f, back, P)
    PROVE  Kept(Sliding!Cleaned(h), a, f, back, P)
<1> DEFINE r == Sliding!Cleaned(h)
           n == Len(r)
           lh == Len(h)
           la == Len(a)
<1>1. /\ h \in Seq(Int) /\ a \in Seq(Nat) /\ lh \in Nat /\ la \in Nat
      /\ lh <= limit /\ lh <= la /\ la <= limit + 1 /\ limit \in Nat
      /\ \A i \in 0 .. lh - 1 : Close(Latest(h, i), Latest(a, i), f, back, P)
      /\ \A i \in lh .. la - 1 : Latest(a, i) > W * P
  BY LenProperties, Constants DEF Kept
<1>2. /\ r \in Seq(Int) /\ n \in Nat /\ n <= lh
      /\ \A i \in 0 .. n - 1 : Latest(r, i) = Latest(h, i)
      /\ \A i \in n .. lh - 1 : Latest(h, i) > W
  <2>1. h \in Seq(Int)
    BY <1>1
  <2>2. /\ r \in Seq(Int) /\ n \in Nat /\ n <= Len(h)
        /\ \A i \in 0 .. n - 1 : Latest(r, i) = Latest(h, i)
        /\ \A i \in n .. Len(h) - 1 : Latest(h, i) > windowSeconds
    BY ONLY <2>1, FrontPopped
  <2> QED BY <2>2 DEF W
<1> HIDE DEF r, n, lh, la
<1>3. ASSUME NEW i \in 0 .. n - 1
      PROVE  Close(Latest(r, i), Latest(a, i), f, back, P)
  <2>1. i \in 0 .. lh - 1
    BY <1>1, <1>2
  <2> QED BY <1>1, <1>2, <2>1
<1>4. ASSUME NEW i \in n .. la - 1
      PROVE  Latest(a, i) > W * P
  <2>1. CASE i < lh
    <3>1. i \in 0 .. lh - 1 /\ i \in n .. lh - 1
      BY <1>1, <1>2, <2>1
    <3>2. Close(Latest(h, i), Latest(a, i), f, back, P) /\ Latest(h, i) > W
      BY <1>1, <1>2, <3>1
    <3> QED BY <3>2, CloseDecides
  <2>2. CASE ~(i < lh)
    <3>1. i \in lh .. la - 1
      BY <1>1, <1>2, <2>2
    <3> QED BY <1>1, <3>1
  <2> QED BY <2>1, <2>2
<1>5. n <= limit /\ n <= la
  BY <1>1, <1>2
<1> QED BY <1>1, <1>2, <1>3, <1>4, <1>5 DEF Kept, n, la, r

LEMMA RememberedLatest ==
    ASSUME NEW a \in Seq(Nat), Len(a) <= limit + 1, NEW b, b = Sliding!Remembered(a)
    PROVE  /\ b \in Seq(Nat) /\ Len(b) <= limit /\ Len(b) <= Len(a)
           /\ Len(b) = limit \/ Len(b) = Len(a)
           /\ \A i \in 0 .. Len(b) - 1 : Latest(b, i) = Latest(a, i)
<1>1. Len(a) \in Nat /\ limit \in Nat \ {0}
  BY LenProperties, Constants
<1>2. CASE Len(a) > limit
  <2>1. Len(a) = limit + 1 /\ 2 \in 1 .. Len(a) + 1 /\ Len(a) # 0
    BY <1>1, <1>2
  <2>2. b = SubSeq(a, 2, Len(a))
    <3>1. a # <<>>
      BY <2>1
    <3>2. b = Tail(a)
      BY <1>2 DEF Sliding!Remembered
    <3> QED BY <3>1, <3>2, TailIsSubSeq
  <2>3. /\ b \in Seq(Nat) /\ Len(b) = Len(a) + 1 - 2
        /\ \A i \in 0 .. Len(a) - 2 : Latest(b, i) = Latest(a, i)
    BY <2>1, <2>2, Suffix
  <2>4. Len(b) = limit /\ Len(a) - 2 = Len(b) - 1
    BY <1>1, <2>1, <2>3
  <2> QED BY <1>1, <2>1, <2>3, <2>4
<1>3. CASE ~(Len(a) > limit)
  BY <1>1, <1>3 DEF Sliding!Remembered
<1> QED BY <1>2, <1>3

LEMMA KeptAllowed ==
    ASSUME NEW P \in Nat \ {0}, NEW f \in 0 .. P - 1, NEW back \in BOOLEAN,
           NEW h, NEW a, Kept(h, a, f, back, P), Len(h) < limit
    PROVE  Kept(Append(h, 0), Append(Sliding!Remembered(a), 0), f, back, P)
<1> DEFINE b == Sliding!Remembered(a)
           h2 == Append(h, 0)
           a2 == Append(b, 0)
           lh == Len(h)
           la == Len(a)
           lb == Len(b)
<1>1. /\ h \in Seq(Int) /\ a \in Seq(Nat) /\ lh \in Nat /\ la \in Nat
      /\ lh < limit /\ lh <= la /\ la <= limit + 1 /\ limit \in Nat
      /\ \A i \in 0 .. lh - 1 : Close(Latest(h, i), Latest(a, i), f, back, P)
      /\ \A i \in lh .. la - 1 : Latest(a, i) > W * P
  BY LenProperties, Constants DEF Kept
<1>2. /\ b \in Seq(Nat) /\ lb <= limit /\ lb <= la /\ (lb = limit \/ lb = la)
      /\ \A i \in 0 .. lb - 1 : Latest(b, i) = Latest(a, i)
  BY <1>1, RememberedLatest
<1>3. lb \in Nat
  BY <1>2, LenProperties
<1>4. /\ h2 \in Seq(Int) /\ Len(h2) = lh + 1 /\ Latest(h2, 0) = 0
      /\ \A i \in 1 .. lh : Latest(h2, i) = Latest(h, i - 1)
  BY <1>1, Appended
<1> HIDE DEF b
<1>5. /\ a2 \in Seq(Nat) /\ Len(a2) = lb + 1 /\ Latest(a2, 0) = 0
      /\ \A i \in 1 .. lb : Latest(a2, i) = Latest(b, i - 1)
  BY <1>2, Appended
<1> HIDE DEF h2, a2, lh, la, lb
<1>6. lh <= lb /\ lh + 1 <= limit /\ lh + 1 <= lb + 1 /\ lb + 1 <= limit + 1
  BY <1>1, <1>2, <1>3
<1>7. ASSUME NEW i \in 0 .. (lh + 1) - 1
      PROVE  Close(Latest(h2, i), Latest(a2, i), f, back, P)
  <2>1. CASE i = 0
    BY <1>4, <1>5, <2>1, CloseNew
  <2>2. CASE i # 0
    <3>1. i \in 1 .. lh /\ i \in 1 .. lb /\ i - 1 \in 0 .. lh - 1 /\ i - 1 \in 0 .. lb - 1
      BY <1>1, <1>3, <1>6, <2>2
    <3>2. Latest(h2, i) = Latest(h, i - 1) /\ Latest(a2, i) = Latest(a, i - 1)
      BY <1>2, <1>4, <1>5, <3>1
    <3> QED BY <1>1, <3>1, <3>2
  <2> QED BY <2>1, <2>2
<1>8. ASSUME NEW i \in lh + 1 .. (lb + 1) - 1
      PROVE  Latest(a2, i) > W * P
  <2>1. i \in 1 .. lb /\ i - 1 \in 0 .. lb - 1 /\ i - 1 \in lh .. la - 1
    BY <1>1, <1>2, <1>3
  <2>2. Latest(a2, i) = Latest(a, i - 1)
    BY <1>2, <1>5, <2>1
  <2> QED BY <1>1, <2>1, <2>2
<1> QED BY <1>4, <1>5, <1>6, <1>7, <1>8 DEF Kept, h2, a2, b

LEMMA KeptTick ==
    ASSUME NEW P \in Nat \ {0}, NEW f \in 0 .. P - 1, NEW back \in BOOLEAN,
           NEW h, NEW a, Kept(h, a, f, back, P),
           NEW f2, f2 = (f + 1) % P,
           NEW h2, h2 = IF f2 # 0 THEN h ELSE [k \in DOMAIN h |-> Sliding!Older(h[k])],
           NEW a2, a2 = [k \in DOMAIN a |-> IF a[k] < (W + 1) * P THEN a[k] + 1 ELSE a[k]]
    PROVE  Kept(h2, a2, f2, back, P)
<1>1. /\ h \in Seq(Int) /\ a \in Seq(Nat) /\ Len(h) \in Nat /\ Len(a) \in Nat
      /\ DOMAIN h = 1 .. Len(h) /\ DOMAIN a = 1 .. Len(a)
      /\ Len(h) <= Len(a)
  BY LenProperties DEF Kept
<1>2. h2 \in Seq(Int) /\ Len(h2) = Len(h)
  <2>1. CASE f2 # 0
    BY <1>1, <2>1
  <2>2. CASE f2 = 0
    <3>1. h2 = [k \in DOMAIN h |-> h2[k]]
      BY <2>2
    <3>2. \A k \in DOMAIN h : h2[k] \in Int
      <4>1. SUFFICES ASSUME NEW k \in DOMAIN h PROVE h2[k] \in Int
        OBVIOUS
      <4>2. h[k] \in Int
        BY <1>1, ElementOfSeq
      <4>3. h2[k] = h[k] \/ h2[k] = h[k] + 1
        BY <2>2 DEF Sliding!Older
      <4> QED BY <4>2, <4>3
    <3> QED BY <1>1, <3>1, <3>2, InPlace
  <2> QED BY <2>1, <2>2
<1>3. a2 \in Seq(Nat) /\ Len(a2) = Len(a)
  <2>1. a2 = [k \in DOMAIN a |-> a2[k]]
    OBVIOUS
  <2>2. \A k \in DOMAIN a : a2[k] \in Nat
    <3>1. SUFFICES ASSUME NEW k \in DOMAIN a PROVE a2[k] \in Nat
      OBVIOUS
    <3>2. a[k] \in Nat
      BY <1>1, ElementOfSeq
    <3>3. a2[k] = a[k] \/ a2[k] = a[k] + 1
      OBVIOUS
    <3> QED BY <3>2, <3>3
  <2> QED BY <1>1, <2>1, <2>2, InPlace
<1>4. ASSUME NEW i \in 0 .. Len(a) - 1
      PROVE  Latest(a2, i) = IF Latest(a, i) < (W + 1) * P THEN Latest(a, i) + 1
                             ELSE Latest(a, i)
  <2>1. Len(a) - i \in DOMAIN a
    <3>1. Len(a) \in Nat /\ DOMAIN a = 1 .. Len(a) /\ i \in 0 .. Len(a) - 1
      BY <1>1
    <3> QED BY ONLY <3>1
  <2> QED BY <1>3, <2>1 DEF Latest, Sliding!Latest
<1>5. ASSUME NEW i \in 0 .. Len(h) - 1
      PROVE  Close(Latest(h2, i), Latest(a2, i), f2, back, P)
  <2>1. Len(h) - i \in DOMAIN h /\ i \in 0 .. Len(a) - 1
    <3>1. /\ Len(h) \in Nat /\ Len(a) \in Nat /\ Len(h) <= Len(a)
          /\ DOMAIN h = 1 .. Len(h) /\ i \in 0 .. Len(h) - 1
      BY <1>1
    <3> QED BY ONLY <3>1
  <2>2. Latest(h2, i) = IF f2 # 0 THEN Latest(h, i) ELSE Sliding!Older(Latest(h, i))
    BY <1>2, <2>1 DEF Latest, Sliding!Latest
  <2>3. Close(Latest(h, i), Latest(a, i), f, back, P)
    BY DEF Kept
  <2>4. Latest(a2, i) = IF Latest(a, i) < (W + 1) * P THEN Latest(a, i) + 1 ELSE Latest(a, i)
    BY <1>4, <2>1
  <2> QED BY <2>2, <2>3, <2>4, CloseTick
<1>6. ASSUME NEW i \in Len(h) .. Len(a) - 1
      PROVE  Latest(a2, i) > W * P
  <2>1. i \in 0 .. Len(a) - 1 /\ Latest(a, i) > W * P
    BY <1>1 DEF Kept
  <2>2. Latest(a, i) \in Nat
    <3>1. a \in Seq(Nat) /\ Len(a) \in Nat
      BY <1>1
    <3>2. Len(a) - i \in 1 .. Len(a)
      BY ONLY <2>1, <3>1
    <3>3. a[Len(a) - i] \in Nat
      BY ONLY <3>1, <3>2, ElementOfSeq
    <3> QED BY <3>3 DEF Latest, Sliding!Latest
  <2>3. W * P \in Int
    BY Constants, Products DEF W
  <2>4. Latest(a2, i) = Latest(a, i) \/ Latest(a2, i) = Latest(a, i) + 1
    BY <1>4, <2>1
  <2> QED BY <2>1, <2>2, <2>3, <2>4
<1> QED BY <1>2, <1>3, <1>5, <1>6 DEF Kept

LEMMA KeptSetBack ==
    ASSUME NEW P \in Nat \ {0}, NEW f \in 0 .. P - 1, NEW h, NEW a, Kept(h, a, f, FALSE, P),
           NEW d \in 1 .. MaxSetBack,
           NEW h2, h2 = [k \in DOMAIN h |-> h[k] - d]
    PROVE  Kept(h2, a, f, TRUE, P)
<1>1. /\ h \in Seq(Int) /\ Len(h) \in Nat /\ DOMAIN h = 1 .. Len(h) /\ d \in Int
  BY LenProperties DEF Kept
<1>2. h2 \in Seq(Int) /\ Len(h2) = Len(h)
  <2>1. h2 = [k \in DOMAIN h |-> h2[k]]
    OBVIOUS
  <2>2. \A k \in DOMAIN h : h2[k] \in Int
    <3>1. \A k \in DOMAIN h : h[k] \in Int
      BY <1>1, ElementOfSeq
    <3> QED BY <1>1, <3>1
  <2> QED BY <1>1, <2>1, <2>2, InPlace
<1>3. ASSUME NEW i \in 0 .. Len(h) - 1
      PROVE  Close(Latest(h2, i), Latest(a, i), f, TRUE, P)
  <2>1. Len(h) - i \in DOMAIN h
    <3>1. Len(h) \in Nat /\ DOMAIN h = 1 .. Len(h) /\ i \in 0 .. Len(h) - 1
      BY <1>1
    <3> QED BY ONLY <3>1
  <2>2. Latest(h2, i) = Latest(h, i) - d
    BY <1>2, <2>1 DEF Latest, Sliding!Latest
  <2>3. Close(Latest(h, i), Latest(a, i), f, FALSE, P)
    BY DEF Kept
  <2> QED BY <2>2, <2>3, CloseSetBack
<1> QED BY <1>2, <1>3 DEF Kept

(* The two promises of a limiter about one client.                         *)
LEMMA KeptSound ==
    ASSUME NEW P \in Nat \ {0}, NEW f \in 0 .. P - 1, NEW back \in BOOLEAN,
           NEW h, NEW a, Kept(h, a, f, back, P)
    PROVE  /\ h \in Seq(-MaxSetBack .. Oldest) /\ Len(h) <= limit /\ a \in Seq(Nat)
           /\ Len(a) > limit => Latest(a, limit) > W * P
           /\ ~back /\ ~(Len(Sliding!Cleaned(h)) < limit)
                  => Len(a) >= limit /\ Latest(a, limit - 1) < (W + 1) * P
<1>1. /\ h \in Seq(Int) /\ a \in Seq(Nat) /\ Len(h) \in Nat /\ Len(a) \in Nat
      /\ DOMAIN h = 1 .. Len(h) /\ limit \in Nat \ {0}
      /\ Len(h) <= limit /\ Len(h) <= Len(a) /\ Len(a) <= limit + 1
  BY LenProperties, Constants DEF Kept
<1>2. h \in Seq(-MaxSetBack .. Oldest)
  <2>1. ASSUME NEW k \in DOMAIN h
        PROVE  h[k] \in -MaxSetBack .. Oldest
    <3>1. Len(h) - k \in 0 .. Len(h) - 1 /\ Len(h) - (Len(h) - k) = k
      BY <1>1
    <3>2. Close(Latest(h, Len(h) - k), Latest(a, Len(h) - k), f, back, P)
      BY <3>1 DEF Kept
    <3>3. Latest(h, Len(h) - k) = h[k]
      BY <3>1 DEF Latest, Sliding!Latest
    <3>4. Oldest \in Int /\ MaxSetBack \in Int
      BY Constants DEF Oldest, Sliding!Oldest
    <3> QED BY <3>2, <3>3, <3>4 DEF Close
  <2>2. h = [k \in DOMAIN h |-> h[k]]
    BY <1>1, LenProperties
  <2> QED BY <1>1, <2>1, <2>2, InPlace
<1>3. ASSUME Len(a) > limit
      PROVE  Latest(a, limit) > W * P
  <2>1. limit \in Len(h) .. Len(a) - 1
    BY <1>1, <1>3
  <2> QED BY <2>1 DEF Kept
<1>4. ASSUME ~back, ~(Len(Sliding!Cleaned(h)) < limit)
      PROVE  Len(a) >= limit /\ Latest(a, limit - 1) < (W + 1) * P
  <2> DEFINE n == Len(Sliding!Cleaned(h))
  <2>1. /\ n \in Nat /\ n <= Len(h)
        /\ n > 0 => ~(Latest(h, n - 1) > W)
    BY <1>1, FrontPopped DEF W
  <2> HIDE DEF n
  <2>2. ~(n < limit)
    BY <1>4 DEF n
  <2> DEFINE lh == Len(h)
             la == Len(a)
  <2>6. /\ lh \in Nat /\ la \in Nat /\ limit \in Nat \ {0} /\ n \in Nat
        /\ lh <= limit /\ lh <= la /\ n <= lh
    BY <1>1, <2>1
  <2> HIDE DEF lh, la
  <2>7. n = limit /\ lh = limit /\ n > 0 /\ la >= limit /\ limit - 1 \in 0 .. lh - 1
    BY ONLY <2>2, <2>6
  <2>3. n = limit /\ Len(h) = limit /\ n > 0 /\ Len(a) >= limit /\ limit - 1 \in 0 .. Len(h) - 1
    BY <2>7 DEF lh, la
  <2>4. Close(Latest(h, limit - 1), Latest(a, limit - 1), f, back, P)
    BY <2>3 DEF Kept
  <2>5. ~(Latest(h, limit - 1) > W)
    BY <2>1, <2>3
  <2> QED BY <1>4, <2>3, <2>4, <2>5, CloseDecides
<1> QED BY <1>1, <1>2, <1>3, <1>4

-----------------------------------------------------------------------------
(* The windows, with P ticks to the second of their clock: every client's  *)
(* queue is kept.                                                          *)
WindowInv(P) ==
    /\ phase \in 0 .. P - 1 /\ setBack \in BOOLEAN /\ served \in Clients \cup {Nobody}
    /\ DOMAIN history = Clients /\ DOMAIN admitted = Clients
    /\ history = [c \in Clients |-> history[c]]
    /\ admitted = [c \in Clients |-> admitted[c]]
    /\ \A c \in Clients : Kept(history[c], admitted[c], phase, setBack, P)

(* The initial states and the steps of a limiter with such a clock.        *)
Started(P) == /\ phase \in 0 .. P - 1 /\ setBack = FALSE /\ served = Nobody
              /\ history = [c \in Clients |-> <<>>]
              /\ admitted = [c \in Clients |-> <<>>]
Allows(c) ==
    /\ Len(Sliding!Cleaned(history[c])) < limit
    /\ history' = [history EXCEPT ![c] = Append(Sliding!Cleaned(history[c]), 0)]
    /\ admitted' = [admitted EXCEPT ![c] = Append(Sliding!Remembered(admitted[c]), 0)]
    /\ served' = c /\ UNCHANGED <<phase, setBack>>
Denies(c) ==
    /\ history' = [history EXCEPT ![c] = Sliding!Cleaned(history[c])]
    /\ served' = Nobody /\ UNCHANGED <<phase, setBack, admitted>>
Ticks(P) ==
    /\ phase' = (phase + 1) % P
    /\ history' = IF phase' # 0 THEN history
                  ELSE [c \in Clients |->
                           [k \in DOMAIN history[c] |-> Sliding!Older(history[c][k])]]
    /\ admitted' = [c \in Clients |->
                       [k \in DOMAIN admitted[c] |->
                           IF admitted[c][k] < (W + 1) * P THEN admitted[c][k] + 1
                           ELSE admitted[c][k]]]
    /\ served' = Nobody /\ UNCHANGED setBack
SetsBack(d) ==
    /\ ~setBack /\ setBack' = TRUE
    /\ history' = [c \in Clients |-> [k \in DOMAIN history[c] |-> history[c][k] - d]]
    /\ served' = Nobody /\ UNCHANGED <<phase, admitted>>

LEMMA WindowInit ==
    ASSUME NEW P \in Nat \ {0}, Started(P)
    PROVE  WindowInv(P)
<1>1. Kept(<<>>, <<>>, phase, FALSE, P)
  <2>1. /\ <<>> \in Seq(Int) /\ <<>> \in Seq(Nat) /\ Len(<<>>) = 0
    OBVIOUS
  <2>2. limit \in Nat /\ 0 .. 0 - 1 = {}
    BY Constants
  <2> QED BY <2>1, <2>2 DEF Kept
<1> QED BY <1>1 DEF WindowInv, Started

LEMMA WindowAllow ==
    ASSUME NEW P \in Nat \ {0}, WindowInv(P), NEW c \in Clients, Allows(c)
    PROVE  WindowInv(P)'
<1>1. Kept(history[c], admitted[c], phase, setBack, P)
  BY DEF WindowInv
<1>2. Kept(Sliding!Cleaned(history[c]), admitted[c], phase, setBack, P)
  BY <1>1, KeptCleaned DEF WindowInv
<1>3. Kept(history'[c], admitted'[c], phase, setBack, P)
  <2>1. /\ history'[c] = Append(Sliding!Cleaned(history[c]), 0)
        /\ admitted'[c] = Append(Sliding!Remembered(admitted[c]), 0)
    BY DEF WindowInv, Allows
  <2>2. Len(Sliding!Cleaned(history[c])) < limit
    BY DEF Allows
  <2> QED BY <1>2, <2>1, <2>2, KeptAllowed DEF WindowInv
<1>4. \A d \in Clients : Kept(history'[d], admitted'[d], phase, setBack, P)
  BY <1>3 DEF WindowInv, Allows
<1> QED BY <1>4 DEF WindowInv, Allows

LEMMA WindowDeny ==
    ASSUME NEW P \in Nat \ {0}, WindowInv(P), NEW c \in Clients, Denies(c)
    PROVE  WindowInv(P)'
<1>1. Kept(Sliding!Cleaned(history[c]), admitted[c], phase, setBack, P)
  BY KeptCleaned DEF WindowInv
<1>2. \A d \in Clients : Kept(history'[d], admitted[d], phase, setBack, P)
  BY <1>1 DEF WindowInv, Denies
<1> QED BY <1>2 DEF WindowInv, Denies

LEMMA WindowTick ==
    ASSUME NEW P \in Nat \ {0}, WindowInv(P), Ticks(P)
    PROVE  WindowInv(P)'
<1>1. phase' \in 0 .. P - 1
  BY DEF WindowInv, Ticks
<1>2. ASSUME NEW c \in Clients
      PROVE  Kept(history'[c], admitted'[c], phase', setBack, P)
  <2>1. Kept(history[c], admitted[c], phase, setBack, P)
    BY DEF WindowInv
  <2>2. history'[c] = IF phase' # 0 THEN history[c]
                      ELSE [k \in DOMAIN history[c] |-> Sliding!Older(history[c][k])]
    BY DEF Ticks
  <2>3. admitted'[c] = [k \in DOMAIN admitted[c] |->
                           IF admitted[c][k] < (W + 1) * P THEN admitted[c][k] + 1
                           ELSE admitted[c][k]]
    BY DEF Ticks
  <2>4. phase' = (phase + 1) % P /\ phase \in 0 .. P - 1 /\ setBack \in BOOLEAN
    BY DEF Ticks, WindowInv
  <2> QED BY <2>1, <2>2, <2>3, <2>4, KeptTick
<1> QED BY <1>1, <1>2 DEF WindowInv, Ticks

LEMMA WindowSetBack ==
    ASSUME NEW P \in Nat \ {0}, WindowInv(P), NEW d \in 1 .. MaxSetBack, SetsBack(d)
    PROVE  WindowInv(P)'
<1>1. setBack = FALSE
  BY DEF WindowInv, SetsBack
<1>2. ASSUME NEW c \in Clients
      PROVE  Kept(history'[c], admitted[c], phase, TRUE, P)
  <2>1. Kept(history[c], admitted[c], phase, FALSE, P) /\ phase \in 0 .. P - 1
    <3>1. Kept(history[c], admitted[c], phase, setBack, P) /\ phase \in 0 .. P - 1
      BY DEF WindowInv
    <3> QED BY <1>1, <3>1
  <2>2. history'[c] = [k \in DOMAIN history[c] |-> history[c][k] - d]
    BY DEF SetsBack
  <2> QED BY <2>1, <2>2, KeptSetBack
<1> QED BY <1>2 DEF WindowInv, SetsBack

(* What the invariant says of every client, at its clock's resolution.     *)
Within(P) ==
    \A c \in Clients : /\ history[c] \in Seq(-MaxSetBack .. Oldest)
                       /\ Len(history[c]) <= limit /\ admitted[c] \in Seq(Nat)
                       /\ Len(admitted[c]) > limit => Latest(admitted[c], limit) > W * P
AtLimit(P) ==
    \A c \in Clients : ~(Len(Sliding!Cleaned(history[c])) < limit)
                           => /\ Len(admitted[c]) >= limit
                              /\ Latest(admitted[c], limit - 1) < (W + 1) * P

LEMMA WindowSound ==
    ASSUME NEW P \in Nat \ {0}, WindowInv(P)
    PROVE  Within(P) /\ (~setBack => AtLimit(P))
<1>1. ASSUME NEW c \in Clients
      PROVE  /\ history[c] \in Seq(-MaxSetBack .. Oldest)
             /\ Len(history[c]) <= limit /\ admitted[c] \in Seq(Nat)
             /\ Len(admitted[c]) > limit => Latest(admitted[c], limit) > W * P
             /\ ~setBack /\ ~(Len(Sliding!Cleaned(history[c])) < limit)
                    => /\ Len(admitted[c]) >= limit
                       /\ Latest(admitted[c], limit - 1) < (W + 1) * P
  BY KeptSound DEF WindowInv
<1> QED BY <1>1 DEF Within, AtLimit

-----------------------------------------------------------------------------
Inv == /\ program \in Buckets \cup Windows \cup {"SlidingWindow"}
       /\ program \in Buckets => BucketInv
       /\ program = "SlidingWindow" => WindowInv(1)
       /\ program \in Windows => WindowInv(2)

LEMMA Programs == "SlidingWindow" \notin Buckets \cup Windows /\ Buckets \cap Windows = {}
BY DEF Buckets, Windows

LEMMA InvInit == Init => Inv
<1> SUFFICES ASSUME Init PROVE Inv
  OBVIOUS
<1>1. program \in Buckets \cup Windows \cup {"SlidingWindow"}
  BY DEF Init
<1>2. program \in Buckets => BucketInv
  BY BucketInit
<1>3. program = "SlidingWindow" => WindowInv(1)
  <2>1. SUFFICES ASSUME program = "SlidingWindow" PROVE WindowInv(1)
    OBVIOUS
  <2>2. Sliding!Init
    BY <2>1 DEF Init
  <2>3. Started(1)
    BY <2>2 DEF Sliding!Init, Started
  <2> QED BY <2>3, WindowInit
<1>4. program \in Windows => WindowInv(2)
  <2>1. SUFFICES ASSUME program \in Windows PROVE WindowInv(2)
    OBVIOUS
  <2>2. Limiter!Init
    BY <2>1, Programs DEF Init
  <2>3. Started(2)
    BY <2>2 DEF Limiter!Init, Started
  <2> QED BY <2>3, WindowInit
<1> QED BY <1>1, <1>2, <1>3, <1>4 DEF Inv

(* A request to a window limiter, its clock read exactly or in seconds.    *)
LEMMA SlidingRequest ==
    ASSUME WindowInv(1), NEW c \in Clients, Sliding!allowRequest(c)
    PROVE  WindowInv(1)'
<1>1. CASE Sliding!Allow(c)
  <2>1. Allows(c)
    BY <1>1 DEF Sliding!Allow, Allows
  <2> QED BY <2>1, WindowAllow
<1>2. CASE Sliding!Deny(c)
  <2>1. Denies(c)
    BY <1>2 DEF Sliding!Deny, Denies
  <2> QED BY <2>1, WindowDeny
<1> QED BY <1>1, <1>2 DEF Sliding!allowRequest

LEMMA SameQueue ==
    /\ \A q : Limiter!Cleaned(q) = Sliding!Cleaned(q)
    /\ \A q : Limiter!Remembered(q) = Sliding!Remembered(q)
    /\ \A age : Limiter!Older(age) = Sliding!Older(age)
    /\ \A s, i : Limiter!Latest(s, i) = Latest(s, i)
    /\ Limiter!Oldest = Oldest
<1>1. \A q : Limiter!Front(q) = Sliding!Front(q)
  BY DEF Limiter!Front, Sliding!Front, Limiter!Expired, Sliding!Expired
<1> QED BY <1>1 DEF Limiter!Cleaned, Sliding!Cleaned, Limiter!Remembered,
                    Sliding!Remembered, Limiter!Older, Sliding!Older, Limiter!Oldest,
                    Sliding!Oldest, Oldest, Latest, Limiter!Latest, Sliding!Latest

LEMMA LimiterRequest ==
    ASSUME WindowInv(2), NEW c \in Clients, Limiter!allowRequest(c)
    PROVE  WindowInv(2)'
<1>1. CASE Limiter!Allow(c)
  <2>1. Allows(c)
    BY <1>1, SameQueue DEF Limiter!Allow, Allows
  <2> QED BY <2>1, WindowAllow
<1>2. CASE Limiter!Deny(c)
  <2>1. Denies(c)
    BY <1>2, SameQueue DEF Limiter!Deny, Denies
  <2> QED BY <2>1, WindowDeny
<1> QED BY <1>1, <1>2 DEF Limiter!allowRequest

LEMMA BucketTurn ==
    ASSUME Inv, program \in Buckets, UNCHANGED program,
           Bucket!Next \/ \E d \in 1 .. MaxSetBack : Bucket!SetBack(d)
    PROVE  Inv'
<1>1. BucketInv'
  BY BucketStep DEF Inv
<1>2. program' \in Buckets
  OBVIOUS
<1> QED BY <1>1, <1>2, Programs DEF Inv

LEMMA SlidingTurn ==
    ASSUME program = "SlidingWindow", UNCHANGED program, WindowInv(1)'
    PROVE  Inv'
BY Programs DEF Inv

LEMMA LimiterTurn ==
    ASSUME program \in Windows, UNCHANGED program, WindowInv(2)'
    PROVE  Inv'
<1>1. program' \in Windows
  OBVIOUS
<1> QED BY <1>1, Programs DEF Inv

LEMMA InvNext ==
    ASSUME Inv, Next
    PROVE  Inv'
<1>1. CASE RunsBucket /\ (Bucket!Tick \/ \E n \in Requests : Bucket!allowRequest(n))
  <2>1. program \in Buckets /\ UNCHANGED program /\ Bucket!Next
    BY <1>1 DEF RunsBucket, Runs, Buckets, Bucket!Next
  <2> QED BY <2>1, BucketTurn
<1>2. CASE RunsJava /\ (Bucket!Tick \/ \E n \in Requests : JavaAllowRequest(n))
  <2>1. program \in Buckets /\ UNCHANGED program /\ Bucket!Next
    BY <1>2 DEF RunsJava, Runs, Buckets, Bucket!Next, JavaAllowRequest
  <2> QED BY <2>1, BucketTurn
<1>3. CASE RunsJava /\ \E d \in 1 .. MaxSetBack : Bucket!SetBack(d)
  <2>1. program \in Buckets /\ UNCHANGED program
    BY <1>3 DEF RunsJava, Runs, Buckets
  <2> QED BY <1>3, <2>1, BucketTurn
<1>4. CASE RunsSliding /\ (Sliding!Tick \/ Sliding!allowRequest(TheClient))
  <2>1. program = "SlidingWindow" /\ UNCHANGED program /\ WindowInv(1)
    BY <1>4 DEF RunsSliding, Runs, Inv
  <2>2. CASE Sliding!Tick
    <3>1. Ticks(1)
      BY <2>2 DEF Sliding!Tick, Sliding!Aged, Ticks, W
    <3>2. WindowInv(1)'
      BY <2>1, <3>1, WindowTick
    <3> QED BY <2>1, <3>2, SlidingTurn
  <2>3. CASE Sliding!allowRequest(TheClient)
    <3>1. TheClient \in Clients
      BY LimitersAssumption DEF TheClient
    <3>2. WindowInv(1)'
      BY <2>1, <2>3, <3>1, SlidingRequest
    <3> QED BY <2>1, <3>2, SlidingTurn
  <2> QED BY <1>4, <2>2, <2>3
<1>5. CASE /\ RunsLimiter \/ RunsCount
           /\ \/ Limiter!Tick
              \/ \E d \in 1 .. MaxSetBack : Limiter!SetBack(d)
              \/ \E c \in Clients : Limiter!allowRequest(c)
  <2>1. program \in Windows /\ UNCHANGED program /\ WindowInv(2)
    BY <1>5 DEF RunsLimiter, RunsCount, Runs, Inv, Windows
  <2>2. CASE Limiter!Tick
    <3>1. Ticks(2)
      BY <2>2, SameQueue DEF Limiter!Tick, Limiter!Aged, Ticks, W
    <3>2. WindowInv(2)'
      BY <2>1, <3>1, WindowTick
    <3> QED BY <2>1, <3>2, LimiterTurn
  <2>3. CASE \E d \in 1 .. MaxSetBack : Limiter!SetBack(d)
    <3>1. PICK d \in 1 .. MaxSetBack : Limiter!SetBack(d)
      BY <2>3
    <3>2. WindowInv(2)'
      BY <2>1, <3>1, WindowSetBack DEF Limiter!SetBack, SetsBack
    <3> QED BY <2>1, <3>2, LimiterTurn
  <2>4. CASE \E c \in Clients : Limiter!allowRequest(c)
    <3>1. WindowInv(2)'
      BY <2>1, <2>4, LimiterRequest
    <3> QED BY <2>1, <3>1, LimiterTurn
  <2> QED BY <1>5, <2>2, <2>3, <2>4
<1> QED BY <1>1, <1>2, <1>3, <1>4, <1>5
        DEF Next, Tick, SetBack, LimiterAllowRequest, CountAllowRequest

(* What no program changes needs no argument.                              *)
LEMMA InvStep == Inv /\ [Next]_vars => Inv'
<1> SUFFICES ASSUME Inv, [Next]_vars PROVE Inv'
  OBVIOUS
<1>1. CASE Next
  BY <1>1, InvNext
<1>2. CASE UNCHANGED vars
  BY <1>2 DEF vars, bucket, window, Inv, BucketInv, Balanced, Ready, WindowInv, Kept, Close
<1> QED BY <1>1, <1>2

(* Whichever limiter runs keeps its invariant in every reachable state.    *)
THEOREM Invariance == Spec => []Inv
BY InvInit, InvStep, PTL DEF Spec

LEMMA InvSound == Inv => WithinLimit /\ DeniesOnlyAtLimit
<1> SUFFICES ASSUME Inv PROVE WithinLimit /\ DeniesOnlyAtLimit
  OBVIOUS
<1>1. ASSUME program \in Buckets
      PROVE  Bucket!WithinLimit /\ Bucket!DeniesOnlyAtLimit
  BY <1>1, BucketSound DEF Inv
<1>2. ASSUME program = "SlidingWindow"
      PROVE  Sliding!WithinLimit /\ Sliding!DeniesOnlyAtLimit
  <2>1. WindowInv(1)
    BY <1>2 DEF Inv
  <2>2. Within(1) /\ (~setBack => AtLimit(1))
    BY <2>1, WindowSound
  <2>3. /\ phase \in 0 .. 1 - 1 /\ setBack \in BOOLEAN
        /\ served \in Clients \cup {Nobody}
    BY <2>1 DEF WindowInv
  <2>4. Sliding!WithinLimit
    BY <2>2, <2>3 DEF Within, Sliding!WithinLimit, Sliding!TypeOK, Latest, Oldest, W
  <2>5. Sliding!DeniesOnlyAtLimit
    BY <2>2 DEF AtLimit, Sliding!DeniesOnlyAtLimit, Sliding!Admits, Latest, W
  <2> QED BY <2>4, <2>5
<1>3. ASSUME program \in Windows
      PROVE  Limiter!WithinLimit /\ Limiter!DeniesOnlyAtLimit
  <2>1. WindowInv(2)
    BY <1>3 DEF Inv
  <2>2. Within(2) /\ (~setBack => AtLimit(2))
    BY <2>1, WindowSound
  <2>3. /\ phase \in 0 .. 2 - 1 /\ setBack \in BOOLEAN
        /\ served \in Clients \cup {Nobody}
    BY <2>1 DEF WindowInv
  <2>4. Limiter!WithinLimit
    BY <2>2, <2>3, SameQueue DEF Within, Limiter!WithinLimit, Limiter!TypeOK, W
  <2>5. Limiter!DeniesOnlyAtLimit
    BY <2>2, SameQueue DEF AtLimit, Limiter!DeniesOnlyAtLimit, Limiter!Admits, W
  <2> QED BY <2>4, <2>5
<1> QED BY <1>1, <1>2, <1>3 DEF WithinLimit, DeniesOnlyAtLimit

(* No limiter allows more than its limit in any stretch of time, whatever  *)
(* the limit, the window, and the clock's setting back.                    *)
THEOREM NeverTooMany == Spec => []WithinLimit
BY Invariance, InvSound, PTL

(* With a steady clock none denies what the limit would permit.            *)
THEOREM NeverTooFew == Spec => []DeniesOnlyAtLimit
BY Invariance, InvSound, PTL
=============================================================================
