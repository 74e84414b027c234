---------------------------- MODULE TurnsProofs ----------------------------
(***************************************************************************)
(* For any n, and any numbers of hydrogen and oxygen threads: the output   *)
(* of each exercise is in order, however the threads overtake one another. *)
(***************************************************************************)
EXTENDS Turns, FiniteSetTheorems, SequenceTheorems, TLAPS

-----------------------------------------------------------------------------
(* The threads P at their places, no two of them with the mutex.           *)
Places == {"outside", "inside", "asleep", "contending", "returned"}
Exclusive(P, places) ==
    /\ places \in [P -> Places]
    /\ \A t, u \in P : places[t] = "inside" /\ places[u] = "inside" => t = u

(* The steps that leave the mutex with the thread t alone, or free.        *)
LEMMA LockExcludes ==
    ASSUME NEW P, NEW t \in P, Exclusive(P, at),
           \A u \in P : at[u] # "inside",
           at' = [at EXCEPT ![t] = "inside"]
    PROVE  Exclusive(P, at')
BY DEF Exclusive, Places

LEMMA MoveExcludes ==
    ASSUME NEW P, NEW t \in P, Exclusive(P, at),
           NEW p \in Places \ {"inside"},
           at' = [at EXCEPT ![t] = p]
    PROVE  Exclusive(P, at')
BY DEF Exclusive, Places

LEMMA NotifyExcludes ==
    ASSUME NEW P, NEW t \in P, Exclusive(P, at), at[t] = "inside",
           NEW p \in Places,
           at' = [u \in P |-> IF u = t THEN p
                              ELSE IF at[u] = "asleep" THEN "contending" ELSE at[u]]
    PROVE  Exclusive(P, at')
BY DEF Exclusive, Places

(* A longer output: the old one and its last element.                      *)
LEMMA Longer ==
    ASSUME NEW S, NEW s \in Seq(S), NEW e \in S
    PROVE  /\ Append(s, e) \in Seq(S)
           /\ Len(s) \in Nat /\ Len(Append(s, e)) = Len(s) + 1
           /\ \A k \in 1 .. Len(s) : Append(s, e)[k] = s[k]
           /\ Append(s, e)[Len(s) + 1] = e
BY AppendProperties, LenProperties

(* Even and odd numbers.                                                   *)
LEMMA Parity ==
    ASSUME NEW z \in Nat
    PROVE  /\ z % 2 = 0 => (z + 1) % 2 = 1
           /\ z % 2 = 1 => (z + 1) % 2 = 0
           /\ (2 * z + 1) % 2 = 1 /\ (2 * z) % 2 = 0 /\ (2 * z) \div 2 = z
OBVIOUS

-----------------------------------------------------------------------------
(* FizzBuzz: the predicate a thread waits for says that the next token is  *)
(* the one it prints.                                                      *)
FBInv == Exclusive(FB!Printers, at) /\ i \in 1 .. n + 1 /\ FB!SeriesInOrder

LEMMA TokenIsMine ==
    ASSUME NEW t \in FB!Printers, i \in Nat, FB!Mine(t)
    PROVE  FB!Output(t) = FB!Token(i)
<1>1. /\ t = "fizz" => i % 3 = 0 /\ i % 5 # 0
      /\ t = "buzz" => i % 5 = 0 /\ i % 3 # 0
      /\ t = "fizzbuzz" => i % 15 = 0
      /\ t = "number" => i % 3 # 0 /\ i % 5 # 0
  BY Zenon DEF FB!Mine
<1>2. i % 15 = 0 => i % 3 = 0 /\ i % 5 = 0
  OBVIOUS
<1>3. /\ i % 3 = 0 /\ i % 5 # 0 => FB!Token(i) = <<"fizz">>
      /\ i % 5 = 0 /\ i % 3 # 0 => FB!Token(i) = <<"buzz">>
      /\ i % 3 = 0 /\ i % 5 = 0 => FB!Token(i) = <<"fizzbuzz">>
      /\ i % 3 # 0 /\ i % 5 # 0 => FB!Token(i) = <<"number", i>>
  BY Zenon DEF FB!Token, FB!Word, FB!Number
<1>4. FB!Output(t) = IF t = "number" THEN <<"number", i>> ELSE <<t>>
  BY DEF FB!Output, FB!Word, FB!Number
<1> QED BY <1>1, <1>2, <1>3, <1>4 DEF FB!Printers

LEMMA FBTypes == ASSUME FBInv PROVE FB!TypeOK
<1>1. \A k \in 1 .. i - 1 : k \in 1 .. n
  BY TurnsAssumption DEF FBInv
<1>2. \A k \in 1 .. i - 1 :
          FB!Token(k) \in {FB!Word(t) : t \in FB!Printers} \cup {FB!Number(j) : j \in 1 .. n}
  BY <1>1 DEF FB!Token, FB!Printers
<1>3. i - 1 \in Nat
  BY TurnsAssumption DEF FBInv
<1> QED
  BY <1>2, <1>3, IsASeq DEF FBInv, Exclusive, Places, FB!SeriesInOrder, FB!TypeOK, FB!M!MonitorTypeOK

LEMMA FBStep ==
    ASSUME FBInv, FB!Next
    PROVE  FBInv'
<1>1. ASSUME NEW t \in FB!Printers, FB!Lock(t)
      PROVE  FBInv'
  BY <1>1, LockExcludes DEF FBInv, FB!Lock, FB!M!Lock, FB!SeriesInOrder
<1>2. ASSUME NEW t \in FB!Printers, FB!Wait(t) \/ FB!Return(t) \/ FB!SpuriousWakeup(t)
      PROVE  FBInv'
  <2>1. \E p \in Places \ {"inside"} : at' = [at EXCEPT ![t] = p]
    BY <1>2 DEF Places, FB!Wait, FB!Return, FB!SpuriousWakeup, FB!M!Wait, FB!M!SpuriousWakeup
  <2>2. UNCHANGED <<i, printed>>
    BY <1>2 DEF FB!Wait, FB!Return, FB!SpuriousWakeup
  <2> QED BY <2>1, <2>2, MoveExcludes DEF FBInv, FB!SeriesInOrder
<1>3. ASSUME NEW t \in FB!Printers, FB!TakeTurn(t)
      PROVE  FBInv'
  <2>1. Exclusive(FB!Printers, at')
    BY <1>3, NotifyExcludes DEF FBInv, FB!TakeTurn, FB!M!NotifyAllAndGo, Places
  <2>2. i \in Nat /\ i \in 1 .. n /\ i' = i + 1 /\ i' \in 1 .. n + 1 /\ n \in Nat /\ i - 1 \in Nat
    BY <1>3, TurnsAssumption DEF FBInv, FB!TakeTurn
  <2>3. printed' = Append(printed, FB!Token(i))
    BY <1>3, <2>2, TokenIsMine DEF FB!TakeTurn
  <2>t. printed = [k \in 1 .. i - 1 |-> FB!Token(k)]
    BY DEF FBInv, FB!SeriesInOrder
  <2>u. Len(printed) = i - 1 /\ printed \in Seq({FB!Token(k) : k \in Nat})
    BY ONLY <2>t, <2>2, IsASeq, LenProperties
  <2>4. printed' = [k \in 1 .. i' - 1 |-> FB!Token(k)]
    BY <2>2, <2>3, <2>t, <2>u, AppendProperties
  <2> QED BY <2>1, <2>2, <2>4 DEF FBInv, FB!SeriesInOrder
<1>4. CASE FB!Joined
  BY <1>4 DEF FB!Joined, FB!vars, FBInv, FB!SeriesInOrder
<1> QED BY <1>1, <1>2, <1>3, <1>4 DEF FB!Next

-----------------------------------------------------------------------------
(* PrintZeroEvenOdd: turn says how far the three loop variables and the    *)
(* output have come.  i["zero"] zeros are printed, and as many numbers     *)
(* unless it is the turn of one of the other two.                          *)
Zeros == i["zero"]
InStep ==
    \/ /\ turn = 0 /\ Len(printed) = 2 * Zeros
       /\ \/ Zeros % 2 = 0 /\ i["odd"] = Zeros + 1 /\ i["even"] = Zeros + 2
          \/ Zeros % 2 = 1 /\ i["odd"] = Zeros + 2 /\ i["even"] = Zeros + 1
    \/ /\ turn \in {1, 2} /\ Zeros >= 1 /\ Len(printed) = 2 * Zeros - 1
       /\ \/ turn = 1 /\ Zeros % 2 = 0 /\ i["even"] = Zeros /\ i["odd"] = Zeros + 1
          \/ turn = 2 /\ Zeros % 2 = 1 /\ i["odd"] = Zeros /\ i["even"] = Zeros + 1
ZEOInv == /\ Exclusive(ZEO!Printers, at)
          /\ turn \in {0, 1, 2}
          /\ i \in [ZEO!Printers -> Nat] /\ Zeros <= n
          /\ printed \in Seq(0 .. n)
          /\ InStep
          /\ ZEO!SeriesInOrder

LEMMA ZEOTypes == ASSUME ZEOInv PROVE ZEO!TypeOK
<1>1. \A t \in ZEO!Printers : i[t] \in 0 .. n + 2
  BY TurnsAssumption, SMTT(30) DEF ZEOInv, InStep, Zeros, ZEO!Printers
<1>2. i \in [ZEO!Printers -> 0 .. n + 2]
  BY <1>1 DEF ZEOInv
<1> QED
  BY <1>2 DEF ZEOInv, Zeros, Exclusive, Places, ZEO!TypeOK, ZEO!M!MonitorTypeOK

LEMMA ZEOStart == ASSUME ZEO!Init PROVE ZEOInv
<1>1. i = [zero |-> 0, even |-> 2, odd |-> 1]
  BY DEF ZEO!Init
<1>2. i["zero"] = 0 /\ i["even"] = 2 /\ i["odd"] = 1
  BY <1>1
<1>4. i \in [ZEO!Printers -> Nat]
  BY <1>1 DEF ZEO!Printers
<1>5. at = [t \in ZEO!Printers |-> "outside"] /\ turn = 0 /\ printed = <<>>
  BY Zenon DEF ZEO!Init, ZEO!M!MonitorInit
<1>6. Exclusive(ZEO!Printers, at)
  BY <1>5 DEF Exclusive, Places
<1>7. printed \in Seq(0 .. n) /\ Len(printed) = 0
  BY <1>5
<1> QED BY <1>2, <1>4, <1>5, <1>6, <1>7, TurnsAssumption DEF ZEOInv, InStep, Zeros, ZEO!SeriesInOrder

(* What the three printers print, and where that leaves the turn.          *)
LEMMA ZEOTurn ==
    ASSUME ZEOInv, NEW t \in ZEO!Printers, ZEO!TakeTurn(t)
    PROVE  /\ turn' \in {0, 1, 2}
           /\ i' \in [ZEO!Printers -> Nat] /\ Zeros' <= n
           /\ printed' \in Seq(0 .. n)
           /\ InStep'
           /\ ZEO!SeriesInOrder'
<1> DEFINE e == IF t = "zero" THEN 0 ELSE i[t]
<1>1. /\ t = "zero" => turn = 0
      /\ t = "even" => turn = 1
      /\ t = "odd" => turn = 2
  BY Zenon DEF ZEO!TakeTurn, ZEO!Mine
<1>2. /\ n \in Nat /\ i[t] \in Nat /\ Zeros \in Nat
      /\ i["even"] \in Nat /\ i["odd"] \in Nat /\ Len(printed) \in Nat
      /\ t = "zero" => Zeros < n
      /\ t # "zero" => i[t] <= n
  BY TurnsAssumption, LenProperties DEF ZEOInv, Zeros, ZEO!Printers, ZEO!TakeTurn, ZEO!More
<1>3. /\ i' = [i EXCEPT ![t] = @ + IF t = "zero" THEN 1 ELSE 2]
      /\ turn' = IF t # "zero" THEN 0 ELSE IF i[t] % 2 = 0 THEN 2 ELSE 1
      /\ printed' = Append(printed, e)
  BY DEF ZEO!TakeTurn, ZEO!Handover
<1>4. e \in 0 .. n
  BY <1>2
<1>5. /\ printed' \in Seq(0 .. n) /\ Len(printed') = Len(printed) + 1
      /\ \A k \in 1 .. Len(printed) : printed'[k] = printed[k]
      /\ printed'[Len(printed) + 1] = e
  BY <1>3, <1>4, Longer DEF ZEOInv
<1>6. i' \in [ZEO!Printers -> Nat]
  BY <1>2, <1>3 DEF ZEOInv
<1>7. CASE t = "zero"
  <2>1. /\ i'["zero"] = i["zero"] + 1 /\ i'["even"] = i["even"] /\ i'["odd"] = i["odd"]
        /\ turn = 0 /\ turn' = IF i["zero"] % 2 = 0 THEN 2 ELSE 1
        /\ e = 0
    BY <1>1, <1>3, <1>7 DEF ZEOInv, ZEO!Printers
  <2>2. /\ Len(printed) = 2 * Zeros
        /\ \/ Zeros % 2 = 0 /\ i["odd"] = Zeros + 1 /\ i["even"] = Zeros + 2
           \/ Zeros % 2 = 1 /\ i["odd"] = Zeros + 2 /\ i["even"] = Zeros + 1
    BY <2>1 DEF ZEOInv, InStep
  <2>3. /\ Zeros' = Zeros + 1 /\ Len(printed') = 2 * Zeros' - 1
        /\ \/ Zeros % 2 = 0 /\ Zeros' % 2 = 1
           \/ Zeros % 2 = 1 /\ Zeros' % 2 = 0
        /\ (Len(printed) + 1) % 2 = 1
    <3>1. Zeros' = Zeros + 1
      BY <2>1 DEF Zeros
    <3> QED BY <1>2, <1>5, <2>2, <3>1, Parity
  <2>4. InStep' /\ Zeros' <= n /\ turn' \in {0, 1, 2}
    <3>1. /\ turn' = IF Zeros % 2 = 0 THEN 2 ELSE 1
          /\ i'["odd"] = i["odd"] /\ i'["even"] = i["even"]
          /\ Zeros < n
      BY <1>2, <1>7, <2>1 DEF Zeros
    <3>2. Zeros' >= 1 /\ Zeros' <= n
      BY ONLY <1>2, <2>3, <3>1
    <3> QED BY ONLY <1>2, <2>2, <2>3, <3>1, <3>2 DEF InStep
  <2>5. ZEO!SeriesInOrder'
    <3>1. /\ Zeros < n /\ printed'[Len(printed) + 1] = 0
          /\ \A k \in 1 .. Len(printed) : printed[k] = IF k % 2 = 1 THEN 0 ELSE k \div 2
      BY <1>2, <1>5, <1>7, <2>1 DEF ZEOInv, ZEO!SeriesInOrder
    <3>2. Len(printed') <= 2 * n
      BY ONLY <1>2, <1>5, <2>2, <3>1
    <3>3. ASSUME NEW k \in 1 .. Len(printed')
          PROVE  printed'[k] = IF k % 2 = 1 THEN 0 ELSE k \div 2
      <4>1. CASE k \in 1 .. Len(printed)
        BY ONLY <1>5, <3>1, <4>1
      <4>2. CASE k = Len(printed) + 1
        BY ONLY <2>3, <3>1, <4>2
      <4> QED BY <1>2, <1>5, <4>1, <4>2
    <3> QED BY <3>2, <3>3 DEF ZEO!SeriesInOrder
  <2> QED BY <1>5, <1>6, <2>4, <2>5
<1>8. CASE t # "zero"
  <2>1. /\ i'["zero"] = i["zero"] /\ i'[t] = i[t] + 2 /\ e = i[t] /\ turn' = 0
        /\ t = "even" => i'["odd"] = i["odd"]
        /\ t = "odd" => i'["even"] = i["even"]
    BY <1>3, <1>8 DEF ZEOInv, ZEO!Printers
  <2>2. /\ Zeros >= 1 /\ Len(printed) = 2 * Zeros - 1 /\ i[t] = Zeros
        /\ t = "even" => Zeros % 2 = 0 /\ i["odd"] = Zeros + 1
        /\ t = "odd" => Zeros % 2 = 1 /\ i["even"] = Zeros + 1
    BY <1>1, <1>8 DEF ZEOInv, InStep, ZEO!Printers
  <2>3. Zeros' = Zeros /\ Len(printed') = 2 * Zeros'
    BY <1>2, <1>5, <2>1, <2>2 DEF Zeros
  <2>4. t \in {"even", "odd"}
    BY <1>8 DEF ZEO!Printers
  <2>5. InStep' /\ Zeros' <= n /\ turn' \in {0, 1, 2}
    BY <1>2, <2>1, <2>2, <2>3, <2>4 DEF ZEOInv, InStep
  <2>6. (Len(printed) + 1) % 2 = 0 /\ (Len(printed) + 1) \div 2 = Zeros
    BY <1>2, <2>2
  <2>7. ZEO!SeriesInOrder'
    <3>1. /\ Zeros <= n /\ printed'[Len(printed) + 1] = Zeros
          /\ \A k \in 1 .. Len(printed) : printed[k] = IF k % 2 = 1 THEN 0 ELSE k \div 2
      BY <1>5, <2>1, <2>2 DEF ZEOInv, ZEO!SeriesInOrder
    <3>2. Len(printed') <= 2 * n
      BY ONLY <1>2, <1>5, <2>2, <3>1
    <3>3. ASSUME NEW k \in 1 .. Len(printed')
          PROVE  printed'[k] = IF k % 2 = 1 THEN 0 ELSE k \div 2
      <4>1. CASE k \in 1 .. Len(printed)
        BY ONLY <1>5, <3>1, <4>1
      <4>2. CASE k = Len(printed) + 1
        BY ONLY <2>6, <3>1, <4>2
      <4> QED BY <1>2, <1>5, <4>1, <4>2
    <3> QED BY <3>2, <3>3 DEF ZEO!SeriesInOrder
  <2> QED BY <1>5, <1>6, <2>5, <2>7
<1> QED BY <1>7, <1>8

LEMMA ZEOStep ==
    ASSUME ZEOInv, ZEO!Next
    PROVE  ZEOInv'
<1> USE DEF ZEOInv
<1>u. ASSUME UNCHANGED <<turn, i, printed>>, Exclusive(ZEO!Printers, at')
      PROVE  ZEOInv'
  BY <1>u DEF InStep, Zeros, ZEO!SeriesInOrder
<1>1. ASSUME NEW t \in ZEO!Printers, ZEO!Lock(t)
      PROVE  ZEOInv'
  BY <1>1, <1>u, LockExcludes DEF ZEO!Lock, ZEO!M!Lock
<1>2. ASSUME NEW t \in ZEO!Printers, ZEO!Wait(t) \/ ZEO!Return(t) \/ ZEO!SpuriousWakeup(t)
      PROVE  ZEOInv'
  <2>1. \E p \in Places \ {"inside"} : at' = [at EXCEPT ![t] = p]
    BY <1>2 DEF Places, ZEO!Wait, ZEO!Return, ZEO!SpuriousWakeup,
                ZEO!M!Wait, ZEO!M!SpuriousWakeup
  <2>2. UNCHANGED <<turn, i, printed>>
    BY <1>2 DEF ZEO!Wait, ZEO!Return, ZEO!SpuriousWakeup
  <2> QED BY <1>u, <2>1, <2>2, MoveExcludes
<1>3. ASSUME NEW t \in ZEO!Printers, ZEO!TakeTurn(t)
      PROVE  ZEOInv'
  <2>1. Exclusive(ZEO!Printers, at')
    BY <1>3, NotifyExcludes DEF ZEO!TakeTurn, ZEO!M!NotifyAllAndGo, Places
  <2> QED BY <1>3, <2>1, ZEOTurn
<1>4. CASE ZEO!Joined
  BY <1>4, <1>u DEF ZEO!Joined, ZEO!vars
<1> QED BY <1>1, <1>2, <1>3, <1>4 DEF ZEO!Next

-----------------------------------------------------------------------------
(* PrintFooBar: it is foo's turn while the two have printed equally often. *)
FooBarInv ==
    /\ Exclusive(FooBar!Printers, at)
    /\ turn \in BOOLEAN
    /\ i \in [FooBar!Printers -> 0 .. n]
    /\ printed \in Seq(FooBar!Printers)
    /\ turn => i["foo"] = i["bar"]
    /\ ~turn => i["foo"] = i["bar"] + 1
    /\ FooBar!Alternates

LEMMA FooBarStart == ASSUME FooBar!Init PROVE FooBarInv
<1>1. Exclusive(FooBar!Printers, at)
  BY DEF FooBar!Init, FooBar!M!MonitorInit, Exclusive, Places
<1> QED
  BY <1>1, TurnsAssumption DEF FooBar!Init, FooBarInv, FooBar!Printers, FooBar!Alternates

LEMMA FooBarTurn ==
    ASSUME FooBarInv, NEW t \in FooBar!Printers, FooBar!TakeTurn(t)
    PROVE  /\ turn' \in BOOLEAN
           /\ i' \in [FooBar!Printers -> 0 .. n]
           /\ printed' \in Seq(FooBar!Printers)
           /\ turn' => i'["foo"] = i'["bar"]
           /\ ~turn' => i'["foo"] = i'["bar"] + 1
           /\ FooBar!Alternates'
<1>1. /\ i[t] < n /\ turn' \in BOOLEAN
      /\ i' = [i EXCEPT ![t] = @ + 1] /\ printed' = Append(printed, t)
  BY DEF FooBar!TakeTurn
<1>m. /\ t = "foo" => turn /\ ~turn'
      /\ t = "bar" => ~turn /\ turn'
  BY Zenon DEF FooBar!TakeTurn, FooBar!Mine
<1>2. n \in Nat /\ i["foo"] \in 0 .. n /\ i["bar"] \in 0 .. n /\ t \in {"foo", "bar"}
  BY TurnsAssumption DEF FooBarInv, FooBar!Printers
<1>3. /\ printed' \in Seq(FooBar!Printers) /\ Len(printed) \in Nat
      /\ Len(printed') = Len(printed) + 1
      /\ \A k \in 1 .. Len(printed) : printed'[k] = printed[k]
      /\ printed'[Len(printed) + 1] = t
  BY <1>1, Longer DEF FooBarInv
<1>4. i' \in [FooBar!Printers -> 0 .. n]
  BY <1>1, <1>2 DEF FooBarInv
<1>5. /\ t = "foo" => i'["foo"] = i["foo"] + 1 /\ i'["bar"] = i["bar"]
      /\ t = "bar" => i'["foo"] = i["foo"] /\ i'["bar"] = i["bar"] + 1
  BY <1>1 DEF FooBarInv, FooBar!Printers
<1>6. /\ Len(printed) = i["foo"] + i["bar"]
      /\ t = "foo" => i["foo"] = i["bar"]
      /\ t = "bar" => i["foo"] = i["bar"] + 1
  BY <1>m DEF FooBarInv, FooBar!Alternates
<1>7. /\ t = "foo" => (Len(printed) + 1) % 2 = 1
      /\ t = "bar" => (Len(printed) + 1) % 2 # 1
  BY <1>2, <1>6
<1>8. /\ turn' => i'["foo"] = i'["bar"]
      /\ ~turn' => i'["foo"] = i'["bar"] + 1
  BY <1>2, <1>5, <1>6, <1>m
<1>9. Len(printed') = i'["foo"] + i'["bar"]
  BY <1>2, <1>3, <1>5, <1>6
<1>10. ASSUME NEW k \in 1 .. Len(printed')
       PROVE  printed'[k] = IF k % 2 = 1 THEN "foo" ELSE "bar"
  <2>1. \A j \in 1 .. Len(printed) : printed[j] = IF j % 2 = 1 THEN "foo" ELSE "bar"
    BY DEF FooBarInv, FooBar!Alternates
  <2> QED BY ONLY <1>2, <1>3, <1>7, <1>10, <2>1
<1> QED BY <1>1, <1>3, <1>4, <1>8, <1>9, <1>10 DEF FooBar!Alternates

LEMMA FooBarStep ==
    ASSUME FooBarInv, FooBar!Next
    PROVE  FooBarInv'
<1> USE DEF FooBarInv
<1>u. ASSUME UNCHANGED <<turn, i, printed>>, Exclusive(FooBar!Printers, at')
      PROVE  FooBarInv'
  BY <1>u DEF FooBar!Alternates
<1>1. ASSUME NEW t \in FooBar!Printers, FooBar!Lock(t)
      PROVE  FooBarInv'
  BY <1>1, <1>u, LockExcludes DEF FooBar!Lock, FooBar!M!Lock
<1>2. ASSUME NEW t \in FooBar!Printers,
             FooBar!Wait(t) \/ FooBar!Return(t) \/ FooBar!SpuriousWakeup(t)
      PROVE  FooBarInv'
  <2>1. \E p \in Places \ {"inside"} : at' = [at EXCEPT ![t] = p]
    BY <1>2 DEF Places, FooBar!Wait, FooBar!Return, FooBar!SpuriousWakeup,
                FooBar!M!Wait, FooBar!M!SpuriousWakeup
  <2>2. UNCHANGED <<turn, i, printed>>
    BY <1>2 DEF FooBar!Wait, FooBar!Return, FooBar!SpuriousWakeup
  <2> QED BY <1>u, <2>1, <2>2, MoveExcludes
<1>3. ASSUME NEW t \in FooBar!Printers, FooBar!TakeTurn(t)
      PROVE  FooBarInv'
  <2>1. Exclusive(FooBar!Printers, at')
    BY <1>3, NotifyExcludes DEF FooBar!TakeTurn, FooBar!M!NotifyAllAndGo, Places
  <2> QED BY <1>3, <2>1, FooBarTurn
<1>4. CASE FooBar!Joined
  BY <1>4, <1>u DEF FooBar!Joined, FooBar!vars
<1> QED BY <1>1, <1>2, <1>3, <1>4 DEF FooBar!Next

-----------------------------------------------------------------------------
(* PrintInOrder: order counts the first two threads that have returned,    *)
(* and only the third may have printed more.                               *)
FooInv ==
    /\ Exclusive(Foo!Printers, at)
    /\ turn \in 0 .. 2
    /\ at["first"] = "returned" <=> turn >= 1
    /\ at["second"] = "returned" <=> turn = 2
    /\ at["third"] = "returned" => turn = 2
    /\ at["third"] # "returned" => Len(printed) = turn
    /\ at["third"] = "returned" => Len(printed) = 3
    /\ printed \in Seq(Foo!Printers)
    /\ Len(printed) >= 1 => printed[1] = "first"
    /\ Len(printed) >= 2 => printed[2] = "second"
    /\ Len(printed) >= 3 => printed[3] = "third"

LEMMA FooInOrder == ASSUME FooInv PROVE Foo!TypeOK /\ Foo!WordsInOrder
<1>1. Foo!TypeOK
  BY DEF FooInv, Foo!TypeOK, Foo!M!MonitorTypeOK, Exclusive, Places
<1>2. /\ Len(printed) \in 0 .. 3 /\ DOMAIN printed = 1 .. Len(printed)
      /\ printed = [k \in 1 .. Len(printed) |-> printed[k]]
  <2>1. Len(printed) \in 0 .. 3
    <3>1. turn \in 0 .. 2 /\ (Len(printed) = turn \/ Len(printed) = 3)
      BY DEF FooInv
    <3>2. \A m : m \in 0 .. 2 \/ m = 3 => m \in 0 .. 3
      OBVIOUS
    <3>3. Len(printed) \in 0 .. 2 \/ Len(printed) = 3
      BY ONLY <3>1, Zenon
    <3> QED BY ONLY <3>2, <3>3, Zenon
  <2>2. printed \in Seq(Foo!Printers)
    BY DEF FooInv
  <2> QED BY ONLY <2>1, <2>2, LenProperties
<1>3. Foo!Words[1] = "first" /\ Foo!Words[2] = "second" /\ Foo!Words[3] = "third"
  BY DEF Foo!Words
<1>4. \A k \in 1 .. Len(printed) : printed[k] = Foo!Words[k]
  BY <1>2, <1>3 DEF FooInv
<1>5. SubSeq(Foo!Words, 1, Len(printed)) = [k \in 1 .. Len(printed) |-> Foo!Words[k]]
  BY <1>2 DEF Foo!Words
<1>6. Foo!WordsInOrder
  BY <1>2, <1>4, <1>5 DEF Foo!WordsInOrder
<1> QED BY <1>1, <1>6

LEMMA FooStart == ASSUME Foo!Init PROVE FooInv
BY DEF Foo!Init, Foo!M!MonitorInit, FooInv, Exclusive, Places, Foo!Printers

LEMMA FooStep ==
    ASSUME FooInv, Foo!Next
    PROVE  FooInv'
<1> USE DEF FooInv
<1>1. ASSUME NEW t \in Foo!Printers, Foo!Lock(t)
      PROVE  FooInv'
  <2>1. Exclusive(Foo!Printers, at')
    BY <1>1, LockExcludes DEF Foo!Lock, Foo!M!Lock
  <2>2. \A u \in Foo!Printers : at'[u] = "returned" <=> at[u] = "returned"
    BY <1>1 DEF Foo!Lock, Foo!M!Lock, Exclusive
  <2> QED BY <1>1, <2>1, <2>2 DEF Foo!Lock, Foo!Printers
<1>2. ASSUME NEW t \in Foo!Printers, Foo!Wait(t) \/ Foo!SpuriousWakeup(t)
      PROVE  FooInv'
  <2>1. \E p \in {"asleep", "contending"} : at' = [at EXCEPT ![t] = p]
    BY <1>2 DEF Foo!Wait, Foo!SpuriousWakeup, Foo!M!Wait, Foo!M!SpuriousWakeup
  <2>2. UNCHANGED <<turn, printed>>
    BY <1>2 DEF Foo!Wait, Foo!SpuriousWakeup
  <2>3. at[t] # "returned"
    BY <1>2 DEF Foo!Wait, Foo!SpuriousWakeup, Foo!M!Wait, Foo!M!SpuriousWakeup
  <2>4. Exclusive(Foo!Printers, at')
    BY <2>1, MoveExcludes DEF Places
  <2>5. \A u \in Foo!Printers : at'[u] = "returned" <=> at[u] = "returned"
    BY <2>1, <2>3 DEF Exclusive
  <2> QED BY <2>2, <2>4, <2>5 DEF Foo!Printers
<1>3. ASSUME NEW t \in Foo!Printers, Foo!TakeTurn(t)
      PROVE  FooInv'
  <2>1. /\ printed' \in Seq(Foo!Printers) /\ Len(printed) \in Nat
        /\ Len(printed') = Len(printed) + 1
        /\ \A k \in 1 .. Len(printed) : printed'[k] = printed[k]
        /\ printed'[Len(printed) + 1] = t
    BY <1>3, Longer DEF Foo!TakeTurn
  <2>2. /\ at[t] = "inside"
        /\ t = "second" => turn >= 1
        /\ t = "third" => turn >= 2
    BY <1>3, Zenon DEF Foo!TakeTurn, Foo!Mine
  <2>3. turn = IF t = "first" THEN 0 ELSE IF t = "second" THEN 1 ELSE 2
    BY <2>2 DEF Foo!Printers
  <2>4. Len(printed) = turn
    BY <2>2, <2>3 DEF Foo!Printers
  <2>5. CASE t = "third"
    <3>1. at' = [at EXCEPT ![t] = "returned"] /\ turn' = turn
      BY <1>3, <2>5 DEF Foo!TakeTurn
    <3>2. Exclusive(Foo!Printers, at')
      BY <3>1, MoveExcludes DEF Places
    <3>3. /\ at'["third"] = "returned" /\ at'["first"] = at["first"]
          /\ at'["second"] = at["second"]
      BY <2>5, <3>1 DEF Exclusive, Foo!Printers
    <3> QED BY <2>1, <2>3, <2>4, <2>5, <3>1, <3>2, <3>3
  <2>6. CASE t # "third"
    <3>1. /\ turn' = IF t = "first" THEN 1 ELSE 2
          /\ at' = [u \in Foo!Printers |-> IF u = t THEN "returned"
                        ELSE IF at[u] = "asleep" THEN "contending" ELSE at[u]]
      BY <1>3, <2>6 DEF Foo!TakeTurn, Foo!M!NotifyAllAndGo
    <3>2. Exclusive(Foo!Printers, at')
      BY <2>2, <3>1, NotifyExcludes DEF Places
    <3>3. \A u \in Foo!Printers : at'[u] = "returned" <=> u = t \/ at[u] = "returned"
      BY <3>1
    <3>4. /\ at'["first"] = "returned" <=> t = "first" \/ at["first"] = "returned"
          /\ at'["second"] = "returned" <=> t = "second" \/ at["second"] = "returned"
          /\ at'["third"] = "returned" <=> at["third"] = "returned"
      BY <2>6, <3>3 DEF Foo!Printers
    <3>5. turn' = turn + 1 /\ t = (IF turn = 0 THEN "first" ELSE "second") /\ turn \in 0 .. 1
      BY <2>3, <2>6, <3>1 DEF Foo!Printers
    <3>6. at["third"] # "returned"
      BY <3>5
    <3> QED BY <2>1, <2>4, <3>2, <3>4, <3>5, <3>6
  <2> QED BY <2>5, <2>6
<1>4. CASE Foo!Joined
  BY <1>4 DEF Foo!Joined, Foo!vars
<1> QED BY <1>1, <1>2, <1>3, <1>4 DEF Foo!Next

-----------------------------------------------------------------------------
(* H2O: hCount is what has passed of the molecule begun, two hydrogens and *)
(* then the oxygen.                                                        *)
WaterInv ==
    /\ Exclusive(Water!Atoms, at)
    /\ turn \in 0 .. 2
    /\ printed \in Seq(Water!Atoms)
    /\ turn = Len(printed) % 3
    /\ \A k \in 1 .. Len(printed) : printed[k] \in Oxygens <=> k % 3 = 0

LEMMA WaterStart == ASSUME Water!Init PROVE WaterInv
BY DEF Water!Init, Water!M!MonitorInit, WaterInv, Exclusive, Places

LEMMA WaterStep ==
    ASSUME WaterInv, Water!Next
    PROVE  WaterInv'
<1> USE DEF WaterInv
<1>1. ASSUME NEW t \in Water!Atoms, Water!Lock(t)
      PROVE  WaterInv'
  BY <1>1, LockExcludes DEF Water!Lock, Water!M!Lock
<1>2. ASSUME NEW t \in Water!Atoms, Water!Wait(t) \/ Water!SpuriousWakeup(t)
      PROVE  WaterInv'
  <2>1. \E p \in Places \ {"inside"} : at' = [at EXCEPT ![t] = p]
    BY <1>2 DEF Places, Water!Wait, Water!SpuriousWakeup, Water!M!Wait, Water!M!SpuriousWakeup
  <2>2. UNCHANGED <<turn, printed>>
    BY <1>2 DEF Water!Wait, Water!SpuriousWakeup
  <2> QED BY <2>1, <2>2, MoveExcludes
<1>3. ASSUME NEW t \in Water!Atoms, Water!Pass(t)
      PROVE  WaterInv'
  <2>1. Exclusive(Water!Atoms, at')
    BY <1>3, NotifyExcludes DEF Water!Pass, Water!M!NotifyAllAndGo, Places
  <2>2. /\ printed' \in Seq(Water!Atoms) /\ Len(printed) \in Nat
        /\ Len(printed') = Len(printed) + 1
        /\ \A k \in 1 .. Len(printed) : printed'[k] = printed[k]
        /\ printed'[Len(printed) + 1] = t
    BY <1>3, Longer DEF Water!Pass
  <2>3. /\ t \in Oxygens <=> t \notin Hydrogens
        /\ t \in Hydrogens => turn # 2 /\ turn' = turn + 1
        /\ t \notin Hydrogens => turn = 2 /\ turn' = 0
    BY <1>3, TurnsAssumption DEF Water!Pass, Water!Blocked, Water!H2OAssumption, Water!Atoms
  <2>4. /\ turn' \in 0 .. 2 /\ turn' = (Len(printed) + 1) % 3
        /\ t \in Oxygens <=> (Len(printed) + 1) % 3 = 0
    <3>1. turn \in 0 .. 2 /\ turn = Len(printed) % 3
      OBVIOUS
    <3>2. (Len(printed) + 1) % 3 = IF turn = 2 THEN 0 ELSE turn + 1
      BY ONLY <2>2, <3>1
    <3> QED BY ONLY <2>3, <3>1, <3>2
  <2>5. \A k \in 1 .. Len(printed') : printed'[k] \in Oxygens <=> k % 3 = 0
    BY <2>2, <2>4
  <2> QED BY <2>1, <2>2, <2>4, <2>5
<1>4. CASE Water!Joined
  BY <1>4 DEF Water!Joined, Water!vars
<1> QED BY <1>1, <1>2, <1>3, <1>4 DEF Water!Next

LEMMA SameCardinality == \A S : Water!Cardinality(S) = Cardinality(S)
BY DEF Water!Cardinality, Cardinality

(* What a set of places can hold.                                          *)
LEMMA AtMostTwo ==
    ASSUME NEW S, NEW a, NEW b, S \subseteq {a, b}
    PROVE  /\ Water!Cardinality(S) <= 2
           /\ S \subseteq {b} => Water!Cardinality(S) <= 1
<1>1. IsFiniteSet({b}) /\ Cardinality({b}) = 1
  BY FS_Singleton
<1>2. IsFiniteSet({a, b}) /\ Cardinality({a, b}) <= 2
  <2>1. {a, b} = {b} \cup {a}
    OBVIOUS
  <2> QED BY <1>1, <2>1, FS_AddElement
<1>3. Cardinality(S) <= Cardinality({a, b}) /\ Cardinality(S) \in Nat
  BY <1>2, FS_Subset, FS_CardinalityType
<1>4. S \subseteq {b} => Cardinality(S) <= 1
  BY <1>1, FS_Subset
<1>5. Cardinality({a, b}) \in Nat
  BY <1>2, FS_CardinalityType
<1> QED BY <1>2, <1>3, <1>4, <1>5, SameCardinality

LEMMA WaterMolecules == ASSUME WaterInv PROVE Water!TypeOK /\ Water!GroupsAreMolecules
<1>1. Water!TypeOK
  BY DEF WaterInv, Water!TypeOK, Water!M!MonitorTypeOK, Exclusive, Places
<1>2. ASSUME NEW g \in 0 .. Len(printed) \div 3
      PROVE  /\ Water!Of(Hydrogens, 3 * g + 1, 3 * g + 3) <= 2
             /\ Water!Of(Oxygens, 3 * g + 1, 3 * g + 3) <= 1
  <2> DEFINE H == {k \in 3 * g + 1 .. 3 * g + 3 : k <= Len(printed) /\ printed[k] \in Hydrogens}
             O == {k \in 3 * g + 1 .. 3 * g + 3 : k <= Len(printed) /\ printed[k] \in Oxygens}
  <2>1. g \in Nat /\ Len(printed) \in Nat
    BY LenProperties DEF WaterInv
  <2>2. (3 * g + 1) % 3 = 1 /\ (3 * g + 2) % 3 = 2 /\ (3 * g + 3) % 3 = 0
    BY <2>1
  <2>3. ASSUME NEW k \in 3 * g + 1 .. 3 * g + 3, k <= Len(printed)
        PROVE  /\ k \in {3 * g + 1, 3 * g + 2, 3 * g + 3}
               /\ printed[k] \in Hydrogens => k # 3 * g + 3
               /\ printed[k] \in Oxygens => k = 3 * g + 3
    <3>1. k \in 1 .. Len(printed) /\ (k % 3 = 0 <=> k = 3 * g + 3)
      BY <2>1, <2>2, <2>3
    <3>2. printed[k] \in Hydrogens => printed[k] \notin Oxygens
      BY TurnsAssumption DEF Water!H2OAssumption
    <3> QED BY <2>1, <2>3, <3>1, <3>2 DEF WaterInv
  <2>4. H \subseteq {3 * g + 1, 3 * g + 2} /\ O \subseteq {3 * g + 3}
    BY <2>3
  <2>5. Water!Cardinality(H) <= 2 /\ Water!Cardinality(O) <= 1
    <3> HIDE DEF H, O
    <3>1. O \subseteq {0, 3 * g + 3}
      BY <2>4
    <3> QED BY <2>4, <3>1, AtMostTwo
  <2> QED BY <2>5 DEF Water!Of
<1>3. Water!GroupsAreMolecules
  BY <1>2 DEF Water!GroupsAreMolecules
<1> QED BY <1>1, <1>3

-----------------------------------------------------------------------------
(* The invariant of the program that runs.                                 *)
TurnsInv == /\ program \in {"FizzBuzz", "ZeroEvenOdd", "FooBar", "PrintInOrder", "H2O"}
            /\ program = "FizzBuzz" => FBInv
            /\ program = "ZeroEvenOdd" => ZEOInv
            /\ program = "FooBar" => FooBarInv
            /\ program = "PrintInOrder" => FooInv
            /\ program = "H2O" => WaterInv

(* The output of all five exercises is in order and nobody shares the      *)
(* mutex, for every n and any number of atoms.                             *)
THEOREM PrintedInOrder == Spec => []OutputInOrder
<1>1. Init => TurnsInv
  <2>1. ASSUME FB!Init PROVE FBInv
    BY <2>1, TurnsAssumption
       DEF FB!Init, FB!M!MonitorInit, FBInv, Exclusive, Places, FB!SeriesInOrder
  <2> QED BY <2>1, ZEOStart, FooBarStart, FooStart, WaterStart DEF Init, TurnsInv
<1>2. TurnsInv /\ [Next]_vars => TurnsInv'
  <2> SUFFICES ASSUME TurnsInv, [Next]_vars
               PROVE  TurnsInv'
    OBVIOUS
  <2>1. CASE UNCHANGED vars
    <3>1. UNCHANGED <<program, at, printed, turn, i>>
      BY <2>1 DEF vars
    <3> QED
      BY <3>1 DEF TurnsInv, FBInv, ZEOInv, InStep, Zeros, FooBarInv, FooInv, WaterInv,
                  FB!SeriesInOrder, ZEO!SeriesInOrder, FooBar!Alternates
  <2>2. CASE Next
    BY <2>2, FBStep, ZEOStep, FooBarStep, FooStep, WaterStep DEF TurnsInv, Next, Runs
  <2> QED BY <2>1, <2>2
<1>3. TurnsInv => OutputInOrder
  <2>1. ASSUME FooBarInv PROVE FooBar!TypeOK /\ FooBar!Alternates
    BY <2>1 DEF FooBarInv, Exclusive, Places, FooBar!TypeOK, FooBar!M!MonitorTypeOK
  <2>2. ASSUME FBInv PROVE FB!SeriesInOrder
    BY <2>2 DEF FBInv
  <2>3. ASSUME ZEOInv PROVE ZEO!SeriesInOrder
    BY <2>3 DEF ZEOInv
  <2> QED BY <2>1, <2>2, <2>3, FBTypes, ZEOTypes, FooInOrder, WaterMolecules
          DEF TurnsInv, OutputInOrder, TypeOK
<1> QED BY <1>1, <1>2, <1>3, PTL DEF Spec
=============================================================================
