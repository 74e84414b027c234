--------------------------- MODULE DesignsProofs ----------------------------
(***************************************************************************)
(* For any lot, locker and boards of any size: no spot is given to two     *)
(* vehicles, no package is lost, the pieces move by the rules, both games  *)
(* end as they should, the objects of the file system are a tree; and      *)
(* rectangles overlap and contain one another as sets of points do.        *)
(***************************************************************************)
EXTENDS Designs, Sequences, SequenceTheorems, FiniteSetTheorems,
        WellFoundedInduction, TLAPS

(* Only one program runs: what its own steps keep is kept.                 *)
LEMMA OnlyOwnSteps ==
    ASSUME Next
    PROVE  /\ program' = program
           /\ \/ program = "AmazonLocker" /\ Locker!Next
              \/ program = "ParkingLot" /\ Lot!Next
              \/ program = "Chess" /\ Pieces!Next
              \/ program = "ConnectFour" /\ Four!Next
              \/ program = "TicTacToe" /\ Three!Next
              \/ program = "FileSystem"
BY DEF Next, RunsLocker, RunsFour, RunsThree, RunsLot, RunsFiles, RunsPieces, Runs

-----------------------------------------------------------------------------
(* The parking lot: the drivers' tickets and the taken spots match.        *)
LotInv ==
    /\ Lot!TypeOK
    /\ \A v \in Vehicles : ticket[v] # nullptr =>
           spotIndex[ticket[v]] \in Spots /\ ~isFree[spotIndex[ticket[v]]]
    /\ \A i \in Spots : ~isFree[i] =>
           \E v \in Vehicles : ticket[v] # nullptr /\ spotIndex[ticket[v]] = i
    /\ \A v, w \in Vehicles :
           (/\ ticket[v] # nullptr /\ ticket[w] # nullptr
            /\ spotIndex[ticket[v]] = spotIndex[ticket[w]]) => v = w
    /\ \A a \in Addresses : spotIndex[a] # nullptr =>
           \E v \in Vehicles : ticket[v] = a

LEMMA LotInit == Init => LotInv
<1> SUFFICES ASSUME Init PROVE LotInv
  OBVIOUS
<1>1. /\ isFree = [i \in Spots |-> TRUE]
      /\ spotIndex = [a \in Addresses |-> nullptr]
      /\ ticket = [v \in Vehicles |-> nullptr]
  BY DEF Init, Lot!Init
<1>2. Lot!TypeOK
  BY <1>1 DEF Lot!TypeOK
<1>3. /\ \A i \in Spots : isFree[i] = TRUE
      /\ \A a \in Addresses : spotIndex[a] = nullptr
      /\ \A v \in Vehicles : ticket[v] = nullptr
  BY <1>1
<1> QED BY <1>2, <1>3 DEF LotInv

LEMMA LotStep ==
    ASSUME LotInv, Lot!Next
    PROVE  LotInv'
<1> USE DesignsAssumption DEF Lot!LotAssumption, Lot!TypeOK
<1>1. ASSUME NEW v \in Vehicles, Lot!parkVehicle(v) PROVE LotInv'
  <2>1. PICK i \in Spots, a \in Addresses :
            /\ isFree[i] /\ spotIndex[a] = nullptr
            /\ isFree' = [isFree EXCEPT ![i] = FALSE]
            /\ spotIndex' = [spotIndex EXCEPT ![a] = i]
            /\ ticket' = [ticket EXCEPT ![v] = a]
            /\ ticket[v] = nullptr
    BY <1>1 DEF Lot!parkVehicle, Lot!FirstFit, Lot!canFit
  <2>2. Lot!TypeOK'
    BY <2>1 DEF LotInv
  <2>3. \A w \in Vehicles : ticket[w] # nullptr =>
            /\ w # v /\ ticket[w] # a /\ ticket[w] \in Addresses
            /\ spotIndex[ticket[w]] # i
    BY <2>1 DEF LotInv
  <2>4. /\ ticket'[v] = a /\ spotIndex'[a] = i /\ ~isFree'[i] /\ a # nullptr
        /\ \A w \in Vehicles \ {v} : ticket'[w] = ticket[w]
        /\ \A b \in Addresses \ {a} : spotIndex'[b] = spotIndex[b]
        /\ \A j \in Spots \ {i} : isFree'[j] = isFree[j]
    BY <2>1 DEF LotInv
  <2>5. \A w \in Vehicles \ {v} : ticket'[w] # nullptr =>
            /\ spotIndex'[ticket'[w]] = spotIndex[ticket[w]]
            /\ spotIndex'[ticket'[w]] # i
    BY <2>3, <2>4
  <2>6. \A w \in Vehicles : ticket'[w] # nullptr =>
            /\ spotIndex'[ticket'[w]] \in Spots
            /\ ~isFree'[spotIndex'[ticket'[w]]]
    <3> SUFFICES ASSUME NEW w \in Vehicles, ticket'[w] # nullptr
                 PROVE  /\ spotIndex'[ticket'[w]] \in Spots
                        /\ ~isFree'[spotIndex'[ticket'[w]]]
      OBVIOUS
    <3>1. CASE w = v
      BY <2>4, <3>1
    <3>2. CASE w # v
      <4> DEFINE j == spotIndex[ticket[w]]
      <4>1. j \in Spots /\ ~isFree[j]
        BY <2>4, <3>2 DEF LotInv
      <4>2. spotIndex'[ticket'[w]] = j /\ j # i
        BY <2>4, <2>5, <3>2
      <4> HIDE DEF j
      <4> QED BY <2>4, <4>1, <4>2
    <3> QED BY <3>1, <3>2
  <2>7. \A j \in Spots : ~isFree'[j] =>
            \E w \in Vehicles : ticket'[w] # nullptr /\ spotIndex'[ticket'[w]] = j
    <3> SUFFICES ASSUME NEW j \in Spots, ~isFree'[j], j # i
                 PROVE  \E w \in Vehicles :
                            ticket'[w] # nullptr /\ spotIndex'[ticket'[w]] = j
      BY <2>4
    <3>1. PICK w \in Vehicles : ticket[w] # nullptr /\ spotIndex[ticket[w]] = j
      BY <2>4 DEF LotInv
    <3> QED BY <2>3, <2>4, <2>5, <3>1
  <2>8. \A b \in Addresses : spotIndex'[b] # nullptr => \E w \in Vehicles : ticket'[w] = b
    <3> SUFFICES ASSUME NEW b \in Addresses, spotIndex'[b] # nullptr, b # a
                 PROVE  \E w \in Vehicles : ticket'[w] = b
      BY <2>4
    <3>1. PICK w \in Vehicles : ticket[w] = b
      BY <2>4 DEF LotInv
    <3> QED BY <2>1, <2>4, <3>1
  <2>9. \A w, u \in Vehicles :
            (/\ ticket'[w] # nullptr /\ ticket'[u] # nullptr
             /\ spotIndex'[ticket'[w]] = spotIndex'[ticket'[u]]) => w = u
    <3> SUFFICES ASSUME NEW w \in Vehicles, NEW u \in Vehicles,
                        ticket'[w] # nullptr, ticket'[u] # nullptr,
                        spotIndex'[ticket'[w]] = spotIndex'[ticket'[u]]
                 PROVE  w = u
      OBVIOUS
    <3>1. CASE w = v \/ u = v
      BY <2>4, <2>5, <3>1
    <3>2. CASE w # v /\ u # v
      <4>1. /\ ticket[w] # nullptr /\ ticket[u] # nullptr
            /\ spotIndex[ticket[w]] = spotIndex[ticket[u]]
        BY <2>4, <2>5, <3>2
      <4> QED BY <4>1 DEF LotInv
    <3> QED BY <3>1, <3>2
  <2> QED BY <2>2, <2>6, <2>7, <2>8, <2>9 DEF LotInv
<1>2. ASSUME NEW v \in Vehicles, Lot!noSpotFound(v) PROVE LotInv'
  BY <1>2 DEF Lot!noSpotFound, Lot!vars, LotInv
<1>3. ASSUME NEW v \in Vehicles, Lot!exitVehicle(v) PROVE LotInv'
  <2> DEFINE a == ticket[v]
             i == spotIndex[a]
  <2>1. /\ a \in Addresses /\ a # nullptr /\ i \in Spots /\ i # nullptr
        /\ isFree' = [isFree EXCEPT ![i] = TRUE]
        /\ spotIndex' = [spotIndex EXCEPT ![a] = nullptr]
        /\ ticket' = [ticket EXCEPT ![v] = nullptr]
    BY <1>3 DEF Lot!exitVehicle, LotInv
  <2>2. Lot!TypeOK'
    BY <2>1 DEF LotInv
  <2>3. \A w \in Vehicles \ {v} : ticket[w] # nullptr =>
            ticket[w] # a /\ ticket[w] \in Addresses /\ spotIndex[ticket[w]] # i
    BY <2>1 DEF LotInv
  <2>4. /\ ticket'[v] = nullptr /\ spotIndex'[a] = nullptr /\ isFree'[i]
        /\ \A w \in Vehicles \ {v} : ticket'[w] = ticket[w]
        /\ \A b \in Addresses \ {a} : spotIndex'[b] = spotIndex[b]
        /\ \A j \in Spots \ {i} : isFree'[j] = isFree[j]
    BY <2>1 DEF LotInv
  <2> HIDE DEF a, i
  <2>5. \A w \in Vehicles : ticket'[w] # nullptr =>
            /\ w # v /\ ticket'[w] = ticket[w] /\ ticket[w] # a
            /\ spotIndex'[ticket'[w]] = spotIndex[ticket[w]]
            /\ spotIndex[ticket[w]] # i
    BY <2>3, <2>4
  <2>6. \A j \in Spots : ~isFree'[j] => j # i /\ ~isFree[j]
    BY <2>2, <2>4
  <2>7. \A w \in Vehicles : ticket'[w] # nullptr =>
            /\ spotIndex'[ticket'[w]] \in Spots
            /\ ~isFree'[spotIndex'[ticket'[w]]]
    <3> SUFFICES ASSUME NEW w \in Vehicles, ticket'[w] # nullptr
                 PROVE  /\ spotIndex'[ticket'[w]] \in Spots
                        /\ ~isFree'[spotIndex'[ticket'[w]]]
      OBVIOUS
    <3> DEFINE j == spotIndex[ticket[w]]
    <3>1. j \in Spots /\ ~isFree[j]
      BY <2>5 DEF LotInv
    <3>2. spotIndex'[ticket'[w]] = j /\ j # i
      BY <2>5
    <3> HIDE DEF j
    <3> QED BY <2>4, <3>1, <3>2
  <2>8. \A j \in Spots : ~isFree'[j] =>
            \E w \in Vehicles : ticket'[w] # nullptr /\ spotIndex'[ticket'[w]] = j
    <3> SUFFICES ASSUME NEW j \in Spots, ~isFree'[j]
                 PROVE  \E w \in Vehicles :
                            ticket'[w] # nullptr /\ spotIndex'[ticket'[w]] = j
      OBVIOUS
    <3>1. PICK w \in Vehicles : ticket[w] # nullptr /\ spotIndex[ticket[w]] = j
      BY <2>6 DEF LotInv
    <3>2. w # v
      BY <2>6, <3>1 DEF a, i
    <3> QED BY <2>4, <2>5, <3>1, <3>2
  <2>9. \A b \in Addresses : spotIndex'[b] # nullptr => \E w \in Vehicles : ticket'[w] = b
    <3> SUFFICES ASSUME NEW b \in Addresses, spotIndex'[b] # nullptr
                 PROVE  \E w \in Vehicles : ticket'[w] = b
      OBVIOUS
    <3>1. b # a /\ spotIndex[b] # nullptr
      BY <2>4
    <3>2. PICK w \in Vehicles : ticket[w] = b
      BY <3>1 DEF LotInv
    <3>3. w # v
      BY <3>1, <3>2 DEF a
    <3> QED BY <2>4, <3>2, <3>3
  <2>10. \A w, u \in Vehicles :
            (/\ ticket'[w] # nullptr /\ ticket'[u] # nullptr
             /\ spotIndex'[ticket'[w]] = spotIndex'[ticket'[u]]) => w = u
    <3> SUFFICES ASSUME NEW w \in Vehicles, NEW u \in Vehicles,
                        ticket'[w] # nullptr, ticket'[u] # nullptr,
                        spotIndex'[ticket'[w]] = spotIndex'[ticket'[u]]
                 PROVE  w = u
      OBVIOUS
    <3>1. /\ ticket[w] # nullptr /\ ticket[u] # nullptr
          /\ spotIndex[ticket[w]] = spotIndex[ticket[u]]
      BY <2>5
    <3> QED BY <3>1 DEF LotInv
  <2> QED BY <2>2, <2>7, <2>8, <2>9, <2>10 DEF LotInv
<1> QED BY <1>1, <1>2, <1>3 DEF Lot!Next

LEMMA LotStays == LotInv /\ UNCHANGED lot => LotInv'
BY DEF lot, LotInv, Lot!TypeOK

LEMMA LotInvSound == LotInv => Lot!LotSound
<1> SUFFICES ASSUME LotInv PROVE Lot!LotSound
  OBVIOUS
<1> USE DesignsAssumption DEF LotInv, Lot!LotAssumption, Lot!TypeOK, Lot!Parked, Lot!SpotOf
<1>1. {i \in Spots : ~isFree[i]} = {Lot!SpotOf(v) : v \in Lot!Parked}
  <2>1. ASSUME NEW i \in Spots, ~isFree[i]
        PROVE  \E v \in Lot!Parked : i = Lot!SpotOf(v)
    BY <2>1
  <2>2. ASSUME NEW v \in Lot!Parked
        PROVE  Lot!SpotOf(v) \in Spots /\ ~isFree[Lot!SpotOf(v)]
    OBVIOUS
  <2> HIDE DEF Lot!SpotOf, Lot!Parked, LotInv
  <2> QED BY <2>1, <2>2
<1>2. \A v, w \in Lot!Parked : Lot!SpotOf(v) = Lot!SpotOf(w) => v = w
  OBVIOUS
<1>3. {a \in Addresses : spotIndex[a] # nullptr} = {ticket[v] : v \in Lot!Parked}
  OBVIOUS
<1> QED BY <1>1, <1>2, <1>3 DEF Lot!LotSound

(* No spot is given to two vehicles and none is lost, however many spots,  *)
(* vehicles and addresses there are.                                       *)
THEOREM SpotsMatchTickets == Spec => []LotSound
<1> DEFINE Inv == program = "ParkingLot" => LotInv
<1>1. Init => Inv
  BY LotInit
<1>2. Inv /\ [Next]_vars => Inv'
  <2> SUFFICES ASSUME Inv, [Next]_vars PROVE Inv'
    OBVIOUS
  <2>1. CASE Next
    BY <2>1, OnlyOwnSteps, LotStep
  <2>2. CASE UNCHANGED vars
    BY <2>2, LotStays DEF vars
  <2> QED BY <2>1, <2>2
<1>3. Inv => LotSound
  BY LotInvSound DEF LotSound
<1> QED BY <1>1, <1>2, <1>3, PTL DEF Spec

-----------------------------------------------------------------------------
(* The locker: a package lies in at most one compartment, in one exactly   *)
(* if it was deposited and is not gone; a package that was not deposited   *)
(* cannot be gone.                                                         *)
LockerInv ==
    /\ Locker!TypeOK
    /\ Locker!TokensSound
    /\ \A c \in Compartments : c \in occupied <=> inside[c] # Nothing
    /\ \A c \in Compartments : inside[c] # Nothing =>
           told[inside[c]] # Nothing /\ inside[c] \notin gone
    /\ \A c, d \in Compartments : inside[c] # Nothing /\ inside[c] = inside[d] => c = d
    /\ \A p \in Packages : told[p] # Nothing /\ p \notin gone =>
           \E c \in Compartments : inside[c] = p
    /\ \A p \in Packages : p \in gone => told[p] # Nothing
    /\ Locker!NoCodeDrawnTwice => Locker!OneTokenPerPackage

LEMMA LockerInit == Init => LockerInv
<1> SUFFICES ASSUME Init PROVE LockerInv
  OBVIOUS
<1>1. /\ occupied = {} /\ gone = {}
      /\ tokensMap = [k \in Codes |-> Nothing]
      /\ inside = [c \in Compartments |-> Nothing]
      /\ told = [p \in Packages |-> Nothing]
  BY DEF Init, Locker!Init
<1>2. /\ \A k \in Codes : tokensMap[k] = Nothing
      /\ \A c \in Compartments : inside[c] = Nothing
      /\ \A p \in Packages : told[p] = Nothing
  BY <1>1
<1>3. Locker!TypeOK
  BY <1>1 DEF Locker!TypeOK
<1>4. Locker!TokensSound /\ Locker!OneTokenPerPackage
  BY <1>2 DEF Locker!TokensSound, Locker!OneTokenPerPackage, Locker!Live
<1> QED BY <1>1, <1>2, <1>3, <1>4 DEF LockerInv

LEMMA LockerDeposit ==
    ASSUME LockerInv, NEW p \in Packages, NEW size \in Sizes,
           Locker!depositPackage(p, size)
    PROVE  LockerInv'
<1>1. PICK c \in Compartments, k \in Codes :
          /\ c \notin occupied /\ told[p] = Nothing
          /\ occupied' = occupied \cup {c}
          /\ tokensMap' = [tokensMap EXCEPT ![k] = [comp |-> c, left |-> Ttl]]
          /\ inside' = [inside EXCEPT ![c] = p]
          /\ told' = [told EXCEPT ![p] = k]
          /\ gone' = gone
  BY DEF Locker!depositPackage, Locker!Free
<1>2. /\ Nothing \notin Compartments \cup Packages \cup Codes \cup Locker!Tokens
      /\ Ttl \in Nat /\ Locker!TypeOK
  BY DesignsAssumption DEF Locker!LockerAssumption, LockerInv
<1>9. [comp |-> c, left |-> Ttl] \in Locker!Tokens
  BY <1>2 DEF Locker!Tokens
<1>3. Locker!TypeOK'
  BY <1>1, <1>2, <1>9 DEF Locker!TypeOK
<1>4. /\ inside[c] = Nothing /\ p \notin gone /\ p # Nothing
      /\ \A d \in Compartments : inside[d] # p
  BY <1>1, <1>2 DEF LockerInv
<1>5. /\ \A d \in Compartments : inside'[d] = IF d = c THEN p ELSE inside[d]
      /\ \A q \in Packages : told'[q] = IF q = p THEN k ELSE told[q]
      /\ tokensMap'[k].comp = c
      /\ \A l \in Codes \ {k} : tokensMap'[l] = tokensMap[l]
  BY <1>1, <1>2 DEF Locker!TypeOK
<1>6. tokensMap'[k] # Nothing
  BY <1>1, <1>2, <1>9 DEF Locker!TypeOK
<1>7. Locker!TokensSound'
  <2>1. \A l \in Codes \ {k} : tokensMap[l] # Nothing => tokensMap[l].comp \in Compartments
    BY <1>2 DEF Locker!TypeOK, Locker!Tokens
  <2>2. \A l \in Codes \ {k} : tokensMap[l] # Nothing =>
            tokensMap[l].comp # c /\ inside[tokensMap[l].comp] # Nothing
    BY <1>4 DEF LockerInv, Locker!TokensSound, Locker!Live
  <2> SUFFICES ASSUME NEW l \in Codes, tokensMap'[l] # Nothing,
                      NEW m \in Codes, tokensMap'[m] # Nothing
               PROVE  /\ inside'[tokensMap'[l].comp] # Nothing
                      /\ tokensMap'[l].comp = tokensMap'[m].comp => l = m
    BY DEF Locker!TokensSound, Locker!Live
  <2>3. inside'[tokensMap'[l].comp] # Nothing
    <3>1. CASE l = k
      BY <1>4, <1>5, <3>1
    <3>2. CASE l # k
      BY <1>5, <2>1, <2>2, <3>2
    <3> QED BY <3>1, <3>2
  <2>4. ASSUME tokensMap'[l].comp = tokensMap'[m].comp
        PROVE  l = m
    <3>1. CASE l = k \/ m = k
      BY <1>5, <2>2, <2>4, <3>1
    <3>2. CASE l # k /\ m # k
      BY <1>5, <2>4, <3>2 DEF LockerInv, Locker!TokensSound, Locker!Live
    <3> QED BY <3>1, <3>2
  <2> QED BY <2>3, <2>4
<1>8. ASSUME Locker!NoCodeDrawnTwice'
      PROVE  Locker!OneTokenPerPackage'
  <2>1. \A q \in Packages \ {p} : told[q] # k
    BY <1>2, <1>5, <1>8 DEF Locker!NoCodeDrawnTwice
  <2>2. Locker!NoCodeDrawnTwice
    BY <1>1, <1>5, <1>8, <2>1 DEF Locker!NoCodeDrawnTwice
  <2>3. Locker!OneTokenPerPackage
    BY <2>2 DEF LockerInv
  <2> SUFFICES ASSUME NEW d \in Compartments, inside'[d] # Nothing
               PROVE  /\ told'[inside'[d]] \in Locker!Live'
                      /\ tokensMap'[told'[inside'[d]]].comp = d
    BY DEF Locker!OneTokenPerPackage
  <2>4. CASE d = c
    BY <1>5, <1>6, <2>4 DEF Locker!Live
  <2>5. CASE d # c
    <3>1. inside'[d] = inside[d] /\ inside[d] \in Packages \ {p}
      BY <1>2, <1>4, <1>5, <2>5 DEF Locker!TypeOK
    <3>2. /\ told[inside[d]] \in Codes /\ tokensMap[told[inside[d]]] # Nothing
          /\ tokensMap[told[inside[d]]].comp = d
      BY <2>3, <3>1 DEF Locker!OneTokenPerPackage, Locker!Live
    <3>3. told'[inside[d]] = told[inside[d]] /\ told[inside[d]] # k
      BY <1>5, <2>1, <3>1
    <3> QED BY <1>5, <3>1, <3>2, <3>3 DEF Locker!Live
  <2> QED BY <2>4, <2>5
<1>10. /\ \A d \in Compartments : d \in occupied' <=> inside'[d] # Nothing
       /\ \A d \in Compartments : inside'[d] # Nothing =>
              told'[inside'[d]] # Nothing /\ inside'[d] \notin gone'
  <2> SUFFICES ASSUME NEW d \in Compartments
               PROVE  /\ d \in occupied' <=> inside'[d] # Nothing
                      /\ inside'[d] # Nothing =>
                             told'[inside'[d]] # Nothing /\ inside'[d] \notin gone'
    OBVIOUS
  <2>1. CASE d = c
    BY <1>1, <1>2, <1>4, <1>5, <2>1
  <2>2. CASE d # c
    <3>1. inside'[d] = inside[d] /\ inside[d] # p
          /\ inside[d] \in Packages \cup {Nothing}
      BY <1>2, <1>4, <1>5, <2>2 DEF Locker!TypeOK
    <3> QED BY <1>1, <1>5, <2>2, <3>1 DEF LockerInv
  <2> QED BY <2>1, <2>2
<1>11. \A d, e \in Compartments : inside'[d] # Nothing /\ inside'[d] = inside'[e] => d = e
  BY <1>4, <1>5 DEF LockerInv
<1>12. \A q \in Packages : told'[q] # Nothing /\ q \notin gone' =>
           \E d \in Compartments : inside'[d] = q
  <2> SUFFICES ASSUME NEW q \in Packages, told'[q] # Nothing, q \notin gone'
               PROVE  \E d \in Compartments : inside'[d] = q
    OBVIOUS
  <2>1. CASE q = p
    BY <1>5, <2>1
  <2>2. CASE q # p
    <3>1. PICK d \in Compartments : inside[d] = q
      BY <1>1, <1>5, <2>2 DEF LockerInv
    <3>2. d # c
      BY <1>2, <1>4, <3>1
    <3> QED BY <1>5, <3>1, <3>2
  <2> QED BY <2>1, <2>2
<1>13. \A q \in Packages : q \in gone' => told'[q] # Nothing
  BY <1>1, <1>2, <1>5 DEF LockerInv
<1> QED BY <1>3, <1>7, <1>8, <1>10, <1>11, <1>12, <1>13 DEF LockerInv

LEMMA LockerVacate ==
    ASSUME LockerInv, NEW k \in Codes, k \in Locker!Live, Locker!Vacate(k)
    PROVE  LockerInv'
<1> DEFINE c == tokensMap[k].comp
           p == inside[c]
<1>1. /\ Nothing \notin Compartments \cup Packages \cup Codes \cup Locker!Tokens
      /\ Locker!TypeOK
  BY DesignsAssumption DEF Locker!LockerAssumption, LockerInv
<1>2. /\ c \in Compartments /\ p \in Packages /\ p # Nothing /\ tokensMap[k] # Nothing
      /\ p \notin gone /\ told[p] # Nothing
      /\ \A l \in Codes \ {k} : tokensMap[l] # Nothing => tokensMap[l].comp # c
  <2>1. tokensMap[k] \in Locker!Tokens
    BY <1>1 DEF Locker!TypeOK, Locker!Live
  <2>2. c \in Compartments /\ p # Nothing
    BY <2>1 DEF LockerInv, Locker!TokensSound, Locker!Tokens
  <2>3. p \in Packages
    BY <1>1, <2>2 DEF Locker!TypeOK
  <2>4. p \notin gone /\ told[p] # Nothing
    BY <2>2 DEF LockerInv
  <2>5. \A l \in Codes \ {k} : tokensMap[l] # Nothing => tokensMap[l].comp # c
    BY DEF LockerInv, Locker!TokensSound, Locker!Live
  <2> QED BY <2>2, <2>3, <2>4, <2>5 DEF Locker!Live
<1>3. /\ occupied' = occupied \ {c}
      /\ inside' = [inside EXCEPT ![c] = Nothing]
      /\ gone' = gone \cup {p}
      /\ tokensMap' = [tokensMap EXCEPT ![k] = Nothing]
      /\ told' = told
  BY DEF Locker!Vacate
<1> HIDE DEF c, p
<1>4. /\ \A d \in Compartments : inside'[d] = IF d = c THEN Nothing ELSE inside[d]
      /\ \A l \in Codes : tokensMap'[l] = IF l = k THEN Nothing ELSE tokensMap[l]
  BY <1>1, <1>2, <1>3 DEF Locker!TypeOK
<1>5. Locker!TypeOK'
  BY <1>1, <1>2, <1>3 DEF Locker!TypeOK
<1>6. \A d \in Compartments \ {c} : inside'[d] = inside[d] /\ inside[d] # p
  BY <1>2, <1>4 DEF LockerInv, p
<1>7. Locker!TokensSound'
  <2> SUFFICES ASSUME NEW l \in Codes, tokensMap'[l] # Nothing,
                      NEW m \in Codes, tokensMap'[m] # Nothing
               PROVE  /\ inside'[tokensMap'[l].comp] # Nothing
                      /\ tokensMap'[l].comp = tokensMap'[m].comp => l = m
    BY DEF Locker!TokensSound, Locker!Live
  <2>1. l # k /\ m # k /\ tokensMap'[l] = tokensMap[l] /\ tokensMap'[m] = tokensMap[m]
    BY <1>4
  <2>2. tokensMap[l].comp \in Compartments \ {c}
    BY <1>1, <1>2, <2>1 DEF Locker!TypeOK, Locker!Tokens
  <2>3. /\ inside[tokensMap[l].comp] # Nothing
        /\ tokensMap[l].comp = tokensMap[m].comp => l = m
    BY <2>1 DEF LockerInv, Locker!TokensSound, Locker!Live
  <2> QED BY <1>6, <2>1, <2>2, <2>3
<1>8. ASSUME Locker!NoCodeDrawnTwice'
      PROVE  Locker!OneTokenPerPackage'
  <2>1. Locker!OneTokenPerPackage
    BY <1>3, <1>8 DEF LockerInv, Locker!NoCodeDrawnTwice
  <2> SUFFICES ASSUME NEW d \in Compartments, inside'[d] # Nothing
               PROVE  /\ told'[inside'[d]] \in Locker!Live'
                      /\ tokensMap'[told'[inside'[d]]].comp = d
    BY DEF Locker!OneTokenPerPackage
  <2>2. d # c /\ inside'[d] = inside[d]
    BY <1>4
  <2> DEFINE l == told[inside[d]]
  <2>3. l \in Codes /\ tokensMap[l] # Nothing /\ tokensMap[l].comp = d
    BY <2>1, <2>2 DEF Locker!OneTokenPerPackage, Locker!Live
  <2>4. l # k
    BY <2>2, <2>3 DEF c
  <2>5. told'[inside'[d]] = l
    BY <1>3, <2>2
  <2> HIDE DEF l
  <2> QED BY <1>4, <2>3, <2>4, <2>5 DEF Locker!Live
<1>9. /\ \A d \in Compartments : d \in occupied' <=> inside'[d] # Nothing
      /\ \A d \in Compartments : inside'[d] # Nothing =>
             told'[inside'[d]] # Nothing /\ inside'[d] \notin gone'
  <2> SUFFICES ASSUME NEW d \in Compartments
               PROVE  /\ d \in occupied' <=> inside'[d] # Nothing
                      /\ inside'[d] # Nothing =>
                             told'[inside'[d]] # Nothing /\ inside'[d] \notin gone'
    OBVIOUS
  <2>1. CASE d = c
    BY <1>3, <1>4, <2>1
  <2>2. CASE d # c
    BY <1>3, <1>6, <2>2 DEF LockerInv
  <2> QED BY <2>1, <2>2
<1>10. \A d, e \in Compartments : inside'[d] # Nothing /\ inside'[d] = inside'[e] => d = e
  BY <1>4 DEF LockerInv
<1>11. \A q \in Packages : told'[q] # Nothing /\ q \notin gone' =>
           \E d \in Compartments : inside'[d] = q
  <2> SUFFICES ASSUME NEW q \in Packages, told[q] # Nothing, q \notin gone, q # p
               PROVE  \E d \in Compartments : inside'[d] = q
    BY <1>3
  <2>1. PICK d \in Compartments : inside[d] = q
    BY DEF LockerInv
  <2> QED BY <1>6, <2>1 DEF p
<1>12. \A q \in Packages : q \in gone' => told'[q] # Nothing
  BY <1>2, <1>3 DEF LockerInv
<1> QED BY <1>5, <1>7, <1>8, <1>9, <1>10, <1>11, <1>12 DEF LockerInv

LEMMA LockerTick ==
    ASSUME LockerInv, Locker!Tick
    PROVE  LockerInv'
<1>1. /\ Nothing \notin Compartments \cup Packages \cup Codes \cup Locker!Tokens
      /\ Ttl \in Nat /\ Locker!TypeOK
  BY DesignsAssumption DEF Locker!LockerAssumption, LockerInv
<1>2. /\ tokensMap' = [k \in Codes |-> tokensMap'[k]]
      /\ UNCHANGED <<occupied, inside, told, gone>>
  BY DEF Locker!Tick
<1>3. ASSUME NEW k \in Codes
      PROVE  /\ tokensMap'[k] \in Locker!Tokens \cup {Nothing}
             /\ tokensMap'[k] # Nothing <=> tokensMap[k] # Nothing
             /\ tokensMap[k] # Nothing => tokensMap'[k].comp = tokensMap[k].comp
  <2>1. tokensMap'[k] = IF k \in Locker!Live /\ tokensMap[k].left >= 0
                        THEN [tokensMap[k] EXCEPT !.left = @ - 1] ELSE tokensMap[k]
    BY DEF Locker!Tick
  <2>2. CASE k \in Locker!Live /\ tokensMap[k].left >= 0
    <3>1. tokensMap[k] \in Locker!Tokens
      BY <1>1, <2>2 DEF Locker!TypeOK, Locker!Live
    <3>2. /\ tokensMap'[k] \in Locker!Tokens
          /\ tokensMap'[k].comp = tokensMap[k].comp
      BY <1>1, <2>1, <2>2, <3>1 DEF Locker!Tokens
    <3> QED BY <1>1, <2>2, <3>2 DEF Locker!Live
  <2>3. CASE ~(k \in Locker!Live /\ tokensMap[k].left >= 0)
    BY <1>1, <2>1, <2>3 DEF Locker!TypeOK
  <2> QED BY <2>2, <2>3
<1>4. Locker!TypeOK'
  BY <1>1, <1>2, <1>3 DEF Locker!TypeOK
<1>5. Locker!TokensSound'
  BY <1>2, <1>3 DEF LockerInv, Locker!TokensSound, Locker!Live
<1>6. Locker!NoCodeDrawnTwice' => Locker!OneTokenPerPackage'
  <2>1. Locker!NoCodeDrawnTwice' => Locker!OneTokenPerPackage
    BY <1>2 DEF LockerInv, Locker!NoCodeDrawnTwice
  <2> QED BY <1>2, <1>3, <2>1 DEF Locker!OneTokenPerPackage, Locker!Live
<1> QED BY <1>2, <1>4, <1>5, <1>6 DEF LockerInv

LEMMA LockerStays == LockerInv /\ UNCHANGED locker => LockerInv'
BY DEF locker, LockerInv, Locker!TypeOK, Locker!TokensSound, Locker!Live,
       Locker!NoCodeDrawnTwice, Locker!OneTokenPerPackage

LEMMA LockerStep ==
    ASSUME LockerInv, Locker!Next
    PROVE  LockerInv'
<1>1. ASSUME NEW p \in Packages, NEW size \in Sizes, Locker!depositPackage(p, size)
      PROVE  LockerInv'
  BY <1>1, LockerDeposit
<1>2. ASSUME NEW code \in Codes,
             Locker!getPackage(code) \/ Locker!removeExpiredPackage(code)
      PROVE  LockerInv'
  BY <1>2, LockerVacate DEF Locker!getPackage, Locker!removeExpiredPackage
<1> QED BY <1>1, <1>2, LockerTick DEF Locker!Next

LEMMA SameCardinality == \A S : Locker!Cardinality(S) = Cardinality(S)
BY DEF Locker!Cardinality, Cardinality

LEMMA LockerInvSound == LockerInv => Locker!LockerSound
<1> SUFFICES ASSUME LockerInv PROVE Locker!LockerSound
  OBVIOUS
<1>1. occupied = {c \in Compartments : inside[c] # Nothing}
  BY DEF LockerInv, Locker!TypeOK
<1>2. ASSUME NEW p \in Packages
      PROVE  Cardinality({c \in Compartments : inside[c] = p})
                 = IF told[p] # Nothing /\ p \notin gone THEN 1 ELSE 0
  <2> DEFINE S == {c \in Compartments : inside[c] = p}
  <2>1. p # Nothing
    BY DesignsAssumption DEF Locker!LockerAssumption
  <2>2. CASE told[p] # Nothing /\ p \notin gone
    <3>1. PICK c \in Compartments : inside[c] = p
      BY <2>2 DEF LockerInv
    <3>2. S = {c}
      BY <2>1, <3>1 DEF LockerInv
    <3> QED BY <2>2, <3>2, FS_Singleton
  <2>3. CASE ~(told[p] # Nothing /\ p \notin gone)
    <3>1. S = {}
      BY <2>1, <2>3 DEF LockerInv
    <3> QED BY <2>3, <3>1, FS_EmptySet
  <2> QED BY <2>2, <2>3
<1>3. Locker!PackagesAccounted
  BY <1>1, <1>2, SameCardinality DEF Locker!PackagesAccounted
<1> QED BY <1>3 DEF LockerInv, Locker!LockerSound

(* No package is put on another, a live code opens the compartment of one  *)
(* package, and as long as no code is drawn twice every package that waits *)
(* can be had with the code its customer was told.                         *)
THEOREM PackagesKept == Spec => []LockerSound
<1> DEFINE Inv == program = "AmazonLocker" => LockerInv
<1>1. Init => Inv
  BY LockerInit
<1>2. Inv /\ [Next]_vars => Inv'
  <2> SUFFICES ASSUME Inv, [Next]_vars PROVE Inv'
    OBVIOUS
  <2>1. CASE Next
    BY <2>1, OnlyOwnSteps, LockerStep
  <2>2. CASE UNCHANGED vars
    BY <2>2, LockerStays DEF vars
  <2> QED BY <2>1, <2>2
<1>3. Inv => LockerSound
  BY LockerInvSound DEF LockerSound
<1> QED BY <1>1, <1>2, <1>3, PTL DEF Spec

-----------------------------------------------------------------------------
(* The rook and the knight.  A square is reached from x in a direction, k  *)
(* steps away; what lies between are the squares fewer steps away.         *)
Straight == {<<0, -1>>, <<-1, 0>>, <<1, 0>>, <<0, 1>>}
Leaps == {<<1, -2>>, <<1, 2>>, <<-1, 2>>, <<-1, -2>>, <<2, 1>>, <<2, -1>>, <<-2, 1>>, <<-2, -1>>}

LEMMA SizeIsNat == Size \in Nat \ {0}
BY DesignsAssumption DEF Pieces!ChessAssumption

LEMMA Coordinates ==
    ASSUME NEW x \in Pieces!Positions
    PROVE  /\ x[1] \in Int /\ x[2] \in Int /\ x = <<x[1], x[2]>>
           /\ 0 <= x[1] /\ x[1] < Size /\ 0 <= x[2] /\ x[2] < Size
BY SizeIsNat DEF Pieces!Positions

LEMMA PositionsAre ==
    ASSUME NEW i \in Int, NEW j \in Int, 0 <= i, i < Size, 0 <= j, j < Size
    PROVE  <<i, j>> \in Pieces!Positions
BY SizeIsNat DEF Pieces!Positions

(* Between, in one coordinate.                                             *)
LEMMA Amid ==
    ASSUME NEW p \in Int, NEW q \in Int, NEW r \in Int, NEW k \in Int, 1 <= k,
           Pieces!Distance(p, r) + Pieces!Distance(r, q) = Pieces!Distance(p, q),
           NEW e, e = Pieces!Distance(p, r)
    PROVE  /\ e \in Int
           /\ q = p => r = p /\ e = 0
           /\ q = p + k => r = p + e /\ 0 <= e /\ e <= k
           /\ q = p - k => r = p - e /\ 0 <= e /\ e <= k
           /\ e = 0 => r = p
           /\ e = k /\ (q = p + k \/ q = p - k) => r = q
BY DEF Pieces!Distance

(* Two squares of a row or of a column are so many steps apart.            *)
LEMMA InLine ==
    ASSUME NEW x \in Pieces!Positions, NEW y \in Pieces!Positions, x # y,
           0 \in {Pieces!Distance(x[1], y[1]), Pieces!Distance(x[2], y[2])}
    PROVE  \E d \in Straight, k \in 1 .. Size : y = Pieces!Step(x, d, k)
<1>1. /\ x[1] \in Int /\ x[2] \in Int /\ y[1] \in Int /\ y[2] \in Int
      /\ 0 <= x[1] /\ x[1] < Size /\ 0 <= x[2] /\ x[2] < Size
      /\ 0 <= y[1] /\ y[1] < Size /\ 0 <= y[2] /\ y[2] < Size
      /\ y = <<y[1], y[2]>> /\ Size \in Nat
      /\ x[1] # y[1] \/ x[2] # y[2]
  BY Coordinates, SizeIsNat
<1>2. x[1] = y[1] \/ x[2] = y[2]
  BY <1>1 DEF Pieces!Distance
<1>3. CASE x[1] = y[1] /\ x[2] < y[2]
  <2> DEFINE d == <<0, 1>>
             k == y[2] - x[2]
  <2>1. k \in 1 .. Size /\ d \in Straight
    BY <1>1, <1>3 DEF Straight
  <2>2. x[1] + k * 0 = y[1] /\ x[2] + k * 1 = y[2]
    BY <1>1, <1>3
  <2>3. y = Pieces!Step(x, d, k)
    BY <1>1, <2>2 DEF Pieces!Step
  <2> QED BY <2>1, <2>3
<1>4. CASE x[1] = y[1] /\ y[2] < x[2]
  <2> DEFINE d == <<0, -1>>
             k == x[2] - y[2]
  <2>1. k \in 1 .. Size /\ d \in Straight
    BY <1>1, <1>4 DEF Straight
  <2>2. x[1] + k * 0 = y[1] /\ x[2] + k * (-1) = y[2]
    BY <1>1, <1>4
  <2>3. y = Pieces!Step(x, d, k)
    BY <1>1, <2>2 DEF Pieces!Step
  <2> QED BY <2>1, <2>3
<1>5. CASE x[2] = y[2] /\ x[1] < y[1]
  <2> DEFINE d == <<1, 0>>
             k == y[1] - x[1]
  <2>1. k \in 1 .. Size /\ d \in Straight
    BY <1>1, <1>5 DEF Straight
  <2>2. x[1] + k * 1 = y[1] /\ x[2] + k * 0 = y[2]
    BY <1>1, <1>5
  <2>3. y = Pieces!Step(x, d, k)
    BY <1>1, <2>2 DEF Pieces!Step
  <2> QED BY <2>1, <2>3
<1>6. CASE x[2] = y[2] /\ y[1] < x[1]
  <2> DEFINE d == <<-1, 0>>
             k == x[1] - y[1]
  <2>1. k \in 1 .. Size /\ d \in Straight
    BY <1>1, <1>6 DEF Straight
  <2>2. x[1] + k * (-1) = y[1] /\ x[2] + k * 0 = y[2]
    BY <1>1, <1>6
  <2>3. y = Pieces!Step(x, d, k)
    BY <1>1, <2>2 DEF Pieces!Step
  <2> QED BY <2>1, <2>3
<1> QED BY <1>1, <1>2, <1>3, <1>4, <1>5, <1>6

(* Steps in a direction stay in the row or column; the squares between the *)
(* ends are those of fewer steps.                                          *)
LEMMA Reached ==
    ASSUME NEW x \in Pieces!Positions, NEW y \in Pieces!Positions,
           NEW d \in Straight, NEW k \in 1 .. Size, y = Pieces!Step(x, d, k)
    PROVE  /\ x # y
           /\ 0 \in {Pieces!Distance(x[1], y[1]), Pieces!Distance(x[2], y[2])}
           /\ Pieces!Between(x, y) = {Pieces!Step(x, d, j) : j \in 1 .. k - 1}
<1>1. /\ x[1] \in Int /\ x[2] \in Int /\ y[1] \in Int /\ y[2] \in Int
      /\ 0 <= x[1] /\ x[1] < Size /\ 0 <= x[2] /\ x[2] < Size
      /\ 0 <= y[1] /\ y[1] < Size /\ 0 <= y[2] /\ y[2] < Size
      /\ Size \in Nat /\ k \in Int /\ 1 <= k
  BY Coordinates, SizeIsNat
<1>2. PICK a \in {-1, 0, 1}, b \in {-1, 0, 1} :
          d = <<a, b>> /\ ((a = 0 /\ b # 0) \/ (b = 0 /\ a # 0))
  BY DEF Straight
<1>3. \A j \in Int : Pieces!Step(x, d, j) = <<x[1] + j * a, x[2] + j * b>>
  BY <1>2 DEF Pieces!Step
<1>4. y[1] = x[1] + k * a /\ y[2] = x[2] + k * b
  <2>1. y = <<x[1] + k * a, x[2] + k * b>>
    <3>1. k \in Int
      BY <1>1
    <3> QED BY <1>3, <3>1
  <2> QED BY ONLY <2>1
<1>5. x # y /\ (x[1] = y[1] \/ x[2] = y[2])
  BY <1>1, <1>2, <1>4
<1>6. 0 \in {Pieces!Distance(x[1], y[1]), Pieces!Distance(x[2], y[2])}
  BY <1>1, <1>5 DEF Pieces!Distance
<1>7. ASSUME NEW j \in 1 .. k - 1
      PROVE  Pieces!Step(x, d, j) \in Pieces!Between(x, y)
  <2> DEFINE z1 == x[1] + j * a
             z2 == x[2] + j * b
  <2>1. Pieces!Step(x, d, j) = <<z1, z2>>
    <3>1. j \in Int
      BY <1>1
    <3> QED BY <1>3, <3>1
  <2>2. /\ z1 \in Int /\ z2 \in Int /\ 0 <= z1 /\ z1 < Size /\ 0 <= z2 /\ z2 < Size
        /\ z1 # x[1] \/ z2 # x[2]
        /\ z1 # y[1] \/ z2 # y[2]
        /\ Pieces!Distance(x[1], z1) + Pieces!Distance(z1, y[1]) = Pieces!Distance(x[1], y[1])
        /\ Pieces!Distance(x[2], z2) + Pieces!Distance(z2, y[2]) = Pieces!Distance(x[2], y[2])
    BY <1>1, <1>2, <1>4 DEF Pieces!Distance
  <2> HIDE DEF z1, z2
  <2>3. <<z1, z2>> \in Pieces!Positions \ {x, y}
    BY <2>2, PositionsAre
  <2>4. \A i \in 1 .. 2 : Pieces!Distance(x[i], <<z1, z2>>[i])
                              + Pieces!Distance(<<z1, z2>>[i], y[i])
                          = Pieces!Distance(x[i], y[i])
    <3>1. \A i \in 1 .. 2 : i = 1 \/ i = 2
      OBVIOUS
    <3>2. <<z1, z2>>[1] = z1 /\ <<z1, z2>>[2] = z2
      OBVIOUS
    <3> QED BY <2>2, <3>1, <3>2
  <2> QED BY <2>1, <2>3, <2>4 DEF Pieces!Between
<1>8. ASSUME NEW z \in Pieces!Between(x, y)
      PROVE  \E j \in 1 .. k - 1 : z = Pieces!Step(x, d, j)
  <2>1. /\ z \in Pieces!Positions /\ z # x /\ z # y
        /\ Pieces!Distance(x[1], z[1]) + Pieces!Distance(z[1], y[1])
               = Pieces!Distance(x[1], y[1])
        /\ Pieces!Distance(x[2], z[2]) + Pieces!Distance(z[2], y[2])
               = Pieces!Distance(x[2], y[2])
    BY DEF Pieces!Between
  <2>2. z[1] \in Int /\ z[2] \in Int /\ z = <<z[1], z[2]>>
    BY <2>1, Coordinates
  <2>3. (z[1] # x[1] \/ z[2] # x[2]) /\ (z[1] # y[1] \/ z[2] # y[2])
    BY <2>1, <2>2, Coordinates
  <2> DEFINE e1 == Pieces!Distance(x[1], z[1])
             e2 == Pieces!Distance(x[2], z[2])
             j == e1 + e2
  <2>6. /\ e1 \in Int
        /\ y[1] = x[1] => z[1] = x[1] /\ e1 = 0
        /\ y[1] = x[1] + k => z[1] = x[1] + e1 /\ 0 <= e1 /\ e1 <= k
        /\ y[1] = x[1] - k => z[1] = x[1] - e1 /\ 0 <= e1 /\ e1 <= k
        /\ e1 = 0 => z[1] = x[1]
        /\ e1 = k /\ (y[1] = x[1] + k \/ y[1] = x[1] - k) => z[1] = y[1]
    BY <1>1, <2>1, <2>2, Amid
  <2>7. /\ e2 \in Int
        /\ y[2] = x[2] => z[2] = x[2] /\ e2 = 0
        /\ y[2] = x[2] + k => z[2] = x[2] + e2 /\ 0 <= e2 /\ e2 <= k
        /\ y[2] = x[2] - k => z[2] = x[2] - e2 /\ 0 <= e2 /\ e2 <= k
        /\ e2 = 0 => z[2] = x[2]
        /\ e2 = k /\ (y[2] = x[2] + k \/ y[2] = x[2] - k) => z[2] = y[2]
    BY <1>1, <2>1, <2>2, Amid
  <2> HIDE DEF e1, e2
  <2>4. /\ j \in Int /\ 1 <= j /\ j <= k - 1
        /\ z[1] = x[1] + j * a /\ z[2] = x[2] + j * b
    <3>1. CASE a = 0 /\ b = 1
      <4>1. y[1] = x[1] /\ y[2] = x[2] + k
        BY <1>1, <1>4, <3>1
      <4> QED BY <1>1, <2>2, <2>3, <2>6, <2>7, <3>1, <4>1
    <3>2. CASE a = 0 /\ b = -1
      <4>1. y[1] = x[1] /\ y[2] = x[2] - k
        BY <1>1, <1>4, <3>2
      <4> QED BY <1>1, <2>2, <2>3, <2>6, <2>7, <3>2, <4>1
    <3>3. CASE a = 1 /\ b = 0
      <4>1. y[1] = x[1] + k /\ y[2] = x[2]
        BY <1>1, <1>4, <3>3
      <4> QED BY <1>1, <2>2, <2>3, <2>6, <2>7, <3>3, <4>1
    <3>4. CASE a = -1 /\ b = 0
      <4>1. y[1] = x[1] - k /\ y[2] = x[2]
        BY <1>1, <1>4, <3>4
      <4> QED BY <1>1, <2>2, <2>3, <2>6, <2>7, <3>4, <4>1
    <3> QED BY <1>2, <3>1, <3>2, <3>3, <3>4
  <2> HIDE DEF j
  <2>5. j \in 1 .. k - 1 /\ z = Pieces!Step(x, d, j)
    <3>1. j \in 1 .. k - 1
      BY <1>1, <2>4
    <3>2. Pieces!Step(x, d, j) = <<x[1] + j * a, x[2] + j * b>>
      BY <1>3, <2>4
    <3>3. z = <<x[1] + j * a, x[2] + j * b>>
      BY ONLY <2>2, <2>4
    <3> QED BY <3>1, <3>2, <3>3
  <2> QED BY <2>5
<1>9. Pieces!Between(x, y) = {Pieces!Step(x, d, j) : j \in 1 .. k - 1}
  BY <1>7, <1>8
<1> QED BY <1>5, <1>6, <1>9

LEMMA Leapt ==
    ASSUME NEW x \in Pieces!Positions, NEW y \in Pieces!Positions
    PROVE  (\E d \in Leaps : y = Pieces!Step(x, d, 1))
               <=> {Pieces!Distance(x[1], y[1]), Pieces!Distance(x[2], y[2])} = {1, 2}
<1> DEFINE r == Pieces!Distance(x[1], y[1])
           c == Pieces!Distance(x[2], y[2])
<1>1. /\ x[1] \in Int /\ x[2] \in Int /\ y[1] \in Int /\ y[2] \in Int
      /\ y = <<y[1], y[2]>>
  BY Coordinates
<1>2. \A a, b \in Int : y = Pieces!Step(x, <<a, b>>, 1) <=> y[1] = x[1] + a /\ y[2] = x[2] + b
  BY <1>1 DEF Pieces!Step
<1>3. (\E d \in Leaps : y = Pieces!Step(x, d, 1)) <=> (r = 1 /\ c = 2) \/ (r = 2 /\ c = 1)
  BY <1>1, <1>2 DEF Leaps, Pieces!Distance
<1> HIDE DEF r, c
<1>4. {r, c} = {1, 2} <=> (r = 1 /\ c = 2) \/ (r = 2 /\ c = 1)
  OBVIOUS
<1> QED BY <1>3, <1>4 DEF r, c

(* The program's search and the rules of the game agree.                   *)
RookRule(x) ==
    {y \in Pieces!Positions :
        /\ y # x /\ grid[y] # grid[x]
        /\ 0 \in {Pieces!Distance(x[1], y[1]), Pieces!Distance(x[2], y[2])}
        /\ \A z \in Pieces!Between(x, y) : grid[z] = Empty}
KnightRule(x) ==
    {y \in Pieces!Positions :
        /\ y # x /\ grid[y] # grid[x]
        /\ {Pieces!Distance(x[1], y[1]), Pieces!Distance(x[2], y[2])} = {1, 2}}

LEMMA NotOwn ==
    ASSUME NEW x, Pieces!isOwnPiece(x), NEW y
    PROVE  Pieces!isEmpty(y) \/ Pieces!isOpponent(y) <=> grid[y] # grid[x]
BY DEF Pieces!isOwnPiece, Pieces!isEmpty, Pieces!isOpponent

LEMMA RookCorrect ==
    ASSUME NEW x \in Pieces!Positions, Pieces!isOwnPiece(x)
    PROVE  Pieces!rookMoves(x) = RookRule(x)
<1>1. ASSUME NEW y \in Pieces!Positions
      PROVE  y \in Pieces!rookMoves(x) <=> y \in RookRule(x)
  <2>1. y \in Pieces!rookMoves(x) <=>
            \E d \in Straight, k \in 1 .. Size :
                /\ y = Pieces!Step(x, d, k) /\ grid[y] # grid[x]
                /\ \A j \in 1 .. k - 1 : grid[Pieces!Step(x, d, j)] = Empty
    BY NotOwn DEF Pieces!rookMoves, Straight, Pieces!isEmpty
  <2>2. ASSUME NEW d \in Straight, NEW k \in 1 .. Size, y = Pieces!Step(x, d, k)
        PROVE  /\ y # x
               /\ 0 \in {Pieces!Distance(x[1], y[1]), Pieces!Distance(x[2], y[2])}
               /\ (\A j \in 1 .. k - 1 : grid[Pieces!Step(x, d, j)] = Empty)
                      <=> \A z \in Pieces!Between(x, y) : grid[z] = Empty
    <3>1. /\ x # y
          /\ 0 \in {Pieces!Distance(x[1], y[1]), Pieces!Distance(x[2], y[2])}
          /\ Pieces!Between(x, y) = {Pieces!Step(x, d, j) : j \in 1 .. k - 1}
      BY <2>2, Reached
    <3> QED BY <3>1
  <2>3. ASSUME y \in Pieces!rookMoves(x) PROVE y \in RookRule(x)
    BY <2>1, <2>2, <2>3 DEF RookRule
  <2>4. ASSUME y \in RookRule(x) PROVE y \in Pieces!rookMoves(x)
    <3>1. PICK d \in Straight, k \in 1 .. Size : y = Pieces!Step(x, d, k)
      BY <2>4, InLine DEF RookRule
    <3> QED BY <2>1, <2>2, <2>4, <3>1 DEF RookRule
  <2> QED BY <2>3, <2>4
<1>2. Pieces!rookMoves(x) \subseteq Pieces!Positions /\ RookRule(x) \subseteq Pieces!Positions
  BY DEF Pieces!rookMoves, RookRule
<1> QED BY <1>1, <1>2

LEMMA KnightCorrect ==
    ASSUME NEW x \in Pieces!Positions, Pieces!isOwnPiece(x)
    PROVE  Pieces!knightMoves(x) = KnightRule(x)
<1>1. ASSUME NEW y \in Pieces!Positions
      PROVE  y \in Pieces!knightMoves(x) <=> y \in KnightRule(x)
  <2>1. y \in Pieces!knightMoves(x) <=>
            grid[y] # grid[x] /\ \E d \in Leaps : y = Pieces!Step(x, d, 1)
    BY NotOwn DEF Pieces!knightMoves, Leaps
  <2>2. grid[y] # grid[x] => y # x
    OBVIOUS
  <2> QED BY <2>1, <2>2, Leapt DEF KnightRule
<1>2. /\ Pieces!knightMoves(x) \subseteq Pieces!Positions
      /\ KnightRule(x) \subseteq Pieces!Positions
  BY DEF Pieces!knightMoves, KnightRule
<1> QED BY <1>1, <1>2

LEMMA MovesStep ==
    ASSUME Pieces!Next
    PROVE  Pieces!MovesCorrect'
<1>1. PICK piece \in {"Rook", "Knight"}, x \in Pieces!Positions :
          Pieces!getValidMoves(piece, x)
  BY DEF Pieces!Next
<1>2. /\ Pieces!isOwnPiece(x) /\ grid' = grid
      /\ asked' = [piece |-> piece, at |-> x]
      /\ validMoves' = IF piece = "Rook" THEN Pieces!rookMoves(x)
                       ELSE Pieces!knightMoves(x)
  BY <1>1 DEF Pieces!getValidMoves
<1>3. asked'.piece = piece /\ asked'.at = x
  BY <1>2
<1>4. CASE piece = "Rook"
  <2>1. validMoves' = RookRule(x)
    BY <1>2, <1>4, RookCorrect
  <2> QED BY <1>2, <1>3, <1>4, <2>1 DEF Pieces!MovesCorrect, RookRule
<1>5. CASE piece = "Knight"
  <2>1. validMoves' = KnightRule(x)
    BY <1>2, <1>5, KnightCorrect
  <2> QED BY <1>2, <1>3, <1>5, <2>1 DEF Pieces!MovesCorrect, KnightRule
<1> QED BY <1>1, <1>4, <1>5

(* The rook's and the knight's moves are those of chess, on every board of *)
(* any size, with any pieces.                                              *)
THEOREM RulesOfChess == Spec => []MovesCorrect
<1> DEFINE Inv == program = "Chess" => Pieces!MovesCorrect
<1>1. Init => Inv
  BY DEF Init, Pieces!Init, Pieces!MovesCorrect
<1>2. Inv /\ [Next]_vars => Inv'
  <2> SUFFICES ASSUME Inv, [Next]_vars PROVE Inv'
    OBVIOUS
  <2>1. CASE Next
    BY <2>1, OnlyOwnSteps, MovesStep
  <2>2. CASE UNCHANGED vars
    <3>1. UNCHANGED <<program, grid, asked, validMoves>>
      BY <2>2 DEF vars, chess
    <3> QED BY <3>1 DEF Pieces!MovesCorrect
  <2> QED BY <2>1, <2>2
<1>3. Inv => MovesCorrect
  BY DEF MovesCorrect
<1> QED BY <1>1, <1>2, <1>3, PTL DEF Spec

-----------------------------------------------------------------------------
(* Two rectangles overlap exactly when they have a point in common, the    *)
(* border included, so that the four comparisons of overlaps leave no      *)
(* position out.                                                           *)
THEOREM OverlapsMeansCommonPoint ==
    ASSUME NEW a \in Rectangles, Proper(a), NEW r \in Rectangles, Proper(r)
    PROVE  overlaps(a, r) <=> \E q \in Points : Within(q, a) /\ Within(q, r)
<1> DEFINE right == IF a.x1 < r.x1 THEN r.x1 ELSE a.x1
           top   == IF a.y1 < r.y1 THEN r.y1 ELSE a.y1
<1>1. ASSUME overlaps(a, r)
      PROVE  \E q \in Points : Within(q, a) /\ Within(q, r)
  <2>1. <<right, top>> \in Points
    BY DEF Rectangles, Points
  <2>2. Within(<<right, top>>, a) /\ Within(<<right, top>>, r)
    BY <1>1 DEF Rectangles, Proper, overlaps, Within
  <2> QED
    BY <2>1, <2>2
<1>2. ASSUME NEW q \in Points, Within(q, a), Within(q, r)
      PROVE  overlaps(a, r)
  BY <1>2 DEF Rectangles, Points, Within, overlaps
<1> QED
  BY <1>1, <1>2

(* A rectangle contains another exactly when it has all of its points.     *)
THEOREM ContainsMeansEveryPoint ==
    ASSUME NEW a \in Rectangles, NEW r \in Rectangles, Proper(r)
    PROVE  contains(a, r) <=> \A q \in Points : Within(q, r) => Within(q, a)
<1>1. ASSUME contains(a, r), NEW q \in Points, Within(q, r)
      PROVE  Within(q, a)
  BY <1>1 DEF Rectangles, Points, Within, contains
<1>2. ASSUME \A q \in Points : Within(q, r) => Within(q, a)
      PROVE  contains(a, r)
  <2>1. <<r.x1, r.y1>> \in Points /\ <<r.x2, r.y2>> \in Points
    BY DEF Rectangles, Points
  <2>2. Within(<<r.x1, r.y1>>, r) /\ Within(<<r.x2, r.y2>>, r)
    BY DEF Rectangles, Proper, Within
  <2>3. Within(<<r.x1, r.y1>>, a) /\ Within(<<r.x2, r.y2>>, a)
    BY <1>2, <2>1, <2>2
  <2> QED
    BY <2>3 DEF Rectangles, Within, contains
<1> QED
  BY <1>1, <1>2
-----------------------------------------------------------------------------
(* The two games.  A move adds one to the mover's marks and leaves the     *)
(* other player's alone.                                                   *)
(* Instances see Cardinality under names of their own.                     *)
LEMMA SameCount ==
    \A S : Four!Cardinality(S) = Cardinality(S) /\ Three!Cardinality(S) = Cardinality(S)
BY DEF Four!Cardinality, Three!Cardinality, Cardinality

(* The cells of S that q has marked on board b, and boards b and c between *)
(* which q has marked x, while o is the other player.                      *)
Marked(S, b, q) == {y \in S : b[y] = q}

Placed(S, b, c, x, q, o) ==
    /\ x \in S /\ b[x] # q /\ b[x] # o /\ c[x] = q /\ o # q
    /\ \A y \in S : y # x => c[y] = b[y]

(* The mover has one mark more, the other as many as before.               *)
LEMMA OneMore ==
    ASSUME NEW S, IsFiniteSet(S), NEW b, NEW c, NEW x, NEW q, NEW o,
           Placed(S, b, c, x, q, o)
    PROVE  /\ Cardinality(Marked(S, b, q)) \in Nat
           /\ Cardinality(Marked(S, b, o)) \in Nat
           /\ Cardinality(Marked(S, c, q)) = Cardinality(Marked(S, b, q)) + 1
           /\ Cardinality(Marked(S, c, o)) = Cardinality(Marked(S, b, o))
<1>1. /\ Marked(S, c, q) = Marked(S, b, q) \cup {x}
      /\ Marked(S, c, o) = Marked(S, b, o)
      /\ x \notin Marked(S, b, q)
  BY DEF Marked, Placed
<1>2. IsFiniteSet(Marked(S, b, q)) /\ IsFiniteSet(Marked(S, b, o))
  BY FS_Subset DEF Marked
<1> QED BY <1>1, <1>2, FS_AddElement, FS_CardinalityType

-----------------------------------------------------------------------------
(* Tic-tac-toe.  The board is finite, its cells are pairs of coordinates.  *)
LEMMA ThreeCells ==
    /\ n \in Nat /\ IsFiniteSet(Three!Cells)
    /\ \A r, c \in 0 .. n - 1 : <<r, c>> \in Three!Cells
    /\ \A x \in Three!Cells : x = <<x[1], x[2]>> /\ x[1] \in 0 .. n - 1 /\ x[2] \in 0 .. n - 1
<1>1. n \in Nat
  BY DesignsAssumption DEF Three!BoardAssumption
<1>2. IsFiniteSet(0 .. n - 1)
  BY <1>1, FS_Interval
<1>3. IsFiniteSet((0 .. n - 1) \X (0 .. n - 1))
  BY <1>2, FS_Product
<1> QED BY <1>1, <1>3 DEF Three!Cells

(* The lines are the rows, the columns and the two diagonals.              *)
LEMMA LinesAre ==
    /\ \A line \in Three!Lines : line \subseteq Three!Cells
    /\ \A line \in Three!Lines :
          \/ \E i \in 0 .. n - 1 : line = {<<i, j>> : j \in 0 .. n - 1}
          \/ \E j \in 0 .. n - 1 : line = {<<i, j>> : i \in 0 .. n - 1}
          \/ line = {<<i, i>> : i \in 0 .. n - 1}
          \/ line = {<<i, n - 1 - i>> : i \in 0 .. n - 1}
    /\ \A i \in 0 .. n - 1 : {<<i, j>> : j \in 0 .. n - 1} \in Three!Lines
    /\ \A j \in 0 .. n - 1 : {<<i, j>> : i \in 0 .. n - 1} \in Three!Lines
    /\ {<<i, i>> : i \in 0 .. n - 1} \in Three!Lines
    /\ {<<i, n - 1 - i>> : i \in 0 .. n - 1} \in Three!Lines
<1>1. {x \in Three!Cells : x[1] = x[2]} = {<<i, i>> : i \in 0 .. n - 1}
  BY ThreeCells
<1>2. {x \in Three!Cells : x[1] + x[2] = n - 1} = {<<i, n - 1 - i>> : i \in 0 .. n - 1}
  <2>1. ASSUME NEW x \in Three!Cells, x[1] + x[2] = n - 1
        PROVE  \E i \in 0 .. n - 1 : x = <<i, n - 1 - i>>
    <3>1. x[2] = n - 1 - x[1]
      BY <2>1, ThreeCells
    <3> QED BY <3>1, ThreeCells
  <2>2. ASSUME NEW i \in 0 .. n - 1
        PROVE  <<i, n - 1 - i>> \in Three!Cells /\ i + (n - 1 - i) = n - 1
    <3>1. n - 1 - i \in 0 .. n - 1 /\ i + (n - 1 - i) = n - 1
      BY ThreeCells
    <3> QED BY <3>1, ThreeCells
  <2> QED BY <2>1, <2>2
<1>3. Three!Lines = {{<<i, j>> : j \in 0 .. n - 1} : i \in 0 .. n - 1}
                    \cup {{<<i, j>> : i \in 0 .. n - 1} : j \in 0 .. n - 1}
                    \cup {{<<i, i>> : i \in 0 .. n - 1}, {<<i, n - 1 - i>> : i \in 0 .. n - 1}}
  BY <1>1, <1>2 DEF Three!Lines
<1>4. \A line \in Three!Lines :
          \/ \E i \in 0 .. n - 1 : line = {<<i, j>> : j \in 0 .. n - 1}
          \/ \E j \in 0 .. n - 1 : line = {<<i, j>> : i \in 0 .. n - 1}
          \/ line = {<<i, i>> : i \in 0 .. n - 1}
          \/ line = {<<i, n - 1 - i>> : i \in 0 .. n - 1}
  BY <1>3
<1>5. \A line \in Three!Lines : line \subseteq Three!Cells
  BY <1>1, <1>2, <1>4, ThreeCells
<1>6. \A i \in 0 .. n - 1 : {<<i, j>> : j \in 0 .. n - 1} \in Three!Lines
  BY <1>3
<1>7. \A j \in 0 .. n - 1 : {<<i, j>> : i \in 0 .. n - 1} \in Three!Lines
  BY <1>3
<1>8. /\ {<<i, i>> : i \in 0 .. n - 1} \in Three!Lines
      /\ {<<i, n - 1 - i>> : i \in 0 .. n - 1} \in Three!Lines
  BY <1>3
<1> QED BY <1>4, <1>5, <1>6, <1>7, <1>8, Zenon

(* Looking at the lines of the last move is enough: the others are as they *)
(* were.                                                                   *)
LineOn(b, q) == \E line \in Three!Lines : \A x \in line : b[x] = q

(* So checkWin is right about the whole board.                             *)
LEMMA WinIsLine ==
    ASSUME NEW q \in {1, 2}, NEW r \in 0 .. n - 1, NEW c \in 0 .. n - 1,
           NEW a \in [Three!Cells -> {0, 1, 2}], NEW b \in [Three!Cells -> {0, 1, 2}],
           a[<<r, c>>] = 0, b[<<r, c>>] = q,
           \A y \in Three!Cells : y # <<r, c>> => b[y] = a[y],
           \A o \in {1, 2} : ~LineOn(a, o)
    PROVE  /\ Three!checkWin(b, q, r, c) <=> LineOn(b, q)
           /\ \A o \in {1, 2} : o # q => ~LineOn(b, o)
<1>1. ASSUME NEW o \in {1, 2}, NEW line \in Three!Lines, \A y \in line : b[y] = o
      PROVE  <<r, c>> \in line
  BY <1>1, LinesAre DEF LineOn
<1>2. ASSUME NEW o \in {1, 2}, o # q, LineOn(b, o)
      PROVE  FALSE
  BY <1>1, <1>2 DEF LineOn
<1>3. ASSUME LineOn(b, q)
      PROVE  Three!checkWin(b, q, r, c)
  <2>1. PICK line \in Three!Lines : \A y \in line : b[y] = q
    BY <1>3 DEF LineOn
  <2>2. <<r, c>> \in line
    BY <1>1, <2>1
  <2>3. CASE \E i \in 0 .. n - 1 : line = {<<i, j>> : j \in 0 .. n - 1}
    BY <2>1, <2>2, <2>3 DEF Three!checkWin
  <2>4. CASE \E j \in 0 .. n - 1 : line = {<<i, j>> : i \in 0 .. n - 1}
    BY <2>1, <2>2, <2>4 DEF Three!checkWin
  <2>5. CASE line = {<<i, i>> : i \in 0 .. n - 1}
    <3>1. r = c
      BY <2>2, <2>5
    <3> QED BY <2>1, <2>5, <3>1 DEF Three!checkWin
  <2>6. CASE line = {<<i, n - 1 - i>> : i \in 0 .. n - 1}
    <3>1. c = n - 1 - r
      BY <2>2, <2>6
    <3>2. r + c = n - 1
      BY <3>1, ThreeCells
    <3> QED BY <2>1, <2>6, <3>2 DEF Three!checkWin
  <2> QED BY <2>3, <2>4, <2>5, <2>6, LinesAre
<1>4. ASSUME Three!checkWin(b, q, r, c)
      PROVE  LineOn(b, q)
  BY <1>4, LinesAre DEF Three!checkWin, LineOn
<1> QED BY <1>2, <1>3, <1>4

(* A call that is refused leaves the outcome as it is.                     *)
LEMMA ThreeStays ==
    ASSUME Three!OutcomeCorrect, UNCHANGED ttt
    PROVE  Three!OutcomeCorrect'
<1>1. /\ marks' = marks /\ mover' = mover /\ status' = status
      /\ announced' = announced
  BY DEF ttt
<1>2. Three!TypeOK'
  BY <1>1 DEF Three!OutcomeCorrect, Three!TypeOK, Three!Cells
<1>3. \A q : Three!Count(q)' = Three!Count(q)
  BY <1>1 DEF Three!Count, Three!Cells
<1>4. \A q : Three!HasLine(q)' <=> Three!HasLine(q)
  BY <1>1 DEF Three!HasLine, Three!Lines, Three!Cells
<1>5. Three!isFull(marks)' <=> Three!isFull(marks)
  BY <1>1 DEF Three!isFull, Three!Cells
<1>6. Three!changePlayer(mover)' = Three!changePlayer(mover)
  BY <1>1 DEF Three!changePlayer
<1> QED BY <1>1, <1>2, <1>3, <1>4, <1>5, <1>6 DEF Three!OutcomeCorrect

(* What a move leads to is again a correct outcome.                        *)
LEMMA ThreeStep ==
    ASSUME Three!OutcomeCorrect, Three!Next
    PROVE  Three!OutcomeCorrect'
<1>1. CASE UNCHANGED ttt
  BY <1>1, ThreeStays
<1>2. ASSUME NEW q \in {1, 2}, NEW r \in -1 .. n, NEW c \in -1 .. n, Three!makeMove(q, r, c)
      PROVE  Three!OutcomeCorrect'
  <2> DEFINE x == <<r, c>>
             won == Three!checkWin(marks', q, r, c)
  <2>1. /\ status = "IN_PROGRESS" /\ mover = q
        /\ r \in 0 .. n - 1 /\ c \in 0 .. n - 1
        /\ marks[x] = 0 /\ marks' = [marks EXCEPT ![x] = q]
    BY <1>2, ThreeCells
       DEF Three!makeMove, Three!Accepted, Three!checkValidMove, Three!EMPTY
  <2>2. /\ status' = IF won THEN "END" ELSE IF Three!isFull(marks') THEN "DRAW" ELSE "IN_PROGRESS"
        /\ mover' = IF status' = "IN_PROGRESS" THEN 3 - q ELSE q
        /\ announced' \in {0, 1, 2}
    BY <1>2, <2>1 DEF Three!makeMove, Three!changePlayer, Three!PLAYER_ONE, Three!PLAYER_TWO,
                      Three!EMPTY
  <2>3. /\ marks \in [Three!Cells -> {0, 1, 2}] /\ x \in Three!Cells
        /\ \A o \in {1, 2} : ~Three!HasLine(o)
    BY <2>1, ThreeCells DEF Three!OutcomeCorrect, Three!TypeOK, Three!EMPTY,
                            Three!PLAYER_ONE, Three!PLAYER_TWO
  <2>4. /\ marks' \in [Three!Cells -> {0, 1, 2}] /\ marks'[x] = q
        /\ \A y \in Three!Cells : y # x => marks'[y] = marks[y]
    BY <2>1, <2>3
  <2>5. /\ won <=> Three!HasLine(q)'
        /\ \A o \in {1, 2} : o # q => ~Three!HasLine(o)'
    <3>1. /\ \A o \in {1, 2} : Three!HasLine(o) <=> LineOn(marks, o)
          /\ \A o \in {1, 2} : Three!HasLine(o)' <=> LineOn(marks', o)
      BY DEF Three!HasLine, LineOn, Three!Lines, Three!Cells
    <3>2. /\ won <=> LineOn(marks', q)
          /\ \A o \in {1, 2} : o # q => ~LineOn(marks', o)
      <4>0. PICK b : b = marks'
        OBVIOUS
      <4>a. PICK a : a = marks
        OBVIOUS
      <4>1. /\ b \in [Three!Cells -> {0, 1, 2}] /\ b[<<r, c>>] = q
            /\ \A y \in Three!Cells : y # <<r, c>> => b[y] = a[y]
            /\ a \in [Three!Cells -> {0, 1, 2}] /\ a[<<r, c>>] = 0
            /\ \A o \in {1, 2} : ~LineOn(a, o)
            /\ r \in 0 .. n - 1 /\ c \in 0 .. n - 1 /\ q \in {1, 2}
        BY <2>1, <2>3, <2>4, <3>1, <4>0, <4>a
      <4>2. /\ Three!checkWin(b, q, r, c) <=> LineOn(b, q)
            /\ \A o \in {1, 2} : o # q => ~LineOn(b, o)
        BY <4>1, WinIsLine
      <4> QED BY <4>0, <4>2
    <3> QED BY <3>1, <3>2
  <2>6. \A o \in {1, 2} : Three!HasLine(o)' <=> status' = "END" /\ mover' = o
    BY <2>2, <2>5
  <2>7. status' = "DRAW" <=> Three!isFull(marks)' /\ status' # "END"
    <3>1. Three!isFull(marks)' <=> Three!isFull(marks')
      BY DEF Three!isFull
    <3> QED BY <2>2, <3>1
  <2>8. LET last == IF status' = "IN_PROGRESS" THEN 3 - mover' ELSE mover'
        IN  Three!Count(1)' - Three!Count(2)' = IF last = 1 THEN 1 ELSE 0
    <3>1. Three!Count(1) - Three!Count(2) = IF q = 2 THEN 1 ELSE 0
      BY <2>1 DEF Three!OutcomeCorrect, Three!changePlayer, Three!PLAYER_ONE, Three!PLAYER_TWO
    <3>2. /\ Three!Count(1) \in Nat /\ Three!Count(2) \in Nat
          /\ Three!Count(q)' = Three!Count(q) + 1
          /\ Three!Count(3 - q)' = Three!Count(3 - q)
      <4>0. PICK b : b = marks'
        OBVIOUS
      <4>o. PICK o : o = 3 - q
        OBVIOUS
      <4>m. PICK m : m = marks
        OBVIOUS
      <4>1. IsFiniteSet(Three!Cells) /\ Placed(Three!Cells, m, b, x, q, o)
        BY <2>1, <2>3, <2>4, <4>0, <4>o, <4>m, ThreeCells DEF Placed
      <4> HIDE DEF x
      <4>2. /\ Cardinality(Marked(Three!Cells, m, q)) \in Nat
            /\ Cardinality(Marked(Three!Cells, m, o)) \in Nat
            /\ Cardinality(Marked(Three!Cells, b, q))
                   = Cardinality(Marked(Three!Cells, m, q)) + 1
            /\ Cardinality(Marked(Three!Cells, b, o))
                   = Cardinality(Marked(Three!Cells, m, o))
        BY <4>1, OneMore
      <4>3. /\ Three!Count(q) \in Nat /\ Three!Count(3 - q) \in Nat
            /\ Three!Count(q)' = Three!Count(q) + 1
            /\ Three!Count(3 - q)' = Three!Count(3 - q)
        BY <4>0, <4>o, <4>m, <4>2, SameCount DEF Three!Count, Three!Cells, Marked
      <4>4. (q = 1 /\ 3 - q = 2) \/ (q = 2 /\ 3 - q = 1)
        BY ONLY q \in {1, 2}
      <4> QED BY <4>3, <4>4
    <3>3. (IF status' = "IN_PROGRESS" THEN 3 - mover' ELSE mover') = q
      BY <2>2
    <3>4. (q = 1 /\ 3 - q = 2) \/ (q = 2 /\ 3 - q = 1)
      BY ONLY q \in {1, 2}
    <3> QED BY <3>1, <3>2, <3>3, <3>4
  <2>9. Three!TypeOK'
    BY <2>2, <2>4 DEF Three!TypeOK, Three!EMPTY, Three!PLAYER_ONE, Three!PLAYER_TWO, Three!Cells
  <2>10. mover' \in {1, 2}
    BY <2>2
  <2>11. Three!changePlayer(mover)' = 3 - mover'
    <3>1. /\ mover' = 1 => Three!changePlayer(mover)' = 2
          /\ mover' = 2 => Three!changePlayer(mover)' = 1
      BY DEF Three!changePlayer, Three!PLAYER_ONE, Three!PLAYER_TWO
    <3>2. 3 - 1 = 2 /\ 3 - 2 = 1
      OBVIOUS
    <3> QED BY <2>10, <3>1, <3>2, Zenon
  <2> HIDE DEF won, x
  <2> QED BY <2>6, <2>7, <2>8, <2>9, <2>11
          DEF Three!OutcomeCorrect, Three!PLAYER_ONE, Three!PLAYER_TWO
<1> QED BY <1>1, <1>2 DEF Three!Next, Three!moveRefused, Three!vars, ttt,
                          Three!PLAYER_ONE, Three!PLAYER_TWO

(* An empty board is a correct beginning.                                  *)
LEMMA ThreeStart == ASSUME Three!Init PROVE Three!OutcomeCorrect
<1>1. /\ marks = [x \in Three!Cells |-> 0] /\ mover = 1
      /\ status = "IN_PROGRESS" /\ announced = 0
  BY DEF Three!Init, Three!EMPTY, Three!PLAYER_ONE
<1>2. n \in Nat /\ n >= 3 /\ <<0, 0>> \in Three!Cells
  BY DesignsAssumption, ThreeCells DEF Three!BoardAssumption
<1>3. \A o \in {1, 2} : ~Three!HasLine(o)
  <2>1. ASSUME NEW line \in Three!Lines PROVE \E y \in line : y \in Three!Cells
    <3>1. 0 \in 0 .. n - 1
      BY <1>2
    <3>2. \/ \E i \in 0 .. n - 1 : <<i, 0>> \in line
          \/ \E j \in 0 .. n - 1 : <<0, j>> \in line
          \/ <<0, 0>> \in line
          \/ <<0, n - 1 - 0>> \in line
      <4>1. CASE \E i \in 0 .. n - 1 : line = {<<i, j>> : j \in 0 .. n - 1}
        BY <3>1, <4>1
      <4>2. CASE \E j \in 0 .. n - 1 : line = {<<i, j>> : i \in 0 .. n - 1}
        BY <3>1, <4>2
      <4>3. CASE line = {<<i, i>> : i \in 0 .. n - 1}
        BY <3>1, <4>3
      <4>4. CASE line = {<<i, n - 1 - i>> : i \in 0 .. n - 1}
        BY <3>1, <4>4
      <4> QED BY <4>1, <4>2, <4>3, <4>4, LinesAre
    <3> QED BY <3>2, LinesAre
  <2> QED BY <1>1, <2>1 DEF Three!HasLine
<1>4. ~Three!isFull(marks)
  BY <1>1, <1>2 DEF Three!isFull, Three!EMPTY
<1>5. Three!Count(1) = 0 /\ Three!Count(2) = 0
  <2>1. {x \in Three!Cells : marks[x] = 1} = {} /\ {x \in Three!Cells : marks[x] = 2} = {}
    BY <1>1
  <2> QED BY <2>1, SameCount, FS_EmptySet DEF Three!Count
<1>6. Three!TypeOK
  BY <1>1 DEF Three!TypeOK, Three!EMPTY, Three!PLAYER_ONE, Three!PLAYER_TWO
<1> QED BY <1>1, <1>3, <1>4, <1>5, <1>6
        DEF Three!OutcomeCorrect, Three!changePlayer, Three!PLAYER_ONE, Three!PLAYER_TWO
-----------------------------------------------------------------------------
(* Connect Four.  The board is finite, its cells are pairs of coordinates. *)
LEMMA FourCells ==
    /\ rows \in Nat \ {0} /\ cols \in Nat \ {0} /\ Aligned \in Nat \ {0}
    /\ IsFiniteSet(Four!Cells) /\ Four!Cells \subseteq Int \X Int
    /\ \A r, c : <<r, c>> \in Four!Cells <=> r \in 0 .. rows - 1 /\ c \in 0 .. cols - 1
<1>1. rows \in Nat \ {0} /\ cols \in Nat \ {0} /\ Aligned \in Nat \ {0}
  BY DesignsAssumption DEF Four!BoardAssumption
<1>2. IsFiniteSet(0 .. rows - 1) /\ IsFiniteSet(0 .. cols - 1)
  BY <1>1, FS_Interval
<1>3. IsFiniteSet((0 .. rows - 1) \X (0 .. cols - 1))
  BY <1>2, FS_Product
<1> QED BY <1>1, <1>3 DEF Four!Cells

(* Sets of natural numbers have a least one.                               *)
LEMMA Least ==
    ASSUME NEW S \in SUBSET Nat, S # {}
    PROVE  \E k \in S : \A m \in S : k <= m
<1> DEFINE R == OpToRel(<, Nat)
<1>1. IsWellFoundedOn(R, Nat)
  BY NatLessThanWellFounded, Zenon
<1> HIDE DEF R
<1>2. PICK k \in S : \A m \in S : ~(<<m, k>> \in R)
  BY <1>1, WFMin
<1>3. ASSUME NEW m \in S
      PROVE  k <= m
  <2>1. ~(m < k)
    BY <1>2 DEF R, OpToRel
  <2> QED BY <2>1
<1> QED BY <1>3

(* The k-th cell from x in the direction d, and the opposite direction.    *)
Along(x, d, k) == <<x[1] + k * d[1], x[2] + k * d[2]>>
Opposite(d) == <<-d[1], -d[2]>>
Directions == ({-1, 0, 1} \X {-1, 0, 1}) \ {<<0, 0>>}

(* Steps of -1, 0 and 1 are all that is multiplied.                        *)
LEMMA Times ==
    ASSUME NEW k \in Int, NEW u \in {-1, 0, 1}
    PROVE  k * u = IF u = 1 THEN k ELSE IF u = 0 THEN 0 ELSE -k
<1>1. u = 1 \/ u = 0 \/ u = -1
  OBVIOUS
<1>2. k * 1 = k /\ k * 0 = 0 /\ k * (-1) = -k
  OBVIOUS
<1> QED BY <1>1, <1>2

(* Walks add up, and the opposite direction walks back.                    *)
LEMMA Walking ==
    ASSUME NEW x \in Int \X Int, NEW d \in Directions
    PROVE  /\ \A k \in Int : Along(x, d, k) \in Int \X Int
           /\ \A k, m \in Int : Along(Along(x, d, k), d, m) = Along(x, d, k + m)
           /\ \A k \in Int : Along(x, Opposite(d), k) = Along(x, d, -k)
           /\ Along(x, d, 0) = x
           /\ Opposite(d) \in Directions /\ Opposite(Opposite(d)) = d
<1>1. PICK a \in Int, b \in Int : x = <<a, b>>
  OBVIOUS
<1>2. PICK u \in {-1, 0, 1}, v \in {-1, 0, 1} : d = <<u, v>> /\ ~(u = 0 /\ v = 0)
  BY DEF Directions
<1>3. /\ -u \in {-1, 0, 1} /\ -v \in {-1, 0, 1} /\ ~(-u = 0 /\ -v = 0)
      /\ -(-u) = u /\ -(-v) = v /\ u \in Int /\ v \in Int
  BY <1>2
<1> DEFINE F(k) == k * u
           G(k) == k * v
<1>4. \A k \in Int : F(k) \in Int /\ G(k) \in Int /\ F(0) = 0 /\ G(0) = 0
  BY <1>3
<1>5. \A k, m \in Int : F(k) + F(m) = F(k + m) /\ G(k) + G(m) = G(k + m)
  <2> TAKE k, m \in Int
  <2>1. k + m \in Int
    OBVIOUS
  <2> QED BY <1>2, <2>1, Times
<1>6. \A k \in Int : k * (-u) = F(-k) /\ k * (-v) = G(-k)
  <2> TAKE k \in Int
  <2>1. -k \in Int /\ -(-k) = k
    OBVIOUS
  <2> QED BY <1>2, <1>3, <2>1, Times
<1>7. \A k \in Int : Along(x, d, k) = <<a + F(k), b + G(k)>>
  BY <1>1, <1>2 DEF Along
<1>8. Opposite(d) = <<-u, -v>>
  BY <1>2 DEF Opposite
<1>9. Opposite(d) \in Directions /\ Opposite(Opposite(d)) = d
  BY <1>2, <1>3, <1>8 DEF Directions, Opposite
<1>11. \A k \in Int : Along(x, Opposite(d), k) = Along(x, d, -k)
  <2> TAKE k \in Int
  <2>1. Along(x, Opposite(d), k) = <<a + k * (-u), b + k * (-v)>>
    BY <1>1, <1>8 DEF Along
  <2>2. -k \in Int
    OBVIOUS
  <2> HIDE DEF F, G
  <2> QED BY <1>6, <1>7, <2>1, <2>2
<1>12. \A k, m \in Int : Along(Along(x, d, k), d, m) = Along(x, d, k + m)
  <2> TAKE k, m \in Int
  <2>1. Along(Along(x, d, k), d, m) = <<(a + F(k)) + F(m), (b + G(k)) + G(m)>>
    BY <1>2, <1>7 DEF Along
  <2> HIDE DEF F, G
  <2>2. k + m \in Int
    OBVIOUS
  <2>3. Along(x, d, k + m) = <<a + F(k + m), b + G(k + m)>>
    BY <1>7, <2>2
  <2>4. (a + F(k)) + F(m) = a + F(k + m) /\ (b + G(k)) + G(m) = b + G(k + m)
    <3>1. F(k) \in Int /\ F(m) \in Int /\ G(k) \in Int /\ G(m) \in Int
      BY <1>4
    <3>2. F(k + m) = F(k) + F(m) /\ G(k + m) = G(k) + G(m)
      BY <1>5
    <3> QED BY <3>1, <3>2
  <2> QED BY <2>1, <2>3, <2>4
<1> HIDE DEF F, G
<1>10. \A k \in Int : Along(x, d, k) \in Int \X Int
  <2> TAKE k \in Int
  <2>1. F(k) \in Int /\ G(k) \in Int
    BY <1>4
  <2>2. a + F(k) \in Int /\ b + G(k) \in Int
    BY <2>1
  <2> QED BY <1>7, <2>2
<1>13. Along(x, d, 0) = x
  <2>1. Along(x, d, 0) = <<a + F(0), b + G(0)>>
    BY <1>7
  <2>2. F(0) = 0 /\ G(0) = 0
    BY <1>4
  <2>3. a + 0 = a /\ b + 0 = b
    OBVIOUS
  <2> QED BY <1>1, <2>1, <2>2, <2>3, Zenon
<1> QED BY <1>9, <1>10, <1>11, <1>12, <1>13

(* Whoever walks far enough leaves the board.                              *)
LEMMA WalksOff ==
    ASSUME NEW x \in Four!Cells, NEW d \in Directions
    PROVE  Along(x, d, rows + cols + 1) \notin Four!Cells
<1>1. PICK u \in {-1, 0, 1}, v \in {-1, 0, 1} : d = <<u, v>> /\ ~(u = 0 /\ v = 0)
  BY DEF Directions
<1>2. PICK a \in 0 .. rows - 1, b \in 0 .. cols - 1 : x = <<a, b>>
  BY DEF Four!Cells
<1>3. PICK k \in Int : k = rows + cols + 1
  BY FourCells
<1>4. Along(x, d, k) = <<a + k * u, b + k * v>>
  BY <1>1, <1>2 DEF Along
<1>5. /\ k * u = IF u = 1 THEN k ELSE IF u = 0 THEN 0 ELSE -k
      /\ k * v = IF v = 1 THEN k ELSE IF v = 0 THEN 0 ELSE -k
  BY Times
<1>6. a + k * u \notin 0 .. rows - 1 \/ b + k * v \notin 0 .. cols - 1
  BY <1>1, <1>2, <1>3, <1>5, FourCells
<1> QED BY <1>3, <1>4, <1>6, FourCells

(* The discs of colour p that follow one another from x in the direction   *)
(* d: what countInDirection returns is their number.                       *)
Disc(b, p, x) == x \in Four!Cells /\ b[x] = p
RunOf(b, p, x, d, k) == \A i \in 1 .. k : Disc(b, p, Along(x, d, i))

(* So the count is right at every length.                                  *)
LEMMA Counted ==
    ASSUME NEW b, NEW p, NEW x \in Four!Cells, NEW d \in Directions,
           NEW K, K = Four!countInDirection(b, x[1], x[2], p, d)
    PROVE  K \in Nat /\ \A k \in Nat : RunOf(b, p, x, d, k) <=> k <= K
<1>1. K = CHOOSE k \in 0 .. rows + cols :
              RunOf(b, p, x, d, k) /\ ~RunOf(b, p, x, d, k + 1)
  BY DEF Four!countInDirection, RunOf, Disc, Along
<1> DEFINE P(k) == RunOf(b, p, x, d, k)
           S == {k \in Nat : ~P(k)}
<1>2. ~P(rows + cols + 1) /\ rows + cols + 1 \in Nat
  <2>1. rows + cols + 1 \in 1 .. rows + cols + 1 /\ rows + cols + 1 \in Nat
    BY FourCells
  <2> QED BY <2>1, WalksOff DEF RunOf, Disc
<1>3. P(0)
  BY DEF RunOf
<1>4. \A k, m \in Nat : P(m) /\ k <= m => P(k)
  BY DEF RunOf
<1> HIDE DEF P
<1>5. PICK l \in S : \A m \in S : l <= m
  <2>1. S # {} /\ S \in SUBSET Nat
    BY <1>2
  <2> HIDE DEF S
  <2> QED BY <2>1, Least
<1>6. l \in Nat /\ l # 0 /\ ~P(l) /\ l <= rows + cols + 1
  BY <1>2, <1>3, <1>5
<1>7. l - 1 \in 0 .. rows + cols /\ P(l - 1) /\ ~P((l - 1) + 1)
  <2>1. l - 1 \in Nat /\ ~(l <= l - 1) /\ (l - 1) + 1 = l
    BY <1>6
  <2>2. P(l - 1)
    BY <1>5, <2>1
  <2> QED BY <1>6, <2>1, <2>2, FourCells
<1>8. K \in 0 .. rows + cols /\ P(K) /\ ~P(K + 1)
  BY <1>1, <1>7 DEF P
<1>9. K \in Nat /\ K + 1 \in Nat
  BY <1>8, FourCells
<1>10. ASSUME NEW k \in Nat
       PROVE  P(k) <=> k <= K
  <2>1. k <= K \/ K + 1 <= k
    BY <1>9
  <2>2. ~(k <= K /\ K + 1 <= k)
    BY <1>9
  <2> QED BY <1>4, <1>8, <1>9, <2>1, <2>2
<1> QED BY <1>9, <1>10 DEF P
(* A line of discs passes through x exactly when the runs on both sides of *)
(* x are long enough together.                                             *)
Through(b, p, x, d) ==
    \E y \in Four!Cells, m \in 0 .. Aligned - 1 :
        /\ Along(y, d, m) = x
        /\ \A i \in 0 .. Aligned - 1 : Disc(b, p, Along(y, d, i))

(* Both runs and x itself make up the line.                                *)
LEMMA RunsMeet ==
    ASSUME NEW b, NEW p, NEW x \in Four!Cells, Disc(b, p, x), NEW d \in Directions
    PROVE  Through(b, p, x, d) <=>
               \E k, m \in Nat : /\ RunOf(b, p, x, d, k) /\ RunOf(b, p, x, Opposite(d), m)
                                 /\ 1 + k + m >= Aligned
<1>1. x \in Int \X Int /\ Aligned \in Nat /\ Aligned # 0
  BY FourCells
<1>2. ASSUME NEW y \in Four!Cells, NEW m \in 0 .. Aligned - 1, Along(y, d, m) = x,
             \A i \in 0 .. Aligned - 1 : Disc(b, p, Along(y, d, i))
      PROVE  /\ m \in Nat /\ Aligned - 1 - m \in Nat /\ 1 + (Aligned - 1 - m) + m >= Aligned
             /\ RunOf(b, p, x, d, Aligned - 1 - m) /\ RunOf(b, p, x, Opposite(d), m)
  <2>1. m \in Nat /\ Aligned - 1 - m \in Nat /\ 1 + (Aligned - 1 - m) + m >= Aligned
    BY <1>1
  <2>2. y \in Int \X Int
    BY FourCells
  <2>3. ASSUME NEW i \in 1 .. Aligned - 1 - m
        PROVE  Disc(b, p, Along(x, d, i))
    <3>1. m \in Int /\ i \in Int /\ m + i \in 0 .. Aligned - 1
      BY <1>1
    <3>2. Along(x, d, i) = Along(y, d, m + i)
      BY <1>2, <2>2, <3>1, Walking
    <3> QED BY <1>2, <3>1, <3>2
  <2>4. ASSUME NEW i \in 1 .. m
        PROVE  Disc(b, p, Along(x, Opposite(d), i))
    <3>1. m \in Int /\ i \in Int /\ -i \in Int /\ m + (-i) \in 0 .. Aligned - 1
      BY <1>1
    <3>2. Along(x, Opposite(d), i) = Along(x, d, -i)
      BY <1>1, <3>1, Walking
    <3>3. Along(x, d, -i) = Along(y, d, m + (-i))
      BY <1>2, <2>2, <3>1, Walking
    <3> QED BY <1>2, <3>1, <3>2, <3>3
  <2> QED BY <2>1, <2>3, <2>4 DEF RunOf
<1>3. ASSUME NEW k \in Nat, NEW m \in Nat, RunOf(b, p, x, d, k),
             RunOf(b, p, x, Opposite(d), m), 1 + k + m >= Aligned
      PROVE  Through(b, p, x, d)
  <2>1. PICK j \in 0 .. Aligned - 1 : j <= m /\ (j = m \/ j = Aligned - 1)
    <3>1. CASE m <= Aligned - 1
      BY <1>1, <3>1
    <3>2. CASE Aligned - 1 < m
      BY <1>1, <3>2
    <3> QED BY <1>1, <3>1, <3>2
  <2>a. PICK l \in Int : l = -j /\ j \in Int /\ l + j = 0
    OBVIOUS
  <2>b. PICK y \in Int \X Int : y = Along(x, d, l)
    BY <1>1, Walking
  <2>c. \A i \in Int : Along(y, d, i) = Along(x, d, l + i)
    BY <1>1, <2>b, Walking
  <2>2. ASSUME NEW i \in 0 .. Aligned - 1
        PROVE  Disc(b, p, Along(y, d, i))
    <3>1. i \in Int /\ l + i \in Int
      BY <1>1
    <3>2. Along(y, d, i) = Along(x, d, l + i)
      BY <2>c, <3>1
    <3>3. CASE i = j
      <4>1. l + i = 0
        BY <2>a, <3>3
      <4> QED BY <1>1, <3>2, <4>1, Walking
    <3>4. CASE j < i
      <4>1. l + i \in 1 .. k
        BY <1>1, <1>3, <2>1, <2>a, <3>4
      <4> QED BY <1>3, <3>2, <4>1 DEF RunOf
    <3>5. CASE i < j
      <4>1. PICK e \in 1 .. m : e \in Int /\ -e = l + i
        BY <1>1, <2>1, <2>a, <3>5
      <4>2. Along(x, Opposite(d), e) = Along(x, d, l + i)
        BY <1>1, <4>1, Walking
      <4> QED BY <1>3, <3>2, <4>1, <4>2 DEF RunOf
    <3> QED BY <2>a, <3>1, <3>3, <3>4, <3>5
  <2>3. y \in Four!Cells
    <3>1. 0 \in 0 .. Aligned - 1
      BY <1>1
    <3>2. Along(y, d, 0) = y
      BY Walking
    <3> QED BY <2>2, <3>1, <3>2 DEF Disc
  <2>4. Along(y, d, j) = x
    <3>1. Along(y, d, j) = Along(x, d, 0)
      BY <2>a, <2>c
    <3> QED BY <1>1, <3>1, Walking
  <2> QED BY <2>2, <2>3, <2>4 DEF Through
<1>4. ASSUME Through(b, p, x, d)
      PROVE  \E k, m \in Nat : /\ RunOf(b, p, x, d, k) /\ RunOf(b, p, x, Opposite(d), m)
                               /\ 1 + k + m >= Aligned
  <2>1. PICK y \in Four!Cells, m \in 0 .. Aligned - 1 :
            /\ Along(y, d, m) = x
            /\ \A i \in 0 .. Aligned - 1 : Disc(b, p, Along(y, d, i))
    BY <1>4 DEF Through
  <2> QED BY <1>2, <2>1
<1> QED BY <1>3, <1>4

(* A line is one whichever way it is read.                                 *)
LEMMA EitherWay ==
    ASSUME NEW b, NEW p, NEW x \in Four!Cells, Disc(b, p, x), NEW d \in Directions
    PROVE  Through(b, p, x, Opposite(d)) <=> Through(b, p, x, d)
<1>1. Opposite(d) \in Directions /\ Opposite(Opposite(d)) = d
  BY FourCells, Walking
<1>2. \A k, m \in Nat : 1 + k + m = 1 + m + k
  OBVIOUS
<1>3. ASSUME NEW e \in Directions, Through(b, p, x, e)
      PROVE  Through(b, p, x, Opposite(e))
  <2>1. Opposite(e) \in Directions /\ Opposite(Opposite(e)) = e
    BY FourCells, Walking
  <2>2. PICK k \in Nat, m \in Nat :
            /\ RunOf(b, p, x, e, k) /\ RunOf(b, p, x, Opposite(e), m)
            /\ 1 + k + m >= Aligned
    BY <1>3, RunsMeet
  <2>3. 1 + m + k >= Aligned
    BY <1>2, <2>2
  <2> QED BY <2>1, <2>2, <2>3, RunsMeet
<1> QED BY <1>1, <1>3

(* checkWin finds the lines through the last disc.                         *)
LEMMA WinsThrough ==
    ASSUME NEW b, NEW p, NEW r, NEW c, <<r, c>> \in Four!Cells, Disc(b, p, <<r, c>>)
    PROVE  Four!checkWin(b, r, c, p) <=>
               \E d \in Four!directions : Through(b, p, <<r, c>>, d)
<1>1. Four!directions \subseteq Directions
  BY DEF Four!directions, Directions
<1>2. ASSUME NEW d \in Directions
      PROVE  1 + Four!countInDirection(b, r, c, p, d)
               + Four!countInDirection(b, r, c, p, Opposite(d)) >= Aligned
             <=> Through(b, p, <<r, c>>, d)
  <2>1. PICK x \in Four!Cells : x = <<r, c>>
    OBVIOUS
  <2>2. PICK K : K = Four!countInDirection(b, r, c, p, d)
    OBVIOUS
  <2>3. PICK M : M = Four!countInDirection(b, r, c, p, Opposite(d))
    OBVIOUS
  <2>4. x[1] = r /\ x[2] = c /\ x \in Int \X Int /\ Aligned \in Nat /\ Disc(b, p, x)
    BY <2>1, FourCells
  <2>5. Opposite(d) \in Directions
    BY <2>4, Walking
  <2>6. K \in Nat /\ \A k \in Nat : RunOf(b, p, x, d, k) <=> k <= K
    BY <2>2, <2>4, Counted
  <2>7. M \in Nat /\ \A k \in Nat : RunOf(b, p, x, Opposite(d), k) <=> k <= M
    BY <2>3, <2>4, <2>5, Counted
  <2>8. Through(b, p, x, d) <=>
            \E k, m \in Nat : /\ RunOf(b, p, x, d, k) /\ RunOf(b, p, x, Opposite(d), m)
                              /\ 1 + k + m >= Aligned
    BY <2>4, RunsMeet
  <2>9. Through(b, p, x, d) <=> \E k, m \in Nat : k <= K /\ m <= M /\ 1 + k + m >= Aligned
    BY <2>6, <2>7, <2>8
  <2>10. (\E k, m \in Nat : k <= K /\ m <= M /\ 1 + k + m >= Aligned)
             <=> 1 + K + M >= Aligned
    <3>1. K <= K /\ M <= M
      BY <2>6, <2>7
    <3>2. ASSUME NEW k \in Nat, NEW m \in Nat, k <= K, m <= M, 1 + k + m >= Aligned
          PROVE  1 + K + M >= Aligned
      BY <2>4, <2>6, <2>7, <3>2
    <3> QED BY <2>6, <2>7, <3>1, <3>2
  <2> QED BY <2>1, <2>2, <2>3, <2>9, <2>10
<1> QED BY <1>1, <1>2 DEF Four!checkWin, Opposite
(* Looking around the last disc is enough: the lines elsewhere are as they *)
(* were.  Row reads a rising diagonal downwards, checkWin upwards.         *)
RowDirections == {<<0, 1>>, <<1, 0>>, <<1, 1>>, <<1, -1>>}
RowOn(b, p) == \E x \in Four!Cells, d \in RowDirections :
                   \A i \in 0 .. Aligned - 1 : Disc(b, p, Along(x, d, i))

(* The two sets of directions differ only in how a diagonal is read.       *)
LEMMA SameDirections ==
    /\ RowDirections \subseteq Directions /\ Four!directions \subseteq Directions
    /\ \A d \in RowDirections : d \in Four!directions \/ Opposite(d) \in Four!directions
    /\ \A d \in Four!directions : d \in RowDirections \/ Opposite(d) \in RowDirections
<1>1. RowDirections \subseteq Directions /\ Four!directions \subseteq Directions
  BY DEF RowDirections, Four!directions, Directions
<1>2. Opposite(<<1, -1>>) = <<-1, 1>> /\ Opposite(<<-1, 1>>) = <<1, -1>>
  <2>1. \A u \in Int : -(-u) = u
    OBVIOUS
  <2>2. -(-1) = 1
    BY <2>1, 1 \in Int, Zenon
  <2> QED BY <2>2 DEF Opposite
<1> QED BY <1>1, <1>2 DEF RowDirections, Four!directions

(* So checkWin is right about the whole board.                             *)
LEMMA WinIsRow ==
    ASSUME NEW p \in Four!Players, NEW r, NEW c, <<r, c>> \in Four!Cells,
           NEW a, NEW b, a[<<r, c>>] = "nullopt", b[<<r, c>>] = p,
           \A y \in Four!Cells : y # <<r, c>> => b[y] = a[y],
           \A o \in Four!Players : ~RowOn(a, o)
    PROVE  /\ Four!checkWin(b, r, c, p) <=> RowOn(b, p)
           /\ \A o \in Four!Players : o # p => ~RowOn(b, o)
<1>1. PICK x \in Four!Cells : x = <<r, c>>
  OBVIOUS
<1>2. Disc(b, p, x)
  BY <1>1 DEF Disc
<1>3. ASSUME NEW o \in Four!Players, NEW y \in Four!Cells, NEW d \in RowDirections,
             \A i \in 0 .. Aligned - 1 : Disc(b, o, Along(y, d, i))
      PROVE  \E m \in 0 .. Aligned - 1 : Along(y, d, m) = x
  <2> SUFFICES ASSUME \A m \in 0 .. Aligned - 1 : Along(y, d, m) # x
               PROVE  FALSE
    OBVIOUS
  <2>1. \A i \in 0 .. Aligned - 1 : Disc(a, o, Along(y, d, i))
    BY <1>1, <1>3 DEF Disc
  <2> QED BY <2>1 DEF RowOn
<1>4. ASSUME NEW o \in Four!Players, o # p, RowOn(b, o)
      PROVE  FALSE
  <2>1. PICK y \in Four!Cells, d \in RowDirections :
            \A i \in 0 .. Aligned - 1 : Disc(b, o, Along(y, d, i))
    BY <1>4 DEF RowOn
  <2>2. PICK m \in 0 .. Aligned - 1 : Along(y, d, m) = x
    BY <1>3, <2>1
  <2>3. b[x] = o
    BY <2>1, <2>2 DEF Disc
  <2> QED BY <1>2, <1>4, <2>3 DEF Disc
<1>5. RowOn(b, p) <=> \E d \in RowDirections : Through(b, p, x, d)
  <2>1. ASSUME RowOn(b, p)
        PROVE  \E d \in RowDirections : Through(b, p, x, d)
    <3>1. PICK y \in Four!Cells, d \in RowDirections :
              \A i \in 0 .. Aligned - 1 : Disc(b, p, Along(y, d, i))
      BY <2>1 DEF RowOn
    <3>2. \E m \in 0 .. Aligned - 1 : Along(y, d, m) = x
      BY <1>3, <3>1
    <3> QED BY <3>1, <3>2 DEF Through
  <2> QED BY <2>1 DEF RowOn, Through
<1>6. (\E d \in RowDirections : Through(b, p, x, d))
          <=> \E d \in Four!directions : Through(b, p, x, d)
  <2>1. \A d \in Directions : Through(b, p, x, Opposite(d)) <=> Through(b, p, x, d)
    BY <1>2, EitherWay
  <2> QED BY <2>1, SameDirections
<1>7. Four!checkWin(b, r, c, p) <=> \E d \in Four!directions : Through(b, p, x, d)
  BY <1>1, <1>2, WinsThrough
<1> QED BY <1>4, <1>5, <1>6, <1>7

-----------------------------------------------------------------------------
(* No disc hangs in the air.                                               *)
Grounded(b) == \A x \in Four!Cells : b[x] # "nullopt" /\ x[1] + 1 < rows
                                         => b[<<x[1] + 1, x[2]>>] # "nullopt"

(* placeDisc finds the lowest empty cell of a column that has one.         *)
LEMMA Landing ==
    ASSUME NEW b, NEW c \in 0 .. cols - 1, b[<<0, c>>] = "nullopt",
           NEW r, r = Four!placeDiscRow(b, c)
    PROVE  /\ r \in 0 .. rows - 1 /\ b[<<r, c>>] = "nullopt"
           /\ \A s \in r + 1 .. rows - 1 : b[<<s, c>>] # "nullopt"
<1> DEFINE S == {k \in Nat : k < rows /\ b[<<rows - 1 - k, c>>] = "nullopt"}
<1>0. rows \in Nat /\ rows # 0
  BY FourCells
<1>1. rows - 1 \in S
  <2>1. rows - 1 \in Nat /\ rows - 1 < rows /\ rows - 1 - (rows - 1) = 0
    BY <1>0
  <2> QED BY <2>1
<1>2. PICK k \in S : \A m \in S : k <= m
  <2>1. S \in SUBSET Nat /\ S # {}
    BY <1>1
  <2> HIDE DEF S
  <2> QED BY <2>1, Least
<1>3. PICK l \in Int : l = rows - 1 - k
  BY <1>0
<1>4. l \in 0 .. rows - 1 /\ b[<<l, c>>] = "nullopt"
  BY <1>0, <1>3
<1>5. ASSUME NEW s \in l + 1 .. rows - 1, b[<<s, c>>] = "nullopt"
      PROVE  FALSE
  <2>1. PICK m \in Nat : m = rows - 1 - s
    BY <1>0, <1>4
  <2>2. s = rows - 1 - m /\ m < rows /\ ~(k <= m)
    BY <1>0, <1>3, <1>4, <2>1
  <2>3. m \in S
    BY <1>5, <2>2
  <2> QED BY <1>2, <2>2, <2>3
<1>6. \E i \in 0 .. rows - 1 :
          /\ b[<<i, c>>] = "nullopt"
          /\ \A s \in i + 1 .. rows - 1 : b[<<s, c>>] # "nullopt"
  BY <1>4, <1>5
<1> QED BY <1>6 DEF Four!placeDiscRow, Four!nullopt

(* A column is full when its top cell is taken.                            *)
LEMMA TopIsFull ==
    ASSUME NEW b, Grounded(b), Four!isFull(b), NEW x \in Four!Cells
    PROVE  b[x] # "nullopt"
<1> SUFFICES ASSUME b[x] = "nullopt" PROVE FALSE
  OBVIOUS
<1>0. rows \in Nat /\ rows # 0
  BY FourCells
<1>1. PICK r \in 0 .. rows - 1, c \in 0 .. cols - 1 : x = <<r, c>>
  BY DEF Four!Cells
<1> DEFINE S == {k \in Nat : k < rows /\ b[<<k, c>>] = "nullopt"}
<1>2. r \in S
  BY <1>0, <1>1
<1>3. PICK k \in S : \A m \in S : k <= m
  <2>1. S \in SUBSET Nat /\ S # {}
    BY <1>2
  <2> HIDE DEF S
  <2> QED BY <2>1, Least
<1>4. k # 0
  BY <1>3 DEF Four!isFull, Four!nullopt
<1>5. PICK m \in Nat : k = m + 1 /\ m < rows /\ m + 1 < rows /\ ~(k <= m)
  BY <1>0, <1>4
<1>6. m \notin S
  BY <1>3, <1>5
<1>7. <<m, c>> \in Four!Cells /\ b[<<m, c>>] # "nullopt"
  BY <1>0, <1>5, <1>6, FourCells
<1>8. b[<<m + 1, c>>] # "nullopt"
  <2>1. PICK y \in Four!Cells : y = <<m, c>> /\ y[1] = m /\ y[2] = c
    BY <1>7
  <2> QED BY <1>5, <1>7, <2>1 DEF Grounded
<1> QED BY <1>5, <1>8
(* A call that is refused leaves the outcome as it is.                     *)
LEMMA FourStays ==
    ASSUME Four!OutcomeCorrect, UNCHANGED four
    PROVE  Four!OutcomeCorrect'
<1>1. /\ board' = board /\ currentPlayer' = currentPlayer
      /\ state' = state /\ winner' = winner
  BY DEF four
<1>2. Four!TypeOK'
  BY <1>1 DEF Four!OutcomeCorrect, Four!TypeOK, Four!Cells
<1>3. \A p : Four!Count(p)' = Four!Count(p)
  BY <1>1 DEF Four!Count, Four!Cells
<1>4. Four!FairBoard'
  BY <1>1, <1>3 DEF Four!OutcomeCorrect, Four!FairBoard, Four!Cells, Four!Other
<1>5. \A p : Four!Row(p)' <=> Four!Row(p)
  BY <1>1 DEF Four!Row, Four!Cells
<1> QED BY <1>1, <1>2, <1>4, <1>5 DEF Four!OutcomeCorrect, Four!Cells

(* What a move leads to is again a correct outcome.                        *)
LEMMA FourStep ==
    ASSUME Four!OutcomeCorrect, Four!Next
    PROVE  Four!OutcomeCorrect'
<1>1. CASE UNCHANGED four
  BY <1>1, FourStays
<1>2. ASSUME NEW column \in -1 .. cols, Four!makeMove(column)
      PROVE  Four!OutcomeCorrect'
  <2>1. /\ state = "INPROGRESS" /\ column \in 0 .. cols - 1
        /\ board[<<0, column>>] = "nullopt"
    BY <1>2, FourCells DEF Four!makeMove, Four!canPlace, Four!nullopt
  <2>2. PICK r : r = Four!placeDiscRow(board, column)
    OBVIOUS
  <2>3. PICK p : p = currentPlayer
    OBVIOUS
  <2>4. PICK a : a = board
    OBVIOUS
  <2>5. PICK b : b = board'
    OBVIOUS
  <2>6. /\ r \in 0 .. rows - 1 /\ a[<<r, column>>] = "nullopt"
        /\ \A s \in r + 1 .. rows - 1 : a[<<s, column>>] # "nullopt"
    BY <2>1, <2>2, <2>4, Landing
  <2>7. PICK x \in Four!Cells : x = <<r, column>> /\ x[1] = r /\ x[2] = column
    BY <2>1, <2>6, FourCells
  <2>8. PICK won : won = Four!checkWin(b, r, column, p)
    OBVIOUS
  <2>9. /\ board' = [board EXCEPT ![<<r, column>>] = p]
        /\ winner' = IF won THEN p ELSE winner
        /\ state' = IF won THEN "WON" ELSE IF Four!isFull(b) THEN "DRAW" ELSE "INPROGRESS"
        /\ currentPlayer' = IF won \/ Four!isFull(b) THEN p ELSE Four!Other(p)
    BY <1>2, <2>1, <2>2, <2>3, <2>5, <2>8 DEF Four!makeMove
  <2>10. /\ a \in [Four!Cells -> {"RED", "YELLOW", "nullopt"}] /\ p \in {"RED", "YELLOW"}
         /\ winner = "nullopt" /\ Grounded(a) /\ Four!Players = {"RED", "YELLOW"}
         /\ \A o \in Four!Players : ~RowOn(a, o)
    <3>1. \A o : Four!Row(o) <=> RowOn(a, o)
      BY <2>4 DEF Four!Row, RowOn, RowDirections, Disc, Along
    <3>2. \A o \in Four!Players : ~Four!Row(o)
      BY <2>1 DEF Four!OutcomeCorrect
    <3>3. Grounded(a)
      BY <2>4 DEF Four!OutcomeCorrect, Four!FairBoard, Grounded, Four!nullopt
    <3>4. /\ a \in [Four!Cells -> {"RED", "YELLOW", "nullopt"}] /\ p \in {"RED", "YELLOW"}
          /\ winner = "nullopt" /\ Four!Players = {"RED", "YELLOW"}
      BY <2>1, <2>3, <2>4
         DEF Four!OutcomeCorrect, Four!TypeOK, Four!Players, Four!nullopt
    <3> QED BY <3>1, <3>2, <3>3, <3>4
  <2>11. /\ b \in [Four!Cells -> {"RED", "YELLOW", "nullopt"}] /\ b[x] = p /\ a[x] = "nullopt"
         /\ \A y \in Four!Cells : y # x => b[y] = a[y]
    BY <2>4, <2>5, <2>6, <2>7, <2>9, <2>10
  <2>12. /\ won <=> RowOn(b, p)
         /\ \A o \in Four!Players : o # p => ~RowOn(b, o)
    BY <2>7, <2>8, <2>10, <2>11, WinIsRow
  <2>13. Grounded(b)
    <3> SUFFICES ASSUME NEW y \in Four!Cells, b[y] # "nullopt", y[1] + 1 < rows
                 PROVE  b[<<y[1] + 1, y[2]>>] # "nullopt"
      BY DEF Grounded
    <3>1. PICK i \in 0 .. rows - 1, j \in 0 .. cols - 1 : y = <<i, j>> /\ y[1] = i /\ y[2] = j
      BY DEF Four!Cells
    <3>2. PICK z \in Four!Cells : z = <<i + 1, j>>
      <4>1. i + 1 \in 0 .. rows - 1
        BY <3>1, FourCells
      <4> QED BY <4>1, FourCells
    <3>3. a[z] # "nullopt"
      <4>1. CASE y = x
        <5>1. i = r /\ j = column
          BY <2>7, <3>1, <4>1
        <5>2. i + 1 \in r + 1 .. rows - 1
          BY <2>6, <3>1, <5>1, FourCells
        <5> QED BY <2>6, <3>2, <5>1, <5>2
      <4>2. CASE y # x
        <5>1. a[y] # "nullopt"
          BY <2>11, <4>2
        <5> QED BY <2>10, <3>1, <3>2, <5>1 DEF Grounded
      <4> QED BY <4>1, <4>2
    <3> QED BY <2>11, <3>1, <3>2, <3>3
  <2>14. Four!isFull(b) <=> \A y \in Four!Cells : b[y] # "nullopt"
    <3>1. \A c \in 0 .. cols - 1 : <<0, c>> \in Four!Cells
      BY FourCells
    <3> QED BY <2>13, <3>1, TopIsFull DEF Four!isFull, Four!nullopt
  <2>15. /\ Four!Count("RED") \in Nat /\ Four!Count("YELLOW") \in Nat
         /\ Four!Count(p)' = Four!Count(p) + 1
         /\ Four!Count(Four!Other(p))' = Four!Count(Four!Other(p))
    <3>1. PICK o : o = Four!Other(p) /\ o \in {"RED", "YELLOW"} /\ o # p
      BY <2>10 DEF Four!Other
    <3>2. a[x] # p /\ a[x] # o
      BY <2>10, <2>11, <3>1
    <3>a. IsFiniteSet(Four!Cells) /\ Placed(Four!Cells, a, b, x, p, o)
      BY <2>11, <3>1, <3>2, FourCells DEF Placed
    <3>3. /\ Cardinality(Marked(Four!Cells, a, p)) \in Nat
          /\ Cardinality(Marked(Four!Cells, a, o)) \in Nat
          /\ Cardinality(Marked(Four!Cells, b, p)) = Cardinality(Marked(Four!Cells, a, p)) + 1
          /\ Cardinality(Marked(Four!Cells, b, o)) = Cardinality(Marked(Four!Cells, a, o))
      BY <3>a, OneMore
    <3>4. \A t : /\ Four!Count(t) = Cardinality(Marked(Four!Cells, a, t))
                 /\ Four!Count(t)' = Cardinality(Marked(Four!Cells, b, t))
      BY <2>4, <2>5, SameCount DEF Four!Count, Four!Cells, Marked
    <3>5. /\ Four!Count(p) \in Nat /\ Four!Count(o) \in Nat
          /\ Four!Count(p)' = Four!Count(p) + 1 /\ Four!Count(o)' = Four!Count(o)
      BY <3>3, <3>4
    <3>6. (p = "RED" /\ o = "YELLOW") \/ (p = "YELLOW" /\ o = "RED")
      BY <2>10, <3>1
    <3> QED BY <3>1, <3>5, <3>6
  <2>16. /\ Four!TypeOK'
         /\ \A o \in Four!Players : Four!Row(o)' <=> (state' = "WON" /\ winner' = o)
         /\ state' = "DRAW" <=> (\A y \in Four!Cells : board'[y] # "nullopt") /\ state' # "WON"
    <3>1. \A o : Four!Row(o)' <=> RowOn(b, o)
      BY <2>5 DEF Four!Row, RowOn, RowDirections, Disc, Along, Four!Cells
    <3>2. \A o \in Four!Players : Four!Row(o)' <=> (state' = "WON" /\ winner' = o)
      BY <2>9, <2>10, <2>12, <3>1
    <3>3. currentPlayer' \in {"RED", "YELLOW"}
      BY <2>9, <2>10 DEF Four!Other
    <3>4. Four!TypeOK'
      BY <2>5, <2>9, <2>10, <2>11, <3>3
         DEF Four!TypeOK, Four!Cells, Four!Players, Four!nullopt
    <3> QED BY <2>5, <2>9, <2>14, <3>2, <3>4
  <2>17. Four!FairBoard'
    <3>1. Four!Count("RED") - Four!Count("YELLOW") = IF p = "RED" THEN 0 ELSE 1
      BY <2>1, <2>3, <2>10 DEF Four!OutcomeCorrect, Four!FairBoard, Four!Other
    <3>2. Four!Count("RED")' - Four!Count("YELLOW")' = IF p = "RED" THEN 1 ELSE 0
      <4>1. CASE p = "RED"
        <5>1. Four!Other(p) = "YELLOW"
          BY <4>1 DEF Four!Other
        <5> QED BY <2>15, <3>1, <4>1, <5>1
      <4>2. CASE p = "YELLOW"
        <5>1. Four!Other(p) = "RED"
          BY <4>2 DEF Four!Other
        <5> QED BY <2>15, <3>1, <4>2, <5>1
      <4> QED BY <2>10, <4>1, <4>2
    <3>3. (IF state' = "INPROGRESS" THEN Four!Other(currentPlayer') ELSE currentPlayer') = p
      BY <2>9, <2>10 DEF Four!Other
    <3>4. \A y \in Four!Cells : board'[y] # "nullopt" /\ y[1] + 1 < rows
                                  => board'[<<y[1] + 1, y[2]>>] # "nullopt"
      BY <2>5, <2>13 DEF Grounded
    <3> QED BY <3>2, <3>3, <3>4 DEF Four!FairBoard, Four!Cells, Four!nullopt, Four!Other
  <2> QED BY <2>16, <2>17 DEF Four!OutcomeCorrect, Four!Cells, Four!Players, Four!nullopt
<1> QED BY <1>1, <1>2 DEF Four!Next, Four!moveRefused, Four!vars, four

(* An empty board is a correct beginning.                                  *)
LEMMA FourStart == ASSUME Four!Init PROVE Four!OutcomeCorrect
<1>1. /\ board = [x \in Four!Cells |-> "nullopt"] /\ currentPlayer = "RED"
      /\ state = "INPROGRESS" /\ winner = "nullopt"
  BY DEF Four!Init, Four!nullopt
<1>2. <<0, 0>> \in Four!Cells
  BY FourCells
<1>3. \A p \in Four!Players : ~Four!Row(p)
  <2> SUFFICES ASSUME NEW p \in Four!Players, Four!Row(p) PROVE FALSE
    OBVIOUS
  <2>1. 0 \in 0 .. Aligned - 1
    BY FourCells
  <2>2. \E y \in Four!Cells : board[y] = p
    BY <2>1 DEF Four!Row
  <2> QED BY <1>1, <2>2 DEF Four!Players
<1>4. Four!Count("RED") = 0 /\ Four!Count("YELLOW") = 0
  <2>1. /\ {x \in Four!Cells : board[x] = "RED"} = {}
        /\ {x \in Four!Cells : board[x] = "YELLOW"} = {}
    BY <1>1
  <2> QED BY <2>1, SameCount, FS_EmptySet DEF Four!Count
<1>5. Four!FairBoard
  BY <1>1, <1>4 DEF Four!FairBoard, Four!Other, Four!nullopt
<1>6. Four!TypeOK
  BY <1>1 DEF Four!TypeOK, Four!Players, Four!nullopt
<1>7. ~(\A x \in Four!Cells : board[x] # "nullopt")
  BY <1>1, <1>2
<1> QED BY <1>1, <1>3, <1>5, <1>6, <1>7 DEF Four!OutcomeCorrect, Four!nullopt

(* Both games, on boards of any size and for lines of any length: a game   *)
(* is won exactly when a line of the winner's is on the board, though only *)
(* the surroundings of the last move are searched, it is a draw exactly    *)
(* when the board is full without one, the players move in turns, and no   *)
(* disc hangs in the air.                                                  *)
THEOREM OutcomesRight == Spec => []OutcomeCorrect
<1>1. Init => OutcomeCorrect
  BY FourStart, ThreeStart DEF Init, OutcomeCorrect
<1>2. OutcomeCorrect /\ [Next]_vars => OutcomeCorrect'
  <2> SUFFICES ASSUME OutcomeCorrect, [Next]_vars PROVE OutcomeCorrect'
    OBVIOUS
  <2>1. CASE Next
    BY <2>1, OnlyOwnSteps, FourStep, ThreeStep DEF OutcomeCorrect
  <2>2. CASE UNCHANGED vars
    <3>1. UNCHANGED program /\ UNCHANGED four /\ UNCHANGED ttt
      BY <2>2 DEF vars
    <3> QED BY <3>1, FourStays, ThreeStays DEF OutcomeCorrect
  <2> QED BY <2>1, <2>2
<1> QED BY <1>1, <1>2, PTL DEF Spec

-----------------------------------------------------------------------------
(* The file system.  P[d] is the path of the Directory d.  A directory     *)
(* other than the root is in another one, under the last part of its path. *)
Objects == [dirs : [Names -> Nat], files : [Names -> Seq(FS!Chunks) \cup {NoFile}]]

TreeOf(h, P) ==
    /\ h \in Seq(Objects) /\ Len(h) >= 1
    /\ P \in [1 .. Len(h) -> FS!Paths] /\ P[1] = <<>>
    /\ \A d, e \in 1 .. Len(h) : P[d] = P[e] => d = e
    /\ \A d \in 1 .. Len(h), x \in Names : h[d].dirs[x] # 0 =>
           h[d].dirs[x] \in 1 .. Len(h) /\ P[h[d].dirs[x]] = Append(P[d], x)
    /\ \A d \in 2 .. Len(h) : \E e \in 1 .. Len(h) : \E x \in Names : h[e].dirs[x] = d
    /\ \A d \in 1 .. Len(h), x \in Names : h[d].files[x] # NoFile =>
           Append(P[d], x) \in FS!Paths

LEMMA PathsAre ==
    /\ \A q : q \in FS!Paths <=> q \in Seq(Names) /\ Len(q) <= MaxDepth
    /\ \A q : q \in FS!FilePaths <=> q \in FS!Paths /\ q # <<>>
    /\ MaxDepth \in Nat /\ Names \subseteq Nat
<1>1. MaxDepth \in Nat /\ Names \subseteq Nat
  BY DesignsAssumption DEF FS!FileSystemAssumption
<1>2. ASSUME NEW q
      PROVE  q \in FS!Paths <=> q \in Seq(Names) /\ Len(q) <= MaxDepth
  <2>1. ASSUME q \in FS!Paths PROVE q \in Seq(Names) /\ Len(q) <= MaxDepth
    <3>1. PICK k \in 0 .. MaxDepth : q \in [1 .. k -> Names]
      BY <2>1 DEF FS!Paths
    <3> QED BY <1>1, <3>1
  <2>2. ASSUME q \in Seq(Names), Len(q) <= MaxDepth PROVE q \in FS!Paths
    <3>1. q \in [1 .. Len(q) -> Names] /\ Len(q) \in 0 .. MaxDepth
      BY <1>1, <2>2, LenProperties
    <3> QED BY <3>1 DEF FS!Paths
  <2> QED BY <2>1, <2>2
<1> QED BY <1>1, <1>2 DEF FS!FilePaths

(* The walk of the code, in a heap h.                                      *)
Step(h, d, part) == IF d = 0 THEN 0 ELSE h[d].dirs[part]
DirIn(h, q) == LET walk[i \in 0 .. Len(q)] ==
                       IF i = 0 THEN 1 ELSE Step(h, walk[i - 1], q[i])
               IN  walk[Len(q)]

LEMMA DirIsDirIn == \A q : FS!Dir(q) = DirIn(heap, q)
BY DEF FS!Dir, FS!descend, FS!root, FS!Null, DirIn, Step

(* It ends at the directory of the path, or nowhere if there is none.      *)
At(h, P, q) == IF \E d \in 1 .. Len(h) : P[d] = q
               THEN CHOOSE d \in 1 .. Len(h) : P[d] = q ELSE 0

LEMMA AtMeans ==
    ASSUME NEW h, NEW P, TreeOf(h, P), NEW q
    PROVE  /\ At(h, P, q) \in 0 .. Len(h)
           /\ \A d \in 1 .. Len(h) : At(h, P, q) = d <=> P[d] = q
           /\ At(h, P, q) = 0 => \A d \in 1 .. Len(h) : P[d] # q
<1>1. Len(h) \in Nat /\ \A d, e \in 1 .. Len(h) : P[d] = P[e] => d = e
  BY LenProperties DEF TreeOf
<1>2. CASE \E d \in 1 .. Len(h) : P[d] = q
  <2>1. At(h, P, q) \in 1 .. Len(h) /\ P[At(h, P, q)] = q
    BY <1>2 DEF At
  <2> QED BY <1>1, <2>1
<1>3. CASE ~\E d \in 1 .. Len(h) : P[d] = q
  BY <1>1, <1>3 DEF At
<1> QED BY <1>2, <1>3

LEMMA AtStep ==
    ASSUME NEW h, NEW P, TreeOf(h, P), NEW q \in Seq(Names), NEW x \in Names
    PROVE  At(h, P, Append(q, x)) = Step(h, At(h, P, q), x)
<1> DEFINE d == At(h, P, q)
           e == At(h, P, Append(q, x))
<1>1. /\ d \in 0 .. Len(h) /\ e \in 0 .. Len(h)
      /\ d # 0 => P[d] = q
      /\ e # 0 => P[e] = Append(q, x)
      /\ d = 0 => \A f \in 1 .. Len(h) : P[f] # q
      /\ e = 0 => \A f \in 1 .. Len(h) : P[f] # Append(q, x)
      /\ Len(h) \in Nat
  <2>1. Len(h) \in Nat
    BY LenProperties DEF TreeOf
  <2>2. /\ d \in 0 .. Len(h)
        /\ d = 0 => \A f \in 1 .. Len(h) : P[f] # q
        /\ \A f \in 1 .. Len(h) : d = f <=> P[f] = q
    BY AtMeans
  <2>3. /\ e \in 0 .. Len(h)
        /\ e = 0 => \A f \in 1 .. Len(h) : P[f] # Append(q, x)
        /\ \A f \in 1 .. Len(h) : e = f <=> P[f] = Append(q, x)
    BY AtMeans
  <2> HIDE DEF d, e
  <2> QED BY <2>1, <2>2, <2>3
<1>2. \A f \in 1 .. Len(h) : P[f] = q => f = d
  BY AtMeans
<1> HIDE DEF d, e
<1>3. CASE e # 0
  <2>1. e \in 1 .. Len(h) /\ P[e] = Append(q, x)
    BY <1>1, <1>3
  <2>2. e # 1
    <3>1. Len(Append(q, x)) = Len(q) + 1 /\ Len(q) \in Nat /\ Len(<<>>) = 0
      BY LenProperties
    <3> QED BY <2>1, <3>1 DEF TreeOf
  <2>3. PICK f \in 1 .. Len(h) : \E y \in Names : h[f].dirs[y] = e
    <3>1. e \in 2 .. Len(h)
      BY <1>1, <2>1, <2>2
    <3> QED BY <3>1 DEF TreeOf
  <2>4. PICK y \in Names : h[f].dirs[y] = e
    BY <2>3
  <2>5. Append(P[f], y) = Append(q, x)
    BY <1>3, <2>1, <2>4 DEF TreeOf
  <2>6. P[f] \in Seq(Names)
    BY PathsAre DEF TreeOf
  <2>7. P[f] = q /\ y = x
    <3>1. Len(P[f]) = Len(q) /\ Len(q) \in Nat /\ Len(P[f]) \in Nat
      <4>1. Len(Append(P[f], y)) = Len(P[f]) + 1 /\ Len(Append(q, x)) = Len(q) + 1
            /\ Len(q) \in Nat /\ Len(P[f]) \in Nat
        BY <2>6
      <4> QED BY <2>5, <4>1
    <3>2. Append(q, x)[Len(q) + 1] = x /\ Append(P[f], y)[Len(P[f]) + 1] = y
      BY <2>6
    <3>3. \A i \in 1 .. Len(q) : Append(q, x)[i] = q[i] /\ Append(P[f], y)[i] = P[f][i]
      BY <2>6, <3>1
    <3>4. P[f] = q
      BY <2>5, <2>6, <3>1, <3>3, SeqEqual
    <3> QED BY <2>5, <3>1, <3>2, <3>4
  <2>8. f = d /\ d # 0
    BY <1>1, <1>2, <2>3, <2>7
  <2> QED BY <2>4, <2>7, <2>8 DEF Step, d, e
<1>4. CASE e = 0
  <2>1. CASE d = 0
    BY <1>4, <2>1 DEF Step, d, e
  <2>2. CASE d # 0
    <3>1. d \in 1 .. Len(h) /\ P[d] = q
      BY <1>1, <2>2
    <3>2. h[d].dirs[x] # 0 => h[d].dirs[x] \in 1 .. Len(h)
                              /\ P[h[d].dirs[x]] = Append(P[d], x)
      BY <3>1 DEF TreeOf
    <3>3. h[d].dirs[x] = 0
      BY <1>1, <1>4, <3>1, <3>2
    <3> QED BY <1>4, <2>2, <3>3 DEF Step, d, e
  <2> QED BY <2>1, <2>2
<1> QED BY <1>3, <1>4

(* Two walks from the root along the same path are the same.               *)
IsWalk(h, q, w) ==
    w = [i \in 0 .. Len(q) |-> IF i = 0 THEN 1 ELSE Step(h, w[i - 1], q[i])]

LEMMA PrefixGrows ==
    ASSUME NEW q \in Seq(Names), NEW i \in 1 .. Len(q)
    PROVE  /\ SubSeq(q, 1, i - 1) \in Seq(Names) /\ q[i] \in Names
           /\ SubSeq(q, 1, i) = Append(SubSeq(q, 1, i - 1), q[i])
<1>1. Len(q) \in Nat /\ \A j \in 1 .. Len(q) : q[j] \in Names
  BY LenProperties, ElementOfSeq
<1>2. /\ SubSeq(q, 1, i - 1) \in Seq(Names) /\ Len(SubSeq(q, 1, i - 1)) = i - 1
      /\ \A j \in 1 .. i - 1 : SubSeq(q, 1, i - 1)[j] = q[j]
  <2>1. 1 \in Int /\ i - 1 \in Int /\ \A j \in 1 .. i - 1 : q[j] \in Names
    BY <1>1
  <2> QED BY <1>1, <2>1, SubSeqProperties
<1>3. /\ SubSeq(q, 1, i) \in Seq(Names) /\ Len(SubSeq(q, 1, i)) = i
      /\ \A j \in 1 .. i : SubSeq(q, 1, i)[j] = q[j]
  <2>1. 1 \in Int /\ i \in Int /\ \A j \in 1 .. i : q[j] \in Names
    BY <1>1
  <2> QED BY <1>1, <2>1, SubSeqProperties
<1> DEFINE s == Append(SubSeq(q, 1, i - 1), q[i])
<1>4. s \in Seq(Names) /\ Len(s) = i /\ s[i] = q[i]
      /\ \A j \in 1 .. i - 1 : s[j] = q[j]
  BY <1>1, <1>2
<1>5. \A j \in 1 .. i : s[j] = SubSeq(q, 1, i)[j]
  BY <1>3, <1>4
<1> HIDE DEF s
<1>6. s = SubSeq(q, 1, i)
  BY <1>3, <1>4, <1>5, SeqEqual
<1> QED BY <1>1, <1>2, <1>6 DEF s

LEMMA DirIs ==
    ASSUME NEW h, NEW P, TreeOf(h, P), NEW q \in Seq(Names)
    PROVE  DirIn(h, q) = At(h, P, q)
<1> DEFINE pre(i) == SubSeq(q, 1, i)
           w == [i \in 0 .. Len(q) |-> At(h, P, pre(i))]
<1>1. Len(q) \in Nat
  BY LenProperties
<1>2. At(h, P, pre(0)) = 1
  <2>1. pre(0) = <<>>
    BY SubSeqEmpty
  <2>2. 1 \in 1 .. Len(h) /\ P[1] = <<>>
    BY LenProperties DEF TreeOf
  <2> HIDE DEF pre
  <2> QED BY <2>1, <2>2, AtMeans
<1>3. ASSUME NEW i \in 1 .. Len(q)
      PROVE  At(h, P, pre(i)) = Step(h, At(h, P, pre(i - 1)), q[i])
  <2>1. pre(i - 1) \in Seq(Names) /\ q[i] \in Names /\ pre(i) = Append(pre(i - 1), q[i])
    BY PrefixGrows
  <2> HIDE DEF pre
  <2> QED BY <2>1, AtStep
<1>4. ASSUME NEW i \in 0 .. Len(q)
      PROVE  w[i] = IF i = 0 THEN 1 ELSE Step(h, w[i - 1], q[i])
  <2>1. CASE i = 0
    BY <1>1, <1>2, <2>1
  <2>2. CASE i # 0
    <3>1. i \in 1 .. Len(q) /\ i - 1 \in 0 .. Len(q)
      BY <1>1, <2>2
    <3>2. w[i] = At(h, P, pre(i)) /\ w[i - 1] = At(h, P, pre(i - 1))
      BY <3>1
    <3> HIDE DEF w, pre
    <3> QED BY <1>3, <2>2, <3>1, <3>2
  <2> QED BY <2>1, <2>2
<1>5. w = [i \in 0 .. Len(q) |-> w[i]]
  OBVIOUS
<1>6. w[Len(q)] = At(h, P, q)
  <2>1. pre(Len(q)) = q
    BY SubSeqFull
  <2> HIDE DEF pre
  <2> QED BY <1>1, <2>1
<1> HIDE DEF w
<1>7. IsWalk(h, q, w)
  BY <1>4, <1>5 DEF IsWalk
<1> DEFINE c == CHOOSE v : IsWalk(h, q, v)
<1>8. DirIn(h, q) = c[Len(q)]
  BY DEF DirIn, IsWalk
<1>9. IsWalk(h, q, c)
  BY <1>7
<1> HIDE DEF c
<1>10. ASSUME NEW v, IsWalk(h, q, v) PROVE v[Len(q)] = w[Len(q)]
  <2> DEFINE Wrong == {i \in 0 .. Len(q) : v[i] # w[i]}
  <2>1. ASSUME NEW i \in 0 .. Len(q)
        PROVE  /\ v[i] = IF i = 0 THEN 1 ELSE Step(h, v[i - 1], q[i])
               /\ w[i] = IF i = 0 THEN 1 ELSE Step(h, w[i - 1], q[i])
    BY <1>7, <1>10 DEF IsWalk
  <2>2. ASSUME Wrong # {} PROVE FALSE
    <3>1. Wrong \in SUBSET Nat
      OBVIOUS
    <3>2. PICK k \in Wrong : \A m \in Wrong : k <= m
      BY <2>2, <3>1, Least
    <3>3. k \in 0 .. Len(q) /\ v[k] # w[k]
      BY <3>2
    <3>4. k # 0
      BY <2>1, <3>3
    <3>5. k - 1 \in 0 .. Len(q) /\ ~(k <= k - 1)
      BY <1>1, <3>3, <3>4
    <3>6. v[k - 1] = w[k - 1]
      BY <3>2, <3>5
    <3> QED BY <2>1, <3>3, <3>4, <3>6
  <2>3. Len(q) \in 0 .. Len(q)
    BY <1>1
  <2> QED BY <2>2, <2>3
<1> QED BY <1>6, <1>8, <1>9, <1>10


(* What a step of mkdir's walk leaves of the heap: directories are only    *)
(* added, without files.                                                   *)
Named(h, P, q) == \E e \in 1 .. Len(h) : P[e] = q
Grows(h, P, h2, P2) ==
    /\ Len(h) <= Len(h2)
    /\ \A e \in 1 .. Len(h) : P2[e] = P[e] /\ h2[e].files = h[e].files
    /\ \A e \in 1 .. Len(h2), x \in Names : e > Len(h) => h2[e].files[x] = NoFile

Enters(h, P, p, w) ==
    /\ w = [heap |-> w.heap, curr |-> w.curr]
    /\ \E P2 : /\ TreeOf(w.heap, P2) /\ Grows(h, P, w.heap, P2)
               /\ w.curr \in 1 .. Len(w.heap) /\ P2[w.curr] = p
               /\ \A q : Named(w.heap, P2, q) <=> Named(h, P, q) \/ q = p

LEMMA EnterStep ==
    ASSUME NEW h, NEW P, TreeOf(h, P), NEW d \in 1 .. Len(h), NEW x \in Names,
           Append(P[d], x) \in FS!Paths, NEW w, w = FS!enter([heap |-> h, curr |-> d], x)
    PROVE  Enters(h, P, Append(P[d], x), w)
<1>1. /\ h \in Seq(Objects) /\ Len(h) \in Nat /\ Len(h) >= 1 /\ DOMAIN h = 1 .. Len(h)
      /\ P \in [1 .. Len(h) -> FS!Paths] /\ P[1] = <<>>
      /\ \A e \in 1 .. Len(h) : h[e] \in Objects
  BY LenProperties, ElementOfSeq DEF TreeOf
<1>2. CASE h[d].dirs[x] # 0
  <2>1. w = [heap |-> h, curr |-> h[d].dirs[x]]
    BY <1>2 DEF FS!enter, FS!Null
  <2>2. h[d].dirs[x] \in 1 .. Len(h) /\ P[h[d].dirs[x]] = Append(P[d], x)
    BY <1>2 DEF TreeOf
  <2>3. Grows(h, P, h, P)
    BY <1>1 DEF Grows
  <2>4. w.heap = h /\ w.curr = h[d].dirs[x] /\ w = [heap |-> w.heap, curr |-> w.curr]
    BY <2>1
  <2>5. \A q : Named(h, P, q) <=> Named(h, P, q) \/ q = Append(P[d], x)
    BY <2>2 DEF Named
  <2> QED BY <2>2, <2>3, <2>4, <2>5 DEF Enters
<1>3. CASE h[d].dirs[x] = 0
  <2> DEFINE last == Len(h)
             new == Append(P[d], x)
             g == [h EXCEPT ![d].dirs[x] = last + 1]
             h2 == Append(g, FS!NewDirectory)
             P2 == [e \in 1 .. last + 1 |-> IF e <= last THEN P[e] ELSE new]
  <2>1. w.heap = h2 /\ w.curr = last + 1 /\ w = [heap |-> w.heap, curr |-> w.curr]
    BY <1>3 DEF FS!enter, FS!Null
  <2>2. FS!NewDirectory \in Objects
        /\ \A y \in Names : FS!NewDirectory.dirs[y] = 0 /\ FS!NewDirectory.files[y] = NoFile
    BY DEF FS!NewDirectory, FS!Null, Objects
  <2>3. \A e \in 1 .. last : /\ g[e] \in Objects /\ g[e].files = h[e].files
                          /\ \A y \in Names : g[e].dirs[y] = IF e = d /\ y = x THEN last + 1
                                                             ELSE h[e].dirs[y]
    <3>1. last + 1 \in Nat
      BY <1>1
    <3>2. ASSUME NEW e \in 1 .. last
          PROVE  /\ g[e] \in Objects /\ g[e].files = h[e].files
                 /\ \A y \in Names : g[e].dirs[y] = IF e = d /\ y = x THEN last + 1
                                                    ELSE h[e].dirs[y]
      <4>1. h[e].dirs \in [Names -> Nat] /\ h[e] \in Objects
        BY <1>1 DEF Objects
      <4>2. CASE e = d
        <5>1. g[e] = [h[d] EXCEPT !.dirs = [@ EXCEPT ![x] = last + 1]]
          BY <1>1, <4>2
        <5> HIDE DEF last, g
        <5>2. g[e].dirs = [h[e].dirs EXCEPT ![x] = last + 1] /\ g[e].files = h[e].files
          BY <4>1, <4>2, <5>1 DEF Objects
        <5>3. g[e].dirs \in [Names -> Nat]
          BY <3>1, <4>1, <5>2
        <5>4. g[e] \in Objects
          <6>1. g[e] = [dirs |-> g[e].dirs, files |-> g[e].files]
            BY <4>1, <4>2, <5>1 DEF Objects
          <6>2. g[e].files \in [Names -> Seq(FS!Chunks) \cup {NoFile}]
            BY <4>1, <5>2 DEF Objects
          <6> QED BY <5>3, <6>1, <6>2 DEF Objects
        <5>5. \A y \in Names : g[e].dirs[y] = IF y = x THEN last + 1 ELSE h[e].dirs[y]
          BY <4>1, <5>2
        <5> QED BY <4>2, <5>2, <5>4, <5>5
      <4>3. CASE e # d
        BY <1>1, <4>1, <4>3
      <4> QED BY <4>2, <4>3
    <3> HIDE DEF g, last
    <3> QED BY <3>2
  <2>4. g \in Seq(Objects) /\ Len(g) = last
    <3>1. g \in [1 .. last -> Objects]
      BY <1>1, <2>3
    <3> QED BY <1>1, <3>1
  <2>5. /\ h2 \in Seq(Objects) /\ Len(h2) = last + 1 /\ h2[last + 1] = FS!NewDirectory
        /\ \A e \in 1 .. last : h2[e] = g[e]
    BY <2>2, <2>4
  <2>6. /\ P2 \in [1 .. last + 1 -> FS!Paths] /\ P2[last + 1] = new
        /\ \A e \in 1 .. last : P2[e] = P[e]
    BY <1>1
  <2>7. \A e \in 1 .. last : P[e] # new
    <3>1. P[d] \in Seq(Names) /\ d # 0 /\ At(h, P, P[d]) = d
      BY <1>1, PathsAre, AtMeans
    <3>2. At(h, P, new) = 0
      BY <1>3, <3>1, AtStep DEF Step
    <3> HIDE DEF new
    <3> QED BY <3>2, AtMeans
  <2> HIDE DEF last, new, g, h2, P2
  <2>8. last \in Nat /\ last >= 1 /\ d \in 1 .. last /\ new \in FS!Paths /\ last = Len(h)
    BY <1>1 DEF last, new
  <2>9. \A e \in 1 .. last, y \in Names :
           h2[e].dirs[y] = IF e = d /\ y = x THEN last + 1 ELSE h[e].dirs[y]
    BY <2>3, <2>5
  <2>10. \A e \in 1 .. last : h2[e].files = h[e].files
    BY <2>3, <2>5
  <2>11. \A y \in Names : h2[last + 1].dirs[y] = 0 /\ h2[last + 1].files[y] = NoFile
    BY <2>2, <2>5
  <2>12. \A e \in 1 .. last + 1 : e \in 1 .. last \/ e = last + 1
    BY <2>8
  <2>13. \A e, f \in 1 .. last + 1 : P2[e] = P2[f] => e = f
    <3>1. \A e, f \in 1 .. last : P[e] = P[f] => e = f
      BY <2>8 DEF TreeOf
    <3> QED BY <2>6, <2>7, <2>12, <3>1
  <2>14. ASSUME NEW e \in 1 .. last + 1, NEW y \in Names, h2[e].dirs[y] # 0
         PROVE  h2[e].dirs[y] \in 1 .. last + 1 /\ P2[h2[e].dirs[y]] = Append(P2[e], y)
    <3>1. e \in 1 .. last
      BY <2>11, <2>12, <2>14
    <3>2. CASE e = d /\ y = x
      <4>1. h2[e].dirs[y] = last + 1 /\ P2[e] = P[d]
        BY <2>6, <2>9, <3>1, <3>2
      <4> QED BY <2>6, <2>8, <3>2, <4>1 DEF new
    <3>3. CASE ~(e = d /\ y = x)
      <4>1. h2[e].dirs[y] = h[e].dirs[y]
        BY <2>9, <3>1, <3>3
      <4>2. h[e].dirs[y] \in 1 .. last /\ P[h[e].dirs[y]] = Append(P[e], y)
        BY <2>8, <2>14, <3>1, <4>1 DEF TreeOf
      <4>3. P2[h[e].dirs[y]] = P[h[e].dirs[y]] /\ P2[e] = P[e]
        BY <2>6, <3>1, <4>2
      <4> QED BY <2>8, <4>1, <4>2, <4>3
    <3> QED BY <3>2, <3>3
  <2>15. ASSUME NEW f \in 2 .. last + 1
         PROVE  \E e \in 1 .. last + 1 : \E y \in Names : h2[e].dirs[y] = f
    <3>1. CASE f = last + 1
      BY <2>8, <2>9, <3>1
    <3>2. CASE f # last + 1
      <4>1. f \in 2 .. last
        BY <2>8, <3>2
      <4>2. PICK e \in 1 .. last, y \in Names : h[e].dirs[y] = f
        BY <2>8, <4>1 DEF TreeOf
      <4>3. ~(e = d /\ y = x)
        BY <1>3, <4>1, <4>2
      <4>4. h2[e].dirs[y] = f /\ e \in 1 .. last + 1
        BY <2>8, <2>9, <4>2, <4>3
      <4> QED BY <4>4
    <3> QED BY <3>1, <3>2
  <2>16. ASSUME NEW e \in 1 .. last + 1, NEW y \in Names, h2[e].files[y] # NoFile
         PROVE  Append(P2[e], y) \in FS!Paths
    <3>1. e \in 1 .. last /\ h[e].files[y] # NoFile
      BY <2>10, <2>11, <2>12, <2>16
    <3>2. Append(P[e], y) \in FS!Paths
      BY <2>8, <3>1 DEF TreeOf
    <3> QED BY <2>6, <3>1, <3>2
  <2>17. TreeOf(h2, P2)
    <3>1. P2[1] = <<>>
      BY <1>1, <2>6, <2>8
    <3> QED BY <2>5, <2>6, <2>8, <2>13, <2>14, <2>15, <2>16, <3>1 DEF TreeOf
  <2>18. Grows(h, P, h2, P2)
    BY <2>5, <2>6, <2>8, <2>10, <2>11, <2>12 DEF Grows
  <2>19. ASSUME NEW q PROVE Named(h2, P2, q) <=> Named(h, P, q) \/ q = new
    <3>1. Named(h, P, q) <=> \E e \in 1 .. last : P[e] = q
      BY <2>8 DEF Named
    <3>2. Named(h2, P2, q) <=> \E e \in 1 .. last + 1 : P2[e] = q
      BY <2>5 DEF Named
    <3>3. last + 1 \in 1 .. last + 1 /\ \A e \in 1 .. last : e \in 1 .. last + 1
      BY <2>8
    <3> QED BY <2>6, <2>12, <3>1, <3>2, <3>3
  <2>20. w.curr \in 1 .. Len(w.heap) /\ P2[w.curr] = new
    BY <2>1, <2>5, <2>6, <2>8
  <2> QED BY <2>1, <2>17, <2>18, <2>19, <2>20 DEF Enters, new
<1>4. h[d].dirs[x] \in Nat
  BY <1>1 DEF Objects
<1> QED BY <1>2, <1>3


(* mkdir's walk along a path exists: a step can be added to a shorter one. *)
IsEntry(h, q, k, w) ==
    w = [i \in 0 .. k |-> IF i = 0 THEN [heap |-> h, curr |-> 1]
                          ELSE FS!enter(w[i - 1], q[i])]
EnteredIn(h, q) ==
    LET walk[i \in 0 .. Len(q)] == IF i = 0 THEN [heap |-> h, curr |-> 1]
                                   ELSE FS!enter(walk[i - 1], q[i])
    IN  walk[Len(q)]

LEMMA EnteredIsEnteredIn == \A q : FS!Entered(q) = EnteredIn(heap, q)
BY DEF FS!Entered, FS!root, EnteredIn

LEMMA EntryExists ==
    ASSUME NEW h, NEW q, NEW k \in Nat
    PROVE  \E w : IsEntry(h, q, k, w)
<1> DEFINE Lacking == {m \in Nat : ~\E w : IsEntry(h, q, m, w)}
<1>1. SUFFICES ASSUME Lacking # {} PROVE FALSE
  OBVIOUS
<1>2. Lacking \in SUBSET Nat
  OBVIOUS
<1>3. PICK m \in Lacking : \A j \in Lacking : m <= j
  BY <1>1, <1>2, Least
<1>4. m \in Nat /\ ~\E w : IsEntry(h, q, m, w)
  OBVIOUS
<1>5. CASE m = 0
  <2> DEFINE w == [i \in 0 .. 0 |-> [heap |-> h, curr |-> 1]]
  <2>1. w = [i \in 0 .. 0 |-> IF i = 0 THEN [heap |-> h, curr |-> 1]
                              ELSE FS!enter(w[i - 1], q[i])]
    OBVIOUS
  <2> QED BY <1>4, <1>5, <2>1 DEF IsEntry
<1>6. CASE m # 0
  <2>1. m - 1 \in Nat /\ ~(m <= m - 1)
    BY <1>4, <1>6
  <2>2. PICK w : IsEntry(h, q, m - 1, w)
    BY <1>3, <2>1
  <2> DEFINE v == [i \in 0 .. m |-> IF i < m THEN w[i] ELSE FS!enter(w[m - 1], q[m])]
             F(u, i) == IF i = 0 THEN [heap |-> h, curr |-> 1]
                        ELSE FS!enter(u[i - 1], q[i])
  <2>3. \A i \in 0 .. m - 1 : w[i] = F(w, i)
    BY <2>2 DEF IsEntry
  <2>4. ASSUME NEW i \in 0 .. m PROVE v[i] = F(v, i)
    <3>1. CASE i = m
      <4>1. v[i] = FS!enter(w[m - 1], q[m]) /\ v[m - 1] = w[m - 1] /\ i # 0
        BY <1>4, <1>6, <2>1, <3>1
      <4> HIDE DEF v
      <4> QED BY <3>1, <4>1
    <3>2. CASE i = 0
      <4>1. v[i] = w[i] /\ i \in 0 .. m - 1
        BY <1>4, <1>6, <2>1, <3>2
      <4> HIDE DEF v
      <4> QED BY <2>3, <3>2, <4>1
    <3>3. CASE i # 0 /\ i # m
      <4>1. v[i] = w[i] /\ v[i - 1] = w[i - 1] /\ i \in 0 .. m - 1
        BY <1>4, <3>3
      <4> HIDE DEF v
      <4> QED BY <2>3, <3>3, <4>1
    <3> QED BY <3>1, <3>2, <3>3
  <2>5. v = [i \in 0 .. m |-> v[i]]
    OBVIOUS
  <2> HIDE DEF v
  <2>6. v = [i \in 0 .. m |-> F(v, i)]
    BY <2>4, <2>5
  <2> QED BY <1>4, <2>6 DEF IsEntry
<1> QED BY <1>5, <1>6

(* It adds the path and what is above it, and ends there.                  *)
Above(q) == {SubSeq(q, 1, i) : i \in 0 .. Len(q)}
Reaches(h, P, q, i, w) ==
    /\ w = [heap |-> w.heap, curr |-> w.curr]
    /\ \E P2 : /\ TreeOf(w.heap, P2) /\ Grows(h, P, w.heap, P2)
               /\ w.curr \in 1 .. Len(w.heap) /\ P2[w.curr] = SubSeq(q, 1, i)
               /\ \A s : Named(w.heap, P2, s) <=>
                            Named(h, P, s) \/ \E j \in 0 .. i : s = SubSeq(q, 1, j)

LEMMA ReachesStart ==
    ASSUME NEW h, NEW P, TreeOf(h, P), NEW q \in FS!Paths
    PROVE  Reaches(h, P, q, 0, [heap |-> h, curr |-> 1])
<1>1. Len(h) \in Nat /\ 1 \in 1 .. Len(h) /\ P[1] = <<>>
  BY LenProperties DEF TreeOf
<1>2. SubSeq(q, 1, 0) = <<>>
  BY SubSeqEmpty
<1>3. Grows(h, P, h, P)
  BY <1>1 DEF Grows
<1>4. \A s : Named(h, P, s) <=> Named(h, P, s) \/ \E j \in 0 .. 0 : s = SubSeq(q, 1, j)
  BY <1>1, <1>2 DEF Named
<1> DEFINE w == [heap |-> h, curr |-> 1]
<1>5. w = [heap |-> w.heap, curr |-> w.curr] /\ w.heap = h /\ w.curr = 1
  OBVIOUS
<1> HIDE DEF w
<1>6. Reaches(h, P, q, 0, w)
  BY <1>1, <1>2, <1>3, <1>4, <1>5 DEF Reaches
<1> QED BY <1>6 DEF w

LEMMA ReachesStep ==
    ASSUME NEW h, NEW P, TreeOf(h, P), NEW q \in FS!Paths, NEW i \in 1 .. Len(q),
           NEW w, Reaches(h, P, q, i - 1, w)
    PROVE  Reaches(h, P, q, i, FS!enter(w, q[i]))
<1>1. PICK P1 : /\ TreeOf(w.heap, P1) /\ Grows(h, P, w.heap, P1)
                /\ w.curr \in 1 .. Len(w.heap) /\ P1[w.curr] = SubSeq(q, 1, i - 1)
                /\ \A s : Named(w.heap, P1, s) <=>
                             Named(h, P, s) \/ \E j \in 0 .. i - 1 : s = SubSeq(q, 1, j)
  BY DEF Reaches
<1>2. /\ q \in Seq(Names) /\ Len(q) \in Nat /\ Len(q) <= MaxDepth /\ MaxDepth \in Nat
      /\ q[i] \in Names /\ SubSeq(q, 1, i) = Append(SubSeq(q, 1, i - 1), q[i])
  BY PathsAre, PrefixGrows, LenProperties
<1>3. SubSeq(q, 1, i) \in FS!Paths
  <2>1. 1 \in Int /\ i \in Int /\ \A j \in 1 .. i : q[j] \in Names
    BY <1>2, ElementOfSeq
  <2>2. SubSeq(q, 1, i) \in Seq(Names) /\ Len(SubSeq(q, 1, i)) = i
    BY <2>1, SubSeqProperties
  <2>3. Len(SubSeq(q, 1, i)) <= MaxDepth
    BY <1>2, <2>2
  <2> QED BY <2>2, <2>3, PathsAre
<1> DEFINE g == w.heap
           d == w.curr
           w2 == FS!enter([heap |-> g, curr |-> d], q[i])
<1>4. w2 = FS!enter(w, q[i])
  BY DEF Reaches
<1>5. TreeOf(g, P1) /\ d \in 1 .. Len(g) /\ Append(P1[d], q[i]) \in FS!Paths
  BY <1>1, <1>2, <1>3
<1> HIDE DEF g, d, w2
<1>6. Enters(g, P1, Append(P1[d], q[i]), w2)
  <2>1. w2 = FS!enter([heap |-> g, curr |-> d], q[i]) /\ q[i] \in Names
    BY <1>2 DEF w2
  <2> QED BY <1>5, <2>1, EnterStep
<1>7. PICK P2 :
             /\ TreeOf(w2.heap, P2) /\ Grows(g, P1, w2.heap, P2)
             /\ w2.curr \in 1 .. Len(w2.heap) /\ P2[w2.curr] = Append(P1[d], q[i])
             /\ \A s : Named(w2.heap, P2, s) <=> Named(g, P1, s) \/ s = Append(P1[d], q[i])
  BY <1>6 DEF Enters
<1>8. Append(P1[d], q[i]) = SubSeq(q, 1, i)
  BY <1>1, <1>2 DEF d
<1>9. Grows(h, P, w2.heap, P2)
  <2>1. Len(h) \in Nat /\ Len(g) \in Nat /\ Len(w2.heap) \in Nat
    BY <1>5, <1>7, LenProperties DEF TreeOf
  <2>2. Grows(h, P, g, P1)
    BY <1>1 DEF g
  <2>3. \A e \in 1 .. Len(g) : P2[e] = P1[e] /\ w2.heap[e].files = g[e].files
    BY <1>7 DEF Grows
  <2>4. Len(h) <= Len(g) /\ Len(g) <= Len(w2.heap)
    BY <1>7, <2>2 DEF Grows
  <2>5. ASSUME NEW e \in 1 .. Len(h) PROVE P2[e] = P[e] /\ w2.heap[e].files = h[e].files
    <3>1. e \in 1 .. Len(g)
      BY <2>1, <2>4
    <3>2. P1[e] = P[e] /\ g[e].files = h[e].files
      BY <2>2 DEF Grows
    <3> QED BY <2>3, <3>1, <3>2
  <2>6. ASSUME NEW e \in 1 .. Len(w2.heap), NEW x \in Names, e > Len(h)
        PROVE  w2.heap[e].files[x] = NoFile
    <3>1. CASE e > Len(g)
      BY <1>7, <3>1 DEF Grows
    <3>2. CASE ~(e > Len(g))
      <4>1. e \in 1 .. Len(g)
        BY <2>1, <3>2
      <4>2. g[e].files[x] = NoFile
        BY <2>2, <2>6, <4>1 DEF Grows
      <4> QED BY <2>3, <4>1, <4>2
    <3> QED BY <3>1, <3>2
  <2> QED BY <2>1, <2>4, <2>5, <2>6 DEF Grows
<1>10. ASSUME NEW s
       PROVE  Named(w2.heap, P2, s) <=>
                  Named(h, P, s) \/ \E j \in 0 .. i : s = SubSeq(q, 1, j)
  <2>1. Named(w2.heap, P2, s) <=> Named(g, P1, s) \/ s = SubSeq(q, 1, i)
    BY <1>7, <1>8
  <2>2. Named(g, P1, s) <=> Named(h, P, s) \/ \E j \in 0 .. i - 1 : s = SubSeq(q, 1, j)
    BY <1>1 DEF g
  <2>3. (\E j \in 0 .. i : s = SubSeq(q, 1, j))
            <=> (\E j \in 0 .. i - 1 : s = SubSeq(q, 1, j)) \/ s = SubSeq(q, 1, i)
    <3>1. \A j : j \in 0 .. i <=> j \in 0 .. i - 1 \/ j = i
      BY <1>2
    <3> QED BY <3>1
  <2> QED BY <2>1, <2>2, <2>3
<1>11. Reaches(h, P, q, i, w2)
  BY <1>6, <1>7, <1>8, <1>9, <1>10 DEF Reaches, Enters
<1> QED BY <1>4, <1>11

LEMMA EnteredReaches ==
    ASSUME NEW h, NEW P, TreeOf(h, P), NEW q \in FS!Paths
    PROVE  Reaches(h, P, q, Len(q), EnteredIn(h, q))
<1>1. Len(q) \in Nat
  BY PathsAre, LenProperties
<1> DEFINE c == CHOOSE w : IsEntry(h, q, Len(q), w)
<1>2. EnteredIn(h, q) = c[Len(q)]
  BY DEF EnteredIn, IsEntry
<1>3. IsEntry(h, q, Len(q), c)
  BY <1>1, EntryExists
<1> HIDE DEF c
<1>4. \A i \in 0 .. Len(q) :
         c[i] = IF i = 0 THEN [heap |-> h, curr |-> 1] ELSE FS!enter(c[i - 1], q[i])
  BY <1>3 DEF IsEntry
<1> DEFINE Off == {i \in 0 .. Len(q) : ~Reaches(h, P, q, i, c[i])}
<1>5. ASSUME Off # {} PROVE FALSE
  <2>1. Off \in SUBSET Nat
    OBVIOUS
  <2>2. PICK k \in Off : \A m \in Off : k <= m
    BY <1>5, <2>1, Least
  <2>3. k \in 0 .. Len(q) /\ ~Reaches(h, P, q, k, c[k])
    OBVIOUS
  <2>4. k # 0
    BY <1>4, <2>3, ReachesStart
  <2>5. k \in 1 .. Len(q) /\ k - 1 \in 0 .. Len(q) /\ ~(k <= k - 1)
    BY <1>1, <2>3, <2>4
  <2>6. Reaches(h, P, q, k - 1, c[k - 1])
    BY <2>2, <2>5
  <2>7. Reaches(h, P, q, k, FS!enter(c[k - 1], q[k]))
    BY <2>5, <2>6, ReachesStep
  <2>8. c[k] = FS!enter(c[k - 1], q[k])
    BY <1>4, <2>3, <2>4
  <2> QED BY <2>3, <2>7, <2>8
<1>6. Len(q) \in 0 .. Len(q)
  BY <1>1
<1> QED BY <1>2, <1>5, <1>6


(* The state of FileTree that a heap stands for.                           *)
DirsIn(h) == {q \in FS!Paths : DirIn(h, q) # 0}
FileIn(h, f) == LET d == DirIn(h, SubSeq(f, 1, Len(f) - 1))
                IN  IF d = 0 THEN NoFile ELSE h[d].files[f[Len(f)]]
FilesIn(h) == {f \in FS!FilePaths : FileIn(h, f) # NoFile}

LEMMA FilePathsAre ==
    ASSUME NEW f \in FS!FilePaths
    PROVE  /\ SubSeq(f, 1, Len(f) - 1) \in FS!Paths /\ f[Len(f)] \in Names
           /\ SubSeq(f, 1, Len(f) - 1) \in Seq(Names)
           /\ f \in FS!Paths /\ f \in Seq(Names)
           /\ f = Append(SubSeq(f, 1, Len(f) - 1), f[Len(f)])
<1>1. f \in Seq(Names) /\ Len(f) <= MaxDepth /\ f # <<>> /\ MaxDepth \in Nat /\ f \in FS!Paths
  BY PathsAre
<1>2. Len(f) \in 1 .. Len(f) /\ Len(f) \in Nat
  BY <1>1, EmptySeq, LenProperties
<1>3. /\ SubSeq(f, 1, Len(f) - 1) \in Seq(Names) /\ f[Len(f)] \in Names
      /\ SubSeq(f, 1, Len(f)) = Append(SubSeq(f, 1, Len(f) - 1), f[Len(f)])
  BY <1>1, <1>2, PrefixGrows
<1>4. SubSeq(f, 1, Len(f)) = f
  BY <1>1, SubSeqFull
<1>5. Len(SubSeq(f, 1, Len(f) - 1)) <= MaxDepth
  <2>1. Len(f) = Len(SubSeq(f, 1, Len(f) - 1)) + 1
    BY <1>3, <1>4
  <2>2. Len(SubSeq(f, 1, Len(f) - 1)) \in Nat
    BY <1>3, LenProperties
  <2> QED BY <1>1, <1>2, <2>1, <2>2
<1>6. SubSeq(f, 1, Len(f) - 1) \in FS!Paths
  BY <1>3, <1>5, PathsAre
<1> QED BY <1>1, <1>3, <1>4, <1>6

LEMMA DirsAre ==
    ASSUME NEW h, NEW P, TreeOf(h, P)
    PROVE  \A q : q \in DirsIn(h) <=> Named(h, P, q)
<1> TAKE q
<1>1. ASSUME q \in DirsIn(h) PROVE Named(h, P, q)
  <2>1. q \in Seq(Names) /\ DirIn(h, q) # 0
    BY <1>1, PathsAre DEF DirsIn
  <2>2. At(h, P, q) # 0
    BY <2>1, DirIs
  <2>3. At(h, P, q) \in 1 .. Len(h)
    BY <2>2, AtMeans, LenProperties DEF TreeOf
  <2> QED BY <2>3, AtMeans DEF Named
<1>2. ASSUME Named(h, P, q) PROVE q \in DirsIn(h)
  <2>1. PICK d \in 1 .. Len(h) : P[d] = q
    BY <1>2 DEF Named
  <2>2. q \in FS!Paths /\ q \in Seq(Names)
    BY <2>1, PathsAre DEF TreeOf
  <2>3. At(h, P, q) = d /\ d # 0
    BY <2>1, AtMeans
  <2> QED BY <2>2, <2>3, DirIs DEF DirsIn
<1> QED BY <1>1, <1>2

LEMMA FileAt ==
    ASSUME NEW h, NEW P, TreeOf(h, P), NEW q \in Seq(Names), NEW x \in Names
    PROVE  FileIn(h, Append(q, x)) = IF At(h, P, q) = 0 THEN NoFile
                                     ELSE h[At(h, P, q)].files[x]
<1> DEFINE f == Append(q, x)
<1>1. Len(f) = Len(q) + 1 /\ Len(q) \in Nat /\ f \in Seq(Names) /\ f[Len(f)] = x
  BY LenProperties
<1>2. Len(f) \in 1 .. Len(f)
  BY <1>1
<1>3. SubSeq(f, 1, Len(f) - 1) = q
  <2>1. 1 \in Int /\ Len(q) \in Int /\ \A i \in 1 .. Len(q) : f[i] \in Names /\ f[i] = q[i]
    BY <1>1
  <2>2. /\ SubSeq(f, 1, Len(q)) \in Seq(Names) /\ Len(SubSeq(f, 1, Len(q))) = Len(q)
        /\ \A i \in 1 .. Len(q) : SubSeq(f, 1, Len(q))[i] = q[i]
    <3> HIDE DEF f
    <3> QED BY <1>1, <2>1, SubSeqProperties
  <2>3. SubSeq(f, 1, Len(q)) = q
    BY <2>2, SeqEqual
  <2> QED BY <1>1, <2>3
<1>4. DirIn(h, q) = At(h, P, q)
  BY DirIs
<1> HIDE DEF f
<1>5. FileIn(h, f) = IF At(h, P, q) = 0 THEN NoFile ELSE h[At(h, P, q)].files[x]
  BY <1>1, <1>3, <1>4 DEF FileIn
<1> QED BY <1>5 DEF f

(* A heap that has grown holds the same files.                             *)
LEMMA FilesKept ==
    ASSUME NEW h, NEW P, TreeOf(h, P), NEW h2, NEW P2, TreeOf(h2, P2), Grows(h, P, h2, P2),
           NEW q \in Seq(Names), NEW x \in Names
    PROVE  FileIn(h2, Append(q, x)) = FileIn(h, Append(q, x))
<1> DEFINE d == At(h, P, q)
           e == At(h2, P2, q)
<1>1. /\ d \in 0 .. Len(h)
      /\ d = 0 => \A f \in 1 .. Len(h) : P[f] # q
      /\ \A f \in 1 .. Len(h) : d = f <=> P[f] = q
  BY AtMeans
<1>2. /\ e \in 0 .. Len(h2)
      /\ \A f \in 1 .. Len(h2) : e = f <=> P2[f] = q
  BY AtMeans
<1>3. /\ FileIn(h, Append(q, x)) = IF d = 0 THEN NoFile ELSE h[d].files[x]
      /\ FileIn(h2, Append(q, x)) = IF e = 0 THEN NoFile ELSE h2[e].files[x]
  BY FileAt
<1>4. /\ Len(h) \in Nat /\ Len(h2) \in Nat /\ Len(h) <= Len(h2)
      /\ \A f \in 1 .. Len(h) : P2[f] = P[f] /\ h2[f].files = h[f].files
      /\ \A f \in 1 .. Len(h2) : f > Len(h) => h2[f].files[x] = NoFile
  BY LenProperties DEF Grows, TreeOf
<1> HIDE DEF d, e
<1>5. CASE d # 0
  <2>1. d \in 1 .. Len(h) /\ d \in 1 .. Len(h2) /\ P[d] = q
    BY <1>1, <1>4, <1>5
  <2>2. e = d /\ h2[d].files = h[d].files
    BY <1>2, <1>4, <2>1
  <2> QED BY <1>3, <2>2
<1>6. CASE d = 0 /\ e # 0
  <2>1. e \in 1 .. Len(h2) /\ P2[e] = q
    BY <1>2, <1>4, <1>6
  <2>2. ~(e \in 1 .. Len(h))
    BY <1>1, <1>4, <1>6, <2>1
  <2>3. e > Len(h)
    BY <1>4, <2>1, <2>2
  <2> QED BY <1>3, <1>4, <1>6, <2>1, <2>3
<1>7. CASE d = 0 /\ e = 0
  BY <1>3, <1>7
<1> QED BY <1>5, <1>6, <1>7

LEMMA MakesPath ==
    ASSUME NEW h, NEW P, TreeOf(h, P), NEW q \in FS!Paths, NEW w, w = EnteredIn(h, q)
    PROVE  \E P2 : /\ TreeOf(w.heap, P2) /\ Grows(h, P, w.heap, P2)
                   /\ w.curr \in 1 .. Len(w.heap) /\ P2[w.curr] = q
                   /\ DirsIn(w.heap) = DirsIn(h) \cup Above(q)
<1>1. Reaches(h, P, q, Len(q), w)
  BY EnteredReaches
<1>2. PICK P2 : /\ TreeOf(w.heap, P2) /\ Grows(h, P, w.heap, P2)
               /\ w.curr \in 1 .. Len(w.heap) /\ P2[w.curr] = SubSeq(q, 1, Len(q))
               /\ \A s : Named(w.heap, P2, s) <=>
                            Named(h, P, s) \/ \E j \in 0 .. Len(q) : s = SubSeq(q, 1, j)
  BY <1>1 DEF Reaches
<1>3. SubSeq(q, 1, Len(q)) = q
  BY PathsAre, SubSeqFull
<1>4. \A s : s \in DirsIn(w.heap) <=> s \in DirsIn(h) \/ s \in Above(q)
  <2> TAKE s
  <2>1. s \in Above(q) <=> \E j \in 0 .. Len(q) : s = SubSeq(q, 1, j)
    BY DEF Above
  <2>2. s \in DirsIn(w.heap) <=> Named(w.heap, P2, s)
    BY <1>2, DirsAre
  <2>3. s \in DirsIn(h) <=> Named(h, P, s)
    BY DirsAre
  <2> QED BY <1>2, <2>1, <2>2, <2>3
<1>5. DirsIn(w.heap) = DirsIn(h) \cup Above(q)
  BY <1>4
<1> QED BY <1>2, <1>3, <1>5

(* Writing a file changes that file only.                                  *)
Writes(h, d, x, text, g) ==
    /\ g \in Seq(Objects) /\ Len(g) = Len(h)
    /\ \A e \in 1 .. Len(h) :
           /\ g[e].dirs = h[e].dirs
           /\ \A y \in Names : g[e].files[y] = IF e = d /\ y = x THEN text
                                               ELSE h[e].files[y]

LEMMA WritesIt ==
    ASSUME NEW h \in Seq(Objects), NEW d \in 1 .. Len(h), NEW x \in Names,
           NEW text \in Seq(FS!Chunks), NEW g, g = [h EXCEPT ![d].files[x] = text]
    PROVE  Writes(h, d, x, text, g)
<1>1. /\ Len(h) \in Nat /\ DOMAIN h = 1 .. Len(h)
      /\ \A e \in 1 .. Len(h) : h[e] \in Objects
  BY LenProperties, ElementOfSeq
<1>2. ASSUME NEW e \in 1 .. Len(h)
      PROVE  /\ g[e] \in Objects /\ g[e].dirs = h[e].dirs
             /\ \A y \in Names : g[e].files[y] = IF e = d /\ y = x THEN text
                                                 ELSE h[e].files[y]
  <2>1. h[e] \in Objects /\ h[e].files \in [Names -> Seq(FS!Chunks) \cup {NoFile}]
        /\ h[e].dirs \in [Names -> Nat]
    BY <1>1 DEF Objects
  <2>2. CASE e = d
    <3>1. g[e] = [h[d] EXCEPT !.files = [@ EXCEPT ![x] = text]]
      BY <1>1, <2>2
    <3>2. g[e].files = [h[e].files EXCEPT ![x] = text] /\ g[e].dirs = h[e].dirs
      BY <2>1, <2>2, <3>1 DEF Objects
    <3>3. g[e].files \in [Names -> Seq(FS!Chunks) \cup {NoFile}]
      BY <2>1, <3>2
    <3>4. g[e] = [dirs |-> g[e].dirs, files |-> g[e].files]
      BY <2>1, <2>2, <3>1 DEF Objects
    <3>5. g[e] \in Objects
      BY <2>1, <3>2, <3>3, <3>4 DEF Objects
    <3> QED BY <2>1, <2>2, <3>2, <3>5
  <2>3. CASE e # d
    BY <1>1, <2>1, <2>3
  <2> QED BY <2>2, <2>3
<1>3. g \in Seq(Objects) /\ Len(g) = Len(h)
  <2>1. DOMAIN g = 1 .. Len(h) /\ g = [e \in 1 .. Len(h) |-> g[e]]
    BY <1>1
  <2>2. g \in [1 .. Len(h) -> Objects]
    BY <1>2, <2>1
  <2> QED BY <1>1, <2>2
<1> QED BY <1>2, <1>3 DEF Writes

LEMMA Written ==
    ASSUME NEW h, NEW P, TreeOf(h, P), NEW d \in 1 .. Len(h), NEW x \in Names,
           Append(P[d], x) \in FS!Paths, NEW text, NEW g, Writes(h, d, x, text, g)
    PROVE  /\ TreeOf(g, P) /\ DirsIn(g) = DirsIn(h)
           /\ \A f \in FS!FilePaths : FileIn(g, f) = IF f = Append(P[d], x) THEN text
                                                    ELSE FileIn(h, f)
<1>1. /\ h \in Seq(Objects) /\ Len(h) \in Nat
      /\ \A e \in 1 .. Len(h) : P[e] \in FS!Paths
  BY LenProperties DEF TreeOf
<1>2. \A e \in 1 .. Len(h) :
         /\ g[e].dirs = h[e].dirs
         /\ \A y \in Names : g[e].files[y] = IF e = d /\ y = x THEN text
                                             ELSE h[e].files[y]
  BY DEF Writes
<1>3. g \in Seq(Objects) /\ Len(g) = Len(h)
  BY DEF Writes
<1>4. TreeOf(g, P)
  <2>1. ASSUME NEW e \in 1 .. Len(h), NEW y \in Names, g[e].files[y] # NoFile
        PROVE  Append(P[e], y) \in FS!Paths
    <3>1. CASE e = d /\ y = x
      BY <3>1
    <3>2. CASE ~(e = d /\ y = x)
      BY <1>2, <2>1, <3>2 DEF TreeOf
    <3> QED BY <3>1, <3>2
  <2>2. ASSUME NEW e \in 1 .. Len(h), NEW y \in Names, g[e].dirs[y] # 0
        PROVE  g[e].dirs[y] \in 1 .. Len(h) /\ P[g[e].dirs[y]] = Append(P[e], y)
    <3>1. g[e].dirs = h[e].dirs
      BY <1>2
    <3>2. h[e].dirs[y] # 0 => h[e].dirs[y] \in 1 .. Len(h)
                              /\ P[h[e].dirs[y]] = Append(P[e], y)
      BY DEF TreeOf
    <3> QED BY <2>2, <3>1, <3>2
  <2>3. ASSUME NEW c \in 2 .. Len(h)
        PROVE  \E e \in 1 .. Len(h) : \E y \in Names : g[e].dirs[y] = c
    <3>1. PICK e \in 1 .. Len(h), y \in Names : h[e].dirs[y] = c
      BY DEF TreeOf
    <3>2. g[e].dirs[y] = c
      BY <1>2, <3>1
    <3> QED BY <3>2
  <2>4. /\ Len(h) >= 1 /\ P \in [1 .. Len(h) -> FS!Paths] /\ P[1] = <<>>
        /\ \A c, e \in 1 .. Len(h) : P[c] = P[e] => c = e
    BY DEF TreeOf
  <2> QED BY <1>3, <2>1, <2>2, <2>3, <2>4 DEF TreeOf
<1>5. DirsIn(g) = DirsIn(h)
  <2>1. \A q : Named(g, P, q) <=> Named(h, P, q)
    BY <1>3 DEF Named
  <2>2. \A q : q \in DirsIn(g) <=> q \in DirsIn(h)
    BY <1>4, <2>1, DirsAre
  <2> QED BY <2>2 DEF DirsIn
<1>6. ASSUME NEW f \in FS!FilePaths
      PROVE  FileIn(g, f) = IF f = Append(P[d], x) THEN text ELSE FileIn(h, f)
  <2> DEFINE q == SubSeq(f, 1, Len(f) - 1)
             y == f[Len(f)]
             e == At(h, P, q)
  <2>1. q \in Seq(Names) /\ y \in Names /\ f = Append(q, y)
    BY FilePathsAre
  <2>2. e = At(g, P, q)
    BY <1>3 DEF At
  <2> HIDE DEF q, y
  <2>3. /\ FileIn(h, f) = IF e = 0 THEN NoFile ELSE h[e].files[y]
        /\ FileIn(g, f) = IF e = 0 THEN NoFile ELSE g[e].files[y]
    <3>1. FileIn(h, Append(q, y)) = IF At(h, P, q) = 0 THEN NoFile
                                    ELSE h[At(h, P, q)].files[y]
      BY <2>1, FileAt
    <3>2. FileIn(g, Append(q, y)) = IF At(g, P, q) = 0 THEN NoFile
                                    ELSE g[At(g, P, q)].files[y]
      BY ONLY <1>4, <2>1, FileAt
    <3> QED BY <2>1, <2>2, <3>1, <3>2
  <2>4. /\ e \in 0 .. Len(h)
        /\ \A c \in 1 .. Len(h) : e = c <=> P[c] = q
    BY AtMeans
  <2> HIDE DEF e
  <2>5. CASE e = d /\ y = x
    <3>1. f = Append(P[d], x) /\ e # 0
      BY <1>1, <2>1, <2>4, <2>5
    <3> QED BY <1>2, <2>3, <2>5, <3>1
  <2>6. CASE ~(e = d /\ y = x)
    <3>1. f # Append(P[d], x)
      <4>1. ASSUME f = Append(P[d], x) PROVE FALSE
        <5>1. P[d] \in Seq(Names)
          BY <1>1, PathsAre
        <5>2. At(h, P, P[d]) = d
          BY AtMeans
        <5>3. q = P[d] /\ y = x
          <6>1. /\ Len(Append(P[d], x)) = Len(P[d]) + 1 /\ Len(Append(q, y)) = Len(q) + 1
                /\ Len(P[d]) \in Nat /\ Len(q) \in Nat
            BY <2>1, <5>1, LenProperties
          <6>2. Len(P[d]) = Len(q)
            BY <2>1, <4>1, <6>1
          <6>3. Append(P[d], x)[Len(q) + 1] = x /\ Append(q, y)[Len(q) + 1] = y
            BY <2>1, <5>1, <6>1, <6>2
          <6>4. \A i \in 1 .. Len(q) : Append(P[d], x)[i] = P[d][i] /\ Append(q, y)[i] = q[i]
            BY <2>1, <5>1, <6>1, <6>2
          <6>5. \A i \in 1 .. Len(q) : P[d][i] = q[i]
            BY <2>1, <4>1, <6>4
          <6>6. q = P[d]
            BY <2>1, <5>1, <6>2, <6>5, SeqEqual
          <6> QED BY <2>1, <4>1, <6>3, <6>6
        <5> QED BY <2>4, <2>6, <5>3
      <4> QED BY <4>1
    <3>2. CASE e = 0
      BY <2>3, <3>1, <3>2
    <3>3. CASE e # 0
      <4>1. e \in 1 .. Len(h)
        BY <1>1, <2>4, <3>3
      <4> QED BY <1>2, <2>1, <2>3, <2>6, <3>1, <3>3, <4>1
    <3> QED BY <3>2, <3>3
  <2> QED BY <2>5, <2>6
<1> QED BY <1>4, <1>5, <1>6

LEMMA FSMap ==
    /\ {q \in FS!Paths : FS!Dir(q) # FS!Null} = DirsIn(heap)
    /\ \A f : FS!File(f) = FileIn(heap, f)
<1>1. {q \in FS!Paths : FS!Dir(q) # FS!Null} = DirsIn(heap)
  BY DirIsDirIn DEF DirsIn, FS!Null
<1>2. ASSUME NEW f PROVE FS!File(f) = FileIn(heap, f)
  <2>1. FS!Dir(SubSeq(f, 1, Len(f) - 1)) = DirIn(heap, SubSeq(f, 1, Len(f) - 1))
    BY DirIsDirIn
  <2> QED BY <2>1 DEF FS!File, FileIn, FS!Front, FS!Last, FS!Null
<1> QED BY <1>1, <1>2

FSContents(h) == [f \in FilesIn(h) |-> FileIn(h, f)]

LEMMA TreeNow ==
    /\ FS!Tree!Init <=> DirsIn(heap) = {<<>>} /\ FSContents(heap) = <<>> /\ result = <<>>
    /\ FS!Tree!vars = <<DirsIn(heap), FSContents(heap), result>>
<1>1. [parts \in {f \in FS!FilePaths : FS!File(f) # NoFile} |-> FS!File(parts)] = FSContents(heap)
  BY FSMap DEF FSContents, FilesIn
<1> QED BY <1>1, FSMap DEF FS!Tree!Init, FS!Tree!vars

LEMMA Sorts == \A s : FS!Sorted(s) = FS!Tree!Sorted(s)
BY DEF FS!Sorted, FS!Tree!Sorted
LEMMA SetSeqs == \A s : FS!SetToSeq(s) = FS!Tree!SetToSeq(s)
BY DEF FS!SetToSeq, FS!Tree!SetToSeq, FS!Cardinality, FS!Tree!Cardinality, FS!IsInjective, FS!Tree!IsInjective
LEMMA Mins == \A s : FS!Min(s) = FS!Tree!Min(s)
BY DEF FS!Min, FS!Tree!Min

LEMMA FSMapNext ==
    /\ {q \in FS!Paths : FS!Dir(q)' # FS!Null} = DirsIn(heap')
    /\ \A f : FS!File(f)' = FileIn(heap', f)
<1>1. \A q : FS!Dir(q)' = DirIn(heap', q)
  BY DEF FS!Dir, FS!descend, FS!root, FS!Null, DirIn, Step
<1>2. {q \in FS!Paths : FS!Dir(q)' # FS!Null} = DirsIn(heap')
  BY <1>1 DEF DirsIn, FS!Null
<1>3. ASSUME NEW f PROVE FS!File(f)' = FileIn(heap', f)
  <2>1. FS!Dir(SubSeq(f, 1, Len(f) - 1))' = DirIn(heap', SubSeq(f, 1, Len(f) - 1))
    BY <1>1
  <2> QED BY <2>1 DEF FS!File, FileIn, FS!Front, FS!Last, FS!Null
<1> QED BY <1>2, <1>3

(* A step of the tree, in terms of the heap.                               *)
TreeGoes(D, C, r) ==
    D = DirsIn(heap') /\ C = FSContents(heap') /\ r = result'

LEMMA TreeThen ==
    FS!Tree!vars' = <<DirsIn(heap'), FSContents(heap'), result'>>
<1>1. [parts \in {f \in FS!FilePaths : FS!File(f)' # NoFile} |-> FS!File(parts)'] = FSContents(heap')
  BY FSMapNext DEF FSContents, FilesIn
<1> QED BY <1>1, FSMapNext DEF FS!Tree!vars

LEMMA TreeMkdir ==
    ASSUME NEW q
    PROVE  FS!Tree!Mkdir(q) <=> TreeGoes(DirsIn(heap) \cup Above(q), FSContents(heap), result)
<1>1. [parts \in {f \in FS!FilePaths : FS!File(f)' # NoFile} |-> FS!File(parts)'] = FSContents(heap')
  BY FSMapNext DEF FSContents, FilesIn
<1>2. [parts \in {f \in FS!FilePaths : FS!File(f) # NoFile} |-> FS!File(parts)] = FSContents(heap)
  BY FSMap DEF FSContents, FilesIn
<1> QED BY <1>1, <1>2, FSMap, FSMapNext DEF FS!Tree!Mkdir, TreeGoes, FS!Tree!Above, Above

Text(h, f) == IF FileIn(h, f) = NoFile THEN <<>> ELSE FileIn(h, f)

LEMMA TreeContent == \A f \in FS!FilePaths : FS!Tree!Content(f) = Text(heap, f)
<1>1. [parts \in {f \in FS!FilePaths : FS!File(f) # NoFile} |-> FS!File(parts)] = FSContents(heap)
  BY FSMap DEF FSContents, FilesIn
<1>2. ASSUME NEW f \in FS!FilePaths PROVE FS!Tree!Content(f) = Text(heap, f)
  <2>1. FS!Tree!Content(f) = IF f \in DOMAIN FSContents(heap) THEN FSContents(heap)[f] ELSE <<>>
    BY <1>1 DEF FS!Tree!Content
  <2>2. DOMAIN FSContents(heap) = FilesIn(heap)
    BY DEF FSContents
  <2>3. f \in FilesIn(heap) <=> FileIn(heap, f) # NoFile
    BY DEF FilesIn
  <2>4. f \in FilesIn(heap) => FSContents(heap)[f] = FileIn(heap, f)
    BY DEF FSContents
  <2> QED BY <2>1, <2>2, <2>3, <2>4 DEF Text
<1> QED BY <1>2

LEMMA TreeAdds ==
    ASSUME NEW f \in FS!FilePaths, NEW text
    PROVE  FS!Tree!AddContentToFile(f, text) <=>
               TreeGoes(DirsIn(heap) \cup Above(SubSeq(f, 1, Len(f) - 1)),
                        [g \in FilesIn(heap) \cup {f} |->
                            IF g = f THEN Text(heap, f) \o text ELSE FileIn(heap, g)],
                        result)
<1>1. [parts \in {g \in FS!FilePaths : FS!File(g)' # NoFile} |-> FS!File(parts)'] = FSContents(heap')
  BY FSMapNext DEF FSContents, FilesIn
<1>2. [parts \in {g \in FS!FilePaths : FS!File(g) # NoFile} |-> FS!File(parts)] = FSContents(heap)
  BY FSMap DEF FSContents, FilesIn
<1>3. FS!Tree!Content(f) = Text(heap, f)
  BY TreeContent
<1>4. DOMAIN FSContents(heap) = FilesIn(heap)
      /\ \A g \in FilesIn(heap) : FSContents(heap)[g] = FileIn(heap, g)
  BY DEF FSContents
<1>5. [g \in DOMAIN FSContents(heap) \cup {f} |->
          IF g = f THEN FS!Tree!Content(f) \o text ELSE FSContents(heap)[g]]
      = [g \in FilesIn(heap) \cup {f} |->
          IF g = f THEN Text(heap, f) \o text ELSE FileIn(heap, g)]
  BY <1>3, <1>4
<1>6. FS!Tree!Above(FS!Tree!Front(f)) = Above(SubSeq(f, 1, Len(f) - 1))
  BY DEF FS!Tree!Above, FS!Tree!Front, Above
<1>7. FS!Tree!AddContentToFile(f, text) <=>
          /\ DirsIn(heap') = DirsIn(heap) \cup FS!Tree!Above(FS!Tree!Front(f))
          /\ FSContents(heap') = [g \in DOMAIN FSContents(heap) \cup {f} |->
                 IF g = f THEN FS!Tree!Content(f) \o text ELSE FSContents(heap)[g]]
          /\ result' = result
  BY <1>1, <1>2, FSMap, FSMapNext DEF FS!Tree!AddContentToFile
<1> QED BY <1>5, <1>6, <1>7 DEF TreeGoes

LEMMA TreeReads ==
    ASSUME NEW f \in FS!FilePaths
    PROVE  FS!Tree!ReadContentFromFile(f) <=>
               TreeGoes(DirsIn(heap), FSContents(heap), Text(heap, f))
<1>1. [parts \in {g \in FS!FilePaths : FS!File(g)' # NoFile} |-> FS!File(parts)'] = FSContents(heap')
  BY FSMapNext DEF FSContents, FilesIn
<1>2. [parts \in {g \in FS!FilePaths : FS!File(g) # NoFile} |-> FS!File(parts)] = FSContents(heap)
  BY FSMap DEF FSContents, FilesIn
<1>3. FS!Tree!ReadContentFromFile(f) <=>
          /\ result' = FS!Tree!Content(f)
          /\ DirsIn(heap') = DirsIn(heap) /\ FSContents(heap') = FSContents(heap)
  BY <1>1, <1>2, FSMap, FSMapNext DEF FS!Tree!ReadContentFromFile
<1> QED BY <1>3, TreeContent DEF TreeGoes

FilesOn(q) == {i \in 1 .. Len(q) : SubSeq(q, 1, i) \in FilesIn(heap)}
Listed(q) == FS!Sorted(FS!SetToSeq({x \in Names : Append(q, x) \in DirsIn(heap)})
                         \o FS!SetToSeq({x \in Names : Append(q, x) \in FilesIn(heap)}))
LEMMA TreeLists ==
    ASSUME NEW q \in FS!Paths
    PROVE  FS!Tree!Ls(q) <=>
               TreeGoes(DirsIn(heap), FSContents(heap),
                        IF FilesOn(q) # {} THEN <<q[FS!Min(FilesOn(q))]>>
                        ELSE IF q \in DirsIn(heap) THEN Listed(q) ELSE <<>>)
<1>1. [parts \in {g \in FS!FilePaths : FS!File(g)' # NoFile} |-> FS!File(parts)'] = FSContents(heap')
  BY FSMapNext DEF FSContents, FilesIn
<1>2. [parts \in {g \in FS!FilePaths : FS!File(g) # NoFile} |-> FS!File(parts)] = FSContents(heap)
  BY FSMap DEF FSContents, FilesIn
<1>3. DOMAIN FSContents(heap) = FilesIn(heap) /\ DOMAIN q = 1 .. Len(q)
  BY PathsAre, LenProperties DEF FSContents
<1>4. FS!Tree!Listing(q) = Listed(q)
  <2>1. FS!Tree!Listing(q) =
            FS!Tree!Sorted(FS!Tree!SetToSeq({x \in Names : Append(q, x) \in DirsIn(heap)})
                             \o FS!Tree!SetToSeq({x \in Names : Append(q, x) \in DOMAIN FSContents(heap)}))
    BY <1>2, FSMap DEF FS!Tree!Listing, FS!Tree!Entries
  <2> QED BY <1>3, <2>1, Sorts, SetSeqs DEF Listed
<1>5. {i \in DOMAIN q : SubSeq(q, 1, i) \in DOMAIN FSContents(heap)} = FilesOn(q)
  BY <1>3 DEF FilesOn
<1>6. FS!Tree!Ls(q) <=>
          /\ result' = IF FilesOn(q) # {} THEN <<q[FS!Tree!Min(FilesOn(q))]>>
                       ELSE IF q \in DirsIn(heap) THEN FS!Tree!Listing(q) ELSE <<>>
          /\ DirsIn(heap') = DirsIn(heap) /\ FSContents(heap') = FSContents(heap)
  BY <1>1, <1>2, <1>5, FSMap, FSMapNext DEF FS!Tree!Ls
<1> QED BY <1>4, <1>6, Mins DEF TreeGoes

FSInv == \E P : TreeOf(heap, P)

LEMMA FSInit == Init => FSInv /\ FS!Tree!Init
<1> SUFFICES ASSUME Init PROVE FSInv /\ FS!Tree!Init
  OBVIOUS
<1>1. heap = <<FS!NewDirectory>> /\ result = <<>>
  BY DEF Init, FS!Init
<1> DEFINE P == [d \in 1 .. 1 |-> <<>>]
<1>2. <<>> \in FS!Paths
  <2> DEFINE e == <<>>
  <2>1. e \in Seq(Names) /\ Len(e) = 0
    OBVIOUS
  <2> HIDE DEF e, P
  <2>2. MaxDepth \in Nat
    BY PathsAre
  <2>3. Len(e) <= MaxDepth
    BY <2>1, <2>2
  <2>4. e \in FS!Paths
    BY <2>1, <2>3, PathsAre, Zenon
  <2> QED BY <2>4 DEF e
<1>3. FS!NewDirectory \in Objects
      /\ \A y \in Names : FS!NewDirectory.dirs[y] = 0 /\ FS!NewDirectory.files[y] = NoFile
  BY DEF FS!NewDirectory, FS!Null, Objects
<1>4. heap \in Seq(Objects) /\ Len(heap) = 1 /\ heap[1] = FS!NewDirectory
  BY <1>1, <1>3
<1>5. P \in [1 .. 1 -> FS!Paths] /\ P[1] = <<>>
  BY <1>2
<1> HIDE DEF P
<1>6. TreeOf(heap, P)
  BY <1>3, <1>4, <1>5 DEF TreeOf
<1>7. \A q : q \in DirsIn(heap) <=> q = <<>>
  <2> TAKE q
  <2>1. q \in DirsIn(heap) <=> Named(heap, P, q)
    BY <1>6, DirsAre
  <2>2. Named(heap, P, q) <=> q = <<>>
    BY <1>4, <1>5 DEF Named
  <2> QED BY <2>1, <2>2
<1>8. FilesIn(heap) = {}
  <2>1. ASSUME NEW f \in FS!FilePaths PROVE FileIn(heap, f) = NoFile
    <3> DEFINE q == SubSeq(f, 1, Len(f) - 1)
               x == f[Len(f)]
    <3>1. q \in Seq(Names) /\ x \in Names /\ f = Append(q, x)
      BY FilePathsAre
    <3> HIDE DEF q, x
    <3>2. FileIn(heap, Append(q, x)) = IF At(heap, P, q) = 0 THEN NoFile
                                       ELSE heap[At(heap, P, q)].files[x]
      BY <1>6, <3>1, FileAt
    <3>3. At(heap, P, q) \in 0 .. Len(heap)
      BY <1>6, AtMeans
    <3>4. At(heap, P, q) = 0 \/ At(heap, P, q) = 1
      BY <1>4, <3>3
    <3> QED BY <1>3, <1>4, <3>1, <3>2, <3>4
  <2> QED BY <2>1 DEF FilesIn
<1>9. DirsIn(heap) = {<<>>}
  BY <1>7
<1>10. FSContents(heap) = <<>>
  BY <1>8 DEF FSContents
<1> QED BY <1>1, <1>6, <1>9, <1>10, TreeNow DEF FSInv

LEMMA FSMkdir ==
    ASSUME NEW P, TreeOf(heap, P), NEW q \in FS!Paths, FS!mkdir(q)
    PROVE  FSInv' /\ FS!Tree!Mkdir(q)
<1> DEFINE w == EnteredIn(heap, q)
<1>1. heap' = w.heap /\ result' = result
  BY EnteredIsEnteredIn DEF FS!mkdir
<1>2. PICK P2 : /\ TreeOf(w.heap, P2) /\ Grows(heap, P, w.heap, P2)
                /\ DirsIn(w.heap) = DirsIn(heap) \cup Above(q)
  BY MakesPath
<1> HIDE DEF w
<1>3. ASSUME NEW f \in FS!FilePaths PROVE FileIn(w.heap, f) = FileIn(heap, f)
  <2> DEFINE d == SubSeq(f, 1, Len(f) - 1)
             x == f[Len(f)]
  <2>1. d \in Seq(Names) /\ x \in Names /\ f = Append(d, x)
    BY FilePathsAre
  <2> HIDE DEF d, x
  <2>2. FileIn(w.heap, Append(d, x)) = FileIn(heap, Append(d, x))
    BY <1>2, <2>1, FilesKept
  <2> QED BY <2>1, <2>2
<1>4. FilesIn(w.heap) = FilesIn(heap) /\ \A f \in FilesIn(heap) : FileIn(w.heap, f) = FileIn(heap, f)
  BY <1>3 DEF FilesIn
<1>5. FSContents(w.heap) = FSContents(heap)
  BY <1>4 DEF FSContents
<1>6. FSInv'
  BY <1>1, <1>2 DEF FSInv
<1>7. TreeGoes(DirsIn(heap) \cup Above(q), FSContents(heap), result)
  BY <1>1, <1>2, <1>5 DEF TreeGoes
<1> QED BY <1>6, <1>7, TreeMkdir

LEMMA FSAdd ==
    ASSUME NEW P, TreeOf(heap, P), NEW f \in FS!FilePaths, NEW content \in Contents,
           FS!addContentToFile(f, content)
    PROVE  FSInv' /\ FS!Tree!AddContentToFile(f, content)
<1> DEFINE q == SubSeq(f, 1, Len(f) - 1)
           x == f[Len(f)]
           w == EnteredIn(heap, q)
           old == IF w.heap[w.curr].files[x] = NoFile THEN <<>> ELSE w.heap[w.curr].files[x]
           text == old \o content
<1>1. /\ q \in FS!Paths /\ q \in Seq(Names) /\ x \in Names /\ f = Append(q, x) /\ f \in FS!Paths
  BY FilePathsAre
<1>2. heap' = [w.heap EXCEPT ![w.curr].files[x] = text] /\ result' = result
  <2>1. FS!Front(f) = q /\ FS!Last(f) = x
    BY DEF FS!Front, FS!Last
  <2>2. FS!Entered(q) = w
    BY EnteredIsEnteredIn
  <2> QED BY <2>1, <2>2 DEF FS!addContentToFile
<1>3. PICK P2 : /\ TreeOf(w.heap, P2) /\ Grows(heap, P, w.heap, P2)
                /\ w.curr \in 1 .. Len(w.heap) /\ P2[w.curr] = q
                /\ DirsIn(w.heap) = DirsIn(heap) \cup Above(q)
  <2> HIDE DEF q
  <2> QED BY <1>1, MakesPath
<1> HIDE DEF w, q, x
<1>4. ASSUME NEW g \in FS!FilePaths PROVE FileIn(w.heap, g) = FileIn(heap, g)
  <2> DEFINE d == SubSeq(g, 1, Len(g) - 1)
             y == g[Len(g)]
  <2>1. d \in Seq(Names) /\ y \in Names /\ g = Append(d, y)
    BY FilePathsAre
  <2> HIDE DEF d, y
  <2>2. FileIn(w.heap, Append(d, y)) = FileIn(heap, Append(d, y))
    BY <1>3, <2>1, FilesKept
  <2> QED BY <2>1, <2>2
<1>5. FileIn(heap, f) = w.heap[w.curr].files[x]
  <2>1. At(w.heap, P2, q) = w.curr /\ w.curr # 0
    BY <1>3, AtMeans
  <2>2. FileIn(w.heap, Append(q, x)) = IF At(w.heap, P2, q) = 0 THEN NoFile
                                       ELSE w.heap[At(w.heap, P2, q)].files[x]
    BY <1>1, <1>3, FileAt
  <2>3. FileIn(w.heap, f) = w.heap[w.curr].files[x]
    BY <1>1, <2>1, <2>2
  <2> QED BY <1>4, <2>3
<1>6. old = Text(heap, f)
  BY <1>5 DEF Text
<1>7. old \in Seq(FS!Chunks)
  <2>1. w.heap[w.curr] \in Objects
    BY <1>3, ElementOfSeq DEF TreeOf
  <2>2. w.heap[w.curr].files[x] \in Seq(FS!Chunks) \cup {NoFile}
    BY <1>1, <2>1 DEF Objects
  <2> QED BY <2>2, EmptySeq
<1>8. content \in Seq(FS!Chunks) /\ NoFile \notin Seq(FS!Chunks)
  BY DesignsAssumption DEF FS!FileSystemAssumption
<1> HIDE DEF old
<1>9. text \in Seq(FS!Chunks) /\ text # NoFile
  BY <1>7, <1>8, ConcatProperties
<1> HIDE DEF text
<1>10. Append(P2[w.curr], x) = f /\ Append(P2[w.curr], x) \in FS!Paths
  BY <1>1, <1>3
<1>11. /\ TreeOf(heap', P2) /\ DirsIn(heap') = DirsIn(w.heap)
       /\ \A g \in FS!FilePaths : FileIn(heap', g) = IF g = f THEN text ELSE FileIn(w.heap, g)
  <2> DEFINE h == w.heap
             d == w.curr
             g == [w.heap EXCEPT ![w.curr].files[x] = text]
  <2>1. /\ TreeOf(h, P2) /\ d \in 1 .. Len(h) /\ x \in Names
        /\ text \in Seq(FS!Chunks) /\ h \in Seq(Objects)
        /\ Append(P2[d], x) \in FS!Paths /\ Append(P2[d], x) = f
    BY <1>1, <1>3, <1>9, <1>10 DEF TreeOf
  <2>2. Writes(h, d, x, text, g)
    BY <2>1, WritesIt
  <2>4. heap' = g
    BY <1>2
  <2> HIDE DEF h, d, g
  <2>3. TreeOf(g, P2)
    BY <2>1, <2>2, Written
  <2>5. DirsIn(g) = DirsIn(h)
    BY <2>1, <2>2, Written
  <2>6. ASSUME NEW e \in FS!FilePaths
        PROVE  FileIn(g, e) = IF e = f THEN text ELSE FileIn(h, e)
    <3>1. FileIn(g, e) = IF e = Append(P2[d], x) THEN text ELSE FileIn(h, e)
      <4>1. ASSUME NEW h1, NEW g1, NEW d1 \in 1 .. Len(h1), NEW x1 \in Names, NEW t1,
                   TreeOf(h1, P2), Append(P2[d1], x1) \in FS!Paths,
                   Writes(h1, d1, x1, t1, g1)
            PROVE  FileIn(g1, e) = IF e = Append(P2[d1], x1) THEN t1 ELSE FileIn(h1, e)
        BY <4>1, Written
      <4>2. d \in 1 .. Len(h) /\ x \in Names /\ TreeOf(h, P2) /\ Append(P2[d], x) \in FS!Paths
        BY <2>1
      <4> QED BY ONLY <2>2, <4>1, <4>2
    <3> QED BY <2>1, <3>1
  <2> QED BY <2>3, <2>4, <2>5, <2>6 DEF h
<1>12. \A g \in FS!FilePaths : FileIn(heap', g) = IF g = f THEN text ELSE FileIn(heap, g)
  BY <1>4, <1>11
<1>13. FilesIn(heap') = FilesIn(heap) \cup {f}
  BY <1>9, <1>12 DEF FilesIn
<1>14. FSContents(heap') = [g \in FilesIn(heap) \cup {f} |->
                               IF g = f THEN Text(heap, f) \o content ELSE FileIn(heap, g)]
  <2>1. text = Text(heap, f) \o content
    BY <1>6 DEF text
  <2>2. \A g \in FilesIn(heap) \cup {f} :
            FileIn(heap', g) = IF g = f THEN Text(heap, f) \o content ELSE FileIn(heap, g)
    BY <1>12, <2>1 DEF FilesIn
  <2> QED BY <1>13, <2>2 DEF FSContents
<1>15. FSInv'
  BY <1>11 DEF FSInv
<1>16. TreeGoes(DirsIn(heap) \cup Above(q),
                [g \in FilesIn(heap) \cup {f} |->
                    IF g = f THEN Text(heap, f) \o content ELSE FileIn(heap, g)], result)
  BY <1>2, <1>3, <1>11, <1>14 DEF TreeGoes
<1> QED BY <1>15, <1>16, TreeAdds DEF q

LEMMA FSRead ==
    ASSUME NEW f \in FS!FilePaths, FSInv, FS!readContentFromFile(f)
    PROVE  FSInv' /\ FS!Tree!ReadContentFromFile(f)
<1>1. heap' = heap /\ result' = Text(heap, f)
  BY FSMap DEF FS!readContentFromFile, Text
<1>2. TreeGoes(DirsIn(heap), FSContents(heap), Text(heap, f))
  BY <1>1 DEF TreeGoes
<1>3. FSInv'
  BY <1>1 DEF FSInv
<1> QED BY <1>2, <1>3, TreeReads

(* What is in a directory is what has a path one part longer.              *)
LEMMA Held ==
    ASSUME NEW h, NEW P, TreeOf(h, P), NEW q \in FS!Paths, NEW d, d = DirIn(h, q), d # 0,
           NEW x \in Names
    PROVE  /\ Append(q, x) \in DirsIn(h) <=> h[d].dirs[x] # 0
           /\ Append(q, x) \in FilesIn(h) <=> h[d].files[x] # NoFile
<1>1. q \in Seq(Names) /\ Append(q, x) \in Seq(Names) /\ Append(q, x) # <<>>
  <2>1. q \in Seq(Names)
    BY PathsAre
  <2>2. Append(q, x) \in Seq(Names) /\ Len(Append(q, x)) = Len(q) + 1 /\ Len(q) \in Nat
    BY <2>1, LenProperties
  <2>3. Append(q, x) # <<>>
    <3>1. Len(Append(q, x)) # 0
      BY <2>2
    <3>2. Len(<<>>) = 0
      OBVIOUS
    <3> QED BY <3>1, <3>2, Zenon
  <2> QED BY <2>1, <2>2, <2>3
<1>2. d = At(h, P, q)
  BY <1>1, DirIs
<1>3. d \in 1 .. Len(h) /\ P[d] = q
  <2>1. Len(h) \in Nat
    BY LenProperties DEF TreeOf
  <2>2. At(h, P, q) \in 0 .. Len(h)
    BY AtMeans
  <2>3. d \in 1 .. Len(h)
    BY <1>2, <2>1, <2>2
  <2> QED BY <1>2, <2>3, AtMeans
<1>4. DirIn(h, Append(q, x)) = h[d].dirs[x]
  <2>1. DirIn(h, Append(q, x)) = At(h, P, Append(q, x))
    BY <1>1, DirIs
  <2>2. At(h, P, Append(q, x)) = Step(h, d, x)
    BY <1>1, <1>2, AtStep
  <2> QED BY <2>1, <2>2 DEF Step
<1>5. h[d].dirs[x] # 0 => Append(q, x) \in FS!Paths
  <2>1. ASSUME h[d].dirs[x] # 0 PROVE Append(q, x) \in FS!Paths
    <3>1. h[d].dirs[x] \in 1 .. Len(h) /\ P[h[d].dirs[x]] = Append(q, x)
      BY <1>3, <2>1 DEF TreeOf
    <3>2. \A e \in 1 .. Len(h) : P[e] \in FS!Paths
      BY DEF TreeOf
    <3> QED BY <3>1, <3>2, Zenon
  <2> QED BY <2>1
<1>6. FileIn(h, Append(q, x)) = h[d].files[x]
  <2>1. FileIn(h, Append(q, x)) = IF At(h, P, q) = 0 THEN NoFile
                                  ELSE h[At(h, P, q)].files[x]
    BY <1>1, FileAt
  <2> QED BY <1>2, <2>1
<1>7. h[d].files[x] # NoFile => Append(q, x) \in FS!FilePaths
  <2>1. h[d].files[x] # NoFile => Append(P[d], x) \in FS!Paths
    BY <1>3 DEF TreeOf
  <2> QED BY <1>1, <1>3, <2>1, PathsAre
<1>8. Append(q, x) \in DirsIn(h) <=> h[d].dirs[x] # 0
  BY <1>4, <1>5 DEF DirsIn
<1>9. Append(q, x) \in FilesIn(h) <=> h[d].files[x] # NoFile
  BY <1>6, <1>7 DEF FilesIn
<1> QED BY <1>8, <1>9

LEMMA FSLs ==
    ASSUME NEW P, TreeOf(heap, P), NEW q \in FS!Paths, FS!ls(q)
    PROVE  FSInv' /\ FS!Tree!Ls(q)
<1> DEFINE d == DirIn(heap, q)
           D == {x \in Names : heap[d].dirs[x] # 0}
           F == {x \in Names : heap[d].files[x] # NoFile}
<1>1. q \in Seq(Names) /\ Len(q) \in Nat /\ DOMAIN q = 1 .. Len(q) /\ MaxDepth \in Nat
      /\ Len(q) <= MaxDepth
  BY PathsAre, LenProperties
<1>2. FS!Dir(q) = d
  BY DirIsDirIn
<1>3. {i \in DOMAIN q : FS!File(SubSeq(q, 1, i)) # NoFile} = FilesOn(q)
  <2>1. ASSUME NEW i \in 1 .. Len(q)
        PROVE  FS!File(SubSeq(q, 1, i)) # NoFile <=> SubSeq(q, 1, i) \in FilesIn(heap)
    <3>1. 1 \in Int /\ i \in Int /\ \A j \in 1 .. i : q[j] \in Names
      BY <1>1, ElementOfSeq
    <3>2. SubSeq(q, 1, i) \in Seq(Names) /\ Len(SubSeq(q, 1, i)) = i
      BY <3>1, SubSeqProperties
    <3>3. SubSeq(q, 1, i) # <<>>
      BY <3>2
    <3>4. Len(SubSeq(q, 1, i)) <= MaxDepth
      BY <1>1, <3>2
    <3>5. SubSeq(q, 1, i) \in FS!FilePaths
      BY <3>2, <3>3, <3>4, PathsAre
    <3>6. FS!File(SubSeq(q, 1, i)) = FileIn(heap, SubSeq(q, 1, i))
      BY FSMap
    <3> QED BY <3>5, <3>6 DEF FilesIn
  <2> QED BY <1>1, <2>1 DEF FilesOn
<1>4. heap' = heap
      /\ result' = IF FilesOn(q) # {} THEN <<q[FS!Min(FilesOn(q))]>>
                   ELSE IF d = 0 THEN <<>>
                   ELSE FS!Sorted(FS!SetToSeq(D) \o FS!SetToSeq(F))
  BY <1>2, <1>3 DEF FS!ls, FS!Null
<1>5. q \in DirsIn(heap) <=> d # 0
  BY DEF DirsIn
<1>6. ASSUME d # 0 PROVE FS!Sorted(FS!SetToSeq(D) \o FS!SetToSeq(F)) = Listed(q)
  <2>1. \A x \in Names : /\ Append(q, x) \in DirsIn(heap) <=> x \in D
                         /\ Append(q, x) \in FilesIn(heap) <=> x \in F
    <3> HIDE DEF d
    <3>1. ASSUME NEW x \in Names
          PROVE  /\ Append(q, x) \in DirsIn(heap) <=> heap[d].dirs[x] # 0
                 /\ Append(q, x) \in FilesIn(heap) <=> heap[d].files[x] # NoFile
      BY <1>6, Held DEF d
    <3> QED BY <3>1
  <2>2. D = {x \in Names : Append(q, x) \in DirsIn(heap)}
        /\ F = {x \in Names : Append(q, x) \in FilesIn(heap)}
    <3> HIDE DEF d
    <3>1. D \subseteq Names /\ F \subseteq Names
      OBVIOUS
    <3> HIDE DEF D, F
    <3> QED BY <2>1, <3>1
  <2> HIDE DEF D, F
  <2> QED BY <2>2 DEF Listed
<1> HIDE DEF d, D, F
<1>7. TreeGoes(DirsIn(heap), FSContents(heap),
               IF FilesOn(q) # {} THEN <<q[FS!Min(FilesOn(q))]>>
               ELSE IF q \in DirsIn(heap) THEN Listed(q) ELSE <<>>)
  BY <1>4, <1>5, <1>6 DEF TreeGoes
<1>8. FSInv'
  BY <1>4 DEF FSInv
<1> QED BY <1>7, <1>8, TreeLists

LEMMA FSStep ==
    ASSUME FSInv, FS!Next
    PROVE  FSInv' /\ FS!Tree!Next
<1>1. PICK P : TreeOf(heap, P)
  BY DEF FSInv
<1>2. ASSUME NEW q \in FS!Paths, FS!mkdir(q) PROVE FSInv' /\ FS!Tree!Mkdir(q)
  BY <1>1, <1>2, FSMkdir
<1>3. ASSUME NEW q \in FS!Paths, FS!ls(q) PROVE FSInv' /\ FS!Tree!Ls(q)
  BY <1>1, <1>3, FSLs
<1>4. ASSUME NEW f \in FS!FilePaths, FS!readContentFromFile(f)
      PROVE  FSInv' /\ FS!Tree!ReadContentFromFile(f)
  BY <1>4, FSRead
<1>5. ASSUME NEW f \in FS!FilePaths, NEW content \in Contents,
             FS!addContentToFile(f, content)
      PROVE  FSInv' /\ FS!Tree!AddContentToFile(f, content)
  BY <1>1, <1>5, FSAdd
<1> QED BY <1>2, <1>3, <1>4, <1>5 DEF FS!Next, FS!Tree!Next

LEMMA FSStays ==
    ASSUME FSInv, UNCHANGED files
    PROVE  FSInv' /\ UNCHANGED FS!Tree!vars
<1>1. heap' = heap /\ result' = result
  BY DEF files
<1>2. FS!Tree!vars' = FS!Tree!vars
  BY <1>1, TreeNow, TreeThen
<1> QED BY <1>1, <1>2 DEF FSInv

(* The objects on the heap are a tree: every call does to them what it     *)
(* does to the set of paths and their contents, and ls and read return the *)
(* same.                                                                   *)
THEOREM FilesMakeATree == Spec => TreeSpec
<1>1. Init => FSInv /\ FS!Tree!Init
  BY FSInit
<1>2. FSInv /\ [Next]_vars => FSInv' /\ [FS!Tree!Next]_(FS!Tree!vars)
  <2> SUFFICES ASSUME FSInv, [Next]_vars
               PROVE  FSInv' /\ [FS!Tree!Next]_(FS!Tree!vars)
    OBVIOUS
  <2>1. CASE FS!Next
    BY <2>1, FSStep
  <2>2. CASE UNCHANGED files
    BY <2>2, FSStays
  <2>3. FS!Next \/ UNCHANGED files
    BY DEF Next, RunsLocker, RunsFour, RunsThree, RunsLot, RunsFiles, RunsPieces, vars
  <2> QED BY <2>1, <2>2, <2>3
<1> QED BY <1>1, <1>2, PTL DEF Spec, TreeSpec, FS!TreeSpec, FS!Tree!Spec
=============================================================================
