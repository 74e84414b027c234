----------------------------- MODULE ParkingLot -----------------------------
(***************************************************************************)
(* ParkingLotManagement.cpp: spots with a flag, and tickets on the heap,   *)
(* of which the lot keeps no list: a ticket is known to the driver who was *)
(* given its address, and says which spot it is for.  Drivers present each *)
(* ticket once; the code deletes it and could not tell.                    *)
(***************************************************************************)
EXTENDS Naturals, FiniteSets

CONSTANTS Spots,       \* 5 of them, by their index
          Vehicles, VehicleType,   \* VehicleType[v]
          Addresses,   \* what new may return for a ticket
          nullptr      \* also: no ticket

LotAssumption == /\ Spots \subseteq Nat /\ IsFiniteSet(Spots)
                 /\ VehicleType \in [Vehicles -> {"MOTORCYCLE", "CAR", "BUS"}]
                 /\ nullptr \notin Addresses \cup Spots
                 /\ Cardinality(Addresses) >= Cardinality(Spots)

VARIABLES isFree,      \* isFree[i]
          spotIndex,   \* spotIndex[a]: of the ticket at a, or nullptr
          ticket       \* ticket[v]: the ticket that v's driver has to present
vars == <<isFree, spotIndex, ticket>>

SpotType == [i \in Spots |-> "MEDIUM"]     \* as ParkingLot() makes them

Init == /\ isFree = [i \in Spots |-> TRUE]
        /\ spotIndex = [a \in Addresses |-> nullptr]
        /\ ticket = [v \in Vehicles |-> nullptr]

-----------------------------------------------------------------------------
canFit(i, v) == /\ isFree[i]
                /\ VehicleType[v] = "BUS" => SpotType[i] = "LARGE"
                /\ VehicleType[v] = "CAR" => SpotType[i] \in {"MEDIUM", "LARGE"}

FirstFit(i, v) == canFit(i, v) /\ \A j \in Spots : j < i => ~canFit(j, v)

(* When no spot fits it returns a null pointer and changes nothing.        *)
noSpotFound(v) == /\ ticket[v] = nullptr
                  /\ \A i \in Spots : ~canFit(i, v)
                  /\ UNCHANGED vars

parkVehicle(v) ==
    /\ ticket[v] = nullptr
    /\ \E i \in Spots, a \in Addresses :
           /\ FirstFit(i, v)
           /\ spotIndex[a] = nullptr
           /\ isFree' = [isFree EXCEPT ![i] = FALSE]
           /\ spotIndex' = [spotIndex EXCEPT ![a] = i]
           /\ ticket' = [ticket EXCEPT ![v] = a]

exitVehicle_AfterDelete(v) ==
    /\ ticket[v] # nullptr
    /\ spotIndex' = [spotIndex EXCEPT ![ticket[v]] = nullptr]
    /\ \E i \in Spots : isFree' = [isFree EXCEPT ![i] = TRUE]  \* whatever it finds
    /\ ticket' = [ticket EXCEPT ![v] = nullptr]

exitVehicle(v) ==
    /\ ticket[v] # nullptr
    /\ isFree' = [isFree EXCEPT ![spotIndex[ticket[v]]] = TRUE]
    /\ spotIndex' = [spotIndex EXCEPT ![ticket[v]] = nullptr]
    /\ ticket' = [ticket EXCEPT ![v] = nullptr]

Next == \E v \in Vehicles : parkVehicle(v) \/ noSpotFound(v) \/ exitVehicle(v)

Spec == Init /\ [][Next]_vars

-----------------------------------------------------------------------------
TypeOK == /\ isFree \in [Spots -> BOOLEAN]
          /\ spotIndex \in [Addresses -> Spots \cup {nullptr}]
          /\ ticket \in [Vehicles -> Addresses \cup {nullptr}]

(* No spot is given out twice and none is lost, though the lot remembers   *)
(* no tickets and their addresses are used again: the taken spots are      *)
(* those of the tickets in the drivers' hands, one driver each, and no     *)
(* other ticket is on the heap.                                            *)
Parked == {v \in Vehicles : ticket[v] # nullptr}
SpotOf(v) == spotIndex[ticket[v]]
LotSound ==
    /\ TypeOK
    /\ {i \in Spots : ~isFree[i]} = {SpotOf(v) : v \in Parked}
    /\ \A v, w \in Parked : SpotOf(v) = SpotOf(w) => v = w
    /\ {a \in Addresses : spotIndex[a] # nullptr} = {ticket[v] : v \in Parked}
=============================================================================
