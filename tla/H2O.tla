-------------------------------- MODULE H2O --------------------------------
(***************************************************************************)
(* Leetcode/BuildingH2O.cpp: a barrier that lets hydrogen and oxygen       *)
(* threads pass in molecules.  Every thread makes one call and locks once. *)
(***************************************************************************)
EXTENDS Integers, Sequences, FiniteSets

CONSTANTS Hydrogens, Oxygens     \* the threads, by what they call

H2OAssumption == /\ IsFiniteSet(Hydrogens) /\ IsFiniteSet(Oxygens)
                 /\ Hydrogens \cap Oxygens = {}

VARIABLES at, hCount,
          released     \* the threads in the order in which they passed

vars == <<at, hCount, released>>

Atoms == Hydrogens \cup Oxygens
M == INSTANCE Monitor WITH Threads <- Atoms

Init == M!MonitorInit /\ hCount = 0 /\ released = <<>>

-----------------------------------------------------------------------------
Blocked(t) == IF t \in Hydrogens THEN hCount = 2 ELSE hCount # 2

Lock(t) == M!Lock(t) /\ UNCHANGED <<hCount, released>>

Wait(t) == /\ Blocked(t)
           /\ M!Wait(t)
           /\ UNCHANGED <<hCount, released>>

(* releaseHydrogen or releaseOxygen, and the rest of the function.         *)
Pass(t) == /\ at[t] = "inside" /\ ~Blocked(t)
           /\ released' = Append(released, t)
           /\ hCount' = IF t \in Hydrogens THEN hCount + 1 ELSE 0
           /\ M!NotifyAllAndGo(t, "returned")

SpuriousWakeup(t) == M!SpuriousWakeup(t) /\ UNCHANGED <<hCount, released>>

Joined == M!AllReturned /\ UNCHANGED vars

Next == \/ \E t \in Atoms : Lock(t) \/ Wait(t) \/ Pass(t) \/ SpuriousWakeup(t)
        \/ Joined

Spec == Init /\ [][Next]_vars

Proceed(t) == Wait(t) \/ Pass(t)    \* fair, see Turns

-----------------------------------------------------------------------------
TypeOK == /\ M!MonitorTypeOK
          /\ hCount \in 0 .. 2
          /\ released \in Seq(Atoms)

(* Line 10: divided into groups of three, the sequence of the threads that *)
(* passed has one oxygen and two hydrogens in each, and no more than that  *)
(* in the group still incomplete.                                          *)
Of(S, from, to) ==
    Cardinality({k \in from .. to : k <= Len(released) /\ released[k] \in S})
GroupsAreMolecules ==
    \A g \in 0 .. Len(released) \div 3 :
        /\ Of(Hydrogens, 3 * g + 1, 3 * g + 3) <= 2
        /\ Of(Oxygens, 3 * g + 1, 3 * g + 3) <= 1

(* Threads in the right proportion all pass, whatever their order.         *)
Complete == M!AllReturned
=============================================================================
