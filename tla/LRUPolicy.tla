----------------------------- MODULE LRUPolicy -----------------------------
(***************************************************************************)
(* What an LRU cache of Capacity entries promises, without saying how it   *)
(* is kept: a key is found exactly as long as fewer than Capacity other    *)
(* keys were used since its own last use.  A use is a put or a get that    *)
(* found its key.                                                          *)
(***************************************************************************)
EXTENDS Naturals, FiniteSets

CONSTANTS Keys, Values, Capacity, Miss

VARIABLES latest,     \* latest[k]: the value last put for k, or Miss
          usedSince,  \* usedSince[k]: the other keys used since k was
          result      \* what the last get returned

vars == <<latest, usedSince, result>>

Found(k) == latest[k] # Miss /\ Cardinality(usedSince[k]) < Capacity

Use(k) == [j \in Keys |-> IF j = k THEN {} ELSE usedSince[j] \cup {k}]

Init == /\ latest = [k \in Keys |-> Miss]
        /\ usedSince = [k \in Keys |-> {}]
        /\ result = Miss

Get(k) == /\ result' = IF Found(k) THEN latest[k] ELSE Miss
          /\ usedSince' = IF Found(k) THEN Use(k) ELSE usedSince
          /\ UNCHANGED latest

Put(k, v) == /\ latest' = [latest EXCEPT ![k] = v]
             /\ usedSince' = Use(k)
             /\ UNCHANGED result

Next == \E k \in Keys : Get(k) \/ \E v \in Values : Put(k, v)

Spec == Init /\ [][Next]_vars
=============================================================================
