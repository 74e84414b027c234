------------------------- MODULE MCDistributedLock -------------------------
(* Node_A and Node_C of the harness, Node_B, which asks for a short lease  *)
(* and may die, and a fourth node that may die.  A and B may need up to    *)
(* three ticks more than their leases last.                                *)
EXTENDS DistributedLock, TLC

CONSTANTS A, B, C, D
MCNodes == {A, B, C, D}
MCCrashable == {B, D}
MCTtl == (A :> 3 @@ B :> 1 @@ C :> 4 @@ D :> 3)
MCHold == (A :> 6 @@ B :> 4 @@ C :> 4 @@ D :> 3)
=============================================================================
