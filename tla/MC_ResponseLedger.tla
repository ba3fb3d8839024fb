-------------------------- MODULE MC_ResponseLedger --------------------------
(* Shapes of incidents and targets for TLC.                                *)
EXTENDS ResponseLedger, TLC

CONSTANTS a1, a2, t1

OneTarget == [a \in Action |-> t1]
Twins == Permutations(Executor) \cup Permutations(Worker)
=============================================================================
