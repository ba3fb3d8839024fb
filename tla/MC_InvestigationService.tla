----------------------- MODULE MC_InvestigationService -----------------------
(* Two workers and one analyst are enough for every race the properties    *)
(* name; service_crash needs one worker.                                   *)
EXTENDS InvestigationService, TLC
CONSTANTS w1, w2, a1, a2
Twins == Permutations({w1, w2}) \cup Permutations({a1, a2})
=============================================================================
