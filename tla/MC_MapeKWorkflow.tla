-------------------------- MODULE MC_MapeKWorkflow --------------------------
(* One investigation, two policy versions, two requests for more evidence. *)
EXTENDS MapeKWorkflow
=============================================================================
