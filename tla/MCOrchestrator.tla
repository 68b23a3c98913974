---------------------------- MODULE MCOrchestrator ----------------------------
(* Orchestrator alone, with two retries of a gateway call. *)
EXTENDS Orchestrator

MCRetryDelays == <<1, 2>>
=============================================================================
