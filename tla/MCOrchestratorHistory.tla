------------------------ MODULE MCOrchestratorHistory -------------------------
(* Orchestrator with the history of its calls, with two retries of a call. *)
EXTENDS OrchestratorHistory

MCRetryDelays == <<1, 2>>
=============================================================================
