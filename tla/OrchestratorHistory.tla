------------------------ MODULE OrchestratorHistory ------------------------
(***************************************************************************)
(* History variables over Orchestrator, each a function of the loop's own  *)
(* step, and the two properties that count calls over time.                *)
(***************************************************************************)
EXTENDS Orchestrator

VARIABLES
  pausedCalls,    \* calls that began since the PAUSE file appeared
  overBudget      \* calls this process began with the budget already spent

hvars == <<vars, pausedCalls, overBudget>>

HInit == Init /\ pausedCalls = 0 /\ overBudget = 0

Calling == pc = "ready" /\ pc' = "calling"

Counted(n) == IF Calling THEN n + 1 ELSE n

HNext ==
  /\ Next
  /\ pausedCalls' = IF pauseFile /\ pauseFile' THEN Counted(pausedCalls) ELSE 0
  /\ overBudget' = IF ~Running THEN 0
                   ELSE IF metrics.spend > BudgetLimit THEN Counted(overBudget)
                   ELSE overBudget

HSpec == HInit /\ [][HNext]_hvars

-----------------------------------------------------------------------------
(***************************************************************************)
(* The PAUSE file stops the loop, also across restarts: the check at the   *)
(* top of the loop is stale by the time a backoff is over, so one call may *)
(* still begin after the file has appeared, never a second.                *)
(***************************************************************************)
PauseIsRespected == pausedCalls <= 1

(***************************************************************************)
(* The budget guard is mute for the first MinBudgetTime of a process.  In  *)
(* that window a process may begin calls although the budget is spent, as  *)
(* many as fit with a cooldown between them and no more.                   *)
(***************************************************************************)
OverspendIsBounded ==
  overBudget * Cooldown < MinBudgetTime + Cooldown
=============================================================================
