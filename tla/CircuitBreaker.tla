--------------------------- MODULE CircuitBreaker ---------------------------
(***************************************************************************)
(* The CircuitBreaker class of core/orchestrator/loop.py, as operators on  *)
(* the record of its fields.  The class has no lock: only the main thread  *)
(* of the loop calls it, so each method is one atomic operation.           *)
(***************************************************************************)
EXTENDS Integers

CONSTANTS
  FailureThreshold,  \* failure_threshold: failures that open a closed circuit
  OpenDuration,      \* open_duration: the first cooldown
  MaxOpenDuration    \* the 3600 s cap on a doubled cooldown

ASSUME BreakerAssumption ==
  /\ FailureThreshold \in Nat \ {0}
  /\ OpenDuration \in Nat \ {0}
  /\ MaxOpenDuration \in Nat \ {0}

Modes == {"CLOSED", "OPEN", "HALF_OPEN"}

Breakers == [mode : Modes, failures : Nat, cooldown : Nat, openSince : Nat]

NewBreaker ==
  [mode |-> "CLOSED", failures |-> 0, cooldown |-> OpenDuration, openSince |-> 0]

Smaller(a, b) == IF a < b THEN a ELSE b

(***************************************************************************)
(* allow_request answers TRUE when the circuit is closed, when a probe is  *)
(* under way, or when the cooldown is over; only the last one moves it.    *)
(***************************************************************************)
CooledDown(b, now) == now - b.openSince >= b.cooldown

Allowed(b, now) == b.mode = "OPEN" => CooledDown(b, now)

AllowRequest(b, now) ==
  IF b.mode = "OPEN" /\ CooledDown(b, now)
    THEN [b EXCEPT !.mode = "HALF_OPEN"]
    ELSE b

RecordSuccessKeepingCount(b) == [b EXCEPT !.mode = "CLOSED"]

RecordSuccess(b) ==
  [b EXCEPT !.mode = "CLOSED", !.failures = 0, !.cooldown = OpenDuration]

ReopenedUndoubled(b, now) ==
  [b EXCEPT !.mode = "OPEN", !.failures = @ + 1, !.openSince = now]

\* A failed probe re-opens a circuit with twice the cooldown, up to the cap.
Reopened(b, now) ==
  [mode |-> "OPEN",
   failures |-> b.failures + 1,
   cooldown |-> Smaller(2 * b.cooldown, MaxOpenDuration),
   openSince |-> now]

Tripped(b, now) ==
  [mode |-> "OPEN", failures |-> b.failures + 1, cooldown |-> b.cooldown,
   openSince |-> now]

RecordFailure(b, now) ==
  CASE b.mode = "HALF_OPEN" -> Reopened(b, now)
    [] b.mode = "CLOSED" /\ b.failures + 1 >= FailureThreshold -> Tripped(b, now)
    [] OTHER -> [b EXCEPT !.failures = @ + 1]
=============================================================================
