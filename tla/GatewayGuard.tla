---------------------------- MODULE GatewayGuard ----------------------------
(***************************************************************************)
(* What the circuit breaker promises about calls to the gateway, after the *)
(* docstring of CircuitBreaker: a circuit opens after FailureThreshold     *)
(* consecutive failures; while it is open no call is made until the        *)
(* cooldown is over; then one call probes the gateway, and the circuit     *)
(* closes if it succeeds and re-opens, with the cooldown doubled up to a   *)
(* cap, if it fails.                                                       *)
(***************************************************************************)
EXTENDS Integers

CONSTANTS FailureThreshold, OpenDuration, MaxOpenDuration

VARIABLES
  mode,      \* CLOSED, OPEN or HALF_OPEN
  failures,  \* consecutive failures
  cooldown,  \* length of the next open period
  probeAt,   \* when the open period is over; 0 if the circuit is not open
  calling,   \* is a call under way
  clock

vars == <<mode, failures, cooldown, probeAt, calling, clock>>

Init ==
  /\ mode = "CLOSED"
  /\ failures = 0
  /\ cooldown = OpenDuration
  /\ probeAt = 0
  /\ calling = FALSE
  /\ clock = 0

Call ==
  /\ ~calling
  /\ mode = "CLOSED"
  /\ calling' = TRUE
  /\ UNCHANGED <<mode, failures, cooldown, probeAt, clock>>

Probe ==
  /\ ~calling
  /\ mode = "OPEN" /\ clock >= probeAt
  /\ mode' = "HALF_OPEN"
  /\ probeAt' = 0
  /\ calling' = TRUE
  /\ UNCHANGED <<failures, cooldown, clock>>

Succeed ==
  /\ calling
  /\ calling' = FALSE
  /\ mode' = "CLOSED"
  /\ failures' = 0
  /\ cooldown' = OpenDuration
  /\ UNCHANGED <<probeAt, clock>>

FailClosed ==
  /\ calling
  /\ mode = "CLOSED" /\ failures + 1 < FailureThreshold
  /\ calling' = FALSE
  /\ failures' = failures + 1
  /\ UNCHANGED <<mode, cooldown, probeAt, clock>>

Trip ==
  /\ calling
  /\ mode = "CLOSED" /\ failures + 1 = FailureThreshold
  /\ calling' = FALSE
  /\ failures' = failures + 1
  /\ mode' = "OPEN"
  /\ probeAt' = clock + cooldown
  /\ UNCHANGED <<cooldown, clock>>

ProbeFails ==
  /\ calling
  /\ mode = "HALF_OPEN"
  /\ calling' = FALSE
  /\ failures' = failures + 1
  /\ mode' = "OPEN"
  /\ cooldown' = IF 2 * cooldown < MaxOpenDuration THEN 2 * cooldown ELSE MaxOpenDuration
  /\ probeAt' = clock + cooldown'
  /\ UNCHANGED clock

Tick ==
  /\ clock' = clock + 1
  /\ UNCHANGED <<mode, failures, cooldown, probeAt, calling>>

\* The breaker lives in memory: a new process starts with a closed circuit.
Forget ==
  /\ mode' = "CLOSED"
  /\ failures' = 0
  /\ cooldown' = OpenDuration
  /\ probeAt' = 0
  /\ calling' = FALSE
  /\ clock' = 0

Next ==
  \/ Call \/ Probe
  \/ Succeed \/ FailClosed \/ Trip \/ ProbeFails
  \/ Tick \/ Forget

Spec == Init /\ [][Next]_vars
=============================================================================
