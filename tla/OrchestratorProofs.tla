------------------------- MODULE OrchestratorProofs -------------------------
(***************************************************************************)
(* Proofs about Orchestrator, and the history over it, for every value of  *)
(* the constants.                                                          *)
(***************************************************************************)
EXTENDS OrchestratorHistory, TLAPS

USE BreakerAssumption DEF BreakerAssumption

(***************************************************************************)
(* What a location of the main thread says about the failure counts: the   *)
(* loop leaves the checks at its top only with room below the emergency    *)
(* threshold, and it is in a call only through a circuit that let it pass. *)
(***************************************************************************)
RoomBeforeCall ==
  pc \in {"backoff", "ready", "calling", "retrying"} =>
    streak < MaxConsecutiveFailures

CallsPassTheBreaker == InCall => breaker.mode # "OPEN"

BreakerInv ==
  /\ TypeOK
  /\ AttemptsAreBounded
  /\ RoomBeforeCall
  /\ CallsPassTheBreaker
  /\ HalfOpenOnlyDuringProbe
  /\ FailureCountsAgree

-----------------------------------------------------------------------------
(* The methods of the breaker. *)

(***************************************************************************)
(* record_failure keeps the mode in step with the count, opens or keeps    *)
(* open every circuit but a closed one below the threshold.                *)
(***************************************************************************)
LEMMA RecordFailureFacts ==
  ASSUME NEW b \in Breakers, NEW now \in Nat, b.mode # "OPEN",
         (b.mode = "CLOSED") <=> (b.failures < FailureThreshold)
  PROVE  /\ RecordFailure(b, now) \in Breakers
         /\ RecordFailure(b, now).failures = b.failures + 1
         /\ RecordFailure(b, now).mode \in {"CLOSED", "OPEN"}
         /\ (RecordFailure(b, now).mode = "CLOSED")
              <=> (RecordFailure(b, now).failures < FailureThreshold)
<1>0. b.failures \in Nat /\ b.cooldown \in Nat /\ b.mode \in {"CLOSED", "HALF_OPEN"}
  BY DEF Breakers, Modes
<1>1. CASE b.mode = "HALF_OPEN"
  <2>1. RecordFailure(b, now) = Reopened(b, now)
    BY <1>1 DEF RecordFailure
  <2>2. Smaller(2 * b.cooldown, MaxOpenDuration) \in Nat
    BY <1>0 DEF Smaller
  <2> QED
    BY <1>0, <1>1, <2>1, <2>2 DEF Reopened, Breakers, Modes
<1>2. CASE b.mode = "CLOSED" /\ b.failures + 1 >= FailureThreshold
  <2>1. RecordFailure(b, now) = Tripped(b, now)
    BY <1>2 DEF RecordFailure
  <2> QED
    BY <1>0, <1>2, <2>1 DEF Tripped, Breakers, Modes
<1>3. CASE b.mode = "CLOSED" /\ ~(b.failures + 1 >= FailureThreshold)
  <2>1. RecordFailure(b, now) = [b EXCEPT !.failures = @ + 1]
    BY <1>3 DEF RecordFailure
  <2> QED
    BY <1>0, <1>3, <2>1 DEF Breakers, Modes
<1> QED
  BY <1>0, <1>1, <1>2, <1>3

(***************************************************************************)
(* record_success always leaves a closed circuit with no failures.         *)
(***************************************************************************)
LEMMA RecordSuccessFacts ==
  ASSUME NEW b \in Breakers
  PROVE  /\ RecordSuccess(b) \in Breakers
         /\ RecordSuccess(b).mode = "CLOSED"
         /\ RecordSuccess(b).failures = 0
  BY DEF RecordSuccess, Breakers, Modes

(***************************************************************************)
(* A new breaker is closed and has no failures.                            *)
(***************************************************************************)
LEMMA NewBreakerFacts ==
  /\ NewBreaker \in Breakers
  /\ NewBreaker.mode = "CLOSED"
  /\ NewBreaker.failures = 0
  BY DEF NewBreaker, Breakers, Modes

(***************************************************************************)
(* allow_request, where it lets a request pass, leaves the count alone and *)
(* turns an open circuit half-open.                                        *)
(***************************************************************************)
LEMMA AllowRequestFacts ==
  ASSUME NEW b \in Breakers, NEW now \in Nat, Allowed(b, now)
  PROVE  /\ AllowRequest(b, now) \in Breakers
         /\ AllowRequest(b, now).failures = b.failures
         /\ AllowRequest(b, now).mode # "OPEN"
         /\ (AllowRequest(b, now).mode = "CLOSED") <=> (b.mode = "CLOSED")
  BY DEF AllowRequest, Allowed, CooledDown, Breakers, Modes

-----------------------------------------------------------------------------
(***************************************************************************)
(* However an iteration is booked, the counts stay in agreement and the    *)
(* circuit is no longer half-open.                                         *)
(***************************************************************************)
LEMMA OutcomeFacts ==
  ASSUME BreakerInv, InCall, NEW class \in Classes, NEW cost \in Nat,
         Outcome(class, cost)
  PROVE  /\ metrics' \in Metrics
         /\ streak' \in Nat
         /\ breaker' \in Breakers
         /\ breaker'.mode # "HALF_OPEN"
         /\ breaker'.failures <= streak'
         /\ streak' <= MaxConsecutiveFailures
         /\ (breaker'.mode = "CLOSED") <=> (breaker'.failures < FailureThreshold)
<1>1. metrics' \in Metrics
  <2>1. /\ metrics \in Metrics /\ cost \in Nat
        /\ metrics.ok \in Nat /\ metrics.failed \in Nat /\ metrics.spend \in Nat
    BY DEF BreakerInv, TypeOK, Metrics
  <2>2. CASE class = "success"
    BY <2>1, <2>2 DEF Outcome, Metrics
  <2>3. CASE class # "success"
    BY <2>1, <2>3 DEF Outcome, Metrics
  <2> QED
    BY <2>2, <2>3
<1>2. /\ breaker \in Breakers /\ streak \in Nat /\ clock \in Nat
      /\ breaker.failures \in Nat
  BY DEF BreakerInv, TypeOK, Breakers
<1>3. /\ breaker.mode # "OPEN" /\ streak < MaxConsecutiveFailures
      /\ breaker.failures <= streak
      /\ (breaker.mode = "CLOSED") <=> (breaker.failures < FailureThreshold)
  BY DEF BreakerInv, CallsPassTheBreaker, RoomBeforeCall, InCall, FailureCountsAgree
<1>4. CASE class = "error"
  <2>1. breaker' = RecordFailure(breaker, clock) /\ streak' = streak + 1
    BY <1>4 DEF Outcome
  <2>2. /\ breaker' \in Breakers
        /\ breaker'.failures = breaker.failures + 1
        /\ breaker'.mode \in {"CLOSED", "OPEN"}
        /\ (breaker'.mode = "CLOSED") <=> (breaker'.failures < FailureThreshold)
    BY <1>2, <1>3, <2>1, RecordFailureFacts
  <2> QED
    BY <1>1, <1>2, <1>3, <2>1, <2>2, OrchestratorAssumption DEF OrchestratorAssumption
<1>5. CASE class # "error"
  <2>1. breaker' = RecordSuccess(breaker) /\ streak' \in {0, streak}
    BY <1>5 DEF Outcome, Classes
  <2>2. breaker' \in Breakers /\ breaker'.mode = "CLOSED" /\ breaker'.failures = 0
    BY <1>2, <2>1, RecordSuccessFacts
  <2> QED
    BY <1>1, <1>2, <1>3, <2>1, <2>2, OrchestratorAssumption DEF OrchestratorAssumption
<1> QED
  BY <1>4, <1>5

-----------------------------------------------------------------------------
(* The inductive invariant. *)

\* The breaker's invariant holds in the initial states.
LEMMA BreakerInvInit == Init => BreakerInv
<1> SUFFICES ASSUME Init PROVE BreakerInv
  OBVIOUS
<1>1. TypeOK
  BY NewBreakerFacts DEF Init, TypeOK, Locations, Metrics, ZeroMetrics
<1>2. MaxConsecutiveFailures \in Nat \ {0}
  BY OrchestratorAssumption DEF OrchestratorAssumption
<1> QED
  BY <1>1, <1>2, NewBreakerFacts
  DEF Init, BreakerInv, AttemptsAreBounded, RoomBeforeCall, CallsPassTheBreaker,
      HalfOpenOnlyDuringProbe, FailureCountsAgree, InCall, Running

(***************************************************************************)
(* Steps that leave the streak, the breaker and the attempts alone: those  *)
(* that stay where they are, those that leave the checks at the top, and   *)
(* those that go on towards a call, which need room for a failure.         *)
(***************************************************************************)
LEMMA QuietStep ==
  ASSUME BreakerInv, TypeOK', UNCHANGED <<streak, breaker, attempt>>,
         \/ pc' = pc
         \/ ~InCall /\ Running /\ pc' \in {"head", "resting", "ending"}
         \/ ~InCall /\ Running /\ pc' \in {"backoff", "ready"}
              /\ streak < MaxConsecutiveFailures
  PROVE  BreakerInv'
  BY DEF BreakerInv, AttemptsAreBounded, RoomBeforeCall, CallsPassTheBreaker,
         HalfOpenOnlyDuringProbe, FailureCountsAgree, InCall, Running

(***************************************************************************)
(* Booking an iteration, whichever way the call ended.                     *)
(***************************************************************************)
LEMMA BookingStep ==
  ASSUME BreakerInv, InCall, NEW class \in Classes, NEW cost \in Nat,
         Outcome(class, cost), LeaveCall,
         UNCHANGED <<shutdown, clock, pauseFile, iteration, dirty, disk, restarts>>
  PROVE  BreakerInv'
<1>1. TypeOK'
  BY OutcomeFacts DEF BreakerInv, TypeOK, LeaveCall, Locations
<1>2. pc' = "recorded"
  BY DEF LeaveCall
<1>3. FailureCountsAgree' /\ breaker'.mode # "HALF_OPEN"
  BY OutcomeFacts DEF FailureCountsAgree
<1> QED
  BY <1>1, <1>2, <1>3
  DEF BreakerInv, AttemptsAreBounded, RoomBeforeCall, CallsPassTheBreaker,
      HalfOpenOnlyDuringProbe, InCall

(***************************************************************************)
(* The end of a process, orderly or not, forgets the breaker.              *)
(***************************************************************************)
LEMMA EndingStep ==
  ASSUME BreakerInv, ProcessGone, disk' \in Metrics
  PROVE  BreakerInv'
<1>1. TypeOK'
  BY NewBreakerFacts
  DEF BreakerInv, TypeOK, ProcessGone, Locations, Metrics, ZeroMetrics
<1>2. MaxConsecutiveFailures \in Nat \ {0}
  BY OrchestratorAssumption DEF OrchestratorAssumption
<1> QED
  BY <1>1, <1>2, NewBreakerFacts
  DEF ProcessGone, BreakerInv, AttemptsAreBounded, RoomBeforeCall,
      CallsPassTheBreaker, HalfOpenOnlyDuringProbe, FailureCountsAgree, InCall,
      Running

(***************************************************************************)
(* Every deadline of a sleep is a natural number.                          *)
(***************************************************************************)
LEMMA SleepFacts ==
  ASSUME TypeOK, NEW where \in Locations, NEW duration \in Nat,
         SleepThen(where, duration)
  PROVE  pc' = where /\ wake' \in Nat
  BY OrchestratorAssumption DEF OrchestratorAssumption, SleepThen, Smaller, TypeOK

\* Every step keeps the breaker's invariant.
LEMMA BreakerInvStep == BreakerInv /\ [Next]_vars => BreakerInv'
<1> SUFFICES ASSUME BreakerInv, [Next]_vars PROVE BreakerInv'
  OBVIOUS
<1> USE DEF process, stored
<1>0. /\ TypeOK
      /\ Cooldown \in Nat /\ BackoffDelay \in Nat /\ SkipRest \in Nat
      /\ MaxConsecutiveFailures \in Nat \ {0}
  BY OrchestratorAssumption DEF BreakerInv, OrchestratorAssumption
<1>1. CASE LeaveLoop \/ StopAtRuntimeLimit \/ StopOverBudget \/ StopAtIterationLimit
  <2>1. TypeOK' /\ pc' = "ending" /\ pc = "head" /\ UNCHANGED <<streak, breaker, attempt>>
    BY <1>0, <1>1
    DEF TypeOK, Locations, LeaveLoop, StopAtRuntimeLimit, StopOverBudget,
        StopAtIterationLimit, TouchPauseFile, AtHead
  <2> QED
    BY <2>1, QuietStep DEF InCall, Running
<1>2. CASE RestWhilePaused
  <2>1. wake' \in Nat /\ pc' = "resting"
    BY <1>0, <1>2, SleepFacts DEF RestWhilePaused, Locations
  <2>2. TypeOK' /\ pc = "head" /\ UNCHANGED <<streak, breaker, attempt>>
    BY <1>0, <1>2, <2>1 DEF TypeOK, Locations, RestWhilePaused, MayGoOn, AtHead
  <2> QED
    BY <2>1, <2>2, QuietStep DEF InCall, Running
<1>3. CASE EmergencyPause
  <2>1. TypeOK' /\ UNCHANGED <<pc, streak, breaker, attempt>>
    BY <1>0, <1>3 DEF TypeOK, EmergencyPause, TouchPauseFile
  <2> QED
    BY <2>1, QuietStep
<1>4. CASE BackOff
  <2>1. wake' \in Nat /\ pc' = "backoff"
    BY <1>0, <1>4, SleepFacts DEF BackOff, Locations
  <2>2. /\ TypeOK' /\ pc = "head" /\ UNCHANGED <<streak, breaker, attempt>>
        /\ streak < MaxConsecutiveFailures
    BY <1>0, <1>4, <2>1 DEF TypeOK, Locations, BackOff, Unpaused, MayGoOn, AtHead
  <2> QED
    BY <2>1, <2>2, QuietStep DEF InCall, Running
<1>5. CASE Proceed
  <2>1. /\ TypeOK' /\ pc = "head" /\ pc' = "ready" /\ UNCHANGED <<streak, breaker, attempt>>
        /\ streak < MaxConsecutiveFailures
    BY <1>0, <1>5 DEF TypeOK, Locations, Proceed, Unpaused, MayGoOn, AtHead
  <2> QED
    BY <2>1, QuietStep DEF InCall, Running
<1>6. CASE EndBackoff
  <2>1. /\ TypeOK' /\ pc = "backoff" /\ pc' \in {"ending", "ready"}
        /\ UNCHANGED <<streak, breaker, attempt>>
    BY <1>0, <1>6 DEF TypeOK, Locations, EndBackoff
  <2>2. streak < MaxConsecutiveFailures
    BY <2>1 DEF BreakerInv, RoomBeforeCall
  <2> QED
    BY <2>1, <2>2, QuietStep DEF InCall, Running
<1>7. CASE EndRest
  <2>1. /\ TypeOK' /\ pc = "resting" /\ pc' = "head" /\ UNCHANGED <<streak, breaker, attempt>>
    BY <1>0, <1>7 DEF TypeOK, Locations, EndRest
  <2> QED
    BY <2>1, QuietStep DEF InCall, Running
<1>8. CASE BeginCall
  <2>1. breaker \in Breakers /\ clock \in Nat /\ Allowed(breaker, clock)
    BY <1>0, <1>8 DEF TypeOK, BeginCall
  <2>2. /\ breaker' \in Breakers /\ breaker'.mode # "OPEN"
        /\ breaker'.failures = breaker.failures
        /\ (breaker'.mode = "CLOSED") <=> (breaker.mode = "CLOSED")
    BY <1>8, <2>1, AllowRequestFacts DEF BeginCall
  <2>3. /\ pc = "ready" /\ pc' = "calling" /\ attempt' = 1 /\ streak' = streak
        /\ iteration' = iteration + 1
    BY <1>8 DEF BeginCall
  <2>4. TypeOK'
    BY <1>0, <1>8, <2>2, <2>3 DEF TypeOK, Locations, BeginCall
  <2>5. AttemptsAreBounded'
    BY <2>3, OrchestratorAssumption DEF AttemptsAreBounded, OrchestratorAssumption
  <2> QED
    BY <2>2, <2>3, <2>4, <2>5
    DEF BreakerInv, RoomBeforeCall, CallsPassTheBreaker, HalfOpenOnlyDuringProbe,
        FailureCountsAgree, InCall, Running
<1>9. CASE SkipCall
  <2>1. /\ pc = "ready" /\ pc' = "skipped" /\ streak' = streak + 1
        /\ UNCHANGED <<breaker, attempt>>
    BY <1>9 DEF SkipCall
  <2>2. TypeOK'
    BY <1>0, <1>9, <2>1 DEF TypeOK, Locations, SkipCall, Metrics
  <2>3. breaker.failures \in Nat /\ streak \in Nat /\ streak < MaxConsecutiveFailures
    BY <1>0, <2>1 DEF TypeOK, Breakers, BreakerInv, RoomBeforeCall
  <2> QED
    BY <1>0, <2>1, <2>2, <2>3
    DEF BreakerInv, AttemptsAreBounded, RoomBeforeCall, CallsPassTheBreaker,
        HalfOpenOnlyDuringProbe, FailureCountsAgree, InCall, Running
<1>10. ASSUME NEW class \in Classes, NEW cost \in Costs, GatewayAnswers(class, cost)
       PROVE  BreakerInv'
  <2>1. cost \in Nat
    BY OrchestratorAssumption DEF OrchestratorAssumption
  <2> QED
    BY <1>10, <2>1, BookingStep DEF GatewayAnswers, InCall
<1>11. CASE CallFails \/ AbandonRetry
  <2>1. "error" \in Classes
    BY DEF Classes
  <2> QED
    BY <1>11, <2>1, BookingStep DEF CallFails, AbandonRetry, BookException, InCall
<1>12. CASE RetryLater
  <2>1. /\ pc = "calling" /\ attempt \in 1 .. HttpRetryCount - 1
        /\ RetryDelays[attempt] \in Nat
    BY <1>12, OrchestratorAssumption
    DEF RetryLater, BreakerInv, AttemptsAreBounded, OrchestratorAssumption
  <2>2. wake' \in Nat /\ pc' = "retrying"
    BY <1>0, <1>12, <2>1, SleepFacts DEF RetryLater, Locations
  <2>3. TypeOK' /\ UNCHANGED <<streak, breaker, attempt>>
    BY <1>0, <1>12, <2>2 DEF TypeOK, Locations, RetryLater
  <2> QED
    BY <2>1, <2>2, <2>3
    DEF BreakerInv, AttemptsAreBounded, RoomBeforeCall, CallsPassTheBreaker,
        HalfOpenOnlyDuringProbe, FailureCountsAgree, InCall, Running
<1>13. CASE Retry
  <2>1. /\ pc = "retrying" /\ pc' = "calling" /\ attempt' = attempt + 1
        /\ UNCHANGED <<streak, breaker>>
        /\ attempt \in 1 .. HttpRetryCount - 1
    BY <1>13 DEF Retry, BreakerInv, AttemptsAreBounded
  <2>2. TypeOK'
    BY <1>0, <1>13, <2>1 DEF TypeOK, Locations, Retry
  <2>3. AttemptsAreBounded'
    BY <2>1, OrchestratorAssumption DEF AttemptsAreBounded, OrchestratorAssumption
  <2> QED
    BY <2>1, <2>2, <2>3
    DEF BreakerInv, RoomBeforeCall, CallsPassTheBreaker, HalfOpenOnlyDuringProbe,
        FailureCountsAgree, InCall, Running
<1>14. CASE EndIteration \/ EndSkip
  <2>1. /\ wake' \in Nat /\ pc' \in {"resting", "ending"}
        /\ pc \in {"recorded", "skipped"}
    BY <1>0, <1>14, SleepFacts DEF EndIteration, EndSkip, Locations, TypeOK
  <2>2. metrics' \in Metrics /\ dirty' \in BOOLEAN
    BY <1>0, <1>14 DEF EndIteration, EndSkip, WriteMetrics, TypeOK, Metrics
  <2>3. TypeOK' /\ UNCHANGED <<streak, breaker, attempt>>
    BY <1>0, <1>14, <2>1, <2>2 DEF TypeOK, Locations, EndIteration, EndSkip
  <2> QED
    BY <2>1, <2>3, QuietStep DEF InCall, Running
<1>15. CASE EndProcess \/ Crash
  <2>1. disk' \in Metrics /\ ProcessGone
    BY <1>0, <1>15 DEF EndProcess, Crash, TypeOK
  <2> QED
    BY <2>1, EndingStep
<1>16. CASE Signal \/ OperatorPauses \/ OperatorResumes
  <2>1. shutdown' \in BOOLEAN /\ pauseFile' \in BOOLEAN
    BY <1>0, <1>16 DEF TypeOK, Signal, OperatorPauses, OperatorResumes
  <2>2. TypeOK' /\ UNCHANGED <<pc, streak, breaker, attempt>>
    BY <1>0, <1>16, <2>1 DEF TypeOK, Signal, OperatorPauses, OperatorResumes
  <2> QED
    BY <2>2, QuietStep
<1>20. CASE Tick
  <2>1. TypeOK' /\ UNCHANGED <<pc, streak, breaker, attempt>>
    BY <1>0, <1>20 DEF TypeOK, Tick
  <2> QED
    BY <2>1, QuietStep
<1>19. CASE Flush
  <2>1. TypeOK' /\ UNCHANGED <<pc, streak, breaker, attempt>>
    BY <1>0, <1>19 DEF TypeOK, Flush
  <2> QED
    BY <2>1, QuietStep
<1>17. CASE Restart
  <2>1. TypeOK' /\ pc' = "head" /\ UNCHANGED <<streak, breaker, attempt>>
    BY <1>0, <1>17 DEF TypeOK, Locations, Metrics, Restart
  <2>2. pc = "down"
    BY <1>17 DEF Restart
  <2> QED
    BY <2>1, <2>2
    DEF BreakerInv, AttemptsAreBounded, RoomBeforeCall, CallsPassTheBreaker,
        HalfOpenOnlyDuringProbe, FailureCountsAgree, InCall, Running
<1>18. CASE UNCHANGED vars
  <2>1. TypeOK' /\ UNCHANGED <<pc, streak, breaker, attempt>>
    BY <1>0, <1>18 DEF vars, TypeOK
  <2> QED
    BY <2>1, QuietStep
<1> QED
  BY <1>1, <1>2, <1>3, <1>4, <1>5, <1>6, <1>7, <1>8, <1>9, <1>10, <1>11, <1>12,
     <1>13, <1>14, <1>15, <1>16, <1>17, <1>18, <1>19, <1>20
  DEF Next, MainThread, Environment, CallEnds

(***************************************************************************)
(* The loop keeps BreakerInv through every restart.                        *)
(***************************************************************************)
THEOREM BreakerInvariance == Spec => []BreakerInv
  BY BreakerInvInit, BreakerInvStep, PTL DEF Spec

(***************************************************************************)
(* Every variable of the loop keeps its type.                              *)
(***************************************************************************)
THEOREM TypeCorrect == Spec => []TypeOK
<1>1. BreakerInv => TypeOK
  BY DEF BreakerInv
<1> QED
  BY <1>1, BreakerInvariance, PTL

(***************************************************************************)
(* The probe of a half-open circuit always reports back.                   *)
(***************************************************************************)
THEOREM ProbeReportsBack == Spec => []HalfOpenOnlyDuringProbe
<1>1. BreakerInv => HalfOpenOnlyDuringProbe
  BY DEF BreakerInv
<1> QED
  BY <1>1, BreakerInvariance, PTL

(***************************************************************************)
(* The breaker's count and the loop's streak agree.                        *)
(***************************************************************************)
THEOREM CountsAgree == Spec => []FailureCountsAgree
<1>1. BreakerInv => FailureCountsAgree
  BY DEF BreakerInv
<1> QED
  BY <1>1, BreakerInvariance, PTL

-----------------------------------------------------------------------------
(***************************************************************************)
(* The books: the iteration under way is the only one without an outcome,  *)
(* total lags behind iteration until write_metrics, and what crashes with  *)
(* a torn copy on disk have added is at most one outcome per restart.      *)
(***************************************************************************)
Underway == IF InCall THEN 1 ELSE 0

Unwritten == IF pc \in {"calling", "retrying", "recorded", "skipped"} THEN 1 ELSE 0

BooksInv ==
  /\ TypeOK
  /\ Running => /\ metrics.total = iteration - Unwritten
                /\ Surplus(metrics) \in Unwritten - Underway .. restarts + Unwritten - Underway
  /\ ~Running => metrics = ZeroMetrics
  /\ Surplus(disk) \in 0 .. restarts + 1

(***************************************************************************)
(* A tally is what the published counters show: outcomes minus iterations. *)
(***************************************************************************)
LEMMA SurplusFacts ==
  ASSUME NEW m \in Metrics
  PROVE  /\ m.total \in Nat /\ m.ok \in Nat /\ m.failed \in Nat
         /\ Surplus(m) \in Int
         /\ Surplus(m) = m.ok + m.failed - m.total
  BY DEF Metrics, Surplus

\* The counters' invariant holds in the initial states.
LEMMA BooksInvInit == Init => BooksInv
<1> SUFFICES ASSUME Init PROVE BooksInv
  OBVIOUS
<1>1. TypeOK
  BY BreakerInvInit DEF BreakerInv
<1>2. /\ pc = "head" /\ iteration = 0 /\ restarts = 0
      /\ metrics = ZeroMetrics /\ disk = ZeroMetrics
  BY DEF Init
<1>3. metrics.total = 0 /\ Surplus(metrics) = 0 /\ Surplus(disk) = 0
  BY <1>2 DEF ZeroMetrics, Surplus
<1>4. Underway = 0 /\ Unwritten = 0 /\ Running
  BY <1>2 DEF Underway, Unwritten, InCall, Running
<1> QED
  BY <1>1, <1>2, <1>3, <1>4 DEF BooksInv

(***************************************************************************)
(* Steps that touch neither counters nor files and do not pass a booking.  *)
(***************************************************************************)
LEMMA QuietBooks ==
  ASSUME BooksInv, TypeOK', UNCHANGED <<iteration, metrics, disk, restarts>>,
         Running <=> Running', Unwritten' = Unwritten, Underway' = Underway
  PROVE  BooksInv'
  BY DEF BooksInv, Surplus

\* Every step keeps the counters' invariant.
LEMMA BooksInvStep ==
  BooksInv /\ TypeOK' /\ [Next]_vars => BooksInv'
<1> SUFFICES ASSUME BooksInv, TypeOK', [Next]_vars PROVE BooksInv'
  OBVIOUS
<1> USE DEF process, stored
<1>0. /\ metrics \in Metrics /\ disk \in Metrics /\ metrics' \in Metrics
      /\ iteration \in Nat /\ restarts \in Nat
  BY DEF BooksInv, TypeOK
<1>1. /\ metrics.total \in Nat /\ metrics.ok \in Nat /\ metrics.failed \in Nat
      /\ Surplus(metrics) = metrics.ok + metrics.failed - metrics.total
      /\ Surplus(disk) \in 0 .. restarts + 1
  BY <1>0, SurplusFacts DEF BooksInv
<1>2. Running => Surplus(metrics) \in 0 .. restarts + 1
  BY <1>0, <1>1 DEF BooksInv, Unwritten, Underway, InCall, Running
<1>3. CASE \/ LeaveLoop \/ StopAtRuntimeLimit \/ StopOverBudget \/ StopAtIterationLimit
           \/ RestWhilePaused \/ EmergencyPause \/ BackOff \/ Proceed
           \/ EndBackoff \/ EndRest
  <2>1. /\ UNCHANGED <<iteration, metrics, disk, restarts>>
        /\ pc \in {"head", "backoff", "resting"}
        /\ pc' \in {"head", "backoff", "resting", "ready", "ending"}
    BY <1>3
    DEF LeaveLoop, StopAtRuntimeLimit, StopOverBudget, StopAtIterationLimit,
        RestWhilePaused, EmergencyPause, BackOff, Proceed, EndBackoff, EndRest,
        Unpaused, MayGoOn, AtHead, SleepThen
  <2> QED
    BY <2>1, QuietBooks DEF Running, Unwritten, Underway, InCall
<1>4. CASE RetryLater \/ Retry
  <2>1. /\ UNCHANGED <<iteration, metrics, disk, restarts>>
        /\ pc \in {"calling", "retrying"} /\ pc' \in {"calling", "retrying"}
    BY <1>4 DEF RetryLater, Retry, SleepThen
  <2> QED
    BY <2>1, QuietBooks DEF Running, Unwritten, Underway, InCall
<1>5. CASE Signal \/ OperatorPauses \/ OperatorResumes \/ Tick \/ UNCHANGED vars
  <2>1. UNCHANGED <<pc, iteration, metrics, disk, restarts>>
    BY <1>5 DEF Signal, OperatorPauses, OperatorResumes, Tick, vars
  <2> QED
    BY <2>1, QuietBooks DEF Running, Unwritten, Underway, InCall
<1>6. CASE BeginCall
  <2>1. /\ pc = "ready" /\ pc' = "calling" /\ iteration' = iteration + 1
        /\ UNCHANGED <<metrics, disk, restarts>>
    BY <1>6 DEF BeginCall
  <2> QED
    BY <1>0, <1>1, <2>1
    DEF BooksInv, Running, Unwritten, Underway, InCall, Surplus
<1>7. CASE SkipCall
  <2>1. /\ pc = "ready" /\ pc' = "skipped" /\ iteration' = iteration + 1
        /\ metrics' = [metrics EXCEPT !.failed = @ + 1]
        /\ UNCHANGED <<disk, restarts>>
    BY <1>7 DEF SkipCall
  <2>2. /\ metrics'.total = metrics.total
        /\ Surplus(metrics') = Surplus(metrics) + 1
    BY <1>0, <1>1, <2>1 DEF Metrics, Surplus
  <2> QED
    BY <1>0, <1>1, <2>1, <2>2 DEF BooksInv, Running, Unwritten, Underway, InCall, Surplus
<1>8. CASE \/ \E class \in Classes, cost \in Costs : GatewayAnswers(class, cost)
           \/ CallFails \/ AbandonRetry
  <2>1. PICK class \in Classes, cost \in Costs \cup {0} :
          /\ Outcome(class, cost) /\ LeaveCall
          /\ UNCHANGED <<iteration, disk, restarts>>
          /\ pc \in {"calling", "retrying"}
    BY <1>8 DEF GatewayAnswers, CallFails, AbandonRetry, BookException, Classes
  <2>2. /\ metrics'.total = metrics.total
        /\ Surplus(metrics') = Surplus(metrics) + 1
    BY <1>0, <1>1, <2>1 DEF Outcome, Surplus
  <2>3. pc' = "recorded"
    BY <2>1 DEF LeaveCall
  <2> QED
    BY <1>0, <1>1, <2>1, <2>2, <2>3
    DEF BooksInv, Running, Unwritten, Underway, InCall, Surplus
<1>9. CASE EndIteration \/ EndSkip
  <2>1. /\ pc \in {"recorded", "skipped"} /\ pc' \in {"resting", "ending"}
        /\ metrics' = [metrics EXCEPT !.total = iteration]
        /\ UNCHANGED <<iteration, disk, restarts>>
    BY <1>9 DEF EndIteration, EndSkip, WriteMetrics, SleepThen
  <2>2. metrics.total = iteration - 1
    BY <2>1 DEF BooksInv, Running, Unwritten
  <2>3. /\ metrics'.total = iteration
        /\ Surplus(metrics') = Surplus(metrics) - 1
    BY <1>0, <1>1, <2>1, <2>2 DEF Metrics, Surplus
  <2> QED
    BY <1>0, <1>1, <2>1, <2>3 DEF BooksInv, Running, Unwritten, Underway, InCall, Surplus
<1>10. CASE EndProcess \/ Crash
  <2>1. /\ Running /\ disk' \in {metrics, disk} /\ ~Running'
        /\ metrics' = ZeroMetrics /\ UNCHANGED restarts
    BY <1>10 DEF EndProcess, Crash, ProcessGone, Running
  <2> QED
    BY <1>1, <1>2, <2>1 DEF BooksInv, Surplus
<1>11. CASE Flush
  <2>1. /\ Running /\ disk' \in {metrics, disk}
        /\ UNCHANGED <<pc, iteration, metrics, restarts>>
    BY <1>11 DEF Flush
  <2> QED
    BY <1>0, <1>1, <1>2, <2>1
    DEF BooksInv, Running, Unwritten, Underway, InCall, Surplus
<1>12. CASE Restart
  <2>1. /\ pc' = "head" /\ iteration' = disk.total /\ metrics' = disk
        /\ restarts' = restarts + 1 /\ disk' = disk
    BY <1>12 DEF Restart
  <2>2. disk.total \in Nat
    BY <1>0, SurplusFacts
  <2> QED
    BY <1>0, <1>1, <2>1, <2>2
    DEF BooksInv, Running, Unwritten, Underway, InCall, Surplus
<1> QED
  BY <1>3, <1>4, <1>5, <1>6, <1>7, <1>8, <1>9, <1>10, <1>11, <1>12
  DEF Next, MainThread, Environment, CallEnds

(***************************************************************************)
(* Every iteration is booked exactly once, crashes and torn copies aside,  *)
(* which add at most one outcome per process.                              *)
(***************************************************************************)
THEOREM BooksBalance == Spec => []OutcomesMatchIterations
<1>1. BooksInv => OutcomesMatchIterations
  <2> SUFFICES ASSUME BooksInv PROVE OutcomesMatchIterations
    OBVIOUS
  <2>1. restarts \in Nat /\ Surplus(ZeroMetrics) = 0
    BY DEF BooksInv, TypeOK, ZeroMetrics, Surplus
  <2>2. Surplus(metrics) \in 0 .. restarts + 1
    BY <2>1 DEF BooksInv, Unwritten, Underway, InCall, Running
  <2> QED
    BY <2>2 DEF BooksInv, OutcomesMatchIterations
<1>2. TypeOK /\ BooksInv /\ TypeOK' /\ [Next]_vars => BooksInv'
  BY BooksInvStep
<1> QED
  BY <1>1, <1>2, BooksInvInit, TypeCorrect, PTL DEF Spec

-----------------------------------------------------------------------------
(***************************************************************************)
(* Calls after the PAUSE file has appeared: the loop goes on towards one   *)
(* only from a check that found no file.                                   *)
(***************************************************************************)
PauseInv ==
  /\ pausedCalls \in {0, 1}
  /\ ~pauseFile \/ pc \in {"backoff", "ready"} => pausedCalls = 0

\* One call at most begins while the file is there, over crashes and restarts.
THEOREM PauseHolds == HSpec => []PauseIsRespected
<1>1. HInit => PauseInv
  BY DEF HInit, PauseInv
<1>2. ASSUME PauseInv, [HNext]_hvars
      PROVE  PauseInv'
  <2>1. CASE UNCHANGED hvars
    BY <1>2, <2>1 DEF PauseInv, hvars, vars
  <2>2. CASE HNext /\ Calling
    <3>1. pc = "ready" /\ pc' = "calling"
      BY <2>2 DEF Calling
    <3>2. pausedCalls' = IF pauseFile /\ pauseFile' THEN pausedCalls + 1 ELSE 0
      BY <2>2 DEF HNext, Counted
    <3>3. pausedCalls = 0
      BY <1>2, <3>1 DEF PauseInv
    <3> QED
      BY <3>1, <3>2, <3>3 DEF PauseInv
  <2>3. CASE HNext /\ ~Calling
    <3>1. pausedCalls' = IF pauseFile /\ pauseFile' THEN pausedCalls ELSE 0
      BY <2>3 DEF HNext, Counted
    <3>2. pauseFile /\ pc' \in {"backoff", "ready"} => pc \in {"backoff", "ready"}
      BY <2>3 DEF HNext, Next, MainThread, Environment, CallEnds, LeaveLoop,
           StopAtRuntimeLimit, StopOverBudget, StopAtIterationLimit,
           RestWhilePaused, EmergencyPause, BackOff, Proceed, Unpaused,
           EndBackoff, EndRest, BeginCall, SkipCall, GatewayAnswers, CallFails,
           BookException, LeaveCall, RetryLater, Retry, AbandonRetry,
           EndIteration, EndSkip, EndProcess, ProcessGone, SleepThen, Flush,
           Signal, OperatorPauses, OperatorResumes, Tick, Crash, Restart
    <3> QED
      BY <1>2, <3>1, <3>2 DEF PauseInv
  <2> QED
    BY <1>2, <2>1, <2>2, <2>3
<1>3. PauseInv => PauseIsRespected
  BY DEF PauseInv, PauseIsRespected
<1> QED
  BY <1>1, <1>2, <1>3, PTL DEF HSpec

(***************************************************************************)
(* Calls begun over the budget: the guard was mute when the loop last      *)
(* passed it, and between two calls the loop rests for a cooldown.  A rest *)
(* that the bound of the clock cuts short ends beyond the run time.        *)
(***************************************************************************)
Rested(time) == overBudget * Cooldown <= time

BudgetInv ==
  /\ overBudget \in Nat
  /\ OverspendIsBounded
  /\ Running /\ overBudget > 0 => metrics.spend > BudgetLimit
  /\ pc \in {"backoff", "ready"} /\ metrics.spend > BudgetLimit =>
       overBudget * Cooldown < MinBudgetTime
  /\ pc \in {"backoff", "ready", "skipped"} => Rested(clock)
  /\ pc \in {"calling", "retrying", "recorded"} => Rested(clock + Cooldown)
  /\ pc = "head" => shutdown \/ Rested(clock) \/ RuntimeUp
  /\ pc = "resting" => shutdown \/ Rested(wake) \/ wake >= TotalRuntime

\* A sleep from a time on, as the checks at its end see it.
LEMMA SleepLasts ==
  ASSUME TypeOK, NEW place, NEW d \in Nat, SleepThen(place, d)
  PROVE  wake' \in Nat /\ (wake' >= clock + d \/ wake' >= TotalRuntime)
  BY OrchestratorAssumption DEF OrchestratorAssumption, SleepThen, Smaller, TypeOK

\* The product of a count and a cooldown.
LEMMA Products ==
  ASSUME NEW n \in Nat
  PROVE  /\ n * Cooldown \in Nat
         /\ (n + 1) * Cooldown = n * Cooldown + Cooldown
         /\ 0 * Cooldown = 0
  BY OrchestratorAssumption DEF OrchestratorAssumption

\* Every step keeps it.
LEMMA BudgetStep ==
  ASSUME TypeOK, TypeOK', BudgetInv, [HNext]_hvars
  PROVE  BudgetInv'
<1> USE DEF Running
<1>0. /\ clock \in Nat /\ wake \in Nat /\ clock' \in Nat /\ wake' \in Nat
      /\ metrics.spend \in Nat /\ metrics'.spend \in Nat
      /\ BudgetLimit \in Nat /\ MinBudgetTime \in Nat /\ TotalRuntime \in Nat
      /\ Cooldown \in Nat \ {0} /\ SkipRest \in Nat /\ BackoffDelay \in Nat
      /\ shutdown \in BOOLEAN /\ shutdown' \in BOOLEAN
  BY OrchestratorAssumption DEF OrchestratorAssumption, TypeOK, Metrics
<1>1. /\ overBudget \in Nat /\ overBudget * Cooldown \in Nat
      /\ (overBudget + 1) * Cooldown = overBudget * Cooldown + Cooldown
      /\ 0 * Cooldown = 0
  BY Products DEF BudgetInv
<1>2. CASE UNCHANGED hvars
  BY <1>2 DEF BudgetInv, OverspendIsBounded, Rested, RuntimeUp, hvars, vars
<1>3. CASE HNext /\ ~Running
  <2>1. overBudget' = 0 /\ pc' \in {"down", "head"}
    BY <1>3 DEF HNext, Next, MainThread, Environment, CallEnds, LeaveLoop,
         StopAtRuntimeLimit, StopOverBudget, StopAtIterationLimit, RestWhilePaused,
         EmergencyPause, BackOff, Proceed, Unpaused, MayGoOn, AtHead, EndBackoff,
         EndRest, BeginCall, SkipCall, GatewayAnswers, CallFails, RetryLater,
         Retry, AbandonRetry, EndIteration, EndSkip, EndProcess, Flush, Signal,
         OperatorPauses, OperatorResumes, Tick, Crash, Restart
  <2>2. overBudget' * Cooldown = 0
    BY <1>1, <2>1
  <2>3. OverspendIsBounded' /\ Rested(clock)'
    BY <1>0, <2>2 DEF OverspendIsBounded, Rested
  <2> QED
    BY <2>1, <2>3 DEF BudgetInv
<1>4. CASE HNext /\ Running /\ Calling
  <2>1. /\ pc = "ready" /\ pc' = "calling"
        /\ UNCHANGED <<shutdown, clock, wake, metrics>>
    BY <1>4 DEF Calling, HNext, Next, MainThread, Environment, CallEnds, LeaveLoop,
         StopAtRuntimeLimit, StopOverBudget, StopAtIterationLimit, RestWhilePaused,
         EmergencyPause, BackOff, Proceed, Unpaused, MayGoOn, AtHead, EndBackoff,
         EndRest, BeginCall, SkipCall, GatewayAnswers, CallFails, RetryLater,
         Retry, AbandonRetry, EndIteration, EndSkip, EndProcess, Flush, Signal,
         OperatorPauses, OperatorResumes, Tick, Crash, Restart, ProcessGone, stored
  <2>2. CASE metrics.spend > BudgetLimit
    <3>1. overBudget' = overBudget + 1
      BY <1>4, <2>2 DEF HNext, Counted
    <3>2. overBudget * Cooldown < MinBudgetTime /\ overBudget * Cooldown <= clock
      BY <2>1, <2>2 DEF BudgetInv, Rested
    <3>3. /\ overBudget' * Cooldown < MinBudgetTime + Cooldown
          /\ overBudget' * Cooldown <= clock + Cooldown
      BY <1>0, <1>1, <3>1, <3>2
    <3> QED
      BY <1>1, <2>1, <2>2, <3>1, <3>3 DEF BudgetInv, OverspendIsBounded, Rested
  <2>3. CASE ~(metrics.spend > BudgetLimit)
    <3>1. overBudget' = overBudget
      BY <1>4, <2>3 DEF HNext
    <3> QED
      BY <1>0, <1>1, <2>1, <3>1 DEF BudgetInv, OverspendIsBounded, Rested
  <2> QED
    BY <2>2, <2>3
<1>5. CASE HNext /\ Running /\ ~Calling
  <2>0. overBudget' = overBudget
    BY <1>5 DEF HNext, Counted
  <2>1. ASSUME pc' = pc, clock' >= clock, shutdown => shutdown',
               UNCHANGED <<wake, metrics>>
        PROVE  BudgetInv'
    <3>1. RuntimeUp => RuntimeUp'
      BY <1>0, <2>1 DEF RuntimeUp
    <3>2. PICK p \in Nat : p = overBudget * Cooldown /\ p = overBudget' * Cooldown
      BY <1>1, <2>0
    <3>4. /\ Rested(clock) => Rested(clock)'
          /\ Rested(clock + Cooldown) => Rested(clock + Cooldown)'
          /\ Rested(wake) => Rested(wake)'
      BY <1>0, <2>1, <3>2 DEF Rested
    <3>3. OverspendIsBounded'
      BY <2>0 DEF BudgetInv, OverspendIsBounded
    <3> QED
      BY <2>0, <2>1, <3>1, <3>3, <3>4 DEF BudgetInv
  <2>2. ASSUME pc' \in {"ending", "down"}, pc' = "down" \/ UNCHANGED metrics
        PROVE  BudgetInv'
    BY <1>5, <2>0, <2>2 DEF BudgetInv, OverspendIsBounded
  <2>3. CASE Flush \/ Signal \/ OperatorPauses \/ OperatorResumes \/ Tick \/ EmergencyPause
    BY <1>0, <2>1, <2>3 DEF Flush, Signal, OperatorPauses, OperatorResumes, Tick,
         EmergencyPause, stored
  <2>4. CASE \/ LeaveLoop \/ StopAtRuntimeLimit \/ StopOverBudget
             \/ StopAtIterationLimit \/ EndProcess \/ Crash
    BY <2>2, <2>4 DEF LeaveLoop, StopAtRuntimeLimit, StopOverBudget,
         StopAtIterationLimit, EndProcess, Crash, ProcessGone, stored
  <2>5. CASE RestWhilePaused
    <3>1. /\ pc = "head" /\ ~shutdown /\ ~RuntimeUp /\ pc' = "resting"
          /\ UNCHANGED <<metrics, clock>> /\ SleepThen("resting", Cooldown)
      BY <2>5 DEF RestWhilePaused, MayGoOn, AtHead, SleepThen, stored
    <3>2. wake' >= clock + Cooldown \/ wake' >= TotalRuntime
      BY <1>0, <3>1, SleepLasts
    <3> QED
      BY <1>0, <1>1, <2>0, <3>1, <3>2 DEF BudgetInv, OverspendIsBounded, Rested
  <2>6. CASE BackOff \/ Proceed
    <3>1. /\ pc = "head" /\ ~shutdown /\ ~RuntimeUp /\ ~BudgetExceeded
          /\ pc' \in {"backoff", "ready"} /\ UNCHANGED <<metrics, clock>>
      BY <2>6 DEF BackOff, Proceed, Unpaused, MayGoOn, AtHead, SleepThen, stored
    <3>2. metrics.spend > BudgetLimit => clock < MinBudgetTime
      BY <1>0, <3>1 DEF BudgetExceeded
    <3> QED
      BY <1>0, <1>1, <2>0, <3>1, <3>2 DEF BudgetInv, OverspendIsBounded, Rested
  <2>7. CASE EndBackoff
    <3>1. /\ pc = "backoff" /\ pc' \in {"ending", "ready"}
          /\ UNCHANGED <<metrics, clock>>
      BY <2>7 DEF EndBackoff, stored
    <3> QED
      BY <1>0, <1>1, <2>0, <3>1 DEF BudgetInv, OverspendIsBounded, Rested
  <2>8. CASE EndRest
    <3>1. /\ pc = "resting" /\ pc' = "head" /\ (clock >= wake \/ shutdown)
          /\ UNCHANGED <<metrics, clock, shutdown>>
      BY <2>8 DEF EndRest, SleepOver, stored
    <3> QED
      BY <1>0, <1>1, <2>0, <3>1 DEF BudgetInv, OverspendIsBounded, Rested, RuntimeUp
  <2>9. CASE SkipCall
    <3>1. /\ pc = "ready" /\ pc' = "skipped" /\ UNCHANGED clock
          /\ metrics'.spend = metrics.spend
      BY <2>9 DEF SkipCall, TypeOK, Metrics
    <3> QED
      BY <1>0, <1>1, <2>0, <3>1 DEF BudgetInv, OverspendIsBounded, Rested
  <2>10. CASE CallEnds \/ Retry \/ AbandonRetry
    <3>1. /\ pc \in {"calling", "retrying"}
          /\ pc' \in {"calling", "retrying", "recorded"} /\ UNCHANGED clock
          /\ metrics'.spend >= metrics.spend
      <4>1. CASE RetryLater \/ Retry
        BY <1>0, <4>1 DEF RetryLater, Retry, SleepThen, stored
      <4>2. CASE CallFails \/ AbandonRetry
        BY <1>0, <4>2 DEF CallFails, AbandonRetry, BookException, Outcome, LeaveCall
      <4>3. ASSUME NEW class \in Classes, NEW cost \in Costs,
                   GatewayAnswers(class, cost)
            PROVE  <3>1
        <5>1. cost \in Nat
          BY OrchestratorAssumption DEF OrchestratorAssumption
        <5> QED
          BY <1>0, <4>3, <5>1 DEF GatewayAnswers, Outcome, LeaveCall
      <4> QED
        BY <2>10, <4>1, <4>2, <4>3 DEF CallEnds
    <3> QED
      BY <1>0, <1>1, <2>0, <3>1 DEF BudgetInv, OverspendIsBounded, Rested
  <2>11. CASE EndIteration \/ EndSkip
    <3>1. /\ metrics'.spend = metrics.spend /\ UNCHANGED <<clock, shutdown>>
          /\ \/ pc = "recorded" /\ SleepThen("resting", Cooldown)
             \/ pc = "skipped" /\ SleepThen("resting", SkipRest)
             \/ pc = "recorded" /\ pc' = "ending"
      BY <2>11 DEF EndIteration, EndSkip, WriteMetrics, TypeOK, Metrics
    <3>2. CASE pc' = "ending"
      BY <1>0, <1>1, <2>0, <3>1, <3>2 DEF BudgetInv, OverspendIsBounded, Rested
    <3>3. CASE pc = "recorded" /\ SleepThen("resting", Cooldown)
      <4>1. wake' >= clock + Cooldown \/ wake' >= TotalRuntime
        BY <1>0, <3>3, SleepLasts
      <4>2. pc' = "resting"
        BY <3>3 DEF SleepThen
      <4> QED
        BY <1>0, <1>1, <2>0, <3>1, <3>3, <4>1, <4>2 DEF BudgetInv, OverspendIsBounded, Rested
    <3>4. CASE pc = "skipped" /\ SleepThen("resting", SkipRest)
      <4>1. wake' >= clock + SkipRest \/ wake' >= TotalRuntime
        BY <1>0, <3>4, SleepLasts
      <4>2. pc' = "resting"
        BY <3>4 DEF SleepThen
      <4> QED
        BY <1>0, <1>1, <2>0, <3>1, <3>4, <4>1, <4>2 DEF BudgetInv, OverspendIsBounded, Rested
    <3> QED
      BY <3>1, <3>2, <3>3, <3>4
  <2>12. ~BeginCall /\ ~Restart
    BY <1>5 DEF BeginCall, Calling, Restart
  <2> QED
    BY <1>5, <2>3, <2>4, <2>5, <2>6, <2>7, <2>8, <2>9, <2>10, <2>11, <2>12
    DEF HNext, Next, MainThread, Environment
<1> QED
  BY <1>2, <1>3, <1>4, <1>5

\* A process begins only as many calls over its budget as fit the mute window.
THEOREM OverspendHolds == HSpec => []OverspendIsBounded
<1>1. HInit => BudgetInv
  <2> SUFFICES ASSUME HInit PROVE BudgetInv
    OBVIOUS
  <2>1. /\ overBudget = 0 /\ pc = "head" /\ clock = 0
        /\ MinBudgetTime \in Nat /\ Cooldown \in Nat \ {0} /\ 0 * Cooldown = 0
    BY Products, OrchestratorAssumption DEF HInit, Init, OrchestratorAssumption
  <2> QED
    BY <2>1 DEF BudgetInv, OverspendIsBounded, Rested
<1>2. BudgetInv => OverspendIsBounded
  BY DEF BudgetInv
<1>3. HSpec => Spec
  <2>1. HInit => Init
    BY DEF HInit
  <2>2. [HNext]_hvars => [Next]_vars
    BY DEF HNext, hvars
  <2> QED
    BY <2>1, <2>2, PTL DEF HSpec, Spec
<1>4. TypeOK /\ TypeOK' /\ BudgetInv /\ [HNext]_hvars => BudgetInv'
  BY BudgetStep
<1> QED
  BY <1>1, <1>2, <1>3, <1>4, TypeCorrect, PTL DEF HSpec

-----------------------------------------------------------------------------
(***************************************************************************)
(* A shutdown.  From wherever the main thread is when the signal is        *)
(* handled, it is at most six of its own steps from the end, none of which *)
(* waits for the clock: sleeps are interrupted, a retry is abandoned, the  *)
(* top of the loop is left, and what was counted is written.               *)
(***************************************************************************)
Ordered(location) == shutdown /\ pc = location

ShutdownEnds == Running /\ shutdown ~> ~Running

\* The prover does not look into ENABLED: that the main thread is never
\* blocked during a shutdown is taken as a hypothesis, which TLC checks.
NeverBlocked == Running /\ shutdown => ENABLED <<MainThread>>_vars

\* Whatever happens around it, the main thread stays there or is gone.
LEMMA OthersWait ==
  ASSUME NEW location \in Locations \ {"down"}, Ordered(location), Environment \/ UNCHANGED vars
  PROVE  Ordered(location)' \/ ~Running'
  BY DEF Ordered, Environment, Flush, Signal, OperatorPauses, OperatorResumes, Tick, Crash,
         ProcessGone, Restart, Running, vars, Locations

\* Its own step takes it one location further.
LEMMA MainGoesOn ==
  ASSUME MainThread, shutdown
  PROVE  /\ pc = "head" => Ordered("ending")'
         /\ pc = "resting" => Ordered("head")'
         /\ pc = "backoff" => Ordered("ending")'
         /\ pc = "ready" => Ordered("calling")' \/ Ordered("skipped")'
         /\ pc = "calling" => Ordered("recorded")' \/ Ordered("retrying")'
         /\ pc = "retrying" => Ordered("recorded")'
         /\ pc = "recorded" => Ordered("ending")'
         /\ pc = "skipped" => Ordered("resting")'
         /\ pc = "ending" => ~Running'
  BY DEF MainThread, CallEnds, LeaveLoop, StopAtRuntimeLimit, StopOverBudget,
         StopAtIterationLimit, RestWhilePaused, EmergencyPause, BackOff, Proceed, EndBackoff,
         EndRest, BeginCall, SkipCall, GatewayAnswers, CallFails, RetryLater, Retry,
         AbandonRetry, BookException, LeaveCall, EndIteration, EndSkip, EndProcess,
         ProcessGone, AtHead, MayGoOn, Unpaused, SleepThen, Running, Ordered

(***************************************************************************)
(* SIGTERM and SIGINT end every process, if its main thread is scheduled   *)
(* and never blocked: time need not pass, and no answer need come that is  *)
(* not the end of the request under way.                                   *)
(***************************************************************************)
THEOREM SignalsEndProcesses == FairSpec /\ []NeverBlocked => ShutdownEnds
<1>1. TypeOK => (Running /\ shutdown =>
        \/ Ordered("head") \/ Ordered("resting") \/ Ordered("backoff") \/ Ordered("ready")
        \/ Ordered("calling") \/ Ordered("retrying") \/ Ordered("recorded")
        \/ Ordered("skipped") \/ Ordered("ending"))
  BY DEF TypeOK, Locations, Running, Ordered
<1>2. (\/ Ordered("head") \/ Ordered("resting") \/ Ordered("backoff") \/ Ordered("ready")
       \/ Ordered("calling") \/ Ordered("retrying") \/ Ordered("recorded")
       \/ Ordered("skipped") \/ Ordered("ending")) => Running /\ shutdown
  BY DEF Running, Ordered
<1>3. FairSpec /\ []NeverBlocked => (Ordered("ending") ~> ~Running)
  <2>1. /\ Ordered("ending") /\ [Next]_vars => Ordered("ending")' \/ ~Running'
        /\ Ordered("ending") /\ <<MainThread>>_vars => ~Running'
    BY OthersWait, MainGoesOn DEF Next, Ordered, Locations
  <2> QED
    BY <1>2, <2>1, PTL DEF FairSpec, Spec, NeverBlocked
<1>4. FairSpec /\ []NeverBlocked => (Ordered("head") ~> ~Running)
  <2>1. /\ Ordered("head") /\ [Next]_vars => Ordered("head")' \/ Ordered("ending")' \/ ~Running'
        /\ Ordered("head") /\ <<MainThread>>_vars => Ordered("ending")' \/ ~Running'
    BY OthersWait, MainGoesOn DEF Next, Ordered, Locations
  <2> QED
    BY <1>2, <2>1, <1>3, PTL DEF FairSpec, Spec, NeverBlocked
<1>5. FairSpec /\ []NeverBlocked => (Ordered("backoff") ~> ~Running)
  <2>1. /\ Ordered("backoff") /\ [Next]_vars => Ordered("backoff")' \/ Ordered("ending")' \/ ~Running'
        /\ Ordered("backoff") /\ <<MainThread>>_vars => Ordered("ending")' \/ ~Running'
    BY OthersWait, MainGoesOn DEF Next, Ordered, Locations
  <2> QED
    BY <1>2, <2>1, <1>3, PTL DEF FairSpec, Spec, NeverBlocked
<1>6. FairSpec /\ []NeverBlocked => (Ordered("recorded") ~> ~Running)
  <2>1. /\ Ordered("recorded") /\ [Next]_vars => Ordered("recorded")' \/ Ordered("ending")' \/ ~Running'
        /\ Ordered("recorded") /\ <<MainThread>>_vars => Ordered("ending")' \/ ~Running'
    BY OthersWait, MainGoesOn DEF Next, Ordered, Locations
  <2> QED
    BY <1>2, <2>1, <1>3, PTL DEF FairSpec, Spec, NeverBlocked
<1>7. FairSpec /\ []NeverBlocked => (Ordered("resting") ~> ~Running)
  <2>1. /\ Ordered("resting") /\ [Next]_vars => Ordered("resting")' \/ Ordered("head")' \/ ~Running'
        /\ Ordered("resting") /\ <<MainThread>>_vars => Ordered("head")' \/ ~Running'
    BY OthersWait, MainGoesOn DEF Next, Ordered, Locations
  <2> QED
    BY <1>2, <2>1, <1>4, PTL DEF FairSpec, Spec, NeverBlocked
<1>8. FairSpec /\ []NeverBlocked => (Ordered("skipped") ~> ~Running)
  <2>1. /\ Ordered("skipped") /\ [Next]_vars => Ordered("skipped")' \/ Ordered("resting")' \/ ~Running'
        /\ Ordered("skipped") /\ <<MainThread>>_vars => Ordered("resting")' \/ ~Running'
    BY OthersWait, MainGoesOn DEF Next, Ordered, Locations
  <2> QED
    BY <1>2, <2>1, <1>7, PTL DEF FairSpec, Spec, NeverBlocked
<1>9. FairSpec /\ []NeverBlocked => (Ordered("retrying") ~> ~Running)
  <2>1. /\ Ordered("retrying") /\ [Next]_vars => Ordered("retrying")' \/ Ordered("recorded")' \/ ~Running'
        /\ Ordered("retrying") /\ <<MainThread>>_vars => Ordered("recorded")' \/ ~Running'
    BY OthersWait, MainGoesOn DEF Next, Ordered, Locations
  <2> QED
    BY <1>2, <2>1, <1>6, PTL DEF FairSpec, Spec, NeverBlocked
<1>10. FairSpec /\ []NeverBlocked => (Ordered("calling") ~> ~Running)
  <2>1. /\ Ordered("calling") /\ [Next]_vars => Ordered("calling")' \/ Ordered("recorded")' \/ Ordered("retrying")' \/ ~Running'
        /\ Ordered("calling") /\ <<MainThread>>_vars => Ordered("recorded")' \/ Ordered("retrying")' \/ ~Running'
    BY OthersWait, MainGoesOn DEF Next, Ordered, Locations
  <2> QED
    BY <1>2, <2>1, <1>6, <1>9, PTL DEF FairSpec, Spec, NeverBlocked
<1>11. FairSpec /\ []NeverBlocked => (Ordered("ready") ~> ~Running)
  <2>1. /\ Ordered("ready") /\ [Next]_vars => Ordered("ready")' \/ Ordered("calling")' \/ Ordered("skipped")' \/ ~Running'
        /\ Ordered("ready") /\ <<MainThread>>_vars => Ordered("calling")' \/ Ordered("skipped")' \/ ~Running'
    BY OthersWait, MainGoesOn DEF Next, Ordered, Locations
  <2> QED
    BY <1>2, <2>1, <1>10, <1>8, PTL DEF FairSpec, Spec, NeverBlocked
<1> QED
  BY <1>1, <1>3, <1>4, <1>5, <1>6, <1>7, <1>8, <1>9, <1>10, <1>11, TypeCorrect, PTL
     DEF FairSpec, ShutdownEnds
=============================================================================
