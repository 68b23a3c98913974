------------------------ MODULE OrchestratorRefinement ------------------------
(***************************************************************************)
(* The loop implements GatewayGuard, for every value of the constants:     *)
(* BreakerInv gives the abstract guards, since a call under way has passed *)
(* the breaker and a half-open circuit has a call under way.  And it takes *)
(* metrics.json for a register, as MetricsFile has it.                     *)
(***************************************************************************)
EXTENDS OrchestratorProofs

USE BreakerAssumption DEF BreakerAssumption

GuardStep == [Guard!Next]_Guard!vars

(***************************************************************************)
(* Where the breaker, the clock and the call stand still, so does the      *)
(* abstract guard.                                                         *)
(***************************************************************************)
LEMMA GuardStutters ==
  ASSUME UNCHANGED <<breaker, clock>>, InCall' <=> InCall, InCall \in BOOLEAN,
         InCall' \in BOOLEAN
  PROVE  GuardStep
<1>1. InCall' = InCall
  OBVIOUS
<1> QED
  BY <1>1 DEF GuardStep, Guard!vars

(***************************************************************************)
(* A call begins through a closed circuit, or probes an open one.          *)
(***************************************************************************)
LEMMA GuardBegins ==
  ASSUME BreakerInv, BeginCall
  PROVE  GuardStep
<1>1. /\ breaker \in Breakers /\ clock \in Nat /\ Allowed(breaker, clock)
      /\ breaker' = AllowRequest(breaker, clock) /\ clock' = clock
      /\ pc = "ready" /\ pc' = "calling"
  BY DEF BeginCall, BreakerInv, TypeOK
<1>2. InCall = FALSE /\ InCall' = TRUE
  BY <1>1 DEF InCall
<1>3. /\ breaker.mode \in {"CLOSED", "OPEN"}
      /\ breaker.openSince \in Nat /\ breaker.cooldown \in Nat
  BY <1>1, <1>2 DEF BreakerInv, HalfOpenOnlyDuringProbe, Breakers, Modes
<1>4. CASE breaker.mode = "CLOSED"
  <2>1. breaker' = breaker
    BY <1>1, <1>4 DEF AllowRequest
  <2>2. Guard!Call
    BY <1>1, <1>2, <1>4, <2>1 DEF Guard!Call
  <2> QED
    BY <2>2 DEF GuardStep, Guard!Next
<1>5. CASE breaker.mode = "OPEN"
  <2>1. CooledDown(breaker, clock)
    BY <1>1, <1>5 DEF Allowed
  <2>2. clock >= breaker.openSince + breaker.cooldown
    BY <1>1, <1>3, <2>1 DEF CooledDown
  <2>3. /\ breaker'.mode = "HALF_OPEN"
        /\ breaker'.failures = breaker.failures
        /\ breaker'.cooldown = breaker.cooldown
    BY <1>1, <1>5, <2>1 DEF AllowRequest, Breakers
  <2>4. Guard!Probe
    BY <1>1, <1>2, <1>5, <2>2, <2>3 DEF Guard!Probe
  <2> QED
    BY <2>4 DEF GuardStep, Guard!Next
<1> QED
  BY <1>3, <1>4, <1>5

(***************************************************************************)
(* However a call ends, it is reported once, as a success or as the        *)
(* failure that the mode and the count call for.                           *)
(***************************************************************************)
LEMMA GuardEnds ==
  ASSUME BreakerInv, InCall, NEW class \in Classes, NEW cost \in Nat,
         Outcome(class, cost), LeaveCall, UNCHANGED clock
  PROVE  GuardStep
<1>1. /\ breaker \in Breakers /\ clock \in Nat
      /\ breaker.failures \in Nat /\ breaker.cooldown \in Nat
      /\ breaker.openSince \in Nat
  BY DEF BreakerInv, TypeOK, Breakers
<1>2. InCall = TRUE /\ InCall' = FALSE
  BY DEF InCall, LeaveCall
<1>3. /\ breaker.mode \in {"CLOSED", "HALF_OPEN"}
      /\ (breaker.mode = "CLOSED") <=> (breaker.failures < FailureThreshold)
  BY <1>1 DEF BreakerInv, CallsPassTheBreaker, FailureCountsAgree, Breakers, Modes
<1>4. CASE class # "error"
  <2>1. breaker' = RecordSuccess(breaker)
    BY <1>4 DEF Outcome
  <2>2. /\ breaker'.mode = "CLOSED" /\ breaker'.failures = 0
        /\ breaker'.cooldown = OpenDuration
    BY <1>1, <2>1 DEF RecordSuccess, Breakers
  <2>3. Guard!Succeed
    BY <1>2, <1>3, <2>2 DEF Guard!Succeed
  <2> QED
    BY <2>3 DEF GuardStep, Guard!Next
<1>5. CASE class = "error" /\ breaker.mode = "HALF_OPEN"
  <2>1. breaker' = Reopened(breaker, clock)
    BY <1>5 DEF Outcome, RecordFailure
  <2>2. /\ breaker'.mode = "OPEN" /\ breaker'.failures = breaker.failures + 1
        /\ breaker'.openSince = clock
        /\ breaker'.cooldown = IF 2 * breaker.cooldown < MaxOpenDuration
                                 THEN 2 * breaker.cooldown ELSE MaxOpenDuration
    BY <1>1, <2>1 DEF Reopened, Smaller
  <2>3. Guard!ProbeFails
    BY <1>2, <1>5, <2>2 DEF Guard!ProbeFails
  <2> QED
    BY <2>3 DEF GuardStep, Guard!Next
<1>6. CASE /\ class = "error" /\ breaker.mode = "CLOSED"
           /\ breaker.failures + 1 = FailureThreshold
  <2>1. breaker' = Tripped(breaker, clock)
    BY <1>1, <1>6 DEF Outcome, RecordFailure
  <2>2. /\ breaker'.mode = "OPEN" /\ breaker'.failures = breaker.failures + 1
        /\ breaker'.openSince = clock /\ breaker'.cooldown = breaker.cooldown
    BY <2>1 DEF Tripped
  <2>3. Guard!Trip
    BY <1>2, <1>6, <2>2 DEF Guard!Trip
  <2> QED
    BY <2>3 DEF GuardStep, Guard!Next
<1>7. CASE /\ class = "error" /\ breaker.mode = "CLOSED"
           /\ breaker.failures + 1 < FailureThreshold
  <2>1. breaker' = [breaker EXCEPT !.failures = @ + 1]
    BY <1>1, <1>7 DEF Outcome, RecordFailure
  <2>2. /\ breaker'.mode = "CLOSED" /\ breaker'.failures = breaker.failures + 1
        /\ breaker'.cooldown = breaker.cooldown
    BY <1>1, <1>7, <2>1 DEF Breakers
  <2>3. Guard!FailClosed
    BY <1>2, <1>7, <2>2 DEF Guard!FailClosed
  <2> QED
    BY <2>3 DEF GuardStep, Guard!Next
<1> QED
  BY <1>1, <1>3, <1>4, <1>5, <1>6, <1>7

(***************************************************************************)
(* A process that ends takes the breaker with it.                          *)
(***************************************************************************)
LEMMA GuardForgets ==
  ASSUME ProcessGone
  PROVE  GuardStep
<1>1. InCall' = FALSE /\ clock' = 0 /\ breaker' = NewBreaker
  BY DEF ProcessGone, InCall
<1>2. Guard!Forget
  BY <1>1 DEF Guard!Forget, NewBreaker
<1> QED
  BY <1>2 DEF GuardStep, Guard!Next

\* Every step of the loop is a step of the guard, or none.
LEMMA GuardSteps == BreakerInv /\ [Next]_vars => GuardStep
<1> SUFFICES ASSUME BreakerInv, [Next]_vars PROVE GuardStep
  OBVIOUS
<1> USE DEF process, stored
<1>0. InCall \in BOOLEAN /\ InCall' \in BOOLEAN
  BY DEF InCall
<1>1. CASE \/ LeaveLoop \/ StopAtRuntimeLimit \/ StopOverBudget \/ StopAtIterationLimit
           \/ RestWhilePaused \/ EmergencyPause \/ BackOff \/ Proceed
           \/ EndBackoff \/ EndRest
  <2>1. /\ UNCHANGED <<breaker, clock>>
        /\ pc \in {"head", "backoff", "resting"}
        /\ pc' \in {"head", "backoff", "resting", "ready", "ending"}
    BY <1>1
    DEF LeaveLoop, StopAtRuntimeLimit, StopOverBudget, StopAtIterationLimit,
        RestWhilePaused, EmergencyPause, BackOff, Proceed, EndBackoff, EndRest,
        Unpaused, MayGoOn, AtHead, SleepThen
  <2> QED
    BY <1>0, <2>1, GuardStutters DEF InCall
<1>2. CASE BeginCall
  BY <1>2, GuardBegins
<1>3. CASE SkipCall \/ EndIteration \/ EndSkip
  <2>1. /\ UNCHANGED <<breaker, clock>>
        /\ pc \in {"ready", "recorded", "skipped"}
        /\ pc' \in {"skipped", "ending", "resting"}
    BY <1>3 DEF SkipCall, EndIteration, EndSkip, SleepThen
  <2> QED
    BY <1>0, <2>1, GuardStutters DEF InCall
<1>4. CASE RetryLater \/ Retry
  <2>1. /\ UNCHANGED <<breaker, clock>>
        /\ pc \in {"calling", "retrying"} /\ pc' \in {"calling", "retrying"}
    BY <1>4 DEF RetryLater, Retry, SleepThen
  <2> QED
    BY <1>0, <2>1, GuardStutters DEF InCall
<1>5. CASE \/ \E class \in Classes, cost \in Costs : GatewayAnswers(class, cost)
           \/ CallFails \/ AbandonRetry
  <2>1. PICK class \in Classes, cost \in Costs \cup {0} :
          Outcome(class, cost) /\ LeaveCall /\ UNCHANGED clock /\ InCall
    BY <1>5 DEF GatewayAnswers, CallFails, AbandonRetry, BookException, Classes, InCall
  <2>2. cost \in Nat
    BY OrchestratorAssumption DEF OrchestratorAssumption
  <2> QED
    BY <2>1, <2>2, GuardEnds
<1>6. CASE EndProcess \/ Crash
  BY <1>6, GuardForgets DEF EndProcess, Crash
<1>7. CASE Flush \/ Signal \/ OperatorPauses \/ OperatorResumes \/ UNCHANGED vars
  <2>1. UNCHANGED <<pc, breaker, clock>>
    BY <1>7 DEF Flush, Signal, OperatorPauses, OperatorResumes, vars
  <2> QED
    BY <1>0, <2>1, GuardStutters DEF InCall
<1>8. CASE Restart
  <2>1. UNCHANGED <<breaker, clock>> /\ pc = "down" /\ pc' = "head"
    BY <1>8 DEF Restart
  <2> QED
    BY <1>0, <2>1, GuardStutters DEF InCall
<1>9. CASE Tick
  <2>1. clock' = clock + 1 /\ UNCHANGED <<pc, breaker>>
    BY <1>9 DEF Tick
  <2>2. InCall' = InCall
    BY <2>1 DEF InCall
  <2>3. Guard!Tick
    BY <2>1, <2>2 DEF Guard!Tick
  <2> QED
    BY <2>3 DEF GuardStep, Guard!Next
<1> QED
  BY <1>1, <1>2, <1>3, <1>4, <1>5, <1>6, <1>7, <1>8, <1>9
  DEF Next, MainThread, Environment, CallEnds

(***************************************************************************)
(* The loop with its retries, exceptions, shutdowns and restarts calls the *)
(* gateway only as the contract of the circuit breaker allows.             *)
(***************************************************************************)
THEOREM LoopIsGuarded == Spec => GatewayGuarded
<1>1. Init => Guard!Init
  <2> SUFFICES ASSUME Init PROVE Guard!Init
    OBVIOUS
  <2>1. pc = "head" /\ breaker = NewBreaker /\ clock = 0
    BY DEF Init
  <2>2. InCall = FALSE
    BY <2>1 DEF InCall
  <2> QED
    BY <2>1, <2>2 DEF Guard!Init, NewBreaker
<1>2. BreakerInv /\ [Next]_vars => [Guard!Next]_Guard!vars
  BY GuardSteps DEF GuardStep
<1> QED
  BY <1>1, <1>2, BreakerInvariance, PTL DEF Spec, GatewayGuarded, Guard!Spec

-----------------------------------------------------------------------------
(***************************************************************************)
(* A process has booked at least what it or one before it has published.   *)
(***************************************************************************)
BehindMemory == Running => Booked(disk) <= Booked(metrics)

BooksStep == [Books!Next]_Books!vars

\* What the counters of a process amount to.
LEMMA BookedFacts ==
  ASSUME TypeOK
  PROVE  Booked(metrics) \in Nat /\ Booked(disk) \in Nat
  BY DEF TypeOK, Metrics, Booked

(***************************************************************************)
(* Where outcomes and files stand still and the process is as it was, so   *)
(* does the register.                                                      *)
(***************************************************************************)
LEMMA BooksStutter ==
  ASSUME BehindMemory, Booked(metrics)' = Booked(metrics), UNCHANGED disk,
         Running, Running'
  PROVE  BooksStep /\ BehindMemory'
<1>1. Booked(disk)' = Booked(disk)
  BY DEF Booked
<1>2. (IF Running THEN metrics ELSE disk) = metrics /\ (IF Running THEN metrics ELSE disk)' = metrics'
  OBVIOUS
<1> QED
  BY <1>1, <1>2 DEF BooksStep, BehindMemory, Books!vars, Booked

\* An outcome is booked once, whatever becomes of the iteration.
LEMMA BooksCount ==
  ASSUME TypeOK, BehindMemory, Booked(metrics') = Booked(metrics) + 1, UNCHANGED disk,
         Running, Running'
  PROVE  BooksStep /\ BehindMemory'
<1>1. Booked(disk)' = Booked(disk)
  BY DEF Booked
<1>2. Books!Count
  BY <1>1 DEF Books!Count, Booked
<1> QED
  BY <1>1, <1>2, BookedFacts DEF BooksStep, Books!Next, BehindMemory, Booked

(***************************************************************************)
(* Every step of the loop and around it is a step of the register, or      *)
(* none, and publishes no more than is booked.                             *)
(***************************************************************************)
LEMMA BooksSteps ==
  TypeOK /\ TypeOK' /\ BehindMemory /\ [Next]_vars => BooksStep /\ BehindMemory'
<1> SUFFICES ASSUME TypeOK, TypeOK', BehindMemory, [Next]_vars
             PROVE  BooksStep /\ BehindMemory'
  OBVIOUS
<1> USE DEF process, stored
<1>1. CASE \/ LeaveLoop \/ StopAtRuntimeLimit \/ StopOverBudget \/ StopAtIterationLimit
           \/ RestWhilePaused \/ EmergencyPause \/ BackOff \/ Proceed
           \/ EndBackoff \/ EndRest \/ BeginCall \/ RetryLater \/ Retry
  <2>1. UNCHANGED <<metrics, disk>> /\ Running /\ Running'
    BY <1>1
    DEF LeaveLoop, StopAtRuntimeLimit, StopOverBudget, StopAtIterationLimit,
        RestWhilePaused, EmergencyPause, BackOff, Proceed, EndBackoff, EndRest,
        BeginCall, RetryLater, Retry, Unpaused, MayGoOn, AtHead, SleepThen, Running
  <2> QED
    BY <2>1, BooksStutter DEF Booked
<1>2. CASE SkipCall
  <2>1. /\ metrics' = [metrics EXCEPT !.failed = @ + 1]
        /\ UNCHANGED disk /\ Running /\ Running'
    BY <1>2 DEF SkipCall, Running
  <2>2. Booked(metrics') = Booked(metrics) + 1
    BY <2>1 DEF Booked, TypeOK, Metrics
  <2> QED
    BY <2>1, <2>2, BooksCount
<1>3. CASE \/ \E class \in Classes, cost \in Costs : GatewayAnswers(class, cost)
           \/ CallFails \/ AbandonRetry
  <2>1. PICK class \in Classes, cost \in Costs \cup {0} :
          Outcome(class, cost) /\ LeaveCall /\ UNCHANGED disk /\ Running
    BY <1>3 DEF GatewayAnswers, CallFails, AbandonRetry, BookException, Classes, Running
  <2>2. Booked(metrics') = Booked(metrics) + 1 /\ Running'
    BY <2>1 DEF Outcome, LeaveCall, Booked, TypeOK, Metrics, Running
  <2> QED
    BY <2>1, <2>2, BooksCount
<1>4. CASE EndIteration \/ EndSkip
  <2>1. /\ metrics' = [metrics EXCEPT !.total = iteration]
        /\ UNCHANGED disk /\ Running /\ Running'
    BY <1>4 DEF EndIteration, EndSkip, WriteMetrics, SleepThen, Running
  <2>2. Booked(metrics') = Booked(metrics)
    BY <2>1 DEF Booked, TypeOK, Metrics
  <2> QED
    BY <2>1, <2>2, BooksStutter DEF Booked
<1>5. CASE EndProcess \/ Crash
  <2>1. Running /\ ~Running' /\ disk' \in {metrics, disk}
    BY <1>5 DEF EndProcess, Crash, ProcessGone, Running
  <2>2. CASE disk' = metrics
    <3>1. Books!Publish
      BY <2>1, <2>2, BookedFacts DEF Books!Publish, Booked, BehindMemory
    <3> QED
      BY <2>1, <3>1 DEF BooksStep, Books!Next, BehindMemory
  <2>3. CASE disk' = disk
    <3>1. Books!Reload
      BY <2>1, <2>3 DEF Books!Reload, Booked
    <3> QED
      BY <2>1, <3>1 DEF BooksStep, Books!Next, BehindMemory
  <2> QED
    BY <2>1, <2>2, <2>3
<1>6. CASE Flush
  <2>1. Running /\ Running' /\ disk' \in {metrics, disk} /\ UNCHANGED metrics
    BY <1>6 DEF Flush, Running
  <2>2. Books!Publish
    BY <2>1, BookedFacts DEF Books!Publish, Booked, BehindMemory
  <2> QED
    BY <2>1, <2>2, BookedFacts DEF BooksStep, Books!Next, BehindMemory, Booked
<1>7. CASE Signal \/ OperatorPauses \/ OperatorResumes \/ Tick \/ UNCHANGED vars
  <2>1. UNCHANGED <<pc, metrics, disk>>
    BY <1>7 DEF Signal, OperatorPauses, OperatorResumes, Tick, vars
  <2> QED
    BY <2>1 DEF BooksStep, Books!vars, BehindMemory, Booked, Running
<1>8. CASE Restart
  <2>1. ~Running /\ Running' /\ metrics' = disk /\ UNCHANGED disk
    BY <1>8 DEF Restart, Running
  <2> QED
    BY <2>1, BookedFacts DEF BooksStep, Books!vars, BehindMemory, Booked
<1> QED
  BY <1>1, <1>2, <1>3, <1>4, <1>5, <1>6, <1>7, <1>8
  DEF Next, MainThread, Environment, CallEnds

(***************************************************************************)
(* What the loop needs of its metrics file is what the metrics writer      *)
(* gives: outcomes once published are never lost, over any number of       *)
(* processes, however they end and whatever the writer's last copy was.    *)
(***************************************************************************)
THEOREM BooksSurvive == Spec => BooksAreRegister
<1>1. Init => Books!Init /\ BehindMemory
  BY DEF Init, Books!Init, BehindMemory, Booked, ZeroMetrics
<1>2. TypeOK /\ TypeOK' /\ BehindMemory /\ [Next]_vars => [Books!Next]_Books!vars /\ BehindMemory'
  BY BooksSteps DEF BooksStep
<1> QED
  BY <1>1, <1>2, TypeCorrect, PTL DEF Spec, BooksAreRegister, Books!Spec
=============================================================================
