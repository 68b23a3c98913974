---------------------------- MODULE Orchestrator ----------------------------
(***************************************************************************)
(* The main loop of core/orchestrator/loop.py: one process that checks     *)
(* whether the agent should run (run time, budget, iteration limit, PAUSE  *)
(* file, failure streak, circuit breaker), calls the gateway with retries, *)
(* records the outcome and rests.  Around it: the signal handler, the      *)
(* operator who creates and removes the PAUSE file, the background thread  *)
(* that publishes the metrics, and the supervisor that restarts a process  *)
(* which exited or crashed.                                                *)
(*                                                                         *)
(* Time is time.monotonic() - _start_time in ticks: a sleep ends when the  *)
(* clock has reached its deadline or a shutdown was requested.             *)
(***************************************************************************)
EXTENDS CircuitBreaker

CONSTANTS
  MaxConsecutiveFailures,  \* MAX_CONSECUTIVE_FAILURES
  TotalRuntime,            \* TOTAL_RUNTIME_HOURS
  BudgetLimit,             \* BUDGET_LIMIT
  MinBudgetTime,           \* the 0.1 h before which the budget guard is mute
  MaxIterations,           \* MAX_ITERATIONS, 0 = unlimited
  Cooldown,                \* max(COOLDOWN_SECONDS, LOOP_INTERVAL)
  SkipRest,                \* min(30, effective_cooldown)
  BackoffDelay,            \* backoff_delay: 60 s for every positive streak
  RetryDelays,             \* HTTP_RETRY_BASE_DELAY * 2^(attempt - 1), by attempt
  HttpRetryCount,          \* HTTP_RETRY_COUNT
  Costs,                   \* what a gateway call may cost
  Horizon,                 \* bound: the clock of one process stops here
  MaxRestarts              \* bound: restarts after an exit or a crash

ASSUME OrchestratorAssumption ==
  /\ MaxConsecutiveFailures \in Nat \ {0}
  /\ TotalRuntime \in Nat \ {0}
  /\ BudgetLimit \in Nat
  /\ MinBudgetTime \in Nat
  /\ MaxIterations \in Nat
  /\ Cooldown \in Nat \ {0}
  /\ SkipRest \in Nat \ {0}
  /\ BackoffDelay \in Nat
  /\ HttpRetryCount \in Nat \ {0}
  /\ RetryDelays \in [1 .. HttpRetryCount -> Nat]
  /\ Costs \subseteq Nat
  /\ Horizon \in Nat /\ Horizon >= TotalRuntime
  /\ MaxRestarts \in Nat

VARIABLES
  pc,          \* where the main thread is
  shutdown,    \* _shutdown_requested
  clock,       \* time.monotonic() - _start_time
  wake,        \* the deadline of the sleep under way
  pauseFile,   \* does WORKSPACE_DIR/PAUSE exist
  iteration,   \* main's iteration
  streak,      \* main's consecutive_failures
  breaker,     \* _circuit_breaker
  attempt,     \* send_to_openclaw's attempt
  metrics,     \* _metrics
  dirty,       \* _MetricsWriter._dirty_count > 0
  disk,        \* metrics.json
  restarts     \* restarts so far (bound)

vars == <<pc, shutdown, clock, wake, pauseFile, iteration, streak, breaker,
          attempt, metrics, dirty, disk, restarts>>

process == <<iteration, streak, breaker, attempt>>
stored  == <<metrics, dirty, disk>>

(***************************************************************************)
(* head: top of the loop; resting: a sleep that goes back to the top;      *)
(* backoff: the sleep of step 2b; ready: about to begin an iteration;      *)
(* calling, retrying: inside send_to_openclaw; recorded, skipped: the      *)
(* outcome is counted, write_metrics is next; ending: the finally block.   *)
(***************************************************************************)
Locations == {"head", "resting", "backoff", "ready", "calling", "retrying",
              "recorded", "skipped", "ending", "down"}

Metrics == [total : Nat, ok : Nat, failed : Nat, spend : Nat]

ZeroMetrics == [total |-> 0, ok |-> 0, failed |-> 0, spend |-> 0]

Classes == {"success", "failure", "error"}

TypeOK ==
  /\ pc \in Locations
  /\ shutdown \in BOOLEAN
  /\ clock \in Nat
  /\ wake \in Nat
  /\ pauseFile \in BOOLEAN
  /\ iteration \in Nat
  /\ streak \in Nat
  /\ breaker \in Breakers
  /\ attempt \in Nat
  /\ metrics \in Metrics
  /\ dirty \in BOOLEAN
  /\ disk \in Metrics
  /\ restarts \in Nat

Init ==
  /\ pc = "head"
  /\ shutdown = FALSE
  /\ clock = 0
  /\ wake = 0
  /\ pauseFile \in BOOLEAN
  /\ iteration = 0
  /\ streak = 0
  /\ breaker = NewBreaker
  /\ attempt = 0
  /\ metrics = ZeroMetrics
  /\ dirty = FALSE
  /\ disk = ZeroMetrics
  /\ restarts = 0

-----------------------------------------------------------------------------
(* The checks at the top of the loop. *)

\* A deadline beyond the modelled time falls on its last tick.
SleepThen(where, duration) ==
  /\ pc' = where
  /\ wake' = Smaller(clock + duration, Horizon)

\* Creating PAUSE may fail: the OSError is logged and the loop goes on.
TouchPauseFile == pauseFile' \in {TRUE, pauseFile}

RuntimeUp == clock >= TotalRuntime

LateBudgetExceeded ==
  clock >= TotalRuntime - 1 /\ metrics.spend > BudgetLimit

BudgetExceeded ==
  /\ clock >= MinBudgetTime
  /\ \/ metrics.spend > BudgetLimit
     \/ metrics.spend * TotalRuntime > BudgetLimit * clock

IterationLimitReached == MaxIterations > 0 /\ iteration >= MaxIterations

AtHead == pc = "head" /\ ~shutdown

LeaveLoop ==
  /\ pc = "head" /\ shutdown
  /\ pc' = "ending"
  /\ UNCHANGED <<shutdown, clock, wake, pauseFile, process, stored, restarts>>

StopAtRuntimeLimitUnlessPaused ==
  /\ AtHead
  /\ RuntimeUp /\ ~pauseFile
  /\ pc' = "ending"
  /\ UNCHANGED <<shutdown, clock, wake, pauseFile, process, stored, restarts>>

StopAtRuntimeLimit ==
  /\ AtHead
  /\ RuntimeUp
  /\ TouchPauseFile
  /\ pc' = "ending"
  /\ UNCHANGED <<shutdown, clock, wake, process, stored, restarts>>

StopOverBudget ==
  /\ AtHead
  /\ ~RuntimeUp
  /\ BudgetExceeded
  /\ TouchPauseFile
  /\ pc' = "ending"
  /\ UNCHANGED <<shutdown, clock, wake, process, stored, restarts>>

StopAtIterationLimit ==
  /\ AtHead
  /\ ~RuntimeUp /\ ~BudgetExceeded
  /\ IterationLimitReached
  /\ pc' = "ending"
  /\ UNCHANGED <<shutdown, clock, wake, pauseFile, process, stored, restarts>>

MayGoOn == AtHead /\ ~RuntimeUp /\ ~BudgetExceeded /\ ~IterationLimitReached

RestWhilePaused ==
  /\ MayGoOn
  /\ pauseFile
  /\ SleepThen("resting", Cooldown)
  /\ UNCHANGED <<shutdown, clock, pauseFile, process, stored, restarts>>

UnpausedUnchecked == MayGoOn

Unpaused == MayGoOn /\ ~pauseFile

\* The streak is not reset, and the loop goes back to its top without a sleep.
EmergencyPause ==
  /\ Unpaused
  /\ streak >= MaxConsecutiveFailures
  /\ TouchPauseFile
  /\ UNCHANGED <<pc, shutdown, clock, wake, process, stored, restarts>>

BackOff ==
  /\ Unpaused
  /\ streak \in 1 .. MaxConsecutiveFailures - 1
  /\ SleepThen("backoff", BackoffDelay)
  /\ UNCHANGED <<shutdown, clock, pauseFile, process, stored, restarts>>

Proceed ==
  /\ Unpaused
  /\ streak = 0
  /\ pc' = "ready"
  /\ UNCHANGED <<shutdown, clock, wake, pauseFile, process, stored, restarts>>

SleepOver == clock >= wake \/ shutdown

EndBackoff ==
  /\ pc = "backoff" /\ SleepOver
  /\ pc' = IF shutdown THEN "ending" ELSE "ready"
  /\ wake' = 0
  /\ UNCHANGED <<shutdown, clock, pauseFile, process, stored, restarts>>

EndRest ==
  /\ pc = "resting" /\ SleepOver
  /\ pc' = "head"
  /\ wake' = 0
  /\ UNCHANGED <<shutdown, clock, pauseFile, process, stored, restarts>>

-----------------------------------------------------------------------------
(* One iteration. *)

BeginCall ==
  /\ pc = "ready"
  /\ Allowed(breaker, clock)
  /\ breaker' = AllowRequest(breaker, clock)
  /\ iteration' = iteration + 1
  /\ attempt' = 1
  /\ pc' = "calling"
  /\ UNCHANGED <<shutdown, clock, wake, pauseFile, streak, stored, restarts>>

\* An open circuit: the iteration counts as a failed one, without a call.
SkipCall ==
  /\ pc = "ready"
  /\ ~Allowed(breaker, clock)
  /\ iteration' = iteration + 1
  /\ streak' = streak + 1
  /\ metrics' = [metrics EXCEPT !.failed = @ + 1]
  /\ pc' = "skipped"
  /\ UNCHANGED <<shutdown, clock, wake, pauseFile, breaker, attempt, dirty, disk,
                 restarts>>

\* The three ways main books an answer of the gateway that it could parse.
OutcomeWithoutFailures(class, cost) ==
  /\ metrics' = [metrics EXCEPT !.ok = @ + (IF class = "success" THEN 1 ELSE 0)]
  /\ streak' = IF class = "success" THEN 0 ELSE streak
  /\ breaker' = RecordSuccess(breaker)

Outcome(class, cost) ==
  LET booked == IF class = "success" THEN 1 ELSE 0
  IN  /\ metrics' = [total  |-> metrics.total,
                     ok     |-> metrics.ok + booked,
                     failed |-> metrics.failed + (1 - booked),
                     spend  |-> metrics.spend + cost]
      /\ streak' = CASE class = "success" -> 0
                     [] class = "failure" -> streak
                     [] class = "error"   -> streak + 1
      /\ breaker' = IF class = "error" THEN RecordFailure(breaker, clock)
                                       ELSE RecordSuccess(breaker)

LeaveCall ==
  /\ pc' = "recorded"
  /\ attempt' = 0
  /\ wake' = 0

GatewayAnswers(class, cost) ==
  /\ pc = "calling"
  /\ Outcome(class, cost)
  /\ LeaveCall
  /\ UNCHANGED <<shutdown, clock, pauseFile, iteration, dirty, disk, restarts>>

\* Any exception that leaves send_to_openclaw: nothing was spent that we know of.
BookException ==
  /\ Outcome("error", 0)
  /\ LeaveCall
  /\ UNCHANGED <<shutdown, clock, pauseFile, iteration, dirty, disk, restarts>>

\* A 4xx, an undecodable body, or a retryable error on the last attempt.
CallFails == pc = "calling" /\ BookException

\* A connection error, a timeout or a 5xx, with an attempt left.
RetryLater ==
  /\ pc = "calling"
  /\ attempt < HttpRetryCount
  /\ SleepThen("retrying", RetryDelays[attempt])
  /\ UNCHANGED <<shutdown, clock, pauseFile, process, stored, restarts>>

Retry ==
  /\ pc = "retrying" /\ clock >= wake /\ ~shutdown
  /\ attempt' = attempt + 1
  /\ pc' = "calling"
  /\ wake' = 0
  /\ UNCHANGED <<shutdown, clock, pauseFile, iteration, streak, breaker, stored,
                 restarts>>

AbandonRetry == pc = "retrying" /\ shutdown /\ BookException

WriteMetrics ==
  /\ metrics' = [metrics EXCEPT !.total = iteration]
  /\ dirty' = TRUE

EndIteration ==
  /\ pc = "recorded"
  /\ WriteMetrics
  /\ IF shutdown THEN pc' = "ending" /\ wake' = wake
                 ELSE SleepThen("resting", Cooldown)
  /\ UNCHANGED <<shutdown, clock, pauseFile, process, disk, restarts>>

EndSkip ==
  /\ pc = "skipped"
  /\ WriteMetrics
  /\ SleepThen("resting", SkipRest)
  /\ UNCHANGED <<shutdown, clock, pauseFile, process, disk, restarts>>

\* Nothing of a process that ended is left but the files.
ProcessGone ==
  /\ pc' = "down"
  /\ shutdown' = FALSE
  /\ clock' = 0
  /\ wake' = 0
  /\ iteration' = 0
  /\ streak' = 0
  /\ breaker' = NewBreaker
  /\ attempt' = 0
  /\ metrics' = ZeroMetrics
  /\ dirty' = FALSE
  /\ UNCHANGED <<pauseFile, restarts>>

\* The finally block: a last mark_dirty and _MetricsWriter.stop()'s own flush.
EndProcess ==
  /\ pc = "ending"
  /\ disk' \in {metrics, disk}
  /\ ProcessGone

-----------------------------------------------------------------------------
(* What happens around the main thread. *)

Running == pc # "down"

\* The writer thread copies _metrics at a moment of its own; a failed write is
\* logged and forgotten, since the dirty count is reset before the file I/O.
Flush ==
  /\ Running
  /\ dirty
  /\ disk' \in {metrics, disk}
  /\ dirty' = FALSE
  /\ UNCHANGED <<pc, shutdown, clock, wake, pauseFile, process, metrics, restarts>>

Signal ==
  /\ Running
  /\ ~shutdown
  /\ shutdown' = TRUE
  /\ UNCHANGED <<pc, clock, wake, pauseFile, process, stored, restarts>>

\* make pause, and make resume: the operator touches and removes the file.
OperatorPauses ==
  /\ ~pauseFile
  /\ pauseFile' = TRUE
  /\ UNCHANGED <<pc, shutdown, clock, wake, process, stored, restarts>>

OperatorResumes ==
  /\ pauseFile
  /\ pauseFile' = FALSE
  /\ UNCHANGED <<pc, shutdown, clock, wake, process, stored, restarts>>

Tick ==
  /\ Running
  /\ clock < Horizon
  /\ clock' = clock + 1
  /\ UNCHANGED <<pc, shutdown, wake, pauseFile, process, stored, restarts>>

Crash ==
  /\ Running
  /\ restarts < MaxRestarts
  /\ ProcessGone
  /\ UNCHANGED disk

RestartOneBehind ==
  /\ pc = "down"
  /\ restarts < MaxRestarts
  /\ restarts' = restarts + 1
  /\ pc' = "head"
  /\ iteration' = disk.total - 1
  /\ metrics' = disk
  /\ UNCHANGED <<shutdown, clock, wake, pauseFile, streak, breaker, attempt, dirty,
                 disk>>

RestartForgetful ==
  /\ pc = "down"
  /\ restarts < MaxRestarts
  /\ restarts' = restarts + 1
  /\ pc' = "head"
  /\ iteration' = disk.total
  /\ UNCHANGED <<shutdown, clock, wake, pauseFile, streak, breaker, attempt, stored>>

\* A new process: module initialisation, then _load_metrics.
Restart ==
  /\ pc = "down"
  /\ restarts < MaxRestarts
  /\ restarts' = restarts + 1
  /\ pc' = "head"
  /\ iteration' = disk.total
  /\ metrics' = disk
  /\ UNCHANGED <<shutdown, clock, wake, pauseFile, streak, breaker, attempt, dirty,
                 disk>>

CallEnds ==
  \/ \E class \in Classes, cost \in Costs : GatewayAnswers(class, cost)
  \/ CallFails
  \/ RetryLater

MainThread ==
  \/ LeaveLoop \/ StopAtRuntimeLimit \/ StopOverBudget \/ StopAtIterationLimit
  \/ RestWhilePaused \/ EmergencyPause \/ BackOff \/ Proceed
  \/ EndBackoff \/ EndRest
  \/ BeginCall \/ SkipCall \/ CallEnds \/ Retry \/ AbandonRetry
  \/ EndIteration \/ EndSkip \/ EndProcess

Environment ==
  \/ Flush \/ Signal \/ OperatorPauses \/ OperatorResumes \/ Tick \/ Crash \/ Restart

Next == MainThread \/ Environment

Spec == Init /\ [][Next]_vars

(***************************************************************************)
(* The main thread is scheduled, time passes, and a call ends: urlopen has *)
(* a timeout.  Nothing is assumed of the operator, the signal, the writer  *)
(* thread, crashes or restarts.                                            *)
(***************************************************************************)
FairSpec == Spec /\ WF_vars(MainThread) /\ WF_vars(Tick)

-----------------------------------------------------------------------------
(* Properties. *)

InCall == pc \in {"calling", "retrying"}

(***************************************************************************)
(* send_to_openclaw makes at most HTTP_RETRY_COUNT requests per iteration, *)
(* and it is never between two of them with none left.                     *)
(***************************************************************************)
AttemptsAreBounded ==
  /\ pc = "calling" => attempt \in 1 .. HttpRetryCount
  /\ pc = "retrying" => attempt \in 1 .. HttpRetryCount - 1

(***************************************************************************)
(* The probe of a half-open circuit always reports back: whatever way out  *)
(* of send_to_openclaw the loop takes (an answer, any exception, an        *)
(* abandoned retry), it records a success or a failure, so that the        *)
(* circuit is HALF_OPEN only while its one probe is under way.             *)
(***************************************************************************)
HalfOpenOnlyDuringProbe == breaker.mode = "HALF_OPEN" => InCall

(***************************************************************************)
(* The breaker and the loop count failures separately, in different places *)
(* and with different resets.  The breaker's count never overtakes the     *)
(* loop's streak, it decides the mode, and the streak never exceeds the    *)
(* emergency threshold by which the loop stops calling.                    *)
(***************************************************************************)
FailureCountsAgree ==
  /\ breaker.failures <= streak
  /\ streak <= MaxConsecutiveFailures
  /\ (breaker.mode = "CLOSED") <=> (breaker.failures < FailureThreshold)

(***************************************************************************)
(* Every iteration is booked exactly once.  The published counters may be  *)
(* copied between the increment of an outcome and write_metrics, and a     *)
(* crash makes such a torn copy the next process's start; still there is   *)
(* never an iteration without an outcome, and at most one outcome too many *)
(* per process so far.                                                     *)
(***************************************************************************)
Surplus(m) == m.ok + m.failed - m.total

OutcomesMatchIterations ==
  \A m \in {metrics, disk} : Surplus(m) \in 0 .. restarts + 1

(***************************************************************************)
(* The loop as a client of the circuit breaker: with its retries, its      *)
(* exceptions, its shutdowns and its restarts, it makes the calls that     *)
(* GatewayGuard allows and reports each of them exactly once.              *)
(***************************************************************************)
Guard == INSTANCE GatewayGuard WITH
  mode     <- breaker.mode,
  failures <- breaker.failures,
  cooldown <- breaker.cooldown,
  probeAt  <- IF breaker.mode = "OPEN" THEN breaker.openSince + breaker.cooldown
                                       ELSE 0,
  calling  <- InCall

GatewayGuarded == Guard!Spec

(***************************************************************************)
(* The loop reads and writes metrics.json as the register that             *)
(* MetricsWriter shows it to be: counted in outcomes, a process goes on    *)
(* from what is published, over exits, crashes, torn copies and writes     *)
(* that fail, and never publishes less than was published before.          *)
(***************************************************************************)
Booked(m) == m.ok + m.failed

Books == INSTANCE MetricsFile WITH
  memory <- Booked(IF Running THEN metrics ELSE disk),
  file   <- Booked(disk)

BooksAreRegister == Books!Spec

(***************************************************************************)
(* Every process ends: a requested shutdown and the runtime limit are both *)
(* reached from wherever the loop is, paused, backing off, spinning on a   *)
(* PAUSE file it cannot create, or in the middle of its retries.           *)
(***************************************************************************)
EveryProcessEnds == Running ~> ~Running
=============================================================================
