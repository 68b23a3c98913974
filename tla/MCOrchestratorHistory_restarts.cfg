SPECIFICATION HSpec
CONSTANTS
  FailureThreshold = 2
  OpenDuration = 2
  MaxOpenDuration = 3
  MaxConsecutiveFailures = 3
  TotalRuntime = 4
  BudgetLimit = 1
  MinBudgetTime = 2
  MaxIterations = 4
  Cooldown = 1
  SkipRest = 1
  BackoffDelay = 1
  RetryDelays <- MCRetryDelays
  HttpRetryCount = 2
  Costs = {0, 2}
  Horizon = 4
  MaxRestarts = 1
INVARIANTS
  TypeOK
  OutcomesMatchIterations
  PauseIsRespected
  OverspendIsBounded
PROPERTIES
  BooksAreRegister
