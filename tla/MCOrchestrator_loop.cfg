SPECIFICATION FairSpec
CONSTANTS
  FailureThreshold = 2
  OpenDuration = 3
  MaxOpenDuration = 4
  MaxConsecutiveFailures = 3
  TotalRuntime = 6
  BudgetLimit = 1
  MinBudgetTime = 2
  MaxIterations = 4
  Cooldown = 1
  SkipRest = 1
  BackoffDelay = 1
  RetryDelays <- MCRetryDelays
  HttpRetryCount = 2
  Costs = {0, 2}
  Horizon = 6
  MaxRestarts = 1
INVARIANTS
  FailureCountsAgree
PROPERTIES
  GatewayGuarded
  EveryProcessEnds
