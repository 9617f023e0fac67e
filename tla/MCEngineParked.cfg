CONSTANTS
  Workers = {w1, w2}
  Hashes = {h1, h2}
  NoHash = NoHash
  Modes = {"durable_retry"}
  AckAfterClaim = TRUE
  InlineEra = FALSE
  AckPolicies = {"durable_worker"}
  Errors = {"retryable"}
  InlineErrors = {}
  MaxAttempts = 2
  LeaseMs = 2
  RetryAfterMs = 1
  MaxDeliveries = 2
  MaxFaults = 1
SPECIFICATION FairSpec
INVARIANT BudgetEnforced
PROPERTY AckedIsSettled
CHECK_DEADLOCK FALSE
