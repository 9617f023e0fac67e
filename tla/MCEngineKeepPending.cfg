CONSTANTS
  Workers = {w1, w2}
  Hashes = {h1}
  NoHash = NoHash
  Modes = {"durable_retry"}
  AckAfterClaim = FALSE
  InlineEra = FALSE
  AckPolicies = {"durable_worker"}
  Errors = {"keep_pending"}
  InlineErrors = {}
  MaxAttempts = 3
  LeaseMs = 2
  RetryAfterMs = 1
  MaxDeliveries = 1
  MaxFaults = 1
SPECIFICATION Spec
PROPERTY KeepPendingIsKept
CHECK_DEADLOCK FALSE
