CONSTANTS
  Workers = {w1, w2}
  Hashes = {h1, h2}
  NoHash = NoHash
  Modes = {"durable_retry", "inline"}
  AckAfterClaim = FALSE
  InlineEra = TRUE
  AckPolicies = {"durable_worker", "provider_redelivery"}
  Errors = {"retryable", "non_retryable", "keep_pending"}
  InlineErrors = {"retryable", "non_retryable"}
  MaxAttempts = 2
  LeaseMs = 2
  RetryAfterMs = 1
  MaxDeliveries = 3
  MaxFaults = 1
SPECIFICATION Spec
INVARIANT TypeOK
INVARIANT AckedIsNotLost
INVARIANT ProcessedOnce
INVARIANT BudgetEnforced
INVARIANT NoOverlapWithoutFaults
INVARIANT HandlerSeesClaimedPayload
PROPERTY OnlyDeliveriesSupersede
CHECK_DEADLOCK FALSE
