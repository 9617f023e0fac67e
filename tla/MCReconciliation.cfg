CONSTANTS
  p1 = p1
  p2 = p2
  i1 = i1
  i2 = i2
  Polls = {p1, p2}
  Instances = {i1, i2}
  Deployments <- MCDeployments
  Dispositions = {"complete", "retry", "retry_later", "manual_review"}
  MaxAttempts = 2
  MaxInFlight = 1
  LeaseMs = 1
  RetryMs = 1
  MaxLaters = 1
  MaxOpenings = 2
  MaxFaults = 2
SPECIFICATION FairSpec
INVARIANT TypeOK
INVARIANT AttemptsAreRecorded
INVARIANT LiveCountsClaims
INVARIANT NoOverlapWithoutFaults
PROPERTY ParkedForCause
CHECK_DEADLOCK FALSE
PROPERTY JobIsSettled
