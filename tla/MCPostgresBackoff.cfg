CONSTANTS
  Callers = {c1, c2}
  Pollers = {}
  Deployments = {{c1, c2}}
  Hashes = {h1}
  NoHash = NoHash
  LeaseMs = 1
  RetryDelays = {0, 2}
  MaxTime = 3
  MaxTokens = 4
SPECIFICATION Spec
PROPERTY BackoffHonoured
