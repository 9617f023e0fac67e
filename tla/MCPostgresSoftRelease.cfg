CONSTANTS
  Callers = {c1}
  Pollers = {p1}
  Deployments = {{c1, p1}}
  Hashes = {h1}
  NoHash = NoHash
  LeaseMs = 1
  RetryDelays = {0}
  MaxTime = 3
  MaxTokens = 3
SPECIFICATION Spec
PROPERTY LiveTokenNotCleared
