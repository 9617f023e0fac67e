CONSTANTS
  Callers = {c1, c2}
  Pollers = {p1, p2}
  Deployments = {{c1, c2}, {c1, p1, p2}}
  Hashes = {h1, h2}
  NoHash = NoHash
  LeaseMs = 2
  RetryDelays = {0, 2}
  MaxTime = 3
  MaxTokens = 3
SPECIFICATION Spec
INVARIANT AttemptsCountFailures
PROPERTY ImplementsContract
