CONSTANTS
  Keys = {k1, k2}
  Hashes = {h1, h2}
  NoHash = NoHash
  MaxEntries = 1
  LeaseMs = 1
  RetryDelays = {0, 1}
  MaxTime = 2
  MaxTokens = 3
SPECIFICATION Spec
INVARIANT AttemptsCountFailures
INVARIANT TokensFenceOneRow
INVARIANT WithinCapacity
PROPERTY ImplementsContract
