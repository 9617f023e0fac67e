CONSTANTS
  Hosts = {h1, h2}
  Fingerprints = {f1, f2}
  LeaseMs = 2
  MaxSkew = 1
  MaxTime = 4
  MaxTokens = 4
SPECIFICATION Spec
INVARIANT TypeOK
PROPERTY ImplementsContract
PROPERTY LeaseOutlivesSkew
PROPERTY IndeterminateIsFinal
CHECK_DEADLOCK FALSE
