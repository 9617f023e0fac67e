CONSTANTS
  Hashes = {h1, h2}
  NoHash = NoHash
  Fingerprints = {f1, f2}
  MaxTime = 2
  MaxAttempts = 2
SPECIFICATION Spec
INVARIANT SqlMatchesDecision
INVARIANT MissMatchesDecision
INVARIANT StoresMatchDecision
INVARIANT FencedWriteMatchesDecision
INVARIANT ReserveRulesAgree
INVARIANT JobRulesAgree
CHECK_DEADLOCK FALSE
