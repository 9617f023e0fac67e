CONSTANTS
  usd = usd
  eur = eur
  Any = Any
  Fields = {"currency"}
  Values = {usd, eur}
  Tables <- MCTables
  Fallbacks = {1, 3}
  Payments <- MCPayments
  HealthMaps <- MCHealthMaps
  RecoveredFlows <- MCRecoveredFlows
  OrderReferences = FALSE
  Amount = 2
  MaxReplacements = 2
SPECIFICATION RecoverSpec
INVARIANT TypeOK
INVARIANT NoDoubleCharge
INVARIANT FallbackIsHonest
INVARIANT MoneyMovesOnce
INVARIANT SafeDecisionsHold
CHECK_DEADLOCK FALSE
