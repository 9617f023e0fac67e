CONSTANTS
  usd = usd
  eur = eur
  Any = Any
  Fields = {"currency"}
  Values = {usd, eur}
  Tables <- MCTables
  Fallbacks = {1, 3}
  Payments <- MCPayments
  HealthMaps <- MCHealthMaps
  RecoveredFlows <- MCRecoveredFlows
  OrderReferences = TRUE
  Amount = 2
  MaxReplacements = 1
SPECIFICATION RecoverSpec
INVARIANT SafeDecisionsHold
CHECK_DEADLOCK FALSE
