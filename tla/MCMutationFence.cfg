CONSTANTS
  Gateways = {"moyasar", "paymob", "myfatoorah", "hesabe"}
  Calls = {c1, c2, c3}
  Processes = {p1, p2}
  Keys = {k1, k2}
  Prints = {f1, f2}
  NoPrint = NoPrint
  Capacity = 1
  MaxFaults = 2
SPECIFICATION Spec
SYMMETRY Symmetry
CHECK_DEADLOCK FALSE
INVARIANT AppliedOnce
INVARIANT AnswersAreTrue
INVARIANT NoStuckKey
PROPERTY CompletedIsFinal
