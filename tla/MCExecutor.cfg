SPECIFICATION Spec
CONSTANTS
  Lanes = {doublezero, public}
  Modes = {"DryRun", "Simulate", "Live"}
  HasBroker = TRUE
  per_attempt = 2
  session_cap = 2
  max_wallet = 1
  U64Max = 5
  Nets = {1, 3}
  Balances = {1, 2}
  MaxOffers = 2
  KEPT = 2
INVARIANTS
  SpentWithinCap
  CountersAddUp
  LedgerAgrees
  TotalsMatchTape
  DryRunSendsNothing
  AtMostOneSendAfterKill
SYMMETRY Symmetry
