SPECIFICATION Spec
CONSTANTS
  IMPLAUSIBLE_BPS = 500
  margin_bps = 1
  network_fee_lamports = 5
  max_price_age = 1
  PoolBook <- TwoPools
  fee_rate <- WholeFees
  Quotes <- WideQuotes
  Milli = 1
  U64Max = 100000
  KEPT = 2
  RehearsalSize = 250000
  DuelsKept = 2
  MaxSteps = 1
  Sizes = {0, 10000, 60000, 100000}
  Enough = 70000
  StartTime = 0
  StartBooks <- NoBook
  MaxTime = 1
  MaxChanges = 2
  MaxReadings = 1
INVARIANTS
  ProfitUnderstated
CHECK_DEADLOCK FALSE
