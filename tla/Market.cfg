SPECIFICATION Spec
CONSTANTS
  IMPLAUSIBLE_BPS = 500
  margin_bps = 5
  network_fee_lamports = 5
  max_price_age = 0
  PoolBook <- FivePools
  fee_rate <- FiveFees
  Quotes <- FiveQuotes
  Milli = 2
  U64Max = 100000
  KEPT = 2
  RehearsalSize = 250000
  DuelsKept = 2
  MaxSteps = 2
  Sizes = {0, 500, 60000}
  Enough = 70000
  StartTime = 2
  StartBooks <- MarketBooks
  MaxTime = 3
  MaxChanges = 1
  MaxReadings = 1
INVARIANTS
  RowIsTheMarket
  ScreenAgreesWithBot
  OpenRowsOnTop
  OneWayOnly
  AcceptedAddsUp
  ReasonIsTheReason
  RehearsalAddsUp
  EarningsWithinTheTrade
CHECK_DEADLOCK FALSE
