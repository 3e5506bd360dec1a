SPECIFICATION Spec
CONSTANTS
  IMPLAUSIBLE_BPS = 500
  margin_bps = 1
  network_fee_lamports = 5
  max_price_age = 0
  Lanes <- BothLanes
  PoolBook <- TwoPools
  fee_rate <- TwoFees
  size_lamports = 1000
  Quotes <- TwoQuotes
  DuelTTL = 1
  ShredLane = "doublezero"
  Sigs <- OneSig
  Touches <- TouchesTwo
  StaticKeys <- BothOrFirst
  KEPT = 1
  MaxTime = 1
  MaxDeliveries = 2
  MaxQuotes = 3
INVARIANTS
  DuelsCoherent
  FindsAreBooked
  HeadStartIsTrue
  GapLostMeansMarketMoved
