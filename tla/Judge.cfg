SPECIFICATION Spec
CONSTANTS
  IMPLAUSIBLE_BPS = 500
  margin_bps = 1
  network_fee_lamports = 5
  max_price_age = 0
  Lanes <- BothLanes
  PoolBook <- ThreePools
  fee_rate <- ThreeFees
  size_lamports = 1000
  Quotes <- JudgeQuotes
  DuelTTL = 1
  ShredLane = "doublezero"
  Sigs <- OneSig
  Touches <- TouchesOne
  StaticKeys <- OnlyThat
  KEPT = 1
  MaxTime = 1
  MaxDeliveries = 1
  MaxQuotes = 4
INVARIANTS
  VerdictsAddUp
  FoundIsBest
