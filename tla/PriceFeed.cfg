SPECIFICATION Spec
CONSTANTS
  Watching = 2
  SubIds = {7, 8}
  MaxConns = 2
  MaxWire = 2
  SILENCE_LIMIT = 2
  MaxBackoff = 3
INVARIANTS
  PricesAreAttributed
  NoPriceSurvivesAnOutage
PROPERTIES
  DeadSocketIsNoticed
  FeedProvidesBook
