SPECIFICATION LaneSpec
CONSTANTS
  Watching = 2
  Mentions = 2
  SubIds = {7, 8}
  MaxConns = 2
  MaxWire = 2
  MaxBackoff = 3
PROPERTY DeadLaneReconnects
CHECK_DEADLOCK FALSE
