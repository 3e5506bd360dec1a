SPECIFICATION Spec
CONSTANTS
  Datagrams <- Crossing
  run_for = 1
  MaxPackets = 2
  MaxTime = 2
INVARIANTS
  DatagramsArriveWhole
  FunnelAddsUp
PROPERTIES
  EveryPacketIsHandled
  ProbeFinishes
CHECK_DEADLOCK FALSE
