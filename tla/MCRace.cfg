SPECIFICATION Spec
CONSTANTS
  doublezero = doublezero
  public = public
  helius = helius
  Lanes <- ThreeLanes
  Reference = doublezero
  ShredLane = doublezero
  Sigs = {s1, s2}
  PENDING_TTL = 2
  Window = 1
  RECENT_KEPT = 1
  MaxTime = 3
  MaxDeliveries = 4
INVARIANTS
  TypeOK
  CreditWithinDelivered
  NoPairForgotten
  LeadIsTrueLead
  SnapshotCoherent
PROPERTY EvictClearsWindow
SYMMETRY Symmetry
