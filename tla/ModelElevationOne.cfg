SPECIFICATION Spec
CONSTANTS
  Leases = {l1, l2}
  NoLease = NoLease
  Clients = {t1, t2}
  PriorKnown = FALSE
  MaxTurns = 0
  MaxCrashes = 0
SYMMETRY Symmetry
INVARIANT OneOpenLease
