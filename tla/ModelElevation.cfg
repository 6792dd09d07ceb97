SPECIFICATION Spec
CONSTANTS
  Leases = {l1}
  NoLease = NoLease
  Clients = {t1, t2}
  PriorKnown = TRUE
  MaxTurns = 1
  MaxCrashes = 0
SYMMETRY Symmetry
INVARIANT TypeOK
INVARIANT ApprovedByPerson
INVARIANT DownOnlyWhenPending
INVARIANT NeverAhead
PROPERTY LeaseMovesForward
PROPERTY NotReturnedUnused
