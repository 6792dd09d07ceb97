SPECIFICATION AttendedSpec
CONSTANTS
  Leases = {l1}
  NoLease = NoLease
  Clients = {t1}
  PriorKnown = TRUE
  MaxTurns = 1
  MaxCrashes = 1
PROPERTY OverdueEnds
PROPERTY ReturnedCloses
