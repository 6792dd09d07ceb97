SPECIFICATION Spec
CONSTANTS
  Notes = {n1, n2}
  Clients = {c1, c2}
  Daemons = {d1, d2}
  MaxJobs = 2
  MaxWrites = 2
  MaxFaults = 3
INVARIANT TypeOK
INVARIANT ExclusiveProfile
INVARIANT SuccessOwesNothing
INVARIANT RunningIsWorked
PROPERTY JobsEnd
CHECK_DEADLOCK FALSE
