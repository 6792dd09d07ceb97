SPECIFICATION Spec
CONSTANTS
  Panes = {p1, p2}
  NoPane = NoPane
  Clients = {t1, t2}
  NoClient = NoClient
  MaxProcs = 2
  ClientsDie = TRUE
SYMMETRY Symmetry
INVARIANT TypeOK
PROPERTY LeaseEndsForCause
PROPERTY LeaseStaysOnPane
