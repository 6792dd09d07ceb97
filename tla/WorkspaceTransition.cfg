SPECIFICATION Spec
CHECK_DEADLOCK FALSE
CONSTANTS
  Dirs = {d1, d2}
  Home = d1
  Agent = Agent
  Controllers = {c1}
  MaxRows = 2
  MaxEdits = 1
  MaxFaults = 1
SYMMETRY Symmetry
INVARIANT TypeOK
INVARIANT LeaseKeepsGeneration
INVARIANT MovesAreApproved
INVARIANT MappingFollowsLease
PROPERTY RevokedStaysForLaterMoves
