SPECIFICATION Spec
CONSTANTS
  Agents = {a1, a2}
  Allowed = {a1}
  Limit = 2
  MaxEvents = 4
  MaxTrims = 1
  MaxFaults = 1
INVARIANT TypeOK
INVARIANT NothingSkipped
PROPERTY StreamCatchesUp
