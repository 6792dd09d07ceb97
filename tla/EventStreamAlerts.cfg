SPECIFICATION Spec
CONSTANTS
  Agents = {a1}
  Allowed = {a1}
  Limit = 2
  MaxEvents = 2
  MaxTrims = 0
  MaxFaults = 0
PROPERTY AlertsFire
