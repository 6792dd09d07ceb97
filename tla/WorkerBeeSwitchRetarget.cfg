SPECIFICATION Spec
CONSTANTS
  Backends = {oss, debug}
  Start = oss
  NoBackend = NoBackend
  MaxTxs = 1
  Sessions = {s1}
  MaxFaults = 0
INVARIANT NoCallRetargeted
