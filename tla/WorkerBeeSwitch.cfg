SPECIFICATION Spec
CONSTANTS
  Backends = {oss, debug}
  Start = oss
  NoBackend = NoBackend
  MaxTxs = 2
  Sessions = {s1}
  MaxFaults = 1
INVARIANT TypeOK
INVARIANT CallsBlockApply
INVARIANT ReceiptTellsBackend
PROPERTY SelectionCatchesUp
