SPECIFICATION Spec
CONSTANTS
  Agents = {a1, a2}
  NoAgent = NoAgent
  Commands = {c1, c2}
  NoCommand = NoCommand
  Polls = {p1, p2}
  NoPoll = NoPoll
  Limits = {1, 2}
  Times = {1, 2}
  MaxFaults = 1
SYMMETRY Symmetry
VIEW Seen
INVARIANT TypeOK
INVARIANT HandledOnce
INVARIANT DeletedNeverDelivered
INVARIANT HolderOwnsCommand
INVARIANT AckedWasHandled
INVARIANT EventsInOrder
INVARIANT Custody
INVARIANT HandledInOrder
PROPERTY ImplementsDelivery
