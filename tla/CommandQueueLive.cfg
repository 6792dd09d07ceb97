SPECIFICATION FairSpec
CONSTANTS
  Agents = {a1}
  NoAgent = NoAgent
  Commands = {c1, c2}
  NoCommand = NoCommand
  Polls = {p1}
  NoPoll = NoPoll
  Limits = {2}
  Times = {1}
  MaxFaults = 1
PROPERTY QueuedIsTaken
PROPERTY DeliveredIsSettled
