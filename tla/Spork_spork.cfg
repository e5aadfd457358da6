SPECIFICATION Spec
CONSTANTS
  s = s
  p = p
  q = q
  NoSpork = NoSpork
  Nodes = {s, p, q}
  Signers = {s}
  IDs = {12}
  Messages <- MCMessages
  MaxUpdates = 2
  MaxRestarts = 1
CHECK_DEADLOCK FALSE
INVARIANTS
  TypeOK
  NothingToLose
PROPERTIES
  FollowersAreRegisters
  NodesConverge
