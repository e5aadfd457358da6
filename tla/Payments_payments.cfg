SPECIFICATION Spec
CONSTANTS
  m1 = m1
  m2 = m2
  m3 = m3
  p1 = p1
  p2 = p2
  p3 = p3
  BURN = BURN
  None = None
  Masternodes = {m1, m2, m3}
  Me = m1
  Tiers <- TwoTiers
  SinType <- MCSinType
  Votes <- MCVotes
  GetHash <- MCGetHash
  Ranked <- MCRanked
  SIGNATURES_REQUIRED = 2
  AHEAD = 1
  WINDOW = 2
  DEPTH = 2
  LIMIT = 1
  InitHeight = 1
  MaxHeight = 5
  MaxFaults = 1
CHECK_DEADLOCK FALSE
INVARIANTS
  TypeOK
  CountsAreVotes
  
  TemplateStaysValid

  
