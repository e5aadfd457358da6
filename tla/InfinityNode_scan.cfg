SPECIFICATION Spec
CONSTANTS
  b1 = b1
  b2 = b2
  b3 = b3
  None = None
  Burns = {b1, b2}
  Ballots = {b1, b2}
  Metas = {}
  TierSeq <- OneTier
  Tier <- MCTier
  Owner <- MCOwner
  Question <- MCQuestion
  BEGIN = 3
  FIRST = 1
  GENESIS = 3
  MATURED_LIMIT = 2
  LIFE = 3
  MAX_REORG = 2
  MaxHeight = 5
  MaxFaults = 1
CHECK_DEADLOCK FALSE
INVARIANTS
  TypeOK
  ListMatchesChain
  
  
  StatementsMatchChain
  RewardsAreFair
  RanksFollowRewards
PROPERTIES
  ListCatchesUp
  StatementsComeBack
