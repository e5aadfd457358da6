SPECIFICATION Spec
CONSTANTS
  t1 = t1
  t2 = t2
  a = a
  b = b
  m1 = m1
  m2 = m2
  m3 = m3
  NoMasternode = NoMasternode
  LOCK_TIMEOUT = 0
  FAILED_TIMEOUT = 1
  Txs = {t1, t2}
  Outpoints = {a, b}
  vin <- TwoInputsVin
  Eligible = {t1, t2}
  Masternodes = {m1, m2}
  Me = m1
  TopRanked <- SplitQuorum
  NetVotes <- SplitVotes
  SIGNATURES_REQUIRED = 1
  SIGNATURES_TOTAL = 1
  nInstantSendKeepLock = 1
  InitHeight = 2
  MaxHeight = 2
  LocalTxs = {t2}
  SporkSets <- SomeSporks
  SyncStates = {TRUE, FALSE}
INVARIANTS
  LocksAreWhole
  VotedHaveCandidates
  OrphansAreVotes
