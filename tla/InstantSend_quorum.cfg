SPECIFICATION Spec
CONSTANTS
  t1 = t1
  t2 = t2
  a = a
  b = b
  m1 = m1
  m2 = m2
  m3 = m3
  NoMasternode = NoMasternode
  LOCK_TIMEOUT = 0
  FAILED_TIMEOUT = 1
  Txs = {t1, t2}
  Outpoints = {a}
  vin <- SharedVin
  Eligible = {t1, t2}
  Masternodes = {m1, m2, m3}
  Me = m1
  TopRanked <- FullQuorum
  NetVotes <- QuorumVotes
  SIGNATURES_REQUIRED = 2
  SIGNATURES_TOTAL = 3
  nInstantSendKeepLock = 1
  InitHeight = 2
  MaxHeight = 2
  LocalTxs = {}
  SporkSets <- AllSporks
  SyncStates = {TRUE}
INVARIANTS
  TypeOK
  QuorumInvariant
  ExclusiveQuorums
  OwnVotesExclusive
PROPERTIES
  LocksArePermanent
  AttackedNeverCompletes
