SPECIFICATION Spec
CONSTANTS
  MIN_MNB = 1
  MIN_MNP = 1
  PING_GAP = 1
  EXPIRATION = 1
  WATCHDOG_MAX = 0
  NEW_START_REQUIRED = 2
  PING_LIFE = 1
  POSE_BAN_MAX_SCORE = 2
  RECOVERY_RETRY = 0
  QUORUM_TOTAL = 1
  QUORUM_REQUIRED = 1
  ListSize = 1
  MaxBroadcasts = 2
  MaxFaults = 1
  WatchdogActive = TRUE
  None = None
CHECK_DEADLOCK FALSE
INVARIANTS
  TypeOK
PROPERTIES
  EntryAdvances
  BansHold
  
