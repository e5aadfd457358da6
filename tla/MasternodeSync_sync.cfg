SPECIFICATION Spec
CONSTANTS
  new = new
  old = old
  Peers = {new, old}
  OldPeers = {old}
  SYNC_TIMEOUT = 1
  FAILURE_COOLDOWN = 1
  REBUILD = 1
  MaxDisturbances = 2
INVARIANTS
  TypeOK
  
  
PROPERTIES
  Finishes
