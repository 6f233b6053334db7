CONSTANTS
  MaxVersion = 4
  Snapshots = {1, 2, 3}
  Outcomes = {"ok", "rejected", "handshake", "failed"}
  NoBatch = NoBatch
  MaxCrashes = 1
  MaxPublishes = 1
SPECIFICATION FairSyncSpec
INVARIANT SyncInv
PROPERTIES
  AckedIsInForce
  EveryEditAnswered
  EmptyHostIsConfigured
  AlwaysReconnects
CHECK_DEADLOCK FALSE
