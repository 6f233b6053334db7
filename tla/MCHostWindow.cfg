CONSTANTS
  Configs = {"basic", "lua"}
  NoConfig = "none"
  Hiding = {"lua"}
  InitiallyOn = {"basic"}
  LuaConfigs = {"lua"}
  MaxApplies = 2
  MaxSwitches = 1
  MaxPrepares = 3
  MaxInputs = 1
SPECIFICATION FairWindowSpec
INVARIANTS
  PartsAgree
  StateIsCurrent
  WindowInv
  ShownAsDecided
PROPERTIES
  SnapshotIsAnswered
  WindowReturns

CHECK_DEADLOCK FALSE
