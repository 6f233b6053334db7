CONSTANTS
  Contents = {"a", "b"}
  Hotkeys = {"k", "l"}
  KeysOf <- MCKeysOf
  KeyLists <- MCKeyLists
  MaxProfiles = 6
  MaxSets = 5
  InitialDocuments <- MCInitial
  Packages <- MCPackages
  Commands <- MCCommands
  FirstId = 9
  MaxIds = 11
  MaxEdits = 3
  MaxUpdates = 1
SPECIFICATION ProfilesSpec
INVARIANTS
  CommandsKeepDocument
  MergeKeepsBoth
PROPERTIES
  RepairsRefusedForKeysOnly
  SelectionLostByRefusedAddition
CHECK_DEADLOCK FALSE
