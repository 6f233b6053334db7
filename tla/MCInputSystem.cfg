CONSTANTS
  Keys = {"f", "ctrl", "mouse"}
  Mice = {"mouse"}
  Masks = {"CTRL"}
  NoModifier = "none"
  ModifierOf <- MCModifierOf
  RawAvailable = TRUE
  HookAvailable = TRUE
  Configurations <- AllConfigurations
  MaxPresses = 2
  MaxLosses = 1
  MaxResets = 1
  MaxApplies = 2
SPECIFICATION FairInputSpec
INVARIANTS
  PressedAgree
  HoldDrivesSwitch
  ScriptsArePaired
  HotkeysMatchPlan
PROPERTY HoldsEnd
CHECK_DEADLOCK FALSE
