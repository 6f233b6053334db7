CONSTANTS
  Identifiers <- MCIdentifiers
  Bytes <- MCBytes
  Chars <- MCChars
  Blank <- MCBlank
  MaxItems = 2
  MaxSections = 1
  MaxTitle = 2
  MaxDescription = 2
  MaxUnit = 2
  MaxText = 2
  MaxSegments = 1
  KeyboardKeys = {"f6", "x", "winleft"}
  MouseButtons = {"left"}
  Sources <- MCSources
  Descriptor <- MCDescriptor
  BadStart = {"failing"}
  Profiles = {"p"}
  Unmapped = {}
  MaxScripts = 2
  SwitchChoices <- MCSwitchChoices
  Keys <- MCKeys
  Texts = {"wide"}
  Numbers = {2}
  EditedTargets = {"p"}
  InitialGlobal <- MCInitialGlobal
  MaxStored = 1
SPECIFICATION Spec
INVARIANTS
  HostTakesDocument
  StoredScriptsLoad
