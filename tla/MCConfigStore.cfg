CONSTANTS
  MaxDocuments = 3
  MaxFaults = 2
SPECIFICATION Spec
INVARIANTS
  CrashKeepsLastSave
  DamageCostsOneSave
PROPERTY LastEditStaysSaved
CHECK_DEADLOCK FALSE
