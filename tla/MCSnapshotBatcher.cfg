\* Four versions are enough for a batch of two behind a batch in flight and one more after it.
CONSTANTS
  MaxVersion = 4
  Snapshots = {s1, s2}
  s1 = s1
  s2 = s2
  Outcomes = {"ok", "failed"}
  NoBatch = NoBatch
SPECIFICATION FairBatcherSpec
INVARIANT WaitingCallsAreOwned
PROPERTIES
  EveryCallAnswered
  DeliverySpec
CHECK_DEADLOCK FALSE
