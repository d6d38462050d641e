SPECIFICATION FairSpec
CONSTANTS
  MaxWrites = 2
  MaxStarts = 2
  MaxCalls = 2
  MaxFaults = 2
  Versions = {1, 2}
  Faults = {"crash", "read", "apply", "write", "throw"}
  UserCalls = {"rehydrate", "clear", "destroy"}
INVARIANTS
  StoredIsShown
  ClearedStaysCleared
PROPERTIES
  StoredStaysStored
  OwedIsStored
CHECK_DEADLOCK FALSE
