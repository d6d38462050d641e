SPECIFICATION FairSpec
CONSTANTS
  Clients = {c1}
  Calls = {k1}
  NoOne = NoOne
  MaxEpoch = 2
  MaxSequence = 1
  MaxConnects = 1
  MaxPending = 6
  Faults = {}
PROPERTIES
  CallsSettle
  MirrorConverges
CHECK_DEADLOCK FALSE
