SPECIFICATION Spec
CONSTANTS
  Clients = {c1}
  Calls = {k1}
  NoOne = NoOne
  MaxEpoch = 2
  MaxSequence = 2
  MaxConnects = 2
  MaxPending = 1
  Faults = {"duplicate","fail"}
INVARIANTS
  MirrorShowsHistory
PROPERTIES
  ImplementsHistory
  ResolvesCaughtUp
CHECK_DEADLOCK FALSE
