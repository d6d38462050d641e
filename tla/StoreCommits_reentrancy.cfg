SPECIFICATION Spec
CONSTANTS
  CommitListeners = {l1, l2}
  Subscribers = {s1}
  Transport = Transport
  MaxCalls = 3
INVARIANTS
  NothingLeftBehind
  SubscribersAreCurrent
PROPERTIES
  ImplementsLog
SYMMETRY Symmetry
CHECK_DEADLOCK FALSE
