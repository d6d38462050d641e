SPECIFICATION Spec
CONSTANTS
  Keys <- MCKeys
  Values <- MCValues
  Odd <- MCOdd
  Initial <- MCInitial
  Projections <- MCProjections
  Limit = 2
  MaxWrites = 3
  MaxMoves = 3
  MaxDepth = 2
  Faults <- MCFaults
INVARIANTS
  TimelineIsShown
PROPERTIES
  ImplementsTimeline
CHECK_DEADLOCK FALSE
