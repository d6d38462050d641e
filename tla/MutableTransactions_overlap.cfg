SPECIFICATION Spec
CONSTANTS
  Actions = {a1, a2, a3}
  None = None
  MaxWrites = 3
  Faults = {"refuse", "throw", "update"}
SYMMETRY Symmetry
INVARIANTS
  CommitsRebuildState
  EachWriteInOnePlace
  DraftIsOwned
CHECK_DEADLOCK FALSE
