SPECIFICATION Spec
CONSTANTS
    Components = {"x", "y"}
    Deriveds <- MCDeriveds
    Setups <- MCSetups
    Trackers <- MCTrackers
    MaxWrites = 2
    MaxTurns = 1
    SmallReads = 1
    Gaps = {}
INVARIANTS
    ShownIsCurrent
    TrieIsExact
PROPERTIES
    OnlyReadersRender
CHECK_DEADLOCK FALSE
