SPECIFICATION Spec
CONSTANTS
    Ids = {1, 2}
    Setups <- MCSetups
INVARIANTS
    LatestIsShown
    BaselineIsTold
PROPERTIES
    AckedIsOnRemote
    Drains
CHECK_DEADLOCK FALSE
