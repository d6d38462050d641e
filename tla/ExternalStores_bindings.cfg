SPECIFICATION Spec
CONSTANTS
    Keys = {"x", "y"}
    Values = {0, 1, 2}
    Refusable = 2
    First = 0
    Setups <- MCSetups
    MaxWrites = 6
INVARIANTS
    CommitsLeadToState
    RefusedNeverStays
    SubscribersHear
CHECK_DEADLOCK FALSE
