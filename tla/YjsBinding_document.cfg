SPECIFICATION Spec
CONSTANTS
    Stores = {"p", "q"}
    Setups <- MCSetups
INVARIANTS
    StoresAgree
PROPERTIES
    WritesAreDiffs
    Settles
CHECK_DEADLOCK FALSE
