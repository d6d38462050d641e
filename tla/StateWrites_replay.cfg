SPECIFICATION Spec
CONSTANTS
    Starts <- MCStarts
    Payloads <- MCPayloads
    Setups <- MCSetups
    MaxCommits = 2
INVARIANTS
    CommitsReplay
    StateIsOwned
    SharedIsCarried
    SnapshotIsState
    RebaseCommutes
CHECK_DEADLOCK FALSE
