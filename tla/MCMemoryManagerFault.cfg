\* The OS gives all it is asked for.
CONSTANTS
    W = 2
    Page = 6
    High = 48
    Sizes = {1, 9}
    CommitLimit = 8
    MaxBlocks = 4
    MaxDenials = 0
SPECIFICATION Spec
CHECK_DEADLOCK FALSE
INVARIANTS
    FaultsNeedFailure
