\* Words of 2 bytes and pages of one and a half records; blocks of less than a
\* word and of many, either with slack; the OS denies one request.
CONSTANTS
    W = 2
    Page = 6
    High = 48
    Sizes = {1, 9}
    CommitLimit = 8
    MaxBlocks = 4
    MaxDenials = 1
SPECIFICATION Spec
CHECK_DEADLOCK FALSE
INVARIANTS
    BlocksSound
    AuditsPass
PROPERTIES
    
    ImplementsHeap
