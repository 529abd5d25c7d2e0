\* write_physical fails after bm_set.
CONSTANTS
    Threads = {s1}
    Base = Base
    A = A
    B = B
    Tags <- MCTags
    NBlocks = 4
    MaxBlocks = 2
    Payloads = {P1, P2}
    Zeros = Zeros
    Nul = Nul
    Requests <- NoDelete
    TagOverwrite = FALSE
    IoFails = TRUE
    NoBlock = NoBlock
    NoMeta = NoMeta
SPECIFICATION Spec
INVARIANT AllocationSound
CHECK_DEADLOCK FALSE
