\* The process killed half-way through a request and restarted without
\* FRESH_START: a tag's data later changes under a request that names
\* another tag.
CONSTANTS
    Threads = {s1}
    Base = Base
    A = A
    B = B
    Tags <- MCTags
    NBlocks = 4
    MaxBlocks = 2
    Payloads = {P1, P2}
    Zeros = Zeros
    Nul = Nul
    Requests <- NoDelete
    TagOverwrite = FALSE
    IoFails = FALSE
    NoBlock = NoBlock
    NoMeta = NoMeta
    FRESH_START = FALSE
    MaxRestarts = 1
INIT RInit
NEXT KillNext
PROPERTY AbsSpec
CHECK_DEADLOCK FALSE
