\* read_physical fails in the middle of a COMMIT.
CONSTANTS
    Threads = {s1}
    Base = Base
    A = A
    B = B
    Tags <- MCTags
    NBlocks = 4
    MaxBlocks = 2
    Payloads = {P1, P2}
    Zeros = Zeros
    Nul = Nul
    Requests <- NoDelete
    TagOverwrite = FALSE
    IoFails = TRUE
    NoBlock = NoBlock
    NoMeta = NoMeta
SPECIFICATION Spec
INVARIANT LinksMatchMeta
CHECK_DEADLOCK FALSE
