\* One Worker connection sending every request, DELETE included.
CONSTANTS
    Threads = {s1}
    Base = Base
    A = A
    B = B
    Tags <- MCTags
    NBlocks = 3
    MaxBlocks = 2
    Payloads = {P1, P2}
    Zeros = Zeros
    Nul = Nul
    Requests <- AllRequests
    TagOverwrite = FALSE
    IoFails = FALSE
    NoBlock = NoBlock
    NoMeta = NoMeta
SPECIFICATION Spec
INVARIANT LinksMatchMeta
CHECK_DEADLOCK FALSE
