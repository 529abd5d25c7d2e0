\* DELETE frees a block the hash index still names.
CONSTANTS
    Threads = {s1}
    Base = Base
    A = A
    B = B
    Tags <- MCTags
    NBlocks = 4
    MaxBlocks = 2
    Payloads = {P1, P2}
    Zeros = Zeros
    Nul = Nul
    Requests <- AllRequests
    TagOverwrite = FALSE
    IoFails = FALSE
    NoBlock = NoBlock
    NoMeta = NoMeta
SPECIFICATION Spec
PROPERTY AbsSpec
CHECK_DEADLOCK FALSE
