\* Two Worker connections writing at once.
CONSTANTS
    Threads = {s1, s2}
    Base = Base
    A = A
    B = B
    Tags <- MCTags
    NBlocks = 4
    MaxBlocks = 2
    Payloads = {P1, P2}
    Zeros = Zeros
    Nul = Nul
    Requests <- NoDelete
    TagOverwrite = FALSE
    IoFails = FALSE
    NoBlock = NoBlock
    NoMeta = NoMeta
SPECIFICATION Spec
INVARIANT WriteNotClobbered
CHECK_DEADLOCK FALSE
