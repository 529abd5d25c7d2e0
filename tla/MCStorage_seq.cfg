\* One Worker connection, no DELETE, no TAG over an existing tag, no I/O
\* errors: the requests under which the server keeps its promises.
CONSTANTS
    Threads = {s1}
    Base = Base
    A = A
    B = B
    Tags <- MCTags
    NBlocks = 4
    MaxBlocks = 2
    Payloads = {P1, P2}
    Zeros = Zeros
    Nul = Nul
    Requests <- NoDelete
    TagOverwrite = FALSE
    IoFails = FALSE
    NoBlock = NoBlock
    NoMeta = NoMeta
SPECIFICATION NoDeleteSpec
INVARIANT TypeOK AllocationSound HashIndexSound
PROPERTY AbsSpec
CHECK_DEADLOCK FALSE
