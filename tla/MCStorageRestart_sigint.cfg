\* SIGINT half-way through a COMMIT: hi_sync saves the index entries of a
\* tag whose metadata never became COMMITED; after the restart a TRUNCATE
\* frees a block the index still names.
CONSTANTS
    Threads = {s1}
    Base = Base
    A = A
    B = B
    Tags <- MCTags
    NBlocks = 4
    MaxBlocks = 2
    Payloads = {P1, P2}
    Zeros = Zeros
    Nul = Nul
    Requests <- NoDelete
    TagOverwrite = FALSE
    IoFails = FALSE
    NoBlock = NoBlock
    NoMeta = NoMeta
    FRESH_START = FALSE
    MaxRestarts = 1
INIT RInit
NEXT RNext
INVARIANT HashIndexSound
CHECK_DEADLOCK FALSE
