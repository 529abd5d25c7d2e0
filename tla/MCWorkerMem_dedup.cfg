\* Two payloads: DELETE frees a committed block and leaves its md5 in the
\* index; a later COMMIT of the Worker's flushed page dedups onto that
\* block, reused with other data, and the WRITE is lost.
CONSTANTS
    Base = Base
    A = A
    Tags <- MCTags
    Threads = {s1}
    Srv = s1
    s1 = s1
    NBlocks = 4
    MaxBlocks = 2
    Payloads = {P1, P2}
    P1 = P1
    P2 = P2
    Zeros = Zeros
    Nul = Nul
    Requests <- AllRequests
    TagOverwrite = FALSE
    IoFails = FALSE
    NoBlock = NoBlock
    NoMeta = NoMeta
    NFrames = 2
    Algo = "CLOCK-M"
    ValidWrites = TRUE
    NoPage = NoPage
    Junk = Junk
    None = None
SPECIFICATION Spec
INVARIANT NoLostWrite
CHECK_DEADLOCK FALSE
