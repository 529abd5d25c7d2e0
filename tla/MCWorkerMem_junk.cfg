\* Reproduction: READ of a page past the end of its tag.
CONSTANTS
    Base = Base
    A = A
    Tags <- MCTags
    Threads = {s1}
    Srv = s1
    s1 = s1
    NBlocks = 4
    MaxBlocks = 2
    Payloads = {P1}
    P1 = P1
    Zeros = Zeros
    Nul = Nul
    Requests <- AllRequests
    TagOverwrite = FALSE
    IoFails = FALSE
    NoBlock = NoBlock
    NoMeta = NoMeta
    NFrames = 2
    Algo = "CLOCK-M"
    ValidWrites = TRUE
    NoPage = NoPage
    Junk = Junk
    None = None
SPECIFICATION Spec
INVARIANT MissingPageReadsZero
CHECK_DEADLOCK FALSE
