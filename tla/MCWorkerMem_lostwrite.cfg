\* Reproduction: scripts that WRITE a COMMITED tag or past its end.
CONSTANTS
    Base = Base
    A = A
    Tags <- MCTags
    Threads = {s1}
    Srv = s1
    s1 = s1
    NBlocks = 4
    MaxBlocks = 2
    Payloads = {P1}
    P1 = P1
    Zeros = Zeros
    Nul = Nul
    Requests <- AllRequests
    TagOverwrite = FALSE
    IoFails = FALSE
    NoBlock = NoBlock
    NoMeta = NoMeta
    NFrames = 2
    Algo = "CLOCK-M"
    ValidWrites = FALSE
    NoPage = NoPage
    Junk = Junk
    None = None
SPECIFICATION Spec
INVARIANT NoLostWrite
CHECK_DEADLOCK FALSE
