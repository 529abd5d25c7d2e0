CONSTANTS
    MaxLen = 4
    MaxPrio = 2
    NoWorker = NoWorker
    Channels = {"MasterToQc"}
    HostOrders = {"LE"}
    BlockSize = 2
    MaxLater = 2
    U32Vals = {0, 258}
    StrVals <- MCStrVals
SPECIFICATION Spec
INVARIANT PopIsStableMin
INVARIANT VictimIsLastWorst
INVARIANT FramesRoundTrip
CHECK_DEADLOCK FALSE
