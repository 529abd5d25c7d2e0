CONSTANTS
    w1 = w1
    Workers = {w1}
    NQueries = 1
    Prios = {0, 1}
    ScriptLen = 2
    NoEnd = {}
    Algoritmo = "FIFO"
    RelockBlocks = FALSE
    NoWorker = NoWorker
    WorkerCrashes = TRUE
    QcDisconnects = FALSE
SPECIFICATION Spec
INVARIANT FinMeansExit
CHECK_DEADLOCK FALSE
