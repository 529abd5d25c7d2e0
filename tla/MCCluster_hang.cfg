CONSTANTS
    w1 = w1
    Workers = {w1}
    NQueries = 1
    Prios = {0, 1}
    ScriptLen = 2
    NoEnd = {}
    Algoritmo = "FIFO"
    RelockBlocks = TRUE
    NoWorker = NoWorker
    WorkerCrashes = FALSE
    QcDisconnects = FALSE
SPECIFICATION FairSpec
PROPERTY SchedulerProgress
CHECK_DEADLOCK FALSE
