CONSTANTS
    w1 = w1
    w2 = w2
    Workers = {w1, w2}
    NQueries = 2
    Prios = {0, 1}
    ScriptLen = 2
    NoEnd = {}
    Algoritmo = "PRIORIDADES"
    RelockBlocks = FALSE
    NoWorker = NoWorker
    WorkerCrashes = TRUE
    QcDisconnects = TRUE
SPECIFICATION FairSpec
PROPERTY SchedulerProgress
CHECK_DEADLOCK FALSE
