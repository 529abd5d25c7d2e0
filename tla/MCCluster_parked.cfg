CONSTANTS
    w1 = w1
    Workers = {w1}
    NQueries = 2
    Prios = {0, 1}
    ScriptLen = 2
    NoEnd = {}
    Algoritmo = "PRIORIDADES"
    RelockBlocks = FALSE
    NoWorker = NoWorker
    WorkerCrashes = FALSE
    QcDisconnects = FALSE
SPECIFICATION Spec
INVARIANT ParkedOnBusyWorker
CHECK_DEADLOCK FALSE
