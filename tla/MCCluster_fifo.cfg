CONSTANTS
    w1 = w1
    Workers = {w1}
    NQueries = 3
    Prios = {0, 1}
    ScriptLen = 2
    NoEnd = {}
    Algoritmo = "FIFO"
    RelockBlocks = FALSE
    NoWorker = NoWorker
    WorkerCrashes = FALSE
    QcDisconnects = FALSE
SPECIFICATION Spec
PROPERTY FifoOrder
CHECK_DEADLOCK FALSE
