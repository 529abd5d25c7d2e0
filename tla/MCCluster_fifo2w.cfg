CONSTANTS
    w1 = w1
    w2 = w2
    Workers = {w1, w2}
    NQueries = 2
    Prios = {0, 1}
    ScriptLen = 2
    NoEnd = {}
    Algoritmo = "FIFO"
    RelockBlocks = FALSE
    NoWorker = NoWorker
    WorkerCrashes = TRUE
    QcDisconnects = TRUE
SPECIFICATION Spec
SYMMETRY WorkerSymmetry
INVARIANT TypeOK
INVARIANT MutualExclusion
INVARIANT NoDoubleExecution
CHECK_DEADLOCK FALSE
