\* DEVOLVER_PC re-enqueues the preempted query before it updates running_qid
\* (master_worker.c:118-131): counting that slot, a query is in two places.
CONSTANTS
    w1 = w1
    w2 = w2
    Workers = {w1, w2}
    NQueries = 2
    Prios = {0, 1}
    ScriptLen = 1
    NoEnd = {1}
    Algoritmo = "PRIORIDADES"
    RelockBlocks = FALSE
    NoWorker = NoWorker
    WorkerCrashes = TRUE
    QcDisconnects = TRUE
SPECIFICATION FairSpec
INVARIANT MutualExclusionStale
CHECK_DEADLOCK FALSE
