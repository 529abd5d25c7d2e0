\* Two Workers, two queries (the first only END, the second one line and no END), PRIORIDADES,
\* Worker crashes and client disconnects, under the fairness of the Master
\* and Worker threads.
CONSTANTS
    w1 = w1
    w2 = w2
    Workers = {w1, w2}
    NQueries = 2
    Prios = {0, 1}
    ScriptLen = 1
    NoEnd = {1}
    Algoritmo = "PRIORIDADES"
    RelockBlocks = FALSE
    NoWorker = NoWorker
    WorkerCrashes = TRUE
    QcDisconnects = TRUE
SPECIFICATION FairSpec
INVARIANT TypeOK MutualExclusion NoDoubleExecution
PROPERTY SchedulerProgress
CHECK_DEADLOCK FALSE
