\* One Worker and one query whose script has no END line, under the
\* fairness of the Master and Worker threads: run() runs out of lines.
CONSTANTS
    w1 = w1
    Workers = {w1}
    NQueries = 1
    Prios = {0}
    ScriptLen = 2
    NoEnd = {0}
    Algoritmo = "FIFO"
    RelockBlocks = FALSE
    NoWorker = NoWorker
    WorkerCrashes = FALSE
    QcDisconnects = FALSE
SPECIFICATION FairSpec
PROPERTY QueryLeavesExec
CHECK_DEADLOCK FALSE
