\* One time unit is 50 ms: TIEMPO_AGING 150 ms, the aging usleep 100 ms,
\* the back-off 50 ms; now_ms() wraps at 16 and may be set back by 150 ms.
CONSTANTS
    q1 = q1
    q2 = q2
    Queries = {q1, q2}
    InitPrio <- MCInitPrio
    RunPrio = 1
    TiempoAging = 3
    AgingPeriod = 2
    Backoff = 1
    ClockWrap = 16
    ClockSteps = {3}
    MaxTime = 12
    NoWorker = NoWorker
SPECIFICATION Spec
INVARIANT AgingNoFasterThanTime
CHECK_DEADLOCK FALSE
