-------------------------------- MODULE Aging --------------------------------
(***************************************************************************)
(* Priority aging in the Master (master.c master_aging_loop, master_sched.c *)
(* now_ms and master_enqueue_ready) against the scheduler loop's retry      *)
(* path, over discrete time.  One time unit is 50 ms, the scheduler's       *)
(* back-off; the aging thread sleeps AgingPeriod units between passes.      *)
(* now is real time; wall is what now_ms() returns: a TIME_UTC clock, kept  *)
(* modulo ClockWrap (the uint64 of the code, scaled down), that can be      *)
(* stepped back by ClockSteps.  The pool is one Worker that stays busy with *)
(* a query of priority RunPrio, the case aging exists for: every query      *)
(* either preempts it or goes back to g_ready.                              *)
(* A thread whose sleep is over runs before time advances.                  *)
(***************************************************************************)
EXTENDS Integers, Sequences, SequencesExt, FiniteSets

CONSTANTS
    Queries,      \* qids of the submitted queries
    InitPrio,     \* the priority each client submits
    RunPrio,      \* priority of the query the busy Worker runs
    TiempoAging,  \* TIEMPO_AGING, in units (> 0: the aging thread runs)
    AgingPeriod,  \* usleep(100 * 1000) in the aging loop, in units
    Backoff,      \* usleep(50 * 1000) after a failed dispatch, in units
    ClockWrap,    \* now_ms() and last_aging_ms wrap at this value
    ClockSteps,   \* amounts by which the wall clock may be set back once
    MaxTime,      \* real time explored
    NoWorker      \* for the ReadyQueue instance

VARIABLES
    now,          \* real time
    wall,         \* now_ms(): TIME_UTC, modulo ClockWrap
    stepped,      \* the wall clock has been set back
    estado,       \* "NEW", "READY", or "PARKED" on the victim Worker
    prioridad,    \* q->prioridad
    last,         \* q->last_aging_ms
    ready,        \* g_ready
    agingWake,    \* when the aging thread's usleep ends
    sched,        \* the scheduler: at "wait", "decide" (holding q) or "sleep"
    readySince,   \* history: when q was submitted
    stamp,        \* history: real time of q's last master_enqueue_ready
    base,         \* history: q's priority at that enqueue
    seen          \* history: real time of the last aging pass that saw q

vars == <<now, wall, stepped, estado, prioridad, last, ready, agingWake, sched,
          readySince, stamp, base, seen>>

RQ == INSTANCE ReadyQueue

\* One entry of the aging pass (AgeOne): elapsed is a uint64 difference,
\* so a wall clock behind last_aging_ms wraps to a huge elapsed time.
\* The two operators before it are mutants for the checks: last_aging_ms
\* snapped to now, and the uint32 prioridad lowered by steps without the
\* "prioridad > steps" test, so it wraps below 0 (2^32 - k, written -k: TLC
\* integers stop below 2^31, and either lies outside every priority).
AgeOneSnap(p, l, w) ==
    LET elapsed == (w - l) % ClockWrap
        steps == elapsed \div TiempoAging
    IN IF elapsed >= TiempoAging
       THEN <<IF p > steps THEN p - steps ELSE 0, w>>
       ELSE <<p, l>>
AgeOneNoFloor(p, l, w) ==
    LET elapsed == (w - l) % ClockWrap
        steps == elapsed \div TiempoAging
    IN IF elapsed >= TiempoAging
       THEN <<p - steps, (l + steps * TiempoAging) % ClockWrap>>
       ELSE <<p, l>>
AgeOne(p, l, w) ==
    LET elapsed == (w - l) % ClockWrap
        steps == elapsed \div TiempoAging
    IN IF elapsed >= TiempoAging
       THEN <<IF p > steps THEN p - steps ELSE 0, (l + steps * TiempoAging) % ClockWrap>>
       ELSE <<p, l>>

\* master_enqueue_ready: stamp last_aging_ms with now_ms(), then append;
\* p is the query's priority as it enters (the history keeps it).
master_enqueue_ready(q, p) ==
    /\ last' = [last EXCEPT ![q] = wall]
    /\ ready' = Append(ready, q)
    /\ stamp' = [stamp EXCEPT ![q] = now]
    /\ base' = [base EXCEPT ![q] = p]
    /\ seen' = [seen EXCEPT ![q] = now]

Init ==
    /\ now = 0
    /\ wall \in 0..(ClockWrap - 1)
    /\ stepped = FALSE
    /\ estado = [q \in Queries |-> "NEW"]
    /\ prioridad = [q \in Queries |-> 0]
    /\ last = [q \in Queries |-> 0]
    /\ ready = <<>>
    /\ agingWake = AgingPeriod
    /\ sched = [at |-> "wait", q |-> NoWorker, wake |-> 0]
    /\ readySince = [q \in Queries |-> 0]
    /\ stamp = [q \in Queries |-> 0]
    /\ base = [q \in Queries |-> 0]
    /\ seen = [q \in Queries |-> 0]

(* master_handle_qc admission: the query enters READY with its priority.   *)
Submit(q) ==
    /\ estado[q] = "NEW"
    /\ estado' = [estado EXCEPT ![q] = "READY"]
    /\ prioridad' = [prioridad EXCEPT ![q] = InitPrio[q]]
    /\ readySince' = [readySince EXCEPT ![q] = now]
    /\ master_enqueue_ready(q, InitPrio[q])
    /\ UNCHANGED <<now, wall, stepped, agingWake, sched>>

(* One pass of master_aging_loop, all under m_ready: every entry of g_ready *)
(* is aged and pushed back in order; then the thread sleeps again.          *)
AgingPass ==
    /\ now >= agingWake
    /\ LET inReady == Range(ready) IN
       /\ prioridad' = [q \in Queries |-> IF q \in inReady
                                          THEN AgeOne(prioridad[q], last[q], wall)[1]
                                          ELSE prioridad[q]]
       /\ last' = [q \in Queries |-> IF q \in inReady
                                     THEN AgeOne(prioridad[q], last[q], wall)[2]
                                     ELSE last[q]]
       /\ seen' = [q \in Queries |-> IF q \in inReady THEN now ELSE seen[q]]
    /\ agingWake' = now + AgingPeriod
    /\ UNCHANGED <<now, wall, stepped, estado, ready, sched, readySince, stamp, base>>

(* master_scheduler_loop: pop under m_ready (pop_ready_siguiente)...       *)
SchedPop ==
    /\ sched.at = "wait" /\ ready # <<>>
    /\ LET r == RQ!PopNext(ready, prioridad, "PRIORIDADES") IN
       /\ ready' = r[2]
       /\ sched' = [sched EXCEPT !.at = "decide", !.q = r[1]]
    /\ UNCHANGED <<now, wall, stepped, estado, prioridad, last, agingWake,
                   readySince, stamp, base, seen>>

(* ...then, with no idle Worker, preempt the busy one if its query is worse *)
(* (the victim scan over a one-Worker pool), or re-enqueue q and back off.  *)
SchedDecide ==
    LET q == sched.q IN
    /\ sched.at = "decide"
    /\ \/ /\ RunPrio > prioridad[q]
          /\ estado' = [estado EXCEPT ![q] = "PARKED"]
          /\ sched' = [sched EXCEPT !.at = "wait", !.q = NoWorker]
          /\ UNCHANGED <<last, ready, stamp, base, seen>>
       \/ /\ RunPrio <= prioridad[q]
          /\ master_enqueue_ready(q, prioridad[q])
          /\ sched' = [sched EXCEPT !.at = "sleep", !.q = NoWorker, !.wake = now + Backoff]
          /\ UNCHANGED estado
    /\ UNCHANGED <<now, wall, stepped, prioridad, agingWake, readySince>>

SchedWake ==
    /\ sched.at = "sleep" /\ now >= sched.wake
    /\ sched' = [sched EXCEPT !.at = "wait"]
    /\ UNCHANGED <<now, wall, stepped, estado, prioridad, last, ready, agingWake,
                   readySince, stamp, base, seen>>

(* Time passes once no thread has anything to do now.                       *)
Tick ==
    /\ now < MaxTime
    /\ agingWake > now
    /\ sched.at = "sleep" => sched.wake > now
    /\ sched.at # "decide"
    /\ sched.at = "wait" => ready = <<>>
    /\ now' = now + 1
    /\ wall' = (wall + 1) % ClockWrap
    /\ UNCHANGED <<stepped, estado, prioridad, last, ready, agingWake, sched,
                   readySince, stamp, base, seen>>

(* The system clock is set back (NTP step, manual change): TIME_UTC follows. *)
StepBack ==
    /\ ~stepped
    /\ \E k \in ClockSteps : wall' = (wall - k) % ClockWrap
    /\ stepped' = TRUE
    /\ UNCHANGED <<now, estado, prioridad, last, ready, agingWake, sched,
                   readySince, stamp, base, seen>>

Next ==
    \/ \E q \in Queries : Submit(q)
    \/ AgingPass \/ SchedPop \/ SchedDecide \/ SchedWake
    \/ Tick \/ StepBack

Spec == Init /\ [][Next]_vars

Floor0(x) == IF x > 0 THEN x ELSE 0

TypeOK ==
    /\ now \in 0..MaxTime
    /\ wall \in 0..(ClockWrap - 1)
    /\ estado \in [Queries -> {"NEW", "READY", "PARKED"}]
    /\ prioridad \in [Queries -> 0..Max(Range(InitPrio))]   \* aging only lowers
    /\ last \in [Queries -> 0..(ClockWrap - 1)]
    /\ ready \in BoundedSeq(Queries, Cardinality(Queries))
    /\ sched.at \in {"wait", "decide", "sleep"}

(* Aging keeps the leftover wait (last_aging_ms += steps * TIEMPO_AGING,   *)
(* never last = now): while the wall clock runs forward, a READY query's    *)
(* priority is its priority at its last master_enqueue_ready lowered by     *)
(* one per whole TIEMPO_AGING from that enqueue to the last aging pass      *)
(* that saw it, however the passes fell -- the spec 8 example (10, 350 ms,  *)
(* threshold 100 ms -> 7) in every schedule.                                *)
AgingExact ==
    ~stepped =>
        \A q \in Queries :
            estado[q] = "READY" =>
                prioridad[q] = Floor0(base[q] - (seen[q] - stamp[q]) \div TiempoAging)

(* Aging is there to bound starvation (spec 7): a query READY since its     *)
(* submission W units ago has been lowered at least once per whole          *)
(* TIEMPO_AGING of W, less the one aging period that may not have run yet.  *)
AgingBoundsWait ==
    \A q \in Queries :
        (estado[q] = "READY" /\ now - readySince[q] >= AgingPeriod) =>
            prioridad[q] <= Floor0(InitPrio[q] - (now - readySince[q] - AgingPeriod) \div TiempoAging)

(* now_ms() only moves forward (spec 2: a monotonic timestamp): aging never *)
(* lowers a priority by more whole thresholds than real time has passed     *)
(* since the query's last enqueue.                                          *)
AgingNoFasterThanTime ==
    \A q \in Queries :
        estado[q] = "READY" =>
            prioridad[q] >= Floor0(base[q] - (now - stamp[q]) \div TiempoAging)
=============================================================================
