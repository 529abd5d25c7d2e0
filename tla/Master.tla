------------------------------- MODULE Master -------------------------------
(***************************************************************************)
(* The Master process (src/master/src): the query registry g_queries, the  *)
(* READY queue g_ready, the Worker pool g_workers, and the threads that    *)
(* share them:                                                             *)
(*   - master_scheduler_loop, one step per critical section or send;       *)
(*   - master_handle_worker, one step per message read from a Worker;      *)
(*   - master_handle_qc, admission and disconnection of a Query Control.   *)
(* Each handler that runs with no lock between its reads and writes is one *)
(* atomic step; the scheduler is split where it releases m_ready or        *)
(* m_workers, since other threads run in those windows.                    *)
(* Connections are FIFO channels: toWorker[w] (Master -> Worker) and       *)
(* toMaster[w] (Worker -> Master); a send on a dead connection is lost.    *)
(* qcFin[q] counts MASTER_FIN messages that reached query q's client.      *)
(***************************************************************************)
EXTENDS Integers, Sequences, SequencesExt

CONSTANTS
    Workers,      \* Worker ids (model values)
    NQueries,     \* number of Query Control sessions; qids are 0..NQueries-1
    Prios,        \* priorities a client may submit
    Algoritmo,    \* ALGORITMO_PLANIFICACION: "FIFO" or "PRIORIDADES"
    RelockBlocks, \* TRUE: the nested pthread_mutex_lock(&m_ready) blocks (glibc)
    NoWorker      \* worker_fd == -1 / vict == NULL

VARIABLES
    nextQid,      \* g_next_qid
    estado,       \* q->estado, "ABSENT" before the query exists
    prioridad,    \* q->prioridad
    pc,           \* q->pc
    workerFd,     \* q->worker_fd, as the Worker it designates
    ready,        \* g_ready
    pool,         \* g_workers, in registration order
    ocupado,      \* w->ocupado
    running,      \* w->running_qid
    nextQ,        \* w->next_q
    sched,        \* the scheduler thread: where it is and its locals q, w, vict_q
    dispatched,   \* history: queries that have been sent MASTER_ASIGNAR_QUERY
    toWorker, toMaster, qcConn, qcFin, wproc,
    hstep         \* each master_handle_worker thread: "recv", or "handoff" between
                  \* DEVOLVER_PC's master_enqueue_ready and its next_q check

Qids == 0..(NQueries - 1)
NONE == -1                 \* running_qid == 0xFFFFFFFF, next_q == NULL

RQ == INSTANCE ReadyQueue

Msg(op, q, n) == [op |-> op, q |-> q, pc |-> n]

-----------------------------------------------------------------------------
(* Helpers for the calls every handler makes. *)

\* send_master_asignar_query / send_master_desalojar: lost when the peer is gone.
Send(w, m) ==
    toWorker' = IF wproc[w] = "up"
                THEN [toWorker EXCEPT ![w] = Append(@, m)] ELSE toWorker

\* send_master_fin to q->qc_fd: delivered only while that client is connected.
NotifyQc(q) ==
    qcFin' = IF qcConn[q] = "open" THEN [qcFin EXCEPT ![q] = @ + 1] ELSE qcFin

\* master_enqueue_ready needs m_ready, which a hung scheduler never releases.
ReadyLockFree == sched.at # "stuck"

Enqueue(q) == ready' = Append(ready, q)

InPool(w) == \E i \in DOMAIN pool : pool[i] = w

\* Mutant for the checks: ocupado cleared, running_qid left as it was.
FreeWorkerKeepQid(w) ==
    /\ ocupado' = [ocupado EXCEPT ![w] = FALSE]
    /\ UNCHANGED running

\* w->ocupado = false; w->running_qid = 0xFFFFFFFF.
FreeWorker(w) ==
    /\ ocupado' = [ocupado EXCEPT ![w] = FALSE]
    /\ running' = [running EXCEPT ![w] = NONE]

-----------------------------------------------------------------------------
(* master_handle_qc *)

\* Admission: a new t_query (READY, pc 0), put in g_queries, then enqueued.
QcSubmit ==
    /\ nextQid < NQueries
    /\ ReadyLockFree
    /\ \E p \in Prios :
         LET q == nextQid IN
         /\ nextQid'   = nextQid + 1
         /\ estado'    = [estado EXCEPT ![q] = "READY"]
         /\ prioridad' = [prioridad EXCEPT ![q] = p]
         /\ qcConn'    = [qcConn EXCEPT ![q] = "open"]
         /\ Enqueue(q)
    /\ UNCHANGED <<pc, workerFd, pool, ocupado, running, nextQ, sched,
                   dispatched, toWorker, toMaster, qcFin, wproc, hstep>>

\* Disconnection: READY => EXIT; EXEC with a worker_fd => DESALOJAR, EXIT.
\* The query is left wherever it is (g_ready, a next_q slot, a Worker).
QcDisconnect(q) ==
    /\ qcConn[q] = "open"
    /\ qcConn' = [qcConn EXCEPT ![q] = "closed"]
    /\ \/ /\ estado[q] = "READY"
          /\ estado' = [estado EXCEPT ![q] = "EXIT"]
          /\ UNCHANGED toWorker
       \/ /\ estado[q] = "EXEC" /\ workerFd[q] # NoWorker
          /\ Send(workerFd[q], Msg("DESALOJAR", q, 0))
          /\ estado' = [estado EXCEPT ![q] = "EXIT"]
       \/ /\ ~(estado[q] = "READY" \/ (estado[q] = "EXEC" /\ workerFd[q] # NoWorker))
          /\ UNCHANGED <<estado, toWorker>>
    /\ UNCHANGED <<nextQid, prioridad, pc, workerFd, ready, pool, ocupado, running,
                   nextQ, sched, dispatched, toMaster, qcFin, wproc, hstep>>

-----------------------------------------------------------------------------
(* master_handle_worker *)

\* WORKER_IDENTIFICACION: a free t_worker appended to g_workers.
RegisterWorker(w) ==
    /\ pool'    = Append(pool, w)
    /\ ocupado' = [ocupado EXCEPT ![w] = FALSE]
    /\ running' = [running EXCEPT ![w] = NONE]
    /\ nextQ'   = [nextQ EXCEPT ![w] = NONE]

\* WORKER_FIN: the query is EXIT, its client told, the Worker freed.
OnFin(w) ==
    LET m == Head(toMaster[w]) IN
    /\ hstep[w] = "recv"
    /\ toMaster[w] # <<>> /\ m.op = "FIN"
    /\ toMaster' = [toMaster EXCEPT ![w] = Tail(@)]
    /\ estado'   = [estado EXCEPT ![m.q] = "EXIT"]
    /\ NotifyQc(m.q)
    /\ FreeWorker(w)
    /\ UNCHANGED <<nextQid, prioridad, pc, workerFd, ready, pool, nextQ, sched,
                   dispatched, toWorker, qcConn, wproc, hstep>>

\* WORKER_DEVOLVER_PC, first part: the query gets its pc back, is READY
\* again and master_enqueue_ready puts it in g_ready (signalling c_ready).
\* running_qid, ocupado and next_q are not touched yet, and no lock is
\* held across the two parts: the scheduler may pop the query meanwhile.
OnDevolverPc(w) ==
    LET m == Head(toMaster[w]) IN
    /\ hstep[w] = "recv"
    /\ toMaster[w] # <<>> /\ m.op = "DEVOLVER_PC"
    /\ ReadyLockFree
    /\ toMaster' = [toMaster EXCEPT ![w] = Tail(@)]
    /\ pc'       = [pc EXCEPT ![m.q] = m.pc]
    /\ estado'   = [estado EXCEPT ![m.q] = "READY"]
    /\ workerFd' = [workerFd EXCEPT ![m.q] = NoWorker]
    /\ Enqueue(m.q)
    /\ hstep'    = [hstep EXCEPT ![w] = "handoff"]
    /\ UNCHANGED <<nextQid, prioridad, pool, ocupado, running, nextQ, sched,
                   dispatched, toWorker, qcConn, qcFin, wproc>>

\* Second part: next_q, if any, is dispatched on this Worker at once (EXEC,
\* MASTER_ASIGNAR_QUERY), otherwise the Worker is freed.
DevolverHandOff(w) ==
    LET nq == nextQ[w] IN
    /\ hstep[w] = "handoff"
    /\ hstep'   = [hstep EXCEPT ![w] = "recv"]
    /\ \/ /\ nq # NONE
          /\ estado'   = [estado EXCEPT ![nq] = "EXEC"]
          /\ workerFd' = [workerFd EXCEPT ![nq] = w]
          /\ nextQ'    = [nextQ EXCEPT ![w] = NONE]
          /\ ocupado'  = [ocupado EXCEPT ![w] = TRUE]
          /\ running'  = [running EXCEPT ![w] = nq]
          /\ dispatched' = dispatched \cup {nq}
          /\ Send(w, Msg("ASIGNAR", nq, pc[nq]))
       \/ /\ nq = NONE
          /\ FreeWorker(w)
          /\ UNCHANGED <<estado, workerFd, nextQ, dispatched, toWorker>>
    /\ UNCHANGED <<nextQid, prioridad, pc, ready, pool, sched, toMaster, qcConn,
                   qcFin, wproc>>

\* Mutant for the checks: master_enqueue_ready(w->next_q) with no NULL test.
RequeueParkedUnchecked(w) ==
    /\ ReadyLockFree
    /\ Enqueue(nextQ[w])
    /\ nextQ' = [nextQ EXCEPT ![w] = NONE]

\* if (w->next_q) { master_enqueue_ready(w->next_q); w->next_q = NULL; }
RequeueParked(w) ==
    \/ /\ nextQ[w] # NONE
       /\ ReadyLockFree
       /\ Enqueue(nextQ[w])
       /\ nextQ' = [nextQ EXCEPT ![w] = NONE]
    \/ /\ nextQ[w] = NONE
       /\ UNCHANGED <<ready, nextQ>>

\* recibir_operacion <= 0: tell the running query's client (the query itself
\* is left as it is), drop the Worker from g_workers, re-enqueue next_q.
OnWorkerEof(w) ==
    /\ hstep[w] = "recv"
    /\ toMaster[w] # <<>> /\ Head(toMaster[w]).op = "EOF"
    /\ toMaster' = [toMaster EXCEPT ![w] = Tail(@)]
    /\ IF running[w] # NONE THEN NotifyQc(running[w]) ELSE UNCHANGED qcFin
    /\ pool' = SelectSeq(pool, LAMBDA x : x # w)
    /\ RequeueParked(w)
    /\ UNCHANGED <<nextQid, estado, prioridad, pc, workerFd, ocupado, running,
                   sched, dispatched, toWorker, qcConn, wproc, hstep>>

-----------------------------------------------------------------------------
(* master_scheduler_loop.  sched.at names the next step of the thread. *)

\* Wake on a non-empty g_ready and pop_ready_siguiente, under m_ready.
SchedPop ==
    /\ sched.at = "wait" /\ ready # <<>>
    /\ ~RelockBlocks
    /\ LET r == RQ!PopNext(ready, prioridad, Algoritmo) IN
       /\ ready' = r[2]
       /\ sched' = [sched EXCEPT !.at = "find", !.q = r[1]]
    /\ UNCHANGED <<nextQid, estado, prioridad, pc, workerFd, pool, ocupado, running,
                   nextQ, dispatched, toWorker, toMaster, qcConn, qcFin, wproc, hstep>>

\* The same step when pop_ready_siguiente's own lock of m_ready (already held
\* by the loop) blocks: the thread hangs holding m_ready.
SchedHang ==
    /\ sched.at = "wait" /\ ready # <<>>
    /\ RelockBlocks
    /\ sched' = [sched EXCEPT !.at = "stuck"]
    /\ UNCHANGED <<nextQid, estado, prioridad, pc, workerFd, ready, pool, ocupado,
                   running, nextQ, dispatched, toWorker, toMaster, qcConn, qcFin, wproc, hstep>>

\* Mutant for the checks: the scan starts at i = 1 and skips the first Worker.
IdleWorkersSkipFirst ==
    SelectSeq(SubSeq(pool, 2, Len(pool)), LAMBDA x : ~ocupado[x])

IdleWorkers == SelectSeq(pool, LAMBDA x : ~ocupado[x])

\* First free Worker of g_workers, under m_workers.
SchedFindIdle ==
    /\ sched.at = "find" /\ IdleWorkers # <<>>
    /\ sched' = [sched EXCEPT !.at = "assign", !.w = Head(IdleWorkers)]
    /\ UNCHANGED <<nextQid, estado, prioridad, pc, workerFd, ready, pool, ocupado,
                   running, nextQ, dispatched, toWorker, toMaster, qcConn, qcFin, wproc, hstep>>

\* No free Worker: PRIORIDADES goes on to the victim scan; otherwise
\* master_enqueue_ready(q) and usleep.
SchedNoIdle ==
    /\ sched.at = "find" /\ IdleWorkers = <<>>
    /\ \/ /\ Algoritmo = "PRIORIDADES"
          /\ sched' = [sched EXCEPT !.at = "victim"]
          /\ UNCHANGED ready
       \/ /\ Algoritmo # "PRIORIDADES"
          /\ Enqueue(sched.q)
          /\ sched' = [sched EXCEPT !.at = "wait"]
    /\ UNCHANGED <<nextQid, estado, prioridad, pc, workerFd, pool, ocupado, running,
                   nextQ, dispatched, toWorker, toMaster, qcConn, qcFin, wproc, hstep>>

\* The victim scan under m_workers; no victim => re-enqueue and usleep.
SchedVictim ==
    LET vict == RQ!SelectVictim(pool, ocupado, running, prioridad, prioridad[sched.q])
    IN
    /\ sched.at = "victim"
    /\ \/ /\ vict # NoWorker
          /\ sched' = [sched EXCEPT !.at = "preempt", !.w = vict, !.vq = running[vict]]
          /\ UNCHANGED ready
       \/ /\ vict = NoWorker
          /\ Enqueue(sched.q)
          /\ sched' = [sched EXCEPT !.at = "wait"]
    /\ UNCHANGED <<nextQid, estado, prioridad, pc, workerFd, pool, ocupado, running,
                   nextQ, dispatched, toWorker, toMaster, qcConn, qcFin, wproc, hstep>>

\* send_master_desalojar(vict->fd, vict_q->id), outside every lock.
SchedPreempt ==
    /\ sched.at = "preempt"
    /\ Send(sched.w, Msg("DESALOJAR", sched.vq, 0))
    /\ sched' = [sched EXCEPT !.at = "park"]
    /\ UNCHANGED <<nextQid, estado, prioridad, pc, workerFd, ready, pool, ocupado,
                   running, nextQ, dispatched, toMaster, qcConn, qcFin, wproc, hstep>>

\* Mutant for the checks: the `continue` after parking is missing, so the
\* loop falls through to master_enqueue_ready(q) as well.
SchedParkNoContinue ==
    /\ sched.at = "park"
    /\ nextQ' = [nextQ EXCEPT ![sched.w] = sched.q]
    /\ ReadyLockFree
    /\ Enqueue(sched.q)
    /\ sched' = [sched EXCEPT !.at = "wait"]
    /\ UNCHANGED <<nextQid, estado, prioridad, pc, workerFd, pool, ocupado,
                   running, dispatched, toWorker, toMaster, qcConn, qcFin, wproc, hstep>>

\* vict->next_q = q under m_workers; q is not re-enqueued.
SchedPark ==
    /\ sched.at = "park"
    /\ nextQ' = [nextQ EXCEPT ![sched.w] = sched.q]
    /\ sched' = [sched EXCEPT !.at = "wait"]
    /\ UNCHANGED <<nextQid, estado, prioridad, pc, workerFd, ready, pool, ocupado,
                   running, dispatched, toWorker, toMaster, qcConn, qcFin, wproc, hstep>>

\* Assignment, with no lock held: EXEC, bound to w, w busy, ASIGNAR sent.
SchedAssign ==
    LET q == sched.q
        w == sched.w
    IN
    /\ sched.at = "assign"
    /\ estado'   = [estado EXCEPT ![q] = "EXEC"]
    /\ workerFd' = [workerFd EXCEPT ![q] = w]
    /\ ocupado'  = [ocupado EXCEPT ![w] = TRUE]
    /\ running'  = [running EXCEPT ![w] = q]
    /\ dispatched' = dispatched \cup {q}
    /\ Send(w, Msg("ASIGNAR", q, pc[q]))
    /\ sched' = [sched EXCEPT !.at = "wait"]
    /\ UNCHANGED <<nextQid, prioridad, pc, ready, pool, nextQ, toMaster, qcConn,
                   qcFin, wproc, hstep>>

SchedStep ==
    SchedPop \/ SchedHang \/ SchedFindIdle \/ SchedNoIdle \/ SchedVictim
    \/ SchedPreempt \/ SchedPark \/ SchedAssign

\* The holding states of the scheduler: it has popped sched.q and not yet
\* placed it anywhere.
SchedHolds(q) == sched.at \in {"find", "assign", "victim", "preempt", "park"}
                 /\ sched.q = q
=============================================================================
