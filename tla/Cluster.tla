------------------------------- MODULE Cluster -------------------------------
(***************************************************************************)
(* The Master (module Master) composed with its Worker processes (module   *)
(* WorkerProc) over the per-Worker connections, and with the environment:  *)
(* Query Control clients that submit and later disconnect, and Workers     *)
(* that connect and may die.  The properties of the scheduling protocol    *)
(* are stated here, over the state of all of them.                         *)
(***************************************************************************)
EXTENDS Integers, Sequences, SequencesExt, FiniteSets

CONSTANTS
    Workers, NQueries, Prios, ScriptLen, NoEnd, Algoritmo, RelockBlocks, NoWorker,
    WorkerCrashes,   \* the environment may kill Worker processes
    QcDisconnects    \* clients may disconnect before their query ends

VARIABLES
    nextQid, estado, prioridad, pc, workerFd, ready, pool, ocupado, running,
    nextQ, sched, dispatched, toWorker, toMaster, qcConn, qcFin, wproc, exec, hstep

masterVars == <<nextQid, estado, prioridad, pc, workerFd, ready, pool, ocupado,
                running, nextQ, sched, dispatched, qcConn, qcFin, hstep>>
vars == <<masterVars, toWorker, toMaster, wproc, exec>>

M == INSTANCE Master
W == INSTANCE WorkerProc

Qids == M!Qids
NONE == M!NONE
QState == {"ABSENT", "READY", "EXEC", "EXIT"}
SchedAt == {"wait", "find", "assign", "victim", "preempt", "park", "stuck"}
MsgT == [op : {"ASIGNAR", "DESALOJAR", "FIN", "DEVOLVER_PC", "EOF"},
         q : Qids \cup {NONE}, pc : 0..ScriptLen]

Init ==
    /\ nextQid   = 0
    /\ estado    = [q \in Qids |-> "ABSENT"]
    /\ prioridad = [q \in Qids |-> 0]
    /\ pc        = [q \in Qids |-> 0]
    /\ workerFd  = [q \in Qids |-> NoWorker]
    /\ ready     = <<>>
    /\ pool      = <<>>
    /\ ocupado   = [w \in Workers |-> FALSE]
    /\ running   = [w \in Workers |-> NONE]
    /\ nextQ     = [w \in Workers |-> NONE]
    /\ sched     = [at |-> "wait", q |-> NONE, w |-> NoWorker, vq |-> NONE]
    /\ dispatched = {}
    /\ toWorker  = [w \in Workers |-> <<>>]
    /\ toMaster  = [w \in Workers |-> <<>>]
    /\ qcConn    = [q \in Qids |-> "none"]
    /\ qcFin     = [q \in Qids |-> 0]
    /\ wproc     = [w \in Workers |-> "off"]
    /\ exec      = [w \in Workers |-> W!IdleExec]
    /\ hstep     = [w \in Workers |-> "recv"]

-----------------------------------------------------------------------------
(* Environment *)

\* A Worker process starts and master_handle_worker registers it.
WorkerJoin(w) ==
    /\ W!Start(w)
    /\ M!RegisterWorker(w)
    /\ UNCHANGED <<nextQid, estado, prioridad, pc, workerFd, ready, sched,
                   dispatched, qcConn, qcFin, hstep>>

WorkerDies(w) ==
    /\ WorkerCrashes
    /\ W!Crash(w)
    /\ UNCHANGED masterVars

ClientLeaves(q) ==
    /\ QcDisconnects
    /\ M!QcDisconnect(q)
    /\ UNCHANGED exec

-----------------------------------------------------------------------------
MasterWorkerHandler(w) ==
    M!OnFin(w) \/ M!OnDevolverPc(w) \/ M!DevolverHandOff(w) \/ M!OnWorkerEof(w)

Next ==
    \/ M!QcSubmit /\ UNCHANGED exec
    \/ \E q \in Qids : ClientLeaves(q)
    \/ M!SchedStep /\ UNCHANGED exec
    \/ \E w \in Workers :
         \/ WorkerJoin(w)
         \/ WorkerDies(w)
         \/ MasterWorkerHandler(w) /\ UNCHANGED exec
         \/ W!Listen(w) /\ UNCHANGED masterVars
         \/ W!Run(w) /\ UNCHANGED masterVars

Spec == Init /\ [][Next]_vars

(* Every thread the code starts runs whenever it can: the scheduler, the   *)
(* Master's per-Worker reader, and each Worker's listener and run()        *)
(* thread.  Clients and Worker processes joining or dying are not forced.  *)
FairSpec ==
    /\ Spec
    /\ WF_vars(M!SchedStep /\ UNCHANGED exec)
    /\ \A w \in Workers :
         /\ WF_vars(MasterWorkerHandler(w) /\ UNCHANGED exec)
         /\ WF_vars(W!Listen(w) /\ UNCHANGED masterVars)
         /\ WF_vars(W!Run(w) /\ UNCHANGED masterVars)

-----------------------------------------------------------------------------
(* Properties *)

TypeOK ==
    /\ nextQid \in 0..NQueries
    /\ estado \in [Qids -> QState]
    /\ prioridad \in [Qids -> Prios \cup {0}]
    /\ pc \in [Qids -> 0..ScriptLen]
    /\ workerFd \in [Qids -> Workers \cup {NoWorker}]
    /\ ready \in Seq(Qids)
    /\ pool \in Seq(Workers)
    /\ ocupado \in [Workers -> BOOLEAN]
    /\ running \in [Workers -> Qids \cup {NONE}]
    /\ nextQ \in [Workers -> Qids \cup {NONE}]
    /\ sched \in [at : SchedAt, q : Qids \cup {NONE}, w : Workers \cup {NoWorker},
                  vq : Qids \cup {NONE}]
    /\ dispatched \subseteq Qids
    /\ toWorker \in [Workers -> Seq(MsgT)]
    /\ toMaster \in [Workers -> Seq(MsgT)]
    /\ qcConn \in [Qids -> {"none", "open", "closed"}]
    /\ qcFin \in [Qids -> Nat]
    /\ wproc \in [Workers -> {"off", "up", "dead"}]
    /\ exec \in [Workers -> [running : BOOLEAN, qid : Qids \cup {NONE},
                             pc : 0..ScriptLen, preempt : BOOLEAN, fin : BOOLEAN]]
    /\ hstep \in [Workers -> {"recv", "handoff"}]

\* The places where the Master keeps a query it has not finished with.  A
\* handler thread between DEVOLVER_PC's master_enqueue_ready and its next_q
\* check (hstep = "handoff") has already put its query back in g_ready: its
\* stale running_qid is overwritten by lines 121-131 and is not a place.
Places(q) ==
    LET inReady   == {i \in DOMAIN ready : ready[i] = q}
        inRunning == {w \in Workers : M!InPool(w) /\ hstep[w] = "recv"
                                       /\ running[w] = q}
        inNext    == {w \in Workers : M!InPool(w) /\ nextQ[w] = q}
    IN  Cardinality(inReady) + Cardinality(inRunning) + Cardinality(inNext)
        + (IF M!SchedHolds(q) THEN 1 ELSE 0)

\* Some registered Worker is free (stated directly, not through the scan).
IdleExists == \E i \in DOMAIN pool : ~ocupado[pool[i]]

(* Spec 3/8, mutual exclusion: a query is in at most one of g_ready, the   *)
(* scheduler's hands, a registered Worker's running_qid, a registered      *)
(* Worker's next_q.  Several threads move queries between these places     *)
(* with no lock spanning two of them (pop, requeue, park, DEVOLVER_PC,     *)
(* Worker disconnect).  A handler between DEVOLVER_PC's enqueue and its    *)
(* next_q check is not counted in running_qid (see Places).               *)
MutualExclusion == \A q \in Qids : Places(q) <= 1

(* The same count, also taking the running_qid of a handler thread inside  *)
(* DEVOLVER_PC's window (between master_enqueue_ready and line 121) as a   *)
(* place: the code does not keep this, MCCluster_mutex.cfg shows it.      *)
MutualExclusionStale ==
    \A q \in Qids :
        Places(q) + Cardinality({w \in Workers : M!InPool(w) /\ hstep[w] = "handoff"
                                                /\ running[w] = q}) <= 1

(* No query script is executed by two Worker processes at the same time:  *)
(* the Master never has a query dispatched twice while an earlier run of   *)
(* it is still going on some Worker.                                       *)
NoDoubleExecution ==
    \A w1, w2 \in Workers :
        (w1 # w2 /\ W!Active(w1) /\ W!Active(w2)) => exec[w1].qid # exec[w2].qid

(* master_scheduler_loop makes progress: whenever g_ready holds a query    *)
(* and a registered Worker is idle, eventually one of the two stops being  *)
(* so (a query is dispatched).                                             *)
SchedulerProgress ==
    (ready # <<>> /\ IdleExists) ~> ~(ready # <<>> /\ IdleExists)

(* Spec 3 invariant: a query the Master has not finished (READY or EXEC)   *)
(* is always in one of its places, so it can still run or be reclaimed.    *)
NoLostQuery ==
    \A q \in Qids : estado[q] \in {"READY", "EXEC"} => Places(q) >= 1

(* Spec 4.5 option (a) and 9: an EXIT query is never re-activated, neither *)
(* by the scheduler popping it nor by a late WORKER_DEVOLVER_PC.           *)
ExitIsFinal ==
    [][\A q \in Qids : estado[q] = "EXIT" => estado'[q] = "EXIT"]_vars

(* When nothing is in flight between the Master and a live Worker, the     *)
(* query the Master records as running there is the one the Worker runs:   *)
(* no MASTER_ASIGNAR_QUERY is silently lost.                               *)
MasterViewMatchesWorker ==
    \A w \in Workers :
        (/\ wproc[w] = "up" /\ M!InPool(w) /\ running[w] # NONE
         /\ toWorker[w] = <<>> /\ toMaster[w] = <<>>)
        => exec[w].running /\ exec[w].qid = running[w]

(* Spec 4.3: a query parked in next_q waits on a Worker that is busy and   *)
(* will hand it over on its checkpoint; it never sits on an idle Worker.   *)
ParkedOnBusyWorker ==
    \A w \in Workers : (M!InPool(w) /\ nextQ[w] # NONE) => ocupado[w]

(* Spec 8, FIFO fairness: a query is dispatched only after every query     *)
(* submitted before it that is still READY has been dispatched.            *)
FifoOrder ==
    [][\A a, b \in Qids :
         (a < b /\ b \notin dispatched /\ b \in dispatched' /\ estado[a] = "READY")
             => a \in dispatched]_vars

(* Spec 10's end-to-end scenario: a query a Worker runs is eventually     *)
(* done with there: the Worker reports WORKER_FIN or WORKER_DEVOLVER_PC,   *)
(* or its disconnection ends the query, so that what waits behind it can   *)
(* run.  run() must report on every way out of its loop.                   *)
QueryLeavesExec == \A q \in Qids : estado[q] = "EXEC" ~> estado[q] # "EXEC"

(* Spec 4.6: a query whose client was told it finished (MASTER_FIN) is     *)
(* EXIT, also when the Worker running it disconnected.                     *)
FinMeansExit == \A q \in Qids : qcFin[q] > 0 => estado[q] = "EXIT"
=============================================================================
