----------------------------- MODULE WorkerProc -----------------------------
(***************************************************************************)
(* One Worker process (src/worker/src), as far as the Master sees it: the  *)
(* listener thread (master_listener_thread) that reads MASTER_ASIGNAR_QUERY *)
(* and MASTER_DESALOJAR, and the execution thread run() over the shared    *)
(* g_exec record.  A query's script is ScriptLen lines, the last one END  *)
(* unless the query is in NoEnd; every other line either succeeds (pc + 1) *)
(* or fails with a Storage or argument error, which like END ends the     *)
(* query with WORKER_FIN.  A script with no END runs out of lines.  What  *)
(* the lines do to memory and Storage is not modelled here.                *)
(* exec[w].fin marks that run() has left its loop (after its last send)    *)
(* but has not yet cleared g_exec.running at label end:.                   *)
(***************************************************************************)
EXTENDS Integers, Sequences

CONSTANTS Workers, NQueries, ScriptLen,
    NoEnd     \* the queries whose script has no END line

VARIABLES exec, toWorker, toMaster, wproc

NONE == -1

Msg(op, q, n) == [op |-> op, q |-> q, pc |-> n]

IdleExec == [running |-> FALSE, qid |-> NONE, pc |-> 0, preempt |-> FALSE, fin |-> FALSE]

SendToMaster(w, m) == toMaster' = [toMaster EXCEPT ![w] = Append(@, m)]

-----------------------------------------------------------------------------
(* master_listener_thread *)

\* MASTER_ASIGNAR_QUERY -> worker_exec_start on an idle g_exec: a fresh run().
ListenAsignar(w) ==
    LET m == Head(toWorker[w]) IN
    /\ wproc[w] = "up"
    /\ toWorker[w] # <<>> /\ m.op = "ASIGNAR"
    /\ ~exec[w].running
    /\ toWorker' = [toWorker EXCEPT ![w] = Tail(@)]
    /\ exec' = [exec EXCEPT ![w] = [running |-> TRUE, qid |-> m.q, pc |-> m.pc,
                                    preempt |-> FALSE, fin |-> FALSE]]
    /\ UNCHANGED <<toMaster, wproc>>

\* The same message while g_exec.running: logged ("Asignación recibida con
\* Worker ocupado") and dropped.
ListenAsignarBusy(w) ==
    /\ wproc[w] = "up"
    /\ toWorker[w] # <<>> /\ Head(toWorker[w]).op = "ASIGNAR"
    /\ exec[w].running
    /\ toWorker' = [toWorker EXCEPT ![w] = Tail(@)]
    /\ UNCHANGED <<exec, toMaster, wproc>>

\* MASTER_DESALOJAR -> worker_exec_request_preempt: the flag is set only if
\* the named query is the one g_exec holds and it is still running; any
\* other DESALOJAR is read and has no effect.
ListenDesalojar(w) ==
    LET m == Head(toWorker[w]) IN
    /\ wproc[w] = "up"
    /\ toWorker[w] # <<>> /\ m.op = "DESALOJAR"
    /\ toWorker' = [toWorker EXCEPT ![w] = Tail(@)]
    /\ \/ /\ exec[w].running /\ exec[w].qid = m.q
          /\ exec' = [exec EXCEPT ![w].preempt = TRUE]
       \/ /\ ~(exec[w].running /\ exec[w].qid = m.q)
          /\ UNCHANGED exec
    /\ UNCHANGED <<toMaster, wproc>>

-----------------------------------------------------------------------------
(* run(): one step per fetched line *)

Active(w) == wproc[w] = "up" /\ exec[w].running /\ ~exec[w].fin

\* The lines run() executes with pc + 1: all but END.
Ordinary(w) == IF exec[w].qid \in NoEnd THEN ScriptLen ELSE ScriptLen - 1

\* getline returned a line: pc has not passed the end of the script.
Fetched(w) == exec[w].pc < ScriptLen

\* Mutant for the checks: the `break` after WORKER_DEVOLVER_PC is missing;
\* the flag is cleared and run() goes on with the query.
ExecPreemptNoBreak(w) ==
    /\ Active(w) /\ exec[w].preempt
    /\ SendToMaster(w, Msg("DEVOLVER_PC", exec[w].qid, exec[w].pc))
    /\ exec' = [exec EXCEPT ![w].preempt = FALSE]
    /\ UNCHANGED <<toWorker, wproc>>

\* Preemption is checked at FETCH, before the line runs: flush, then
\* WORKER_DEVOLVER_PC with the pc of the line not yet executed.
ExecPreempt(w) ==
    /\ Active(w) /\ Fetched(w) /\ exec[w].preempt
    /\ SendToMaster(w, Msg("DEVOLVER_PC", exec[w].qid, exec[w].pc))
    /\ exec' = [exec EXCEPT ![w].fin = TRUE]
    /\ UNCHANGED <<toWorker, wproc>>

\* A line other than the last one that succeeds: pc++.
ExecLine(w) ==
    /\ Active(w) /\ ~exec[w].preempt
    /\ exec[w].pc < Ordinary(w)
    /\ exec' = [exec EXCEPT ![w].pc = @ + 1]
    /\ UNCHANGED <<toWorker, toMaster, wproc>>

\* END (the last line) or a failing instruction: WORKER_FIN, goto fin.
ExecFinish(w) ==
    /\ Active(w) /\ Fetched(w) /\ ~exec[w].preempt
    /\ SendToMaster(w, Msg("FIN", exec[w].qid, 0))
    /\ exec' = [exec EXCEPT ![w].fin = TRUE]
    /\ UNCHANGED <<toWorker, wproc>>

\* getline returns -1 past the last line: the while loop ends and run()
\* goes to fin with nothing sent, neither WORKER_FIN nor DEVOLVER_PC; a
\* pending preemption is never looked at.
ExecEof(w) ==
    /\ Active(w) /\ ~Fetched(w)
    /\ exec' = [exec EXCEPT ![w].fin = TRUE]
    /\ UNCHANGED <<toWorker, toMaster, wproc>>

\* Label end: g_exec.running = false under g_exec.mx.
ExecEnd(w) ==
    /\ wproc[w] = "up" /\ exec[w].running /\ exec[w].fin
    /\ exec' = [exec EXCEPT ![w] = IdleExec]
    /\ UNCHANGED <<toWorker, toMaster, wproc>>

-----------------------------------------------------------------------------
(* Process lifetime *)

\* main(): connect to the Master and identify (the Master side registers it).
Start(w) ==
    /\ wproc[w] = "off"
    /\ wproc' = [wproc EXCEPT ![w] = "up"]
    /\ UNCHANGED <<exec, toWorker, toMaster>>

\* The process dies (SIGINT handler, or a crash): what it sent is still read
\* by the Master, then end of stream; what was sent to it is lost.
Crash(w) ==
    /\ wproc[w] = "up"
    /\ wproc'    = [wproc EXCEPT ![w] = "dead"]
    /\ exec'     = [exec EXCEPT ![w] = IdleExec]
    /\ toWorker' = [toWorker EXCEPT ![w] = <<>>]
    /\ SendToMaster(w, Msg("EOF", NONE, 0))

Listen(w) == ListenAsignar(w) \/ ListenAsignarBusy(w) \/ ListenDesalojar(w)
Run(w)    == ExecPreempt(w) \/ ExecLine(w) \/ ExecFinish(w) \/ ExecEof(w) \/ ExecEnd(w)
=============================================================================
