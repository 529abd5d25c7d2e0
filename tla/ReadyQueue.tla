----------------------------- MODULE ReadyQueue -----------------------------
(***************************************************************************)
(* The two selection algorithms of the Master's scheduler, as operators:   *)
(*   - pop_ready_siguiente (master.c): which query leaves the READY queue  *)
(*     under FIFO and under PRIORIDADES, and what the queue is afterwards; *)
(*   - the victim scan of master_scheduler_loop (master.c): which busy     *)
(*     Worker is asked to give up its query for a better-priority one.    *)
(* Both scans are written as the loops of the code (RECURSIVE), and each   *)
(* comes with a reference definition of what the spec (sections 4.1 and    *)
(* 4.3) says it must return; MCPure checks that they agree.             *)
(***************************************************************************)
EXTENDS Naturals, Sequences, SequencesExt

\* Sentinel returned by the victim scan when no Worker qualifies (vict == NULL).
CONSTANT NoWorker

(***************************************************************************)
(* pop_ready_siguiente, PRIORIDADES branch: idx_best starts at 0 and is     *)
(* replaced only on a strictly smaller prioridad, so the earliest of the   *)
(* minimal entries wins.  Indices are 1-based here.                        *)
(***************************************************************************)
\* Mutant for the checks: replaces on <=, so the last minimal entry wins.
RECURSIVE ScanBestLastTie(_, _, _, _)
ScanBestLastTie(s, prioridad, i, best) ==
    IF i > Len(s) THEN best
    ELSE ScanBestLastTie(s, prioridad, i + 1,
                  IF prioridad[s[i]] <= prioridad[s[best]] THEN i ELSE best)

RECURSIVE ScanBest(_, _, _, _)
ScanBest(s, prioridad, i, best) ==
    IF i > Len(s) THEN best
    ELSE ScanBest(s, prioridad, i + 1,
                  IF prioridad[s[i]] < prioridad[s[best]] THEN i ELSE best)

\* The whole of pop_ready_siguiente on a non-empty queue: the chosen query
\* and the queue left behind (the others pushed back in their old order).
PopNext(s, prioridad, algoritmo) ==
    IF algoritmo # "PRIORIDADES"
    THEN <<Head(s), Tail(s)>>
    ELSE LET idx == ScanBest(s, prioridad, 2, 1)
         IN  <<s[idx], RemoveAt(s, idx)>>

(***************************************************************************)
(* The victim scan: walk g_workers in order, skip idle Workers, and keep   *)
(* the last Worker whose running query has prioridad > prio_in and         *)
(* >= the worst seen so far (worst starts at 0).                           *)
(***************************************************************************)
\* Mutant for the checks: keeps the first of tied worst Workers (> worst).
RECURSIVE ScanVictimFirstTie(_, _, _, _, _, _, _)
ScanVictimFirstTie(pool, ocupado, running, prioridad, prioIn, i, acc) ==
    IF i > Len(pool) THEN acc.vict
    ELSE LET cw   == pool[i]
             take == /\ ocupado[cw]
                     /\ prioridad[running[cw]] > prioIn
                     /\ prioridad[running[cw]] > acc.worst
         IN  ScanVictimFirstTie(pool, ocupado, running, prioridad, prioIn, i + 1,
                        IF take THEN [worst |-> prioridad[running[cw]], vict |-> cw]
                                ELSE acc)

RECURSIVE ScanVictim(_, _, _, _, _, _, _)
ScanVictim(pool, ocupado, running, prioridad, prioIn, i, acc) ==
    IF i > Len(pool) THEN acc.vict
    ELSE LET cw   == pool[i]
             take == /\ ocupado[cw]
                     /\ prioridad[running[cw]] > prioIn
                     /\ prioridad[running[cw]] >= acc.worst
         IN  ScanVictim(pool, ocupado, running, prioridad, prioIn, i + 1,
                        IF take THEN [worst |-> prioridad[running[cw]], vict |-> cw]
                                ELSE acc)

SelectVictim(pool, ocupado, running, prioridad, prioIn) ==
    ScanVictim(pool, ocupado, running, prioridad, prioIn, 1,
               [worst |-> 0, vict |-> NoWorker])

-----------------------------------------------------------------------------
(* Reference definitions, from the spec's words. *)

\* Section 4.1: the earliest-inserted query of minimum priority value.
StableMinIndex(s, prioridad) ==
    CHOOSE i \in DOMAIN s :
        /\ \A j \in DOMAIN s : prioridad[s[i]] <= prioridad[s[j]]
        /\ \A j \in 1..(i - 1) : prioridad[s[j]] > prioridad[s[i]]

\* Section 4.3: among busy Workers running a query strictly worse than
\* prioIn, one of maximal priority value, the last such in pool order.
VictimReference(pool, ocupado, running, prioridad, prioIn) ==
    LET cand == {i \in DOMAIN pool : ocupado[pool[i]]
                                     /\ prioridad[running[pool[i]]] > prioIn}
        worst(i) == \A j \in cand : prioridad[running[pool[j]]]
                                      <= prioridad[running[pool[i]]]
    IN  IF cand = {} THEN NoWorker
        ELSE pool[CHOOSE i \in cand : worst(i) /\ \A j \in cand : worst(j) => j <= i]
=============================================================================
