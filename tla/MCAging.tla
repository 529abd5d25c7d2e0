------------------------------- MODULE MCAging -------------------------------
(* Two queries against one busy Worker running at priority 1: q1 arrives   *)
(* at 3 and must age to 0 to preempt it, q2 arrives at 1 and ties with it. *)
EXTENDS Aging

CONSTANTS q1, q2

MCInitPrio == (q1 :> 3) @@ (q2 :> 1)
=============================================================================
