----------------------------- MODULE MCWorkerMem -----------------------------
(* One Worker with two frames over Storage with initial_file:BASE and one  *)
(* more tag, every request enabled.                                        *)
EXTENDS WorkerMem

CONSTANTS A

MCTags == {Base, A}
AllRequests == {"CREATE", "TRUNCATE", "PUT", "COMMIT", "TAG", "DELETE"}
=============================================================================
