------------------------------ MODULE MCCluster ------------------------------
(* Model-checking instance of Cluster: Workers and the other constants are  *)
(* given in the .cfg files; this module fixes nothing else.                 *)
EXTENDS Cluster

\* Worker ids are interchangeable for safety checking.
WorkerSymmetry == Permutations(Workers)
=============================================================================
