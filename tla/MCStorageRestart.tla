--------------------------- MODULE MCStorageRestart ---------------------------
(* StorageRestart instantiated for TLC with the tags, blocks and payloads  *)
(* of MCStorage: one restart is enough to stop a request half-way.         *)
EXTENDS StorageRestart

CONSTANTS A, B
MCTags == {Base, A, B}
NoDelete == {"CREATE", "TRUNCATE", "PUT", "COMMIT", "TAG"}

\* Restarts after a crash or kill -9 only: no SIGINT ever saves the index.
KillNext ==
    \/ Next /\ UNCHANGED <<hidxDisk, restarts>>
    \/ Crash
=============================================================================
