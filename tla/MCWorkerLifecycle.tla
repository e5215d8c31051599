-------------------------- MODULE MCWorkerLifecycle --------------------------
(* Small instances of WorkerLifecycle for TLC.                             *)
EXTENDS WorkerLifecycle
=============================================================================
