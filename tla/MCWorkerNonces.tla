--------------------------- MODULE MCWorkerNonces ---------------------------
(* Small instances of WorkerNonces for TLC.                                *)
EXTENDS WorkerNonces

CONSTANTS rep, inf
MCCallers == {<<rep, "init">>, <<rep, "poll">>, <<rep, "event">>, <<inf, "poll">>}
MCWindows == (rep :> 2) @@ (inf :> 3)
MCOpenedBefore == (rep :> 1) @@ (inf :> 3)
=============================================================================
