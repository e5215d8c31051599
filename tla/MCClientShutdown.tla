--------------------------- MODULE MCClientShutdown ----------------------------
(* Two submissions, two callers waiting for either, close() called twice.  *)
EXTENDS ClientShutdown
================================================================================
