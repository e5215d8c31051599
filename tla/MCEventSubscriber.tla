-------------------------- MODULE MCEventSubscriber --------------------------
(* Model-checking instances of EventSubscriber.                            *)
EXTENDS EventSubscriber, TLC

CONSTANTS s1, s2, hb

(* Every subscription has a query of its own, as a worker's have.          *)
DistinctQueries == [s \in Ids |-> s]
=============================================================================
