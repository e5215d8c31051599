----------------------------- MODULE MCFeeLadder -----------------------------
(* Model-checking instances of FeeLadder.  Gas is in units of 10000.       *)
EXTENDS FeeLadder, TLC

MovingPrice == [e \in 0..1 |-> 2 + e]

(* Submissions are interchangeable; used by the runs of safety properties. *)
Symmetry == Permutations(Ops)
=============================================================================
