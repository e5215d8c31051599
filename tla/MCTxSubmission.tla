--------------------------- MODULE MCTxSubmission ---------------------------
(* Model-checking instances of TxSubmission.                               *)
EXTENDS TxImplementsContract, TLC

(* Operations are interchangeable; used by the runs of safety properties.  *)
Symmetry == Permutations(Ops)
=============================================================================
