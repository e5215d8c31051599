------------------------ MODULE TxImplementsContract ------------------------
(* The submission task implements the contract of submit_transaction.      *)
EXTENDS TxSubmission

Executions == [p \in Ops |-> {a \in Attempts : Executed(p, a)}]

Contract == INSTANCE SubmitContract WITH
    Labels     <- Attempts,
    Answers    <- Outcomes \ {"pending"},
    executions <- Executions,
    doubtful   <- abandoned,
    answer     <- outcome

(* Every behaviour of the tasks and the chain is one of the contract: an   *)
(* operation is executed again only after its task moved off the sequence  *)
(* of a transaction that had not failed on chain, its future is resolved   *)
(* once and for all, and with a response only when the operation executed. *)
ImplementsContract == Contract!Spec
=============================================================================
