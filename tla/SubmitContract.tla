--------------------------- MODULE SubmitContract ---------------------------
(***************************************************************************)
(* What TxManager.submit_transaction promises to the one who awaits the    *)
(* PendingTx, without attempts, sequences or fees: an operation executes   *)
(* at most once unless the manager has come to doubt an earlier            *)
(* transaction of it, it is answered once, and "ok" answers an operation   *)
(* that has executed.                                                      *)
(***************************************************************************)
CONSTANTS
    Ops,      \* the operations
    Labels,   \* what tells the executions of an operation apart
    Answers   \* what an operation can be answered with

VARIABLES
    executions,  \* the executions of each operation, a set of labels
    doubtful,    \* operations whose earlier transaction was given up on
    answer       \* what the caller gets: "pending" or one of Answers

vars == <<executions, doubtful, answer>>

Init ==
    /\ executions = [p \in Ops |-> {}]
    /\ doubtful = [p \in Ops |-> FALSE]
    /\ answer = [p \in Ops |-> "pending"]

Execute(p) ==
    /\ executions[p] = {} \/ doubtful[p]
    /\ \E e \in Labels \ executions[p] :
           executions' = [executions EXCEPT ![p] = @ \cup {e}]
    /\ UNCHANGED <<doubtful, answer>>

(* Doubt comes only before the answer, or with it.                         *)
Doubt(p) ==
    /\ answer[p] = "pending"
    /\ doubtful' = [doubtful EXCEPT ![p] = TRUE]

Answer(p, r) ==
    /\ answer[p] = "pending"
    /\ r = "ok" => executions[p] # {}
    /\ answer' = [answer EXCEPT ![p] = r]

Next ==
    \E p \in Ops :
        \/ Execute(p)
        \/ Doubt(p) /\ UNCHANGED <<executions, answer>>
        \/ \E r \in Answers :
               /\ Answer(p, r)
               /\ Doubt(p) \/ UNCHANGED doubtful
               /\ UNCHANGED executions

Spec == Init /\ [][Next]_vars
=============================================================================
