---------------------------- MODULE TxSubmission ----------------------------
(***************************************************************************)
(* The detached submission task of rpc_client/tx_manager.py                *)
(* (TxManager._attempt_submissions) run for every PendingTx of a set Ops   *)
(* against one chain account that all of them share.                       *)
(*                                                                         *)
(* An action is the code between two awaits of the task.  What happens in  *)
(* the meantime (a node checks the transaction, a block includes it, it is *)
(* dropped, the account is used by another process, a deadline passes) are *)
(* actions of the chain, which is external to the repository.              *)
(*                                                                         *)
(* Attempt a of operation p is the transaction <<p, a>>: every retry       *)
(* multiplies the gas limit, so every attempt has other bytes and another  *)
(* hash.  Gas limits and fees themselves are the subject of FeeLadder.     *)
(***************************************************************************)
EXTENDS Integers, FiniteSets

CONSTANTS
    Ops,          \* the PendingTx objects of one TxManager
    MaxRetries,   \* max_retries of submit_transaction
    GraceChecks,  \* max_attempts of _confirm_landed_with_grace (3)
    RetryDelay,   \* is account_sequence_retry_delay configured?
    HasTimeout,   \* does the caller pass a timeout (the deadline)?
    MaxForeign,   \* bound: transactions of other users of the same key
    Faults        \* what the environment may do, a subset of FaultKinds

(* slow:  inclusion may outlast the 30 s that wait_for_tx grants           *)
(* flaky: an RPC may fail, pass its deadline, or not see a landed tx yet   *)
(* lag:   nodes behind the load balancer disagree on the account sequence  *)
(* ante:  a block may carry a tx whose ante handler fails                  *)
FaultKinds == {"slow", "flaky", "lag", "ante"}

ASSUME ConstantsAssumption ==
    /\ MaxRetries \in Nat
    /\ GraceChecks \in Nat \ {0}
    /\ MaxForeign \in Nat
    /\ RetryDelay \in BOOLEAN
    /\ HasTimeout \in BOOLEAN
    /\ Faults \subseteq FaultKinds

Attempts == 0..MaxRetries
None     == -1       \* Python's None, of a sequence or of a hash

VARIABLES
    (* one PendingTx and the locals of its task *)
    pc,               \* where the task is suspended
    outcome,          \* _final_future
    attempt,          \* the loop variable, and pending.attempt
    nextAccountSeq,   \* next_account_seq
    lastTxHash,       \* pending.last_tx_hash: the attempt it belongs to
    sameSeqRebroadcast, \* pending._same_seq_rebroadcast
    grace,            \* checks left in _confirm_landed_with_grace
    expired,          \* start + pending.timeout < datetime.now()
    abandoned,        \* history: see Abandons
    (* the chain *)
    seqOf,            \* the sequence each transaction is signed with
    stage,            \* where each transaction is
    code,             \* the response code of a rejected or landed one
    committed,        \* the account's sequence in the committed state
    foreign           \* transactions other users of the key have landed

client == <<pc, outcome, attempt, nextAccountSeq, lastTxHash,
            sameSeqRebroadcast, grace, expired, abandoned>>
chain  == <<seqOf, stage, code, committed, foreign>>
vars   == <<client, chain>>

Control  == {"idle", "preflight", "build", "sent", "wait", "timeoutCheck",
             "asmCheck", "asmGrace", "delay", "done"}
(* Response codes, by what _exception_from_tx_response makes of them.      *)
Errors   == {"OutOfGas", "InsufficientFees", "SequenceMismatch", "TxError"}
Codes    == {"ok"} \cup Errors
Failures == Errors \cup {"TxTimeout", "MaxFees", "Other"}
Outcomes == {"pending", "ok", "cancelled"} \cup Failures
Stages   == {"unsent", "inflight", "mempool", "gone", "rejected", "landed"}

TypeOK ==
    /\ pc \in [Ops -> Control]
    /\ outcome \in [Ops -> Outcomes]
    /\ attempt \in [Ops -> Attempts]
    /\ nextAccountSeq \in [Ops -> Nat \cup {None}]
    /\ lastTxHash \in [Ops -> Attempts \cup {None}]
    /\ sameSeqRebroadcast \in [Ops -> BOOLEAN]
    /\ grace \in [Ops -> 0..GraceChecks]
    /\ expired \in [Ops -> BOOLEAN]
    /\ abandoned \in [Ops -> BOOLEAN]
    /\ seqOf \in [Ops -> [Attempts -> Nat \cup {None}]]
    /\ stage \in [Ops -> [Attempts -> Stages]]
    /\ code \in [Ops -> [Attempts -> Codes]]
    /\ committed \in Nat
    /\ foreign \in 0..MaxForeign

-----------------------------------------------------------------------------
(* The chain: what CheckTx and block execution do with a transaction.      *)

Unsettled == {"inflight", "mempool"}

InMempool(s) == \E p \in Ops, a \in Attempts :
                    stage[p][a] = "mempool" /\ seqOf[p][a] = s

(* The sequence a node expects next: its committed one, past the           *)
(* transactions of the account that already sit in its mempool.            *)
CheckState ==
    CHOOSE s \in committed..(committed + Cardinality(Ops \X Attempts)) :
        /\ ~InMempool(s)
        /\ \A r \in committed..(s - 1) : InMempool(r)

CommittedViews == IF "lag" \in Faults THEN 0..committed ELSE {committed}
CheckViews     == IF "lag" \in Faults THEN 0..CheckState ELSE {CheckState}

Settle(p, a, st, c) ==
    /\ stage' = [stage EXCEPT ![p][a] = st]
    /\ code'  = [code EXCEPT ![p][a] = c]

(* CheckTx on whichever node received the broadcast.                       *)
CheckTx(p, a) ==
    /\ stage[p][a] = "inflight"
    /\ \/ seqOf[p][a] \in CheckViews /\ Settle(p, a, "mempool", "ok")
       \/ CheckViews # {seqOf[p][a]} /\ Settle(p, a, "rejected", "SequenceMismatch")
       \/ \E c \in {"OutOfGas", "InsufficientFees", "TxError"} : Settle(p, a, "rejected", c)
    /\ UNCHANGED <<client, seqOf, committed, foreign>>

(* A block executes the transaction; its sequence is consumed whatever the *)
(* messages return.                                                        *)
Include(p, a) ==
    /\ stage[p][a] = "mempool" /\ seqOf[p][a] = committed
    /\ \E c \in {"ok", "OutOfGas", "TxError"} : Settle(p, a, "landed", c)
    /\ committed' = committed + 1
    /\ UNCHANGED <<client, seqOf, foreign>>

(* A block carries the transaction but its ante handler fails: nothing     *)
(* executes and the sequence is not consumed.                              *)
IncludeFailingAnte(p, a) ==
    /\ "ante" \in Faults
    /\ stage[p][a] = "mempool"
    /\ \/ Settle(p, a, "landed", "InsufficientFees")
       \/ seqOf[p][a] # committed /\ Settle(p, a, "landed", "SequenceMismatch")
    /\ UNCHANGED <<client, seqOf, committed, foreign>>

(* The request is lost, or the mempool evicts the transaction.             *)
Vanish(p, a) ==
    /\ stage[p][a] \in Unsettled
    /\ stage' = [stage EXCEPT ![p][a] = "gone"]
    /\ UNCHANGED <<client, seqOf, code, committed, foreign>>

(* Another process signs with the same key.                                *)
Foreign ==
    /\ foreign < MaxForeign
    /\ foreign' = foreign + 1
    /\ committed' = committed + 1
    /\ UNCHANGED <<client, seqOf, stage, code>>

-----------------------------------------------------------------------------
(* The task's own vocabulary.                                              *)

GoTo(p, l) == pc' = [pc EXCEPT ![p] = l]

(* _set_result / _set_exception followed by return                         *)
Resolve(p, r) ==
    /\ outcome' = [outcome EXCEPT ![p] = r]
    /\ GoTo(p, "done")
    /\ UNCHANGED attempt

(* Mutant of LastChance: the loop's last attempt is not recognised.         *)
LastChance_OffByOne(p) == attempt[p] > MaxRetries \/ expired[p]

(* The test every retrying handler makes before it continues the loop.     *)
LastChance(p) == attempt[p] = MaxRetries \/ expired[p]

Continue(p) ==
    /\ attempt' = [attempt EXCEPT ![p] = @ + 1]
    /\ GoTo(p, "preflight")
    /\ UNCHANGED outcome

RetryOrFail(p, err) == IF LastChance(p) THEN Resolve(p, err) ELSE Continue(p)

(* Retry after a sequence mismatch: account_sequence_retry_delay comes in  *)
(* between.                                                                *)
RetryWithFreshSeq(p) ==
    /\ nextAccountSeq' = [nextAccountSeq EXCEPT ![p] = None]
    /\ IF LastChance(p) THEN Resolve(p, "SequenceMismatch")
       ELSE IF RetryDelay THEN GoTo(p, "delay") /\ UNCHANGED <<attempt, outcome>>
       ELSE Continue(p)

(* The except clause that a CheckTx rejection or a landed failure reaches. *)
Handle(p, err) ==
    \/ err \in {"OutOfGas", "InsufficientFees"} /\ RetryOrFail(p, err)
    \/ err = "SequenceMismatch" /\ GoTo(p, "asmCheck") /\ UNCHANGED <<attempt, outcome>>
    \/ err = "TxError" /\ Resolve(p, err)

Landed(p, a)   == stage[p][a] = "landed"
Consumed(p, a) == Landed(p, a) /\ code[p][a] \in {"ok", "OutOfGas", "TxError"}
Executed(p, a) == Landed(p, a) /\ code[p][a] = "ok"

(* A confirm-landed query for the last known hash (_try_confirm_landed)    *)
(* finds a landed transaction; a flaky endpoint may miss it.               *)
SeesLanded(p)    == lastTxHash[p] # None /\ Landed(p, lastTxHash[p])
MayMissLanded(p) == SeesLanded(p) => "flaky" \in Faults

(* _bail_if_landed: RETRY_NEW_SEQUENCE is a landed transaction with a      *)
(* retryable code while retries remain, FINALIZED resolves the future,     *)
(* NOT_LANDED is MayMissLanded.                                            *)
LandedRetryably(p) ==
    /\ SeesLanded(p)
    /\ code[p][lastTxHash[p]] \in {"OutOfGas", "InsufficientFees", "SequenceMismatch"}
    /\ attempt[p] < MaxRetries

(* Mutants of ResolveLanded: a landed failure is taken for success; the    *)
(* error of a landed failure is raised instead of set on the future.       *)
ResolveLanded_AnyCodeIsOk(p) ==
    /\ SeesLanded(p) /\ ~LandedRetryably(p)
    /\ Resolve(p, "ok")

ResolveLanded_Raises(p) ==
    /\ SeesLanded(p) /\ ~LandedRetryably(p)
    /\ IF Executed(p, lastTxHash[p]) THEN Resolve(p, "ok")
       ELSE GoTo(p, "done") /\ UNCHANGED <<outcome, attempt>>

ResolveLanded(p) ==
    /\ SeesLanded(p) /\ ~LandedRetryably(p)
    /\ Resolve(p, code[p][lastTxHash[p]])

(* History: the task moves off the sequence of the last transaction it     *)
(* sent although that one has not failed on chain and consumed it.         *)
Abandon(p) ==
    abandoned' = [abandoned EXCEPT ![p] = @ \/
        /\ lastTxHash[p] # None
        /\ ~(Consumed(p, lastTxHash[p]) /\ ~Executed(p, lastTxHash[p]))]

-----------------------------------------------------------------------------
(* The task.                                                               *)

(* submit_transaction creates the PendingTx and its task; a worker may     *)
(* hand in the account sequence itself.                                    *)
Submit(p) ==
    /\ pc[p] = "idle"
    /\ \E s \in {None} \cup 0..(committed + 1) :
           nextAccountSeq' = [nextAccountSeq EXCEPT ![p] = s]
    /\ GoTo(p, "preflight")
    /\ UNCHANGED <<outcome, attempt, lastTxHash, sameSeqRebroadcast, grace,
                   expired, abandoned, chain>>

(* _pre_flight_checks swallows everything but an insufficient balance.     *)
PreFlight(p) ==
    /\ pc[p] = "preflight"
    /\ \/ GoTo(p, "build") /\ UNCHANGED <<outcome, attempt>>
       \/ Resolve(p, "Other")
    /\ UNCHANGED <<nextAccountSeq, lastTxHash, sameSeqRebroadcast, grace,
                   expired, abandoned, chain>>

(* _build_and_broadcast up to the broadcast: the fee, then account_info,   *)
(* then sign and send without another await.                               *)
BuildAndSend(p) ==
    /\ pc[p] = "build"
    /\ \E v \in CommittedViews :
           seqOf' = [seqOf EXCEPT ![p][attempt[p]] =
               IF nextAccountSeq[p] # None THEN nextAccountSeq[p] ELSE v]
    /\ stage' = [stage EXCEPT ![p][attempt[p]] = "inflight"]
    /\ GoTo(p, "sent")
    /\ UNCHANGED <<outcome, attempt, nextAccountSeq, lastTxHash,
                   sameSeqRebroadcast, grace, expired, abandoned, code,
                   committed, foreign>>

(* The fee exceeds max_fees, a query passes its deadline, or it fails.     *)
BuildFails(p) ==
    /\ pc[p] = "build"
    /\ \/ Resolve(p, "MaxFees")
       \/ "flaky" \in Faults /\ RetryOrFail(p, "TxTimeout")
       \/ "flaky" \in Faults /\ Resolve(p, "Other")
    /\ UNCHANGED <<nextAccountSeq, lastTxHash, sameSeqRebroadcast, grace,
                   expired, abandoned, chain>>

(* broadcast_tx answers with a hash, or passes its deadline and the hash   *)
(* is computed locally: the outcome is confirmed by hash.                  *)
HashReturned(p) ==
    /\ pc[p] = "sent"
    /\ \/ stage[p][attempt[p]] \notin {"inflight", "rejected"}
       \/ "flaky" \in Faults
    /\ lastTxHash' = [lastTxHash EXCEPT ![p] = attempt[p]]
    /\ nextAccountSeq' = [nextAccountSeq EXCEPT ![p] = seqOf[p][attempt[p]]]
    /\ GoTo(p, "wait")
    /\ UNCHANGED <<outcome, attempt, sameSeqRebroadcast, grace, expired,
                   abandoned, chain>>

(* broadcast_tx answers with a CheckTx rejection: it is raised before      *)
(* last_tx_hash and next_account_seq are updated.                          *)
Rejected(p) ==
    /\ pc[p] = "sent"
    /\ stage[p][attempt[p]] = "rejected"
    /\ Handle(p, code[p][attempt[p]])
    /\ UNCHANGED <<nextAccountSeq, lastTxHash, sameSeqRebroadcast, grace,
                   expired, abandoned, chain>>

(* An RPC error that no except clause of the loop knows: the broadcast     *)
(* call itself, or a poll of wait_for_tx.                                  *)
RpcError(p) ==
    /\ "flaky" \in Faults
    /\ pc[p] \in {"sent", "wait"}
    /\ Resolve(p, "Other")
    /\ UNCHANGED <<nextAccountSeq, lastTxHash, sameSeqRebroadcast, grace,
                   expired, abandoned, chain>>

(* Mutant of WaitFinds: no return after the result is set.                 *)
WaitFinds_NoReturn(p) ==
    /\ pc[p] = "wait"
    /\ SeesLanded(p)
    /\ nextAccountSeq' = [nextAccountSeq EXCEPT ![p] = seqOf[p][attempt[p]] + 1]
    /\ IF Executed(p, attempt[p])
       THEN RetryOrFail(p, "ok") /\ UNCHANGED abandoned
       ELSE Handle(p, code[p][attempt[p]]) /\ Abandon(p)
    /\ UNCHANGED <<lastTxHash, sameSeqRebroadcast, grace, expired, chain>>

(* wait_for_tx returns the landed transaction: success, or _raise_for_status *)
(* raises with next_account_seq already one past the sequence used.        *)
WaitFinds(p) ==
    /\ pc[p] = "wait"
    /\ SeesLanded(p)
    /\ nextAccountSeq' = [nextAccountSeq EXCEPT ![p] = seqOf[p][attempt[p]] + 1]
    /\ IF Executed(p, attempt[p])
       THEN Resolve(p, "ok") /\ UNCHANGED abandoned
       ELSE Handle(p, code[p][attempt[p]]) /\ Abandon(p)
    /\ UNCHANGED <<lastTxHash, sameSeqRebroadcast, grace, expired, chain>>

(* Mutant of WaitTimesOut: a wait shorter than inclusion takes.            *)
WaitTimesOut_TooSoon(p) ==
    /\ pc[p] = "wait"
    /\ MayMissLanded(p)
    /\ GoTo(p, "timeoutCheck")
    /\ UNCHANGED <<outcome, attempt, nextAccountSeq, lastTxHash,
                   sameSeqRebroadcast, grace, expired, abandoned, chain>>

(* wait_for_tx raises TxTimeoutError after 30 s.                           *)
WaitTimesOut(p) ==
    /\ pc[p] = "wait"
    /\ MayMissLanded(p)
    /\ stage[p][attempt[p]] \in Unsettled => "slow" \in Faults
    /\ GoTo(p, "timeoutCheck")
    /\ UNCHANGED <<outcome, attempt, nextAccountSeq, lastTxHash,
                   sameSeqRebroadcast, grace, expired, abandoned, chain>>

(* Mutant of OnTimeout: every retry fetches a fresh sequence.              *)
OnTimeout_FreshSequence(p) ==
    /\ pc[p] = "timeoutCheck"
    /\ \/ /\ ResolveLanded(p)
          /\ UNCHANGED <<nextAccountSeq, abandoned>>
       \/ /\ LandedRetryably(p) \/ MayMissLanded(p)
          /\ nextAccountSeq' = [nextAccountSeq EXCEPT ![p] = None]
          /\ RetryOrFail(p, "TxTimeout")
          /\ UNCHANGED abandoned
    /\ UNCHANGED <<lastTxHash, sameSeqRebroadcast, grace, expired, chain>>

(* except TxTimeoutError: query the hash once more, then retry.  A         *)
(* transaction that is not found keeps its sequence for the retry.         *)
OnTimeout(p) ==
    /\ pc[p] = "timeoutCheck"
    /\ \/ /\ ResolveLanded(p)
          /\ UNCHANGED <<nextAccountSeq, sameSeqRebroadcast, abandoned>>
       \/ /\ LandedRetryably(p)
          /\ nextAccountSeq' = [nextAccountSeq EXCEPT ![p] = None]
          /\ Abandon(p)
          /\ RetryOrFail(p, "TxTimeout")
          /\ UNCHANGED sameSeqRebroadcast
       \/ /\ MayMissLanded(p)
          /\ sameSeqRebroadcast' = [sameSeqRebroadcast EXCEPT ![p] = TRUE]
          /\ RetryOrFail(p, "TxTimeout")
          /\ UNCHANGED <<nextAccountSeq, abandoned>>
    /\ UNCHANGED <<lastTxHash, grace, expired, chain>>

(* except AccountSequenceMismatchError: the first check.  A rejected       *)
(* same-sequence rebroadcast gets the grace window, anything else a fresh  *)
(* sequence.                                                               *)
OnMismatch(p) ==
    /\ pc[p] = "asmCheck"
    /\ \/ /\ ResolveLanded(p)
          /\ UNCHANGED <<nextAccountSeq, sameSeqRebroadcast, grace, abandoned>>
       \/ /\ LandedRetryably(p) \/ MayMissLanded(p)
          /\ IF sameSeqRebroadcast[p]
             THEN /\ sameSeqRebroadcast' = [sameSeqRebroadcast EXCEPT ![p] = FALSE]
                  /\ grace' = [grace EXCEPT ![p] = GraceChecks]
                  /\ GoTo(p, "asmGrace")
                  /\ UNCHANGED <<outcome, attempt, nextAccountSeq, abandoned>>
             ELSE /\ RetryWithFreshSeq(p) /\ Abandon(p)
                  /\ UNCHANGED <<sameSeqRebroadcast, grace>>
    /\ UNCHANGED <<lastTxHash, expired, chain>>

(* One check of _confirm_landed_with_grace, after its sleep.               *)
GraceCheck(p) ==
    /\ pc[p] = "asmGrace" /\ grace[p] > 0
    /\ \/ ResolveLanded(p) /\ UNCHANGED <<nextAccountSeq, grace, abandoned>>
       \/ /\ LandedRetryably(p)
          /\ RetryWithFreshSeq(p) /\ Abandon(p)
          /\ UNCHANGED grace
       \/ /\ MayMissLanded(p)
          /\ grace' = [grace EXCEPT ![p] = @ - 1]
          /\ IF grace[p] > 1
             THEN UNCHANGED <<pc, outcome, attempt, nextAccountSeq, abandoned>>
             ELSE RetryWithFreshSeq(p) /\ Abandon(p)
    /\ UNCHANGED <<lastTxHash, sameSeqRebroadcast, expired, chain>>

(* Mutant of DelayEnds: the deadline is not checked after the sleep.       *)
DelayEnds_NoRecheck(p) ==
    /\ pc[p] = "delay"
    /\ Continue(p)
    /\ UNCHANGED <<nextAccountSeq, lastTxHash, sameSeqRebroadcast, grace,
                   expired, abandoned, chain>>

(* _await_sequence_retry_delay, which checks the deadline after the sleep. *)
DelayEnds(p) ==
    /\ pc[p] = "delay"
    /\ IF expired[p] THEN Resolve(p, "SequenceMismatch") ELSE Continue(p)
    /\ UNCHANGED <<nextAccountSeq, lastTxHash, sameSeqRebroadcast, grace,
                   expired, abandoned, chain>>

(* PendingTx.wait is cancelled, and cancels the task at its await.         *)
Cancel(p) ==
    /\ pc[p] \notin {"idle", "done"}
    /\ Resolve(p, "cancelled")
    /\ UNCHANGED <<nextAccountSeq, lastTxHash, sameSeqRebroadcast, grace,
                   expired, abandoned, chain>>

(* The caller's deadline passes.                                           *)
Expire(p) ==
    /\ HasTimeout /\ pc[p] \notin {"idle", "done"} /\ ~expired[p]
    /\ expired' = [expired EXCEPT ![p] = TRUE]
    /\ UNCHANGED <<pc, outcome, attempt, nextAccountSeq, lastTxHash,
                   sameSeqRebroadcast, grace, abandoned, chain>>

-----------------------------------------------------------------------------
Init ==
    /\ pc = [p \in Ops |-> "idle"]
    /\ outcome = [p \in Ops |-> "pending"]
    /\ attempt = [p \in Ops |-> 0]
    /\ nextAccountSeq = [p \in Ops |-> None]
    /\ lastTxHash = [p \in Ops |-> None]
    /\ sameSeqRebroadcast = [p \in Ops |-> FALSE]
    /\ grace = [p \in Ops |-> 0]
    /\ expired = [p \in Ops |-> FALSE]
    /\ abandoned = [p \in Ops |-> FALSE]
    /\ seqOf = [p \in Ops |-> [a \in Attempts |-> None]]
    /\ stage = [p \in Ops |-> [a \in Attempts |-> "unsent"]]
    /\ code = [p \in Ops |-> [a \in Attempts |-> "ok"]]
    /\ committed = 0
    /\ foreign = 0

(* The steps of the task that its own progress guarantees: every await of  *)
(* it has a deadline.                                                      *)
Task(p) ==
    \/ PreFlight(p) \/ BuildAndSend(p) \/ BuildFails(p)
    \/ HashReturned(p) \/ Rejected(p) \/ RpcError(p)
    \/ WaitFinds(p) \/ WaitTimesOut(p) \/ OnTimeout(p)
    \/ OnMismatch(p) \/ GraceCheck(p) \/ DelayEnds(p)

Caller(p) == Submit(p) \/ Cancel(p) \/ Expire(p)

ChainStep ==
    \/ \E p \in Ops, a \in Attempts :
           CheckTx(p, a) \/ Include(p, a) \/ IncludeFailingAnte(p, a) \/ Vanish(p, a)
    \/ Foreign

Next == ChainStep \/ \E p \in Ops : Task(p) \/ Caller(p)

Spec     == Init /\ [][Next]_vars
FairSpec == Spec /\ \A p \in Ops : WF_vars(Task(p))

-----------------------------------------------------------------------------
(* Properties.                                                             *)

(* An operation whose task never abandoned a sequence is executed by the   *)
(* chain at most once, whatever was lost, delayed or rejected: this is     *)
(* what the same-sequence rebroadcast of the timeout handler buys.         *)
AtMostOnceUnlessAbandoned ==
    \A p \in Ops : \A a, b \in Attempts :
        ~abandoned[p] /\ Executed(p, a) /\ Executed(p, b) => a = b

(* No operation is executed twice at all.                                  *)
NoDoubleExecution ==
    \A p \in Ops : \A a, b \in Attempts :
        Executed(p, a) /\ Executed(p, b) => a = b

(* The future resolves to a response only for an operation the chain       *)
(* executed, by the transaction whose hash the PendingTx holds.            *)
SuccessIsExecuted ==
    \A p \in Ops : outcome[p] = "ok" =>
        lastTxHash[p] # None /\ Executed(p, lastTxHash[p])

(* Where inclusion is prompt and queries are truthful, a failure reported  *)
(* by the loop is final: nothing of the operation has executed or still    *)
(* can.                                                                    *)
FailureIsFinal ==
    \A p \in Ops : outcome[p] \in Failures =>
        \A a \in Attempts : ~Executed(p, a) /\ stage[p][a] \notin Unsettled

(* Once the caller's deadline has passed no handler starts another attempt. *)
NoRetryPastDeadline ==
    [][\A p \in Ops : attempt'[p] # attempt[p] => ~expired[p]]_vars

(* Every submitted operation resolves its future, whatever the chain and   *)
(* the endpoints do.                                                       *)
EveryFutureResolves ==
    \A p \in Ops : pc[p] # "idle" ~> outcome[p] # "pending"
=============================================================================
