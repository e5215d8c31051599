------------------------- MODULE TxSubmissionProofs -------------------------
(***************************************************************************)
(* Proofs about TxSubmission for every set of operations, every retry      *)
(* budget and every combination of faults: types, at most one execution,   *)
(* truthful success, the contract of submit_transaction, no attempt past   *)
(* the deadline, and what failure means where inclusion is prompt.         *)
(***************************************************************************)
EXTENDS TxImplementsContract, TLAPS

USE ConstantsAssumption

(* The loop sleeps before a retry only when a retry is left.               *)
DelayInv == \A p \in Ops : pc[p] = "delay" => attempt[p] # MaxRetries

TypeInv == TypeOK /\ DelayInv

(* The task's helpers keep the variables they touch in their types.        *)
LEMMA ResolveType ==
    ASSUME TypeInv, NEW p \in Ops, NEW r \in Outcomes, Resolve(p, r)
    PROVE  /\ pc' \in [Ops -> Control]
           /\ outcome' \in [Ops -> Outcomes]
           /\ attempt' \in [Ops -> Attempts]
           /\ DelayInv'
BY DEF TypeInv, DelayInv, TypeOK, Resolve, GoTo, Control

LEMMA ContinueType ==
    ASSUME TypeInv, NEW p \in Ops, attempt[p] # MaxRetries, Continue(p)
    PROVE  /\ pc' \in [Ops -> Control]
           /\ outcome' \in [Ops -> Outcomes]
           /\ attempt' \in [Ops -> Attempts]
           /\ DelayInv'
<1>1. attempt[p] + 1 \in Attempts
  BY DEF TypeInv, DelayInv, TypeOK, Attempts
<1> QED
  BY <1>1 DEF TypeInv, DelayInv, TypeOK, Continue, GoTo, Control

LEMMA RetryOrFailType ==
    ASSUME TypeInv, NEW p \in Ops, NEW r \in Outcomes, RetryOrFail(p, r)
    PROVE  /\ pc' \in [Ops -> Control]
           /\ outcome' \in [Ops -> Outcomes]
           /\ attempt' \in [Ops -> Attempts]
           /\ DelayInv'
BY ResolveType, ContinueType DEF RetryOrFail, LastChance

LEMMA RetryWithFreshSeqType ==
    ASSUME TypeInv, NEW p \in Ops, RetryWithFreshSeq(p)
    PROVE  /\ pc' \in [Ops -> Control]
           /\ outcome' \in [Ops -> Outcomes]
           /\ attempt' \in [Ops -> Attempts]
           /\ DelayInv'
           /\ nextAccountSeq' \in [Ops -> Nat \cup {None}]
<1>1. nextAccountSeq' \in [Ops -> Nat \cup {None}]
  BY DEF TypeInv, DelayInv, TypeOK, RetryWithFreshSeq
<1>2. CASE LastChance(p)
  <2>1. Resolve(p, "SequenceMismatch")
    BY <1>2 DEF RetryWithFreshSeq
  <2> QED
    BY <1>1, <2>1, ResolveType DEF Outcomes, Failures, Errors
<1>3. CASE ~LastChance(p) /\ RetryDelay
  BY <1>1, <1>3 DEF RetryWithFreshSeq, LastChance, TypeInv, DelayInv, TypeOK, GoTo, Control
<1>4. CASE ~LastChance(p) /\ ~RetryDelay
  BY <1>1, <1>4, ContinueType DEF RetryWithFreshSeq, LastChance
<1> QED
  BY <1>2, <1>3, <1>4

LEMMA HandleType ==
    ASSUME TypeInv, NEW p \in Ops, NEW c \in Codes, Handle(p, c)
    PROVE  /\ pc' \in [Ops -> Control]
           /\ outcome' \in [Ops -> Outcomes]
           /\ attempt' \in [Ops -> Attempts]
           /\ DelayInv'
<1>1. CASE c \in {"OutOfGas", "InsufficientFees"} /\ RetryOrFail(p, c)
  BY <1>1, RetryOrFailType DEF Outcomes, Failures, Errors
<1>2. CASE GoTo(p, "asmCheck") /\ UNCHANGED <<attempt, outcome>>
  BY <1>2 DEF GoTo, TypeInv, DelayInv, TypeOK, Control
<1>3. CASE c = "TxError" /\ Resolve(p, c)
  BY <1>3, ResolveType DEF Outcomes, Failures, Errors
<1> QED
  BY <1>1, <1>2, <1>3 DEF Handle

LEMMA ResolveLandedType ==
    ASSUME TypeInv, NEW p \in Ops, ResolveLanded(p)
    PROVE  /\ pc' \in [Ops -> Control]
           /\ outcome' \in [Ops -> Outcomes]
           /\ attempt' \in [Ops -> Attempts]
           /\ DelayInv'
<1>1. lastTxHash[p] \in Attempts
  BY DEF ResolveLanded, SeesLanded, TypeInv, TypeOK
<1>2. code[p][lastTxHash[p]] \in Outcomes
  BY <1>1 DEF TypeInv, DelayInv, TypeOK, Codes, Outcomes, Failures
<1> QED
  BY <1>2, ResolveType DEF ResolveLanded

LEMMA AbandonType ==
    ASSUME TypeInv, NEW p \in Ops, Abandon(p)
    PROVE  abandoned' \in [Ops -> BOOLEAN]
BY DEF TypeInv, DelayInv, TypeOK, Abandon

LEMMA SettleType ==
    ASSUME TypeInv, NEW p \in Ops, NEW a \in Attempts, NEW st \in Stages,
           NEW c \in Codes, Settle(p, a, st, c)
    PROVE  /\ stage' \in [Ops -> [Attempts -> Stages]]
           /\ code' \in [Ops -> [Attempts -> Codes]]
BY DEF TypeInv, DelayInv, TypeOK, Settle

-----------------------------------------------------------------------------
(* Every variable keeps its type: TypeOK is inductive.                     *)

LEMMA InitType == Init => TypeInv
BY DEF Init, TypeOK, TypeInv, DelayInv, Control, Outcomes, Attempts, Stages, Codes, None

LEMMA ChainType ==
    ASSUME TypeInv, ChainStep
    PROVE  TypeInv'
<1> USE DEF client, Codes, Errors, Stages
<1>1. ASSUME NEW p \in Ops, NEW a \in Attempts, CheckTx(p, a)
      PROVE  TypeInv'
  <2>1. /\ stage' \in [Ops -> [Attempts -> Stages]]
        /\ code' \in [Ops -> [Attempts -> Codes]]
    BY <1>1, SettleType DEF CheckTx
  <2> QED
    BY <1>1, <2>1 DEF TypeOK, TypeInv, DelayInv, CheckTx
<1>2. ASSUME NEW p \in Ops, NEW a \in Attempts, Include(p, a)
      PROVE  TypeInv'
  <2>1. /\ stage' \in [Ops -> [Attempts -> Stages]]
        /\ code' \in [Ops -> [Attempts -> Codes]]
    BY <1>2, SettleType DEF Include
  <2> QED
    BY <1>2, <2>1 DEF TypeOK, TypeInv, DelayInv, Include
<1>3. ASSUME NEW p \in Ops, NEW a \in Attempts, IncludeFailingAnte(p, a)
      PROVE  TypeInv'
  <2>1. /\ stage' \in [Ops -> [Attempts -> Stages]]
        /\ code' \in [Ops -> [Attempts -> Codes]]
    BY <1>3, SettleType DEF IncludeFailingAnte
  <2> QED
    BY <1>3, <2>1 DEF TypeOK, TypeInv, DelayInv, IncludeFailingAnte
<1>4. ASSUME NEW p \in Ops, NEW a \in Attempts, Vanish(p, a)
      PROVE  TypeInv'
  BY <1>4 DEF TypeOK, TypeInv, DelayInv, Vanish
<1>5. CASE Foreign
  BY <1>5 DEF TypeOK, TypeInv, DelayInv, Foreign
<1> QED
  BY <1>1, <1>2, <1>3, <1>4, <1>5 DEF ChainStep

LEMMA TaskType ==
    ASSUME TypeInv, NEW p \in Ops, Task(p)
    PROVE  TypeInv'
<1> USE DEF chain
<1>1. CASE PreFlight(p)
  <2>1. CASE GoTo(p, "build") /\ UNCHANGED <<outcome, attempt>>
    BY <1>1, <2>1 DEF PreFlight, GoTo, TypeOK, TypeInv, DelayInv, Control
  <2>2. CASE Resolve(p, "Other")
    BY <1>1, <2>2, ResolveType DEF PreFlight, TypeOK, TypeInv, DelayInv, Outcomes, Failures
  <2> QED
    BY <1>1, <2>1, <2>2 DEF PreFlight
<1>2. CASE BuildAndSend(p)
  <2>1. attempt[p] \in Attempts /\ nextAccountSeq[p] \in Nat \cup {None}
    BY DEF TypeOK, TypeInv, DelayInv
  <2>2. CommittedViews \subseteq Nat
    BY DEF CommittedViews, TypeOK, TypeInv, DelayInv
  <2>3. seqOf' \in [Ops -> [Attempts -> Nat \cup {None}]]
    BY <1>2, <2>1, <2>2 DEF BuildAndSend, TypeOK, TypeInv, DelayInv
  <2>4. stage' \in [Ops -> [Attempts -> Stages]]
    BY <1>2, <2>1 DEF BuildAndSend, TypeOK, TypeInv, DelayInv, Stages
  <2>5. pc' \in [Ops -> Control]
    BY <1>2 DEF BuildAndSend, TypeOK, TypeInv, DelayInv, GoTo, Control
  <2>6. DelayInv'
    BY <1>2 DEF BuildAndSend, TypeOK, TypeInv, DelayInv, GoTo
  <2> QED
    BY <1>2, <2>3, <2>4, <2>5, <2>6 DEF BuildAndSend, TypeOK, TypeInv, DelayInv
<1>3. CASE BuildFails(p)
  <2>1. CASE Resolve(p, "MaxFees") \/ Resolve(p, "Other")
    BY <1>3, <2>1, ResolveType DEF BuildFails, TypeOK, TypeInv, DelayInv, Outcomes, Failures
  <2>2. CASE RetryOrFail(p, "TxTimeout")
    BY <1>3, <2>2, RetryOrFailType DEF BuildFails, TypeOK, TypeInv, DelayInv, Outcomes, Failures
  <2> QED
    BY <1>3, <2>1, <2>2 DEF BuildFails
<1>4. CASE HashReturned(p)
  <2>1. attempt[p] \in Attempts /\ seqOf[p][attempt[p]] \in Nat \cup {None}
    BY DEF TypeOK, TypeInv, DelayInv
  <2> QED
    BY <1>4, <2>1 DEF HashReturned, TypeOK, TypeInv, DelayInv, GoTo, Control
<1>5. CASE Rejected(p)
  <2>1. code[p][attempt[p]] \in Codes
    BY DEF TypeOK, TypeInv, DelayInv
  <2> QED
    BY <1>5, <2>1, HandleType DEF Rejected, TypeOK, TypeInv, DelayInv
<1>6. CASE RpcError(p)
  BY <1>6, ResolveType DEF RpcError, TypeOK, TypeInv, DelayInv, Outcomes, Failures
<1>7. CASE WaitFinds(p)
  <2>1. /\ attempt[p] \in Attempts
        /\ code[p][attempt[p]] \in Codes
        /\ seqOf[p][attempt[p]] + 1 \in Nat \cup {None}
    BY DEF TypeOK, TypeInv, DelayInv, None
  <2>2. nextAccountSeq' \in [Ops -> Nat \cup {None}]
    BY <1>7, <2>1 DEF WaitFinds, TypeOK, TypeInv, DelayInv
  <2>3. CASE Executed(p, attempt[p])
    BY <1>7, <2>2, <2>3, ResolveType DEF WaitFinds, TypeOK, TypeInv, DelayInv, Outcomes
  <2>4. CASE ~Executed(p, attempt[p])
    BY <1>7, <2>1, <2>2, <2>4, HandleType, AbandonType DEF WaitFinds, TypeOK, TypeInv, DelayInv
  <2> QED
    BY <2>3, <2>4
<1>8. CASE WaitTimesOut(p)
  BY <1>8 DEF WaitTimesOut, TypeOK, TypeInv, DelayInv, GoTo, Control
<1>9. CASE OnTimeout(p)
  <2>1. CASE ResolveLanded(p) /\ UNCHANGED <<nextAccountSeq, sameSeqRebroadcast, abandoned>>
    BY <1>9, <2>1, ResolveLandedType DEF OnTimeout, TypeOK, TypeInv, DelayInv
  <2>2. CASE /\ nextAccountSeq' = [nextAccountSeq EXCEPT ![p] = None]
             /\ Abandon(p)
             /\ RetryOrFail(p, "TxTimeout")
             /\ UNCHANGED sameSeqRebroadcast
    BY <1>9, <2>2, RetryOrFailType, AbandonType
       DEF OnTimeout, TypeOK, TypeInv, DelayInv, Outcomes, Failures
  <2>3. CASE /\ sameSeqRebroadcast' = [sameSeqRebroadcast EXCEPT ![p] = TRUE]
             /\ RetryOrFail(p, "TxTimeout")
             /\ UNCHANGED <<nextAccountSeq, abandoned>>
    BY <1>9, <2>3, RetryOrFailType DEF OnTimeout, TypeOK, TypeInv, DelayInv, Outcomes, Failures
  <2> QED
    BY <1>9, <2>1, <2>2, <2>3 DEF OnTimeout
<1>10. CASE OnMismatch(p)
  <2>1. CASE ResolveLanded(p) /\ UNCHANGED <<nextAccountSeq, sameSeqRebroadcast, grace, abandoned>>
    BY <1>10, <2>1, ResolveLandedType DEF OnMismatch, TypeOK, TypeInv, DelayInv
  <2>2. CASE /\ sameSeqRebroadcast' = [sameSeqRebroadcast EXCEPT ![p] = FALSE]
             /\ grace' = [grace EXCEPT ![p] = GraceChecks]
             /\ GoTo(p, "asmGrace")
             /\ UNCHANGED <<outcome, attempt, nextAccountSeq, abandoned>>
    BY <1>10, <2>2 DEF OnMismatch, TypeOK, TypeInv, DelayInv, GoTo, Control
  <2>3. CASE RetryWithFreshSeq(p) /\ Abandon(p) /\ UNCHANGED <<sameSeqRebroadcast, grace>>
    BY <1>10, <2>3, RetryWithFreshSeqType, AbandonType DEF OnMismatch, TypeOK, TypeInv, DelayInv
  <2> QED
    BY <1>10, <2>1, <2>2, <2>3 DEF OnMismatch
<1>11. CASE GraceCheck(p)
  <2>1. CASE ResolveLanded(p) /\ UNCHANGED <<nextAccountSeq, grace, abandoned>>
    BY <1>11, <2>1, ResolveLandedType DEF GraceCheck, TypeOK, TypeInv, DelayInv
  <2>2. CASE RetryWithFreshSeq(p) /\ Abandon(p) /\ UNCHANGED grace
    BY <1>11, <2>2, RetryWithFreshSeqType, AbandonType DEF GraceCheck, TypeOK, TypeInv, DelayInv
  <2>3. CASE /\ grace' = [grace EXCEPT ![p] = @ - 1]
             /\ IF grace[p] > 1
                THEN UNCHANGED <<pc, outcome, attempt, nextAccountSeq, abandoned>>
                ELSE RetryWithFreshSeq(p) /\ Abandon(p)
    <3>1. CASE grace[p] > 1 /\ UNCHANGED <<pc, outcome, attempt, nextAccountSeq, abandoned>>
      BY <1>11, <2>3, <3>1 DEF GraceCheck, TypeOK, TypeInv, DelayInv
    <3>2. CASE ~(grace[p] > 1) /\ RetryWithFreshSeq(p) /\ Abandon(p)
      BY <1>11, <2>3, <3>2, RetryWithFreshSeqType, AbandonType DEF GraceCheck, TypeOK, TypeInv, DelayInv
    <3> QED
      BY <2>3, <3>1, <3>2
  <2> QED
    BY <1>11, <2>1, <2>2, <2>3 DEF GraceCheck
<1>12. CASE DelayEnds(p)
  <2>1. CASE Resolve(p, "SequenceMismatch")
    BY <1>12, <2>1, ResolveType
       DEF DelayEnds, TypeOK, TypeInv, Outcomes, Failures, Errors
  <2>2. CASE Continue(p)
    <3>1. attempt[p] # MaxRetries
      BY <1>12 DEF DelayEnds, TypeInv, DelayInv
    <3> QED
      BY <1>12, <2>2, <3>1, ContinueType DEF DelayEnds, TypeOK, TypeInv
  <2> QED
    BY <1>12, <2>1, <2>2 DEF DelayEnds
<1> QED
  BY <1>1, <1>2, <1>3, <1>4, <1>5, <1>6, <1>7, <1>8, <1>9, <1>10, <1>11, <1>12
     DEF Task

LEMMA CallerType ==
    ASSUME TypeInv, NEW p \in Ops, Caller(p)
    PROVE  TypeInv'
<1> USE DEF chain
<1>1. CASE Submit(p)
  <2>1. 0..(committed + 1) \subseteq Nat
    BY DEF TypeInv, TypeOK
  <2>2. nextAccountSeq' \in [Ops -> Nat \cup {None}]
    BY <1>1, <2>1 DEF Submit, TypeInv, TypeOK
  <2> QED
    BY <1>1, <2>2 DEF Submit, GoTo, TypeInv, TypeOK, DelayInv, Control
<1>2. CASE Cancel(p)
  BY <1>2, ResolveType DEF Cancel, TypeInv, TypeOK, Outcomes
<1>3. CASE Expire(p)
  BY <1>3 DEF Expire, TypeInv, TypeOK, DelayInv
<1> QED
  BY <1>1, <1>2, <1>3 DEF Caller

LEMMA NextType == TypeInv /\ [Next]_vars => TypeInv'
<1> SUFFICES ASSUME TypeInv, [Next]_vars PROVE TypeInv'
  OBVIOUS
<1>1. CASE UNCHANGED vars
  BY <1>1 DEF vars, client, chain, TypeInv, TypeOK, DelayInv
<1> QED
  BY <1>1, ChainType, TaskType, CallerType DEF Next

(* The task, the futures and the chain never leave their types; for the    *)
(* retry loop this says that no handler runs past the last attempt and no  *)
(* grace window is overrun.                                                *)
THEOREM TypeCorrect == Spec => []TypeOK
<1>1. TypeInv => TypeOK
  BY DEF TypeInv
<1> QED
  BY <1>1, InitType, NextType, PTL DEF Spec

-----------------------------------------------------------------------------
(* An operation executes at most once unless its task abandoned a          *)
(* sequence.                                                               *)
(*                                                                         *)
(* The invariant says at which sequence a transaction of the operation can *)
(* still execute.  As long as nothing was abandoned there is one such      *)
(* sequence: the one the loop is about to sign with, or has signed with;   *)
(* and the chain executes one transaction per sequence.                    *)

(* It has executed, or a block may still execute it.                       *)
Live(p, a) ==
    \/ Executed(p, a)
    \/ stage[p][a] \in Unsettled /\ seqOf[p][a] >= committed

(* A landed transaction has consumed its sequence, and alone.              *)
ChainInv ==
    /\ \A p \in Ops, a \in Attempts :
           /\ stage[p][a] # "unsent" => seqOf[p][a] \in Nat
           /\ Consumed(p, a) => seqOf[p][a] < committed
    /\ \A p, q \in Ops, a, b \in Attempts :
           Consumed(p, a) /\ Consumed(q, b) /\ seqOf[p][a] = seqOf[q][b]
               => p = q /\ a = b

(* What the loop's locals say of the transactions it has sent.             *)
LoopInv(p) ==
    /\ pc[p] = "idle" => attempt[p] = 0
    /\ pc[p] # "done" <=> outcome[p] = "pending"
    /\ \A a \in Attempts : a > attempt[p] => stage[p][a] = "unsent"
    /\ pc[p] \in {"idle", "preflight", "build"} => stage[p][attempt[p]] = "unsent"
    /\ lastTxHash[p] # None => stage[p][lastTxHash[p]] # "unsent"
    /\ pc[p] \in {"wait", "timeoutCheck"} =>
           /\ lastTxHash[p] = attempt[p]
           /\ nextAccountSeq[p] = seqOf[p][attempt[p]]
    /\ pc[p] = "sent" => stage[p][attempt[p]] # "unsent"
    /\ pc[p] = "sent" /\ nextAccountSeq[p] # None =>
           seqOf[p][attempt[p]] = nextAccountSeq[p]

(* Where the transactions that can execute are, in terms of the locals.    *)
AtLastHash(p, a) == lastTxHash[p] # None /\ seqOf[p][a] = seqOf[p][lastTxHash[p]]

SeqInv(p) ==
    /\ \A a, b \in Attempts : Live(p, a) /\ Live(p, b) => seqOf[p][a] = seqOf[p][b]
    /\ \A a \in Attempts : Live(p, a) =>
           /\ pc[p] = "sent" =>
                  /\ seqOf[p][a] = seqOf[p][attempt[p]]
                  /\ a # attempt[p] => AtLastHash(p, a) /\ nextAccountSeq[p] # None
           /\ pc[p] \in {"preflight", "build", "delay"} =>
                  nextAccountSeq[p] # None /\ seqOf[p][a] = nextAccountSeq[p]
           /\ pc[p] \notin {"idle", "sent", "done"} => AtLastHash(p, a)

IInv ==
    /\ TypeInv
    /\ ChainInv
    /\ \A p \in Ops : LoopInv(p)
    /\ \A p \in Ops : ~abandoned[p] => SeqInv(p)

-----------------------------------------------------------------------------
(* Frame: a step of one task leaves the other operations alone.            *)

Same(q) ==
    /\ pc'[q] = pc[q] /\ outcome'[q] = outcome[q] /\ attempt'[q] = attempt[q]
    /\ nextAccountSeq'[q] = nextAccountSeq[q] /\ lastTxHash'[q] = lastTxHash[q]
    /\ abandoned'[q] = abandoned[q]
    /\ seqOf'[q] = seqOf[q] /\ stage'[q] = stage[q] /\ code'[q] = code[q]
    /\ committed' = committed

LEMMA SameKeeps ==
    ASSUME NEW q \in Ops, Same(q), LoopInv(q), ~abandoned[q] => SeqInv(q)
    PROVE  LoopInv(q)' /\ (~abandoned'[q] => SeqInv(q)')
<1>1. LoopInv(q)'
  BY DEF Same, LoopInv
<1>2. \A a : Live(q, a)' <=> Live(q, a)
  BY DEF Same, Live, Executed, Landed
<1>3. \A a : AtLastHash(q, a)' <=> AtLastHash(q, a)
  BY DEF Same, AtLastHash
<1>4. ~abandoned'[q] => SeqInv(q)'
  BY <1>2, <1>3 DEF Same, SeqInv
<1> QED
  BY <1>1, <1>4

LEMMA HelpersFrame ==
    ASSUME TypeInv, NEW p \in Ops, NEW q \in Ops, q # p
    PROVE  /\ \A l : GoTo(p, l) => pc'[q] = pc[q]
           /\ \A r : Resolve(p, r) \/ RetryOrFail(p, r) \/ Handle(p, r) =>
                 pc'[q] = pc[q] /\ outcome'[q] = outcome[q] /\ attempt'[q] = attempt[q]
           /\ ResolveLanded(p) =>
                 pc'[q] = pc[q] /\ outcome'[q] = outcome[q] /\ attempt'[q] = attempt[q]
           /\ Continue(p) \/ RetryWithFreshSeq(p) =>
                 pc'[q] = pc[q] /\ outcome'[q] = outcome[q] /\ attempt'[q] = attempt[q]
           /\ RetryWithFreshSeq(p) => nextAccountSeq'[q] = nextAccountSeq[q]
           /\ Abandon(p) => abandoned'[q] = abandoned[q]
BY DEF TypeInv, TypeOK, GoTo, Resolve, RetryOrFail, Handle, ResolveLanded,
       Continue, RetryWithFreshSeq, Abandon

LEMMA TaskFrame ==
    ASSUME TypeInv, NEW p \in Ops, Task(p), NEW q \in Ops, q # p
    PROVE  Same(q)
<1> USE HelpersFrame DEF chain, Same, TypeInv, TypeOK
<1>1. CASE PreFlight(p)
  BY <1>1 DEF PreFlight
<1>2. CASE BuildAndSend(p)
  BY <1>2 DEF BuildAndSend
<1>3. CASE BuildFails(p)
  BY <1>3 DEF BuildFails
<1>4. CASE HashReturned(p)
  BY <1>4 DEF HashReturned
<1>5. CASE Rejected(p)
  BY <1>5 DEF Rejected
<1>6. CASE RpcError(p)
  BY <1>6 DEF RpcError
<1>7. CASE WaitFinds(p)
  BY <1>7 DEF WaitFinds
<1>8. CASE WaitTimesOut(p)
  BY <1>8 DEF WaitTimesOut
<1>9. CASE OnTimeout(p)
  BY <1>9 DEF OnTimeout
<1>10. CASE OnMismatch(p)
  BY <1>10 DEF OnMismatch
<1>11. CASE GraceCheck(p)
  BY <1>11 DEF GraceCheck
<1>12. CASE DelayEnds(p)
  BY <1>12 DEF DelayEnds
<1> QED
  BY <1>1, <1>2, <1>3, <1>4, <1>5, <1>6, <1>7, <1>8, <1>9, <1>10, <1>11, <1>12
     DEF Task

LEMMA CallerFrame ==
    ASSUME TypeInv, NEW p \in Ops, Caller(p), NEW q \in Ops, q # p
    PROVE  Same(q)
BY HelpersFrame DEF chain, Same, TypeInv, TypeOK, Caller, Submit, Cancel, Expire

-----------------------------------------------------------------------------
(* The ways a handler ends, and what each asks of the invariant.           *)

OpInv(p) == LoopInv(p) /\ (~abandoned[p] => SeqInv(p))

(* Every transaction that can execute is at the sequence s.                *)
LiveAt(p, s) == \A a \in Attempts : Live(p, a) => seqOf[p][a] = s
NoneLive(p)  == \A a \in Attempts : ~Live(p, a)

(* The loop may sign its next attempt with s.                              *)
Ready(p, s) ==
    \/ NoneLive(p)
    \/ /\ s # None /\ LiveAt(p, s)
       /\ \A a \in Attempts : Live(p, a) => AtLastHash(p, a)

LEMMA LiveUnchanged ==
    ASSUME UNCHANGED chain
    PROVE  /\ ChainInv => ChainInv'
           /\ \A p, a : Live(p, a)' <=> Live(p, a)
BY DEF chain, ChainInv, Live, Executed, Consumed, Landed

LEMMA DoneKeeps ==
    ASSUME TypeInv, UNCHANGED chain, NEW p \in Ops, OpInv(p),
           UNCHANGED lastTxHash, NEW r \in Outcomes \ {"pending"}, Resolve(p, r),
           ~abandoned'[p] => ~abandoned[p]
    PROVE  OpInv(p)'
<1>1. /\ pc'[p] = "done" /\ outcome'[p] # "pending" /\ attempt'[p] = attempt[p]
      /\ stage'[p] = stage[p] /\ seqOf'[p] = seqOf[p]
  BY DEF Resolve, GoTo, TypeInv, TypeOK, chain
<1>2. LoopInv(p)'
  BY <1>1 DEF LoopInv, OpInv
<1>3. ~abandoned'[p] => SeqInv(p)'
  BY <1>1, LiveUnchanged DEF SeqInv, OpInv
<1> QED
  BY <1>2, <1>3 DEF OpInv

LEMMA ContinueKeeps ==
    ASSUME TypeInv, UNCHANGED chain, NEW p \in Ops, OpInv(p),
           UNCHANGED lastTxHash, Continue(p), attempt[p] # MaxRetries,
           pc[p] # "done",
           ~abandoned'[p] => Ready(p, nextAccountSeq'[p])
    PROVE  OpInv(p)'
<1>0. attempt[p] \in Attempts /\ attempt[p] + 1 \in Attempts
  <2>1. attempt[p] \in Attempts
    BY DEF TypeInv, TypeOK
  <2> QED
    BY <2>1, ConstantsAssumption DEF Attempts
<1>1. /\ pc'[p] = "preflight" /\ outcome'[p] = outcome[p]
      /\ attempt'[p] = attempt[p] + 1
      /\ attempt[p] \in Attempts /\ attempt[p] + 1 \in Attempts
      /\ stage' = stage /\ seqOf' = seqOf
  BY <1>0 DEF Continue, GoTo, TypeInv, TypeOK, chain
<1>2. \A a \in Attempts : a >= attempt[p] + 1 => stage[p][a] = "unsent"
  <2> SUFFICES ASSUME NEW a \in Attempts, a >= attempt[p] + 1
               PROVE  stage[p][a] = "unsent"
    OBVIOUS
  <2>1. a > attempt[p]
    BY <1>1 DEF Attempts
  <2> QED
    BY <2>1 DEF OpInv, LoopInv
<1>4. \A a \in Attempts : a > attempt[p] + 1 => a >= attempt[p] + 1
  BY <1>1 DEF Attempts
<1>5. attempt[p] + 1 >= attempt[p] + 1
  BY <1>1 DEF Attempts
<1>6. LoopInv(p)'
  BY <1>1, <1>2, <1>4, <1>5 DEF LoopInv, OpInv
<1>3. ~abandoned'[p] => SeqInv(p)'
  BY <1>1, LiveUnchanged DEF SeqInv, Ready, NoneLive, LiveAt, AtLastHash
<1> QED
  BY <1>3, <1>6 DEF OpInv

(* Moving to another await of the same attempt after the broadcast.        *)
LEMMA GoToKeeps ==
    ASSUME TypeInv, UNCHANGED chain, NEW p \in Ops, OpInv(p),
           UNCHANGED <<lastTxHash, outcome, attempt>>,
           NEW l \in {"asmCheck", "asmGrace", "delay"}, GoTo(p, l),
           pc[p] # "done",
           ~abandoned'[p] =>
               \/ NoneLive(p)
               \/ l # "delay" /\ ~abandoned[p]
                     /\ \A a \in Attempts : Live(p, a) => AtLastHash(p, a)
    PROVE  OpInv(p)'
<1>1. /\ pc'[p] = l /\ stage' = stage /\ seqOf' = seqOf
  BY DEF GoTo, TypeInv, TypeOK, chain
<1>2. LoopInv(p)'
  BY <1>1 DEF LoopInv, OpInv
<1>3. ~abandoned'[p] => SeqInv(p)'
  BY <1>1, LiveUnchanged DEF SeqInv, NoneLive, AtLastHash, OpInv
<1> QED
  BY <1>2, <1>3 DEF OpInv

(* A sequence given up without being abandoned is one no transaction of    *)
(* the operation can execute at any more.                                  *)
LEMMA AbandonedOrDead ==
    ASSUME TypeInv, ChainInv, NEW p \in Ops, Abandon(p), ~abandoned'[p],
           \A a \in Attempts : ~abandoned[p] /\ Live(p, a) => AtLastHash(p, a)
    PROVE  NoneLive(p)
<1>1. /\ ~abandoned[p]
      /\ \/ lastTxHash[p] = None
         \/ Consumed(p, lastTxHash[p]) /\ ~Executed(p, lastTxHash[p])
  BY DEF Abandon, TypeInv, TypeOK
<1> SUFFICES ASSUME NEW a \in Attempts, Live(p, a) PROVE FALSE
  BY DEF NoneLive
<1>2. /\ lastTxHash[p] \in Attempts
      /\ seqOf[p][a] = seqOf[p][lastTxHash[p]]
      /\ Consumed(p, lastTxHash[p]) /\ ~Executed(p, lastTxHash[p])
  BY <1>1 DEF AtLastHash, TypeInv, TypeOK
<1>3. seqOf[p][a] < committed
  BY <1>2 DEF ChainInv
<1>4. CASE Executed(p, a)
  <2>1. Consumed(p, a)
    BY <1>4 DEF Executed, Consumed
  <2> QED
    BY <1>2, <1>4, <2>1 DEF ChainInv
<1>5. CASE stage[p][a] \in Unsettled /\ seqOf[p][a] >= committed
  <2>1. seqOf[p][a] \in Nat /\ committed \in Nat
    BY <1>5 DEF ChainInv, Unsettled, TypeInv, TypeOK
  <2> QED
    BY <1>3, <1>5, <2>1
<1> QED
  BY <1>4, <1>5 DEF Live

LEMMA RetryOrFailKeeps ==
    ASSUME TypeInv, UNCHANGED chain, NEW p \in Ops, OpInv(p),
           UNCHANGED lastTxHash, NEW r \in Outcomes \ {"pending"},
           RetryOrFail(p, r), pc[p] # "done",
           ~abandoned'[p] => ~abandoned[p] /\ Ready(p, nextAccountSeq'[p])
    PROVE  OpInv(p)'
BY DoneKeeps, ContinueKeeps DEF RetryOrFail, LastChance

LEMMA HandleKeeps ==
    ASSUME TypeInv, UNCHANGED chain, NEW p \in Ops, OpInv(p),
           UNCHANGED lastTxHash, NEW err \in Codes, Handle(p, err), pc[p] # "done",
           ~abandoned'[p] => ~abandoned[p] /\ Ready(p, nextAccountSeq'[p])
    PROVE  OpInv(p)'
<1>1. CASE err \in {"OutOfGas", "InsufficientFees"} /\ RetryOrFail(p, err)
  BY <1>1, RetryOrFailKeeps DEF Outcomes, Failures, Errors
<1>2. CASE GoTo(p, "asmCheck") /\ UNCHANGED <<attempt, outcome>>
  BY <1>2, GoToKeeps DEF Ready
<1>3. CASE err = "TxError" /\ Resolve(p, err)
  BY <1>3, DoneKeeps DEF Outcomes, Failures, Errors
<1> QED
  BY <1>1, <1>2, <1>3 DEF Handle

LEMMA ResolveLandedKeeps ==
    ASSUME TypeInv, UNCHANGED chain, NEW p \in Ops, OpInv(p),
           UNCHANGED <<lastTxHash, abandoned>>, ResolveLanded(p)
    PROVE  OpInv(p)'
<1>1. lastTxHash[p] \in Attempts
  BY DEF ResolveLanded, SeesLanded, TypeInv, TypeOK
<1>2. code[p][lastTxHash[p]] \in Outcomes \ {"pending"}
  BY <1>1 DEF TypeInv, TypeOK, Codes, Outcomes, Failures, Errors
<1> QED
  BY <1>2, DoneKeeps DEF ResolveLanded

LEMMA FreshSeqKeeps ==
    ASSUME TypeInv, ChainInv, UNCHANGED chain, NEW p \in Ops, OpInv(p),
           UNCHANGED lastTxHash, pc[p] \in {"asmCheck", "asmGrace"},
           RetryWithFreshSeq(p), Abandon(p)
    PROVE  OpInv(p)'
<1>1. ~abandoned'[p] => ~abandoned[p]
  BY DEF Abandon, TypeInv, TypeOK
<1>2. ~abandoned'[p] => NoneLive(p)
  <2>1. \A a \in Attempts : ~abandoned[p] /\ Live(p, a) => AtLastHash(p, a)
    BY DEF OpInv, SeqInv
  <2> QED
    BY <2>1, AbandonedOrDead
<1>3. CASE LastChance(p)
  BY <1>1, <1>3, DoneKeeps DEF RetryWithFreshSeq, Outcomes, Failures, Errors
<1>4. CASE ~LastChance(p) /\ RetryDelay
  BY <1>2, <1>4, GoToKeeps DEF RetryWithFreshSeq
<1>5. CASE ~LastChance(p) /\ ~RetryDelay
  BY <1>2, <1>5, ContinueKeeps DEF RetryWithFreshSeq, LastChance, Ready
<1> QED
  BY <1>3, <1>4, <1>5

(* After a wait the sequence just used is the one to stay at.              *)
LEMMA ReadyFromLastHash ==
    ASSUME TypeInv, ChainInv, NEW p \in Ops, OpInv(p), ~abandoned[p],
           lastTxHash[p] = attempt[p], pc[p] \in {"wait", "timeoutCheck"}
    PROVE  Ready(p, seqOf[p][attempt[p]])
<1>1. attempt[p] \in Attempts /\ attempt[p] # None
  BY ConstantsAssumption DEF TypeInv, TypeOK, Attempts, None
<1>2. stage[p][attempt[p]] # "unsent"
  BY <1>1 DEF OpInv, LoopInv
<1>3. seqOf[p][attempt[p]] \in Nat
  BY <1>1, <1>2 DEF ChainInv
<1>4. \A a \in Attempts : Live(p, a) => AtLastHash(p, a)
  BY DEF OpInv, SeqInv
<1> QED
  BY <1>1, <1>3, <1>4 DEF Ready, LiveAt, AtLastHash, None

-----------------------------------------------------------------------------
(* The steps of a task and of its caller preserve the invariant.           *)

LEMMA BuildAndSendKeeps ==
    ASSUME TypeInv, ChainInv, NEW p \in Ops, OpInv(p), BuildAndSend(p),
           \A q \in Ops : q # p => Same(q)
    PROVE  ChainInv' /\ OpInv(p)'
<1> DEFINE n == attempt[p]
<1>1. /\ n \in Attempts /\ pc[p] = "build" /\ stage[p][n] = "unsent"
      /\ pc'[p] = "sent" /\ outcome'[p] = outcome[p]
      /\ attempt' = attempt /\ nextAccountSeq' = nextAccountSeq
      /\ lastTxHash' = lastTxHash /\ abandoned' = abandoned
      /\ code' = code /\ committed' = committed
  BY DEF BuildAndSend, GoTo, TypeInv, TypeOK, OpInv, LoopInv
<1>2. CommittedViews \subseteq Nat
  BY DEF CommittedViews, TypeInv, TypeOK
<1>3. /\ seqOf'[p][n] \in Nat \cup {None}
      /\ nextAccountSeq[p] # None => seqOf'[p][n] = nextAccountSeq[p]
      /\ nextAccountSeq[p] # None => seqOf'[p][n] \in Nat
      /\ nextAccountSeq[p] = None => seqOf'[p][n] \in Nat
      /\ \A a \in Attempts : a # n => seqOf'[p][a] = seqOf[p][a]
  BY <1>1, <1>2 DEF BuildAndSend, TypeInv, TypeOK
<1>4. /\ stage'[p][n] = "inflight"
      /\ \A a \in Attempts : a # n => stage'[p][a] = stage[p][a]
  BY <1>1 DEF BuildAndSend, TypeInv, TypeOK
<1>5. \A q \in Ops, a \in Attempts : q # p \/ a # n =>
          seqOf'[q][a] = seqOf[q][a] /\ stage'[q][a] = stage[q][a]
  BY <1>3, <1>4 DEF Same
<1>6. \A q \in Ops, a \in Attempts :
          Consumed(q, a)' <=> Consumed(q, a) /\ (q # p \/ a # n)
  BY <1>1, <1>4, <1>5 DEF Consumed, Landed
<1>7. ChainInv'
  <2>1. \A q \in Ops, a \in Attempts :
            /\ stage'[q][a] # "unsent" => seqOf'[q][a] \in Nat
            /\ Consumed(q, a)' => seqOf'[q][a] < committed'
    BY <1>1, <1>3, <1>5, <1>6 DEF ChainInv
  <2>2. \A q, r \in Ops, a, b \in Attempts :
            Consumed(q, a)' /\ Consumed(r, b)' /\ seqOf'[q][a] = seqOf'[r][b]
                => q = r /\ a = b
    BY <1>5, <1>6 DEF ChainInv
  <2> QED
    BY <2>1, <2>2 DEF ChainInv
<1>8. LoopInv(p)'
  <2>1. n \in Attempts /\ (lastTxHash[p] # None => lastTxHash[p] \in Attempts)
    BY DEF TypeInv, TypeOK
  <2>2. \A a \in Attempts : a > n => a # n
    BY <2>1, ConstantsAssumption DEF Attempts
  <2> QED
    BY <1>1, <1>3, <1>4, <2>1, <2>2 DEF LoopInv, OpInv
<1>9. ASSUME ~abandoned[p] PROVE SeqInv(p)'
  <2>1. \A a \in Attempts : a # n => (Live(p, a)' <=> Live(p, a))
    BY <1>1, <1>3, <1>4 DEF Live, Executed, Landed
  <2>2. ~Live(p, n)
    BY <1>1 DEF Live, Executed, Landed, Unsettled
  <2>3. \A a \in Attempts : Live(p, a) =>
            /\ nextAccountSeq[p] # None /\ seqOf[p][a] = nextAccountSeq[p]
            /\ AtLastHash(p, a)
    BY <1>1, <1>9 DEF OpInv, SeqInv
  <2>4. lastTxHash[p] # None => lastTxHash[p] \in Attempts /\ lastTxHash[p] # n
    BY <1>1 DEF TypeInv, TypeOK, OpInv, LoopInv
  <2>5. \A a \in Attempts : Live(p, a)' /\ a # n =>
            /\ nextAccountSeq[p] # None /\ seqOf'[p][a] = seqOf'[p][n]
            /\ AtLastHash(p, a)'
    BY <1>1, <1>3, <2>1, <2>3, <2>4 DEF AtLastHash
  <2> QED
    BY <1>1, <2>5 DEF SeqInv
<1> QED
  BY <1>1, <1>7, <1>8, <1>9 DEF OpInv

LEMMA WaitFindsKeeps ==
    ASSUME TypeInv, ChainInv, NEW p \in Ops, OpInv(p), WaitFinds(p)
    PROVE  OpInv(p)'
<1>1. /\ UNCHANGED chain /\ UNCHANGED lastTxHash /\ pc[p] = "wait"
      /\ lastTxHash[p] = attempt[p] /\ attempt[p] \in Attempts
      /\ code[p][attempt[p]] \in Codes
  BY DEF WaitFinds, OpInv, LoopInv, TypeInv, TypeOK
<1>2. CASE Executed(p, attempt[p])
  BY <1>1, <1>2, DoneKeeps DEF WaitFinds, Outcomes
<1>3. CASE ~Executed(p, attempt[p])
  <2>1. Handle(p, code[p][attempt[p]]) /\ Abandon(p)
    BY <1>3 DEF WaitFinds
  <2>2. ~abandoned'[p] => ~abandoned[p]
    BY <2>1 DEF Abandon, TypeInv, TypeOK
  <2>3. \A a \in Attempts : ~abandoned[p] /\ Live(p, a) => AtLastHash(p, a)
    BY <1>1 DEF OpInv, SeqInv
  <2>4. ~abandoned'[p] => Ready(p, nextAccountSeq'[p])
    BY <2>1, <2>3, AbandonedOrDead DEF Ready
  <2> QED
    BY <1>1, <2>1, <2>2, <2>4, HandleKeeps
<1> QED
  BY <1>2, <1>3

LEMMA RejectedKeeps ==
    ASSUME TypeInv, ChainInv, NEW p \in Ops, OpInv(p), Rejected(p)
    PROVE  OpInv(p)'
<1>1. /\ UNCHANGED chain /\ UNCHANGED lastTxHash /\ pc[p] = "sent"
      /\ abandoned' = abandoned /\ nextAccountSeq' = nextAccountSeq
      /\ Handle(p, code[p][attempt[p]])
      /\ attempt[p] \in Attempts /\ code[p][attempt[p]] \in Codes
  BY DEF Rejected, TypeInv, TypeOK
<1>2. ~Live(p, attempt[p])
  BY DEF Rejected, Live, Executed, Landed, Unsettled
<1>3. ~abandoned[p] => Ready(p, nextAccountSeq[p])
  BY <1>1, <1>2 DEF Ready, NoneLive, LiveAt, OpInv, SeqInv, LoopInv
<1> QED
  BY <1>1, <1>3, HandleKeeps

LEMMA HashReturnedKeeps ==
    ASSUME TypeInv, ChainInv, NEW p \in Ops, OpInv(p), HashReturned(p)
    PROVE  OpInv(p)'
<1>1. /\ UNCHANGED chain /\ pc[p] = "sent" /\ pc'[p] = "wait"
      /\ lastTxHash'[p] = attempt[p]
      /\ nextAccountSeq'[p] = seqOf[p][attempt[p]]
      /\ outcome' = outcome /\ attempt' = attempt /\ abandoned' = abandoned
      /\ attempt[p] \in Attempts
  BY DEF HashReturned, GoTo, TypeInv, TypeOK
<1>2. attempt[p] # None
  BY <1>1, ConstantsAssumption DEF Attempts, None
<1>3. stage' = stage /\ seqOf' = seqOf
  BY <1>1 DEF chain
<1>4. LoopInv(p)'
  BY <1>1, <1>3 DEF LoopInv, OpInv
<1>5. ~abandoned[p] => SeqInv(p)'
  BY <1>1, <1>2, <1>3, LiveUnchanged DEF SeqInv, OpInv, AtLastHash
<1> QED
  BY <1>1, <1>4, <1>5 DEF OpInv

LEMMA OnTimeoutKeeps ==
    ASSUME TypeInv, ChainInv, NEW p \in Ops, OpInv(p), OnTimeout(p)
    PROVE  OpInv(p)'
<1>1. /\ UNCHANGED chain /\ UNCHANGED lastTxHash /\ pc[p] = "timeoutCheck"
      /\ lastTxHash[p] = attempt[p]
      /\ nextAccountSeq[p] = seqOf[p][attempt[p]]
  BY DEF OnTimeout, OpInv, LoopInv
<1>2. CASE ResolveLanded(p) /\ UNCHANGED <<nextAccountSeq, sameSeqRebroadcast, abandoned>>
  BY <1>1, <1>2, ResolveLandedKeeps
<1>3. CASE Abandon(p) /\ RetryOrFail(p, "TxTimeout")
  <2>1. ~abandoned'[p] => ~abandoned[p]
    BY <1>3 DEF Abandon, TypeInv, TypeOK
  <2>2. \A a \in Attempts : ~abandoned[p] /\ Live(p, a) => AtLastHash(p, a)
    BY <1>1 DEF OpInv, SeqInv
  <2>3. ~abandoned'[p] => Ready(p, nextAccountSeq'[p])
    BY <1>3, <2>2, AbandonedOrDead DEF Ready
  <2> QED
    BY <1>1, <1>3, <2>1, <2>3, RetryOrFailKeeps DEF Outcomes, Failures
<1>4. CASE RetryOrFail(p, "TxTimeout") /\ UNCHANGED <<nextAccountSeq, abandoned>>
  <2>1. ~abandoned[p] => Ready(p, nextAccountSeq[p])
    BY <1>1, ReadyFromLastHash
  <2> QED
    BY <1>1, <1>4, <2>1, RetryOrFailKeeps DEF Outcomes, Failures
<1> QED
  BY <1>2, <1>3, <1>4 DEF OnTimeout

LEMMA OnMismatchKeeps ==
    ASSUME TypeInv, ChainInv, NEW p \in Ops, OpInv(p), OnMismatch(p)
    PROVE  OpInv(p)'
<1>1. UNCHANGED chain /\ UNCHANGED lastTxHash /\ pc[p] = "asmCheck"
  BY DEF OnMismatch
<1>2. CASE ResolveLanded(p) /\ UNCHANGED <<nextAccountSeq, sameSeqRebroadcast, grace, abandoned>>
  BY <1>1, <1>2, ResolveLandedKeeps
<1>3. CASE /\ GoTo(p, "asmGrace")
           /\ UNCHANGED <<outcome, attempt, nextAccountSeq, abandoned>>
  <2>1. ~abandoned[p] => \A a \in Attempts : Live(p, a) => AtLastHash(p, a)
    BY <1>1 DEF OpInv, SeqInv
  <2> QED
    BY <1>1, <1>3, <2>1, GoToKeeps
<1>4. CASE RetryWithFreshSeq(p) /\ Abandon(p)
  BY <1>1, <1>4, FreshSeqKeeps
<1> QED
  BY <1>2, <1>3, <1>4 DEF OnMismatch

LEMMA GraceCheckKeeps ==
    ASSUME TypeInv, ChainInv, NEW p \in Ops, OpInv(p), GraceCheck(p)
    PROVE  OpInv(p)'
<1>1. UNCHANGED chain /\ UNCHANGED lastTxHash /\ pc[p] = "asmGrace"
  BY DEF GraceCheck
<1>2. CASE ResolveLanded(p) /\ UNCHANGED <<nextAccountSeq, grace, abandoned>>
  BY <1>1, <1>2, ResolveLandedKeeps
<1>3. CASE RetryWithFreshSeq(p) /\ Abandon(p)
  BY <1>1, <1>3, FreshSeqKeeps
<1>4. CASE UNCHANGED <<pc, outcome, attempt, nextAccountSeq, abandoned>>
  BY <1>1, <1>4, LiveUnchanged DEF chain, OpInv, LoopInv, SeqInv, AtLastHash
<1> QED
  BY <1>2, <1>3, <1>4 DEF GraceCheck

LEMMA BuildFailsKeeps ==
    ASSUME TypeInv, ChainInv, NEW p \in Ops, OpInv(p), BuildFails(p)
    PROVE  OpInv(p)'
<1>1. /\ UNCHANGED chain /\ UNCHANGED lastTxHash /\ pc[p] = "build"
      /\ abandoned' = abandoned /\ nextAccountSeq' = nextAccountSeq
  BY DEF BuildFails
<1>2. ~abandoned[p] => Ready(p, nextAccountSeq[p])
  BY <1>1 DEF OpInv, SeqInv, Ready, NoneLive, LiveAt
<1>3. CASE Resolve(p, "MaxFees") \/ Resolve(p, "Other")
  BY <1>1, <1>3, DoneKeeps DEF Outcomes, Failures
<1>4. CASE RetryOrFail(p, "TxTimeout")
  BY <1>1, <1>2, <1>4, RetryOrFailKeeps DEF Outcomes, Failures
<1> QED
  BY <1>3, <1>4 DEF BuildFails

LEMMA DelayEndsKeeps ==
    ASSUME TypeInv, ChainInv, NEW p \in Ops, OpInv(p), DelayEnds(p)
    PROVE  OpInv(p)'
<1>1. /\ UNCHANGED chain /\ UNCHANGED lastTxHash /\ pc[p] = "delay"
      /\ abandoned' = abandoned /\ nextAccountSeq' = nextAccountSeq
      /\ attempt[p] # MaxRetries
  BY DEF DelayEnds, TypeInv, DelayInv
<1>2. ~abandoned[p] => Ready(p, nextAccountSeq[p])
  BY <1>1 DEF OpInv, SeqInv, Ready, NoneLive, LiveAt
<1>3. CASE Resolve(p, "SequenceMismatch")
  BY <1>1, <1>3, DoneKeeps DEF Outcomes, Failures, Errors
<1>4. CASE Continue(p)
  BY <1>1, <1>2, <1>4, ContinueKeeps
<1> QED
  BY <1>3, <1>4 DEF DelayEnds

LEMMA MoveKeeps ==
    ASSUME TypeInv, NEW p \in Ops, OpInv(p), PreFlight(p) \/ WaitTimesOut(p)
    PROVE  OpInv(p)'
<1>1. CASE PreFlight(p) /\ GoTo(p, "build") /\ UNCHANGED <<outcome, attempt>>
  <2>1. pc[p] = "preflight" /\ pc'[p] = "build" /\ UNCHANGED chain
    BY <1>1 DEF PreFlight, GoTo, TypeInv, TypeOK
  <2> QED
    BY <1>1, <2>1, LiveUnchanged DEF PreFlight, chain, OpInv, LoopInv, SeqInv, AtLastHash
<1>2. CASE PreFlight(p) /\ Resolve(p, "Other")
  BY <1>2, DoneKeeps DEF PreFlight, Outcomes, Failures
<1>3. CASE WaitTimesOut(p)
  <2>1. pc[p] = "wait" /\ pc'[p] = "timeoutCheck" /\ UNCHANGED chain
    BY <1>3 DEF WaitTimesOut, GoTo, TypeInv, TypeOK
  <2> QED
    BY <1>3, <2>1, LiveUnchanged DEF WaitTimesOut, chain, OpInv, LoopInv, SeqInv, AtLastHash
<1> QED
  BY <1>1, <1>2, <1>3 DEF PreFlight

LEMMA RpcErrorKeeps ==
    ASSUME TypeInv, NEW p \in Ops, OpInv(p), RpcError(p)
    PROVE  OpInv(p)'
BY DoneKeeps DEF RpcError, Outcomes, Failures

LEMMA CallerKeeps ==
    ASSUME TypeInv, ChainInv, NEW p \in Ops, OpInv(p), Caller(p)
    PROVE  OpInv(p)'
<1>1. CASE Submit(p)
  <2>1. /\ pc[p] = "idle" /\ pc'[p] = "preflight" /\ UNCHANGED chain
        /\ UNCHANGED <<outcome, attempt, lastTxHash, abandoned>>
        /\ attempt[p] = 0
    BY <1>1 DEF Submit, GoTo, TypeInv, TypeOK, OpInv, LoopInv
  <2>2. \A a \in Attempts : stage[p][a] = "unsent"
    <3>1. \A a \in Attempts : a = 0 \/ a > 0
      BY ConstantsAssumption DEF Attempts
    <3> QED
      BY <2>1, <3>1 DEF OpInv, LoopInv
  <2>3. NoneLive(p)
    BY <2>2 DEF NoneLive, Live, Executed, Landed, Unsettled
  <2>4. LoopInv(p)'
    BY <2>1 DEF chain, OpInv, LoopInv
  <2> QED
    BY <2>1, <2>3, <2>4, LiveUnchanged DEF NoneLive, OpInv, SeqInv
<1>2. CASE Cancel(p)
  BY <1>2, DoneKeeps DEF Cancel, Outcomes
<1>3. CASE Expire(p)
  BY <1>3, LiveUnchanged DEF Expire, chain, OpInv, LoopInv, SeqInv, AtLastHash
<1> QED
  BY <1>1, <1>2, <1>3 DEF Caller

-----------------------------------------------------------------------------
(* The chain only takes possibilities away: no transaction becomes live,   *)
(* and a landed one stays landed.                                          *)

LEMMA ShrinkKeeps ==
    ASSUME NEW q \in Ops, UNCHANGED <<client, seqOf>>,
           \A a \in Attempts : Live(q, a)' => Live(q, a),
           \A a \in Attempts \cup {lastTxHash[q], attempt[q]} :
               stage'[q][a] = "unsent" <=> stage[q][a] = "unsent",
           OpInv(q)
    PROVE  OpInv(q)'
<1>1. LoopInv(q)'
  BY DEF client, OpInv, LoopInv
<1>2. ~abandoned[q] => SeqInv(q)'
  BY DEF client, OpInv, SeqInv, AtLastHash
<1> QED
  BY <1>1, <1>2 DEF client, OpInv

LEMMA ChainKeeps ==
    ASSUME TypeInv, ChainInv, \A q \in Ops : OpInv(q), ChainStep
    PROVE  ChainInv' /\ \A q \in Ops : OpInv(q)'
<1>0. \A q \in Ops : /\ attempt[q] \in Attempts
                     /\ lastTxHash[q] \in Attempts \cup {None}
  BY DEF TypeInv, TypeOK
<1>1. ASSUME NEW p \in Ops, NEW a \in Attempts, stage[p][a] \in Unsettled,
             NEW st \in {"mempool", "gone", "rejected"},
             stage' = [stage EXCEPT ![p][a] = st],
             \A q \in Ops, b \in Attempts : q # p \/ b # a => code'[q][b] = code[q][b],
             UNCHANGED <<client, seqOf, committed>>
      PROVE  ChainInv' /\ \A q \in Ops : OpInv(q)'
  <2>1. /\ stage'[p][a] = st /\ stage[p][a] # "unsent"
        /\ \A q \in Ops : \A b : q # p \/ b # a => stage'[q][b] = stage[q][b]
    BY <1>1 DEF TypeInv, TypeOK, Unsettled
  <2>2. \A q \in Ops, b \in Attempts : Consumed(q, b)' <=> Consumed(q, b)
    BY <1>1, <2>1 DEF Consumed, Landed, Unsettled
  <2>3. ChainInv'
    BY <1>1, <2>1, <2>2 DEF ChainInv
  <2>4. \A q \in Ops, b \in Attempts : Live(q, b)' => Live(q, b)
    BY <1>1, <2>1 DEF Live, Executed, Landed, Unsettled
  <2>5. \A q \in Ops : \A b : stage'[q][b] = "unsent" <=> stage[q][b] = "unsent"
    BY <1>1, <2>1 DEF Unsettled
  <2> QED
    BY <1>1, <2>3, <2>4, <2>5, ShrinkKeeps
<1>2. ASSUME NEW p \in Ops, NEW a \in Attempts, stage[p][a] = "mempool",
             NEW c \in Codes, Settle(p, a, "landed", c),
             UNCHANGED <<client, seqOf>>,
             \/ seqOf[p][a] = committed /\ committed' = committed + 1
             \/ c \in {"InsufficientFees", "SequenceMismatch"} /\ committed' = committed
      PROVE  ChainInv' /\ \A q \in Ops : OpInv(q)'
  <2>1. /\ stage'[p][a] = "landed" /\ stage[p][a] # "unsent" /\ code'[p][a] = c
        /\ \A q \in Ops : \A b : q # p \/ b # a => stage'[q][b] = stage[q][b]
        /\ \A q \in Ops : \A b : q # p \/ b # a => code'[q][b] = code[q][b]
    BY <1>2 DEF Settle, TypeInv, TypeOK
  <2>2. /\ committed \in Nat /\ committed' \in Nat
        /\ \A n \in Nat : n < committed => n < committed'
        /\ \A n \in Nat : n >= committed' => n >= committed
    BY <1>2 DEF TypeInv, TypeOK
  <2>3. \A q \in Ops, b \in Attempts : q # p \/ b # a =>
            (Consumed(q, b)' <=> Consumed(q, b))
    BY <2>1 DEF Consumed, Landed
  <2>4. seqOf[p][a] \in Nat
    BY <1>2 DEF ChainInv
  <2>5. Consumed(p, a)' => seqOf[p][a] = committed /\ committed' = committed + 1
    BY <1>2, <2>1 DEF Consumed, Landed
  <2>6. \A q \in Ops, b \in Attempts : Consumed(q, b) =>
            seqOf[q][b] \in Nat /\ seqOf[q][b] < committed
    BY DEF ChainInv, Consumed, Landed
  <2>7. \A q \in Ops, b \in Attempts :
            /\ stage'[q][b] # "unsent" => seqOf'[q][b] \in Nat
            /\ Consumed(q, b)' => seqOf'[q][b] < committed'
    <3> SUFFICES ASSUME NEW q \in Ops, NEW b \in Attempts
                 PROVE  /\ stage'[q][b] # "unsent" => seqOf'[q][b] \in Nat
                        /\ Consumed(q, b)' => seqOf'[q][b] < committed'
      OBVIOUS
    <3>1. CASE q = p /\ b = a
      BY <1>2, <2>2, <2>4, <2>5, <3>1
    <3>2. CASE q # p \/ b # a
      BY <1>2, <2>1, <2>2, <2>3, <2>6, <3>2 DEF ChainInv
    <3> QED
      BY <3>1, <3>2
  <2>8. \A q, r \in Ops, b, d \in Attempts :
            Consumed(q, b)' /\ Consumed(r, d)' /\ seqOf'[q][b] = seqOf'[r][d]
                => q = r /\ b = d
    <3> SUFFICES ASSUME NEW q \in Ops, NEW r \in Ops,
                        NEW b \in Attempts, NEW d \in Attempts,
                        Consumed(q, b)', Consumed(r, d)', seqOf[q][b] = seqOf[r][d]
                 PROVE  q = r /\ b = d
      BY <1>2
    <3>1. CASE q = p /\ b = a
      BY <2>2, <2>3, <2>5, <2>6, <3>1
    <3>2. CASE r = p /\ d = a
      BY <2>2, <2>3, <2>5, <2>6, <3>2
    <3>3. CASE (q # p \/ b # a) /\ (r # p \/ d # a)
      BY <2>3, <3>3 DEF ChainInv
    <3> QED
      BY <3>1, <3>2, <3>3
  <2>9. ChainInv'
    BY <2>7, <2>8 DEF ChainInv
  <2>10. \A q \in Ops, b \in Attempts : Live(q, b)' => Live(q, b)
    <3> SUFFICES ASSUME NEW q \in Ops, NEW b \in Attempts, Live(q, b)'
                 PROVE  Live(q, b)
      OBVIOUS
    <3>1. CASE q = p /\ b = a
      <4>1. Executed(p, a)'
        BY <2>1, <3>1 DEF Live, Unsettled
      <4>2. Consumed(p, a)'
        BY <4>1 DEF Executed, Consumed
      <4> QED
        BY <1>2, <2>2, <2>5, <3>1, <4>2 DEF Live, Unsettled
    <3>2. CASE q # p \/ b # a
      <4>1. stage[q][b] \in Unsettled => seqOf[q][b] \in Nat
        BY DEF ChainInv, Unsettled
      <4> QED
        BY <1>2, <2>1, <2>2, <3>2, <4>1 DEF Live, Executed, Landed
    <3> QED
      BY <3>1, <3>2
  <2>11. \A q \in Ops : \A b : stage'[q][b] = "unsent" <=> stage[q][b] = "unsent"
    BY <2>1
  <2> QED
    BY <1>2, <2>9, <2>10, <2>11, ShrinkKeeps
<1>3. CASE Foreign
  <2>1. /\ UNCHANGED <<client, seqOf, stage, code>> /\ committed' = committed + 1
        /\ committed \in Nat
    BY <1>3 DEF Foreign, TypeInv, TypeOK
  <2>2. \A q \in Ops, b \in Attempts :
            /\ Consumed(q, b)' <=> Consumed(q, b)
            /\ Consumed(q, b) => seqOf[q][b] \in Nat
            /\ stage[q][b] \in Unsettled => seqOf[q][b] \in Nat
    BY <2>1 DEF Consumed, Landed, ChainInv, Unsettled
  <2>3. ChainInv'
    BY <2>1, <2>2 DEF ChainInv
  <2>4. \A q \in Ops, b \in Attempts : Live(q, b)' => Live(q, b)
    BY <2>1, <2>2 DEF Live, Executed, Landed
  <2> QED
    BY <2>1, <2>3, <2>4, ShrinkKeeps
<1>4. ASSUME NEW p \in Ops, NEW a \in Attempts,
             CheckTx(p, a) \/ Vanish(p, a)
      PROVE  ChainInv' /\ \A q \in Ops : OpInv(q)'
  <2>1. PICK st \in {"mempool", "gone", "rejected"} :
            /\ stage[p][a] \in Unsettled
            /\ stage' = [stage EXCEPT ![p][a] = st]
            /\ code' = code \/ \E c \in Codes : code' = [code EXCEPT ![p][a] = c]
            /\ UNCHANGED <<client, seqOf, committed>>
    BY <1>4 DEF CheckTx, Vanish, Settle, Unsettled, Codes, Errors
  <2>2. \A q \in Ops, b \in Attempts : q # p \/ b # a => code'[q][b] = code[q][b]
    BY <2>1 DEF TypeInv, TypeOK
  <2> QED
    BY <1>1, <2>1, <2>2
<1>5. ASSUME NEW p \in Ops, NEW a \in Attempts,
             Include(p, a) \/ IncludeFailingAnte(p, a)
      PROVE  ChainInv' /\ \A q \in Ops : OpInv(q)'
  BY <1>2, <1>5 DEF Include, IncludeFailingAnte, Codes, Errors
<1> QED
  BY <1>3, <1>4, <1>5 DEF ChainStep

-----------------------------------------------------------------------------
LEMMA InitIInv == Init => IInv
<1> SUFFICES ASSUME Init PROVE IInv
  OBVIOUS
<1>1. TypeInv
  BY InitType
<1>2. \A p \in Ops, a \in Attempts : stage[p][a] = "unsent"
  BY DEF Init
<1>3. \A p \in Ops, a \in Attempts : ~Live(p, a) /\ ~Consumed(p, a)
  BY <1>2 DEF Live, Executed, Consumed, Landed, Unsettled
<1>4. ChainInv
  BY <1>2, <1>3 DEF ChainInv
<1>5. 0 \in Attempts
  BY ConstantsAssumption DEF Attempts
<1>6. \A p \in Ops : LoopInv(p)
  BY <1>2, <1>5 DEF Init, LoopInv
<1>7. \A p \in Ops : SeqInv(p)
  BY <1>3 DEF SeqInv
<1> QED
  BY <1>1, <1>4, <1>6, <1>7 DEF IInv

LEMMA OpKeeps ==
    ASSUME TypeInv, ChainInv, NEW p \in Ops, OpInv(p), Task(p) \/ Caller(p),
           \A q \in Ops : q # p => Same(q)
    PROVE  ChainInv' /\ OpInv(p)'
<1>1. CASE BuildAndSend(p)
  BY <1>1, BuildAndSendKeeps
<1>2. CASE Caller(p)
  <2>1. UNCHANGED chain
    BY <1>2 DEF Caller, Submit, Cancel, Expire
  <2> QED
    BY <1>2, <2>1, LiveUnchanged, CallerKeeps
<1>3. CASE Task(p) /\ ~BuildAndSend(p)
  <2>1. UNCHANGED chain
    BY <1>3 DEF Task, PreFlight, BuildFails, HashReturned, Rejected, RpcError,
                WaitFinds, WaitTimesOut, OnTimeout, OnMismatch, GraceCheck, DelayEnds
  <2>2. OpInv(p)'
    BY <1>3, MoveKeeps, BuildFailsKeeps, HashReturnedKeeps, RejectedKeeps,
       RpcErrorKeeps, WaitFindsKeeps, OnTimeoutKeeps, OnMismatchKeeps,
       GraceCheckKeeps, DelayEndsKeeps DEF Task
  <2> QED
    BY <2>1, <2>2, LiveUnchanged
<1> QED
  BY <1>1, <1>2, <1>3

LEMMA NextIInv == IInv /\ [Next]_vars => IInv'
<1> SUFFICES ASSUME IInv, [Next]_vars PROVE IInv'
  OBVIOUS
<1>1. TypeInv /\ ChainInv /\ TypeInv' /\ \A q \in Ops : OpInv(q)
  BY NextType DEF IInv, OpInv
<1>2. ChainInv' /\ \A q \in Ops : OpInv(q)'
  <2>1. CASE UNCHANGED vars
    <3>1. UNCHANGED chain /\ \A q \in Ops : Same(q)
      BY <2>1 DEF vars, client, chain, Same
    <3> QED
      BY <1>1, <3>1, LiveUnchanged, SameKeeps DEF OpInv
  <2>2. CASE ChainStep
    BY <1>1, <2>2, ChainKeeps
  <2>3. ASSUME NEW p \in Ops, Task(p) \/ Caller(p)
        PROVE  ChainInv' /\ \A q \in Ops : OpInv(q)'
    <3>1. \A q \in Ops : q # p => Same(q)
      BY <1>1, <2>3, TaskFrame, CallerFrame
    <3>2. ChainInv' /\ OpInv(p)'
      BY <1>1, <2>3, <3>1, OpKeeps
    <3>3. \A q \in Ops : q # p => OpInv(q)'
      BY <1>1, <3>1, SameKeeps DEF OpInv
    <3> QED
      BY <3>2, <3>3
  <2> QED
    BY <2>1, <2>2, <2>3 DEF Next
<1> QED
  BY <1>1, <1>2 DEF IInv, OpInv

LEMMA IInvImplies == IInv => AtMostOnceUnlessAbandoned
<1> SUFFICES ASSUME IInv, NEW p \in Ops, NEW a \in Attempts, NEW b \in Attempts,
                    ~abandoned[p], Executed(p, a), Executed(p, b)
             PROVE  a = b
  BY DEF AtMostOnceUnlessAbandoned
<1>1. Consumed(p, a) /\ Consumed(p, b)
  BY DEF Executed, Consumed
<1>2. seqOf[p][a] = seqOf[p][b]
  BY DEF IInv, SeqInv, Live
<1> QED
  BY <1>1, <1>2 DEF IInv, ChainInv

(* Whatever is lost, delayed, reordered or rejected, and however many      *)
(* operations and strangers share the account: an operation is executed at *)
(* most once unless its task gave up a sequence it had sent at.            *)
THEOREM AtMostOnce == Spec => []AtMostOnceUnlessAbandoned
BY InitIInv, NextIInv, IInvImplies, PTL DEF Spec

HIDE ConstantsAssumption

-----------------------------------------------------------------------------
(* The submission task implements SubmitContract, and "ok" answers only an *)
(* operation whose last known transaction has executed.                    *)
(*                                                                         *)
(* The chain's steps map to Execute or a stutter, and at most one Execute  *)
(* is what AtMostOnceUnlessAbandoned allows.  The steps of a task and of   *)
(* its caller execute nothing; they answer, doubt, or stutter.             *)

(* What a step of p's task may do to the future: nothing, or resolve it,   *)
(* to "ok" only for an executed transaction.                               *)
OkIsTrue(p, r) == r = "ok" => lastTxHash[p] # None /\ Executed(p, lastTxHash[p])

Answering(p) ==
    \/ UNCHANGED outcome
    \/ \E r \in Outcomes \ {"pending"} :
           outcome' = [outcome EXCEPT ![p] = r] /\ OkIsTrue(p, r)

Doubting(p) == UNCHANGED abandoned \/ abandoned' = [abandoned EXCEPT ![p] = TRUE]

LEMMA FailureAnswers ==
    ASSUME NEW p \in Ops, NEW r \in Outcomes \ {"pending", "ok"},
           Resolve(p, r) \/ RetryOrFail(p, r)
    PROVE  Answering(p)
BY DEF Answering, OkIsTrue, Resolve, RetryOrFail, Continue

LEMMA HandleAnswers ==
    ASSUME NEW p \in Ops, NEW err, Handle(p, err)
    PROVE  Answering(p)
<1>1. {"OutOfGas", "InsufficientFees", "TxError"} \subseteq Outcomes \ {"pending", "ok"}
  BY DEF Outcomes, Failures, Errors
<1> QED
  BY <1>1, FailureAnswers DEF Handle, Answering

LEMMA FreshSeqAnswers ==
    ASSUME NEW p \in Ops, RetryWithFreshSeq(p)
    PROVE  Answering(p)
<1>1. "SequenceMismatch" \in Outcomes \ {"pending", "ok"}
  BY DEF Outcomes, Failures, Errors
<1> QED
  BY <1>1, FailureAnswers DEF RetryWithFreshSeq, Continue, Answering

LEMMA LandedAnswers ==
    ASSUME TypeInv, NEW p \in Ops, ResolveLanded(p)
    PROVE  Answering(p)
<1>1. /\ lastTxHash[p] \in Attempts /\ lastTxHash[p] # None
      /\ Landed(p, lastTxHash[p])
  BY DEF ResolveLanded, SeesLanded, TypeInv, TypeOK
<1>2. code[p][lastTxHash[p]] \in Outcomes \ {"pending"}
  BY <1>1 DEF TypeInv, TypeOK, Codes, Outcomes, Failures, Errors
<1>3. OkIsTrue(p, code[p][lastTxHash[p]])
  BY <1>1 DEF OkIsTrue, Executed
<1>4. outcome' = [outcome EXCEPT ![p] = code[p][lastTxHash[p]]]
  BY DEF ResolveLanded, Resolve
<1> QED
  BY <1>2, <1>3, <1>4 DEF Answering

LEMMA AbandonDoubts ==
    ASSUME TypeInv, NEW p \in Ops, Abandon(p)
    PROVE  Doubting(p)
<1>1. abandoned = [abandoned EXCEPT ![p] = abandoned[p]] /\ abandoned[p] \in BOOLEAN
  BY DEF TypeInv, TypeOK
<1> DEFINE v == abandoned[p] \/ (lastTxHash[p] # None
                   /\ ~(Consumed(p, lastTxHash[p]) /\ ~Executed(p, lastTxHash[p])))
<1>2. abandoned' = [abandoned EXCEPT ![p] = v]
  BY DEF Abandon
<1>3. CASE v
  <2>1. v = TRUE
    BY <1>3
  <2> HIDE DEF v
  <2> QED
    BY <1>2, <2>1 DEF Doubting
<1>4. CASE ~v
  <2>1. v = abandoned[p]
    BY <1>1, <1>4
  <2> HIDE DEF v
  <2> QED
    BY <1>1, <1>2, <2>1 DEF Doubting
<1> QED
  BY <1>3, <1>4

(* A step of the task or of its caller, seen from outside.                 *)
LEMMA TaskAnswers ==
    ASSUME TypeInv, NEW p \in Ops, LoopInv(p), Task(p) \/ Caller(p)
    PROVE  pc[p] # "done" /\ Answering(p) /\ Doubting(p)
<1> DEFINE Bad == {"Other", "MaxFees", "TxTimeout", "cancelled", "SequenceMismatch"}
<1>0. Bad \subseteq Outcomes \ {"pending", "ok"}
  BY DEF Outcomes, Failures, Errors
<1>a. pc[p] # "done"
  BY DEF Task, Caller, Submit, Cancel, Expire, PreFlight, BuildAndSend, BuildFails,
         HashReturned, Rejected, RpcError, WaitFinds, WaitTimesOut, OnTimeout,
         OnMismatch, GraceCheck, DelayEnds
<1>1. CASE PreFlight(p) \/ BuildFails(p) \/ RpcError(p) \/ Cancel(p) \/ DelayEnds(p)
  BY <1>0, <1>1, FailureAnswers
     DEF PreFlight, BuildFails, RpcError, Cancel, DelayEnds, Continue, Answering, Doubting
<1>2. CASE BuildAndSend(p) \/ HashReturned(p) \/ WaitTimesOut(p) \/ Submit(p) \/ Expire(p)
  BY <1>2 DEF BuildAndSend, HashReturned, WaitTimesOut, Submit, Expire, Answering, Doubting
<1>3. CASE Rejected(p)
  BY <1>3, HandleAnswers DEF Rejected, Doubting
<1>4. CASE WaitFinds(p)
  <2>1. CASE Executed(p, attempt[p])
    <3>1. lastTxHash[p] = attempt[p] /\ lastTxHash[p] # None
      BY <1>4 DEF WaitFinds, SeesLanded, LoopInv
    <3>2. outcome' = [outcome EXCEPT ![p] = "ok"] /\ UNCHANGED abandoned
      BY <1>4, <2>1 DEF WaitFinds, Resolve
    <3>3. OkIsTrue(p, "ok") /\ "ok" \in Outcomes \ {"pending"}
      BY <2>1, <3>1 DEF OkIsTrue, Outcomes
    <3> QED
      BY <3>2, <3>3, <1>a DEF Answering, Doubting
  <2>2. CASE ~Executed(p, attempt[p])
    BY <1>a, <1>4, <2>2, HandleAnswers, AbandonDoubts DEF WaitFinds
  <2> QED
    BY <2>1, <2>2
<1>5. CASE OnTimeout(p)
  BY <1>0, <1>5, <1>a, LandedAnswers, FailureAnswers, AbandonDoubts DEF OnTimeout, Doubting
<1>6. CASE OnMismatch(p)
  BY <1>6, <1>a, LandedAnswers, FreshSeqAnswers, AbandonDoubts
     DEF OnMismatch, Answering, Doubting
<1>7. CASE GraceCheck(p)
  BY <1>7, <1>a, LandedAnswers, FreshSeqAnswers, AbandonDoubts
     DEF GraceCheck, Answering, Doubting
<1> QED
  BY <1>a, <1>1, <1>2, <1>3, <1>4, <1>5, <1>6, <1>7 DEF Task, Caller

(* No step of a task or of its caller executes anything.                   *)
LEMMA TaskExecutesNothing ==
    ASSUME TypeInv, NEW p \in Ops, LoopInv(p), Task(p) \/ Caller(p)
    PROVE  \A q \in Ops, a \in Attempts : Executed(q, a)' <=> Executed(q, a)
<1>1. CASE BuildAndSend(p)
  <2>1. /\ attempt[p] \in Attempts /\ stage[p][attempt[p]] = "unsent"
        /\ stage' = [stage EXCEPT ![p][attempt[p]] = "inflight"]
        /\ UNCHANGED code
    BY <1>1 DEF BuildAndSend, LoopInv, TypeInv, TypeOK
  <2> QED
    BY <2>1 DEF Executed, Landed, TypeInv, TypeOK
<1>2. CASE UNCHANGED chain
  BY <1>2 DEF chain, Executed, Landed
<1> QED
  BY <1>1, <1>2 DEF Task, Caller, Submit, Cancel, Expire, PreFlight, BuildFails,
     HashReturned, Rejected, RpcError, WaitFinds, WaitTimesOut, OnTimeout,
     OnMismatch, GraceCheck, DelayEnds

(* The chain leaves the tasks alone and executes one transaction at a      *)
(* time; what has executed stays executed.                                 *)
LEMMA ChainExecutes ==
    ASSUME TypeInv, ChainStep
    PROVE  /\ UNCHANGED client
           /\ \/ \A q \in Ops, b \in Attempts : Executed(q, b)' <=> Executed(q, b)
              \/ \E p \in Ops, a \in Attempts :
                     /\ ~Executed(p, a) /\ Executed(p, a)'
                     /\ \A q \in Ops, b \in Attempts :
                            Executed(q, b)' <=> Executed(q, b) \/ (q = p /\ b = a)
<1> USE DEF TypeInv, TypeOK, Executed, Landed
<1>1. ASSUME NEW p \in Ops, NEW a \in Attempts,
             CheckTx(p, a) \/ IncludeFailingAnte(p, a) \/ Vanish(p, a)
      PROVE  /\ UNCHANGED client
             /\ \A q \in Ops, b \in Attempts : Executed(q, b)' <=> Executed(q, b)
  <2>0. ASSUME NEW st, NEW c, Settle(p, a, st, c), stage[p][a] # "landed", st # "landed" \/ c # "ok"
        PROVE  \A q \in Ops, b \in Attempts : Executed(q, b)' <=> Executed(q, b)
    <3> SUFFICES ASSUME NEW q \in Ops, NEW b \in Attempts PROVE Executed(q, b)' <=> Executed(q, b)
      OBVIOUS
    <3>1. CASE q = p /\ b = a
      BY <2>0, <3>1 DEF Settle
    <3>2. CASE q # p \/ b # a
      BY <2>0, <3>2 DEF Settle
    <3> QED BY <3>1, <3>2
  <2>1. CASE CheckTx(p, a)
    <3>1. \/ Settle(p, a, "mempool", "ok") \/ Settle(p, a, "rejected", "SequenceMismatch")
          \/ \E c \in {"OutOfGas", "InsufficientFees", "TxError"} : Settle(p, a, "rejected", c)
      BY <2>1 DEF CheckTx
    <3>2. stage[p][a] # "landed" /\ UNCHANGED client
      BY <2>1 DEF CheckTx
    <3> QED BY <2>0, <3>1, <3>2
  <2>2. CASE IncludeFailingAnte(p, a)
    <3>1. stage[p][a] # "landed" /\ UNCHANGED client
      BY <2>2 DEF IncludeFailingAnte
    <3> QED BY <2>0, <2>2, <3>1 DEF IncludeFailingAnte
  <2>3. CASE Vanish(p, a)
    BY <2>3 DEF Vanish, Unsettled
  <2> QED BY <1>1, <2>1, <2>2, <2>3
<1>2. ASSUME NEW p \in Ops, NEW a \in Attempts, Include(p, a)
      PROVE  /\ UNCHANGED client
             /\ \/ \A q \in Ops, b \in Attempts : Executed(q, b)' <=> Executed(q, b)
                \/ /\ ~Executed(p, a) /\ Executed(p, a)'
                   /\ \A q \in Ops, b \in Attempts :
                          Executed(q, b)' <=> Executed(q, b) \/ (q = p /\ b = a)
  <2>1. PICK c \in {"ok", "OutOfGas", "TxError"} : Settle(p, a, "landed", c)
    BY <1>2 DEF Include
  <2>2. stage[p][a] = "mempool" /\ UNCHANGED client
    BY <1>2 DEF Include
  <2>3. CASE c = "ok"
    BY <2>1, <2>2, <2>3 DEF Settle
  <2>4. CASE c # "ok"
    BY <2>1, <2>2, <2>4 DEF Settle
  <2> QED
    BY <2>2, <2>3, <2>4
<1>3. CASE Foreign
  BY <1>3 DEF Foreign
<1> QED
  BY <1>1, <1>2, <1>3 DEF ChainStep

-----------------------------------------------------------------------------
(* Success.                                                                *)

LEMMA InitSuccess == Init => SuccessIsExecuted
BY DEF Init, SuccessIsExecuted

LEMMA NextSuccess == IInv /\ SuccessIsExecuted /\ [Next]_vars => SuccessIsExecuted'
<1> SUFFICES ASSUME IInv, SuccessIsExecuted, [Next]_vars, NEW p \in Ops, outcome'[p] = "ok"
             PROVE  lastTxHash'[p] # None /\ Executed(p, lastTxHash[p])'
  BY DEF SuccessIsExecuted
<1>0. TypeInv /\ TypeInv' /\ LoopInv(p)
  BY NextType DEF IInv
<1>1. CASE UNCHANGED vars
  BY <1>1 DEF vars, client, chain, SuccessIsExecuted, Executed, Landed
<1>2. CASE ChainStep
  <2>1. UNCHANGED <<outcome, lastTxHash>>
    BY <1>0, <1>2, ChainExecutes DEF client
  <2>2. lastTxHash[p] \in Attempts /\ lastTxHash[p] # None /\ Executed(p, lastTxHash[p])
    BY <1>0, <2>1 DEF SuccessIsExecuted, TypeInv, TypeOK
  <2>3. \A a \in Attempts : Executed(p, a) => Executed(p, a)'
    BY <1>0, <1>2, ChainExecutes
  <2>4. Executed(p, lastTxHash[p])'
    BY <2>1, <2>2, <2>3 DEF Executed, Landed
  <2> QED
    BY <2>1, <2>2, <2>4
<1>3. ASSUME NEW q \in Ops, Task(q) \/ Caller(q)
      PROVE  lastTxHash'[p] # None /\ Executed(p, lastTxHash[p])'
  <2>1. LoopInv(q)
    BY DEF IInv
  <2>2. pc[q] # "done" /\ Answering(q)
    BY <1>0, <1>3, <2>1, TaskAnswers
  <2>3. \A a \in Attempts : Executed(p, a) => Executed(p, a)'
    BY <1>0, <1>3, <2>1, TaskExecutesNothing
  <2>4. lastTxHash[p] # None /\ Executed(p, lastTxHash[p]) /\ lastTxHash'[p] = lastTxHash[p]
    <3>1. CASE q # p
      <4>1. outcome'[p] = outcome[p] /\ lastTxHash'[p] = lastTxHash[p]
        BY <1>0, <1>3, <3>1, TaskFrame, CallerFrame DEF Same
      <4> QED
        BY <4>1 DEF SuccessIsExecuted
    <3>2. CASE q = p
      <4>1. outcome[p] = "pending"
        BY <2>1, <2>2, <3>2 DEF LoopInv
      <4>2. lastTxHash[p] # None /\ Executed(p, lastTxHash[p])
        BY <1>0, <2>2, <3>2, <4>1 DEF Answering, OkIsTrue, TypeInv, TypeOK
      <4>3. outcome' # outcome
        BY <4>1
      <4>4. UNCHANGED lastTxHash
        BY <1>3, <3>2, <4>3 DEF Task, Caller, Submit, Cancel, Expire, PreFlight,
           BuildAndSend, BuildFails, HashReturned, Rejected, RpcError, WaitFinds,
           WaitTimesOut, OnTimeout, OnMismatch, GraceCheck, DelayEnds
      <4> QED
        BY <4>2, <4>4
    <3> QED
      BY <3>1, <3>2
  <2>5. lastTxHash[p] \in Attempts
    BY <1>0, <2>4 DEF TypeInv, TypeOK
  <2>6. Executed(p, lastTxHash[p])'
    BY <2>3, <2>4, <2>5 DEF Executed, Landed
  <2> QED
    BY <2>4, <2>6
<1> QED
  BY <1>1, <1>2, <1>3 DEF Next

(* "ok" is only ever the answer to an operation that the chain executed,   *)
(* by the transaction whose hash the PendingTx holds.                      *)
THEOREM SuccessTruthful == Spec => []SuccessIsExecuted
BY InitIInv, NextIInv, InitSuccess, NextSuccess, PTL DEF Spec

-----------------------------------------------------------------------------
(* Refinement.                                                             *)

LEMMA InitContract == Init => Contract!Init
<1> SUFFICES ASSUME Init PROVE Contract!Init
  OBVIOUS
<1>1. \A p \in Ops, a \in Attempts : ~Executed(p, a)
  BY DEF Init, Executed, Landed
<1>2. Executions = [p \in Ops |-> {}]
  BY <1>1 DEF Executions
<1> QED
  BY <1>2 DEF Init, Contract!Init

LEMMA ExecutionsSame ==
    ASSUME \A q \in Ops, a \in Attempts : Executed(q, a)' <=> Executed(q, a)
    PROVE  Executions' = Executions
BY DEF Executions

LEMMA NextContract == IInv /\ IInv' /\ [Next]_vars => [Contract!Next]_Contract!vars
<1> SUFFICES ASSUME IInv, IInv', [Next]_vars PROVE [Contract!Next]_Contract!vars
  OBVIOUS
<1>0. TypeInv /\ TypeInv'
  BY DEF IInv
<1>1. CASE UNCHANGED vars
  <2>1. Executions' = Executions
    BY <1>1, ExecutionsSame DEF vars, chain, Executed, Landed
  <2> QED
    BY <1>1, <2>1 DEF vars, client, Contract!vars
<1>2. CASE ChainStep
  <2>1. UNCHANGED <<abandoned, outcome>>
    BY <1>0, <1>2, ChainExecutes DEF client
  <2>2. CASE \A q \in Ops, b \in Attempts : Executed(q, b)' <=> Executed(q, b)
    BY <2>1, <2>2, ExecutionsSame DEF Contract!vars
  <2>3. ASSUME NEW p \in Ops, NEW a \in Attempts, ~Executed(p, a), Executed(p, a)',
               \A q \in Ops, b \in Attempts :
                   Executed(q, b)' <=> Executed(q, b) \/ (q = p /\ b = a)
        PROVE  Contract!Next
    <3>1. a \in Attempts \ Executions[p]
      BY <2>3 DEF Executions
    <3>2. Executions' = [Executions EXCEPT ![p] = @ \cup {a}]
      BY <2>3 DEF Executions
    <3>3. Executions[p] = {} \/ abandoned[p]
      <4> SUFFICES ASSUME NEW b \in Attempts, Executed(p, b), ~abandoned[p] PROVE FALSE
        BY DEF Executions
      <4>1. AtMostOnceUnlessAbandoned'
        BY IInvImplies, PTL
      <4>2. Executed(p, b)' /\ ~abandoned'[p] /\ a # b
        BY <2>1, <2>3
      <4> QED
        BY <2>3, <4>1, <4>2 DEF AtMostOnceUnlessAbandoned
    <3>4. Contract!Execute(p)
      BY <2>1, <3>1, <3>2, <3>3 DEF Contract!Execute
    <3> QED
      BY <3>4 DEF Contract!Next
  <2> QED
    BY <1>0, <1>2, <2>2, <2>3, ChainExecutes
<1>3. ASSUME NEW p \in Ops, Task(p) \/ Caller(p)
      PROVE  [Contract!Next]_Contract!vars
  <2>1. LoopInv(p)
    BY DEF IInv
  <2>2. pc[p] # "done" /\ Answering(p) /\ Doubting(p)
    BY <1>0, <1>3, <2>1, TaskAnswers
  <2>3. outcome[p] = "pending"
    BY <2>1, <2>2 DEF LoopInv
  <2>4. Executions' = Executions
    BY <1>0, <1>3, <2>1, TaskExecutesNothing, ExecutionsSame
  <2>5. Contract!Doubt(p) \/ UNCHANGED abandoned
    BY <2>2, <2>3 DEF Doubting, Contract!Doubt
  <2>6. CASE UNCHANGED outcome
    BY <2>4, <2>5, <2>6 DEF Contract!Next, Contract!vars
  <2>7. ASSUME NEW r \in Outcomes \ {"pending"},
               outcome' = [outcome EXCEPT ![p] = r], OkIsTrue(p, r)
        PROVE  Contract!Next
    <3>1. r = "ok" => Executions[p] # {}
      BY <1>0, <2>7 DEF OkIsTrue, Executions, TypeInv, TypeOK
    <3>2. Contract!Answer(p, r)
      BY <2>3, <2>7, <3>1 DEF Contract!Answer
    <3> QED
      BY <2>4, <2>5, <3>2 DEF Contract!Next
  <2> QED
    BY <2>2, <2>6, <2>7 DEF Answering
<1> QED
  BY <1>1, <1>2, <1>3 DEF Next

(* Every behaviour of the tasks, their callers and the chain is one of the *)
(* contract of submit_transaction.                                         *)
THEOREM Refinement == Spec => ImplementsContract
BY InitIInv, NextIInv, InitContract, NextContract, PTL
   DEF Spec, ImplementsContract, Contract!Spec
-----------------------------------------------------------------------------
(* Once the deadline has passed, no handler starts another attempt.        *)

(* What starts an attempt looks at the deadline, or has an attempt left.   *)
LEMMA RetriesLook ==
    ASSUME TypeInv, NEW p \in Ops, expired[p]
    PROVE  /\ \A r : RetryOrFail(p, r) \/ Resolve(p, r) \/ Handle(p, r) => UNCHANGED attempt
           /\ RetryWithFreshSeq(p) \/ ResolveLanded(p) => UNCHANGED attempt
BY DEF RetryOrFail, Resolve, Handle, RetryWithFreshSeq, ResolveLanded, LastChance

(* A step of a task whose deadline has passed leaves the attempt alone.    *)
LEMMA TaskLooks ==
    ASSUME TypeInv, NEW p \in Ops, expired[p], Task(p)
    PROVE  UNCHANGED attempt
<1>1. CASE PreFlight(p) \/ BuildAndSend(p) \/ BuildFails(p) \/ HashReturned(p)
  BY <1>1, RetriesLook DEF PreFlight, BuildAndSend, BuildFails, HashReturned
<1>2. CASE Rejected(p) \/ RpcError(p) \/ WaitFinds(p) \/ WaitTimesOut(p)
  BY <1>2, RetriesLook DEF Rejected, RpcError, WaitFinds, WaitTimesOut
<1>3. CASE OnTimeout(p) \/ OnMismatch(p) \/ GraceCheck(p) \/ DelayEnds(p)
  BY <1>3, RetriesLook DEF OnTimeout, OnMismatch, GraceCheck, DelayEnds
<1> QED
  BY <1>1, <1>2, <1>3 DEF Task

(* The deadline of the caller, whichever handler is running when it passes *)
(* (LastChance, _await_sequence_retry_delay): no attempt begins after it.  *)
THEOREM DeadlineRespected == Spec => NoRetryPastDeadline
<1>1. ASSUME TypeInv, [Next]_vars
      PROVE  [\A p \in Ops : attempt'[p] # attempt[p] => ~expired[p]]_vars
  <2>1. CASE UNCHANGED vars
    BY <2>1
  <2>2. CASE ChainStep
    <3>1. UNCHANGED client
      BY <2>2, <1>1, ChainExecutes
    <3> QED BY <3>1 DEF client
  <2>3. ASSUME NEW p \in Ops, Task(p) \/ Caller(p), NEW q \in Ops, expired[q]
        PROVE  attempt'[q] = attempt[q]
    <3>1. CASE q # p
      BY <1>1, <2>3, <3>1, TaskFrame, CallerFrame DEF Same
    <3>2. CASE q = p /\ Task(p)
      BY <1>1, <2>3, <3>2, TaskLooks
    <3>3. CASE q = p /\ Caller(p)
      BY <3>3 DEF Caller, Submit, Cancel, Expire, Resolve
    <3> QED
      BY <2>3, <3>1, <3>2, <3>3
  <2> QED
    BY <1>1, <2>1, <2>2, <2>3 DEF Next
<1>2. TypeInv /\ [Next]_vars => TypeInv'
  BY NextType
<1> QED
  BY <1>1, <1>2, InitType, PTL DEF Spec, NoRetryPastDeadline

-----------------------------------------------------------------------------
(* Where inclusion is prompt and queries are truthful.                     *)

Prompt == "slow" \notin Faults /\ "flaky" \notin Faults

(* It has not executed, and never will.                                    *)
Dead(p, a) == ~Executed(p, a) /\ stage[p][a] \notin Unsettled

(* A task goes on to another attempt, or fails, only when none of the      *)
(* attempts before can execute any more.                                   *)
PromptInv(p) ==
    /\ \A a \in Attempts : a # attempt[p] => Dead(p, a)
    /\ pc[p] \in {"idle", "preflight", "build", "timeoutCheck", "asmCheck",
                  "asmGrace", "delay"} => Dead(p, attempt[p])
    /\ outcome[p] \in Failures => Dead(p, attempt[p])

AllDead(p) == \A a \in Attempts : Dead(p, a)

(* With all its attempts dead, a task may go anywhere.                     *)
LEMMA AllDeadKeeps ==
    ASSUME NEW p \in Ops, UNCHANGED chain, AllDead(p), attempt'[p] \in Attempts
    PROVE  PromptInv(p)'
BY DEF chain, AllDead, PromptInv, Dead, Executed, Landed

(* Every step of a task and its caller keeps it.                           *)
LEMMA PromptTask ==
    ASSUME Prompt, TypeInv, TypeInv', NEW p \in Ops, LoopInv(p), PromptInv(p), Task(p) \/ Caller(p)
    PROVE  PromptInv(p)'
<1>0. /\ attempt[p] \in Attempts /\ attempt'[p] \in Attempts
      /\ lastTxHash[p] \in Attempts \cup {None}
  BY DEF TypeInv, TypeOK
<1>1. CASE AllDead(p) /\ UNCHANGED chain
  BY <1>0, <1>1, AllDeadKeeps
<1>2. Dead(p, attempt[p]) => AllDead(p)
  BY DEF PromptInv, AllDead
<1>3. CASE pc[p] \in {"idle", "preflight", "build", "timeoutCheck", "asmCheck", "asmGrace", "delay"}
  <2>1. AllDead(p)
    BY <1>2, <1>3 DEF PromptInv
  <2>2. CASE BuildAndSend(p)
    <3>1. /\ pc'[p] = "sent" /\ attempt'[p] = attempt[p] /\ outcome'[p] = "pending"
          /\ \A a \in Attempts : a # attempt[p] =>
                 stage'[p][a] = stage[p][a] /\ code'[p][a] = code[p][a]
      BY <1>0, <2>2 DEF BuildAndSend, GoTo, LoopInv, TypeInv, TypeOK
    <3>2. \A a \in Attempts : a # attempt[p] => Dead(p, a)'
      BY <2>1, <3>1 DEF AllDead, Dead, Executed, Landed
    <3> QED
      BY <3>1, <3>2 DEF PromptInv, Failures, Errors
  <2>3. CASE ~BuildAndSend(p)
    <3>1. UNCHANGED chain
      BY <2>3 DEF Task, PreFlight, BuildFails, HashReturned, Rejected, RpcError,
         WaitFinds, WaitTimesOut, OnTimeout, OnMismatch, GraceCheck, DelayEnds,
         Caller, Submit, Cancel, Expire
    <3> QED BY <2>1, <3>1, <1>1
  <2> QED BY <2>2, <2>3
<1>4. CASE pc[p] = "sent"
  <2>1. CASE Rejected(p)
    <3>1. Dead(p, attempt[p])
      BY <2>1 DEF Rejected, Dead, Executed, Landed, Unsettled
    <3> QED BY <1>1, <1>2, <2>1, <3>1 DEF Rejected
  <2>2. CASE HashReturned(p)
    <3>1. pc'[p] = "wait" /\ attempt' = attempt /\ outcome' = outcome /\ UNCHANGED chain
      BY <2>2 DEF HashReturned, GoTo, TypeInv, TypeOK
    <3> QED BY <3>1 DEF PromptInv, Dead, Executed, Landed, chain
  <2>3. CASE Caller(p)
    <3>1. /\ attempt' = attempt /\ UNCHANGED chain
          /\ pc'[p] = "sent" \/ pc'[p] = "done"
          /\ outcome'[p] = outcome[p] \/ outcome'[p] = "cancelled"
      BY <1>4, <2>3 DEF Caller, Submit, Cancel, Expire, Resolve, GoTo, TypeInv, TypeOK
    <3> QED BY <3>1 DEF PromptInv, Dead, Executed, Landed, chain, Failures, Errors
  <2> QED
    BY <1>4, <2>1, <2>2, <2>3 DEF Task, PreFlight, BuildAndSend, BuildFails, RpcError, WaitFinds,
       WaitTimesOut, OnTimeout, OnMismatch, GraceCheck, DelayEnds, Prompt
<1>5. CASE pc[p] = "wait"
  <2>0. lastTxHash[p] = attempt[p] /\ lastTxHash[p] # None
    BY <1>0, <1>5, ConstantsAssumption DEF LoopInv, Attempts, None
  <2>1. CASE WaitFinds(p)
    <3>1. CASE Executed(p, attempt[p])
      <4>1. attempt' = attempt /\ UNCHANGED chain /\ pc'[p] = "done" /\ outcome'[p] = "ok"
        BY <2>1, <3>1 DEF WaitFinds, Resolve, GoTo, TypeInv, TypeOK
      <4> QED BY <4>1 DEF PromptInv, Dead, Executed, Landed, chain, Failures, Errors
    <3>2. CASE ~Executed(p, attempt[p])
      <4>1. Dead(p, attempt[p])
        BY <2>0, <2>1, <3>2 DEF WaitFinds, SeesLanded, Landed, Dead, Unsettled
      <4> QED BY <1>1, <1>2, <2>1, <4>1 DEF WaitFinds
    <3> QED BY <3>1, <3>2
  <2>2. CASE WaitTimesOut(p)
    <3>1. Dead(p, attempt[p])
      BY <2>0, <2>2 DEF WaitTimesOut, MayMissLanded, SeesLanded, Prompt, Dead, Executed
    <3> QED BY <1>1, <1>2, <2>2, <3>1 DEF WaitTimesOut
  <2>3. CASE Caller(p)
    <3>1. /\ attempt' = attempt /\ UNCHANGED chain
          /\ pc'[p] = "wait" \/ pc'[p] = "done"
          /\ outcome'[p] = outcome[p] \/ outcome'[p] = "cancelled"
      BY <1>5, <2>3 DEF Caller, Submit, Cancel, Expire, Resolve, GoTo, TypeInv, TypeOK
    <3> QED BY <3>1 DEF PromptInv, Dead, Executed, Landed, chain, Failures, Errors
  <2> QED
    BY <1>5, <2>1, <2>2, <2>3 DEF Task, PreFlight, BuildAndSend, BuildFails, HashReturned,
       Rejected, RpcError, OnTimeout, OnMismatch, GraceCheck, DelayEnds, Prompt
<1>6. CASE pc[p] = "done"
  BY <1>6 DEF Task, PreFlight, BuildAndSend, BuildFails, HashReturned, Rejected, RpcError,
     WaitFinds, WaitTimesOut, OnTimeout, OnMismatch, GraceCheck, DelayEnds,
     Caller, Submit, Cancel, Expire
<1>7. pc[p] \in Control
  BY DEF TypeInv, TypeOK
<1> QED BY <1>3, <1>4, <1>5, <1>6, <1>7 DEF Control

(* What is dead stays dead: the chain moves only what is on its way.       *)
LEMMA DeadStaysDead ==
    ASSUME TypeInv, ChainStep, NEW p \in Ops, NEW a \in Attempts, Dead(p, a)
    PROVE  Dead(p, a)'
<1>1. stage'[p][a] = stage[p][a] /\ code'[p][a] = code[p][a]
  <2>1. ASSUME NEW q \in Ops, NEW b \in Attempts, stage[q][b] \in Unsettled, NEW st,
               stage' = [stage EXCEPT ![q][b] = st],
               code' = code \/ \E c : code' = [code EXCEPT ![q][b] = c]
        PROVE  stage'[p][a] = stage[p][a] /\ code'[p][a] = code[p][a]
    <3>1. q # p \/ b # a
      BY <2>1 DEF Dead
    <3> QED BY <2>1, <3>1 DEF TypeInv, TypeOK
  <2>2. ASSUME NEW q \in Ops, NEW b \in Attempts,
               CheckTx(q, b) \/ Include(q, b) \/ IncludeFailingAnte(q, b)
        PROVE  stage'[p][a] = stage[p][a] /\ code'[p][a] = code[p][a]
    <3>1. stage[q][b] \in Unsettled
      BY <2>2 DEF CheckTx, Include, IncludeFailingAnte, Unsettled
    <3>2. PICK st, c : Settle(q, b, st, c)
      BY <2>2 DEF CheckTx, Include, IncludeFailingAnte
    <3> QED BY <2>1, <3>1, <3>2 DEF Settle
  <2>3. ASSUME NEW q \in Ops, NEW b \in Attempts, Vanish(q, b)
        PROVE  stage'[p][a] = stage[p][a] /\ code'[p][a] = code[p][a]
    BY <2>1, <2>3 DEF Vanish
  <2>4. CASE Foreign
    BY <2>4 DEF Foreign
  <2> QED BY <2>2, <2>3, <2>4 DEF ChainStep
<1> QED BY <1>1 DEF Dead, Executed, Landed

(* Every step keeps it.                                                    *)
LEMMA PromptNext ==
    ASSUME Prompt, IInv, IInv', \A q \in Ops : PromptInv(q), [Next]_vars
    PROVE  \A q \in Ops : PromptInv(q)'
<1>0. TypeInv /\ TypeInv' /\ \A q \in Ops : LoopInv(q)
  BY DEF IInv
<1>1. ASSUME NEW q \in Ops, Same(q) PROVE PromptInv(q)'
  BY <1>1 DEF Same, PromptInv, Dead, Executed, Landed
<1>2. CASE UNCHANGED vars
  <2>1. \A q \in Ops : Same(q)
    BY <1>2 DEF vars, client, chain, Same
  <2> QED BY <1>1, <2>1
<1>3. CASE ChainStep
  <2> SUFFICES ASSUME NEW q \in Ops PROVE PromptInv(q)'
    OBVIOUS
  <2>1. pc' = pc /\ attempt' = attempt /\ outcome' = outcome
    BY <1>0, <1>3, ChainExecutes DEF client
  <2>2. attempt[q] \in Attempts
    BY <1>0 DEF TypeInv, TypeOK
  <2>3. \A a \in Attempts : Dead(q, a) => Dead(q, a)'
    BY <1>0, <1>3, DeadStaysDead
  <2>4. PromptInv(q)
    OBVIOUS
  <2> QED BY <2>1, <2>2, <2>3, <2>4 DEF PromptInv, Dead, Executed, Landed
<1>4. ASSUME NEW p \in Ops, Task(p) \/ Caller(p) PROVE \A q \in Ops : PromptInv(q)'
  <2>1. PromptInv(p)'
    BY <1>0, <1>4, PromptTask
  <2>2. \A q \in Ops : q # p => Same(q)
    BY <1>0, <1>4, TaskFrame, CallerFrame
  <2> QED BY <1>1, <2>1, <2>2
<1> QED BY <1>2, <1>3, <1>4 DEF Next

(* It holds at the start, before anything is sent.                         *)
LEMMA PromptInit == Init => \A p \in Ops : PromptInv(p)
<1> SUFFICES ASSUME Init, NEW p \in Ops PROVE PromptInv(p)
  OBVIOUS
<1>1. \A a \in Attempts : stage[p][a] = "unsent"
  BY DEF Init
<1>2. attempt[p] \in Attempts /\ outcome[p] = "pending"
  BY InitType DEF Init, TypeInv, TypeOK
<1> QED BY <1>1, <1>2 DEF PromptInv, Dead, Executed, Landed, Unsettled, Failures, Errors

(* Its invariant, where inclusion is prompt and queries are truthful.      *)
LEMMA PromptInvariant == Prompt => (Spec => [](IInv /\ \A p \in Ops : PromptInv(p)))
<1> SUFFICES ASSUME Prompt PROVE Spec => [](IInv /\ \A p \in Ops : PromptInv(p))
  OBVIOUS
<1> DEFINE J == \A p \in Ops : PromptInv(p)
<1>1. IInv /\ [Next]_vars => IInv'
  BY NextIInv
<1>2. IInv /\ J /\ IInv' /\ [Next]_vars => J'
  BY PromptNext
<1>3. Init => IInv /\ J
  BY InitIInv, PromptInit
<1> QED BY <1>1, <1>2, <1>3, PTL DEF Spec

(* A reported failure is final where no block outlasts the wait and every  *)
(* query tells the truth: then the timeout handler and the mismatch        *)
(* handler give up only what is lost.                                      *)
THEOREM FailuresFinal == Prompt => (Spec => []FailureIsFinal)
<1> SUFFICES ASSUME Prompt PROVE Spec => []FailureIsFinal
  OBVIOUS
<1>1. IInv /\ (\A p \in Ops : PromptInv(p)) => FailureIsFinal
  <2> SUFFICES ASSUME NEW p \in Ops, PromptInv(p), outcome[p] \in Failures, NEW a \in Attempts
               PROVE  Dead(p, a)
    BY DEF FailureIsFinal, Dead
  <2> QED BY DEF PromptInv
<1> QED BY <1>1, PromptInvariant, PTL

(* Under the same conditions no operation is executed twice, abandoned     *)
(* sequences or not: competition for the account alone does no harm.       *)
THEOREM ExecutedOnce == Prompt => (Spec => []NoDoubleExecution)
<1> SUFFICES ASSUME Prompt PROVE Spec => []NoDoubleExecution
  OBVIOUS
<1>1. IInv /\ (\A p \in Ops : PromptInv(p)) => NoDoubleExecution
  <2> SUFFICES ASSUME NEW p \in Ops, PromptInv(p), NEW a \in Attempts, NEW b \in Attempts,
                      Executed(p, a), Executed(p, b)
               PROVE  a = b
    BY DEF NoDoubleExecution
  <2>1. a = attempt[p] /\ b = attempt[p]
    BY DEF PromptInv, Dead
  <2> QED BY <2>1
<1> QED BY <1>1, PromptInvariant, PTL
=============================================================================
