---------------------------- MODULE WorkerNonces ----------------------------
(***************************************************************************)
(* The submission path of worker/worker.py: AlloraWorkers of one wallet,   *)
(* each with a topic of its own, that share _submit_lock; their pollers    *)
(* and window events; which nonces a cycle picks, the account sequences it *)
(* hands out, and what is remembered in submitted_nonces.                  *)
(*                                                                         *)
(* An action is the code between two suspensions.  A caller of             *)
(* _maybe_submit, or run()'s guarded initialize(), stands in the lock's    *)
(* first-come line from its acquire to its release.  A transaction is      *)
(* external: what it may do is what SubmitContract states.  The chain      *)
(* (external) opens and closes the windows of a topic in order, takes one  *)
(* payload per nonce while its window is open, and keeps a single bundle   *)
(* per reputer, which a close reads and wipes.                             *)
(***************************************************************************)
EXTENDS Integers, Sequences, FiniteSets, SequencesExt

CONSTANTS
    Workers,          \* the workers that share a wallet and a lock
    Callers,          \* who takes the lock: a worker's run, poller and events
    Sequential,       \* those whose use case requires_sequential_nonces
    AutoStakers,      \* those that stake their rewards
    MaxUnfulfilled,   \* max_unfulfilled_nonces
    OpenedBefore,     \* windows opened before the workers start
    Windows,          \* bound: windows of each topic
    MaxNonce,         \* the most windows of any topic
    MaxEvents,        \* bound: window events delivered
    MaxFaults         \* bound: failures, timeouts, hangs, stops, autostakes

ASSUME WorkerAssumption ==
    /\ Callers \subseteq Workers \X {"init", "poll", "event"}
    /\ Sequential \subseteq Workers /\ AutoStakers \subseteq Workers
    /\ MaxUnfulfilled \in Nat \ {0}
    /\ OpenedBefore \in [Workers -> 0..MaxNonce]
    /\ Windows \in [Workers -> 0..MaxNonce]
    /\ MaxNonce \in Nat /\ MaxEvents \in Nat /\ MaxFaults \in Nat

Nonces == 1..MaxNonce

Stages == {"idle", "waiting", "init", "asking", "account", "predict", "hung",
           "sent", "balance"}

VARIABLES
    line,       \* _submit_lock: its holder, then those waiting for it
    caller,     \* the local state of each caller
    phase,      \* of each worker's run
    submitted,  \* submitted_nonces
    (* the chain *)
    opened, closed,   \* windows of each topic
    accepted,         \* open nonces a payload of the worker was accepted for
    slot,             \* the reputer's stored bundle, by its nonce
    limbo,            \* abandoned transactions that may still land
    events, faults,
    (* history *)
    lost,       \* bundles that were accepted, but gone when their window closed
    settled     \* open nonces the worker had a definite answer for

chain == <<opened, closed, accepted, slot>>
vars  == <<line, caller, phase, submitted, chain, limbo, events, faults, lost, settled>>

WorkerOf(c) == c[1]
Idle == [at |-> "idle", nonce |-> 0, todo |-> {}, gap |-> 0, excused |-> FALSE]

TypeOK ==
    /\ line \in Seq(Callers) /\ IsInjective(line)
    /\ caller \in [Callers -> [at : Stages, nonce : 0..MaxNonce, todo : SUBSET Nonces,
                               gap : Int, excused : BOOLEAN]]
    /\ ToSet(line) = {c \in Callers : caller[c].at # "idle"}
    /\ phase \in [Workers -> {"new", "init", "up", "stopped"}]
    /\ submitted \in [Workers -> SUBSET Nonces]
    /\ opened \in [Workers -> 0..MaxNonce] /\ closed \in [Workers -> 0..MaxNonce]
    /\ accepted \in [Workers -> SUBSET Nonces]
    /\ slot \in [Workers -> 0..MaxNonce]
    /\ limbo \in SUBSET (Workers \X Nonces)
    /\ events \in 0..MaxEvents /\ faults \in 0..MaxFaults
    /\ lost \in SUBSET (Workers \X Nonces)
    /\ settled \in [Workers -> SUBSET Nonces]

Init ==
    /\ line = <<>> /\ caller = [c \in Callers |-> Idle]
    /\ phase = [w \in Workers |-> IF <<w, "init">> \in Callers THEN "new" ELSE "up"]
    /\ submitted = [w \in Workers |-> {}]
    /\ opened = OpenedBefore /\ closed = [w \in Workers |-> 0]
    /\ accepted = [w \in Workers |-> {}]
    /\ slot = [w \in Workers |-> 0]
    /\ limbo = {} /\ events = 0 /\ faults = 0
    /\ lost = {} /\ settled = [w \in Workers |-> {}]

-----------------------------------------------------------------------------
(* The chain.                                                              *)

Open(w) == (closed[w] + 1)..opened[w]

OpenWindow(w) ==
    /\ opened[w] < Windows[w]
    /\ opened' = [opened EXCEPT ![w] = @ + 1]
    /\ UNCHANGED <<line, caller, phase, submitted, closed, accepted, slot,
                   limbo, events, faults, lost, settled>>

(* A close counts the stored bundle if it is of that nonce, and wipes it.  *)
CloseWindow(w) ==
    LET n == closed[w] + 1 IN
    /\ n \in Open(w)
    /\ closed' = [closed EXCEPT ![w] = n]
    /\ lost' = lost \cup {<<w, m>> : m \in (accepted[w] \cap {n}) \ {slot[w]}}
    /\ slot' = [slot EXCEPT ![w] = 0]
    /\ accepted' = [accepted EXCEPT ![w] = @ \ {n}]
    /\ settled' = [settled EXCEPT ![w] = @ \ {n}]
    /\ UNCHANGED <<line, caller, phase, submitted, opened, limbo, events, faults>>

(* A payload for n is executed; a second one for n is refused.  Of the     *)
(* inferences, which are stored per nonce, nothing is kept here.           *)
Execute(w, n) ==
    IF w \in Sequential /\ n \in Open(w) \ accepted[w]
    THEN /\ accepted' = [accepted EXCEPT ![w] = @ \cup {n}]
         /\ slot' = [slot EXCEPT ![w] = n]
         /\ UNCHANGED <<opened, closed>>
    ELSE UNCHANGED chain

(* k transactions of the account are included: the sequences the callers   *)
(* hold, relative to the account's, fall behind by k.  Some inclusions     *)
(* excuse a caller from handing out a stale sequence.                      *)
Excuse(r) == [r EXCEPT !.gap = 0, !.excused = TRUE]
HasBase(r) == r.at \in {"predict", "hung", "sent", "balance"}
Consume(cs, k, excuses) ==
    [c \in Callers |->
        IF ~HasBase(cs[c]) \/ cs[c].excused THEN cs[c]
        ELSE IF excuses THEN Excuse(cs[c]) ELSE [cs[c] EXCEPT !.gap = @ - k]]

-----------------------------------------------------------------------------
(* The lock.                                                               *)

(* Mutant of Holds: submissions run without the lock.                      *)
Holds_NoLock(c) == c \in ToSet(line)
Holds(c) == line # <<>> /\ Head(line) = c

Join(c, n) ==
    /\ c \in Callers /\ caller[c].at = "idle"
    /\ line' = Append(line, c)
    /\ caller' = [caller EXCEPT ![c] = [Idle EXCEPT !.at = "waiting", !.nonce = n]]

(* Mutant of Release: an early return leaves the lock taken.               *)
Release_Kept(c) == UNCHANGED line
Release(c) == line' = RemoveAt(line, CHOOSE i \in DOMAIN line : line[i] = c)

Leave(c) ==
    /\ Release(c)
    /\ caller' = [caller EXCEPT ![c] = Idle]

Goto(c, stage) ==
    /\ caller' = [caller EXCEPT ![c].at = stage]
    /\ UNCHANGED line

Fault == faults < MaxFaults /\ faults' = faults + 1

-----------------------------------------------------------------------------
(* run: initialize(), which may register or stake, and the callers.        *)

Run(w) ==
    /\ phase[w] = "new"
    /\ phase' = [phase EXCEPT ![w] = "init"]
    /\ Join(<<w, "init">>, 0)
    /\ UNCHANGED <<submitted, chain, limbo, events, faults, lost, settled>>

(* Registered already, registered now, or failed, which ends the run.      *)
Initialize(w) ==
    LET c == <<w, "init">> IN
    /\ c \in Callers /\ caller[c].at = "init"
    /\ Release(c)
    /\ \E k \in {0, 1} : caller' = [Consume(caller, k, FALSE) EXCEPT ![c] = Idle]
    /\ \/ /\ phase' = [phase EXCEPT ![w] = IF @ = "init" THEN "up" ELSE @]
          /\ UNCHANGED faults
       \/ /\ phase' = [phase EXCEPT ![w] = "stopped"]
          /\ Fault
    /\ UNCHANGED <<submitted, chain, limbo, events, lost, settled>>

PollStart(w) ==
    /\ phase[w] = "up"
    /\ Join(<<w, "poll">>, 0)
    /\ UNCHANGED <<phase, submitted, chain, limbo, events, faults, lost, settled>>

(* A window event, possibly late or replayed.                              *)
EventStart(w) ==
    /\ phase[w] = "up" /\ events < MaxEvents
    /\ events' = events + 1
    /\ \E n \in 1..opened[w] : Join(<<w, "event">>, n)
    /\ UNCHANGED <<phase, submitted, chain, limbo, faults, lost, settled>>

Stop(w) ==
    /\ phase[w] \in {"init", "up"} /\ Fault
    /\ phase' = [phase EXCEPT ![w] = "stopped"]
    /\ UNCHANGED <<line, caller, submitted, chain, limbo, events, lost, settled>>

-----------------------------------------------------------------------------
(* One cycle under the lock.                                               *)

Stopped(w) == phase[w] = "stopped"

Enter(c) ==
    /\ caller[c].at = "waiting" /\ Holds(c)
    /\ IF c[2] = "init" THEN Goto(c, "init")
       ELSE IF Stopped(WorkerOf(c)) THEN Leave(c)
       ELSE Goto(c, "asking")
    /\ UNCHANGED <<phase, submitted, chain, limbo, events, faults, lost, settled>>

(* worker_is_whitelisted answers no, or fails.  What it awaits is over     *)
(* before anything is read, so a yes belongs to the query that follows.    *)
NotWhitelisted(c) ==
    /\ caller[c].at = "asking"
    /\ Leave(c) /\ Fault
    /\ \/ phase' = [phase EXCEPT ![WorkerOf(c)] = "stopped"]
       \/ UNCHANGED phase
    /\ UNCHANGED <<submitted, chain, limbo, events, lost, settled>>

Least(S) == CHOOSE n \in S : \A m \in S : n <= m
Latest(S, k) == {n \in S : Cardinality({m \in S : m > n}) < k}

WithEvent(S, n) == IF n = 0 THEN S ELSE S \cup {n}

(* _select_sequential_nonce: only the oldest open nonce is eligible.       *)
SelectSequential(w, S) ==
    IF S = {} \/ Least(S) \in submitted[w] THEN {} ELSE {Least(S)}

Select(c, open) ==
    LET w == WorkerOf(c)
        candidates == WithEvent(open, caller[c].nonce)
    IN IF w \in Sequential THEN SelectSequential(w, candidates)
       ELSE candidates \ submitted[w]

Picked(c, open) ==
    /\ caller' = [caller EXCEPT ![c].at = "account",
                                ![c].todo = Latest(Select(c, open), MaxUnfulfilled)]
    /\ UNCHANGED line

(* Mutant of NoncesUnknown: a sequential worker goes on with the event's.  *)
NoncesUnknown_GoesOn(c) == Picked(c, {})

(* A failed query leaves a sequential worker without the open nonces: it   *)
(* skips the cycle; the others go on with the event's nonce.               *)
NoncesUnknown(c) ==
    IF WorkerOf(c) \in Sequential THEN Leave(c) ELSE Picked(c, {})

QueryNonces(c) ==
    /\ caller[c].at = "asking"
    /\ \/ Picked(c, Open(WorkerOf(c))) /\ UNCHANGED faults
       \/ NoncesUnknown(c) /\ Fault
    /\ UNCHANGED <<phase, submitted, chain, limbo, events, lost, settled>>

(* The loop over the nonces: its check of the context, and the next nonce  *)
(* with the sequence base_sequence + i.                                    *)
NextNonce(c, gap) ==
    LET r == caller[c] IN
    IF r.todo = {} \/ Stopped(WorkerOf(c)) THEN Leave(c)
    ELSE /\ caller' = [caller EXCEPT ![c] =
                [r EXCEPT !.at = "predict", !.nonce = Least(r.todo),
                          !.todo = @ \ {Least(r.todo)}, !.gap = gap]]
         /\ UNCHANGED line

QueryAccount(c) ==
    /\ caller[c].at = "account"
    /\ \/ NextNonce(c, 0) /\ UNCHANGED faults
       \/ Leave(c) /\ Fault
    /\ UNCHANGED <<phase, submitted, chain, limbo, events, lost, settled>>

(* Every result but a timeout is remembered.                               *)
Remember(c) ==
    LET w == WorkerOf(c) IN
    /\ submitted' = [submitted EXCEPT ![w] = @ \cup {caller[c].nonce}]
    /\ settled' = [settled EXCEPT ![w] = @ \cup ({caller[c].nonce} \cap Open(w))]

(* The use case hands the payload and its sequence to the TxManager.       *)
Send(c) ==
    /\ caller[c].at = "predict"
    /\ Goto(c, "sent")
    /\ UNCHANGED <<phase, submitted, chain, limbo, events, faults, lost, settled>>

Hang(c) ==
    /\ caller[c].at = "predict" /\ Fault
    /\ Goto(c, "hung")
    /\ UNCHANGED <<phase, submitted, chain, limbo, events, lost, settled>>

(* The transaction is included: a response, an AlreadySubmittedError or a  *)
(* TxError.  (A reputer's stake top-up follows the only payload of its     *)
(* cycle, so no sequence is handed out after it.)                          *)
Land(c) ==
    LET w == WorkerOf(c) IN
    /\ caller[c].at = "sent"
    /\ caller' = [Consume(caller, 1, FALSE) EXCEPT ![c].at = "balance"]
    /\ Execute(w, caller[c].nonce)
    /\ Remember(c)
    /\ UNCHANGED <<line, phase, limbo, events, faults, lost>>

(* The user's code, a query or a check fails before anything is included,  *)
(* and the use case returns the exception.                                 *)
Fail(c) ==
    /\ caller[c].at \in {"predict", "sent"}
    /\ caller' = [caller EXCEPT ![c] = [Excuse(@) EXCEPT !.at = "balance"]]
    /\ Remember(c)
    /\ UNCHANGED <<line, phase, chain, limbo, events, faults, lost>>

(* The use case raises before it hands anything over, of a value that      *)
(* canonicalize_dec refuses, say: that is logged, nothing is remembered,   *)
(* and the nonce is picked again by the next cycle.                        *)
Raise(c) ==
    /\ caller[c].at = "predict" /\ Fault
    /\ caller' = [caller EXCEPT ![c] = [Excuse(@) EXCEPT !.at = "balance"]]
    /\ UNCHANGED <<line, phase, submitted, chain, limbo, events, lost, settled>>

(* A transaction nobody waits for any more may be left in the mempool.     *)
Abandon(c) ==
    \/ UNCHANGED limbo
    \/ /\ caller[c].at = "sent"
       /\ limbo' = limbo \cup {<<WorkerOf(c), caller[c].nonce>>}

TimeOut(c) ==
    /\ caller[c].at = "sent" /\ Fault
    /\ caller' = [caller EXCEPT ![c] = [Excuse(@) EXCEPT !.at = "balance"]]
    /\ Abandon(c)
    /\ UNCHANGED <<line, phase, submitted, chain, events, lost, settled>>

(* Mutant of Prune: the horizon is shorter than a submission window.       *)
Prune_All(w) == submitted' = [submitted EXCEPT ![w] = {}] /\ Fault

(* prune_older_than(24 h): windows are shorter, so what is old is closed.  *)
(* That a day has passed is one of the bounded events.                     *)
Prune(w) ==
    \/ UNCHANGED <<submitted, faults>>
    \/ Fault /\ submitted' = [submitted EXCEPT ![w] = @ \cap Open(w)]

(* submit's balance report is answered; pruning; the loop goes on.         *)
Finish(c) ==
    /\ caller[c].at = "balance"
    /\ Prune(WorkerOf(c))
    /\ NextNonce(c, IF caller[c].excused THEN 0 ELSE caller[c].gap + 1)
    /\ UNCHANGED <<phase, chain, limbo, events, lost, settled>>

(* Leaving from any await of the cycle.                                    *)
Unwind(c) ==
    /\ Leave(c) /\ Abandon(c)
    /\ UNCHANGED <<phase, submitted, chain, events, lost, settled>>

InCycle(c) == c[2] # "init" /\ caller[c].at \notin {"idle", "waiting"}

(* Mutant of HoldExpires: the time the lock is held is not bounded.        *)
HoldExpires_Never(c) == FALSE

(* submit_hold_timeout_secs passes.                                        *)
HoldExpires(c) ==
    /\ caller[c].at = "hung"
    /\ Unwind(c) /\ UNCHANGED faults

HoldExpiresEarly(c) == InCycle(c) /\ caller[c].at # "hung" /\ Unwind(c) /\ Fault

(* The cleanup of a stopped run cancels its poller, wherever it is.        *)
CancelPoller(w) ==
    LET c == <<w, "poll">> IN
    /\ c \in Callers /\ Stopped(w) /\ caller[c].at # "idle"
    /\ Unwind(c) /\ UNCHANGED faults

-----------------------------------------------------------------------------
(* Transactions of the account outside the lock.                           *)

LimboLands(w, n) ==
    /\ <<w, n>> \in limbo
    /\ limbo' = limbo \ {<<w, n>>}
    /\ caller' = Consume(caller, 1, TRUE)
    /\ Execute(w, n)
    /\ UNCHANGED <<line, phase, submitted, events, faults, lost, settled>>

(* process_autostake_rewards_settled delegates without the lock.           *)
Autostake(w) ==
    /\ w \in AutoStakers /\ phase[w] = "up" /\ Fault
    /\ caller' = Consume(caller, 1, TRUE)
    /\ UNCHANGED <<line, phase, submitted, chain, limbo, events, lost, settled>>

-----------------------------------------------------------------------------
Step(c) ==
    \/ Enter(c) \/ QueryNonces(c) \/ QueryAccount(c)
    \/ Send(c) \/ Land(c) \/ Fail(c) \/ Finish(c) \/ HoldExpires(c)

Next ==
    \/ \E w \in Workers :
         \/ OpenWindow(w) \/ CloseWindow(w)
         \/ Run(w) \/ Initialize(w) \/ PollStart(w) \/ EventStart(w) \/ Stop(w)
         \/ CancelPoller(w) \/ Autostake(w)
         \/ \E n \in Nonces : LimboLands(w, n)
    \/ \E c \in Callers :
         \/ Step(c) \/ NotWhitelisted(c) \/ Hang(c) \/ Raise(c)
         \/ TimeOut(c) \/ HoldExpiresEarly(c)

(* RPCs have deadlines and the event loop runs what is ready: whoever      *)
(* holds the lock moves on.  User code may hang, and is cut by the hold    *)
(* timeout; a poller polls again.                                          *)
HolderMoves == (\E c \in Callers : Step(c)) \/ (\E w \in Workers : Initialize(w))

Fairness ==
    /\ WF_vars(HolderMoves)
    /\ \A w \in Workers : WF_vars(PollStart(w))

Spec == Init /\ [][Next]_vars /\ Fairness

-----------------------------------------------------------------------------
(* A reputer's accepted bundle is never wiped by the close of an older     *)
(* nonce, nor overwritten: once its own window closes it has been counted  *)
(* (requires_sequential_nonces and _select_sequential_nonce).              *)
NoBundleLost ==
    lost = {}

(* However poller, events and topics interleave, a nonce that was answered *)
(* for is not sent again while its window is open (_submit_lock around the *)
(* selection and the submission, submitted_nonces, its pruning).           *)
NeverResubmitted ==
    [][\A c \in Callers :
          caller[c].at = "predict" /\ caller'[c].at = "sent"
              => caller[c].nonce \notin settled[WorkerOf(c)]]_vars

(* The sequence a cycle hands to the TxManager is the account's next one,  *)
(* unless a submission of that cycle included nothing, an abandoned        *)
(* transaction landed, or an autostake was sent: no other poller, event,   *)
(* topic or registration of the wallet disturbs it.                        *)
HandedSequenceFresh ==
    [][\A c \in Callers :
          caller[c].at = "predict" /\ caller'[c].at = "sent"
              => caller[c].gap = 0 \/ caller[c].excused]_vars

(* Time and again every eligible nonce has had a definite answer: while    *)
(* the worker is up and its window stays open, each nonce gets one (of a   *)
(* reputer's, the oldest), whatever events were lost, queries failed, user *)
(* code raised or hung with the lock of all topics in its hands, and       *)
(* although newer nonces crowd it out of the first cycles.  A submission   *)
(* that raises every time is never answered: MaxFaults bounds the raises.  *)
(* (_polling_worker, submit_hold_timeout, max_unfulfilled_nonces)          *)
Eligible(w, n) ==
    /\ phase[w] = "up" /\ n \in Open(w)
    /\ w \in Sequential => n = closed[w] + 1
OpenNoncesAnswered ==
    []<>(\A w \in Workers, n \in Nonces : Eligible(w, n) => n \in settled[w])
=============================================================================
