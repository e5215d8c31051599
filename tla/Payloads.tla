------------------------------- MODULE Payloads --------------------------------
(***************************************************************************)
(* What each use case does for an open nonce: Inferer.submit,              *)
(* Forecaster.submit and Reputer.submit, from the user's function to the   *)
(* answer of the transaction, and the registration and stake top-up around *)
(* it.  Workers of one account take turns under its lock (WorkerNonces);   *)
(* all reputers are given one function of make_reputer_function and so     *)
(* share its ground-truth cache.                                           *)
(*                                                                         *)
(* The user's functions, the chain and the revisions of the ground truth   *)
(* are external.  An action ends where an await suspends: a cached ground  *)
(* truth makes the whole bundle one step.                                  *)
(***************************************************************************)
EXTENDS CanonicalDec, FiniteSets

CONSTANTS
    Inferers, Forecasters, Reputers, \* the workers
    Account, Topic,                  \* of each worker
    Nonces,
    Values,        \* slots of a network bundle: all its lists but the last
    Withheld,      \* the last: pairs of forecaster and withheld inferer
    Loss(_, _),    \* the loss of a slot under a reading (a key and its revision):
                   \* a decimal or NotFinite
    Predictions,   \* what an inferer's function returns: label -> decimal
    Forecasts,     \* what a forecaster's returns: inferer -> decimal
    MinStake,      \* min_stake_uallo; 0: none
    InitialStake,
    SanityCheckEnabled,
    MaxRevisions, MaxFaults, MaxAttempts   \* bounds

Workers == Inferers \cup Forecasters \cup Reputers
Keys    == {<<Topic[w], n>> : w \in Workers, n \in Nonces}
Slots   == Values \cup Withheld

ASSUME PayloadAssumption ==
    /\ IsFiniteSet(Workers)
    /\ Nonces \subseteq Nat \ {0} /\ MinStake \in Nat /\ InitialStake \in Nat
    /\ SanityCheckEnabled \in BOOLEAN
    /\ MaxRevisions \in Nat /\ MaxFaults \in Nat /\ MaxAttempts \in Nat
    /\ Inferers \cap Forecasters = {} /\ Reputers \cap (Inferers \cup Forecasters) = {}

Number == Decimal \cup {NotFinite}

ASSUME NumberAssumption ==
    /\ \A s \in Slots, k \in Keys, v \in 0..MaxRevisions : Loss(s, <<k, v>>) \in Number
    /\ \A p \in Predictions \cup Forecasts : \A k \in DOMAIN p : p[k] \in Number
    /\ \A s \in Withheld : s = <<s[1], s[2]>>

VARIABLES
    pc,           \* the await at which each worker is suspended
    nonce,        \* being submitted for; 0: none
    payload,      \* what is being made or sent
    delta,        \* the top-up being sent
    gt_cache,     \* make_reputer_function: a key and a reading, or Nothing
    sanity_cache, \* inferers whose cached network inferences are recent
    registered, initialized,
    answered,     \* nonces whose submission returned a result
    stake,        \* of each reputer on the chain
    limbo,        \* top-ups nobody waits for that may still execute
    truth,        \* the latest revision of the truth of each key
    revisions, faults, attempts,
    late          \* history: stake added by such top-ups

chain == <<registered, stake, limbo, late, truth, revisions>>
local == <<nonce, payload, delta>>
vars  == <<pc, local, gt_cache, sanity_cache, initialized, answered, chain, faults, attempts>>

Nothing == <<>>

Starting   == {"register", "stake", "topup"}
Submitting == {"predict", "sanity", "inferences", "truth", "sent", "stake", "topup"}

TypeOK ==
    /\ pc \in [Workers -> {"new", "ready"} \cup Starting \cup Submitting]
    /\ nonce \in [Workers -> Nonces \cup {0}]
    /\ delta \in [Workers -> 0..MinStake]
    /\ \A w \in Workers : delta[w] # 0 <=> pc[w] = "topup"
    /\ \A w \in Workers : payload[w] # Nothing => pc[w] \in {"sanity", "sent"}
    /\ gt_cache # Nothing => gt_cache[1] \in Keys
    /\ sanity_cache \subseteq Inferers
    /\ initialized \subseteq Workers /\ registered \subseteq Workers
    /\ \A w \in Workers : pc[w] = "ready" => w \in initialized
    /\ \A w \in Workers : nonce[w] # 0 <=> w \in initialized /\ pc[w] # "ready"
    /\ answered \in [Workers -> SUBSET Nonces]
    /\ stake \in [Reputers -> Nat] /\ late \in [Reputers -> Nat]
    /\ truth \in [Keys -> 0..MaxRevisions] /\ revisions \in 0..MaxRevisions
    /\ faults \in 0..MaxFaults /\ attempts \in 0..MaxAttempts

Init ==
    /\ pc = [w \in Workers |-> "new"] /\ nonce = [w \in Workers |-> 0]
    /\ payload = [w \in Workers |-> Nothing] /\ delta = [w \in Workers |-> 0]
    /\ gt_cache = Nothing /\ sanity_cache = {}
    /\ registered = {} /\ initialized = {}
    /\ answered = [w \in Workers |-> {}]
    /\ stake = [r \in Reputers |-> InitialStake] /\ limbo = {} /\ late = [r \in Reputers |-> 0]
    /\ truth = [k \in Keys |-> 0]
    /\ revisions = 0 /\ faults = 0 /\ attempts = 0

Fault == faults < MaxFaults /\ faults' = faults + 1

(* The lock of w's account is free.                                        *)
LockFree(w) ==
    \A v \in Workers : Account[v] = Account[w] => pc[v] \in {"new", "ready"}

Goto(w, label) == pc' = [pc EXCEPT ![w] = label]

(* Mutant of End: the nonce is still remembered.                           *)
End_NonceKept(w, marked) ==
    /\ pc' = [pc EXCEPT ![w] = "ready"]
    /\ answered' = IF marked THEN [answered EXCEPT ![w] = @ \cup {nonce[w]}] ELSE answered
    /\ payload' = [payload EXCEPT ![w] = Nothing]
    /\ UNCHANGED nonce

(* submit() ends; the worker marks the nonce only if a result is returned  *)
(* that is not a timeout.                                                  *)
End(w, marked) ==
    /\ pc' = [pc EXCEPT ![w] = "ready"]
    /\ answered' = IF marked THEN [answered EXCEPT ![w] = @ \cup {nonce[w]}] ELSE answered
    /\ nonce' = [nonce EXCEPT ![w] = 0]
    /\ payload' = [payload EXCEPT ![w] = Nothing]

(* insert_worker_payload: the transaction with the texts is signed, sent.  *)
Send(w, body) ==
    /\ Goto(w, "sent")
    /\ payload' = [payload EXCEPT ![w] = body]
    /\ UNCHANGED <<nonce, answered>>

-----------------------------------------------------------------------------
(* Registration and stake.                                                 *)

(* What follows _maybe_stake: initialize() or submit() returns.            *)
AfterStake(w) ==
    IF w \in initialized
    THEN End(w, TRUE) /\ UNCHANGED initialized
    ELSE /\ Goto(w, "ready") /\ initialized' = initialized \cup {w}
         /\ UNCHANGED <<answered, nonce, payload>>

(* _maybe_stake asks for the current stake, where a minimum is set.        *)
MaybeStake(w) ==
    IF w \in Reputers /\ MinStake > 0
    THEN /\ Goto(w, "stake") /\ payload' = [payload EXCEPT ![w] = Nothing]
         /\ UNCHANGED <<initialized, answered, nonce>>
    ELSE AfterStake(w)

(* tx.register is sent, and waited for.                                    *)
Register(w) ==
    /\ w \notin registered
    /\ Goto(w, "register")
    /\ UNCHANGED <<initialized, answered, nonce, payload>>

(* initialize() of an inferer or forecaster; the autostake settings are    *)
(* taken to be valid.                                                      *)
InitializeWorker(w) ==
    /\ pc[w] = "new" /\ LockFree(w) /\ w \notin Reputers
    /\ \/ Register(w)
       \/ w \in registered /\ AfterStake(w)
    /\ UNCHANGED <<delta, gt_cache, sanity_cache, chain, faults, attempts>>

(* initialize() of a reputer.                                              *)
InitializeReputer(w) ==
    /\ pc[w] = "new" /\ LockFree(w) /\ w \in Reputers
    /\ \/ Register(w)
       \/ w \in registered /\ MaybeStake(w)
    /\ UNCHANGED <<delta, gt_cache, sanity_cache, chain, faults, attempts>>

(* The registration is answered; one that failed may have landed.          *)
Registered(w) ==
    /\ pc[w] = "register"
    /\ \/ registered' = registered \cup {w} /\ MaybeStake(w) /\ UNCHANGED faults
       \/ /\ Fault /\ Goto(w, "new")
          /\ registered' \in {registered, registered \cup {w}}
          /\ UNCHANGED <<initialized, answered, nonce, payload>>
    /\ UNCHANGED <<delta, gt_cache, sanity_cache, stake, limbo, late, truth, revisions, attempts>>

(* Mutant of TopUp: the whole minimum is added.                            *)
TopUp_Whole(w) == MinStake

TopUp(w) == MinStake - stake[w]

AddStake(w) == Goto(w, "topup") /\ delta' = [delta EXCEPT ![w] = TopUp(w)]

(* The stake is known: the difference is added, or nothing.                *)
StakeKnown(w) ==
    /\ pc[w] = "stake"
    /\ \/ /\ stake[w] < MinStake
          /\ AddStake(w) /\ UNCHANGED <<initialized, answered, nonce, payload, faults>>
       \/ stake[w] >= MinStake /\ AfterStake(w) /\ UNCHANGED <<delta, faults>>
       \/ Fault /\ AfterStake(w) /\ UNCHANGED delta
    /\ UNCHANGED <<gt_cache, sanity_cache, chain, attempts>>

(* add_stake is answered, refused, or given up by its deadline; whatever   *)
(* it was, the caller carries on.                                          *)
StakeAdded(w) ==
    /\ pc[w] = "topup" /\ AfterStake(w)
    /\ delta' = [delta EXCEPT ![w] = 0]
    /\ \/ stake' = [stake EXCEPT ![w] = @ + delta[w]] /\ UNCHANGED <<limbo, faults>>
       \/ Fault /\ UNCHANGED <<stake, limbo>>
       \/ Fault /\ limbo' = limbo \cup {<<w, faults, delta[w]>>} /\ UNCHANGED stake
    /\ UNCHANGED <<gt_cache, sanity_cache, registered, late, truth, revisions, attempts>>

(* A top-up nobody waits for executes.                                     *)
LateTopUp ==
    \E t \in limbo :
        /\ limbo' = limbo \ {t}
        /\ stake' = [stake EXCEPT ![t[1]] = @ + t[3]]
        /\ late' = [late EXCEPT ![t[1]] = @ + t[3]]
        /\ UNCHANGED <<pc, local, gt_cache, sanity_cache, initialized, answered,
                       registered, truth, revisions, faults, attempts>>

-----------------------------------------------------------------------------
(* Submission.                                                             *)

First(w) == IF w \in Reputers THEN "inferences" ELSE "predict"

(* submit(): the first await is the user's function, or the query of the   *)
(* network inferences.                                                     *)
Submit(w) ==
    /\ pc[w] = "ready" /\ LockFree(w) /\ attempts < MaxAttempts
    /\ \E n \in Nonces \ answered[w] : nonce' = [nonce EXCEPT ![w] = n]
    /\ Goto(w, First(w)) /\ attempts' = attempts + 1
    /\ UNCHANGED <<payload, delta, gt_cache, sanity_cache, initialized, answered, chain, faults>>

(* Whether every value has a canonical text; canonicalize_dec raises       *)
(* otherwise.                                                              *)
AllFinite(values) == \A k \in DOMAIN values : Finite(values[k])

Texts(values) == [k \in DOMAIN values |-> Canonical(values[k])]

(* The inferer's prediction becomes a payload.  canonicalize_dec stands    *)
(* outside the try, so that its error is raised, not returned.             *)
Infer(w, prediction) ==
    IF AllFinite(prediction)
    THEN Send(w, [values |-> prediction, texts |-> Texts(prediction)])
    ELSE End(w, FALSE)

(* The sanity check is skipped for several labels, and without a query     *)
(* while the cached inferences are recent.                                 *)
Checked(w, prediction) ==
    SanityCheckEnabled /\ DOMAIN prediction = {"y"} /\ w \notin sanity_cache

Predicted(w) ==
    /\ pc[w] = "predict" /\ w \in Inferers
    /\ \/ /\ \E p \in Predictions :
               IF Checked(w, p)
               THEN /\ Goto(w, "sanity") /\ payload' = [payload EXCEPT ![w] = p]
                    /\ UNCHANGED <<nonce, answered>>
               ELSE Infer(w, p)
          /\ UNCHANGED faults
       \/ Fault /\ End(w, TRUE)
    /\ UNCHANGED <<delta, gt_cache, sanity_cache, initialized, chain, attempts>>

(* The query of the sanity check ends.  A failure is not fatal, and leaves *)
(* the cache as it was.                                                    *)
SanityChecked(w) ==
    /\ pc[w] = "sanity"
    /\ Infer(w, payload[w])
    /\ \/ sanity_cache' = sanity_cache \cup {w} /\ UNCHANGED faults
       \/ Fault /\ UNCHANGED sanity_cache
    /\ UNCHANGED <<delta, gt_cache, initialized, chain, attempts>>

(* throttle_interval_seconds have passed.                                  *)
SanityExpires(w) ==
    /\ w \in sanity_cache /\ sanity_cache' = sanity_cache \ {w}
    /\ UNCHANGED <<pc, local, gt_cache, initialized, answered, chain, faults, attempts>>

(* A forecast is written twice: by submit and by insert_worker_payload.    *)
Rewritten(texts) == Texts([k \in DOMAIN texts |-> Parse(texts[k])])

Forecasted(w) ==
    /\ pc[w] = "predict" /\ w \in Forecasters
    /\ \/ /\ \E f \in Forecasts :
               IF DOMAIN f # {} /\ AllFinite(f)
               THEN Send(w, [values |-> f, texts |-> Rewritten(Texts(f))])
               ELSE End(w, TRUE)
          /\ UNCHANGED faults
       \/ Fault /\ End(w, TRUE)
    /\ UNCHANGED <<delta, gt_cache, sanity_cache, initialized, chain, attempts>>

-----------------------------------------------------------------------------
(* The loss bundle of a reputer.                                           *)

(* Mutant of CacheKey: the nonce is not part of it.                        *)
CacheKey_TopicOnly(w) == <<Topic[w]>>

(* make_reputer_function's cache_key.                                      *)
CacheKey(w) == <<Topic[w], nonce[w]>>

(* One loss for every value of the network bundle, the one-out values of a *)
(* forecaster gathered under it.  Any loss that has no text ends it all.   *)
Bundle(reading) ==
    LET loss == [s \in Slots |-> Loss(s, reading)]
        text == Texts(loss)
    IN  [losses |-> loss,
         values  |-> [s \in Values |-> text[s]],
         one_out_inferer_forecaster_values |->
             [f \in {s[1] : s \in Withheld} |->
                 [i \in {s[2] : s \in {t \in Withheld : t[1] = f}} |-> text[<<f, i>>]]]]

(* insert_reputer_payload.                                                 *)
SendBundle(w, reading) ==
    /\ Goto(w, "sent")
    /\ payload' = [payload EXCEPT ![w] = Bundle(reading)]
    /\ UNCHANGED <<nonce, answered>>

ComputeLosses(w, reading) ==
    IF AllFinite([s \in Slots |-> Loss(s, reading)])
    THEN SendBundle(w, reading)
    ELSE End(w, TRUE)

Cached(w) == gt_cache # Nothing /\ gt_cache[1] = CacheKey(w)

(* The network inferences arrive.  No answer, no inferences, and a value   *)
(* that is no number end the submission.                                   *)
InferencesKnown(w) ==
    /\ pc[w] = "inferences"
    /\ \/ /\ Cached(w) /\ ComputeLosses(w, gt_cache[2]) /\ UNCHANGED faults
       \/ /\ ~Cached(w) /\ Goto(w, "truth") /\ UNCHANGED <<nonce, payload, answered, faults>>
       \/ Fault /\ End(w, TRUE)
    /\ UNCHANGED <<delta, gt_cache, sanity_cache, initialized, chain, attempts>>

(* gt_fn returns what it read for the topic and nonce, and the losses are  *)
(* computed from the cache without another await.                          *)
TruthKnown(w) ==
    /\ pc[w] = "truth"
    /\ \/ LET key     == <<Topic[w], nonce[w]>>
              reading == <<key, truth[key]>>
          IN  /\ gt_cache' = <<CacheKey(w), reading>>
              /\ ComputeLosses(w, reading)
              /\ UNCHANGED faults
       \/ Fault /\ End(w, TRUE) /\ UNCHANGED gt_cache
    /\ UNCHANGED <<delta, sanity_cache, initialized, chain, attempts>>

(* The user's source of ground truth changes its mind.                     *)
Revise ==
    \E k \in Keys :
        /\ revisions < MaxRevisions /\ revisions' = revisions + 1
        /\ truth' = [truth EXCEPT ![k] = revisions + 1]
        /\ UNCHANGED <<pc, local, gt_cache, sanity_cache, initialized, answered,
                       registered, stake, limbo, late, faults, attempts>>

-----------------------------------------------------------------------------
(* The transaction is answered: executed, refused (also as already         *)
(* submitted), or timed out.                                               *)
Refused(w) ==
    /\ Fault
    /\ \E marked \in BOOLEAN : End(w, marked)
    /\ UNCHANGED initialized

WorkerAnswered(w) ==
    /\ pc[w] = "sent" /\ w \notin Reputers
    /\ \/ AfterStake(w) /\ UNCHANGED faults
       \/ Refused(w)
    /\ UNCHANGED <<delta, gt_cache, sanity_cache, chain, attempts>>

(* A reputer tops up its stake, only after success; the result is kept     *)
(* until that is done.                                                     *)
ReputerAnswered(w) ==
    /\ pc[w] = "sent" /\ w \in Reputers
    /\ \/ MaybeStake(w) /\ UNCHANGED faults
       \/ Refused(w)
    /\ UNCHANGED <<delta, gt_cache, sanity_cache, chain, attempts>>

(* submit_hold_timeout_secs, or the end of run(): the task is cancelled at *)
(* its await, and a top-up under way is abandoned.  run() starts anew with *)
(* initialize() if that was what it waited for.                            *)
Cancel(w) ==
    /\ pc[w] \notin {"new", "ready"} /\ Fault
    /\ IF w \in initialized THEN End(w, FALSE)
       ELSE Goto(w, "new") /\ UNCHANGED <<nonce, payload, answered>>
    /\ delta' = [delta EXCEPT ![w] = 0]
    /\ limbo' \in {limbo, IF pc[w] = "topup" THEN limbo \cup {<<w, faults, delta[w]>>} ELSE limbo}
    /\ UNCHANGED <<gt_cache, sanity_cache, initialized, registered, stake, late, truth, revisions, attempts>>

(* run() ends and is called again: initialize() is due once more.          *)
Rerun(w) ==
    /\ pc[w] = "ready" /\ Fault
    /\ Goto(w, "new") /\ initialized' = initialized \ {w}
    /\ UNCHANGED <<local, gt_cache, sanity_cache, answered, chain, attempts>>

Next ==
    \/ \E w \in Workers :
         \/ InitializeWorker(w) \/ InitializeReputer(w) \/ Registered(w) \/ StakeKnown(w) \/ StakeAdded(w)
         \/ Submit(w) \/ Predicted(w) \/ SanityChecked(w) \/ SanityExpires(w)
         \/ Forecasted(w) \/ InferencesKnown(w) \/ TruthKnown(w)
         \/ WorkerAnswered(w) \/ ReputerAnswered(w) \/ Cancel(w) \/ Rerun(w)
    \/ LateTopUp
    \/ Revise

Spec == Init /\ [][Next]_vars

-----------------------------------------------------------------------------
(* All losses of a bundle that is sent come from one reading of the ground *)
(* truth, of the bundle's own topic and nonce, and each stands at the      *)
(* place of the network value it judges -- whichever reputer filled the    *)
(* cache last, whatever was revised, cancelled or retried in between       *)
(* (make_reputer_function: "cached for the current topic/nonce bundle      *)
(* only").                                                                 *)
OneTruthPerBundle ==
    \A w \in Reputers : pc[w] = "sent" =>
        \E version \in 0..MaxRevisions :
            LET reading == <<<<Topic[w], nonce[w]>>, version>> IN
            /\ \A s \in Values : Parse(payload[w].values[s]) = Loss(s, reading)
            /\ \A s \in Withheld :
                   Parse(payload[w].one_out_inferer_forecaster_values[s[1]][s[2]])
                       = Loss(s, reading)

(* Every text that is sent reads back as exactly the decimal it was made   *)
(* of, the trailing zeros and the sign of zero included, and writing what  *)
(* was read gives the same text: the bytes the worker signs are the bytes  *)
(* the chain signs off (canonicalize_dec), also where a forecast is        *)
(* written twice.                                                          *)
ReadsBack(t, d) == Parse(t) = d /\ Canonical(Parse(t)) = t

CanonicalText ==
    \A w \in Workers : pc[w] = "sent" =>
        IF w \in Reputers
        THEN /\ \A s \in Values : ReadsBack(payload[w].values[s], payload[w].losses[s])
             /\ \A s \in Withheld :
                    ReadsBack(payload[w].one_out_inferer_forecaster_values[s[1]][s[2]],
                              payload[w].losses[s])
        ELSE \A k \in DOMAIN payload[w].values :
                 ReadsBack(payload[w].texts[k], payload[w].values[k])

(* A reputer's stake passes the minimum only by top-ups that were given up *)
(* and executed all the same ("top-up only the delta needed"): top-ups of  *)
(* initialize() and of submissions, refused, retried and cancelled, never  *)
(* add up to more.                                                         *)
TopUpExact == \A r \in Reputers : 
    \/ stake[r] - late[r] <= MinStake
    \/ stake[r] - late[r] = InitialStake
================================================================================
