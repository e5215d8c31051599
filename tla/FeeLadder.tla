------------------------------ MODULE FeeLadder ------------------------------
(***************************************************************************)
(* Gas limits and fees over the attempts of rpc_client/tx_manager.py: the  *)
(* simulation of submit_transaction, the gas ladder and the fee multiplier *)
(* of _attempt_submissions, and the gas price cache that all submissions   *)
(* of one TxManager share.                                                 *)
(*                                                                         *)
(* Sequences, deadlines and cancellation are the subject of TxSubmission;  *)
(* here a caller passes no timeout.  A handler's awaits that touch neither *)
(* gas nor price (the confirm-landed queries) are part of its action.      *)
(*                                                                         *)
(* Multipliers are in tenths, as every factor in the code has one decimal; *)
(* int() is the floor.  A gas price is named by the epoch of the market it *)
(* was read in.                                                            *)
(***************************************************************************)
EXTENDS Integers

CONSTANTS
    Ops,            \* the submissions of one TxManager
    MaxRetries,     \* max_retries of submit_transaction
    GasUses,        \* gas that executing the messages may take
    AnteGas,        \* gas below which CheckTx itself runs out of gas
    GasAdjustment,  \* gas_adjustment, in tenths
    BaseGas,        \* base_gas, or the static default of the message type
    SimFloor,       \* 200000: the least gas limit a simulation starts with
    TierMultiplier, \* _fee_multipliers[fee_tier], in tenths
    Congestion,     \* what _check_network_congestion may say, in tenths
    PriceOf,        \* the buffered gas price of each epoch of the market
    StaticPrice,    \* config.fee_minimum_gas_price
    MaxFees         \* max_fees

Epochs == DOMAIN PriceOf
Times(n, tenths) == (n * tenths) \div 10

(* _estimate_gas                                                           *)
EstimatedGas == Times(BaseGas, GasAdjustment)

ASSUME LadderAssumption ==
    /\ MaxRetries \in Nat
    /\ AnteGas \in Nat /\ GasAdjustment \in Nat /\ BaseGas \in Nat
    /\ GasUses \subseteq Nat /\ \A u \in GasUses : u >= AnteGas
    /\ \A u \in GasUses \cup {BaseGas} : Times(u, GasAdjustment) >= 10
    /\ SimFloor \in Nat \ {0} /\ TierMultiplier \in {10, 15, 25}
    /\ Congestion \subseteq {10, 15, 20}
    /\ Epochs \subseteq Nat /\ 0 \in Epochs /\ PriceOf \in [Epochs -> Nat]
    /\ StaticPrice \in Nat /\ MaxFees \in Nat

Attempts == 0..MaxRetries
None     == -1
Static   == -2      \* the static price, of no epoch

VARIABLES
    pc,          \* where the submission is suspended
    outcome,     \* _final_future
    attempt,     \* the loop variable
    gas,         \* current_gas_limit
    lastGas,     \* pending.last_gas_limit
    feeMultiplier,
    simLimit,    \* current_gas_limit of simulate_transaction
    previewing,  \* is the fee computed for submit_transaction's preview?
    answer,      \* the feemarket's answer that is on its way
    price,       \* base_price
    bid,         \* gas limit, fee and price of the transaction being built
    sameSeqRebroadcast,
    cache,       \* _cached_gas_price
    market,      \* the epoch the feemarket is in
    need,        \* the gas that executing the operation takes
    estimate,    \* history: the gas limit the ladder started from
    sent,        \* history: the last bid that was broadcast
    learned      \* history: when a fee failure was last handled

vars == <<pc, outcome, attempt, gas, lastGas, feeMultiplier, simLimit,
          previewing, answer, price, bid, sameSeqRebroadcast, cache, market,
          need, estimate, sent, learned>>

Control  == {"idle", "simulate", "price", "query", "fee", "account", "sent",
             "wait", "done"}
Failures == {"OutOfGas", "InsufficientFees", "SequenceMismatch", "TxError",
             "TxTimeout", "MaxFees"}
Bids     == [gas : Nat, fee : Nat, price : Epochs \cup {Static}]
NoBid    == [gas |-> 0, fee |-> 0, price |-> Static]

TypeOK ==
    /\ pc \in [Ops -> Control]
    /\ outcome \in [Ops -> {"pending", "ok"} \cup Failures]
    /\ attempt \in [Ops -> Attempts]
    /\ gas \in [Ops -> Nat \cup {None}] /\ lastGas \in [Ops -> Nat \cup {None}]
    /\ feeMultiplier \in [Ops -> Nat]
    /\ simLimit \in [Ops -> Nat]
    /\ previewing \in [Ops -> BOOLEAN]
    /\ answer \in [Ops -> Epochs \cup {None}]
    /\ price \in [Ops -> Epochs \cup {Static}]
    /\ bid \in [Ops -> Bids]
    /\ sameSeqRebroadcast \in [Ops -> BOOLEAN]
    /\ cache \in Epochs \cup {None}
    /\ market \in Epochs
    /\ need \in [Ops -> Nat]
    /\ estimate \in [Ops -> Nat]
    /\ sent \in [Ops -> Bids]
    /\ learned \in [Ops -> Epochs \cup {None}]

simulation == <<simLimit, previewing, need, estimate>>
pricing    == <<answer, price, cache, market>>
history    == <<sent, learned>>

-----------------------------------------------------------------------------
GoTo(p, l) == pc' = [pc EXCEPT ![p] = l]

Resolve(p, r) ==
    /\ outcome' = [outcome EXCEPT ![p] = r]
    /\ GoTo(p, "done")
    /\ UNCHANGED attempt

(* Mutant of RetryOrFail: one attempt too many.                            *)
RetryOrFail_OffByOne(p, err) ==
    \/ attempt[p] > MaxRetries /\ Resolve(p, err)
    \/ /\ attempt[p] <= MaxRetries
       /\ attempt' = [attempt EXCEPT ![p] = @ + 1]
       /\ GoTo(p, "price")
       /\ UNCHANGED outcome

RetryOrFail(p, err) ==
    \/ attempt[p] = MaxRetries /\ Resolve(p, err)
    \/ /\ attempt[p] < MaxRetries
       /\ attempt' = [attempt EXCEPT ![p] = @ + 1]
       /\ GoTo(p, "price")
       /\ UNCHANGED outcome

SetGas(p, g) == gas' = [gas EXCEPT ![p] = g]

(* Mutant of Escalation: the retry number no longer raises the limit.      *)
Escalation_Flat(a) == 10

(* gas_multiplier = 1.0 + attempt * 0.3                                    *)
Escalation(a) == 10 + 3 * a

CurrentGas(p) == IF gas[p] = None THEN EstimatedGas ELSE gas[p]
NextGas(p)    == Times(CurrentGas(p), Escalation(attempt[p]))

(* Mutant of AfterOutOfGas: the retry starts again from the default.       *)
AfterOutOfGas_Default(p, wanted) == EstimatedGas

(* The limit after an out-of-gas failure, from the response's gas_wanted   *)
(* when it carries one, which CheckTx rejections do not.                   *)
AfterOutOfGas(p, wanted) ==
    IF wanted # None THEN Times(wanted, 12)
    ELSE IF lastGas[p] # None THEN Times(lastGas[p], 13)
    ELSE IF gas[p] # None THEN Times(gas[p], 13)
    ELSE Times(EstimatedGas, 15)

AmountOf(e) == IF e = Static THEN StaticPrice ELSE PriceOf[e]

-----------------------------------------------------------------------------
(* submit_transaction up to the PendingTx.                                 *)

SimLimit0 == IF EstimatedGas > SimFloor THEN EstimatedGas ELSE SimFloor
SimCap    == IF SimLimit0 * 5 > SimFloor * 10 THEN SimLimit0 * 5 ELSE SimFloor * 10

Submit(p) ==
    /\ pc[p] = "idle"
    /\ GoTo(p, "simulate")
    /\ simLimit' = [simLimit EXCEPT ![p] = SimLimit0]
    /\ \E u \in GasUses : need' = [need EXCEPT ![p] = u]
    /\ UNCHANGED <<outcome, attempt, gas, lastGas, feeMultiplier, previewing,
                   bid, sameSeqRebroadcast, estimate, pricing, history>>

(* The simulation succeeds; the fee preview follows.                       *)
SimulationSucceeds(p) ==
    /\ pc[p] = "simulate"
    /\ \E used \in GasUses :
           /\ used <= simLimit[p]
           /\ SetGas(p, Times(used, GasAdjustment))
           /\ estimate' = [estimate EXCEPT ![p] = Times(used, GasAdjustment)]
    /\ previewing' = [previewing EXCEPT ![p] = TRUE]
    /\ GoTo(p, "price")
    /\ UNCHANGED <<outcome, attempt, lastGas, feeMultiplier, simLimit, bid,
                   sameSeqRebroadcast, need, pricing, history>>

SmallerOf(a, b) == IF a < b THEN a ELSE b

(* The simulation runs out of gas and is repeated with half as much again. *)
SimulationRunsOut(p) ==
    /\ pc[p] = "simulate" /\ simLimit[p] < SimCap
    /\ \E u \in GasUses : u > simLimit[p]
    /\ simLimit' = [simLimit EXCEPT ![p] = SmallerOf(SimCap, Times(@, 15))]
    /\ UNCHANGED <<pc, outcome, attempt, gas, lastGas, feeMultiplier, previewing,
                   bid, sameSeqRebroadcast, need, estimate, pricing, history>>

(* It fails for good, or is not wanted: the loop starts without a limit.   *)
SimulationFails(p) ==
    /\ pc[p] = "simulate"
    /\ estimate' = [estimate EXCEPT ![p] = EstimatedGas]
    /\ GoTo(p, "price")
    /\ UNCHANGED <<outcome, attempt, gas, lastGas, feeMultiplier, simLimit,
                   previewing, bid, sameSeqRebroadcast, need, pricing, history>>

-----------------------------------------------------------------------------
(* _calculate_optimal_fee                                                  *)

(* _get_current_gas_price: a fresh cached price, or a query.               *)
PriceFromCache(p) ==
    /\ pc[p] = "price" /\ cache # None
    /\ price' = [price EXCEPT ![p] = cache]
    /\ GoTo(p, "fee")
    /\ UNCHANGED <<outcome, attempt, gas, lastGas, feeMultiplier, simulation,
                   answer, bid, sameSeqRebroadcast, cache, market, history>>

QueryPrice(p) ==
    /\ pc[p] = "price" /\ cache = None
    /\ answer' = [answer EXCEPT ![p] = market]
    /\ GoTo(p, "query")
    /\ UNCHANGED <<outcome, attempt, gas, lastGas, feeMultiplier, simulation,
                   price, bid, sameSeqRebroadcast, cache, market, history>>

(* The answer arrives and is cached; a failed query leaves the static      *)
(* price and caches nothing.                                               *)
PriceArrives(p) ==
    /\ pc[p] = "query"
    /\ \/ /\ price' = [price EXCEPT ![p] = answer[p]]
          /\ cache' = answer[p]
       \/ /\ price' = [price EXCEPT ![p] = Static]
          /\ UNCHANGED cache
    /\ answer' = [answer EXCEPT ![p] = None]
    /\ GoTo(p, "fee")
    /\ UNCHANGED <<outcome, attempt, gas, lastGas, feeMultiplier, simulation,
                   bid, sameSeqRebroadcast, market, history>>

FeeFor(p, g, congestion) ==
    (g * AmountOf(price[p]) * feeMultiplier[p] * congestion) \div 100

(* The preview only raises; MaxFees there is raised to the caller, before  *)
(* a PendingTx exists.                                                     *)
PreviewFee(p) ==
    /\ pc[p] = "fee" /\ previewing[p]
    /\ \E c \in Congestion :
           IF FeeFor(p, gas[p], c) > MaxFees
           THEN Resolve(p, "MaxFees")
           ELSE GoTo(p, "price") /\ UNCHANGED <<outcome, attempt>>
    /\ previewing' = [previewing EXCEPT ![p] = FALSE]
    /\ UNCHANGED <<gas, lastGas, feeMultiplier, simLimit, bid, need, estimate,
                   sameSeqRebroadcast, pricing, history>>

(* Mutant of ComputeFee: the cap is not checked again on a retry.          *)
ComputeFee_CapOnlyAtFirst(p) ==
    /\ pc[p] = "fee" /\ ~previewing[p]
    /\ \E c \in Congestion :
           IF FeeFor(p, NextGas(p), c) > MaxFees /\ attempt[p] = 0
           THEN Resolve(p, "MaxFees") /\ UNCHANGED bid
           ELSE /\ bid' = [bid EXCEPT ![p] =
                       [gas |-> NextGas(p), fee |-> FeeFor(p, NextGas(p), c),
                        price |-> price[p]]]
                /\ GoTo(p, "account") /\ UNCHANGED <<outcome, attempt>>
    /\ UNCHANGED <<gas, lastGas, feeMultiplier, simulation, sameSeqRebroadcast,
                   pricing, history>>

ComputeFee(p) ==
    /\ pc[p] = "fee" /\ ~previewing[p]
    /\ \E c \in Congestion :
           IF FeeFor(p, NextGas(p), c) > MaxFees
           THEN Resolve(p, "MaxFees") /\ UNCHANGED bid
           ELSE /\ bid' = [bid EXCEPT ![p] =
                       [gas |-> NextGas(p), fee |-> FeeFor(p, NextGas(p), c),
                        price |-> price[p]]]
                /\ GoTo(p, "account") /\ UNCHANGED <<outcome, attempt>>
    /\ UNCHANGED <<gas, lastGas, feeMultiplier, simulation, sameSeqRebroadcast,
                   pricing, history>>

-----------------------------------------------------------------------------
(* The rest of an attempt.                                                 *)

(* Mutant of Send: a repeated attempt is not counted.                      *)
Send_UncountedRetry(p) ==
    /\ pc[p] = "account"
    /\ \/ /\ sent' = [sent EXCEPT ![p] = bid[p]]
          /\ GoTo(p, "sent") /\ UNCHANGED <<outcome, attempt>>
       \/ GoTo(p, "price") /\ UNCHANGED <<outcome, attempt, sent>>
    /\ UNCHANGED <<gas, lastGas, feeMultiplier, simulation, bid,
                   sameSeqRebroadcast, pricing, learned>>

(* account_info answers and the transaction is broadcast, or the query     *)
(* passes its deadline and the attempt is repeated.                        *)
Send(p) ==
    /\ pc[p] = "account"
    /\ \/ /\ sent' = [sent EXCEPT ![p] = bid[p]]
          /\ GoTo(p, "sent") /\ UNCHANGED <<outcome, attempt>>
       \/ RetryOrFail(p, "TxTimeout") /\ UNCHANGED sent
    /\ UNCHANGED <<gas, lastGas, feeMultiplier, simulation, bid,
                   sameSeqRebroadcast, pricing, learned>>

(* A hash is known: used_gas_limit becomes the base of the next attempt.   *)
Accepted(p) ==
    /\ pc[p] = "sent" /\ bid[p].gas >= AnteGas
    /\ SetGas(p, bid[p].gas)
    /\ lastGas' = [lastGas EXCEPT ![p] = bid[p].gas]
    /\ GoTo(p, "wait")
    /\ UNCHANGED <<outcome, attempt, feeMultiplier, simulation, bid,
                   sameSeqRebroadcast, pricing, history>>

(* except OutOfGasError: CheckTx ran out of gas, or the block did.         *)
OnOutOfGas(p) ==
    /\ \E wanted \in {None, bid[p].gas} :
           /\ \/ wanted = None /\ pc[p] = "sent" /\ bid[p].gas < AnteGas
              \/ wanted # None /\ pc[p] = "wait" /\ bid[p].gas < need[p]
           /\ IF attempt[p] < MaxRetries THEN SetGas(p, AfterOutOfGas(p, wanted))
              ELSE UNCHANGED gas
    /\ RetryOrFail(p, "OutOfGas")
    /\ UNCHANGED <<lastGas, feeMultiplier, simulation, bid, sameSeqRebroadcast,
                   pricing, history>>

(* Mutant of OnInsufficientFees: the cached price is kept.                 *)
OnInsufficientFees_KeepsCache(p) ==
    /\ pc[p] \in {"sent", "wait"}
    /\ feeMultiplier' = [feeMultiplier EXCEPT ![p] = 10 + 5 * attempt[p]]
    /\ learned' = [learned EXCEPT ![p] = market]
    /\ RetryOrFail(p, "InsufficientFees")
    /\ UNCHANGED <<gas, lastGas, simulation, bid, sameSeqRebroadcast, answer,
                   price, cache, market, sent>>

(* except InsufficientFeesError: the price cache is invalidated, and the   *)
(* multiplier of the tier is replaced.                                     *)
OnInsufficientFees(p) ==
    /\ pc[p] \in {"sent", "wait"}
    /\ cache' = None
    /\ feeMultiplier' = [feeMultiplier EXCEPT ![p] = 10 + 5 * attempt[p]]
    /\ learned' = [learned EXCEPT ![p] = market]
    /\ RetryOrFail(p, "InsufficientFees")
    /\ UNCHANGED <<gas, lastGas, simulation, bid, sameSeqRebroadcast, answer,
                   price, market, sent>>

(* Success, or an error that is not retried.                               *)
Finishes(p) ==
    /\ \/ pc[p] = "wait" /\ bid[p].gas >= need[p] /\ Resolve(p, "ok")
       \/ pc[p] \in {"sent", "wait"} /\ Resolve(p, "TxError")
    /\ UNCHANGED <<gas, lastGas, feeMultiplier, simulation, bid,
                   sameSeqRebroadcast, pricing, history>>

(* What a confirm-landed query of the last hash may find.  After a landed  *)
(* failure in the ante handler, for its fees or its sequence, neither gas  *)
(* nor price nor multiplier is touched.                                    *)
FoundFinal(p) ==
    /\ lastGas[p] # None
    /\ \/ lastGas[p] >= need[p] /\ Resolve(p, "ok")
       \/ Resolve(p, "TxError")
       \/ /\ attempt[p] = MaxRetries
          /\ \E r \in {"OutOfGas", "InsufficientFees", "SequenceMismatch"} :
                 (r = "OutOfGas" => lastGas[p] < need[p]) /\ Resolve(p, r)

FoundOutOfGas(p) ==
    lastGas[p] # None /\ lastGas[p] < need[p] /\ attempt[p] < MaxRetries

FoundAnteFailure(p) == lastGas[p] # None /\ attempt[p] < MaxRetries

(* _consume_landed_gas_seed                                                *)
SeedGas(p) == SetGas(p, Times(lastGas[p], 12))

(* except TxTimeoutError                                                   *)
OnTimeout(p) ==
    /\ pc[p] = "wait"
    /\ \/ FoundFinal(p) /\ UNCHANGED <<gas, sameSeqRebroadcast>>
       \/ /\ FoundOutOfGas(p) /\ SeedGas(p)
          /\ RetryOrFail(p, "TxTimeout")
          /\ UNCHANGED sameSeqRebroadcast
       \/ /\ FoundAnteFailure(p)
          /\ RetryOrFail(p, "TxTimeout")
          /\ UNCHANGED <<gas, sameSeqRebroadcast>>
       \/ /\ sameSeqRebroadcast' = [sameSeqRebroadcast EXCEPT ![p] = TRUE]
          /\ RetryOrFail(p, "TxTimeout")
          /\ UNCHANGED gas
    /\ UNCHANGED <<lastGas, feeMultiplier, simulation, bid, pricing, history>>

(* except AccountSequenceMismatchError: only the grace window after a      *)
(* same-sequence rebroadcast seeds the gas limit.                          *)
OnMismatch(p) ==
    /\ pc[p] = "sent" /\ bid[p].gas >= AnteGas
    /\ \/ FoundFinal(p) /\ UNCHANGED gas
       \/ /\ RetryOrFail(p, "SequenceMismatch")
          /\ \/ sameSeqRebroadcast[p] /\ FoundOutOfGas(p) /\ SeedGas(p)
             \/ UNCHANGED gas
    /\ sameSeqRebroadcast' = [sameSeqRebroadcast EXCEPT ![p] = FALSE]
    /\ UNCHANGED <<lastGas, feeMultiplier, simulation, bid, pricing, history>>

-----------------------------------------------------------------------------
(* The feemarket moves; gas_price_cache_ttl_secs pass.                     *)

MarketMoves ==
    /\ market + 1 \in Epochs
    /\ market' = market + 1
    /\ UNCHANGED <<pc, outcome, attempt, gas, lastGas, feeMultiplier, simulation,
                   bid, sameSeqRebroadcast, answer, price, cache, history>>

CacheExpires ==
    /\ cache # None
    /\ cache' = None
    /\ UNCHANGED <<pc, outcome, attempt, gas, lastGas, feeMultiplier, simulation,
                   bid, sameSeqRebroadcast, answer, price, market, history>>

Init ==
    /\ pc = [p \in Ops |-> "idle"]
    /\ outcome = [p \in Ops |-> "pending"]
    /\ attempt = [p \in Ops |-> 0]
    /\ gas = [p \in Ops |-> None] /\ lastGas = [p \in Ops |-> None]
    /\ feeMultiplier = [p \in Ops |-> TierMultiplier]
    /\ simLimit = [p \in Ops |-> 0]
    /\ previewing = [p \in Ops |-> FALSE]
    /\ answer = [p \in Ops |-> None]
    /\ price = [p \in Ops |-> Static]
    /\ bid = [p \in Ops |-> NoBid]
    /\ sameSeqRebroadcast = [p \in Ops |-> FALSE]
    /\ cache = None
    /\ market = 0
    /\ need = [p \in Ops |-> 0]
    /\ estimate = [p \in Ops |-> 0]
    /\ sent = [p \in Ops |-> NoBid]
    /\ learned = [p \in Ops |-> None]

Step(p) ==
    \/ SimulationSucceeds(p) \/ SimulationRunsOut(p) \/ SimulationFails(p)
    \/ PriceFromCache(p) \/ QueryPrice(p) \/ PriceArrives(p)
    \/ PreviewFee(p) \/ ComputeFee(p) \/ Send(p)
    \/ Accepted(p) \/ OnOutOfGas(p) \/ OnInsufficientFees(p)
    \/ Finishes(p) \/ OnTimeout(p) \/ OnMismatch(p)

Next == MarketMoves \/ CacheExpires \/ \E p \in Ops : Submit(p) \/ Step(p)

Spec     == Init /\ [][Next]_vars
FairSpec == Spec /\ \A p \in Ops : WF_vars(Step(p))

-----------------------------------------------------------------------------
(* Properties.                                                             *)

(* Every broadcast of an operation has a higher gas limit than the one     *)
(* before, whatever mixture of rejections, timeouts, landed failures and   *)
(* lost queries lies between them: none repeats the bytes of an earlier    *)
(* one, whose hash a node's cache of seen transactions may still hold.     *)
GasGrows ==
    [][\A p \in Ops : pc[p] = "account" /\ pc'[p] = "sent" =>
           sent'[p].gas > sent[p].gas]_vars

(* No broadcast ever offers more than max_fees, although the price, the    *)
(* congestion and the gas limit have all moved since the preview.          *)
FeeWithinCap == \A p \in Ops : sent[p].fee <= MaxFees

(* A broadcast has at least the headroom over the first estimate that its  *)
(* retry number calls for, whichever of the handlers, with their different *)
(* bases, set the limit in between.                                        *)
HeadroomKept ==
    \A p \in Ops : pc[p] = "sent" =>
        bid[p].gas >= Times(estimate[p], Escalation(attempt[p]))

(* After the handler of a fee failure has run, no later attempt is priced  *)
(* from an epoch before it.                                                *)
RetryUsesRefreshedPrice ==
    \A p \in Ops : pc[p] = "account" /\ learned[p] # None =>
        bid[p].price = Static \/ bid[p].price >= learned[p]

(* simulate_transaction and the loop both end.                             *)
LadderEnds == \A p \in Ops : pc[p] # "idle" ~> pc[p] = "done"
=============================================================================
