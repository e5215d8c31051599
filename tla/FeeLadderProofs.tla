--------------------------- MODULE FeeLadderProofs ---------------------------
(***************************************************************************)
(* Gas limits and fees over the attempts of a submission, for any number   *)
(* of submissions and retries, any gas, any prices and any caps: types,    *)
(* the cap, the growth of the limit and its headroom, and the price of a   *)
(* retry.                                                                  *)
(***************************************************************************)
EXTENDS FeeLadder, TLAPS

-----------------------------------------------------------------------------
(* Gas limits.                                                             *)

(* A product of naturals is one.                                           *)
LEMMA ProductNat == \A m, n \in Nat : m * n \in Nat
OBVIOUS

(* A factor applied to a natural gives one, at least as large if the       *)
(* factor is at least 1.0.                                                 *)
LEMMA TimesNat ==
    ASSUME NEW n \in Nat, NEW k \in Nat
    PROVE  Times(n, k) \in Nat /\ (k >= 10 => Times(n, k) >= n)
<1> DEFINE x == n * k
<1>1. x \in Nat
  BY ProductNat
<1>2. k >= 10 => x >= 10 * n
  <2> SUFFICES ASSUME k >= 10 PROVE x >= 10 * n
    OBVIOUS
  <2>1. PICK j \in Nat : k = 10 + j
    <3>1. k - 10 \in Nat /\ k = 10 + (k - 10)
      OBVIOUS
    <3> QED BY <3>1
  <2>2. n * j \in Nat
    BY ProductNat
  <2>3. n * k = 10 * n + n * j
    BY <2>1
  <2> QED BY <2>2, <2>3
<1> HIDE DEF x
<1>3. x \div 10 \in Nat /\ (x >= 10 * n => x \div 10 >= n)
  BY <1>1
<1> QED BY <1>2, <1>3 DEF Times, x

(* The factors by which the handlers raise a limit.                        *)
LEMMA TimesFactors ==
    ASSUME NEW n \in Nat
    PROVE  /\ Times(n, 12) \in Nat /\ Times(n, 12) >= n
           /\ Times(n, 13) \in Nat /\ Times(n, 13) >= n
           /\ Times(n, 15) \in Nat /\ Times(n, 15) >= n
<1>1. \A k \in Nat : k >= 10 => Times(n, k) \in Nat /\ Times(n, k) >= n
  BY TimesNat
<1>2. 12 \in Nat /\ 12 >= 10 /\ 13 \in Nat /\ 13 >= 10 /\ 15 \in Nat /\ 15 >= 10
  OBVIOUS
<1> QED BY <1>1, <1>2

(* It preserves order.                                                     *)
LEMMA TimesMono ==
    ASSUME NEW m \in Nat, NEW n \in Nat, m <= n, NEW k \in Nat
    PROVE  Times(m, k) <= Times(n, k)
<1>1. PICK j \in Nat : n = m + j
  <2>1. n - m \in Nat /\ n = m + (n - m)
    OBVIOUS
  <2> QED BY <2>1
<1> DEFINE x == m * k  y == n * k
<1>2. x \in Nat /\ y \in Nat /\ j * k \in Nat
  BY ProductNat
<1>3. y = x + j * k
  BY <1>1
<1> HIDE DEF x, y
<1>4. x <= y
  BY <1>2, <1>3
<1>5. x \div 10 <= y \div 10
  BY <1>2, <1>4
<1> QED BY <1>5 DEF Times, x, y

(* Three tenths more of at least four is more.                             *)
LEMMA TimesGrows ==
    ASSUME NEW m \in Nat, NEW n \in Nat, 4 <= m, m <= n, NEW k \in Nat
    PROVE  Times(m, k) < Times(n, k + 3)
<1> DEFINE x == m * k  y == m * (k + 3)
<1>1. x \in Nat /\ y = x + 3 * m
  BY ProductNat
<1> HIDE DEF x, y
<1>2. y >= x + 10
  BY <1>1
<1>3. x \div 10 < y \div 10
  BY <1>1, <1>2
<1>4. Times(m, k) < Times(m, k + 3)
  BY <1>3 DEF Times, x, y
<1> k + 3 \in Nat
  OBVIOUS
<1>5. Times(m, k + 3) <= Times(n, k + 3)
  BY TimesMono
<1>6. Times(m, k) \in Nat /\ Times(m, k + 3) \in Nat /\ Times(n, k + 3) \in Nat
  BY TimesNat
<1> QED BY <1>4, <1>5, <1>6

(* An escalated limit is more than a retry started from.                   *)
LEMMA TimesRaises ==
    ASSUME NEW n \in Nat, 4 <= n, NEW k \in Nat, k >= 13
    PROVE  n < Times(n, k)
<1>1. PICK j \in Nat : k = j + 3 /\ j >= 10
  <2>1. k - 3 \in Nat /\ k = (k - 3) + 3 /\ k - 3 >= 10
    OBVIOUS
  <2> QED BY <2>1
<1>2. Times(n, j) < Times(n, j + 3)
  BY TimesGrows
<1>3. Times(n, j) >= n /\ Times(n, j) \in Nat /\ Times(n, k) \in Nat
  BY <1>1, TimesNat
<1> QED BY <1>1, <1>2, <1>3

-----------------------------------------------------------------------------
(* The invariant.                                                          *)

(* Before the simulation has ended there is no limit and no transaction.   *)
StartInv(p) ==
    pc[p] \in {"idle", "simulate"} =>
        /\ gas[p] = None /\ lastGas[p] = None /\ attempt[p] = 0
        /\ sent[p] = NoBid

(* No handler's base is below the first estimate.                          *)
BaseInv(p) ==
    pc[p] \notin {"idle", "simulate"} =>
        /\ estimate[p] >= 10
        /\ CurrentGas(p) >= estimate[p]

(* The limit is the one that was last accepted, or a fifth more.           *)
LastInv(p) ==
    lastGas[p] # None =>
        /\ gas[p] # None
        /\ AnteGas <= lastGas[p] /\ lastGas[p] <= gas[p] /\ gas[p] <= Times(lastGas[p], 12)

(* The next limit, in terms of what was sent.                              *)
NextInv(p) ==
    /\ pc[p] \in {"price", "query", "fee"} => sent[p].gas < NextGas(p)
    /\ pc[p] = "account" => sent[p].gas < bid[p].gas /\ bid[p].gas = NextGas(p)
    /\ pc[p] = "sent" => sent[p] = bid[p] /\ bid[p].gas = NextGas(p)
    /\ pc[p] = "wait" =>
           sent[p] = bid[p] /\ gas[p] = bid[p].gas /\ lastGas[p] = bid[p].gas

(* What is sent is what the cap was checked for.                           *)
FeeInv(p) ==
    /\ sent[p].fee <= MaxFees
    /\ pc[p] = "account" => bid[p].fee <= MaxFees

(* A query on its way carries an epoch.                                    *)
QueryInv(p) == pc[p] = "query" => answer[p] \in Epochs

OpInv(p) == StartInv(p) /\ BaseInv(p) /\ LastInv(p) /\ NextInv(p) /\ FeeInv(p) /\ QueryInv(p)

IInv == TypeOK /\ \A p \in Ops : OpInv(p)

(* A single submission has no price from before its last fee failure.      *)
FreshInv(p) ==
    learned[p] # None =>
        /\ learned[p] <= market
        /\ cache = None \/ cache >= learned[p]
        /\ pc[p] = "query" => answer[p] >= learned[p]
        /\ pc[p] = "fee" => price[p] = Static \/ price[p] >= learned[p]
        /\ pc[p] = "account" => bid[p].price = Static \/ bid[p].price >= learned[p]

-----------------------------------------------------------------------------
(* Types.                                                                  *)

(* The constants.                                                          *)
LEMMA Constants ==
    /\ MaxRetries \in Nat /\ Attempts = 0..MaxRetries /\ 0 \in Attempts
    /\ Epochs \subseteq Nat /\ 0 \in Epochs /\ None \notin Epochs /\ None \notin Nat
    /\ EstimatedGas \in Nat /\ EstimatedGas >= 10
    /\ SimLimit0 \in Nat /\ SimCap \in Nat /\ GasUses \subseteq Nat
    /\ \A e \in Epochs \cup {Static} : AmountOf(e) \in Nat
    /\ \A a \in Attempts : a \in Nat /\ Escalation(a) \in Nat /\ Escalation(a) >= 10
    /\ MaxFees \in Nat /\ StaticPrice \in Nat
<1>1. EstimatedGas \in Nat
  BY TimesNat, LadderAssumption DEF EstimatedGas
<1>2. SimLimit0 \in Nat /\ SimCap \in Nat
  BY <1>1, LadderAssumption DEF SimLimit0, SimCap
<1>3. \A e \in Epochs \cup {Static} : AmountOf(e) \in Nat
  BY LadderAssumption DEF AmountOf, Static
<1> QED BY <1>1, <1>2, <1>3, LadderAssumption DEF EstimatedGas, Escalation, Attempts, None

(* The limits the handlers compute.                                        *)
LEMMA GasType ==
    ASSUME TypeOK, NEW p \in Ops
    PROVE  /\ CurrentGas(p) \in Nat /\ NextGas(p) \in Nat
           /\ \A w \in Nat \cup {None} : AfterOutOfGas(p, w) \in Nat
           /\ lastGas[p] # None => Times(lastGas[p], 12) \in Nat
<1>1. gas[p] \in Nat \cup {None} /\ lastGas[p] \in Nat \cup {None} /\ attempt[p] \in Attempts
  BY DEF TypeOK
<1>2. CurrentGas(p) \in Nat
  BY <1>1, Constants DEF CurrentGas
<1>3. \A n \in Nat : Times(n, 12) \in Nat /\ Times(n, 13) \in Nat /\ Times(n, 15) \in Nat
  BY TimesNat
<1> QED BY <1>1, <1>2, <1>3, TimesNat, Constants DEF NextGas, AfterOutOfGas

(* A fee is a natural.                                                     *)
LEMMA FeeType ==
    ASSUME TypeOK, NEW p \in Ops, NEW g \in Nat, NEW c \in Congestion
    PROVE  FeeFor(p, g, c) \in Nat
<1>1. /\ AmountOf(price[p]) \in Nat /\ feeMultiplier[p] \in Nat /\ c \in Nat
  <2>1. price[p] \in Epochs \cup {Static} /\ feeMultiplier[p] \in Nat
    BY DEF TypeOK
  <2>2. AmountOf(price[p]) \in Nat
    BY <2>1, Constants
  <2>3. c \in {10, 15, 20}
    BY LadderAssumption
  <2> QED BY <2>1, <2>2, <2>3
<1> DEFINE x == g * AmountOf(price[p])  y == x * feeMultiplier[p]  z == y * c
<1>2. x \in Nat
  BY <1>1, ProductNat
<1>3. y \in Nat
  <2> HIDE DEF x
  <2> QED BY <1>1, <1>2, ProductNat
<1>4. z \in Nat
  <2> HIDE DEF y
  <2> QED BY <1>1, <1>3, ProductNat
<1>5. FeeFor(p, g, c) = z \div 100
  BY DEF FeeFor
<1> HIDE DEF z
<1> QED BY <1>4, <1>5

(* What a retry or its refusal changes.                                    *)
LEMMA RetryType ==
    ASSUME TypeOK, NEW p \in Ops, NEW e \in Failures, RetryOrFail(p, e)
    PROVE  /\ pc' \in [Ops -> Control]
           /\ outcome' \in [Ops -> {"pending", "ok"} \cup Failures]
           /\ attempt' \in [Ops -> Attempts]
<1>1. attempt[p] \in 0..MaxRetries /\ MaxRetries \in Nat
  BY LadderAssumption DEF TypeOK, Attempts
<1>2. attempt[p] < MaxRetries => attempt[p] + 1 \in Attempts
  BY <1>1 DEF Attempts
<1>3. pc' \in [Ops -> Control]
  BY DEF RetryOrFail, Resolve, GoTo, TypeOK, Control
<1>4. outcome' \in [Ops -> {"pending", "ok"} \cup Failures]
  BY DEF RetryOrFail, Resolve, TypeOK
<1>5. attempt' \in [Ops -> Attempts]
  BY <1>2 DEF RetryOrFail, Resolve, TypeOK
<1> QED BY <1>3, <1>4, <1>5

(* What the end of a submission changes.                                   *)
LEMMA ResolveType ==
    ASSUME TypeOK, NEW p \in Ops, NEW r \in {"ok"} \cup Failures, Resolve(p, r)
    PROVE  /\ pc' \in [Ops -> Control]
           /\ outcome' \in [Ops -> {"pending", "ok"} \cup Failures]
           /\ attempt' \in [Ops -> Attempts]
BY DEF Resolve, GoTo, TypeOK, Control

(* A new limit of one submission.                                          *)
LEMMA SetGasType ==
    ASSUME TypeOK, NEW p \in Ops, NEW g \in Nat, SetGas(p, g)
    PROVE  gas' \in [Ops -> Nat \cup {None}]
BY DEF TypeOK, SetGas

(* What a query of a landed transaction may do to the limit.               *)
LEMMA SeedType ==
    ASSUME TypeOK, NEW p \in Ops, FoundOutOfGas(p), SeedGas(p)
    PROVE  gas' \in [Ops -> Nat \cup {None}]
<1>1. Times(lastGas[p], 12) \in Nat
  BY GasType DEF FoundOutOfGas
<1> QED BY <1>1, SetGasType DEF SeedGas

(* A step of a submission keeps the types.                                 *)
LEMMA TypeStep ==
    ASSUME TypeOK, NEW p \in Ops, \A q \in Ops : QueryInv(q), Submit(p) \/ Step(p)
    PROVE  TypeOK'
<1> USE DEF simulation, pricing, history, GoTo
<1>1. CASE Submit(p)
  <2>1. SimLimit0 \in Nat /\ GasUses \subseteq Nat
    BY Constants
  <2>2. need' \in [Ops -> Nat]
    BY <1>1, <2>1 DEF TypeOK, Submit
  <2> QED BY <1>1, <2>1, <2>2 DEF TypeOK, Submit, Control
<1>2. CASE SimulationSucceeds(p)
  <2>1. PICK u \in GasUses : /\ SetGas(p, Times(u, GasAdjustment))
                             /\ estimate' = [estimate EXCEPT ![p] = Times(u, GasAdjustment)]
    BY <1>2 DEF SimulationSucceeds
  <2>2. Times(u, GasAdjustment) \in Nat
    BY TimesNat, LadderAssumption
  <2>3. gas' \in [Ops -> Nat \cup {None}] /\ estimate' \in [Ops -> Nat]
    BY <2>1, <2>2, SetGasType DEF TypeOK
  <2> QED BY <1>2, <2>3 DEF TypeOK, SimulationSucceeds, Control
<1>3. CASE SimulationRunsOut(p)
  <2>1. simLimit[p] \in Nat /\ SimCap \in Nat
    BY Constants DEF TypeOK
  <2>2. SmallerOf(SimCap, Times(simLimit[p], 15)) \in Nat
    BY <2>1, TimesNat DEF SmallerOf
  <2> QED BY <1>3, <2>2 DEF TypeOK, SimulationRunsOut
<1>4. CASE SimulationFails(p)
  <2>1. EstimatedGas \in Nat
    BY Constants
  <2> QED BY <1>4, <2>1 DEF TypeOK, SimulationFails, Control
<1>5. CASE PriceFromCache(p)
  <2>1. cache \in Epochs
    BY <1>5 DEF TypeOK, PriceFromCache
  <2>2. price' \in [Ops -> Epochs \cup {Static}]
    BY <1>5, <2>1 DEF TypeOK, PriceFromCache
  <2> QED BY <1>5, <2>2 DEF TypeOK, PriceFromCache, Control
<1>6. CASE QueryPrice(p)
  BY <1>6 DEF TypeOK, QueryPrice, Control
<1>7. CASE PriceArrives(p)
  <2>1. answer[p] \in Epochs
    BY <1>7 DEF PriceArrives, QueryInv
  <2>2. price' \in [Ops -> Epochs \cup {Static}] /\ cache' \in Epochs \cup {None}
    BY <1>7, <2>1 DEF TypeOK, PriceArrives
  <2> QED BY <1>7, <2>2 DEF TypeOK, PriceArrives, Control
<1>8. CASE PreviewFee(p)
  <2>1. \/ Resolve(p, "MaxFees")
        \/ GoTo(p, "price") /\ UNCHANGED <<outcome, attempt>>
    BY <1>8 DEF PreviewFee
  <2>2. /\ pc' \in [Ops -> Control] /\ attempt' \in [Ops -> Attempts]
        /\ outcome' \in [Ops -> {"pending", "ok"} \cup Failures]
    BY <2>1, ResolveType DEF TypeOK, Control, Failures
  <2> QED BY <1>8, <2>2 DEF TypeOK, PreviewFee
<1>9. CASE ComputeFee(p)
  <2> DEFINE b(c) == [gas |-> NextGas(p), fee |-> FeeFor(p, NextGas(p), c), price |-> price[p]]
  <2>1. PICK c \in Congestion :
            \/ Resolve(p, "MaxFees") /\ UNCHANGED bid
            \/ bid' = [bid EXCEPT ![p] = b(c)] /\ GoTo(p, "account") /\ UNCHANGED <<outcome, attempt>>
    BY <1>9 DEF ComputeFee
  <2>2. NextGas(p) \in Nat /\ price[p] \in Epochs \cup {Static}
    BY GasType DEF TypeOK
  <2>3. FeeFor(p, NextGas(p), c) \in Nat
    BY <2>2, FeeType
  <2>4. b(c) \in Bids
    BY <2>2, <2>3 DEF Bids
  <2> HIDE DEF b
  <2>5. bid' \in [Ops -> Bids]
    BY <2>1, <2>4 DEF TypeOK
  <2>6. /\ pc' \in [Ops -> Control] /\ attempt' \in [Ops -> Attempts]
        /\ outcome' \in [Ops -> {"pending", "ok"} \cup Failures]
    BY <2>1, ResolveType DEF TypeOK, Control, Failures
  <2> QED BY <1>9, <2>5, <2>6 DEF TypeOK, ComputeFee
<1>10. CASE Send(p)
  <2>1. \/ GoTo(p, "sent") /\ UNCHANGED <<outcome, attempt>>
        \/ RetryOrFail(p, "TxTimeout")
    BY <1>10 DEF Send
  <2>2. /\ pc' \in [Ops -> Control] /\ attempt' \in [Ops -> Attempts]
        /\ outcome' \in [Ops -> {"pending", "ok"} \cup Failures]
    BY <2>1, RetryType DEF TypeOK, Control, Failures
  <2>3. sent' \in [Ops -> Bids]
    BY <1>10 DEF Send, TypeOK
  <2> QED BY <1>10, <2>2, <2>3 DEF TypeOK, Send
<1>11. CASE Accepted(p)
  <2>1. bid[p].gas \in Nat
    BY DEF TypeOK, Bids
  <2>2. gas' \in [Ops -> Nat \cup {None}]
    BY <1>11, <2>1, SetGasType DEF Accepted
  <2> QED BY <1>11, <2>1, <2>2 DEF TypeOK, Accepted, Control
<1>12. CASE OnOutOfGas(p)
  <2>1. PICK w \in {None, bid[p].gas} : gas' = gas \/ SetGas(p, AfterOutOfGas(p, w))
    BY <1>12 DEF OnOutOfGas
  <2>2. bid[p].gas \in Nat
    BY DEF TypeOK, Bids
  <2>3. AfterOutOfGas(p, w) \in Nat
    BY <2>2, GasType
  <2>4. gas' \in [Ops -> Nat \cup {None}]
    BY <2>1, <2>3, SetGasType DEF TypeOK
  <2>5. /\ pc' \in [Ops -> Control] /\ attempt' \in [Ops -> Attempts]
        /\ outcome' \in [Ops -> {"pending", "ok"} \cup Failures]
    BY <1>12, RetryType DEF OnOutOfGas, Failures
  <2> QED BY <1>12, <2>4, <2>5 DEF TypeOK, OnOutOfGas
<1>13. CASE OnInsufficientFees(p)
  <2>1. attempt[p] \in Nat
    BY Constants DEF TypeOK
  <2>2. feeMultiplier' \in [Ops -> Nat] /\ learned' \in [Ops -> Epochs \cup {None}]
    BY <1>13, <2>1 DEF TypeOK, OnInsufficientFees
  <2>3. /\ pc' \in [Ops -> Control] /\ attempt' \in [Ops -> Attempts]
        /\ outcome' \in [Ops -> {"pending", "ok"} \cup Failures]
    BY <1>13, RetryType DEF OnInsufficientFees, Failures
  <2> QED BY <1>13, <2>2, <2>3 DEF TypeOK, OnInsufficientFees
<1>14. CASE Finishes(p)
  <2>1. /\ pc' \in [Ops -> Control] /\ attempt' \in [Ops -> Attempts]
        /\ outcome' \in [Ops -> {"pending", "ok"} \cup Failures]
    BY <1>14, ResolveType DEF Finishes, Failures
  <2> QED BY <1>14, <2>1 DEF TypeOK, Finishes
<1>15. CASE OnTimeout(p) \/ OnMismatch(p)
  <2>1. FoundFinal(p) => \E r \in {"ok"} \cup Failures : Resolve(p, r)
    BY DEF FoundFinal, Failures
  <2>2. gas' = gas \/ (FoundOutOfGas(p) /\ SeedGas(p))
    <3>1. CASE OnTimeout(p)
      BY <3>1 DEF OnTimeout
    <3>2. CASE OnMismatch(p)
      BY <3>2 DEF OnMismatch
    <3> QED BY <1>15, <3>1, <3>2
  <2>3. gas' \in [Ops -> Nat \cup {None}]
    BY <2>2, SeedType DEF TypeOK
  <2>4. FoundFinal(p) \/ RetryOrFail(p, "TxTimeout") \/ RetryOrFail(p, "SequenceMismatch")
    BY <1>15 DEF OnTimeout, OnMismatch
  <2>5. /\ pc' \in [Ops -> Control] /\ attempt' \in [Ops -> Attempts]
        /\ outcome' \in [Ops -> {"pending", "ok"} \cup Failures]
    BY <2>1, <2>4, RetryType, ResolveType DEF Failures
  <2>6. sameSeqRebroadcast' \in [Ops -> BOOLEAN]
    BY <1>15 DEF OnTimeout, OnMismatch, TypeOK
  <2>7. UNCHANGED <<lastGas, feeMultiplier, simulation, bid, pricing, history>>
    BY <1>15 DEF OnTimeout, OnMismatch
  <2> QED BY <2>3, <2>5, <2>6, <2>7 DEF TypeOK
<1> QED
  BY <1>1, <1>2, <1>3, <1>4, <1>5, <1>6, <1>7, <1>8, <1>9, <1>10, <1>11, <1>12, <1>13, <1>14, <1>15
     DEF Step

-----------------------------------------------------------------------------
(* One submission.                                                         *)

(* A step of one submission leaves the others alone.                       *)
LEMMA Others ==
    ASSUME TypeOK, NEW p \in Ops, NEW q \in Ops, q # p, Submit(p) \/ Step(p)
    PROVE  /\ pc'[q] = pc[q] /\ attempt'[q] = attempt[q]
           /\ gas'[q] = gas[q] /\ lastGas'[q] = lastGas[q]
           /\ sent'[q] = sent[q] /\ bid'[q] = bid[q]
           /\ estimate'[q] = estimate[q] /\ answer'[q] = answer[q]
<1> USE DEF simulation, pricing, history, GoTo, SetGas, Resolve, RetryOrFail
<1>1. CASE Submit(p) \/ SimulationSucceeds(p) \/ SimulationRunsOut(p) \/ SimulationFails(p)
  BY <1>1 DEF TypeOK, Submit, SimulationSucceeds, SimulationRunsOut, SimulationFails
<1>2. CASE PriceFromCache(p) \/ QueryPrice(p) \/ PriceArrives(p)
  BY <1>2 DEF TypeOK, PriceFromCache, QueryPrice, PriceArrives
<1>3. CASE PreviewFee(p) \/ ComputeFee(p)
  BY <1>3 DEF TypeOK, PreviewFee, ComputeFee
<1>4. CASE Send(p) \/ Accepted(p) \/ Finishes(p)
  BY <1>4 DEF TypeOK, Send, Accepted, Finishes
<1>5. CASE OnOutOfGas(p) \/ OnInsufficientFees(p)
  BY <1>5 DEF TypeOK, OnOutOfGas, OnInsufficientFees
<1>6. CASE OnTimeout(p)
  BY <1>6 DEF TypeOK, OnTimeout, FoundFinal, SeedGas
<1>7. CASE OnMismatch(p)
  BY <1>7 DEF TypeOK, OnMismatch, FoundFinal, SeedGas
<1> QED BY <1>1, <1>2, <1>3, <1>4, <1>5, <1>6, <1>7 DEF Step

(* The next limit is at least the current one.                             *)
LEMMA NextAtLeast ==
    TypeOK => \A p \in Ops :
        CurrentGas(p) \in Nat /\ NextGas(p) \in Nat /\ NextGas(p) >= CurrentGas(p)
<1> SUFFICES ASSUME TypeOK, NEW p \in Ops
             PROVE  CurrentGas(p) \in Nat /\ NextGas(p) \in Nat /\ NextGas(p) >= CurrentGas(p)
  OBVIOUS
<1>1. CurrentGas(p) \in Nat /\ NextGas(p) \in Nat /\ attempt[p] \in Attempts
  BY GasType DEF TypeOK
<1>2. Escalation(attempt[p]) \in Nat /\ Escalation(attempt[p]) >= 10
  BY <1>1, Constants
<1> QED BY <1>1, <1>2, TimesNat DEF NextGas

(* The same after a step.                                                  *)
LEMMA NextAtLeastAfter ==
    TypeOK' => (\A p \in Ops :
        CurrentGas(p) \in Nat /\ NextGas(p) \in Nat /\ NextGas(p) >= CurrentGas(p))'
BY NextAtLeast, PTL

(* A repeated attempt asks for more than the one before was sent with,     *)
(* whatever the handler made of the limit, as long as it did not lower it. *)
LEMMA Retried ==
    ASSUME TypeOK, TypeOK', NEW p \in Ops, OpInv(p), LastInv(p)',
           pc[p] \in {"account", "sent", "wait"},
           NEW e \in Failures, RetryOrFail(p, e),
           CurrentGas(p)' >= CurrentGas(p),
           UNCHANGED <<sent, bid, estimate>>
    PROVE  OpInv(p)'
<1>1. /\ CurrentGas(p) \in Nat /\ NextGas(p) \in Nat /\ attempt[p] \in Attempts
      /\ attempt[p] \in Nat /\ bid[p].gas \in Nat /\ sent[p].gas \in Nat
      /\ estimate[p] \in Nat
  BY GasType, Constants DEF TypeOK, Bids
<1>2. estimate[p] >= 10 /\ CurrentGas(p) >= estimate[p]
  BY DEF OpInv, BaseInv
<1>3. pc'[p] = "done" \/ (pc'[p] = "price" /\ attempt'[p] = attempt[p] + 1)
  BY DEF RetryOrFail, Resolve, GoTo, TypeOK
<1>4. BaseInv(p)'
  BY <1>1, <1>2, NextAtLeastAfter DEF BaseInv
<1>5. FeeInv(p)'
  BY <1>3 DEF FeeInv, OpInv
<1>6. pc'[p] = "price" => sent[p].gas < NextGas(p)'
  <2> SUFFICES ASSUME pc'[p] = "price" PROVE sent[p].gas < NextGas(p)'
    OBVIOUS
  <2> DEFINE c == CurrentGas(p)  d == CurrentGas(p)'  k == Escalation(attempt[p])
  <2>1. c \in Nat /\ d \in Nat /\ k \in Nat /\ k >= 10 /\ c >= 10 /\ c <= d
    BY <1>1, <1>2, Constants, NextAtLeastAfter
  <2>2. Escalation(attempt[p])' = k + 3
    BY <1>1, <1>3 DEF Escalation
  <2>3. NextGas(p) = Times(c, k) /\ NextGas(p)' = Times(d, k + 3)
    BY <2>2 DEF NextGas
  <2> HIDE DEF c, d, k
  <2>4. Times(c, k) < Times(d, k + 3)
    BY <2>1, TimesGrows
  <2>5. d < Times(d, k + 3)
    <3>1. k + 3 \in Nat /\ k + 3 >= 13 /\ 4 <= d
      BY <2>1
    <3> QED BY <3>1, <2>1, TimesRaises
  <2>6. pc[p] \in {"account", "sent"} => sent[p].gas <= NextGas(p)
    BY <1>1 DEF OpInv, NextInv
  <2>7. pc[p] = "wait" => sent[p].gas = c
    <3>1. pc[p] = "wait" => sent[p].gas = gas[p] /\ gas[p] # None
      BY <1>1, Constants DEF OpInv, NextInv
    <3> QED BY <3>1 DEF c, CurrentGas
  <2>8. NextGas(p)' \in Nat
    BY NextAtLeastAfter
  <2> QED BY <1>1, <2>1, <2>3, <2>4, <2>5, <2>6, <2>7, <2>8
<1>7. StartInv(p)' /\ NextInv(p)' /\ QueryInv(p)'
  BY <1>3, <1>6 DEF StartInv, NextInv, QueryInv
<1> QED BY <1>4, <1>5, <1>7 DEF OpInv

(* The end of a submission.                                                *)
LEMMA Resolved ==
    ASSUME TypeOK, NEW p \in Ops, OpInv(p), pc[p] \notin {"idle", "simulate"},
           NEW r, Resolve(p, r), UNCHANGED <<gas, lastGas, sent, bid, estimate>>
    PROVE  OpInv(p)'
<1>1. pc'[p] = "done" /\ attempt' = attempt
  BY DEF Resolve, GoTo, TypeOK
<1>2. BaseInv(p)' /\ LastInv(p)'
  BY <1>1 DEF OpInv, BaseInv, LastInv, CurrentGas
<1>3. FeeInv(p)' /\ StartInv(p)' /\ NextInv(p)' /\ QueryInv(p)'
  BY <1>1 DEF OpInv, FeeInv, StartInv, NextInv, QueryInv
<1> QED BY <1>2, <1>3 DEF OpInv

(* What has been accepted bounds the limit that a landed failure seeds.    *)
LEMMA Seeded ==
    ASSUME TypeOK, TypeOK', NEW p \in Ops, OpInv(p), FoundOutOfGas(p), SeedGas(p),
           UNCHANGED lastGas
    PROVE  CurrentGas(p)' >= CurrentGas(p) /\ LastInv(p)'
<1>1. /\ lastGas[p] \in Nat /\ gas[p] \in Nat /\ AnteGas <= lastGas[p]
      /\ gas[p] <= Times(lastGas[p], 12) /\ lastGas[p] # None /\ gas[p] # None
  BY DEF FoundOutOfGas, OpInv, LastInv, TypeOK
<1>2. gas'[p] = Times(lastGas[p], 12)
  BY DEF SeedGas, SetGas, TypeOK
<1>3. Times(lastGas[p], 12) \in Nat /\ Times(lastGas[p], 12) >= lastGas[p]
  BY <1>1, TimesFactors
<1>4. gas'[p] # None
  BY <1>2, <1>3, Constants
<1>5. CurrentGas(p)' = gas'[p] /\ CurrentGas(p) = gas[p]
  BY <1>1, <1>4 DEF CurrentGas
<1>6. LastInv(p)'
  BY <1>1, <1>2, <1>3, <1>4 DEF LastInv
<1> QED BY <1>1, <1>2, <1>3, <1>5, <1>6

(* An unchanged limit is not lower.                                        *)
LEMMA KeptGas ==
    ASSUME TypeOK, TypeOK', NEW p \in Ops, OpInv(p), UNCHANGED <<gas, lastGas>>
    PROVE  CurrentGas(p)' >= CurrentGas(p) /\ LastInv(p)'
<1>1. CurrentGas(p)' = CurrentGas(p) /\ LastInv(p)'
  BY DEF CurrentGas, OpInv, LastInv
<1>2. CurrentGas(p) \in Nat
  BY GasType
<1> QED BY <1>1, <1>2

(* Out of gas in CheckTx means that no attempt was ever accepted, so the   *)
(* base is the limit of the loop; out of gas in the block, that the last   *)
(* one was.                                                                *)
LEMMA OutOfGasRaises ==
    ASSUME TypeOK, TypeOK', NEW p \in Ops, OpInv(p), OnOutOfGas(p)
    PROVE  CurrentGas(p)' >= CurrentGas(p) /\ LastInv(p)'
<1>1. UNCHANGED lastGas
  BY DEF OnOutOfGas
<1>2. CASE UNCHANGED gas
  BY <1>1, <1>2, KeptGas
<1>3. PICK w \in {None, bid[p].gas} :
          /\ \/ w = None /\ pc[p] = "sent" /\ bid[p].gas < AnteGas
             \/ w # None /\ pc[p] = "wait"
          /\ gas' = gas \/ SetGas(p, AfterOutOfGas(p, w))
  BY DEF OnOutOfGas
<1>4. /\ bid[p].gas \in Nat /\ gas[p] \in Nat \cup {None} /\ lastGas[p] \in Nat \cup {None}
      /\ CurrentGas(p) \in Nat /\ NextGas(p) \in Nat /\ AnteGas \in Nat /\ EstimatedGas \in Nat
  BY GasType, Constants, LadderAssumption DEF TypeOK, Bids
<1>5. \A n \in Nat : /\ Times(n, 12) \in Nat /\ Times(n, 12) >= n
                     /\ Times(n, 13) \in Nat /\ Times(n, 13) >= n
                     /\ Times(n, 15) \in Nat /\ Times(n, 15) >= n
  BY TimesFactors
<1>6. CASE w = None /\ pc[p] = "sent" /\ bid[p].gas < AnteGas /\ SetGas(p, AfterOutOfGas(p, w))
  <2>1. bid[p].gas = NextGas(p) /\ NextGas(p) >= CurrentGas(p)
    BY <1>6, NextAtLeast DEF OpInv, NextInv
  <2>2. lastGas[p] # None => CurrentGas(p) >= AnteGas
    <3>1. lastGas[p] # None => CurrentGas(p) = gas[p] /\ gas[p] >= lastGas[p] /\ lastGas[p] >= AnteGas /\ gas[p] # None
      BY <1>4 DEF OpInv, LastInv, CurrentGas
    <3> QED BY <3>1, <1>4, Constants
  <2>3. lastGas[p] = None
    BY <1>4, <1>6, <2>1, <2>2
  <2>4. AfterOutOfGas(p, w) \in Nat /\ AfterOutOfGas(p, w) >= CurrentGas(p)
    BY <1>4, <1>5, <1>6, <2>3 DEF AfterOutOfGas, CurrentGas
  <2>5. gas'[p] = AfterOutOfGas(p, w)
    BY <1>6 DEF SetGas, TypeOK
  <2>6. CurrentGas(p)' = AfterOutOfGas(p, w)
    BY <2>4, <2>5, Constants DEF CurrentGas
  <2> QED BY <2>3, <2>4, <2>6, <1>1 DEF LastInv
<1>7. CASE w # None /\ pc[p] = "wait" /\ SetGas(p, AfterOutOfGas(p, w))
  <2>1. gas[p] = bid[p].gas /\ lastGas[p] = bid[p].gas /\ w = bid[p].gas
    BY <1>7 DEF OpInv, NextInv
  <2>2. gas'[p] = Times(gas[p], 12)
    BY <1>7, <2>1 DEF SetGas, TypeOK, AfterOutOfGas
  <2>3. gas[p] \in Nat /\ gas[p] # None /\ gas'[p] \in Nat /\ gas'[p] # None /\ gas'[p] >= gas[p]
    BY <1>4, <1>5, <2>1, <2>2, Constants
  <2>4. CurrentGas(p) = gas[p] /\ CurrentGas(p)' = gas'[p]
    BY <2>3 DEF CurrentGas
  <2>5. AnteGas <= lastGas[p]
    BY <2>1, <2>3 DEF OpInv, LastInv
  <2>6. LastInv(p)'
    BY <1>1, <2>1, <2>2, <2>3, <2>5, <1>4 DEF LastInv
  <2> QED BY <2>3, <2>4, <2>6
<1> QED BY <1>2, <1>3, <1>6, <1>7

(* A step of a submission keeps its invariant.                             *)
LEMMA OpStep ==
    ASSUME TypeOK, TypeOK', NEW p \in Ops, OpInv(p), Submit(p) \/ Step(p)
    PROVE  OpInv(p)'
<1> USE DEF simulation, pricing, history
<1>1. CASE Submit(p) \/ SimulationRunsOut(p)
  <2>1. /\ pc[p] \in {"idle", "simulate"} /\ pc'[p] \in {"idle", "simulate"}
        /\ UNCHANGED <<gas, lastGas, attempt, sent, bid, estimate, answer>>
    BY <1>1 DEF Submit, SimulationRunsOut, GoTo, TypeOK
  <2> QED BY <2>1 DEF OpInv, StartInv, BaseInv, LastInv, NextInv, FeeInv, QueryInv
<1>2. CASE SimulationSucceeds(p) \/ SimulationFails(p)
  <2>1. /\ pc[p] = "simulate" /\ pc'[p] = "price"
        /\ UNCHANGED <<lastGas, attempt, sent, bid>>
    BY <1>2 DEF SimulationSucceeds, SimulationFails, GoTo, TypeOK
  <2>2. lastGas'[p] = None /\ attempt'[p] = 0 /\ sent'[p] = NoBid
    BY <2>1 DEF OpInv, StartInv
  <2>3. estimate'[p] \in Nat /\ estimate'[p] >= 10 /\ CurrentGas(p)' = estimate'[p]
    <3>1. CASE SimulationSucceeds(p)
      <4>1. PICK u \in GasUses : /\ SetGas(p, Times(u, GasAdjustment))
                                 /\ estimate' = [estimate EXCEPT ![p] = Times(u, GasAdjustment)]
        BY <3>1 DEF SimulationSucceeds
      <4>2. Times(u, GasAdjustment) \in Nat /\ Times(u, GasAdjustment) >= 10
        BY TimesNat, LadderAssumption
      <4>3. gas'[p] = Times(u, GasAdjustment) /\ estimate'[p] = Times(u, GasAdjustment)
        BY <4>1 DEF SetGas, TypeOK
      <4> QED BY <4>2, <4>3, Constants DEF CurrentGas
    <3>2. CASE SimulationFails(p)
      <4>1. gas'[p] = None /\ estimate'[p] = EstimatedGas
        BY <3>2 DEF SimulationFails, TypeOK, OpInv, StartInv
      <4> QED BY <4>1, Constants DEF CurrentGas
    <3> QED BY <1>2, <3>1, <3>2
  <2>4. sent'[p].gas < NextGas(p)'
    <3>1. sent'[p].gas = 0
      BY <2>2 DEF NoBid
    <3> QED BY <3>1, <2>3, NextAtLeastAfter
  <2>5. FeeInv(p)'
    BY <2>1 DEF FeeInv, OpInv
  <2> QED BY <2>1, <2>2, <2>3, <2>4, <2>5 DEF OpInv, StartInv, BaseInv, LastInv, NextInv, QueryInv
<1>3. CASE PriceFromCache(p) \/ QueryPrice(p) \/ PriceArrives(p)
  <2>1. /\ pc[p] \in {"price", "query"} /\ pc'[p] \in {"query", "fee"}
        /\ UNCHANGED <<gas, lastGas, attempt, sent, bid, estimate>>
        /\ pc'[p] = "query" => answer'[p] = market
    BY <1>3 DEF PriceFromCache, QueryPrice, PriceArrives, GoTo, TypeOK
  <2>2. BaseInv(p)' /\ LastInv(p)' /\ NextInv(p)'
    BY <2>1 DEF OpInv, BaseInv, LastInv, NextInv, NextGas, CurrentGas
  <2>3. FeeInv(p)' /\ StartInv(p)'
    BY <2>1 DEF OpInv, FeeInv, StartInv
  <2>4. QueryInv(p)'
    BY <2>1 DEF QueryInv, TypeOK
  <2> QED BY <2>2, <2>3, <2>4 DEF OpInv
<1>4. CASE PreviewFee(p) \/ ComputeFee(p)
  <2>1. pc[p] = "fee" /\ UNCHANGED <<gas, lastGas, sent, estimate>>
    BY <1>4 DEF PreviewFee, ComputeFee
  <2>2. CASE UNCHANGED bid /\ Resolve(p, "MaxFees")
    BY <2>1, <2>2, Resolved
  <2>3. CASE PreviewFee(p) /\ pc'[p] = "price" /\ UNCHANGED <<attempt, bid>>
    <3>1. BaseInv(p)' /\ LastInv(p)' /\ NextInv(p)'
      BY <2>1, <2>3 DEF OpInv, BaseInv, LastInv, NextInv, NextGas, CurrentGas
    <3>2. FeeInv(p)' /\ StartInv(p)' /\ QueryInv(p)'
      BY <2>1, <2>3 DEF OpInv, FeeInv, StartInv, QueryInv
    <3> QED BY <3>1, <3>2 DEF OpInv
  <2>4. CASE /\ pc'[p] = "account" /\ UNCHANGED attempt
             /\ bid'[p].gas = NextGas(p) /\ bid'[p].fee <= MaxFees
    <3>1. BaseInv(p)' /\ LastInv(p)' /\ NextInv(p)'
      BY <2>1, <2>4 DEF OpInv, BaseInv, LastInv, NextInv, NextGas, CurrentGas
    <3>2. FeeInv(p)' /\ StartInv(p)' /\ QueryInv(p)'
      BY <2>1, <2>4 DEF OpInv, FeeInv, StartInv, QueryInv
    <3> QED BY <3>1, <3>2 DEF OpInv
  <2>5. CASE PreviewFee(p)
    BY <2>2, <2>3, <2>5 DEF PreviewFee, GoTo, TypeOK
  <2>6. CASE ComputeFee(p)
    <3>1. PICK c \in Congestion :
              IF FeeFor(p, NextGas(p), c) > MaxFees
              THEN Resolve(p, "MaxFees") /\ UNCHANGED bid
              ELSE /\ bid' = [bid EXCEPT ![p] =
                         [gas |-> NextGas(p), fee |-> FeeFor(p, NextGas(p), c),
                          price |-> price[p]]]
                   /\ GoTo(p, "account") /\ UNCHANGED <<outcome, attempt>>
      BY <2>6 DEF ComputeFee
    <3>2. CASE FeeFor(p, NextGas(p), c) > MaxFees
      BY <2>2, <3>1, <3>2
    <3>3. CASE ~(FeeFor(p, NextGas(p), c) > MaxFees)
      <4>1. FeeFor(p, NextGas(p), c) \in Nat /\ MaxFees \in Nat
        BY FeeType, GasType, Constants
      <4>2. /\ bid'[p].gas = NextGas(p) /\ bid'[p].fee = FeeFor(p, NextGas(p), c)
            /\ pc'[p] = "account" /\ UNCHANGED attempt
        BY <3>1, <3>3 DEF GoTo, TypeOK
      <4> QED BY <2>4, <3>3, <4>1, <4>2
    <3> QED BY <3>2, <3>3
  <2> QED BY <1>4, <2>5, <2>6
<1>5. CASE Send(p)
  <2>1. pc[p] = "account" /\ UNCHANGED <<gas, lastGas, bid, estimate>>
    BY <1>5 DEF Send
  <2>2. CASE RetryOrFail(p, "TxTimeout") /\ UNCHANGED sent
    <3>1. "TxTimeout" \in Failures
      BY DEF Failures
    <3> QED BY <2>1, <2>2, <3>1, KeptGas, Retried
  <2>3. CASE sent' = [sent EXCEPT ![p] = bid[p]] /\ GoTo(p, "sent") /\ UNCHANGED attempt
    <3>1. sent'[p] = bid[p] /\ pc'[p] = "sent"
      BY <2>3 DEF GoTo, TypeOK
    <3>2. BaseInv(p)' /\ LastInv(p)' /\ NextInv(p)'
      BY <2>1, <2>3, <3>1 DEF OpInv, BaseInv, LastInv, NextInv, NextGas, CurrentGas
    <3>3. FeeInv(p)' /\ StartInv(p)' /\ QueryInv(p)'
      BY <2>1, <3>1 DEF OpInv, FeeInv, StartInv, QueryInv
    <3> QED BY <3>2, <3>3 DEF OpInv
  <2> QED BY <1>5, <2>2, <2>3 DEF Send
<1>6. CASE Accepted(p)
  <2>1. /\ pc[p] = "sent" /\ pc'[p] = "wait" /\ bid[p].gas >= AnteGas
        /\ gas'[p] = bid[p].gas /\ lastGas'[p] = bid[p].gas
        /\ UNCHANGED <<attempt, bid, sent, estimate>>
    BY <1>6 DEF Accepted, GoTo, SetGas, TypeOK
  <2>2. bid[p].gas \in Nat /\ bid[p].gas >= CurrentGas(p) /\ CurrentGas(p) \in Nat /\ sent[p] = bid[p]
    BY <2>1, NextAtLeast DEF OpInv, NextInv
  <2>3. CurrentGas(p)' = bid[p].gas
    BY <2>1, <2>2, Constants DEF CurrentGas
  <2>4. estimate[p] \in Nat /\ AnteGas \in Nat
    BY LadderAssumption DEF TypeOK
  <2>5. BaseInv(p)'
    BY <2>1, <2>2, <2>3, <2>4 DEF OpInv, BaseInv
  <2>6. LastInv(p)'
    <3>1. Times(bid[p].gas, 12) >= bid[p].gas /\ bid[p].gas # None
      BY <2>2, TimesFactors, Constants
    <3> QED BY <2>1, <2>2, <2>4, <3>1 DEF LastInv
  <2>7. NextInv(p)' /\ FeeInv(p)' /\ StartInv(p)' /\ QueryInv(p)'
    BY <2>1, <2>2 DEF OpInv, NextInv, FeeInv, StartInv, QueryInv
  <2> QED BY <2>5, <2>6, <2>7 DEF OpInv
<1>7. CASE OnOutOfGas(p)
  <2>1. /\ pc[p] \in {"sent", "wait"} /\ RetryOrFail(p, "OutOfGas")
        /\ UNCHANGED <<bid, sent, estimate>> /\ "OutOfGas" \in Failures
    BY <1>7 DEF OnOutOfGas, Failures
  <2>2. CurrentGas(p)' >= CurrentGas(p) /\ LastInv(p)'
    BY <1>7, OutOfGasRaises
  <2> QED BY <2>1, <2>2, Retried
<1>8. CASE OnInsufficientFees(p)
  <2>1. /\ pc[p] \in {"sent", "wait"} /\ RetryOrFail(p, "InsufficientFees")
        /\ UNCHANGED <<gas, lastGas, bid, sent, estimate>> /\ "InsufficientFees" \in Failures
    BY <1>8 DEF OnInsufficientFees, Failures
  <2> QED BY <2>1, KeptGas, Retried
<1>9. CASE Finishes(p)
  <2>1. /\ pc[p] \in {"sent", "wait"} /\ UNCHANGED <<gas, lastGas, bid, sent, estimate>>
        /\ Resolve(p, "ok") \/ Resolve(p, "TxError")
    BY <1>9 DEF Finishes
  <2> QED BY <2>1, Resolved
<1>10. CASE OnTimeout(p) \/ OnMismatch(p)
  <2>1. /\ pc[p] \in {"sent", "wait"} /\ UNCHANGED <<lastGas, bid, sent, estimate>>
        /\ "TxTimeout" \in Failures /\ "SequenceMismatch" \in Failures
    BY <1>10 DEF OnTimeout, OnMismatch, Failures
  <2>2. \/ FoundFinal(p) /\ UNCHANGED gas
        \/ /\ RetryOrFail(p, "TxTimeout") \/ RetryOrFail(p, "SequenceMismatch")
           /\ UNCHANGED gas \/ (FoundOutOfGas(p) /\ SeedGas(p))
    <3>1. CASE OnTimeout(p)
      BY <3>1 DEF OnTimeout
    <3>2. CASE OnMismatch(p)
      BY <3>2 DEF OnMismatch
    <3> QED BY <1>10, <3>1, <3>2
  <2>3. CASE FoundFinal(p) /\ UNCHANGED gas
    <3>1. \E r : Resolve(p, r)
      BY <2>3 DEF FoundFinal
    <3> QED BY <2>1, <2>3, <3>1, Resolved
  <2>4. CASE /\ RetryOrFail(p, "TxTimeout") \/ RetryOrFail(p, "SequenceMismatch")
             /\ UNCHANGED gas \/ (FoundOutOfGas(p) /\ SeedGas(p))
    <3>1. CurrentGas(p)' >= CurrentGas(p) /\ LastInv(p)'
      BY <2>1, <2>4, KeptGas, Seeded
    <3> QED BY <2>1, <2>4, <3>1, Retried
  <2> QED BY <2>2, <2>3, <2>4
<1> QED
  BY <1>1, <1>2, <1>3, <1>4, <1>5, <1>6, <1>7, <1>8, <1>9, <1>10 DEF Step

-----------------------------------------------------------------------------
(* Theorems.                                                               *)

(* The invariant is inductive.                                             *)
LEMMA Inductive == Spec => []IInv
<1>1. Init => IInv
  <2> SUFFICES ASSUME Init PROVE IInv
    OBVIOUS
  <2>1. TypeOK
    <3>1. /\ 0 \in Epochs /\ Epochs \subseteq Nat /\ 0 \in Attempts /\ TierMultiplier \in Nat
          /\ NoBid \in Bids
      BY Constants, LadderAssumption DEF NoBid, Bids
    <3> QED BY <3>1 DEF Init, TypeOK, Control
  <2>2. ASSUME NEW p \in Ops PROVE OpInv(p)
    <3>1. /\ pc[p] = "idle" /\ gas[p] = None /\ lastGas[p] = None /\ attempt[p] = 0
          /\ sent[p] = NoBid
      BY DEF Init
    <3>2. sent[p].fee <= MaxFees
      BY <3>1, Constants DEF NoBid
    <3> QED BY <3>1, <3>2 DEF OpInv, StartInv, BaseInv, LastInv, NextInv, FeeInv, QueryInv
  <2> QED BY <2>1, <2>2 DEF IInv
<1>2. IInv /\ [Next]_vars => IInv'
  <2> SUFFICES ASSUME IInv, [Next]_vars PROVE IInv'
    OBVIOUS
  <2>1. TypeOK /\ \A q \in Ops : OpInv(q)
    BY DEF IInv
  <2>2. CASE \E p \in Ops : Submit(p) \/ Step(p)
    <3>1. PICK p \in Ops : Submit(p) \/ Step(p)
      BY <2>2
    <3>2. \A q \in Ops : QueryInv(q)
      BY <2>1 DEF OpInv
    <3>3. TypeOK'
      BY <2>1, <3>1, <3>2, TypeStep
    <3>4. ASSUME NEW q \in Ops, q # p PROVE OpInv(q)'
      <4>1. /\ pc'[q] = pc[q] /\ attempt'[q] = attempt[q]
            /\ gas'[q] = gas[q] /\ lastGas'[q] = lastGas[q]
            /\ sent'[q] = sent[q] /\ bid'[q] = bid[q]
            /\ estimate'[q] = estimate[q] /\ answer'[q] = answer[q]
        BY <2>1, <3>1, <3>4, Others
      <4>2. OpInv(q)
        BY <2>1
      <4> QED BY <4>1, <4>2 DEF OpInv, StartInv, BaseInv, LastInv, NextInv, FeeInv, QueryInv,
                                NextGas, CurrentGas
    <3>5. OpInv(p)'
      BY <2>1, <3>1, <3>3, OpStep
    <3> QED BY <3>3, <3>4, <3>5 DEF IInv
  <2>3. CASE MarketMoves \/ CacheExpires \/ UNCHANGED vars
    <3>1. /\ UNCHANGED <<pc, outcome, attempt, gas, lastGas, feeMultiplier, simulation,
                         bid, sameSeqRebroadcast, answer, price, history>>
          /\ cache' \in Epochs \cup {None} /\ market' \in Epochs
      BY <2>1, <2>3 DEF MarketMoves, CacheExpires, vars, simulation, history, TypeOK
    <3>2. TypeOK'
      BY <2>1, <3>1 DEF TypeOK, simulation, history
    <3>3. ASSUME NEW q \in Ops PROVE OpInv(q)'
      <4>1. OpInv(q)
        BY <2>1
      <4> QED BY <3>1, <4>1 DEF OpInv, StartInv, BaseInv, LastInv, NextInv, FeeInv, QueryInv,
                                NextGas, CurrentGas, simulation, history
    <3> QED BY <3>2, <3>3 DEF IInv
  <2> QED BY <2>2, <2>3 DEF Next
<1> QED BY <1>1, <1>2, PTL DEF Spec

(* Types.                                                                  *)
THEOREM TypeCorrect == Spec => []TypeOK
<1>1. IInv => TypeOK
  BY DEF IInv
<1> QED BY <1>1, Inductive, PTL

(* No broadcast ever offers more than max_fees.                            *)
THEOREM FeesCapped == Spec => []FeeWithinCap
<1>1. IInv => FeeWithinCap
  BY DEF IInv, OpInv, FeeInv, FeeWithinCap
<1> QED BY <1>1, Inductive, PTL

(* A broadcast has the headroom over the first estimate that its retry     *)
(* number calls for.                                                       *)
THEOREM HeadroomHeld == Spec => []HeadroomKept
<1>1. IInv => HeadroomKept
  <2> SUFFICES ASSUME IInv, NEW p \in Ops, pc[p] = "sent"
               PROVE  bid[p].gas >= Times(estimate[p], Escalation(attempt[p]))
    BY DEF HeadroomKept
  <2>1. TypeOK /\ OpInv(p)
    BY DEF IInv
  <2>2. CurrentGas(p) \in Nat /\ NextGas(p) \in Nat
    BY <2>1, NextAtLeast
  <2>3. estimate[p] \in Nat /\ Escalation(attempt[p]) \in Nat
    BY <2>1, Constants DEF TypeOK
  <2>4. estimate[p] <= CurrentGas(p) /\ bid[p].gas = NextGas(p)
    BY <2>1, <2>2, <2>3 DEF OpInv, BaseInv, NextInv
  <2>5. Times(estimate[p], Escalation(attempt[p])) <= NextGas(p)
    BY <2>2, <2>3, <2>4, TimesMono DEF NextGas
  <2>6. Times(estimate[p], Escalation(attempt[p])) \in Nat
    BY <2>3, TimesNat
  <2> QED BY <2>2, <2>4, <2>5, <2>6
<1> QED BY <1>1, Inductive, PTL

(* Only the answer of account_info takes an attempt to its broadcast, with *)
(* the gas and the fee it computed.                                        *)
LEMMA SentBySend ==
    ASSUME TypeOK, NEW p \in Ops, NEW q \in Ops, Submit(p) \/ Step(p),
           pc[q] = "account", pc'[q] = "sent"
    PROVE  sent'[q] = bid[q]
<1> USE DEF TypeOK, GoTo, Resolve, RetryOrFail
<1>1. CASE Submit(p) \/ SimulationSucceeds(p) \/ SimulationRunsOut(p) \/ SimulationFails(p)
  BY <1>1 DEF Submit, SimulationSucceeds, SimulationRunsOut, SimulationFails
<1>2. CASE PriceFromCache(p) \/ QueryPrice(p) \/ PriceArrives(p)
  BY <1>2 DEF PriceFromCache, QueryPrice, PriceArrives
<1>3. CASE PreviewFee(p) \/ ComputeFee(p) \/ Accepted(p) \/ Finishes(p)
  BY <1>3 DEF PreviewFee, ComputeFee, Accepted, Finishes
<1>4. CASE Send(p)
  BY <1>4 DEF Send
<1>5. CASE OnOutOfGas(p) \/ OnInsufficientFees(p)
  BY <1>5 DEF OnOutOfGas, OnInsufficientFees
<1>6. CASE OnTimeout(p) \/ OnMismatch(p)
  BY <1>6 DEF OnTimeout, OnMismatch, FoundFinal
<1> QED BY <1>1, <1>2, <1>3, <1>4, <1>5, <1>6 DEF Step

(* Every broadcast of a submission has a higher gas limit than the one     *)
(* before, so that no two of its attempts are the same transaction.        *)
THEOREM LimitsGrow == Spec => GasGrows
<1>1. IInv /\ [Next]_vars =>
      [\A p \in Ops : pc[p] = "account" /\ pc'[p] = "sent" =>
           sent'[p].gas > sent[p].gas]_vars
  <2> SUFFICES ASSUME IInv, Next, NEW q \in Ops, pc[q] = "account", pc'[q] = "sent"
               PROVE  sent'[q].gas > sent[q].gas
    OBVIOUS
  <2>1. TypeOK /\ OpInv(q)
    BY DEF IInv
  <2>2. PICK p \in Ops : Submit(p) \/ Step(p)
    BY DEF Next, MarketMoves, CacheExpires, history
  <2>3. sent'[q] = bid[q]
    BY <2>1, <2>2, SentBySend
  <2>4. sent[q].gas < bid[q].gas
    BY <2>1 DEF OpInv, NextInv
  <2>5. sent[q].gas \in Nat /\ bid[q].gas \in Nat
    BY <2>1 DEF TypeOK, Bids
  <2> QED BY <2>3, <2>4, <2>5
<1> QED BY <1>1, Inductive, PTL DEF Spec, GasGrows

-----------------------------------------------------------------------------
(* The price of a retry, when the TxManager has one submission in flight:  *)
(* a second one whose query was under way would put an older price back    *)
(* into the cache.                                                         *)

(* The steps that neither learn of a fee failure, nor touch the cache, nor *)
(* move towards a price.                                                   *)
LEMMA FreshKept ==
    ASSUME TypeOK, NEW p \in Ops, FreshInv(p), UNCHANGED <<cache, market, learned, answer, price>>,
           \/ UNCHANGED <<pc, bid>>
           \/ pc'[p] \notin {"query", "fee", "account"}
           \/ pc[p] = "fee" /\ pc'[p] = "account" /\ bid'[p].price = price[p]
    PROVE  FreshInv(p)'
BY DEF FreshInv

(* A step of the submission.                                               *)
LEMMA FreshStep ==
    ASSUME TypeOK, NEW p \in Ops, FreshInv(p), OpInv(p), Submit(p) \/ Step(p)
    PROVE  FreshInv(p)'
<1> USE DEF simulation, pricing, history
<1>1. CASE Submit(p) \/ SimulationSucceeds(p) \/ SimulationRunsOut(p) \/ SimulationFails(p)
  <2>1. UNCHANGED <<cache, market, learned, answer, price>>
    BY <1>1 DEF Submit, SimulationSucceeds, SimulationRunsOut, SimulationFails
  <2>2. UNCHANGED <<pc, bid>> \/ pc'[p] \notin {"query", "fee", "account"}
    BY <1>1 DEF Submit, SimulationSucceeds, SimulationRunsOut, SimulationFails, GoTo, TypeOK
  <2> QED BY <2>1, <2>2, FreshKept
<1>2. CASE PriceFromCache(p)
  <2>1. /\ pc'[p] = "fee" /\ price'[p] = cache /\ cache # None
        /\ UNCHANGED <<cache, market, learned>>
    BY <1>2 DEF PriceFromCache, GoTo, TypeOK
  <2> QED BY <2>1 DEF FreshInv
<1>3. CASE QueryPrice(p)
  <2>1. /\ pc'[p] = "query" /\ answer'[p] = market
        /\ UNCHANGED <<cache, market, learned>>
    BY <1>3 DEF QueryPrice, GoTo, TypeOK
  <2>2. market \in Nat /\ (learned[p] # None => learned[p] \in Nat)
    BY Constants DEF TypeOK
  <2> QED BY <2>1, <2>2 DEF FreshInv
<1>4. CASE PriceArrives(p)
  <2>1. /\ pc[p] = "query" /\ pc'[p] = "fee" /\ UNCHANGED <<market, learned>>
        /\ \/ price'[p] = answer[p] /\ cache' = answer[p]
           \/ price'[p] = Static /\ cache' = cache
    BY <1>4 DEF PriceArrives, GoTo, TypeOK
  <2> QED BY <2>1 DEF FreshInv
<1>5. CASE PreviewFee(p)
  <2>1. UNCHANGED <<cache, market, learned, answer, price>> /\ pc'[p] \in {"done", "price"}
    BY <1>5 DEF PreviewFee, Resolve, GoTo, TypeOK
  <2> QED BY <2>1, FreshKept
<1>6. CASE ComputeFee(p)
  <2>1. UNCHANGED <<cache, market, learned, answer, price>> /\ pc[p] = "fee"
    BY <1>6 DEF ComputeFee
  <2>2. pc'[p] = "done" \/ (pc'[p] = "account" /\ bid'[p].price = price[p])
    BY <1>6 DEF ComputeFee, Resolve, GoTo, TypeOK
  <2> QED BY <2>1, <2>2, FreshKept
<1>7. CASE OnInsufficientFees(p)
  <2>1. /\ pc'[p] \in {"done", "price"} /\ cache' = None /\ learned'[p] = market
        /\ UNCHANGED market
    BY <1>7 DEF OnInsufficientFees, RetryOrFail, Resolve, GoTo, TypeOK
  <2>2. market \in Nat
    BY Constants DEF TypeOK
  <2> QED BY <2>1, <2>2 DEF FreshInv
<1>8. CASE Send(p) \/ Accepted(p) \/ OnOutOfGas(p) \/ Finishes(p)
  <2>1. UNCHANGED <<cache, market, learned, answer, price>>
    BY <1>8 DEF Send, Accepted, OnOutOfGas, Finishes
  <2>2. pc'[p] \notin {"query", "fee", "account"}
    BY <1>8 DEF Send, Accepted, OnOutOfGas, Finishes, RetryOrFail, Resolve, GoTo, TypeOK
  <2> QED BY <2>1, <2>2, FreshKept
<1>9. CASE OnTimeout(p) \/ OnMismatch(p)
  <2>1. UNCHANGED <<cache, market, learned, answer, price>>
    BY <1>9 DEF OnTimeout, OnMismatch
  <2>2. \/ \E r : Resolve(p, r)
        \/ \E e : RetryOrFail(p, e)
    BY <1>9 DEF OnTimeout, OnMismatch, FoundFinal
  <2>3. pc'[p] \notin {"query", "fee", "account"}
    BY <2>2 DEF RetryOrFail, Resolve, GoTo, TypeOK
  <2> QED BY <2>1, <2>3, FreshKept
<1> QED BY <1>1, <1>2, <1>3, <1>4, <1>5, <1>6, <1>7, <1>8, <1>9 DEF Step

(* After the handler of a fee failure has run, no later attempt of a lone  *)
(* submission is priced from an epoch before it.                           *)
THEOREM PriceRefreshed ==
    (\A p, q \in Ops : p = q) => (Spec => []RetryUsesRefreshedPrice)
<1> SUFFICES ASSUME \A p, q \in Ops : p = q PROVE Spec => []RetryUsesRefreshedPrice
  OBVIOUS
<1> DEFINE Fresh == \A p \in Ops : FreshInv(p)
<1>1. Init => Fresh
  BY DEF Init, FreshInv
<1>2. IInv /\ Fresh /\ [Next]_vars => Fresh'
  <2> SUFFICES ASSUME IInv, Fresh, [Next]_vars, NEW q \in Ops PROVE FreshInv(q)'
    OBVIOUS
  <2>1. TypeOK /\ OpInv(q) /\ FreshInv(q)
    BY DEF IInv
  <2>2. CASE \E p \in Ops : Submit(p) \/ Step(p)
    <3>1. Submit(q) \/ Step(q)
      BY <2>2
    <3> QED BY <2>1, <3>1, FreshStep
  <2>3. CASE MarketMoves
    <3>1. market' = market + 1 /\ UNCHANGED <<pc, bid, answer, price, cache, learned>>
      BY <2>3 DEF MarketMoves, history
    <3>2. market \in Nat /\ (learned[q] # None => learned[q] \in Nat)
      BY <2>1, Constants DEF TypeOK
    <3> QED BY <2>1, <3>1, <3>2 DEF FreshInv
  <2>4. CASE CacheExpires
    BY <2>1, <2>4 DEF FreshInv, CacheExpires, history
  <2>5. CASE UNCHANGED vars
    BY <2>1, <2>5 DEF FreshInv, vars
  <2> QED BY <2>2, <2>3, <2>4, <2>5 DEF Next
<1>3. Fresh => RetryUsesRefreshedPrice
  BY DEF FreshInv, RetryUsesRefreshedPrice
<1> HIDE DEF Fresh
<1> QED BY <1>1, <1>2, <1>3, Inductive, PTL DEF Spec
=============================================================================
