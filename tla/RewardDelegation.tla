--------------------------- MODULE RewardDelegation ---------------------------
(***************************************************************************)
(* Auto-staking: from the frames of a worker's EventRewardsSettled         *)
(* subscription (dispatch, deduplication and the concurrent callbacks of   *)
(* client_websocket_events.py) through handle_rewards_settled to the       *)
(* delegations of process_autostake_rewards_settled (worker/autostake.py). *)
(*                                                                         *)
(* The chain and the server are external: blocks settle and pay rewards;   *)
(* the server pushes the frame of a block, may lose it, and may push it    *)
(* again.  One frame is dispatched at a time, and the next waits for all   *)
(* its callbacks; every callback runs to its first await, the balance      *)
(* query, before any of them ends.                                         *)
(***************************************************************************)
EXTENDS EventDecoding, FiniteSets, FiniteSetsExt

CONSTANTS
    Settlements,   \* reward settlements of the chain
    Blocks,        \* those of each block
    Wire,          \* the event of each, as the websocket delivers it
    Truth,         \* what each settles: topic, actor, nonce, and tenths paid to us
    Role, Topic, Wallet,
    Reserve,       \* fee_reserve_uallo
    InitialBalance,
    Ttl,           \* dedupe_ttl_seconds
    MaxClock, MaxReplays, MaxFaults, MaxSpend   \* bounds

ASSUME RewardAssumption ==
    /\ IsFiniteSet(Settlements)
    /\ Blocks \in Seq(SUBSET Settlements)
    /\ \A i, j \in DOMAIN Blocks : i # j => Blocks[i] \cap Blocks[j] = {}
    /\ Reserve \in Int /\ InitialBalance \in Nat /\ Ttl \in Nat
    /\ \A s \in Settlements : Truth[s].tenths \in Nat
    /\ MaxClock \in Nat /\ MaxReplays \in Nat /\ MaxFaults \in Nat /\ MaxSpend \in Nat

VARIABLES
    clock,
    block,      \* the blocks settled so far
    balance,    \* of the wallet
    stage,      \* of the callback for each settlement
    recent,     \* _recent_event_keys of the subscription: key and time
    last,       \* _last_autostake_key
    limbo,      \* how many delegations nobody waits for may still execute
    replays, faults, spent,
    (* history *)
    delegated,  \* how often each settlement was delegated
    givenUp,    \* settlements a shortage, a failure or a crash ended
    pushed,     \* blocks whose frame was pushed
    arrived,    \* when, on this subscription; -1: not
    newest,     \* the last frame that led to a delegation; 0 after a crash
    late        \* how often a block's frame was pushed again unexpectedly

history == <<delegated, givenUp, pushed, arrived, newest, late>>
bounds  == <<replays, faults, spent>>
vars    == <<clock, block, balance, stage, recent, last, limbo, bounds, history>>

Event  == [s \in Settlements |-> Marshal(Wire[s])]
Reward == [s \in Settlements |-> ExtractReward(Event[s], Wallet)]
AtLeast0(n) == IF n > 0 THEN n ELSE 0

(* Mutant of StakeAmount: the reserve is not kept back.                    *)
StakeAmount_Whole(s) == AtLeast0(Reward[s])

(* compute_stake_amount_uallo.                                             *)
StakeAmount(s) == AtLeast0(Reward[s] - AtLeast0(Reserve))

(* Mutant of AutoStakeKey: the nonce is not part of it.                    *)
AutoStakeKey_NoHeight(s) == <<Role, Topic, Reward[s]>>

(* make_autostake_key; the target never changes.                           *)
AutoStakeKey(s) == <<Role, Topic, Event[s].block_height, Reward[s]>>

(* The subscriber's key of an event in the frame of block b.               *)
EventKey(b, s) == <<b, Event[s]>>

(* extract_reward_amount_uallo returns an int.                             *)
ASSUME RewardsCounted == \A s \in Settlements : Reward[s] \in Int

ASSUME EventsDiffer ==
    \A s, t \in Settlements : Event[s] = Event[t] => s = t

Own(s) == Truth[s].topic = Topic /\ Truth[s].actor = Role

(* process_autostake_rewards_settled compares the role and the topic.      *)
Addressed(s) ==
    /\ NormalizeActorType(Event[s].actor_type) = Role
    /\ Event[s].topic_id = <<"int", Topic>>

ASSUME WireTruthful ==
    \A s \in Settlements : Addressed(s) => Own(s)

NoKey == <<>>
Idle  == \A s \in Settlements : stage[s] = "idle"

TypeOK ==
    /\ clock \in 0..MaxClock
    /\ block \in 0..Len(Blocks) /\ pushed \subseteq 1..block
    /\ balance \in Nat /\ spent \in 0..MaxSpend
    /\ stage \in [Settlements -> {"idle", "balance", "sent"}]
    /\ \A s \in Settlements : stage[s] # "idle" => \E b \in pushed : s \in Blocks[b]
    /\ \A r \in recent : r[1] \in {EventKey(b, s) : b \in pushed, s \in Settlements}
    /\ last \in {NoKey} \cup {AutoStakeKey(s) : s \in Settlements}
    /\ limbo \in [Settlements -> Nat] /\ givenUp \subseteq Settlements
    /\ replays \in 0..MaxReplays /\ faults \in 0..MaxFaults
    /\ delegated \in [Settlements -> Nat]
    /\ arrived \in [1..Len(Blocks) -> -1..MaxClock]
    /\ newest \in 0..block
    /\ late \in [1..Len(Blocks) -> Nat]

Init ==
    /\ clock = 0 /\ block = 0 /\ balance = InitialBalance
    /\ stage = [s \in Settlements |-> "idle"]
    /\ recent = {} /\ last = NoKey /\ limbo = [s \in Settlements |-> 0]
    /\ replays = 0 /\ faults = 0 /\ spent = 0
    /\ delegated = [s \in Settlements |-> 0] /\ givenUp = {}
    /\ pushed = {} /\ arrived = [b \in 1..Len(Blocks) |-> -1] /\ newest = 0
    /\ late = [b \in 1..Len(Blocks) |-> 0]

Fault == faults < MaxFaults /\ faults' = faults + 1

-----------------------------------------------------------------------------
(* The chain.                                                              *)

Paid == [s \in Settlements |-> Truth[s].tenths \div 10]

Settle ==
    /\ block < Len(Blocks)
    /\ block' = block + 1
    /\ balance' = balance + SumFunctionOnSet(Paid, Blocks[block + 1])
    /\ UNCHANGED <<clock, stage, recent, last, limbo, bounds, history>>

Tick ==
    /\ clock < MaxClock
    /\ clock' = clock + 1
    /\ UNCHANGED <<block, balance, stage, recent, last, limbo, bounds, history>>

(* The worker pays a fee from the same wallet.                             *)
Spend ==
    /\ spent < MaxSpend /\ balance > 0
    /\ spent' = spent + 1 /\ balance' = balance - 1
    /\ UNCHANGED <<clock, block, stage, recent, last, limbo, replays, faults, history>>

(* A delegation executes if the wallet can pay for it.                     *)
Affordable(s) == balance >= StakeAmount(s)
Execute(s) ==
    /\ balance' = balance - StakeAmount(s)
    /\ delegated' = [delegated EXCEPT ![s] = @ + 1]

-----------------------------------------------------------------------------
(* A frame arrives.                                                        *)

WithinTtl(b) == arrived[b] >= 0 /\ clock - arrived[b] <= Ttl

(* Replays the code is made for: while its key is remembered, or of the    *)
(* last frame that led to a delegation, if only one reward in it is ours.  *)
Expected(b) ==
    \/ WithinTtl(b)
    \/ b = newest /\ Cardinality({s \in Blocks[b] : Own(s)}) <= 1

Push(b) ==
    /\ b \in 1..block
    /\ IF b \notin pushed THEN UNCHANGED replays
       ELSE replays < MaxReplays /\ replays' = replays + 1
    /\ late' = IF b \notin pushed \/ Expected(b) THEN late
               ELSE [late EXCEPT ![b] = @ + 1]
    /\ pushed' = pushed \cup {b}
    /\ arrived' = [arrived EXCEPT ![b] = IF WithinTtl(b) THEN @ ELSE clock]

(* Mutant of Remembered: a key is forgotten just before its time.          *)
Remembered_Early == {r \in recent : r[2] > clock - Ttl}

(* Pruning: what is older than the cutoff is forgotten.                    *)
Remembered == {r \in recent : r[2] >= clock - Ttl}

(* Typed filtering, then deduplication by block height and content.        *)
Unique(b) ==
    {s \in Blocks[b] :
        /\ MatchesTopic(Event[s], Topic)
        /\ EventKey(b, s) \notin {r[1] : r \in Remembered}}

(* The handler up to its first await.                                      *)
Decides(s) ==
    /\ Addressed(s)
    /\ Reward[s] > 0
    /\ AutoStakeKey(s) # last
    /\ StakeAmount(s) > 0

Deliver(b) ==
    /\ Idle
    /\ Push(b)
    /\ recent' = Remembered \cup {<<EventKey(b, s), clock>> : s \in Unique(b)}
    /\ stage' = [s \in Settlements |->
                    IF s \in Unique(b) /\ Decides(s) THEN "balance" ELSE "idle"]
    /\ newest' = IF \A s \in Settlements : stage'[s] = "idle" THEN newest ELSE b
    /\ UNCHANGED <<clock, block, balance, last, limbo, faults, spent, delegated, givenUp>>

-----------------------------------------------------------------------------
(* The callback for a settlement.                                          *)

(* Enough, too little, or unknown, in which case it proceeds.              *)
BalanceAnswered(s) ==
    /\ stage[s] = "balance"
    /\ \/ /\ Affordable(s)
          /\ stage' = [stage EXCEPT ![s] = "sent"]
          /\ UNCHANGED <<givenUp, faults>>
       \/ /\ ~Affordable(s)
          /\ stage' = [stage EXCEPT ![s] = "idle"]
          /\ givenUp' = givenUp \cup {s}
          /\ UNCHANGED faults
       \/ /\ Fault
          /\ stage' = [stage EXCEPT ![s] = "sent"]
          /\ UNCHANGED givenUp
    /\ UNCHANGED <<clock, block, balance, recent, last, limbo, replays, spent,
                   delegated, pushed, arrived, newest, late>>

(* Mutant of Returns: the old key, of nonce and amount only, is stored.    *)
Returns_OldKey(s) ==
    /\ stage' = [stage EXCEPT ![s] = "idle"]
    /\ last' = <<Event[s].block_height, Reward[s]>>

(* The handler returns the key, whatever became of the transaction, and    *)
(* handle_rewards_settled stores it.                                       *)
Returns(s) ==
    /\ stage' = [stage EXCEPT ![s] = "idle"]
    /\ last' = AutoStakeKey(s)

Delegated(s) ==
    /\ stage[s] = "sent"
    /\ Returns(s)
    /\ IF Affordable(s) THEN Execute(s) /\ UNCHANGED givenUp
       ELSE givenUp' = givenUp \cup {s} /\ UNCHANGED <<balance, delegated>>
    /\ UNCHANGED <<clock, block, recent, limbo, bounds, pushed, arrived,
                   newest, late>>

(* An error or a timeout: the transaction may still execute.               *)
DelegationFails(s) ==
    /\ stage[s] = "sent" /\ Fault
    /\ Returns(s)
    /\ limbo' \in {limbo, [limbo EXCEPT ![s] = @ + 1]}
    /\ givenUp' = givenUp \cup {s}
    /\ UNCHANGED <<clock, block, balance, recent, replays, spent,
                   delegated, pushed, arrived, newest, late>>

LimboLands(s) ==
    /\ limbo[s] > 0 /\ Affordable(s)
    /\ limbo' = [limbo EXCEPT ![s] = @ - 1]
    /\ Execute(s)
    /\ UNCHANGED <<clock, block, stage, recent, last, bounds, givenUp,
                   pushed, arrived, newest, late>>

-----------------------------------------------------------------------------
(* The worker is run again: a new subscription, and the same use case.     *)
(* Callbacks in progress go on.                                            *)
Resubscribe ==
    /\ Fault
    /\ recent' = {}
    /\ arrived' = [b \in 1..Len(Blocks) |-> -1]
    /\ UNCHANGED <<clock, block, balance, stage, last, limbo, replays, spent,
                   delegated, givenUp, pushed, newest, late>>

(* The process starts again: nothing is persisted.                         *)
Crash ==
    /\ Fault
    /\ stage' = [s \in Settlements |-> "idle"]
    /\ givenUp' = givenUp \cup {s \in Settlements : stage[s] # "idle"}
    /\ \E S \in SUBSET {s \in Settlements : stage[s] = "sent"} :
          limbo' = [s \in Settlements |-> IF s \in S THEN limbo[s] + 1 ELSE limbo[s]]
    /\ recent' = {} /\ last' = NoKey /\ newest' = 0
    /\ arrived' = [b \in 1..Len(Blocks) |-> -1]
    /\ UNCHANGED <<clock, block, balance, replays, spent, delegated, pushed, late>>

Next ==
    \/ Settle \/ Tick \/ Spend \/ Resubscribe \/ Crash
    \/ \E b \in 1..Len(Blocks) : Deliver(b)
    \/ \E s \in Settlements :
         BalanceAnswered(s) \/ Delegated(s) \/ DelegationFails(s) \/ LimboLands(s)

Spec == Init /\ [][Next]_vars

-----------------------------------------------------------------------------
(* A settlement is delegated once, and once more only for a push of its    *)
(* frame that came late: after its key was forgotten (its time passed, a   *)
(* new subscription, a restart), unless the key that is kept is of it, the *)
(* one reward of ours in the last frame that led to a delegation.  Replays *)
(* in between, rewards settled in one block, failed and late delegations   *)
(* and restarts add nothing.                                               *)
OnceUnlessLate ==
    \A b \in 1..Len(Blocks) : \A s \in Blocks[b] : delegated[s] <= 1 + late[b]

(* Until one is delegated twice, delegations never touch more than the     *)
(* rewards above the reserve: what was in the wallet before, and of every  *)
(* reward paid the reserve, stays, or went into fees.                      *)
Smaller(a, b) == IF a < b THEN a ELSE b
KeptOf ==
    [s \in Settlements |->
        IF Own(s) THEN Smaller(Paid[s], AtLeast0(Reserve)) ELSE Paid[s]]
ReserveKept ==
    (\A s \in Settlements : delegated[s] <= 1) =>
        balance + spent >=
            InitialBalance + SumFunctionOnSet(KeptOf, UNION {Blocks[b] : b \in 1..block})

(* Every reward of ours above the reserve whose frame arrived is delegated *)
(* unless a shortage, an error or a crash ended its callback: neither      *)
(* deduplication, nor another role's, topic's or block's events of the     *)
(* same amount lose it.                                                    *)
NoRewardDropped ==
    \A b \in pushed : \A s \in Blocks[b] :
        (Own(s) /\ Paid[s] > AtLeast0(Reserve) /\ stage[s] = "idle") =>
            delegated[s] >= 1 \/ s \in givenUp
=============================================================================
