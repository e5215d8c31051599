------------------------ MODULE RewardDelegationProofs -------------------------
(***************************************************************************)
(* For any blocks, settlements, times, fees, failures, restarts and frames *)
(* pushed again: only a late push of its frame has a settlement delegated  *)
(* once more, until then the reserve stays in the wallet, no reward is     *)
(* dropped, and the state keeps its types.                                 *)
(***************************************************************************)
EXTENDS RewardDelegation, FiniteSetTheorems, WellFoundedInduction, TLAPS

BlockIds == 1..Len(Blocks)

(* A settlement that was taken up: it was, is being or may be delegated.   *)
Started(s) == delegated[s] > 0 \/ limbo[s] > 0 \/ stage[s] # "idle"

(* At most one of ours is in the block.                                    *)
Single(b) == Cardinality({s \in Blocks[b] : Own(s)}) <= 1

-----------------------------------------------------------------------------
(* The inductive invariant.                                                *)

TimeInv ==
    /\ clock \in Nat /\ block \in 0..Len(Blocks) /\ pushed \subseteq 1..block
    /\ arrived \in [BlockIds -> Int]
    /\ newest \in 0..Len(Blocks)
    /\ stage \in [Settlements -> {"idle", "balance", "sent"}]
    /\ delegated \in [Settlements -> Nat]
    /\ limbo \in [Settlements -> Nat]
    /\ late \in [BlockIds -> Nat]

(* How often it was delegated, may still be, or is being, together, ...    *)
Going(s) == IF stage[s] = "idle" THEN 0 ELSE 1
Total(s) == delegated[s] + limbo[s] + Going(s)

(* ... is once, and once more for every late push.                         *)
OnceInv == \A b \in BlockIds : \A s \in Blocks[b] : Total(s) <= 1 + late[b]

(* What was taken up came with a frame.                                    *)
PushedInv == \A s \in Settlements : Started(s) => \E b \in pushed : s \in Blocks[b]

(* Within its time a frame is remembered whole, with the time it came.     *)
RecentInv ==
    /\ \A r \in recent : \E b \in BlockIds, s \in Settlements :
           r = <<EventKey(b, s), arrived[b]>> /\ arrived[b] >= 0
    /\ \A b \in BlockIds : WithinTtl(b) =>
           \A s \in Blocks[b] : MatchesTopic(Event[s], Topic)
               => <<EventKey(b, s), arrived[b]>> \in recent

(* Callbacks in progress are of the newest frame that led to any, ...      *)
ActiveInv ==
    \A s \in Settlements : stage[s] # "idle" =>
        newest \in BlockIds /\ s \in Blocks[newest] /\ Own(s)

(* ... and if only one reward in it is ours, the key that is kept is of    *)
(* it, unless it may be taken up once more.                                *)
LastInv ==
    \A s \in Settlements :
        newest \in BlockIds /\ s \in Blocks[newest] /\ Own(s) /\ Single(newest)
          /\ stage[s] = "idle"
            => last = AutoStakeKey(s) \/ Total(s) <= late[newest]

IInv == TimeInv /\ OnceInv /\ PushedInv /\ RecentInv /\ ActiveInv /\ LastInv

-----------------------------------------------------------------------------
(* Lemmas.                                                                 *)

(* Blocks are sets of settlements, and have none in common.                *)
LEMMA BlockSets ==
    /\ Len(Blocks) \in Nat
    /\ \A b \in BlockIds : Blocks[b] \subseteq Settlements
    /\ \A b, d \in BlockIds, s \in Settlements :
           s \in Blocks[b] /\ s \in Blocks[d] => b = d
<1>1. Blocks \in Seq(SUBSET Settlements) /\ DOMAIN Blocks = BlockIds
  BY RewardAssumption DEF BlockIds
<1>2. Len(Blocks) \in Nat /\ \A b \in BlockIds : Blocks[b] \subseteq Settlements
  BY <1>1 DEF BlockIds
<1>3. \A b, d \in BlockIds : b # d => Blocks[b] \cap Blocks[d] = {}
  BY <1>1, RewardAssumption
<1> QED BY <1>2, <1>3

(* There is only one reward of ours in a block that has at most one.       *)
LEMMA SingleMeansOne ==
    ASSUME NEW b \in BlockIds, Single(b), NEW s \in Blocks[b], Own(s),
           NEW t \in Blocks[b], Own(t)
    PROVE  s = t
<1> DEFINE S == {x \in Blocks[b] : Own(x)}
<1>1. IsFiniteSet(S)
  <2>1. IsFiniteSet(Settlements) /\ S \subseteq Settlements
    BY RewardAssumption, BlockSets
  <2> QED BY <2>1, FS_Subset
<1>2. s \in S /\ t \in S /\ Cardinality(S) <= 1
  BY DEF Single
<1> HIDE DEF S
<1>3. SUFFICES ASSUME s # t PROVE FALSE
  OBVIOUS
<1>4. Cardinality(S \ {s}) = Cardinality(S) - 1 /\ IsFiniteSet(S \ {s})
  BY <1>1, <1>2, FS_RemoveElement
<1>5. t \in S \ {s}
  BY <1>2, <1>3
<1>6. Cardinality(S \ {s}) # 0
  BY <1>4, <1>5, FS_EmptySet
<1>7. Cardinality(S) \in Nat /\ Cardinality(S \ {s}) \in Nat
  BY <1>1, <1>4, FS_CardinalityType
<1> QED BY <1>2, <1>4, <1>6, <1>7

(* What is decided on is addressed to us.                                  *)
LEMMA DecidedIsOwn == ASSUME NEW s \in Settlements, Decides(s) PROVE Own(s)
BY WireTruthful DEF Decides

-----------------------------------------------------------------------------
(* A frame.                                                                *)

(* A frame within its time is filtered whole.                              *)
LEMMA RememberedWhole ==
    ASSUME TimeInv, RecentInv, NEW b \in BlockIds, WithinTtl(b)
    PROVE  Unique(b) = {}
<1> SUFFICES ASSUME NEW s \in Blocks[b], MatchesTopic(Event[s], Topic)
             PROVE  \E r \in Remembered : r[1] = EventKey(b, s)
  BY DEF Unique
<1> DEFINE r == <<EventKey(b, s), arrived[b]>>
<1>1. r \in recent
  BY DEF RecentInv
<1>2. arrived[b] >= clock - Ttl
  BY RewardAssumption DEF WithinTtl, TimeInv
<1>3. r \in Remembered
  BY <1>1, <1>2 DEF Remembered
<1> QED BY <1>3

(* Past its time nothing of it is remembered.                              *)
LEMMA ForgottenWhole ==
    ASSUME TimeInv, RecentInv, NEW b \in BlockIds, ~WithinTtl(b), NEW r \in Remembered
    PROVE  \E d \in BlockIds, s \in Settlements :
               d # b /\ r = <<EventKey(d, s), arrived[d]>> /\ arrived[d] >= 0
<1>1. r \in recent /\ r[2] >= clock - Ttl
  BY DEF Remembered
<1>2. PICK d \in BlockIds, s \in Settlements :
          r = <<EventKey(d, s), arrived[d]>> /\ arrived[d] >= 0
  BY <1>1 DEF RecentInv
<1>3. arrived[d] >= clock - Ttl
  BY <1>1, <1>2
<1>4. d # b
  BY <1>2, <1>3, RewardAssumption DEF WithinTtl, TimeInv
<1> QED BY <1>2, <1>4

(* What a frame starts may be taken up once more, if it is not a late one: *)
(* it is a first frame, or, past the time, a replay of the newest, whose   *)
(* one reward has the key.                                                 *)
LEMMA StartsFresh ==
    ASSUME IInv, NEW b \in BlockIds, Deliver(b), b \notin pushed \/ Expected(b),
           NEW s \in Unique(b), Decides(s)
    PROVE  Total(s) <= late[b]
<1>1. s \in Blocks[b] /\ s \in Settlements /\ Own(s) /\ b \in 1..block
  BY BlockSets, DecidedIsOwn DEF Unique, Deliver, Push
<1>2. ~WithinTtl(b)
  BY RememberedWhole DEF IInv
<1>3. CASE b \notin pushed
  <2>1. ASSUME NEW d \in pushed, s \in Blocks[d] PROVE FALSE
    <3>1. d \in BlockIds
      BY DEF IInv, TimeInv, BlockIds
    <3> QED BY <1>1, <1>3, <2>1, <3>1, BlockSets
  <2>2. ~Started(s)
    BY <1>1, <2>1 DEF IInv, PushedInv
  <2>3. delegated[s] = 0 /\ limbo[s] = 0 /\ stage[s] = "idle" /\ late[b] \in Nat
    BY <1>1, <2>2 DEF Started, IInv, TimeInv
  <2> QED BY <2>3 DEF Total, Going
<1>4. CASE b \in pushed
  <2>1. b = newest /\ Single(b)
    BY <1>2, <1>4 DEF Expected, Single
  <2>2. stage[s] = "idle"
    BY <1>1 DEF Deliver, Idle
  <2>3. AutoStakeKey(s) # last
    BY DEF Decides
  <2> QED BY <1>1, <2>1, <2>2, <2>3 DEF IInv, LastInv
<1> QED BY <1>3, <1>4

(* A frame keeps the invariant.                                            *)
LEMMA DeliverKeeps ==
    ASSUME IInv, NEW b \in BlockIds, Deliver(b)
    PROVE  IInv'
<1>1. /\ Idle /\ b \in 1..block
      /\ pushed' = pushed \cup {b}
      /\ arrived' = [arrived EXCEPT ![b] = IF WithinTtl(b) THEN @ ELSE clock]
      /\ recent' = Remembered \cup {<<EventKey(b, s), clock>> : s \in Unique(b)}
      /\ stage' = [s \in Settlements |->
                      IF s \in Unique(b) /\ Decides(s) THEN "balance" ELSE "idle"]
      /\ newest' = IF \A s \in Settlements : stage'[s] = "idle" THEN newest ELSE b
      /\ late' = IF b \notin pushed \/ Expected(b) THEN late
                 ELSE [late EXCEPT ![b] = @ + 1]
      /\ UNCHANGED <<clock, block, last, limbo, delegated>>
  BY DEF Deliver, Push
<1>2. TimeInv'
  <2>1. b \in 1..block' /\ pushed' \subseteq 1..block'
    BY <1>1 DEF IInv, TimeInv
  <2>2. arrived' \in [BlockIds -> Int]
    BY <1>1 DEF IInv, TimeInv
  <2>3. newest' \in 0..Len(Blocks)
    BY <1>1, BlockSets DEF IInv, TimeInv, BlockIds
  <2>4. stage' \in [Settlements -> {"idle", "balance", "sent"}]
    BY <1>1
  <2>5. late' \in [BlockIds -> Nat]
    BY <1>1 DEF IInv, TimeInv
  <2> QED BY <1>1, <2>1, <2>2, <2>3, <2>4, <2>5 DEF IInv, TimeInv
<1>3. \A s \in Settlements :
          /\ stage[s] = "idle"
          /\ stage'[s] = IF s \in Unique(b) /\ Decides(s) THEN "balance" ELSE "idle"
          /\ stage'[s] # "idle" => s \in Blocks[b] /\ Own(s)
  BY <1>1, DecidedIsOwn DEF Idle, Unique
<1>4. OnceInv'
  <2> SUFFICES ASSUME NEW d \in BlockIds, NEW s \in Blocks[d]
               PROVE  Total(s)' <= 1 + late'[d]
    BY DEF OnceInv
  <2>1. /\ s \in Settlements /\ delegated[s] \in Nat /\ limbo[s] \in Nat
        /\ delegated[s] + limbo[s] <= 1 + late[d] /\ late[d] \in Nat
    BY <1>3, BlockSets DEF IInv, OnceInv, TimeInv, Total, Going
  <2>2. late'[d] >= late[d] /\ late'[d] \in Nat
    <3>1. late \in [BlockIds -> Nat]
      BY DEF IInv, TimeInv
    <3>2. late' = late \/ late' = [late EXCEPT ![b] = @ + 1]
      BY <1>1
    <3> QED BY <3>1, <3>2
  <2>3. CASE stage'[s] = "idle"
    BY <1>1, <2>1, <2>2, <2>3 DEF Total, Going
  <2>4. CASE stage'[s] # "idle"
    <3>1. d = b /\ s \in Unique(b) /\ Decides(s)
      BY <1>3, <2>1, <2>4, BlockSets
    <3>2. CASE b \notin pushed \/ Expected(b)
      <4>1. Total(s) <= late[d]
        BY <3>1, <3>2, StartsFresh
      <4>2. stage[s] = "idle"
        BY <1>3, <2>1
      <4> QED BY <1>1, <2>1, <2>2, <4>1, <4>2 DEF Total, Going
    <3>3. CASE ~(b \notin pushed \/ Expected(b))
      <4>1. late'[d] = late[d] + 1
        BY <1>1, <3>1, <3>3 DEF IInv, TimeInv
      <4> QED BY <1>1, <2>1, <4>1 DEF Total, Going
    <3> QED BY <3>2, <3>3
  <2> QED BY <2>3, <2>4
<1>5. PushedInv'
  BY <1>1, <1>3 DEF IInv, PushedInv, Started
<1>6. RecentInv'
  <2>1. CASE WithinTtl(b)
    <3>1. Unique(b) = {} /\ arrived' = arrived
      BY <1>1, <2>1, RememberedWhole DEF IInv, TimeInv
    <3>2. recent' = Remembered
      BY <1>1, <3>1
    <3>3. \A d \in BlockIds : WithinTtl(d)' = WithinTtl(d)
      BY <1>1, <3>1 DEF WithinTtl
    <3>4. ASSUME NEW d \in BlockIds, WithinTtl(d), NEW k, <<k, arrived[d]>> \in recent
          PROVE  <<k, arrived[d]>> \in Remembered
      <4>1. arrived[d] >= clock - Ttl
        BY <3>4, RewardAssumption DEF WithinTtl, IInv, TimeInv
      <4> QED BY <3>4, <4>1 DEF Remembered
    <3>5. \A r \in recent' : r \in recent
      BY <3>2 DEF Remembered
    <3>6. ASSUME NEW d \in BlockIds, WithinTtl(d)', NEW s \in Blocks[d],
                 MatchesTopic(Event[s], Topic)
          PROVE  <<EventKey(d, s), arrived'[d]>> \in recent'
      <4>1. <<EventKey(d, s), arrived[d]>> \in recent /\ WithinTtl(d)
        BY <3>3, <3>6 DEF IInv, RecentInv
      <4> QED BY <3>1, <3>2, <3>4, <4>1
    <3> QED BY <3>1, <3>5, <3>6 DEF IInv, RecentInv, EventKey, Event
  <2>2. CASE ~WithinTtl(b)
    <3>1. /\ arrived'[b] = clock
          /\ \A d \in BlockIds : d # b => arrived'[d] = arrived[d]
      BY <1>1, <2>2 DEF IInv, TimeInv
    <3>2. Unique(b) = {s \in Blocks[b] : MatchesTopic(Event[s], Topic)}
      <4> SUFFICES ASSUME NEW s \in Blocks[b], NEW r \in Remembered, r[1] = EventKey(b, s)
                   PROVE  FALSE
        BY DEF Unique
      <4>1. PICK d \in BlockIds, t \in Settlements :
                d # b /\ r = <<EventKey(d, t), arrived[d]>> /\ arrived[d] >= 0
        BY <2>2, ForgottenWhole DEF IInv
      <4> QED BY <4>1 DEF EventKey
    <3>3. ASSUME NEW r \in recent'
          PROVE  \E d \in BlockIds, s \in Settlements :
                     r = <<EventKey(d, s), arrived'[d]>> /\ arrived'[d] >= 0
      <4>1. CASE r \in Remembered
        BY <2>2, <3>1, <4>1, ForgottenWhole DEF IInv
      <4>2. CASE r \notin Remembered
        <5>1. PICK s \in Unique(b) : r = <<EventKey(b, s), clock>>
          BY <1>1, <4>2
        <5>2. s \in Settlements /\ clock >= 0
          BY BlockSets DEF Unique, IInv, TimeInv
        <5> QED BY <3>1, <5>1, <5>2
      <4> QED BY <4>1, <4>2
    <3>4. ASSUME NEW d \in BlockIds, WithinTtl(d)', NEW s \in Blocks[d],
                 MatchesTopic(Event[s], Topic)
          PROVE  <<EventKey(d, s), arrived'[d]>> \in recent'
      <4>1. CASE d = b
        <5>1. s \in Unique(b)
          BY <3>2, <3>4, <4>1
        <5>2. <<EventKey(b, s), clock>> \in recent'
          BY <1>1, <5>1
        <5> QED BY <3>1, <4>1, <5>2
      <4>2. CASE d # b
        <5>1. WithinTtl(d) /\ arrived'[d] = arrived[d]
          BY <1>1, <3>1, <3>4, <4>2 DEF WithinTtl
        <5>2. <<EventKey(d, s), arrived[d]>> \in recent /\ arrived[d] >= clock - Ttl
          <6>1. <<EventKey(d, s), arrived[d]>> \in recent
            BY <3>4, <5>1 DEF IInv, RecentInv
          <6>2. arrived[d] \in Int /\ clock \in Int /\ Ttl \in Int /\ clock - arrived[d] <= Ttl
            BY <5>1, RewardAssumption DEF IInv, WithinTtl, TimeInv
          <6> QED BY <6>1, <6>2
        <5>3. <<EventKey(d, s), arrived[d]>> \in Remembered
          BY <5>2 DEF Remembered
        <5> QED BY <1>1, <5>1, <5>3
      <4> QED BY <4>1, <4>2
    <3> QED BY <3>3, <3>4 DEF RecentInv, EventKey, Event
  <2> QED BY <2>1, <2>2
<1>7. ActiveInv'
  BY <1>1, <1>3 DEF ActiveInv
<1>8. LastInv'
  <2> SUFFICES ASSUME NEW s \in Settlements, newest' \in BlockIds, s \in Blocks[newest'],
                      Own(s), Single(newest'), stage'[s] = "idle"
               PROVE  last = AutoStakeKey(s) \/ Total(s)' <= late'[newest']
    BY <1>1 DEF LastInv, AutoStakeKey, Event, Reward, Own, Single
  <2>1. CASE newest' = newest
    <3>1. last = AutoStakeKey(s) \/ Total(s) <= late[newest]
      BY <1>3, <2>1 DEF IInv, LastInv
    <3>2. late[newest] <= late'[newest] /\ late[newest] \in Nat /\ late'[newest] \in Nat
      BY <1>1, <2>1 DEF IInv, TimeInv
    <3>3. Total(s)' = Total(s) /\ Total(s) \in Nat
      BY <1>1, <1>3 DEF Total, Going, IInv, TimeInv
    <3> QED BY <2>1, <3>1, <3>2, <3>3
  <2>2. CASE newest' # newest
    <3>1. newest' = b
      BY <1>1, <2>2
    <3>2. PICK t \in Settlements : stage'[t] # "idle"
      BY <1>1, <2>2
    <3>3. t \in Blocks[b] /\ Own(t)
      BY <1>3, <3>2
    <3>4. s = t
      BY <3>1, <3>3, SingleMeansOne
    <3> QED BY <3>2, <3>4
  <2> QED BY <2>1, <2>2
<1> QED BY <1>2, <1>4, <1>5, <1>6, <1>7, <1>8 DEF IInv

-----------------------------------------------------------------------------
(* The other steps.                                                        *)

(* What is remembered does not change, and what is too old stays so.       *)
LEMMA RecentKeeps ==
    ASSUME IInv, UNCHANGED <<recent, arrived>>, clock' \in Nat, clock' >= clock
    PROVE  RecentInv'
<1>1. \A b \in BlockIds : WithinTtl(b)' => WithinTtl(b)
  BY RewardAssumption DEF WithinTtl, IInv, TimeInv
<1> QED BY <1>1 DEF IInv, RecentInv, EventKey, Event

(* A new subscription remembers nothing, and no frame is in its time.      *)
LEMMA RecentForgotten ==
    ASSUME recent' = {}, arrived' = [b \in BlockIds |-> -1]
    PROVE  RecentInv'
<1>1. \A b \in BlockIds : ~WithinTtl(b)'
  BY DEF WithinTtl
<1> QED BY <1>1 DEF RecentInv

(* Steps that concern neither frames nor callbacks.                        *)
LEMMA OutsideKeeps ==
    ASSUME IInv, UNCHANGED <<stage, last, limbo, delegated, pushed, newest, late>>,
           TimeInv', RecentInv'
    PROVE  IInv'
<1>1. OnceInv' /\ PushedInv'
  BY DEF IInv, OnceInv, PushedInv, Started, Total, Going
<1>2. ActiveInv' /\ LastInv'
  BY DEF IInv, ActiveInv, LastInv, Total, Going, Own, Single, AutoStakeKey, Event, Reward
<1> QED BY <1>1, <1>2 DEF IInv

(* The chain, the clock, fees, and a new subscription.                     *)
LEMMA SurroundingsKeep ==
    ASSUME IInv, Settle \/ Tick \/ Spend \/ Resubscribe
    PROVE  IInv'
<1>1. UNCHANGED <<stage, last, limbo, delegated, pushed, newest, late>>
  BY DEF Settle, Tick, Spend, Resubscribe, history
<1>2. /\ clock' \in Nat /\ clock' >= clock
      /\ block' \in 0..Len(Blocks) /\ pushed' \subseteq 1..block'
  <2>1. CASE Settle
    BY <2>1, BlockSets DEF Settle, history, IInv, TimeInv
  <2>2. CASE Tick
    BY <2>2 DEF Tick, history, IInv, TimeInv
  <2>3. CASE Spend
    BY <2>3 DEF Spend, history, IInv, TimeInv
  <2>4. CASE Resubscribe
    BY <2>4 DEF Resubscribe, IInv, TimeInv
  <2> QED BY <2>1, <2>2, <2>3, <2>4
<1>3. CASE Settle \/ Tick \/ Spend
  <2>1. UNCHANGED <<recent, arrived>>
    BY <1>3 DEF Settle, Tick, Spend, history
  <2> QED BY <1>1, <1>2, <2>1, RecentKeeps, OutsideKeeps DEF IInv, TimeInv
<1>4. CASE Resubscribe
  <2>1. recent' = {} /\ arrived' = [b \in BlockIds |-> -1]
    BY <1>4 DEF Resubscribe, BlockIds
  <2>2. TimeInv'
    BY <1>1, <1>2, <2>1 DEF IInv, TimeInv
  <2> QED BY <1>1, <2>1, <2>2, RecentForgotten, OutsideKeeps
<1> QED BY <1>3, <1>4

(* The callback for s moves on; it stays started, or ends with its key.    *)
LEMMA CallbackKeeps ==
    ASSUME IInv, NEW s \in Settlements, stage[s] # "idle",
           NEW to \in {"idle", "balance", "sent"}, stage' = [stage EXCEPT ![s] = to],
           UNCHANGED <<clock, block, recent, pushed, arrived, newest, late>>,
           delegated' \in [Settlements -> Nat], limbo' \in [Settlements -> Nat],
           \A t \in Settlements \ {s} :
               delegated'[t] = delegated[t] /\ limbo'[t] = limbo[t],
           \/ last' = last /\ delegated' = delegated /\ limbo' = limbo
           \/ /\ to = "idle" /\ last' = AutoStakeKey(s)
              /\ delegated'[s] + limbo'[s] <= delegated[s] + limbo[s] + 1
    PROVE  IInv'
<1>1. TimeInv'
  BY DEF IInv, TimeInv
<1>2. RecentInv'
  <2>1. clock' \in Nat /\ clock' >= clock
    BY DEF IInv, TimeInv
  <2>2. UNCHANGED <<recent, arrived>>
    OBVIOUS
  <2> QED BY <2>1, <2>2, RecentKeeps
<1>3. stage'[s] = to /\ \A t \in Settlements \ {s} : stage'[t] = stage[t]
  BY DEF IInv, TimeInv
<1>4. Started(s)
  BY DEF Started
<1>5. \A t \in Settlements \ {s} : Started(t)' <=> Started(t)
  BY <1>3 DEF Started
<1>6. /\ \A t \in Settlements \ {s} : Total(t)' = Total(t)
      /\ Total(s)' <= Total(s) /\ Total(s) \in Nat /\ Total(s)' \in Nat
  <2>1. \A t \in Settlements \ {s} : Total(t)' = Total(t)
    BY <1>3 DEF Total, Going
  <2>2. /\ delegated[s] \in Nat /\ limbo[s] \in Nat /\ delegated'[s] \in Nat /\ limbo'[s] \in Nat
        /\ Going(s) = 1 /\ Going(s)' = IF to = "idle" THEN 0 ELSE 1
    BY <1>3 DEF IInv, TimeInv, Going
  <2> QED BY <2>1, <2>2 DEF Total
<1>7. OnceInv'
  <2> SUFFICES ASSUME NEW b \in BlockIds, NEW t \in Blocks[b] PROVE Total(t)' <= 1 + late[b]
    BY DEF OnceInv
  <2>1. Total(t) <= 1 + late[b] /\ late[b] \in Nat /\ t \in Settlements
    BY BlockSets DEF IInv, OnceInv, TimeInv
  <2> QED BY <1>6, <2>1
<1>8. PushedInv'
  BY <1>4, <1>5 DEF IInv, PushedInv
<1>9. newest \in BlockIds /\ s \in Blocks[newest] /\ Own(s)
  BY DEF IInv, ActiveInv
<1>10. ActiveInv'
  BY <1>3, <1>9 DEF IInv, ActiveInv, Own
<1>11. LastInv'
  <2> SUFFICES ASSUME NEW t \in Settlements, t \in Blocks[newest], Own(t), Single(newest),
                      stage'[t] = "idle"
               PROVE  last' = AutoStakeKey(t) \/ Total(t)' <= late[newest]
    BY DEF LastInv, AutoStakeKey, Event, Reward, Own, Single
  <2>1. t = s
    BY <1>9, SingleMeansOne
  <2>2. CASE last' = AutoStakeKey(s)
    BY <2>1, <2>2
  <2>3. CASE UNCHANGED <<delegated, limbo>>
    <3>1. Total(s) <= 1 + late[newest] /\ late[newest] \in Nat
      BY <1>9 DEF IInv, OnceInv, TimeInv
    <3>2. Going(s) = 1 /\ Going(s)' = 0
      BY <2>1 DEF Going
    <3>3. delegated[s] \in Nat /\ limbo[s] \in Nat
      BY DEF IInv, TimeInv
    <3> QED BY <2>1, <2>3, <3>1, <3>2, <3>3 DEF Total
  <2> QED BY <2>2, <2>3
<1> QED BY <1>1, <1>2, <1>7, <1>8, <1>10, <1>11 DEF IInv

(* The balance is answered.                                                *)
LEMMA BalanceKeeps ==
    ASSUME IInv, NEW s \in Settlements, BalanceAnswered(s)
    PROVE  IInv'
<1>1. PICK to \in {"idle", "sent"} : stage' = [stage EXCEPT ![s] = to]
  BY DEF BalanceAnswered
<1>2. /\ stage[s] # "idle"
      /\ UNCHANGED <<clock, block, recent, last, limbo, delegated, pushed, arrived, newest, late>>
  BY DEF BalanceAnswered
<1>3. delegated' \in [Settlements -> Nat] /\ limbo' \in [Settlements -> Nat]
  BY <1>2 DEF IInv, TimeInv
<1> QED BY <1>1, <1>2, <1>3, CallbackKeeps

(* A delegation executes, or cannot be paid for.                           *)
LEMMA DelegatedKeeps ==
    ASSUME IInv, NEW s \in Settlements, Delegated(s)
    PROVE  IInv'
<1>1. /\ stage[s] # "idle" /\ stage' = [stage EXCEPT ![s] = "idle"]
      /\ last' = AutoStakeKey(s)
      /\ UNCHANGED <<clock, block, recent, limbo, pushed, arrived, newest, late>>
      /\ delegated' = delegated \/ delegated' = [delegated EXCEPT ![s] = @ + 1]
  BY DEF Delegated, Returns, Execute
<1>2. delegated \in [Settlements -> Nat] /\ limbo \in [Settlements -> Nat]
  BY DEF IInv, TimeInv
<1>3. /\ delegated' \in [Settlements -> Nat] /\ limbo' \in [Settlements -> Nat]
      /\ \A t \in Settlements \ {s} : delegated'[t] = delegated[t] /\ limbo'[t] = limbo[t]
      /\ delegated'[s] + limbo'[s] <= delegated[s] + limbo[s] + 1
  BY <1>1, <1>2
<1> QED BY <1>1, <1>3, CallbackKeeps

(* A delegation fails, and may still land.                                 *)
LEMMA FailsKeeps ==
    ASSUME IInv, NEW s \in Settlements, DelegationFails(s)
    PROVE  IInv'
<1>1. /\ stage[s] # "idle" /\ stage' = [stage EXCEPT ![s] = "idle"]
      /\ last' = AutoStakeKey(s) /\ limbo' \in {limbo, [limbo EXCEPT ![s] = @ + 1]}
      /\ UNCHANGED <<clock, block, recent, delegated, pushed, arrived, newest, late>>
  BY DEF DelegationFails, Returns
<1>2. delegated \in [Settlements -> Nat] /\ limbo \in [Settlements -> Nat]
  BY DEF IInv, TimeInv
<1>3. /\ delegated' \in [Settlements -> Nat] /\ limbo' \in [Settlements -> Nat]
      /\ \A t \in Settlements \ {s} : delegated'[t] = delegated[t] /\ limbo'[t] = limbo[t]
      /\ delegated'[s] + limbo'[s] <= delegated[s] + limbo[s] + 1
  BY <1>1, <1>2
<1> QED BY <1>1, <1>3, CallbackKeeps

(* An abandoned delegation lands: each of them once.                       *)
LEMMA LandsKeeps ==
    ASSUME IInv, NEW s \in Settlements, LimboLands(s)
    PROVE  IInv'
<1>1. /\ limbo[s] > 0 /\ limbo' = [limbo EXCEPT ![s] = @ - 1]
      /\ delegated' = [delegated EXCEPT ![s] = @ + 1]
      /\ UNCHANGED <<clock, block, stage, recent, last, pushed, arrived, newest, late>>
  BY DEF LimboLands, Execute
<1>2. delegated \in [Settlements -> Nat] /\ limbo \in [Settlements -> Nat]
  BY DEF IInv, TimeInv
<1>3. /\ delegated' \in [Settlements -> Nat] /\ limbo' \in [Settlements -> Nat]
      /\ \A t \in Settlements \ {s} : delegated'[t] = delegated[t] /\ limbo'[t] = limbo[t]
      /\ delegated'[s] = delegated[s] + 1 /\ limbo'[s] = limbo[s] - 1
  BY <1>1, <1>2
<1>4. TimeInv'
  BY <1>1, <1>3 DEF IInv, TimeInv
<1>5. RecentInv'
  BY <1>1, RecentKeeps DEF IInv, TimeInv
<1>6. \A t \in Settlements : Total(t)' = Total(t)
  <2> SUFFICES ASSUME NEW t \in Settlements PROVE Total(t)' = Total(t)
    OBVIOUS
  <2>1. Going(t)' = Going(t) /\ Going(t) \in Nat
    BY <1>1 DEF Going
  <2>2. delegated[t] \in Nat /\ limbo[t] \in Nat
    BY <1>2
  <2>3. delegated'[t] + limbo'[t] = delegated[t] + limbo[t]
    BY <1>3, <2>2
  <2> QED BY <2>1, <2>3 DEF Total
<1>7. OnceInv'
  BY <1>1, <1>6, BlockSets DEF IInv, OnceInv
<1>8. \A t \in Settlements : Started(t)' => Started(t)
  BY <1>1, <1>3 DEF Started
<1>9. PushedInv' /\ ActiveInv'
  BY <1>1, <1>8 DEF IInv, PushedInv, ActiveInv, Own
<1>10. LastInv'
  BY <1>1, <1>6 DEF IInv, LastInv, Own, Single, AutoStakeKey, Event, Reward
<1> QED BY <1>4, <1>5, <1>7, <1>9, <1>10 DEF IInv

(* A crash forgets all: what was sent may still land, the rest is gone.    *)
LEMMA CrashKeeps ==
    ASSUME IInv, Crash
    PROVE  IInv'
<1>1. PICK S \in SUBSET {s \in Settlements : stage[s] = "sent"} :
          limbo' = [s \in Settlements |-> IF s \in S THEN limbo[s] + 1 ELSE limbo[s]]
  BY DEF Crash
<1>2. /\ stage' = [s \in Settlements |-> "idle"] /\ recent' = {} /\ newest' = 0
      /\ arrived' = [b \in BlockIds |-> -1]
      /\ UNCHANGED <<clock, block, delegated, pushed, late>>
  BY DEF Crash, BlockIds
<1>3. TimeInv'
  <2>1. limbo' \in [Settlements -> Nat]
    BY <1>1 DEF IInv, TimeInv
  <2> QED BY <1>2, <2>1, BlockSets DEF IInv, TimeInv
<1>4. RecentInv'
  BY <1>2, RecentForgotten
<1>5. \A s \in Settlements : Total(s)' <= Total(s) /\ Total(s) \in Nat /\ Total(s)' \in Nat
  <2> SUFFICES ASSUME NEW s \in Settlements
               PROVE  Total(s)' <= Total(s) /\ Total(s) \in Nat /\ Total(s)' \in Nat
    OBVIOUS
  <2>1. delegated[s] \in Nat /\ limbo[s] \in Nat
    BY DEF IInv, TimeInv
  <2>2. limbo'[s] + Going(s)' <= limbo[s] + Going(s) /\ limbo'[s] \in Nat
        /\ Going(s) \in Nat /\ Going(s)' = 0
    BY <1>1, <1>2, <2>1 DEF Going
  <2> QED BY <1>2, <2>1, <2>2 DEF Total
<1>6. OnceInv'
  <2> SUFFICES ASSUME NEW b \in BlockIds, NEW s \in Blocks[b] PROVE Total(s)' <= 1 + late[b]
    BY <1>2 DEF OnceInv
  <2>1. Total(s) <= 1 + late[b] /\ late[b] \in Nat /\ s \in Settlements
    BY BlockSets DEF IInv, OnceInv, TimeInv
  <2> QED BY <1>5, <2>1
<1>7. PushedInv'
  <2>1. \A s \in Settlements : Started(s)' => Started(s)
    BY <1>1, <1>2 DEF Started
  <2> QED BY <1>2, <2>1 DEF IInv, PushedInv
<1>8. ActiveInv' /\ LastInv'
  BY <1>2 DEF ActiveInv, LastInv, BlockIds
<1> QED BY <1>3, <1>4, <1>6, <1>7, <1>8 DEF IInv

-----------------------------------------------------------------------------
(* The theorem.                                                            *)

(* Nothing has been taken up at the start.                                 *)
LEMMA InitIInv == ASSUME Init PROVE IInv
<1>1. TimeInv
  BY BlockSets DEF Init, TimeInv, BlockIds
<1>2. PushedInv /\ ActiveInv
  BY DEF Init, PushedInv, ActiveInv, Started
<1>5. OnceInv
  <2> SUFFICES ASSUME NEW b \in BlockIds, NEW s \in Blocks[b] PROVE Total(s) <= 1 + late[b]
    BY DEF OnceInv
  <2>1. s \in Settlements
    BY BlockSets
  <2>2. delegated[s] = 0 /\ limbo[s] = 0 /\ stage[s] = "idle" /\ late[b] = 0
    BY <2>1 DEF Init, BlockIds
  <2> QED BY <2>2 DEF Total, Going
<1>3. RecentInv
  BY DEF Init, RecentInv, WithinTtl, BlockIds
<1>4. LastInv
  BY DEF Init, LastInv, BlockIds
<1> QED BY <1>1, <1>2, <1>3, <1>4, <1>5 DEF IInv

(* Every step preserves the invariant.                                     *)
LEMMA NextKeeps == ASSUME IInv, [Next]_vars PROVE IInv'
<1>1. CASE Settle \/ Tick \/ Spend \/ Resubscribe
  BY <1>1, SurroundingsKeep
<1>2. CASE Crash
  BY <1>2, CrashKeeps
<1>3. ASSUME NEW b \in 1..Len(Blocks), Deliver(b) PROVE IInv'
  BY <1>3, DeliverKeeps DEF BlockIds
<1>4. ASSUME NEW s \in Settlements,
             BalanceAnswered(s) \/ Delegated(s) \/ DelegationFails(s) \/ LimboLands(s)
      PROVE  IInv'
  BY <1>4, BalanceKeeps, DelegatedKeeps, FailsKeeps, LandsKeeps
<1>5. CASE UNCHANGED vars
  <2>1. UNCHANGED <<clock, block, stage, recent, last, limbo, delegated, pushed, arrived,
                    newest, late>>
    BY <1>5 DEF vars, history
  <2>2. TimeInv'
    BY <2>1 DEF IInv, TimeInv
  <2>3. RecentInv'
    BY <2>1, RecentKeeps DEF IInv, TimeInv
  <2> QED BY <2>1, <2>2, <2>3, OutsideKeeps
<1> QED BY <1>1, <1>2, <1>3, <1>4, <1>5 DEF Next

(* A settlement is delegated once, and once more only for each late push   *)
(* of its frame ("avoid double delegation", autostake.py), however many    *)
(* rewards a block pays, and whatever fails, lands late, starts again or   *)
(* is pushed again in the meantime.                                        *)
THEOREM DelegatedOnce == Spec => []OnceUnlessLate
<1>1. Init => IInv
  BY InitIInv
<1>2. IInv /\ [Next]_vars => IInv'
  BY NextKeeps
<1>3. IInv => OnceUnlessLate
  <2> SUFFICES ASSUME IInv, NEW b \in BlockIds, NEW s \in Blocks[b]
               PROVE  delegated[s] <= 1 + late[b]
    BY DEF OnceUnlessLate, BlockIds
  <2>1. /\ Total(s) <= 1 + late[b] /\ s \in Settlements
        /\ delegated[s] \in Nat /\ limbo[s] \in Nat /\ late[b] \in Nat
    BY BlockSets DEF IInv, OnceInv, TimeInv
  <2>2. Going(s) \in Nat
    BY DEF Going
  <2> QED BY <2>1, <2>2 DEF Total
<1> QED BY <1>1, <1>2, <1>3, PTL DEF Spec

-----------------------------------------------------------------------------
(* Sums over finite sets.                                                  *)

(* A nonempty set of naturals has a least element.                         *)
LEMMA LeastExists ==
    ASSUME NEW S \in SUBSET Nat, S # {}
    PROVE  \E x \in S : \A y \in S : x <= y
<1>1. PICK x \in S : \A y \in S : ~(<<y, x>> \in OpToRel(<, Nat))
  BY NatLessThanWellFounded, WFMin, Zenon
<1>2. ASSUME NEW y \in S PROVE x <= y
  <2>1. x \in Nat /\ y \in Nat
    OBVIOUS
  <2>2. y < x => <<y, x>> \in OpToRel(<, Nat)
    BY <2>1, Zenon DEF OpToRel
  <2>3. ~(y < x)
    BY <1>1, <2>2, Zenon
  <2> QED BY <2>1, <2>3
<1> QED BY <1>2

(* What holds of a set whenever it holds of its proper subsets holds of    *)
(* every subset of a finite set.                                           *)
LEMMA SubsetInduction ==
    ASSUME NEW D, IsFiniteSet(D), NEW P,
           \A T \in SUBSET D : (\A U \in SUBSET T : U # T => U \in P) => T \in P
    PROVE  \A T \in SUBSET D : T \in P
<1> SUFFICES ASSUME NEW B \in SUBSET D, B \notin P PROVE FALSE
  OBVIOUS
<1> DEFINE Bad == {T \in SUBSET D : T \notin P}
           N   == {Cardinality(T) : T \in Bad}
<1>1. \A T \in Bad : IsFiniteSet(T) /\ Cardinality(T) \in Nat
  BY FS_Subset, FS_CardinalityType
<1>2. N \in SUBSET Nat /\ N # {}
  BY <1>1
<1>3. PICK n \in N : \A m \in N : n <= m
  BY <1>2, LeastExists
<1>4. PICK T \in Bad : n = Cardinality(T)
  OBVIOUS
<1>5. ASSUME NEW U \in SUBSET T, U # T PROVE U \in P
  <2>1. IsFiniteSet(T) /\ IsFiniteSet(U) /\ Cardinality(U) <= Cardinality(T)
        /\ (Cardinality(T) = Cardinality(U) => T = U)
    BY <1>1, FS_Subset
  <2>2. Cardinality(U) \in Nat /\ Cardinality(T) \in Nat
    BY <2>1, FS_CardinalityType
  <2>3. CASE U \in Bad
    <3>1. n <= Cardinality(U)
      BY <1>3, <2>3
    <3> QED BY <1>4, <1>5, <2>1, <2>2, <3>1
  <2> QED BY <2>3
<1> QED BY <1>4, <1>5

Chosen(T) == CHOOSE x \in T : TRUE

(* The partial sums over the subsets of S.                                 *)
SumsTo(g, f, S) ==
    g = [T \in SUBSET S |-> IF T = {} THEN 0 ELSE f[Chosen(T)] + g[T \ {Chosen(T)}]]

(* They do not depend on S.                                                *)
LEMMA SumsUnique ==
    ASSUME NEW D, IsFiniteSet(D), NEW f, NEW S \in SUBSET D, NEW R \in SUBSET D,
           NEW g, SumsTo(g, f, S), NEW h, SumsTo(h, f, R)
    PROVE  \A T \in SUBSET D : T \subseteq S /\ T \subseteq R => g[T] = h[T]
<1> DEFINE P == {T \in SUBSET D : T \subseteq S /\ T \subseteq R => g[T] = h[T]}
<1>1. ASSUME NEW T \in SUBSET D, \A U \in SUBSET T : U # T => U \in P
      PROVE  T \in P
  <2> SUFFICES ASSUME T \subseteq S, T \subseteq R PROVE g[T] = h[T]
    OBVIOUS
  <2> DEFINE p == Chosen(T)
  <2>1. /\ g[T] = IF T = {} THEN 0 ELSE f[p] + g[T \ {p}]
        /\ h[T] = IF T = {} THEN 0 ELSE f[p] + h[T \ {p}]
    BY DEF SumsTo
  <2>2. CASE T = {}
    BY <2>1, <2>2
  <2>3. CASE T # {}
    <3>1. p \in T
      BY <2>3 DEF Chosen
    <3> HIDE DEF p
    <3>2. T \ {p} \in SUBSET T /\ T \ {p} # T
      BY <3>1
    <3>3. g[T \ {p}] = h[T \ {p}]
      BY <1>1, <3>2
    <3> QED BY <2>1, <2>3, <3>3
  <2> QED BY <2>2, <2>3
<1> HIDE DEF P
<1>2. \A T \in SUBSET D : T \in P
  BY <1>1, SubsetInduction
<1> QED BY <1>2 DEF P

(* They exist.                                                             *)
LEMMA SumsExist ==
    ASSUME NEW D, IsFiniteSet(D), NEW f
    PROVE  \A S \in SUBSET D : \E g : SumsTo(g, f, S)
<1> DEFINE P == {S \in SUBSET D : \E g : SumsTo(g, f, S)}
           sums(S) == CHOOSE g : SumsTo(g, f, S)
<1>1. ASSUME NEW S \in SUBSET D, \A U \in SUBSET S : U # S => U \in P
      PROVE  S \in P
  <2> DEFINE v(T) == IF T = {} THEN 0
                     ELSE f[Chosen(T)] + sums(T \ {Chosen(T)})[T \ {Chosen(T)}]
             g    == [T \in SUBSET S |-> v(T)]
  <2>1. ASSUME NEW U \in SUBSET S, U # S PROVE v(U) = sums(U)[U]
    <3> DEFINE p == Chosen(U)
    <3>1. SumsTo(sums(U), f, U)
      BY <1>1, <2>1
    <3> HIDE DEF sums
    <3>2. sums(U)[U] = IF U = {} THEN 0 ELSE f[p] + sums(U)[U \ {p}]
      BY <3>1 DEF SumsTo
    <3>3. CASE U = {}
      BY <3>2, <3>3
    <3>4. CASE U # {}
      <4>1. p \in U
        BY <3>4 DEF Chosen
      <4> HIDE DEF p
      <4>2. U \ {p} \in SUBSET S /\ U \ {p} # S /\ U \in SUBSET D /\ U \ {p} \in SUBSET D
        BY <2>1, <4>1
      <4>3. SumsTo(sums(U \ {p}), f, U \ {p})
        <5>1. \E h : SumsTo(h, f, U \ {p})
          BY <1>1, <4>2
        <5> QED BY <5>1 DEF sums
      <4>4. sums(U)[U \ {p}] = sums(U \ {p})[U \ {p}]
        BY <3>1, <4>2, <4>3, SumsUnique
      <4> QED BY <3>2, <3>4, <4>4 DEF p
    <3> QED BY <3>3, <3>4
  <2> HIDE DEF sums
  <2>2. ASSUME NEW T \in SUBSET S
        PROVE  v(T) = IF T = {} THEN 0 ELSE f[Chosen(T)] + g[T \ {Chosen(T)}]
    <3>1. CASE T = {}
      BY <3>1
    <3>2. CASE T # {}
      <4> DEFINE p == Chosen(T)
      <4>1. p \in T
        BY <3>2 DEF Chosen
      <4>2. v(T) = f[p] + sums(T \ {p})[T \ {p}]
        BY <3>2
      <4> HIDE DEF p, v
      <4>3. T \ {p} \in SUBSET S /\ T \ {p} # S
        BY <4>1
      <4>4. g[T \ {p}] = sums(T \ {p})[T \ {p}]
        BY <2>1, <4>3
      <4> QED BY <3>2, <4>2, <4>4 DEF p
    <3> QED BY <3>1, <3>2
  <2>3. g = [T \in SUBSET S |-> IF T = {} THEN 0 ELSE f[Chosen(T)] + g[T \ {Chosen(T)}]]
    <3> DEFINE w(T) == IF T = {} THEN 0 ELSE f[Chosen(T)] + g[T \ {Chosen(T)}]
    <3>1. \A T \in SUBSET S : v(T) = w(T)
      BY <2>2
    <3> HIDE DEF v, w
    <3>2. [T \in SUBSET S |-> v(T)] = [T \in SUBSET S |-> w(T)]
      BY <3>1
    <3>3. g = [T \in SUBSET S |-> w(T)]
      BY <3>2
    <3> HIDE DEF g
    <3> QED BY <3>3 DEF w
  <2> HIDE DEF g
  <2>4. SumsTo(g, f, S)
    BY <2>3 DEF SumsTo
  <2> QED BY <2>4
<1> HIDE DEF P
<1>2. \A S \in SUBSET D : S \in P
  BY <1>1, SubsetInduction
<1> QED BY <1>2 DEF P

(* A sum, one element taken out.                                           *)
LEMMA SumOne ==
    ASSUME NEW D, IsFiniteSet(D), NEW f, NEW S \in SUBSET D
    PROVE  SumFunctionOnSet(f, S) =
               IF S = {} THEN 0
               ELSE f[Chosen(S)] + SumFunctionOnSet(f, S \ {Chosen(S)})
<1> DEFINE sums(T) == CHOOSE g : SumsTo(g, f, T)
<1>1. ASSUME NEW T PROVE SumFunctionOnSet(f, T) = sums(T)[T]
  BY DEF SumFunctionOnSet, FoldFunctionOnSet, MapThenFoldSet, Chosen, SumsTo
<1>2. ASSUME NEW T \in SUBSET D PROVE SumsTo(sums(T), f, T)
  BY SumsExist
<1> HIDE DEF sums
<1> DEFINE p == Chosen(S)
<1>3. sums(S)[S] = IF S = {} THEN 0 ELSE f[p] + sums(S)[S \ {p}]
  BY <1>2 DEF SumsTo
<1>4. CASE S = {}
  BY <1>1, <1>3, <1>4
<1>5. CASE S # {}
  <2>1. S \ {p} \in SUBSET D /\ S \ {p} \subseteq S
    OBVIOUS
  <2> HIDE DEF p
  <2>2. sums(S)[S \ {p}] = sums(S \ {p})[S \ {p}]
    BY <1>2, <2>1, SumsUnique
  <2> QED BY <1>1, <1>3, <1>5, <2>2 DEF p
<1> QED BY <1>4, <1>5

(* A sum of integers is one, ...                                           *)
LEMMA SumInt ==
    ASSUME NEW D, IsFiniteSet(D), NEW f \in [D -> Int]
    PROVE  \A T \in SUBSET D : SumFunctionOnSet(f, T) \in Int
<1> DEFINE P == {T \in SUBSET D : SumFunctionOnSet(f, T) \in Int}
<1>1. ASSUME NEW T \in SUBSET D, \A U \in SUBSET T : U # T => U \in P
      PROVE  T \in P
  <2> DEFINE p == Chosen(T)
  <2>1. SumFunctionOnSet(f, T) = IF T = {} THEN 0 ELSE f[p] + SumFunctionOnSet(f, T \ {p})
    BY SumOne
  <2>2. CASE T = {}
    BY <2>1, <2>2
  <2>3. CASE T # {}
    <3>1. p \in T
      BY <2>3 DEF Chosen
    <3> HIDE DEF p
    <3>2. T \ {p} \in P
      BY <1>1, <3>1
    <3>3. f[p] \in Int
      BY <3>1
    <3> QED BY <2>1, <2>3, <3>2, <3>3
  <2> QED BY <2>2, <2>3
<1> HIDE DEF P
<1>2. \A T \in SUBSET D : T \in P
  BY <1>1, SubsetInduction
<1> QED BY <1>2 DEF P

(* ... and any of the elements can be taken out.                           *)
LEMMA SumTake ==
    ASSUME NEW D, IsFiniteSet(D), NEW f \in [D -> Int]
    PROVE  \A T \in SUBSET D : \A x \in T :
               SumFunctionOnSet(f, T) = f[x] + SumFunctionOnSet(f, T \ {x})
<1> DEFINE P == {T \in SUBSET D : \A x \in T :
                     SumFunctionOnSet(f, T) = f[x] + SumFunctionOnSet(f, T \ {x})}
<1>1. ASSUME NEW T \in SUBSET D, \A U \in SUBSET T : U # T => U \in P
      PROVE  T \in P
  <2> SUFFICES ASSUME NEW x \in T
               PROVE  SumFunctionOnSet(f, T) = f[x] + SumFunctionOnSet(f, T \ {x})
    OBVIOUS
  <2> DEFINE p == Chosen(T)
  <2>1. p \in T
    BY DEF Chosen
  <2>2. SumFunctionOnSet(f, T) = f[p] + SumFunctionOnSet(f, T \ {p})
    BY SumOne
  <2> HIDE DEF p
  <2>3. CASE x = p
    BY <2>2, <2>3
  <2>4. CASE x # p
    <3>1. SumFunctionOnSet(f, T \ {p}) = f[x] + SumFunctionOnSet(f, (T \ {p}) \ {x})
      <4>1. T \ {p} \in P /\ x \in T \ {p}
        BY <1>1, <2>1, <2>4
      <4> QED BY <4>1
    <3>2. SumFunctionOnSet(f, T \ {x}) = f[p] + SumFunctionOnSet(f, (T \ {x}) \ {p})
      <4>1. T \ {x} \in P /\ p \in T \ {x}
        BY <1>1, <2>1, <2>4
      <4> QED BY <4>1
    <3>3. /\ SumFunctionOnSet(f, (T \ {p}) \ {x}) = SumFunctionOnSet(f, (T \ {x}) \ {p})
          /\ (T \ {p}) \ {x} \in SUBSET D
      <4>1. (T \ {p}) \ {x} = (T \ {x}) \ {p}
        OBVIOUS
      <4> QED BY <4>1, Zenon
    <3>4. SumFunctionOnSet(f, (T \ {p}) \ {x}) \in Int /\ f[x] \in Int /\ f[p] \in Int
      BY <2>1, <3>3, SumInt
    <3> HIDE DEF P
    <3> QED BY <2>2, <3>1, <3>2, <3>3, <3>4
  <2> QED BY <2>3, <2>4
<1> HIDE DEF P
<1>2. \A T \in SUBSET D : T \in P
  BY <1>1, SubsetInduction
<1> QED BY <1>2 DEF P

(* The sum over nothing.                                                   *)
LEMMA SumNone == ASSUME NEW D, IsFiniteSet(D), NEW f PROVE SumFunctionOnSet(f, {}) = 0
BY SumOne

(* The sum over two disjoint sets is that over both.                       *)
LEMMA SumUnion ==
    ASSUME NEW D, IsFiniteSet(D), NEW f \in [D -> Int], NEW S \in SUBSET D
    PROVE  \A T \in SUBSET D : S \cap T = {} =>
               SumFunctionOnSet(f, S \cup T) = SumFunctionOnSet(f, S) + SumFunctionOnSet(f, T)
<1> DEFINE P == {T \in SUBSET D : S \cap T = {} =>
               SumFunctionOnSet(f, S \cup T) = SumFunctionOnSet(f, S) + SumFunctionOnSet(f, T)}
<1>1. ASSUME NEW T \in SUBSET D, \A U \in SUBSET T : U # T => U \in P
      PROVE  T \in P
  <2> SUFFICES ASSUME S \cap T = {}
               PROVE  SumFunctionOnSet(f, S \cup T)
                          = SumFunctionOnSet(f, S) + SumFunctionOnSet(f, T)
    OBVIOUS
  <2>1. SumFunctionOnSet(f, S) \in Int
    BY SumInt
  <2>2. CASE T = {}
    <3>1. S \cup T = S
      BY <2>2
    <3>2. SumFunctionOnSet(f, T) = 0
      BY <2>2, SumNone
    <3> QED BY <2>1, <3>1, <3>2
  <2>3. CASE T # {}
    <3>1. PICK p \in T : TRUE
      BY <2>3
    <3>2. /\ SumFunctionOnSet(f, S \cup (T \ {p}))
                 = SumFunctionOnSet(f, S) + SumFunctionOnSet(f, T \ {p})
          /\ T \ {p} \in SUBSET D
      <4>1. T \ {p} \in P /\ S \cap (T \ {p}) = {}
        BY <1>1, <3>1
      <4> QED BY <4>1
    <3> HIDE DEF P
    <3>3. SumFunctionOnSet(f, T) = f[p] + SumFunctionOnSet(f, T \ {p})
      BY SumTake
    <3>4. SumFunctionOnSet(f, S \cup T) = f[p] + SumFunctionOnSet(f, (S \cup T) \ {p})
      <4>1. S \cup T \in SUBSET D /\ p \in S \cup T
        OBVIOUS
      <4> QED BY <4>1, SumTake
    <3>5. SumFunctionOnSet(f, (S \cup T) \ {p}) = SumFunctionOnSet(f, S \cup (T \ {p}))
      <4>1. (S \cup T) \ {p} = S \cup (T \ {p})
        OBVIOUS
      <4> QED BY <4>1, Zenon
    <3>6. f[p] \in Int /\ SumFunctionOnSet(f, T \ {p}) \in Int
      BY <3>2, SumInt
    <3> QED BY <2>1, <3>2, <3>3, <3>4, <3>5, <3>6
  <2> QED BY <2>2, <2>3
<1> HIDE DEF P
<1>2. \A T \in SUBSET D : T \in P
  BY <1>1, SubsetInduction
<1> QED BY <1>2 DEF P

(* The greater the terms, the greater the sum.                             *)
LEMMA SumMono ==
    ASSUME NEW D, IsFiniteSet(D), NEW f \in [D -> Int], NEW g \in [D -> Int]
    PROVE  \A T \in SUBSET D : (\A x \in T : f[x] <= g[x]) =>
               SumFunctionOnSet(f, T) <= SumFunctionOnSet(g, T)
<1> DEFINE P == {T \in SUBSET D : (\A x \in T : f[x] <= g[x]) =>
                     SumFunctionOnSet(f, T) <= SumFunctionOnSet(g, T)}
<1>1. ASSUME NEW T \in SUBSET D, \A U \in SUBSET T : U # T => U \in P
      PROVE  T \in P
  <2> SUFFICES ASSUME \A x \in T : f[x] <= g[x]
               PROVE  SumFunctionOnSet(f, T) <= SumFunctionOnSet(g, T)
    OBVIOUS
  <2>1. CASE T = {}
    <3>1. SumFunctionOnSet(f, T) = 0 /\ SumFunctionOnSet(g, T) = 0
      BY <2>1, SumNone
    <3> QED BY <3>1
  <2>2. CASE T # {}
    <3>1. PICK p \in T : TRUE
      BY <2>2
    <3>2. /\ SumFunctionOnSet(f, T \ {p}) <= SumFunctionOnSet(g, T \ {p})
          /\ T \ {p} \in SUBSET D
      <4>1. T \ {p} \in P
        BY <1>1, <3>1
      <4> QED BY <4>1
    <3> HIDE DEF P
    <3>3. SumFunctionOnSet(f, T) = f[p] + SumFunctionOnSet(f, T \ {p})
      BY SumTake
    <3>4. SumFunctionOnSet(g, T) = g[p] + SumFunctionOnSet(g, T \ {p})
      BY SumTake
    <3>5. SumFunctionOnSet(f, T \ {p}) \in Int /\ SumFunctionOnSet(g, T \ {p}) \in Int
      BY <3>2, SumInt
    <3>6. f[p] \in Int /\ g[p] \in Int /\ f[p] <= g[p]
      OBVIOUS
    <3> QED BY <3>2, <3>3, <3>4, <3>5, <3>6
  <2> QED BY <2>1, <2>2
<1> HIDE DEF P
<1>2. \A T \in SUBSET D : T \in P
  BY <1>1, SubsetInduction
<1> QED BY <1>2 DEF P

(* Equal terms, equal sums.                                                *)
LEMMA SumSame ==
    ASSUME NEW D, IsFiniteSet(D), NEW f \in [D -> Int], NEW g \in [D -> Int],
           NEW T \in SUBSET D, \A x \in T : f[x] = g[x]
    PROVE  SumFunctionOnSet(f, T) = SumFunctionOnSet(g, T)
<1>1. \A x \in T : f[x] <= g[x] /\ g[x] <= f[x]
  OBVIOUS
<1>2. SumFunctionOnSet(f, T) <= SumFunctionOnSet(g, T)
  BY <1>1, SumMono
<1>3. SumFunctionOnSet(g, T) <= SumFunctionOnSet(f, T)
  BY <1>1, SumMono
<1>4. SumFunctionOnSet(f, T) \in Int /\ SumFunctionOnSet(g, T) \in Int
  BY SumInt
<1> QED BY <1>2, <1>3, <1>4

(* One term changes.                                                       *)
LEMMA SumChange ==
    ASSUME NEW D, IsFiniteSet(D), NEW f \in [D -> Int], NEW g \in [D -> Int],
           NEW T \in SUBSET D, NEW p \in T, \A x \in T \ {p} : f[x] = g[x]
    PROVE  SumFunctionOnSet(g, T) = SumFunctionOnSet(f, T) + g[p] - f[p]
<1>1. T \ {p} \in SUBSET D
  OBVIOUS
<1>2. SumFunctionOnSet(f, T) = f[p] + SumFunctionOnSet(f, T \ {p})
  BY SumTake
<1>3. SumFunctionOnSet(g, T) = g[p] + SumFunctionOnSet(g, T \ {p})
  BY SumTake
<1>4. SumFunctionOnSet(f, T \ {p}) = SumFunctionOnSet(g, T \ {p})
  BY <1>1, SumSame
<1>5. SumFunctionOnSet(f, T \ {p}) \in Int
  BY <1>1, SumInt
<1>6. f[p] \in Int /\ g[p] \in Int
  OBVIOUS
<1> QED BY <1>2, <1>3, <1>4, <1>5, <1>6

(* A sum of naturals is one.                                               *)
LEMMA SumNat ==
    ASSUME NEW D, IsFiniteSet(D), NEW f \in [D -> Nat], NEW T \in SUBSET D
    PROVE  SumFunctionOnSet(f, T) \in Nat
<1> DEFINE P == {U \in SUBSET D : SumFunctionOnSet(f, U) \in Nat}
<1>1. f \in [D -> Int]
  OBVIOUS
<1>2. ASSUME NEW S \in SUBSET D, \A U \in SUBSET S : U # S => U \in P
      PROVE  S \in P
  <2>1. CASE S = {}
    <3>1. SumFunctionOnSet(f, S) = 0
      BY <2>1, SumNone
    <3> QED BY <3>1
  <2>2. CASE S # {}
    <3>1. PICK p \in S : TRUE
      BY <2>2
    <3>2. SumFunctionOnSet(f, S \ {p}) \in Nat
      BY <1>2, <3>1
    <3>3. SumFunctionOnSet(f, S) = f[p] + SumFunctionOnSet(f, S \ {p})
      BY <1>1, SumTake
    <3>4. f[p] \in Nat
      OBVIOUS
    <3> QED BY <3>2, <3>3, <3>4
  <2> QED BY <2>1, <2>2
<1> HIDE DEF P
<1>3. T \in P
  BY <1>2, SubsetInduction
<1> QED BY <1>3 DEF P

-----------------------------------------------------------------------------
(* Types, for any replays.                                                 *)

(* What is paid is counted in whole units.                                 *)
LEMMA PaidType == Paid \in [Settlements -> Nat]
<1>1. ASSUME NEW n \in Nat PROVE n \div 10 \in Nat
  OBVIOUS
<1> QED BY <1>1, RewardAssumption DEF Paid

(* So is what is delegated.                                                *)
LEMMA StakeType ==
    ASSUME NEW s \in Settlements
    PROVE  StakeAmount(s) \in Nat /\ AtLeast0(Reserve) \in Nat
BY RewardsCounted, RewardAssumption DEF StakeAmount, AtLeast0

(* Types but for what is remembered, ...                                   *)
RestOK ==
    /\ clock \in 0..MaxClock
    /\ block \in 0..Len(Blocks) /\ pushed \subseteq 1..block
    /\ balance \in Nat /\ spent \in 0..MaxSpend
    /\ stage \in [Settlements -> {"idle", "balance", "sent"}]
    /\ \A s \in Settlements : stage[s] # "idle" => \E b \in pushed : s \in Blocks[b]
    /\ last \in {NoKey} \cup {AutoStakeKey(s) : s \in Settlements}
    /\ limbo \in [Settlements -> Nat] /\ givenUp \subseteq Settlements
    /\ replays \in 0..MaxReplays /\ faults \in 0..MaxFaults
    /\ delegated \in [Settlements -> Nat]
    /\ arrived \in [1..Len(Blocks) -> -1..MaxClock]
    /\ newest \in 0..block
    /\ late \in [1..Len(Blocks) -> Nat]

(* ... which is of frames that came.                                       *)
Keyed == \A r \in recent : \E b \in pushed, s \in Settlements : r[1] = EventKey(b, s)

(* Together they are TypeOK.                                               *)
LEMMA TypeParts == TypeOK <=> RestOK /\ Keyed
<1> DEFINE R == \A r \in recent : r[1] \in {EventKey(b, s) : b \in pushed, s \in Settlements}
<1>1. Keyed <=> R
  BY DEF Keyed
<1>2. TypeOK <=> RestOK /\ R
  <2>1. TypeOK => R
    BY DEF TypeOK
  <2>2. TypeOK => RestOK
    BY DEF TypeOK, RestOK
  <2>3. RestOK /\ R => TypeOK
    BY DEF TypeOK, RestOK
  <2> HIDE DEF R
  <2> QED BY <2>1, <2>2, <2>3
<1> HIDE DEF R
<1> QED BY <1>1, <1>2

(* Frames that came stay so.                                               *)
LEMMA KeyedKeeps ==
    ASSUME Keyed, UNCHANGED recent, pushed \subseteq pushed'
    PROVE  Keyed'
BY DEF Keyed, EventKey, Event

(* The initial state is of the right type, ...                             *)
LEMMA InitTypeOK == ASSUME Init PROVE TypeOK
BY RewardAssumption, BlockSets DEF Init, TypeOK

(* ... and the chain, the clock and fees keep it so, ...                   *)
LEMMA SurroundingsTyped ==
    ASSUME TypeOK, Settle \/ Tick \/ Spend
    PROVE  TypeOK'
<1>1. UNCHANGED <<stage, recent, last, limbo, replays, faults, history>>
  BY DEF Settle, Tick, Spend, bounds
<1>2. /\ clock' \in 0..MaxClock /\ block' \in 0..Len(Blocks)
      /\ balance' \in Nat /\ spent' \in 0..MaxSpend /\ block' >= block
  <2>1. CASE Settle
    <3>1. block + 1 \in BlockIds /\ block \in Nat
      BY <2>1, BlockSets DEF Settle, TypeOK, BlockIds
    <3>2. SumFunctionOnSet(Paid, Blocks[block + 1]) \in Nat
      <4>1. Blocks[block + 1] \in SUBSET Settlements /\ IsFiniteSet(Settlements)
        BY <3>1, BlockSets, RewardAssumption
      <4> QED BY <4>1, PaidType, SumNat
    <3> QED BY <2>1, <3>1, <3>2 DEF Settle, TypeOK, bounds, BlockIds
  <2>2. CASE Tick
    BY <2>2, BlockSets, RewardAssumption DEF Tick, TypeOK, bounds
  <2>3. CASE Spend
    BY <2>3, BlockSets, RewardAssumption DEF Spend, TypeOK, bounds
  <2> QED BY <2>1, <2>2, <2>3
<1>3. pushed' \subseteq 1..block' /\ newest' \in 0..block'
  BY <1>1, <1>2, BlockSets DEF TypeOK, history
<1>4. /\ stage' \in [Settlements -> {"idle", "balance", "sent"}]
      /\ \A s \in Settlements : stage'[s] # "idle" => \E b \in pushed' : s \in Blocks[b]
      /\ limbo' \in [Settlements -> Nat] /\ givenUp' \subseteq Settlements
      /\ replays' \in 0..MaxReplays /\ faults' \in 0..MaxFaults
      /\ delegated' \in [Settlements -> Nat]
      /\ arrived' \in [1..Len(Blocks) -> -1..MaxClock]
      /\ late' \in [1..Len(Blocks) -> Nat]
  BY <1>1 DEF TypeOK, history
<1>5. Keyed'
  BY <1>1, TypeParts, KeyedKeeps DEF history
<1>6. (last \in {NoKey} \cup {AutoStakeKey(s) : s \in Settlements})'
  BY <1>1 DEF TypeOK, AutoStakeKey, Event, Reward, NoKey
<1>7. RestOK'
  BY <1>2, <1>3, <1>4, <1>6 DEF RestOK
<1> QED BY <1>5, <1>7, TypeParts, PTL

(* ... a frame, ...                                                        *)
LEMMA DeliverTyped ==
    ASSUME TypeOK, NEW b \in BlockIds, Deliver(b)
    PROVE  TypeOK'
<1>1. /\ b \in 1..block
      /\ pushed' = pushed \cup {b}
      /\ arrived' = [arrived EXCEPT ![b] = IF WithinTtl(b) THEN @ ELSE clock]
      /\ recent' = Remembered \cup {<<EventKey(b, s), clock>> : s \in Unique(b)}
      /\ stage' = [s \in Settlements |->
                      IF s \in Unique(b) /\ Decides(s) THEN "balance" ELSE "idle"]
      /\ newest' \in {newest, b}
      /\ late' \in {late, [late EXCEPT ![b] = @ + 1]}
      /\ UNCHANGED <<clock, block, balance, last, limbo, faults, spent, delegated, givenUp>>
  BY DEF Deliver, Push
<1>2. replays' \in 0..MaxReplays
  BY RewardAssumption DEF TypeOK, Deliver, Push
<1>3. arrived' \in [1..Len(Blocks) -> -1..MaxClock]
  <2>1. clock \in -1..MaxClock
    BY RewardAssumption DEF TypeOK
  <2>2. arrived \in [1..Len(Blocks) -> -1..MaxClock]
    BY DEF TypeOK
  <2> QED BY <1>1, <2>1, <2>2
<1>4. /\ stage' \in [Settlements -> {"idle", "balance", "sent"}]
      /\ \A s \in Settlements : stage'[s] # "idle" => \E d \in pushed' : s \in Blocks[d]
  BY <1>1 DEF Unique
<1>5. Keyed'
  <2> SUFFICES ASSUME NEW r \in recent'
               PROVE  \E d \in pushed', s \in Settlements : r[1] = EventKey(d, s)
    BY DEF Keyed, EventKey, Event
  <2>1. CASE r \in Remembered
    <3>1. \E d \in pushed, s \in Settlements : r[1] = EventKey(d, s)
      BY <2>1, TypeParts DEF Remembered, Keyed
    <3> QED BY <1>1, <3>1
  <2>2. CASE r \notin Remembered
    <3>1. PICK s \in Unique(b) : r = <<EventKey(b, s), clock>>
      BY <1>1, <2>2
    <3>2. s \in Settlements /\ b \in pushed'
      BY <1>1, BlockSets DEF Unique
    <3> QED BY <3>1, <3>2
  <2> QED BY <2>1, <2>2
<1>6. /\ pushed' \subseteq 1..block' /\ newest' \in 0..block'
      /\ clock' \in 0..MaxClock /\ block' \in 0..Len(Blocks)
  <2>1. /\ pushed \subseteq 1..block /\ newest \in 0..block
        /\ clock \in 0..MaxClock /\ block \in 0..Len(Blocks)
    BY DEF TypeOK
  <2>2. /\ b \in 1..block /\ pushed' = pushed \cup {b} /\ newest' \in {newest, b}
        /\ clock' = clock /\ block' = block
    BY <1>1
  <2>3. b \in 0..block
    BY <2>1, <2>2, BlockSets
  <2> QED BY <2>1, <2>2, <2>3
<1>7. (last \in {NoKey} \cup {AutoStakeKey(s) : s \in Settlements})'
  BY <1>1 DEF TypeOK, AutoStakeKey, Event, Reward, NoKey
<1>8. /\ balance' \in Nat /\ spent' \in 0..MaxSpend /\ faults' \in 0..MaxFaults
      /\ limbo' \in [Settlements -> Nat] /\ givenUp' \subseteq Settlements
      /\ delegated' \in [Settlements -> Nat]
  BY <1>1 DEF TypeOK
<1>9. late' \in [1..Len(Blocks) -> Nat]
  BY <1>1 DEF TypeOK
<1>10. RestOK'
  BY <1>2, <1>3, <1>4, <1>6, <1>7, <1>8, <1>9 DEF RestOK
<1> QED BY <1>5, <1>10, TypeParts, PTL

(* ... a callback, ...                                                     *)
LEMMA CallbackTyped ==
    ASSUME TypeOK, NEW s \in Settlements,
           BalanceAnswered(s) \/ Delegated(s) \/ DelegationFails(s) \/ LimboLands(s)
    PROVE  TypeOK'
<1>1. UNCHANGED <<clock, block, recent, replays, spent, pushed, arrived, newest, late>>
  BY DEF BalanceAnswered, Delegated, DelegationFails, LimboLands, bounds
<1>2. /\ stage' \in [Settlements -> {"idle", "balance", "sent"}]
      /\ \A t \in Settlements : stage'[t] # "idle" => stage[t] # "idle"
  <2>1. UNCHANGED stage \/ \E to \in {"idle", "sent"} : stage[s] # "idle" /\ stage' = [stage EXCEPT ![s] = to]
    BY DEF BalanceAnswered, Delegated, DelegationFails, LimboLands, Returns
  <2>2. stage \in [Settlements -> {"idle", "balance", "sent"}]
    BY DEF TypeOK
  <2> QED BY <2>1, <2>2
<1>3. last' \in {last, AutoStakeKey(s)}
  BY DEF BalanceAnswered, Delegated, DelegationFails, LimboLands, Returns
<1>4. limbo' \in [Settlements -> Nat] /\ givenUp' \subseteq Settlements
  <2>1. limbo \in [Settlements -> Nat] /\ givenUp \subseteq Settlements
    BY DEF TypeOK
  <2>2. CASE UNCHANGED limbo /\ givenUp' \in {givenUp, givenUp \cup {s}}
    BY <2>1, <2>2
  <2>3. CASE DelegationFails(s)
    BY <2>1, <2>3 DEF DelegationFails
  <2>4. CASE LimboLands(s)
    BY <2>1, <2>4 DEF LimboLands
  <2> QED BY <2>2, <2>3, <2>4 DEF BalanceAnswered, Delegated
<1>5. faults' \in 0..MaxFaults
  BY RewardAssumption
     DEF BalanceAnswered, Delegated, DelegationFails, LimboLands, TypeOK, Fault, bounds
<1>6. balance' \in Nat /\ delegated' \in [Settlements -> Nat]
  <2>1. CASE UNCHANGED <<balance, delegated>>
    BY <2>1 DEF TypeOK
  <2>2. CASE Affordable(s) /\ Execute(s)
    <3>1. balance - StakeAmount(s) \in Nat
      BY <2>2, StakeType DEF Affordable, TypeOK
    <3> QED BY <2>2, <3>1 DEF Execute, TypeOK
  <2> QED BY <2>1, <2>2 DEF BalanceAnswered, Delegated, DelegationFails, LimboLands
<1>7. \A t \in Settlements : stage'[t] # "idle" => \E b \in pushed' : t \in Blocks[b]
  BY <1>1, <1>2 DEF TypeOK
<1>8. Keyed'
  BY <1>1, TypeParts, KeyedKeeps
<1>9. (last \in {NoKey} \cup {AutoStakeKey(t) : t \in Settlements})'
  BY <1>3 DEF TypeOK, AutoStakeKey, Event, Reward, NoKey
<1>10. /\ clock' \in 0..MaxClock /\ block' \in 0..Len(Blocks) /\ pushed' \subseteq 1..block'
       /\ spent' \in 0..MaxSpend /\ replays' \in 0..MaxReplays
       /\ arrived' \in [1..Len(Blocks) -> -1..MaxClock] /\ newest' \in 0..block'
       /\ late' \in [1..Len(Blocks) -> Nat]
  BY <1>1 DEF TypeOK
<1>11. RestOK'
  BY <1>2, <1>4, <1>5, <1>6, <1>7, <1>9, <1>10 DEF RestOK
<1> QED BY <1>8, <1>11, TypeParts, PTL

(* ... a new subscription and a restart.                                   *)
LEMMA RestartTyped ==
    ASSUME TypeOK, Resubscribe \/ Crash
    PROVE  TypeOK'
<1>1. /\ recent' = {} /\ arrived' = [b \in 1..Len(Blocks) |-> -1]
      /\ UNCHANGED <<clock, block, balance, replays, spent, delegated, pushed, late>>
  BY DEF Resubscribe, Crash
<1>2. faults' \in 0..MaxFaults
  BY RewardAssumption DEF Resubscribe, Crash, Fault, TypeOK
<1>3. /\ stage' \in [Settlements -> {"idle", "balance", "sent"}]
      /\ \A t \in Settlements : stage'[t] # "idle" => stage[t] # "idle"
      /\ limbo' \in [Settlements -> Nat] /\ givenUp' \subseteq Settlements
      /\ last' \in {last, NoKey} /\ newest' \in {newest, 0}
  <2>1. /\ stage \in [Settlements -> {"idle", "balance", "sent"}]
        /\ limbo \in [Settlements -> Nat] /\ givenUp \subseteq Settlements
    BY DEF TypeOK
  <2>2. CASE Resubscribe
    BY <2>1, <2>2 DEF Resubscribe
  <2>3. CASE Crash
    BY <2>1, <2>3 DEF Crash
  <2> QED BY <2>2, <2>3
<1>4. arrived' \in [1..Len(Blocks) -> -1..MaxClock]
  <2>1. -1 \in -1..MaxClock
    BY RewardAssumption
  <2> QED BY <1>1, <2>1
<1>5. \A t \in Settlements : stage'[t] # "idle" => \E b \in pushed' : t \in Blocks[b]
  BY <1>1, <1>3 DEF TypeOK
<1>6. (last \in {NoKey} \cup {AutoStakeKey(s) : s \in Settlements})'
  BY <1>3 DEF TypeOK, AutoStakeKey, Event, Reward, NoKey
<1>7. newest' \in 0..block' /\ block' \in 0..Len(Blocks)
  BY <1>1, <1>3, BlockSets DEF TypeOK
<1>8. Keyed'
  BY <1>1 DEF Keyed
<1>9. RestOK'
  <2>1. /\ clock' \in 0..MaxClock /\ pushed' \subseteq 1..block' /\ balance' \in Nat
        /\ spent' \in 0..MaxSpend /\ replays' \in 0..MaxReplays
        /\ delegated' \in [Settlements -> Nat] /\ late' \in [1..Len(Blocks) -> Nat]
    BY <1>1 DEF TypeOK
  <2> QED BY <1>2, <1>3, <1>4, <1>5, <1>6, <1>7, <2>1 DEF RestOK
<1> QED BY <1>8, <1>9, TypeParts, PTL

(* Every step does.                                                        *)
LEMMA NextTyped == ASSUME TypeOK, [Next]_vars PROVE TypeOK'
<1>1. CASE Settle \/ Tick \/ Spend
  BY <1>1, SurroundingsTyped
<1>2. CASE Resubscribe \/ Crash
  BY <1>2, RestartTyped
<1>3. ASSUME NEW b \in 1..Len(Blocks), Deliver(b) PROVE TypeOK'
  BY <1>3, DeliverTyped DEF BlockIds
<1>4. ASSUME NEW s \in Settlements,
             BalanceAnswered(s) \/ Delegated(s) \/ DelegationFails(s) \/ LimboLands(s)
      PROVE  TypeOK'
  BY <1>4, CallbackTyped
<1>5. CASE UNCHANGED vars
  BY <1>5 DEF vars, history, bounds, TypeOK, EventKey, AutoStakeKey, Event, Reward, NoKey
<1> QED BY <1>1, <1>2, <1>3, <1>4, <1>5 DEF Next

(* The model's state keeps its types: the wallet is never overdrawn by a   *)
(* delegation (the chain refuses it), and whatever frames are replayed,    *)
(* callbacks, remembered events and the key kept are of frames that came.  *)
THEOREM TypeCorrect == Spec => []TypeOK
BY InitTypeOK, NextTyped, PTL DEF Spec

-----------------------------------------------------------------------------
(* No reward is dropped.                                                   *)

(* Every event of ours is decoded: its role, its topic, and its reward     *)
(* (EventsDecoded, below, derives this from how the chain writes it).      *)
Decoded ==
    \A s \in Settlements : Own(s) =>
        Addressed(s) /\ MatchesTopic(Event[s], Topic) /\ Reward[s] = Paid[s]

(* The chain settles a topic for a role once per nonce.                    *)
NoncesDiffer ==
    \A s, t \in Settlements :
        Own(s) /\ Own(t) /\ Event[s].block_height = Event[t].block_height => s = t

(* Callbacks are of our settlements.                                       *)
OwnInv == \A s \in Settlements : stage[s] # "idle" => Own(s)

(* The key that is kept is of a settlement of ours that came in a frame.   *)
KeyInv ==
    last = NoKey \/ \E b \in pushed : \E s \in Blocks[b] : Own(s) /\ last = AutoStakeKey(s)

(* The reward is or was delegated, or was given up.                        *)
Taken(s) == stage[s] # "idle" \/ delegated[s] >= 1 \/ s \in givenUp

TakenInv ==
    \A b \in pushed : \A s \in Blocks[b] :
        Own(s) /\ Paid[s] > AtLeast0(Reserve) => Taken(s)

DropInv == TypeOK /\ OwnInv /\ KeyInv /\ TakenInv

(* Frames that came are of blocks.                                         *)
LEMMA PushedBlocks ==
    ASSUME TypeOK
    PROVE  pushed \subseteq BlockIds /\ \A b \in pushed : Blocks[b] \subseteq Settlements
<1>1. pushed \subseteq BlockIds
  BY BlockSets DEF TypeOK, BlockIds
<1> QED BY <1>1, BlockSets

(* No key is the empty one.                                                *)
LEMMA KeysDiffer ==
    ASSUME NEW s \in Settlements
    PROVE  /\ AutoStakeKey(s) # NoKey
           /\ \A t \in Settlements : AutoStakeKey(s) = AutoStakeKey(t) =>
                  Event[s].block_height = Event[t].block_height
BY DEF AutoStakeKey, NoKey

(* A first frame is handled whole.                                         *)
LEMMA FirstFrameDecides ==
    ASSUME DropInv, Decoded, NoncesDiffer, NEW b \in BlockIds, b \notin pushed,
           NEW s \in Blocks[b], Own(s), Paid[s] > AtLeast0(Reserve)
    PROVE  s \in Unique(b) /\ Decides(s)
<1>1. s \in Settlements
  BY BlockSets
<1>2. Addressed(s) /\ MatchesTopic(Event[s], Topic) /\ Reward[s] = Paid[s]
  BY <1>1 DEF Decoded
<1>3. s \in Unique(b)
  <2> SUFFICES ASSUME NEW r \in Remembered, r[1] = EventKey(b, s) PROVE FALSE
    BY <1>2 DEF Unique
  <2>1. PICK d \in pushed, t \in Settlements : r[1] = EventKey(d, t)
    BY TypeParts DEF DropInv, Keyed, Remembered
  <2> QED BY <2>1 DEF EventKey
<1>4. AutoStakeKey(s) # last
  <2>1. CASE last = NoKey
    BY <1>1, <2>1, KeysDiffer
  <2>2. CASE last # NoKey
    <3>1. PICK d \in pushed : \E t \in Blocks[d] : Own(t) /\ last = AutoStakeKey(t)
      BY <2>2 DEF DropInv, KeyInv
    <3>2. PICK t \in Blocks[d] : Own(t) /\ last = AutoStakeKey(t)
      BY <3>1
    <3>3. d \in BlockIds /\ t \in Settlements
      BY PushedBlocks DEF DropInv
    <3>4. s # t
      BY <1>1, <3>3, BlockSets
    <3>5. Event[s].block_height # Event[t].block_height
      BY <1>1, <3>2, <3>3, <3>4 DEF NoncesDiffer
    <3> QED BY <1>1, <3>2, <3>3, <3>5, KeysDiffer
  <2> QED BY <2>1, <2>2
<1>5. Reward[s] > 0 /\ StakeAmount(s) > 0
  <2>1. AtLeast0(Reserve) \in Nat /\ Paid[s] \in Nat
    BY <1>1, PaidType, StakeType
  <2> QED BY <1>2, <2>1 DEF StakeAmount, AtLeast0
<1> QED BY <1>2, <1>3, <1>4, <1>5 DEF Decides

(* A frame takes up what it brings.                                        *)
LEMMA DeliverTakes ==
    ASSUME DropInv, Decoded, NoncesDiffer, NEW b \in BlockIds, Deliver(b), TypeOK'
    PROVE  DropInv'
<1>1. /\ Idle /\ pushed' = pushed \cup {b}
      /\ stage' = [s \in Settlements |->
                      IF s \in Unique(b) /\ Decides(s) THEN "balance" ELSE "idle"]
      /\ UNCHANGED <<last, delegated, givenUp>>
  BY DEF Deliver, Push
<1>2. \A s \in Settlements : stage'[s] # "idle" => Own(s)
  BY <1>1, DecidedIsOwn
<1>3. OwnInv'
  BY <1>2 DEF OwnInv, Own
<1>4. KeyInv'
  BY <1>1 DEF DropInv, KeyInv, Own, AutoStakeKey, Event, Reward, NoKey
<1>5. ASSUME NEW d \in pushed', NEW s \in Blocks[d], Own(s), Paid[s] > AtLeast0(Reserve)
      PROVE  Taken(s)'
  <2>1. CASE d \in pushed
    <3>1. stage[s] = "idle"
      BY <1>1, <2>1, PushedBlocks DEF Idle, DropInv
    <3>2. Taken(s)
      BY <1>5, <2>1 DEF DropInv, TakenInv
    <3> QED BY <1>1, <3>1, <3>2 DEF Taken
  <2>2. CASE d \notin pushed
    <3>1. d = b /\ s \in Settlements
      BY <1>1, <2>2, BlockSets
    <3>2. s \in Unique(b) /\ Decides(s)
      BY <1>5, <2>2, <3>1, FirstFrameDecides
    <3> QED BY <1>1, <3>1, <3>2 DEF Taken
  <2> QED BY <2>1, <2>2
<1>6. TakenInv'
  BY <1>5 DEF TakenInv, Own, Paid, AtLeast0
<1> QED BY <1>3, <1>4, <1>6 DEF DropInv

(* A callback in progress stays ours, ends with its key, and does not end  *)
(* without a delegation unless it is given up.                             *)
LEMMA CallbackTakes ==
    ASSUME DropInv, NEW s \in Settlements,
           BalanceAnswered(s) \/ Delegated(s) \/ DelegationFails(s) \/ LimboLands(s),
           TypeOK'
    PROVE  DropInv'
<1>1. UNCHANGED pushed
  BY DEF BalanceAnswered, Delegated, DelegationFails, LimboLands
<1>2. \A t \in Settlements : stage'[t] # "idle" => stage[t] # "idle"
  <2>1. UNCHANGED stage \/ \E to \in {"idle", "sent"} :
            stage[s] # "idle" /\ stage' = [stage EXCEPT ![s] = to]
    BY DEF BalanceAnswered, Delegated, DelegationFails, LimboLands, Returns
  <2>2. stage \in [Settlements -> {"idle", "balance", "sent"}]
    BY TypeParts DEF DropInv, RestOK
  <2> QED BY <2>1, <2>2
<1>3. last' = last \/ (stage[s] # "idle" /\ last' = AutoStakeKey(s))
  <2>1. CASE BalanceAnswered(s) \/ LimboLands(s)
    BY <2>1 DEF BalanceAnswered, LimboLands
  <2>2. CASE Delegated(s) \/ DelegationFails(s)
    BY <2>2 DEF Delegated, DelegationFails, Returns
  <2> QED BY <2>1, <2>2
<1>4. \A t \in Settlements : Taken(t) => Taken(t)'
  <2>1. stage \in [Settlements -> {"idle", "balance", "sent"}] /\ delegated \in [Settlements -> Nat]
    BY TypeParts DEF DropInv, RestOK
  <2>2. CASE BalanceAnswered(s)
    BY <2>1, <2>2 DEF BalanceAnswered, Taken
  <2>3. CASE Delegated(s)
    BY <2>1, <2>3 DEF Delegated, Returns, Execute, Taken
  <2>4. CASE DelegationFails(s)
    BY <2>1, <2>4 DEF DelegationFails, Returns, Taken
  <2>5. CASE LimboLands(s)
    BY <2>1, <2>5 DEF LimboLands, Execute, Taken
  <2> QED BY <2>2, <2>3, <2>4, <2>5
<1>5. OwnInv'
  BY <1>2 DEF DropInv, OwnInv, Own
<1>6. KeyInv'
  <2>1. CASE last' = last
    BY <1>1, <2>1 DEF DropInv, KeyInv, Own, AutoStakeKey, Event, Reward, NoKey
  <2>2. CASE stage[s] # "idle" /\ last' = AutoStakeKey(s)
    <3>1. \E b \in pushed : s \in Blocks[b]
      BY <2>2 DEF DropInv, TypeOK
    <3>2. Own(s)
      BY <2>2 DEF DropInv, OwnInv
    <3> QED BY <1>1, <2>2, <3>1, <3>2 DEF KeyInv, Own, AutoStakeKey, Event, Reward
  <2> QED BY <1>3, <2>1, <2>2
<1>7. TakenInv'
  BY <1>1, <1>4, PushedBlocks DEF DropInv, TakenInv, Own, Paid, AtLeast0
<1> QED BY <1>5, <1>6, <1>7 DEF DropInv

(* The other steps leave callbacks alone or give them up.                  *)
LEMMA OthersTake ==
    ASSUME DropInv, Settle \/ Tick \/ Spend \/ Resubscribe \/ Crash \/ UNCHANGED vars, TypeOK'
    PROVE  DropInv'
<1>1. UNCHANGED pushed /\ last' \in {last, NoKey}
  BY DEF Settle, Tick, Spend, Resubscribe, Crash, history, vars
<1>2. /\ \A t \in Settlements : stage'[t] # "idle" => stage[t] # "idle"
      /\ \A t \in Settlements : Taken(t) => Taken(t)'
  <2>1. CASE UNCHANGED <<stage, delegated, givenUp>>
    BY <2>1 DEF Taken
  <2>2. CASE Crash
    BY <2>2 DEF Crash, Taken
  <2> QED BY <2>1, <2>2 DEF Settle, Tick, Spend, Resubscribe, history, vars
<1>3. OwnInv'
  BY <1>2 DEF DropInv, OwnInv, Own
<1>4. KeyInv'
  BY <1>1 DEF DropInv, KeyInv, Own, AutoStakeKey, Event, Reward, NoKey
<1>5. TakenInv'
  BY <1>1, <1>2, PushedBlocks DEF DropInv, TakenInv, Own, Paid, AtLeast0
<1> QED BY <1>3, <1>4, <1>5 DEF DropInv

(* So every step does.                                                     *)
LEMMA NextTakes ==
    ASSUME DropInv, Decoded, NoncesDiffer, [Next]_vars PROVE DropInv'
<1>1. TypeOK'
  BY NextTyped DEF DropInv
<1>2. ASSUME NEW b \in 1..Len(Blocks), Deliver(b) PROVE DropInv'
  BY <1>1, <1>2, DeliverTakes DEF BlockIds
<1>3. ASSUME NEW s \in Settlements,
             BalanceAnswered(s) \/ Delegated(s) \/ DelegationFails(s) \/ LimboLands(s)
      PROVE  DropInv'
  BY <1>1, <1>3, CallbackTakes
<1>4. CASE Settle \/ Tick \/ Spend \/ Resubscribe \/ Crash \/ UNCHANGED vars
  BY <1>1, <1>4, OthersTake
<1> QED BY <1>2, <1>3, <1>4 DEF Next

(* If events of ours decode and nonces are settled once, every reward      *)
(* above the reserve whose frame came is delegated, unless a shortage, an  *)
(* error or a crash ended its callback: neither deduplication, nor the key *)
(* kept of another reward, nor the other events of a frame lose it.        *)
THEOREM RewardsKept == Decoded /\ NoncesDiffer => (Spec => []NoRewardDropped)
<1> SUFFICES ASSUME Decoded, NoncesDiffer PROVE Spec => []NoRewardDropped
  OBVIOUS
<1>1. Init => DropInv
  <2> SUFFICES ASSUME Init PROVE DropInv
    OBVIOUS
  <2>1. OwnInv /\ KeyInv /\ TakenInv
    BY DEF Init, OwnInv, KeyInv, TakenInv
  <2> QED BY <2>1, InitTypeOK DEF DropInv
<1>2. DropInv /\ [Next]_vars => DropInv'
  BY NextTakes
<1>3. DropInv => NoRewardDropped
  BY DEF DropInv, TakenInv, Taken, NoRewardDropped
<1> QED BY <1>1, <1>2, <1>3, PTL DEF Spec

-----------------------------------------------------------------------------
(* The reserve is kept.                                                    *)

(* No event of ours tells of more than is paid.                            *)
NotOverstated == \A s \in Settlements : Own(s) => Reward[s] <= Paid[s]

Settled == UNION {Blocks[b] : b \in 1..block}

(* What is left of each reward.                                            *)
Net ==
    [s \in Settlements |-> Paid[s] - delegated[s] * StakeAmount(s)]

(* The wallet holds what it held, and what is left of the rewards.         *)
FundsInv == balance + spent = InitialBalance + SumFunctionOnSet(Net, Settled)

(* Only rewards of ours are taken up.                                      *)
StartedOwnInv == \A s \in Settlements : Started(s) => Own(s)

ReserveInv == IInv /\ TypeOK /\ StartedOwnInv /\ FundsInv

(* Sums over the blocks settled are sums of integers.                      *)
LEMMA NetType ==
    ASSUME TypeOK
    PROVE  /\ Net \in [Settlements -> Int] /\ KeptOf \in [Settlements -> Int]
           /\ Settled \in SUBSET Settlements
           /\ SumFunctionOnSet(Net, Settled) \in Int
           /\ balance \in Int /\ spent \in Int /\ InitialBalance \in Int
<1>1. ASSUME NEW s \in Settlements PROVE Paid[s] \in Int /\ StakeAmount(s) \in Int
  BY PaidType, StakeType
<1>2. Net \in [Settlements -> Int]
  <2>1. ASSUME NEW s \in Settlements PROVE delegated[s] * StakeAmount(s) \in Int
    BY <1>1 DEF TypeOK
  <2> QED BY <1>1, <2>1 DEF Net
<1>3. KeptOf \in [Settlements -> Int]
  BY <1>1, StakeType DEF KeptOf, Smaller
<1>4. Settled \in SUBSET Settlements
  <2>1. \A b \in 1..block : Blocks[b] \subseteq Settlements
    <3>1. block \in 0..Len(Blocks)
      BY TypeParts DEF RestOK
    <3>2. 1..block \subseteq BlockIds
      BY <3>1, BlockSets DEF BlockIds
    <3> QED BY <3>2, BlockSets
  <2> QED BY <2>1 DEF Settled
<1>5. SumFunctionOnSet(Net, Settled) \in Int
  BY <1>2, <1>4, SumInt, RewardAssumption
<1>6. balance \in Int /\ spent \in Int /\ InitialBalance \in Int
  BY RewardAssumption DEF TypeOK
<1> QED BY <1>2, <1>3, <1>4, <1>5, <1>6

(* Steps that move no money and take up nothing that is not ours.          *)
LEMMA FundsRest ==
    ASSUME FundsInv, UNCHANGED <<balance, spent, delegated, block>>
    PROVE  FundsInv'
<1>1. UNCHANGED <<Net, Settled>>
  BY DEF Net, Paid, StakeAmount, AtLeast0, Reward, Event, Settled
<1> QED BY <1>1 DEF FundsInv

(* A block is settled: none of its rewards was delegated.                  *)
LEMMA SettleFunds ==
    ASSUME ReserveInv, Settle
    PROVE  FundsInv'
<1> DEFINE B == Blocks[block + 1]
<1>1. block + 1 \in BlockIds /\ block \in Nat
  BY BlockSets DEF Settle, ReserveInv, TypeOK, BlockIds
<1>2. B \in SUBSET Settlements
  BY <1>1, BlockSets
<1>3. Settled \cap B = {}
  <2> SUFFICES ASSUME NEW b \in 1..block, NEW s \in Blocks[b], s \in B PROVE FALSE
    BY DEF Settled
  <2>1. b \in BlockIds /\ b # block + 1
    BY <1>1 DEF BlockIds
  <2> QED BY <1>1, <1>2, <2>1, BlockSets
<1>4. \A s \in B : Net[s] = Paid[s]
  <2> SUFFICES ASSUME NEW s \in B, delegated[s] # 0 PROVE FALSE
    BY <1>2, PaidType, StakeType DEF Net
  <2>0. delegated[s] > 0
    BY <1>2 DEF ReserveInv, TypeOK
  <2>1. PICK b \in pushed : s \in Blocks[b]
    BY <1>2, <2>0 DEF ReserveInv, IInv, PushedInv, Started
  <2>2. b \in 1..block
    BY <2>1 DEF ReserveInv, TypeOK
  <2>3. s \in Settled
    BY <2>1, <2>2 DEF Settled
  <2> QED BY <1>3, <2>3
<1>5. SumFunctionOnSet(Net, B) = SumFunctionOnSet(Paid, B)
  <2>1. Paid \in [Settlements -> Int] /\ Net \in [Settlements -> Int]
    BY PaidType, NetType DEF ReserveInv
  <2> QED BY <1>2, <1>4, <2>1, SumSame, RewardAssumption
<1>6. Settled' = Settled \cup B
  <2>1. 1..block' = (1..block) \cup {block + 1}
    BY <1>1 DEF Settle
  <2> QED BY <2>1 DEF Settled
<1>7. Net' = Net
  BY DEF Settle, history, Net, Paid, StakeAmount, AtLeast0, Reward, Event
<1>8. SumFunctionOnSet(Net, Settled \cup B)
          = SumFunctionOnSet(Net, Settled) + SumFunctionOnSet(Net, B)
  BY <1>2, <1>3, NetType, SumUnion, RewardAssumption DEF ReserveInv
<1>9. SumFunctionOnSet(Net, B) \in Int
  BY <1>2, NetType, SumInt, RewardAssumption DEF ReserveInv
<1>10. balance' = balance + SumFunctionOnSet(Paid, B) /\ spent' = spent
  BY DEF Settle, bounds
<1>11. SumFunctionOnSet(Net, Settled)' = SumFunctionOnSet(Net, Settled \cup B)
  BY <1>6, <1>7, Zenon
<1> HIDE DEF B
<1> QED BY <1>5, <1>8, <1>9, <1>10, <1>11, NetType DEF ReserveInv, FundsInv

(* A delegation executes, and takes its amount.                            *)
LEMMA ExecuteFunds ==
    ASSUME ReserveInv, NEW s \in Settlements, Execute(s), Started(s),
           UNCHANGED <<spent, block>>, TypeOK'
    PROVE  FundsInv'
<1>1. s \in Settled
  <2>1. PICK b \in pushed : s \in Blocks[b]
    BY DEF ReserveInv, IInv, PushedInv
  <2>2. b \in 1..block
    BY <2>1 DEF ReserveInv, TypeOK
  <2> QED BY <2>1, <2>2 DEF Settled
<1>2. Net \in [Settlements -> Int] /\ Settled \in SUBSET Settlements
      /\ SumFunctionOnSet(Net, Settled) \in Int
      /\ balance \in Int /\ spent \in Int /\ InitialBalance \in Int
  BY NetType DEF ReserveInv
<1>3. UNCHANGED Settled
  BY DEF Settled
<1>4. delegated \in [Settlements -> Nat] /\ delegated' = [delegated EXCEPT ![s] = @ + 1]
  BY TypeParts DEF ReserveInv, RestOK, Execute
<1>5. Net' = [t \in Settlements |-> Paid[t] - delegated'[t] * StakeAmount(t)]
  BY DEF Net, Paid, StakeAmount, AtLeast0, Reward, Event
<1>6. Paid[s] \in Int /\ StakeAmount(s) \in Int
  BY PaidType, StakeType
<1>7. Net'[s] = Net[s] - StakeAmount(s) /\ Net'[s] \in Int
  <2> DEFINE d == delegated[s]
             k == StakeAmount(s)
  <2>1. /\ Net[s] = Paid[s] - d * k /\ Net'[s] = Paid[s] - (d + 1) * k
        /\ d \in Int /\ k \in Int
    BY <1>4, <1>5, <1>6 DEF Net
  <2> HIDE DEF d
  <2>2. (d + 1) * k = d * k + k /\ d * k \in Int
    BY <2>1
  <2>3. Net'[s] = Net[s] - k /\ Net'[s] \in Int
    BY <1>6, <2>1, <2>2
  <2> QED BY <2>3
<1>8. \A t \in Settlements \ {s} : Net[t] = Net'[t]
  BY <1>4, <1>5 DEF Net
<1>9. Net' \in [Settlements -> Int]
  BY <1>2, <1>5, <1>7, <1>8
<1>10. SumFunctionOnSet(Net', Settled) = SumFunctionOnSet(Net, Settled) + Net'[s] - Net[s]
  <2>1. \A t \in Settled \ {s} : Net[t] = Net'[t]
    BY <1>2, <1>8
  <2> DEFINE before == Net
             after  == Net'
  <2>2. /\ before \in [Settlements -> Int] /\ after \in [Settlements -> Int]
        /\ \A t \in Settled \ {s} : before[t] = after[t]
        /\ Settled \in SUBSET Settlements /\ IsFiniteSet(Settlements)
    BY <1>2, <1>9, <2>1, RewardAssumption
  <2> HIDE DEF before, after
  <2>3. SumFunctionOnSet(after, Settled)
            = SumFunctionOnSet(before, Settled) + after[s] - before[s]
    BY <1>1, <2>2, SumChange
  <2> QED BY <2>3 DEF before, after
<1>11. SumFunctionOnSet(Net, Settled)' = SumFunctionOnSet(Net', Settled)
  BY <1>3, Zenon
<1>12. balance' = balance - StakeAmount(s) /\ Net[s] \in Int
  BY <1>2 DEF Execute
<1> QED BY <1>2, <1>6, <1>7, <1>10, <1>11, <1>12 DEF ReserveInv, FundsInv

(* What is taken up is ours.                                               *)
LEMMA StartedOwnKeeps ==
    ASSUME ReserveInv, [Next]_vars
    PROVE  StartedOwnInv'
<1>1. SUFFICES ASSUME NEW s \in Settlements, Started(s)', ~Own(s) PROVE FALSE
  BY DEF StartedOwnInv, Own
<1>2. ~Started(s)
  BY <1>1 DEF ReserveInv, StartedOwnInv
<1>3. stage[s] = "idle" /\ limbo[s] = 0 /\ delegated[s] = 0
  BY <1>2 DEF Started, ReserveInv, TypeOK
<1>4. ~UNCHANGED <<stage, limbo, delegated>>
  BY <1>1, <1>3 DEF Started
<1>5. CASE Crash
  <2>1. stage'[s] = "idle" /\ limbo'[s] = limbo[s] /\ delegated'[s] = delegated[s]
    BY <1>3, <1>5 DEF Crash
  <2> QED BY <1>1, <1>3, <2>1 DEF Started
<1>6. ASSUME NEW b \in 1..Len(Blocks), Deliver(b) PROVE FALSE
  <2>1. limbo' = limbo /\ delegated' = delegated /\ (stage'[s] # "idle" => Decides(s))
    BY <1>6 DEF Deliver
  <2> QED BY <1>1, <1>3, <2>1, DecidedIsOwn DEF Started
<1>7. ASSUME NEW t \in Settlements,
             BalanceAnswered(t) \/ Delegated(t) \/ DelegationFails(t) \/ LimboLands(t)
      PROVE  FALSE
  <2>1. s # t
    BY <1>3, <1>7 DEF BalanceAnswered, Delegated, DelegationFails, LimboLands
  <2>2. /\ stage \in [Settlements -> {"idle", "balance", "sent"}]
        /\ delegated \in [Settlements -> Nat] /\ limbo \in [Settlements -> Nat]
    BY TypeParts DEF ReserveInv, RestOK
  <2>3. stage'[s] = stage[s]
    <3>1. UNCHANGED stage \/ \E to \in {"idle", "sent"} : stage' = [stage EXCEPT ![t] = to]
      BY <1>7 DEF BalanceAnswered, Delegated, DelegationFails, LimboLands, Returns
    <3> QED BY <2>1, <2>2, <3>1
  <2>4. delegated'[s] = delegated[s]
    <3>1. UNCHANGED delegated \/ delegated' = [delegated EXCEPT ![t] = @ + 1]
      BY <1>7 DEF BalanceAnswered, Delegated, DelegationFails, LimboLands, Execute
    <3> QED BY <2>1, <2>2, <3>1
  <2>5. limbo'[s] = limbo[s]
    <3>1. \/ UNCHANGED limbo \/ limbo' = [limbo EXCEPT ![t] = @ + 1]
          \/ limbo' = [limbo EXCEPT ![t] = @ - 1]
      BY <1>7 DEF BalanceAnswered, Delegated, DelegationFails, LimboLands
    <3> QED BY <2>1, <2>2, <3>1
  <2> QED BY <1>1, <1>3, <2>3, <2>4, <2>5 DEF Started
<1>8. ~(Settle \/ Tick \/ Spend \/ Resubscribe \/ UNCHANGED vars)
  BY <1>4 DEF Settle, Tick, Spend, Resubscribe, history, vars
<1> QED BY <1>5, <1>6, <1>7, <1>8 DEF Next

(* Every step accounts for what it moves.                                  *)
LEMMA NextFunds ==
    ASSUME ReserveInv, [Next]_vars
    PROVE  ReserveInv'
<1>1. IInv' /\ TypeOK' /\ StartedOwnInv'
  BY NextKeeps, NextTyped, StartedOwnKeeps DEF ReserveInv
<1>2. CASE Settle
  BY <1>1, <1>2, SettleFunds DEF ReserveInv
<1>3. CASE Spend
  <2>1. /\ UNCHANGED <<block, delegated>>
        /\ spent' = spent + 1 /\ balance' = balance - 1
    BY <1>3 DEF Spend, history
  <2>2. UNCHANGED <<Net, Settled>>
    BY <2>1 DEF Net, Paid, StakeAmount, AtLeast0, Reward, Event, Settled
  <2>3. FundsInv'
    BY <2>1, <2>2, NetType DEF ReserveInv, FundsInv
  <2> QED BY <1>1, <2>3 DEF ReserveInv
<1>4. ASSUME NEW s \in Settlements,
             Delegated(s) \/ LimboLands(s), Execute(s)
      PROVE  ReserveInv'
  <2>1. Started(s) /\ UNCHANGED <<spent, block>>
    BY <1>4 DEF Delegated, LimboLands, Started, bounds
  <2> QED BY <1>1, <1>4, <2>1, ExecuteFunds DEF ReserveInv
<1>5. CASE UNCHANGED <<balance, spent, delegated, block>>
  BY <1>1, <1>5, FundsRest DEF ReserveInv
<1>6. ASSUME NEW s \in Settlements,
             BalanceAnswered(s) \/ Delegated(s) \/ DelegationFails(s) \/ LimboLands(s)
      PROVE  ReserveInv'
  <2>1. \/ (Delegated(s) \/ LimboLands(s)) /\ Execute(s)
        \/ UNCHANGED <<balance, spent, delegated, block>>
    BY <1>6 DEF BalanceAnswered, Delegated, DelegationFails, LimboLands, bounds
  <2> QED BY <1>4, <1>5, <2>1
<1>7. ASSUME NEW b \in 1..Len(Blocks), Deliver(b) PROVE ReserveInv'
  BY <1>5, <1>7 DEF Deliver
<1>8. CASE Tick \/ Resubscribe \/ Crash \/ UNCHANGED vars
  BY <1>5, <1>8 DEF Tick, Resubscribe, Crash, history, bounds, vars
<1> QED BY <1>2, <1>3, <1>6, <1>7, <1>8 DEF Next

(* At the start the wallet holds what it held.                             *)
LEMMA InitFunds == ASSUME Init PROVE ReserveInv
<1>1. StartedOwnInv
  BY DEF Init, StartedOwnInv, Started
<1>2. Settled = {} /\ balance = InitialBalance /\ spent = 0
  BY DEF Init, Settled
<1>3. SumFunctionOnSet(Net, Settled) = 0
  BY <1>2, SumNone, RewardAssumption
<1>4. FundsInv
  BY <1>2, <1>3, RewardAssumption DEF FundsInv
<1> QED BY <1>1, <1>4, InitIInv, InitTypeOK DEF ReserveInv

(* What is left of a reward that was not delegated twice is at least what  *)
(* is to be kept of it.                                                    *)
LEMMA NetKeeps ==
    ASSUME ReserveInv, NotOverstated
    PROVE  ReserveKept
<1> SUFFICES ASSUME \A s \in Settlements : delegated[s] <= 1
             PROVE  balance + spent >= InitialBalance + SumFunctionOnSet(KeptOf, Settled)
  BY DEF ReserveKept, Settled
<1>1. ASSUME NEW s \in Settlements PROVE KeptOf[s] <= Net[s]
  <2>1. Paid[s] \in Nat /\ AtLeast0(Reserve) \in Nat /\ Reward[s] \in Int
    BY PaidType, StakeType, RewardsCounted
  <2>2. /\ delegated[s] = 1 => Own(s) /\ Reward[s] <= Paid[s]
        /\ delegated[s] \in {0, 1}
    BY DEF ReserveInv, StartedOwnInv, Started, NotOverstated, TypeOK
  <2> DEFINE r == AtLeast0(Reserve)
  <2>3. KeptOf[s] = IF Own(s) THEN Smaller(Paid[s], r) ELSE Paid[s]
    BY DEF KeptOf
  <2>4. Net[s] = IF delegated[s] = 1 THEN Paid[s] - AtLeast0(Reward[s] - r) ELSE Paid[s]
    <3>1. StakeAmount(s) = AtLeast0(Reward[s] - r) /\ StakeAmount(s) \in Int
      BY StakeType DEF StakeAmount
    <3>2. Net[s] = Paid[s] - delegated[s] * StakeAmount(s)
      BY DEF Net
    <3> HIDE DEF r
    <3> QED BY <2>1, <2>2, <3>1, <3>2
  <2>5. r \in Nat
    BY <2>1
  <2> HIDE DEF r
  <2> QED BY <2>1, <2>2, <2>3, <2>4, <2>5 DEF AtLeast0, Smaller
<1>2. Net \in [Settlements -> Int] /\ KeptOf \in [Settlements -> Int]
      /\ Settled \in SUBSET Settlements
  BY NetType DEF ReserveInv
<1>3. SumFunctionOnSet(KeptOf, Settled) <= SumFunctionOnSet(Net, Settled)
  <2>1. \A s \in Settled : KeptOf[s] <= Net[s]
    BY <1>1, <1>2
  <2> QED BY <1>2, <2>1, SumMono, RewardAssumption
<1>4. SumFunctionOnSet(KeptOf, Settled) \in Int
  BY <1>2, SumInt, RewardAssumption
<1> QED BY <1>3, <1>4, NetType DEF ReserveInv, FundsInv

(* With events that tell of no more than is paid, delegations never touch  *)
(* the reserve of any reward or what the wallet held before, as long as    *)
(* none is delegated twice (compute_stake_amount_uallo): the sum over      *)
(* every reward paid of what is to be left of it is in the wallet, or went *)
(* into fees.                                                              *)
THEOREM ReserveHeld == NotOverstated => (Spec => []ReserveKept)
<1> SUFFICES ASSUME NotOverstated PROVE Spec => []ReserveKept
  OBVIOUS
<1>1. Init => ReserveInv
  BY InitFunds
<1>2. ReserveInv /\ [Next]_vars => ReserveInv'
  BY NextFunds
<1>3. ReserveInv => ReserveKept
  BY NetKeeps
<1> QED BY <1>1, <1>2, <1>3, PTL DEF Spec

-----------------------------------------------------------------------------
(* Decoding.                                                               *)

(* A text spells x, with quotes around it or without.                      *)
Spells(text, x) == text = x \/ text = <<"quoted", x>>

(* The amounts a reward is written as: a decimal, or an integer.           *)
SpellsTenths(text, t) ==
    \/ Spells(text, <<"dec", t>>)
    \/ \E n \in Nat : t = 10 * n /\ Spells(text, <<"int", n>>)

(* The event of a settlement, as the chain writes it: the topic and the    *)
(* actor, which is left out when it is the default, and two arrays with    *)
(* our wallet and our reward in the same place.                            *)
WrittenTruly(s) ==
    /\ Spells(Wire[s].topic_id, <<"int", Truth[s].topic>>)
    /\ \/ Spells(Wire[s].actor_type, <<"word", Truth[s].actor>>)
       \/ Wire[s].actor_type = Absent /\ Truth[s].actor = "inferer"
    /\ \E who, amounts :
           /\ Spells(Wire[s].addresses, <<"list", who>>)
           /\ Spells(Wire[s].rewards, <<"list", amounts>>)
           /\ \E i \in DOMAIN who \cap DOMAIN amounts :
                  /\ i \in Nat /\ \A j \in DOMAIN who : j \in Nat
                  /\ \A j \in DOMAIN who :
                         StripQuotes(who[j]) = <<"word", Wallet>> <=> i = j
                  /\ SpellsTenths(amounts[i], Truth[s].tenths)

Written == \A s \in Settlements : Own(s) => WrittenTruly(s)

(* Quotes are stripped from what they surround, and from nothing else.     *)
LEMMA Stripped ==
    ASSUME NEW kind \in {"int", "dec", "word", "list"}, NEW x, NEW text,
           Spells(text, <<kind, x>>)
    PROVE  StripQuotes(text) = <<kind, x>> /\ text # Absent
<1>1. CASE text = <<kind, x>>
  BY <1>1 DEF StripQuotes, Absent
<1>2. CASE text = <<"quoted", <<kind, x>>>>
  BY <1>2 DEF StripQuotes, Absent
<1> QED BY <1>1, <1>2 DEF Spells

(* The topic is read as the condition reads it.                            *)
LEMMA TopicDecoded ==
    ASSUME NEW s \in Settlements, Own(s), WrittenTruly(s)
    PROVE  Event[s].topic_id = <<"int", Topic>> /\ MatchesTopic(Event[s], Topic)
<1> DEFINE text == Wire[s].topic_id
<1>1. Spells(text, <<"int", Topic>>)
  BY DEF WrittenTruly, Own
<1>2. StripQuotes(text) = <<"int", Topic>> /\ text # Absent
  BY <1>1, Stripped
<1>3. Event[s].topic_id = Field(text, <<"int", 0>>, ParseInt(text))
  BY DEF Event, Marshal
<1> HIDE DEF text
<1>4. ParseInt(text) = <<"int", Topic>>
  BY <1>2 DEF ParseInt
<1>5. ParseInt(<<"quoted", <<"int", Topic>>>>) = <<"int", Topic>>
  BY DEF ParseInt, StripQuotes
<1> QED BY <1>2, <1>3, <1>4, <1>5 DEF Field, MatchesTopic

(* So is the actor.                                                        *)
LEMMA ActorDecoded ==
    ASSUME NEW s \in Settlements, Own(s), WrittenTruly(s)
    PROVE  NormalizeActorType(Event[s].actor_type) = Role
<1> DEFINE text == Wire[s].actor_type
<1>1. Event[s].actor_type = Field(text, <<"word", "inferer">>, ParseEnum(text))
  BY DEF Event, Marshal
<1>2. Spells(text, <<"word", Role>>) \/ (text = Absent /\ Role = "inferer")
  BY DEF WrittenTruly, Own
<1> HIDE DEF text
<1>3. CASE Spells(text, <<"word", Role>>)
  <2>1. StripQuotes(text) = <<"word", Role>> /\ text # Absent
    BY <1>3, Stripped
  <2> QED BY <1>1, <2>1 DEF Field, ParseEnum, NormalizeActorType
<1>4. CASE text = Absent /\ Role = "inferer"
  <2>1. Event[s].actor_type = <<"word", Role>>
    BY <1>1, <1>4 DEF Field
  <2> QED BY <2>1 DEF NormalizeActorType, StripQuotes
<1> QED BY <1>2, <1>3, <1>4

(* An array is read element by element.                                    *)
LEMMA ListDecoded ==
    ASSUME NEW list, NEW text, Spells(text, <<"list", list>>)
    PROVE  Field(text, <<"list", <<>>>>, ParseStrs(text))
               = <<"list", [i \in DOMAIN list |-> StripQuotes(list[i])]>>
<1>1. StripQuotes(text) = <<"list", list>> /\ text # Absent
  BY Stripped
<1> QED BY <1>1 DEF Field, ParseStrs

(* The amount is read in whole units.                                      *)
LEMMA AmountDecoded ==
    ASSUME NEW t \in Nat, NEW text, SpellsTenths(text, t)
    PROVE  Truncated(StripQuotes(text)) = t \div 10
<1>1. CASE Spells(text, <<"dec", t>>)
  <2>1. StripQuotes(text) = <<"dec", t>>
    BY <1>1, Stripped
  <2> QED BY <2>1 DEF Truncated
<1>2. ASSUME NEW n \in Nat, t = 10 * n, Spells(text, <<"int", n>>)
      PROVE  Truncated(StripQuotes(text)) = t \div 10
  <2>1. StripQuotes(text) = <<"int", n>>
    BY <1>2, Stripped
  <2>2. (10 * n) \div 10 = n
    OBVIOUS
  <2> QED BY <1>2, <2>1, <2>2 DEF Truncated
<1> QED BY <1>1, <1>2 DEF SpellsTenths

(* Our reward is found and read.                                           *)
LEMMA RewardDecoded ==
    ASSUME NEW s \in Settlements, Own(s), WrittenTruly(s)
    PROVE  Reward[s] = Paid[s]
<1>1. PICK who, amounts :
          /\ Spells(Wire[s].addresses, <<"list", who>>)
          /\ Spells(Wire[s].rewards, <<"list", amounts>>)
          /\ \E i \in DOMAIN who \cap DOMAIN amounts :
                  /\ i \in Nat /\ \A j \in DOMAIN who : j \in Nat
                  /\ \A j \in DOMAIN who :
                         StripQuotes(who[j]) = <<"word", Wallet>> <=> i = j
                  /\ SpellsTenths(amounts[i], Truth[s].tenths)
  BY DEF WrittenTruly
<1>2. PICK i \in DOMAIN who \cap DOMAIN amounts :
          /\ i \in Nat /\ \A j \in DOMAIN who : j \in Nat
          /\ \A j \in DOMAIN who : StripQuotes(who[j]) = <<"word", Wallet>> <=> i = j
          /\ SpellsTenths(amounts[i], Truth[s].tenths)
  BY <1>1
<1> DEFINE a == [j \in DOMAIN who |-> StripQuotes(who[j])]
           r == [j \in DOMAIN amounts |-> StripQuotes(amounts[j])]
<1>3. Event[s].addresses = <<"list", a>> /\ Event[s].rewards = <<"list", r>>
  <2>1. /\ Event[s].addresses = Field(Wire[s].addresses, <<"list", <<>>>>,
                                      ParseStrs(Wire[s].addresses))
        /\ Event[s].rewards = Field(Wire[s].rewards, <<"list", <<>>>>,
                                    ParseStrs(Wire[s].rewards))
    BY DEF Event, Marshal
  <2> QED BY <1>1, <2>1, ListDecoded
<1>4. \A j \in DOMAIN a : a[j] = <<"word", Wallet>> <=> i = j
  BY <1>2
<1>5. i \in DOMAIN a /\ i \in DOMAIN r /\ r[i] = StripQuotes(amounts[i])
  BY <1>2
<1> HIDE DEF a, r
<1> DEFINE found == {j \in DOMAIN a : a[j] = <<"word", Wallet>>}
           first == CHOOSE j \in found : \A k \in found : j <= k
<1>6. found = {i}
  BY <1>4, <1>5
<1>7. first = i
  <2>1. i \in found /\ \A k \in found : i <= k
    BY <1>2, <1>6
  <2>2. first \in found
    BY <2>1
  <2> QED BY <1>6, <2>2
<1>8. Reward[s] = IF found = {} \/ first \notin DOMAIN r THEN 0 ELSE Truncated(r[first])
  <2>1. Event[s].addresses[2] = a /\ Event[s].rewards[2] = r
    BY <1>3
  <2>2. Reward[s] = ExtractReward(Event[s], Wallet)
    BY DEF Reward
  <2> QED BY <2>1, <2>2, Zenon DEF ExtractReward
<1> HIDE DEF found, first
<1>9. Reward[s] = Truncated(StripQuotes(amounts[i]))
  BY <1>5, <1>6, <1>7, <1>8
<1>10. Truth[s].tenths \in Nat
  BY RewardAssumption
<1> QED BY <1>2, <1>9, <1>10, AmountDecoded DEF Paid

(* Quotes, defaults, arrays and the two ways to write an amount: what the  *)
(* chain writes of our settlements is read as what it settles.             *)
THEOREM EventsDecoded == Written => Decoded
BY TopicDecoded, ActorDecoded, RewardDecoded DEF Written, Decoded, Addressed
=============================================================================
