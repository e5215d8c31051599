-------------------------- MODULE MCRewardDelegation --------------------------
(* Small instances of RewardDelegation for TLC.                            *)
EXTENDS RewardDelegation, TLC

CONSTANTS a, b1, b2, c, x   \* settlements: a, b1, b2 are ours
Quote(text) == <<"quoted", text>>
Text(topic, actor, nonce, who, amounts) ==
    [topic_id |-> topic, actor_type |-> actor, block_height |-> nonce,
     addresses |-> <<"list", who>>, rewards |-> <<"list", amounts>>]
Num(n) == <<"int", n>>
Us     == <<"word", "us">>
Them   == <<"word", "them">>

MCBlocks == <<{a, c}, {b1, b2, x}>>
MCTruth ==
       a  :> [topic |-> 5, actor |-> "forecaster", tenths |-> 25]
    @@ b1 :> [topic |-> 5, actor |-> "forecaster", tenths |-> 25]
    @@ b2 :> [topic |-> 5, actor |-> "forecaster", tenths |-> 40]
    @@ c  :> [topic |-> 5, actor |-> "inferer", tenths |-> 25]
    @@ x  :> [topic |-> 6, actor |-> "forecaster", tenths |-> 30]
MCWire ==
       a  :> Text(Quote(Num(5)), Quote(<<"word", "forecaster">>), Quote(Num(1)),
                  <<Quote(Them), Quote(Us)>>, <<Quote(Num(9)), Quote(<<"dec", 25>>)>>)
    @@ b1 :> Text(Quote(Num(5)), Quote(<<"word", "forecaster">>), Quote(Num(2)),
                  <<Quote(Us)>>, <<Quote(<<"dec", 25>>)>>)
    @@ b2 :> Text(Num(5), <<"word", "forecaster">>, Num(3), <<Us, Them>>, <<Num(4), Num(1)>>)
    @@ c  :> Text(Quote(Num(5)), Absent, Quote(Num(1)), <<Quote(Us)>>, <<Quote(<<"dec", 25>>)>>)
    @@ x  :> Text(Quote(Num(6)), Quote(<<"word", "forecaster">>), Quote(Num(2)),
                  <<Quote(Us)>>, <<Quote(Num(3))>>)
=============================================================================
