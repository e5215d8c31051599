---------------------------- MODULE EventDecoding ----------------------------
(***************************************************************************)
(* From the attributes of a Tendermint event to a typed event and to what  *)
(* a reward handler reads of it: EventMarshaler (rpc_client/event_utils.py)*)
(* the typed condition of client_websocket_events.py, and the extraction   *)
(* of worker/autostake.py, for EventRewardsSettled.                        *)
(*                                                                         *)
(* A text is abstracted to what it spells: <<"int", n>>, <<"dec", t>> (t   *)
(* tenths), <<"word", w>>, <<"list", s>> (a JSON array), or <<"quoted", x>>*)
(* when it is x in outer quotes.  A missing attribute is <<"absent">>.     *)
(***************************************************************************)
EXTENDS Integers, Sequences

Absent == <<"absent">>

StripQuotes(text) == IF text[1] = "quoted" THEN text[2] ELSE text

(* The parsers of _build_parser.  Leniently, what is no int is kept as it  *)
(* came; what is no array becomes an array of one.                         *)
ParseInt(text) ==
    IF StripQuotes(text)[1] = "int" THEN StripQuotes(text) ELSE text

ParseStrs(text) ==
    LET s == StripQuotes(text) IN
    IF s[1] = "list" THEN <<"list", [i \in DOMAIN s[2] |-> StripQuotes(s[2][i])]>>
    ELSE <<"list", <<s>>>>

(* No parser knows the enums: the text is kept, its quotes included.       *)
ParseEnum(text) == text

Field(text, default, parsed) == IF text = Absent THEN default ELSE parsed

(* marshal_event, of an EventRewardsSettled.                               *)
Marshal(wire) ==
    [topic_id     |-> Field(wire.topic_id, <<"int", 0>>, ParseInt(wire.topic_id)),
     actor_type   |-> Field(wire.actor_type, <<"word", "inferer">>, ParseEnum(wire.actor_type)),
     block_height |-> Field(wire.block_height, <<"int", 0>>, ParseInt(wire.block_height)),
     addresses    |-> Field(wire.addresses, <<"list", <<>>>>, ParseStrs(wire.addresses)),
     rewards      |-> Field(wire.rewards, <<"list", <<>>>>, ParseStrs(wire.rewards))]

(* _event_matches_conditions_typed, of topic_id = '"topic"': the condition *)
(* is coerced to the type of the field.                                    *)
MatchesTopic(event, topic) ==
    event.topic_id = ParseInt(<<"quoted", <<"int", topic>>>>)

NormalizeActorType(text) == StripQuotes(text)[2]

(* int(raw) of a reward, truncated towards zero; 0 if it is no number.     *)
Truncated(text) ==
    CASE text[1] = "int" -> text[2]
      [] text[1] = "dec" -> IF text[2] >= 0 THEN text[2] \div 10 ELSE -((-text[2]) \div 10)
      [] OTHER -> 0

(* extract_reward_amount_uallo; 0 if the wallet has no reward here.        *)
ExtractReward(event, wallet) ==
    LET found == {i \in DOMAIN event.addresses[2] : event.addresses[2][i] = <<"word", wallet>>}
        first == CHOOSE i \in found : \A j \in found : i <= j
    IN IF found = {} \/ first \notin DOMAIN event.rewards[2] THEN 0
       ELSE Truncated(event.rewards[2][first])
=============================================================================
