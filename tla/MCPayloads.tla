------------------------------ MODULE MCPayloads -------------------------------
(* Two reputers of two accounts on one topic, an inferer and a forecaster. *)
EXTENDS Payloads, TLC

CONSTANTS r1, r2, i1, f1

MCAccount == (r1 :> "A") @@ (i1 :> "A") @@ (f1 :> "A") @@ (r2 :> "B")
MCTopic   == [w \in {r1, r2, i1, f1} |-> 1]

Dec(neg, digits, exponent) ==
    [finite |-> TRUE, neg |-> neg, digits |-> digits, exponent |-> exponent]

MCValues   == {<<"combined">>, <<"naive">>, <<"inferer_values", "i1">>}
MCWithheld == {<<"f1", "i1">>, <<"f1", "i2">>, <<"f2", "i1">>}

(* Losses that differ by nonce and revision, in every form of the text; a  *)
(* revised truth of nonce 2 makes one infinite.                            *)
MCLoss(s, reading) ==
    LET n == reading[1][2]
        d == 3 * n + reading[2]
    IN  CASE s = <<"combined">> -> Dec(FALSE, <<d>>, -7)
          [] s = <<"naive">> -> IF d = 7 THEN NotFinite ELSE Dec(TRUE, <<0>>, -3)
          [] s = <<"inferer_values", "i1">> -> Dec(TRUE, <<d, 5, 0>>, -2)
          [] s = <<"f1", "i1">> -> Dec(FALSE, <<1, d>>, 2)
          [] s = <<"f1", "i2">> -> Dec(FALSE, <<d, 0>>, 0)
          [] s = <<"f2", "i1">> -> Dec(TRUE, <<d, 0, 1>>, -5)

MCPredictions ==
    {"y" :> Dec(FALSE, <<1, 2>>, -8), "y" :> NotFinite,
     ("a" :> Dec(TRUE, <<2, 0>>, -1)) @@ ("b" :> Dec(FALSE, <<0>>, -2001))}

MCForecasts ==
    {<<>>, "i1" :> NotFinite,
     ("i1" :> Dec(TRUE, <<4, 0>>, -9)) @@ ("i2" :> Dec(FALSE, <<7>>, 3))}
================================================================================
