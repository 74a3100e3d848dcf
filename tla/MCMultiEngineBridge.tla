------------------------ MODULE MCMultiEngineBridge -------------------------
(* Two engines of one timeframe, so that a bar runs both. *)
EXTENDS MultiEngineBridge

CONSTANTS e1, e2

OneTf    == <<"5m">>
OneByTf  == [t \in {"5m"} |-> <<e1, e2>>]
Both     == <<e1, e2>>
=============================================================================
