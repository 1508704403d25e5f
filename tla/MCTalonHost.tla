---------------------------- MODULE MCTalonHost ----------------------------
(* Instances of TalonHost. *)
EXTENDS TalonHost, TLC

CONSTANTS c1, c2, c3

OneChannel == <<"telegram">>
TwoChannels == <<"telegram", "whatsapp">>
OneConv == {"telegram:1"}
TwoConvs == {"telegram:1", "whatsapp:1"}
ChannelOfOne == [v \in OneConv |-> "telegram"]
ChannelOfTwo == [v \in TwoConvs |-> IF v = "telegram:1" THEN "telegram" ELSE "whatsapp"]
OneSender == {"ann"}
TwoSenders == {"ann", "bob"}
MostKinds == {"text", "/stop", "approve"}
StopKinds == {"text", "/stop"}
ApproveKinds == {"text", "approve"}
Sym == Permutations(Calls)
=============================================================================
