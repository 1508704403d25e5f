------------------------------ MODULE MCGraph ------------------------------
(* Instances of Graph for TLC. *)
EXTENDS Graph

CONSTANTS a, b, t

MCTokens == {a, b}

Normal(v) == [over |-> FALSE, val |-> v]
Over(v) == [over |-> TRUE, val |-> v]

Message(v) == [NoUpdate EXCEPT !["messages"] = <<Normal(v)>>]
Batch == [NoUpdate EXCEPT !["messages"] = <<Normal(b), Normal(a)>>]
Reset == [NoUpdate EXCEPT !["messages"] = <<Over(b)>>]
Status(v) == [NoUpdate EXCEPT !["status"] = <<Normal(v)>>]
Mixed == [eph |-> <<Normal(a)>>, messages |-> <<Normal(a)>>, status |-> <<Normal(b)>>]

UpdatesCore == {NoUpdate, Message(a), Reset, Mixed}
UpdatesPair == {Batch, Status(a)}
UpdatesOne == {NoUpdate, Message(a)}
UpdatesTwo == {NoUpdate, Message(a), Message(b)}

PlansOne == {<<>>, <<"n">>}
PlansTwo == {<<>>, <<"n", "m">>}
StartOne == <<"n">>
StartTwo == <<"n", "m">>
=============================================================================
