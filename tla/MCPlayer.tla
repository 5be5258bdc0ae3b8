------------------------------ MODULE MCPlayer ------------------------------
(* Instances of Player for TLC: which unsolicited news may come.           *)
EXTENDS Player, TLC

CONSTANTS a, b

TwoChannels == {a, b}
OneChannel == {a}
AllNews == NewsKinds
NoNews == {}
Moving == {"kick", "move", "server lost", "stranger"}
Swap == Permutations(TwoChannels)
=============================================================================
