------------------------------- MODULE MCGuild -------------------------------
(* A small guild for TLC.  Users, command ids and names are interchangeable. *)
EXTENDS Guild, TLC

CONSTANTS u1, u2, a, b, x, y

TwoUsers == {u1, u2}
TwoCommands == {a, b}
TwoNames == {x, y}
Once == {1}
Swaps == Permutations(TwoUsers) \cup Permutations(TwoCommands) \cup Permutations(TwoNames)
=============================================================================
