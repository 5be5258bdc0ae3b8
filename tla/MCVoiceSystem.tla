---------------------------- MODULE MCVoiceSystem ----------------------------
(* The instance of VoiceSystem for TLC: one channel, so nobody is moved.   *)
EXTENDS VoiceSystem

CONSTANT a

OneChannel == {a}
SomeNews == {"kick", "server lost"}
=============================================================================
