-------------------------- MODULE MCVoiceConnection --------------------------
(* The voice connection on small event channels.                           *)
EXTENDS VoiceConnection
=============================================================================
