----------------------------- MODULE MCSession -----------------------------
(* Instances of Session for TLC: small counters, and which of the few      *)
(* events of a session cannot be decoded.                                  *)
EXTENDS Session

AllDecodable == {}
FourthUndecodable == {4}
=============================================================================
