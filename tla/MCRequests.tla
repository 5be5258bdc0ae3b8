----------------------------- MODULE MCRequests -----------------------------
(* Two calls, one operation of each way of being answered.                 *)
EXTENDS Requests

CONSTANTS c1, c2

TwoCalls == {c1, c2}
SomeOps == {"reactions", "delete", "respond", "callback"}
SomeParts == {"rows", "ephemeral"}
SomeRejections == {403, 404}
SomeFailures == {502}
=============================================================================
