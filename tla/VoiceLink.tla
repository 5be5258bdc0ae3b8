------------------------------ MODULE VoiceLink ------------------------------
(***************************************************************************)
(* What the voice player may rely on when it has spawned a voice           *)
(* connection.  Its tasks offer one sender for voice frames, or none, and  *)
(* only to a player that listens; they may end at any time, and come to    *)
(* an end once the player let go of the connection.  The player takes the  *)
(* sender from the event channel, and lets go of channel and sender        *)
(* together; the tasks are not told, and go on until they notice.          *)
(***************************************************************************)
VARIABLES
    sender,    \* the frame sender: "none" the player could get at, "offered"
               \* in the event channel, or "held" by the player
    tasks,     \* "open", "closing" once the event channel has no sender left,
               \* "gone" when nothing started for the connection runs
    listening  \* the player holds the connection's event channel

vars == <<sender, tasks, listening>>

Init == sender = "none" /\ tasks = "open" /\ listening = TRUE

Offers ==
    /\ tasks = "open" /\ listening /\ sender = "none"
    /\ sender' = "offered"
    /\ UNCHANGED <<tasks, listening>>

Closes ==
    /\ tasks = "open"
    /\ tasks' \in {"closing", "gone"}
    /\ UNCHANGED <<sender, listening>>

Dies ==
    /\ tasks = "closing"
    /\ tasks' = "gone"
    /\ UNCHANGED <<sender, listening>>

Takes ==
    /\ listening /\ sender = "offered"
    /\ sender' = "held"
    /\ UNCHANGED <<tasks, listening>>

LetsGo ==
    /\ listening
    /\ listening' = FALSE /\ sender' = "none"
    /\ UNCHANGED tasks

(* The event channel is drained and closed.                                *)
Drained == tasks # "open" /\ sender # "offered"

Tasks == Offers \/ Closes \/ Dies

Next == Tasks \/ Takes \/ LetsGo

Spec == Init /\ [][Next]_vars

FairSpec == Spec /\ WF_vars(~listening /\ Tasks)
=============================================================================
