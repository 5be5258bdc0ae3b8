----------------------------- MODULE VoiceSystem -----------------------------
(***************************************************************************)
(* The player of a guild together with the voice connections it spawns one *)
(* after another (src/src/voice/player.rs, connection.rs).  A connection   *)
(* is three detached tasks and an event channel.  To let go of it the      *)
(* player drops its end of the channel and the frame sender it got from    *)
(* it; the tasks are not told and go on until they notice, possibly while  *)
(* a successor is already being set up.                                    *)
(*                                                                         *)
(* The player's side is Player.  Of the connections only the contract      *)
(* VoiceLink is used here, which VoiceConnection implements.               *)
(***************************************************************************)
EXTENDS Player

CONSTANT MaxLinks  \* bound: connections spawned

ASSUME VoiceSystemAssumption == MaxLinks \in Nat

VARIABLES
    spawned,  \* connections spawned so far: they are 1..spawned
    source,   \* the one whose channel conn_event_recv is, or 0
    sender,   \* of each connection: where its frame sender is, and which of
    tasks,    \* its tasks still run; see VoiceLink
    \* History, read by no action's guard.
    before,   \* connections spawned when credentials were last given up
    cutOff    \* idle since a connection ended by itself

linkVars == <<spawned, source, sender, tasks, before, cutOff>>
systemVars == <<vars, linkVars>>

Links == 1..MaxLinks

Link(l) == INSTANCE VoiceLink WITH
               sender <- sender[l], tasks <- tasks[l], listening <- (l = source)

SystemInit ==
    /\ Init
    /\ spawned = 0 /\ source = 0 /\ before = 0
    /\ sender = [l \in Links |-> "none"]
    /\ tasks = [l \in Links |-> "open"]
    /\ cutOff = FALSE

-----------------------------------------------------------------------------
(* What a step of the player means for its connections.                    *)

(* Connection::spawn in on_update.                                         *)
Spawns == conn = "none" /\ conn' # "none"

(* A frame sender that the player takes from the channel it reads.         *)
Taken(l) == FrameSender /\ l = source

(* One that is dropped, with its channel or with what voice_send was.      *)
Dropped(l) ==
    \/ sender[l] = "offered" /\ l # source'
    \/ sender[l] = "held" /\ (FrameSender \/ ~voiceSend')

Follow ==
    /\ FrameSender => sender[source] = "offered"
    /\ ConnectionClosed => Link(source)!Drained
    /\ spawned' = IF Spawns THEN spawned + 1 ELSE spawned
    /\ spawned' <= MaxLinks
    /\ source' = IF Spawns THEN spawned' ELSE IF conn' = "none" THEN 0 ELSE source
    /\ sender' = [l \in Links |-> IF Taken(l) THEN "held"
                                  ELSE IF Dropped(l) THEN "none" ELSE sender[l]]
    /\ before' = IF token' THEN before ELSE spawned'
    /\ cutOff' = (ConnectionClosed \/ (cutOff /\ state' = "Idle"))
    /\ UNCHANGED tasks

(* A connection's tasks move, whether or not anybody listens.              *)
Connection(l) ==
    /\ l <= spawned
    /\ UNCHANGED <<vars, spawned, source, before, cutOff>>
    /\ \E s \in {"none", "offered", "held"} : sender' = [sender EXCEPT ![l] = s]
    /\ \E t \in {"open", "closing", "gone"} : tasks' = [tasks EXCEPT ![l] = t]
    /\ Link(l)!Tasks

SystemNext == (Next /\ Follow) \/ \E l \in Links : Connection(l)

SystemSpec == SystemInit /\ [][SystemNext]_systemVars

(***************************************************************************)
(* Fairness: the player's (see Player), and that of the contract, by which *)
(* a connection the player let go of comes to its end (see VoiceLink).     *)
(***************************************************************************)
SystemFairSpec ==
    /\ SystemSpec
    /\ WF_systemVars(OnUpdate /\ Follow) /\ WF_systemVars(OnControl /\ Follow)
    /\ WF_systemVars(ConnectTimeout /\ Follow) /\ WF_systemVars(Deliver /\ Follow)
    /\ WF_systemVars(Proceed /\ Follow) /\ WF_systemVars(End /\ Follow)
    /\ WF_systemVars(ReadEvent /\ Follow) /\ WF_systemVars(Serve /\ Follow)
    /\ \A l \in Links : WF_systemVars(l # source /\ Connection(l))

-----------------------------------------------------------------------------
(* However late old connections come up, whatever their successors do,     *)
(* voice frames go nowhere but to the connection the player listens to,    *)
(* and that one was made since credentials were last given up: never to    *)
(* the server of a channel it left or of an attempt it ended (player.rs:   *)
(* 266-271, 314-319, 378-381).  While it is connected they do go there.    *)
AudioIsCurrent ==
    /\ voiceSend => \E l \in 1..spawned : sender[l] = "held"
    /\ \A l \in 1..spawned : sender[l] = "held" => l = source /\ l > before

(* An idle player that has digested all news and lost none is in no voice  *)
(* channel.  The one exception is a connection that ended by itself: the   *)
(* player goes to Idle and leaves us in the channel (player.rs:387-391),   *)
(* unlike the timeout, a lost server and a Disconnect (player.rs:295-300,  *)
(* 337-340, 411-418).                                                      *)
IdleMeansGone ==
    (Settled /\ state = "Idle" /\ handles /\ ~missed /\ ~cutOff) => member = None

Over == state = "Ended" /\ \A l \in 1..spawned : tasks[l] = "gone"

(* Dropping the handles, and a Shutdown once it is taken, end the player   *)
(* and with it every connection it spawned, also those it had replaced     *)
(* before, however full its channels are (player.rs:16-23, 362-371).       *)
EverythingEnds == (~handles \/ state = "Shutdown") ~> Over
=============================================================================
