------------------------------- MODULE Player -------------------------------
(***************************************************************************)
(* The voice player of a guild (src/src/voice/player.rs): one task that    *)
(* owns the wish to be in a voice channel, the credentials the gateway     *)
(* delivers for it, the voice connection it spawns from them, and the      *)
(* stream being played.  It is driven by five inputs selected in random    *)
(* order: updates from the gateway (Updater), controls from the            *)
(* application (Controller), events of the voice connection, the encoder   *)
(* and a connect timeout.  It talks back through a bounded event channel   *)
(* (Listener) and through voice state requests to the gateway.             *)
(*                                                                         *)
(* Discord is external: it serves a request by an update of our voice      *)
(* state, followed by the voice server to use when we are in a channel,    *)
(* and may kick or move us, lose the server or the guild at any time.      *)
(***************************************************************************)
EXTENDS Integers, Sequences

CONSTANTS
    Channels,     \* voice channels of the guild
    None,         \* no channel, no request, no event
    News,         \* unsolicited things the gateway may report
    MaxControls,  \* bound: controls the application issues
    MaxNews,      \* bound: unsolicited updates
    UpdateCap,    \* capacity of the Updater's channel
    ControlCap,   \* capacity of the Controller's channel
    EventCap,     \* capacity of the event channel
    RequestCap    \* free slots of the gateway command channel

NewsKinds == {"kick", "move", "server lost", "offline", "online",
              "invalidated", "stranger"}

ASSUME PlayerAssumption ==
    /\ None \notin Channels
    /\ News \subseteq NewsKinds
    /\ MaxControls \in Nat /\ MaxNews \in Nat
    /\ UpdateCap \in Nat \ {0} /\ ControlCap \in Nat \ {0}
    /\ EventCap \in Nat \ {0} /\ RequestCap \in Nat \ {0}

VARIABLES
    state,      \* State, and "Ended" once run() returned
    channel,    \* channel_id
    session,    \* is a session_id, a token, an endpoint known?
    token,
    endpoint,
    timer,      \* connect_timeout is armed
    conn,       \* conn_event_recv: "none", or a connection "starting" or "up"
    voiceSend,  \* voice_send is set
    encoder,    \* a stream is being encoded
    outbox,     \* the event emit_event is awaiting room for
    after,      \* the voice state request to make once it is sent
    updates,    \* the Updater's channel
    controls,   \* the Controller's channel
    events,     \* events the Listener has not received
    listening,  \* the Listener exists
    handles,    \* the Updater and a Controller exist
    requests,   \* voice state requests on their way to Discord
    member,     \* Discord: the channel we are in
    issued,     \* controls issued and unsolicited updates so far
    reported,
    \* History, read by no action's guard.
    wish,       \* what the last Connect, Disconnect or Shutdown asked for
    view,       \* what the events so far say: "off", "on" or "playing"
    missed      \* an update or a request was dropped at a full channel

connVars   == <<conn, voiceSend, timer>>
credVars   == <<channel, session, token, endpoint>>
emitVars   == <<outbox, after, view>>
worldVars  == <<member, issued, reported>>
appVars    == <<listening, handles>>
vars == <<state, connVars, credVars, encoder, emitVars, updates, controls, events,
          appVars, requests, worldVars, wish, missed>>

Place == Channels \cup {None}
NoRequest == <<>>
Request == {NoRequest} \cup {<<c>> : c \in Place}
Kinds == {"Connected", "ConnectError", "Playing", "Stopped", "Finished",
          "Disconnected", "Reconnecting"}

StateUpdate(c, ours) == [type |-> "state", channel |-> c, ours |-> ours]
ServerUpdate(e) == [type |-> "server", endpoint |-> e]
Plain(t) == [type |-> t]
Updates == [type : {"state"}, channel : Place, ours : BOOLEAN]
              \cup [type : {"server"}, endpoint : BOOLEAN]
              \cup [type : {"online", "offline", "invalidated"}]

ConnectTo(c) == [type |-> "connect", channel |-> c]
Controls == [type : {"connect"}, channel : Channels]
               \cup [type : {"disconnect", "shutdown", "play", "stop"}]

(* The task's own flags.                                                   *)
FlagsOK ==
    /\ state \in {"Idle", "Connecting", "Connected", "Shutdown", "Ended"}
    /\ session \in BOOLEAN /\ token \in BOOLEAN
    /\ timer \in BOOLEAN /\ voiceSend \in BOOLEAN /\ encoder \in BOOLEAN
    /\ conn \in {"none", "starting", "up"}
    /\ outbox \in Kinds \cup {None}
    /\ view \in {"off", "on", "playing"}

(* What comes with updates and controls, and the channels, none of which   *)
(* holds more than its capacity.                                           *)
QueuesOK ==
    /\ channel \in Place /\ member \in Place /\ wish \in Place
    /\ endpoint \in BOOLEAN
    /\ after \in Request
    /\ updates \in Seq(Updates) /\ Len(updates) <= UpdateCap
    /\ controls \in Seq(Controls) /\ Len(controls) <= ControlCap
    /\ requests \in Seq(Place) /\ Len(requests) <= RequestCap
    /\ events \in 0..EventCap
    /\ listening \in BOOLEAN /\ handles \in BOOLEAN /\ missed \in BOOLEAN
    /\ issued \in 0..MaxControls /\ reported \in 0..MaxNews

(* The type invariant.                                                     *)
TypeOK == FlagsOK /\ QueuesOK

Init ==
    /\ state = "Idle" /\ channel = None
    /\ session = FALSE /\ token = FALSE /\ endpoint = FALSE
    /\ timer = FALSE /\ conn = "none" /\ voiceSend = FALSE /\ encoder = FALSE
    /\ outbox = None /\ after = NoRequest
    /\ updates = <<>> /\ controls = <<>> /\ events = 0
    /\ listening = TRUE /\ handles = TRUE
    /\ requests = <<>> /\ member = None
    /\ issued = 0 /\ reported = 0
    /\ wish = None /\ view = "off" /\ missed = FALSE

-----------------------------------------------------------------------------
(* Channels and events.                                                    *)

\* Mutant: off by one.
HasRoomOneMore(queue, cap) == Len(queue) <= cap
HasRoom(queue, cap) == Len(queue) < cap

(* try_send, its result ignored by the caller.                             *)
TrySend(queue, item, cap) == IF HasRoom(queue, cap) THEN Append(queue, item) ELSE queue

(* update_voice_state.                                                     *)
Ask(c) ==
    /\ requests' = TrySend(requests, c, RequestCap)
    /\ missed' = (missed \/ ~HasRoom(requests, RequestCap))

(* What a listener that follows the events believes after one more.        *)
Believes(event) ==
    CASE event = "Connected" -> IF view = "playing" THEN "playing" ELSE "on"
      [] event = "Playing" -> "playing"
      [] event = "Finished" -> "on"
      [] event = "Stopped" -> IF view = "playing" THEN "on" ELSE view
      [] event \in {"ConnectError", "Disconnected", "Reconnecting"} -> "off"

(* emit_event: the task waits in Deliver until the channel has room.       *)
Emit(event) == outbox' = event /\ view' = Believes(event)
EmitNothing == outbox' = None /\ view' = view

(* What the task does once the event is sent.                              *)
Then(request) == after' = request

Busy == outbox # None \/ after # NoRequest

(* At the select! of run(), with nothing awaited.                          *)
Selecting == state \in {"Idle", "Connecting", "Connected"} /\ ~Busy

Deliver ==
    /\ outbox # None
    /\ listening => events < EventCap
    /\ events' = IF listening THEN events + 1 ELSE events
    /\ outbox' = None
    /\ UNCHANGED <<state, connVars, credVars, encoder, after, view, updates, controls,
                   appVars, requests, worldVars, wish, missed>>

Proceed ==
    /\ outbox = None /\ after # NoRequest
    /\ Ask(after[1])
    /\ after' = NoRequest
    /\ UNCHANGED <<state, connVars, credVars, encoder, outbox, view, updates, controls,
                   events, appVars, worldVars, wish>>

-----------------------------------------------------------------------------
(* clear_connection, but for channel_id and session_id, which its callers  *)
(* may set again: take the stream, tell the listener if we were connected, *)
(* go to Connecting with a new timer or to Idle with the old one.          *)

\* Mutant: the attempt gets no timer of its own.
UnarmedAfterClear(reconnect) == timer
ArmedAfterClear(reconnect) == reconnect \/ timer

\* Mutant: only a disconnect takes the stream.
EncoderKept(reconnect) == reconnect /\ encoder
EncoderAfterClear(reconnect) == FALSE

\* Mutant: the receiver of the old connection's events is kept.
ConnForgotten == conn
ConnAfterClear == "none"

ClearConnection(reconnect) ==
    /\ encoder' = EncoderAfterClear(reconnect)
    /\ IF state = "Connected"
       THEN Emit(IF reconnect THEN "Reconnecting" ELSE "Disconnected")
       ELSE EmitNothing
    /\ state' = IF reconnect THEN "Connecting" ELSE "Idle"
    /\ timer' = ArmedAfterClear(reconnect)
    /\ token' = FALSE /\ endpoint' = FALSE
    /\ conn' = ConnAfterClear /\ voiceSend' = FALSE

(* The tail of on_update: a connecting player without a connection spawns  *)
(* one as soon as its credentials are complete.                            *)
Complete(s, t, e) == s /\ t /\ e

Spawned(s, t, e) ==
    IF state = "Connecting" /\ conn = "none" /\ Complete(s, t, e) THEN "starting" ELSE conn

-----------------------------------------------------------------------------
(* on_update.                                                              *)

NextUpdate(type) ==
    /\ Selecting /\ updates # <<>> /\ updates[1].type = type
    /\ updates' = Tail(updates)
    /\ UNCHANGED <<controls, events, appVars, worldVars, wish>>

(* VoiceStateUpdate: another user's, or one for another guild, is ignored. *)
\* Mutant: it is taken for ours.
OursAlways(update) == TRUE
Ours(update) == update.ours

IgnoreStateUpdate ==
    /\ NextUpdate("state") /\ ~Ours(updates[1])
    /\ UNCHANGED <<state, connVars, credVars, encoder, emitVars, requests, missed>>

StateUpdateConnecting ==
    /\ NextUpdate("state") /\ Ours(updates[1]) /\ state = "Connecting"
    /\ channel' = updates[1].channel /\ session' = TRUE
    /\ conn' = Spawned(TRUE, token, endpoint)
    /\ UNCHANGED <<state, voiceSend, timer, token, endpoint, encoder, emitVars,
                   requests, missed>>

(* Idle or connected: an update with a channel starts a reconnect, one     *)
(* without ends the connection.                                            *)
StateUpdateOtherwise ==
    /\ NextUpdate("state") /\ Ours(updates[1]) /\ state # "Connecting"
    /\ ClearConnection(updates[1].channel # None)
    /\ channel' = updates[1].channel /\ session' = TRUE
    /\ Then(NoRequest)
    /\ UNCHANGED <<requests, missed>>

(* VoiceServerUpdate.                                                      *)
NewServer ==
    /\ NextUpdate("server") /\ ~(state = "Connected" /\ ~updates[1].endpoint)
    /\ token' = TRUE /\ endpoint' = updates[1].endpoint
    /\ conn' = Spawned(session, TRUE, updates[1].endpoint)
    /\ UNCHANGED <<state, voiceSend, timer, channel, session, encoder, emitVars,
                   requests, missed>>

ServerGone ==
    /\ NextUpdate("server") /\ state = "Connected" /\ ~updates[1].endpoint
    /\ ClearConnection(FALSE)
    /\ channel' = None /\ session' = FALSE
    /\ Then(<<None>>)
    /\ UNCHANGED <<requests, missed>>

GuildOnline ==
    /\ NextUpdate("online")
    /\ IF state = "Connecting" /\ channel # None
       THEN Ask(channel) ELSE UNCHANGED <<requests, missed>>
    /\ conn' = Spawned(session, token, endpoint)
    /\ UNCHANGED <<state, voiceSend, timer, credVars, encoder, emitVars>>

(* Reconnect, with channel_id saved and restored.                          *)
GuildOffline ==
    /\ NextUpdate("offline")
    /\ ClearConnection(TRUE)
    /\ session' = FALSE
    /\ Then(NoRequest)
    /\ UNCHANGED <<channel, requests, missed>>

SessionInvalidated ==
    /\ NextUpdate("invalidated")
    /\ conn' = Spawned(session, token, endpoint)
    /\ UNCHANGED <<state, voiceSend, timer, credVars, encoder, emitVars, requests, missed>>

-----------------------------------------------------------------------------
(* on_control.                                                             *)

NextControl(type) ==
    /\ Selecting /\ controls # <<>> /\ controls[1].type = type
    /\ controls' = Tail(controls)
    /\ UNCHANGED <<updates, events, appVars, requests, worldVars, missed>>

AlreadyThere == state = "Connected" /\ channel = controls[1].channel

ConnectAgain ==
    /\ NextControl("connect") /\ AlreadyThere
    /\ Emit("Connected") /\ Then(NoRequest)
    /\ wish' = controls[1].channel
    /\ UNCHANGED <<state, connVars, credVars, encoder>>

Connect ==
    /\ NextControl("connect") /\ ~AlreadyThere
    /\ ClearConnection(TRUE)
    /\ channel' = None /\ session' = FALSE
    /\ Then(<<controls[1].channel>>)
    /\ wish' = controls[1].channel

(* The request Disconnect and Shutdown end with.                           *)
\* Mutant: Discord is not told.
LeaveUnsaid == NoRequest
Leave == <<None>>

Disconnect ==
    /\ NextControl("disconnect")
    /\ ClearConnection(FALSE)
    /\ channel' = None /\ session' = FALSE
    /\ Then(Leave)
    /\ wish' = None

(* clear_connection goes to Idle, then the state becomes Shutdown.         *)
Shutdown ==
    /\ NextControl("shutdown")
    /\ IF state = "Connected" THEN Emit("Disconnected") ELSE EmitNothing
    /\ state' = "Shutdown"
    /\ encoder' = FALSE /\ token' = FALSE /\ endpoint' = FALSE
    /\ conn' = ConnAfterClear /\ voiceSend' = FALSE
    /\ channel' = None /\ session' = FALSE
    /\ Then(Leave)
    /\ wish' = None
    /\ UNCHANGED timer

Play ==
    /\ NextControl("play") /\ state = "Connected"
    /\ encoder' = TRUE
    /\ Emit("Playing") /\ Then(NoRequest)
    /\ UNCHANGED <<state, connVars, credVars, wish>>

(* The stream is handed back, and only a playing one is stopped.           *)
PlayRefused ==
    /\ NextControl("play") /\ state # "Connected"
    /\ Emit("Stopped") /\ Then(NoRequest)
    /\ UNCHANGED <<state, connVars, credVars, encoder, wish>>

Stop ==
    /\ NextControl("stop")
    /\ encoder' = FALSE
    /\ IF encoder THEN Emit("Stopped") ELSE EmitNothing
    /\ Then(NoRequest)
    /\ UNCHANGED <<state, connVars, credVars, wish>>

-----------------------------------------------------------------------------
(* The connection, the encoder and the timer.                              *)

\* Mutant: the timer keeps running under an established connection.
TimerKept == timer
TimerOnceConnected == FALSE

(* ConnectionEvent::VoiceFrameSender; without a channel nobody is told.    *)
FrameSender ==
    /\ Selecting /\ conn = "starting"
    /\ conn' = "up" /\ voiceSend' = TRUE
    /\ state' = "Connected" /\ timer' = TimerOnceConnected
    /\ IF channel # None THEN Emit("Connected") ELSE EmitNothing
    /\ Then(NoRequest)
    /\ UNCHANGED <<credVars, encoder, updates, controls, events, appVars, requests,
                   worldVars, wish, missed>>

(* The connection's event stream ended.                                    *)
ConnectionClosed ==
    /\ Selecting /\ conn # "none"
    /\ ClearConnection(FALSE)
    /\ channel' = None /\ session' = FALSE
    /\ Then(NoRequest)
    /\ UNCHANGED <<updates, controls, events, appVars, requests, worldVars, wish, missed>>

EncoderEnds ==
    /\ Selecting /\ encoder
    /\ encoder' = FALSE
    /\ Emit("Finished") /\ Then(NoRequest)
    /\ UNCHANGED <<state, connVars, credVars, updates, controls, events, appVars, requests,
                   worldVars, wish, missed>>

(* The timer clears itself; it ends an attempt, and means nothing when the *)
(* attempt is over.  The request precedes the event here.                  *)
ConnectTimeout ==
    /\ Selecting /\ timer /\ state = "Connecting"
    /\ timer' = FALSE
    /\ state' = "Idle" /\ encoder' = FALSE
    /\ channel' = None /\ session' = FALSE /\ token' = FALSE /\ endpoint' = FALSE
    /\ conn' = ConnAfterClear /\ voiceSend' = FALSE
    /\ Ask(None) /\ Emit("ConnectError") /\ Then(NoRequest)
    /\ UNCHANGED <<updates, controls, events, appVars, worldVars, wish>>

IdleTimeout ==
    /\ Selecting /\ timer /\ state # "Connecting"
    /\ timer' = FALSE
    /\ UNCHANGED <<state, conn, voiceSend, credVars, encoder, emitVars, updates, controls,
                   events, appVars, requests, worldVars, wish, missed>>

\* Mutant: the end of a channel is taken for silence.
SendersHeard == FALSE
SendersGone == ~handles /\ (updates = <<>> \/ controls = <<>>)

(* run() returns: after Shutdown, or when an Updater or Controller channel *)
(* is drained and has no sender left.  Everything it owned is dropped.     *)
End ==
    /\ \/ state = "Shutdown" /\ ~Busy
       \/ Selecting /\ SendersGone
    /\ state' = "Ended"
    /\ conn' = "none" /\ voiceSend' = FALSE /\ timer' = FALSE /\ encoder' = FALSE
    /\ updates' = <<>> /\ controls' = <<>> /\ view' = "off"
    /\ UNCHANGED <<credVars, outbox, after, events, appVars, requests, worldVars, wish,
                   missed>>

-----------------------------------------------------------------------------
(* The application and Discord.                                            *)

taskVars == <<state, connVars, credVars, encoder, emitVars, wish>>

Issue ==
    /\ handles /\ state # "Ended" /\ issued < MaxControls
    /\ \E c \in Controls : HasRoom(controls, ControlCap) /\ controls' = Append(controls, c)
    /\ issued' = issued + 1
    /\ UNCHANGED <<taskVars, updates, events, appVars, requests, member, reported, missed>>

ReadEvent ==
    /\ listening /\ events > 0
    /\ events' = events - 1
    /\ UNCHANGED <<taskVars, updates, controls, appVars, requests, worldVars, missed>>

DropListener ==
    /\ listening
    /\ listening' = FALSE /\ events' = 0
    /\ UNCHANGED <<taskVars, updates, controls, handles, requests, worldVars, missed>>

DropHandles ==
    /\ handles
    /\ handles' = FALSE
    /\ UNCHANGED <<taskVars, updates, controls, events, listening, requests, worldVars,
                   missed>>

(* The application passes gateway events on to the Updater, which drops    *)
(* what does not fit.                                                      *)
Push(news) ==
    LET fits == UpdateCap - Len(updates)
        kept == IF Len(news) <= fits THEN news ELSE SubSeq(news, 1, fits)
    IN /\ updates' = IF handles /\ state # "Ended" THEN updates \o kept ELSE updates
       /\ missed' = (missed \/ kept # news)

Joined(c) == <<StateUpdate(c, TRUE), ServerUpdate(TRUE)>>
Left == <<StateUpdate(None, TRUE)>>

Serve ==
    /\ requests # <<>>
    /\ requests' = Tail(requests)
    /\ member' = requests[1]
    /\ Push(IF requests[1] # None THEN Joined(requests[1])
            ELSE IF member # None THEN Left ELSE <<>>)
    /\ UNCHANGED <<taskVars, controls, events, appVars, issued, reported>>

Unsolicited(kind, place, news) ==
    /\ kind \in News /\ reported < MaxNews
    /\ reported' = reported + 1
    /\ member' = place
    /\ Push(news)
    /\ UNCHANGED <<taskVars, controls, events, appVars, requests, issued>>

Kick == member # None /\ Unsolicited("kick", None, Left)
Move == member # None /\ \E c \in Channels \ {member} : Unsolicited("move", c, Joined(c))
ServerLost == member # None /\ Unsolicited("server lost", member, <<ServerUpdate(FALSE)>>)
Outage == Unsolicited("offline", member, <<Plain("offline")>>)
Recovery == Unsolicited("online", member, <<Plain("online")>>)
Invalidation == Unsolicited("invalidated", member, <<Plain("invalidated")>>)
Stranger == \E c \in Place : Unsolicited("stranger", member, <<StateUpdate(c, FALSE)>>)

-----------------------------------------------------------------------------
OnUpdate == \/ IgnoreStateUpdate \/ StateUpdateConnecting \/ StateUpdateOtherwise
            \/ NewServer \/ ServerGone \/ GuildOnline \/ GuildOffline \/ SessionInvalidated
OnControl == ConnectAgain \/ Connect \/ Disconnect \/ Shutdown \/ Play \/ PlayRefused \/ Stop
Task == \/ OnUpdate \/ OnControl \/ FrameSender \/ ConnectionClosed \/ EncoderEnds
        \/ ConnectTimeout \/ IdleTimeout \/ Deliver \/ Proceed \/ End
App == Issue \/ ReadEvent \/ DropListener \/ DropHandles
Discord == Serve \/ Kick \/ Move \/ ServerLost \/ Outage \/ Recovery \/ Invalidation \/ Stranger

(* An ended player, and an idle one that is asked nothing more.            *)
Quiet == /\ (state = "Ended" \/ ~handles \/ issued = MaxControls)
         /\ requests = <<>> /\ UNCHANGED vars

Next == Task \/ App \/ Discord \/ Quiet

Spec == Init /\ [][Next]_vars

(***************************************************************************)
(* Fairness.  The task keeps polling: select! takes a branch that stays    *)
(* ready, and the timer elapses.  The application reads the events it      *)
(* listens to, and Discord serves the requests it got.  Nothing forces an  *)
(* application to issue a control or a connection to come up.              *)
(***************************************************************************)
Fairness ==
    /\ WF_vars(OnUpdate) /\ WF_vars(OnControl) /\ WF_vars(ConnectTimeout)
    /\ WF_vars(Deliver) /\ WF_vars(Proceed) /\ WF_vars(End)
    /\ WF_vars(ReadEvent) /\ WF_vars(Serve)

FairSpec == Spec /\ Fairness

-----------------------------------------------------------------------------
(* Safety.                                                                 *)

Running == state \in {"Idle", "Connecting", "Connected"}

(* The pieces of the player agree with its state whatever order its inputs *)
(* arrive in: audio can be sent exactly while connected, a connection      *)
(* exists only to connect or while connected and was made from a session   *)
(* and a token, a stream plays only while connected, and an attempt always *)
(* has the timer that ends it (player.rs:248-272, 314-319, 378-385,        *)
(* 411-418).                                                               *)
Shape ==
    /\ (state = "Connected") <=> voiceSend
    /\ voiceSend <=> (conn = "up")
    /\ conn = "starting" => state = "Connecting"
    /\ conn # "none" => session /\ token
    /\ encoder => state = "Connected"
    /\ state = "Connecting" => timer
    /\ state = "Connected" => ~timer

(* A listener that follows the events knows what the player does: it       *)
(* believes a stream is playing exactly while one is encoded, and believes *)
(* the player connected only while it is.  A connection that came up after *)
(* an update took the channel away is not announced (player.rs:248-257,    *)
(* 324-359, 378-407).                                                      *)
ViewTruthful ==
    /\ (view = "playing") <=> encoder
    /\ view # "off" => state = "Connected"
    /\ (state = "Connected" /\ view = "off") => channel = None

Settled == Running /\ ~Busy /\ updates = <<>> /\ requests = <<>>

(* Once all news is digested and none was dropped, a connected player is   *)
(* in the channel Discord has it in, across moves, kicks, outages and late *)
(* echoes of its own requests (player.rs:274-322).                         *)
Agreement == (Settled /\ state = "Connected" /\ handles /\ ~missed) => channel = member

(* The comment player.rs:296-297: connected and without an endpoint, "we   *)
(* should disconnect from the voice server".                               *)
ConnectedHasEndpoint == state = "Connected" => endpoint

(* The comment player.rs:285-287: a state update that reaches an idle      *)
(* player with a channel "means we are reconnecting or moving".  So, with  *)
(* no outage, a player that was told to disconnect stays disconnected.     *)
UpdateMeansReconnectOrMove == state = "Connecting" => wish # None

-----------------------------------------------------------------------------
(* Liveness.                                                               *)

(* An attempt to connect ends: connected, given up, or over with the       *)
(* player (player.rs:258-264, 411-418).                                    *)
AttemptEnds == (state = "Connecting") ~> (state # "Connecting")

(* When the application's last word is Disconnect or Shutdown and no       *)
(* request was dropped, Discord has us in no channel in the end, however   *)
(* the request, the echoes of earlier ones and the timeout interleave      *)
(* (player.rs:337-345, 284-291, 411-418).                                  *)
DisconnectTakesEffect ==
    <>[](wish = None /\ ~missed) => <>[](member = None)
=============================================================================
