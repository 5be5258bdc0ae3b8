--------------------------- MODULE VoiceConnection ---------------------------
(***************************************************************************)
(* One voice connection, from the moment the player spawns it: the         *)
(* connection task (src/src/voice/connection.rs), the voice gateway task   *)
(* it spawns with a reader and a writer joined in it                       *)
(* (src/src/voice/gateway.rs), and the UDP socket task it spawns once the  *)
(* gateway is ready (src/src/voice/socket.rs).  They are tied together by  *)
(* nothing but channels: each task notices that another is gone when a     *)
(* receive finds the channel closed or a send fails.                       *)
(*                                                                         *)
(* The voice server and the player (modelled in Player) are environment.   *)
(* At most two events ever travel to the player and two commands to the    *)
(* voice gateway, fewer than their channels' capacity of 16, so the sends  *)
(* of the connection task never wait; TypeOK keeps the counts.             *)
(***************************************************************************)
EXTENDS Integers, Sequences

CONSTANT EventCap  \* capacity of the gateway's and of the socket's event channel

ASSUME VoiceConnectionAssumption == EventCap \in Nat \ {0}

VARIABLES
    state,      \* State of the connection task, "Ended" once it returned
    addr,       \* external_addr is known
    keySend,    \* key_send is held
    reader,     \* read() of the gateway task: "handshake", "running", "done"
    writer,     \* write() of the gateway task
    link,       \* the WebSocket is open
    gwEvents,   \* the gateway's event channel
    commands,   \* the gateway's command channel
    socket,     \* the socket task
    key,        \* the secret key was sent to the socket
    sockEvents, \* the socket's event channel
    toPlayer,   \* event_send: events the player has not taken
    listening,  \* the player holds the Listener of this connection
    sender,     \* where the VoiceFrameSender is
    selected    \* voice server: SelectProtocol arrived

gatewayVars == <<reader, writer, link, commands, selected>>
socketVars  == <<socket, key>>
playerVars  == <<toPlayer, listening>>
vars == <<state, addr, keySend, gatewayVars, gwEvents, socketVars, sockEvents,
          playerVars, sender>>

GatewayEvents == {"ready", "unsupported", "description", "mismatch", "other"}
SocketEvents == {"addr", "sender", "frame"}
GatewayCommands == {"select", "speaking"}
PlayerEvents == {"connected", "sender"}

Has(queue, e) == \E i \in DOMAIN queue : queue[i] = e

FlagsOK ==
    /\ state \in {"Connecting", "Connected", "Ended"}
    /\ addr \in BOOLEAN /\ keySend \in BOOLEAN /\ key \in BOOLEAN
    /\ link \in BOOLEAN /\ listening \in BOOLEAN /\ selected \in BOOLEAN
    /\ reader \in {"handshake", "running", "done"}
    /\ writer \in {"handshake", "running", "done"}
    /\ socket \in {"none", "discovering", "keyless", "offering", "sending", "ended"}
    /\ sender \in {"none", "queued", "offered", "held", "dropped"}

(* The channels, with the lengths that keep sends from waiting.            *)
QueuesOK ==
    /\ gwEvents \in Seq(GatewayEvents) /\ Len(gwEvents) <= EventCap
    /\ sockEvents \in Seq(SocketEvents) /\ Len(sockEvents) <= EventCap
    /\ commands \in Seq(GatewayCommands) /\ Len(commands) <= 2
    /\ toPlayer \in Seq(PlayerEvents) /\ Len(toPlayer) <= 2

(* The type invariant.                                                     *)
TypeOK == FlagsOK /\ QueuesOK

Init ==
    /\ state = "Connecting" /\ addr = FALSE /\ keySend = FALSE
    /\ reader = "handshake" /\ writer = "handshake" /\ link = TRUE
    /\ gwEvents = <<>> /\ commands = <<>> /\ selected = FALSE
    /\ socket = "none" /\ key = FALSE /\ sockEvents = <<>>
    /\ toPlayer = <<>> /\ listening = TRUE /\ sender = "none"

-----------------------------------------------------------------------------
(* The gateway task.                                                       *)

(* A bounded event channel takes another event.                            *)
\* Mutant: off by one.
HasRoomOneMore(queue) == Len(queue) <= EventCap
HasRoom(queue) == Len(queue) < EventCap

(* Gateway::connect succeeds, and the Ready it received is passed on.      *)
HandshakeDone ==
    /\ reader = "handshake" /\ link
    /\ \E e \in {"ready", "unsupported"} : gwEvents' = Append(gwEvents, e)
    /\ reader' = "running" /\ writer' = "running"
    /\ UNCHANGED <<state, addr, keySend, link, commands, selected, socketVars, sockEvents,
                   playerVars, sender>>

(* It fails: no connection, a closed one, or another answer than expected. *)
HandshakeFails ==
    /\ reader = "handshake"
    /\ reader' = "done" /\ writer' = "done" /\ link' = FALSE
    /\ UNCHANGED <<state, addr, keySend, commands, selected, gwEvents, socketVars, sockEvents,
                   playerVars, sender>>

(* read(): an event is forwarded once there is room.  A receiver that is   *)
(* gone ends the reader.                                                   *)
Forward(e) ==
    /\ reader = "running" /\ link
    /\ IF state = "Ended"
       THEN reader' = "done" /\ UNCHANGED gwEvents
       ELSE /\ HasRoom(gwEvents)
            /\ gwEvents' = Append(gwEvents, e) /\ UNCHANGED reader
    /\ UNCHANGED <<state, addr, keySend, writer, link, commands, selected, socketVars,
                   sockEvents, playerVars, sender>>

ReadDescription == selected /\ \E e \in {"description", "mismatch"} : Forward(e)
ReadOther == Forward("other")

(* The stream ends, or a close frame was read.                             *)
ReadEnd ==
    /\ reader = "running" /\ ~link
    /\ reader' = "done"
    /\ UNCHANGED <<state, addr, keySend, writer, link, commands, selected, gwEvents,
                   socketVars, sockEvents, playerVars, sender>>

WriteCommand ==
    /\ writer = "running" /\ link /\ commands # <<>>
    /\ commands' = Tail(commands)
    /\ selected' = (selected \/ commands[1] = "select")
    /\ UNCHANGED <<state, addr, keySend, reader, writer, link, gwEvents, socketVars,
                   sockEvents, playerVars, sender>>

(* A command or a heartbeat cannot be sent.                                *)
WriteFails ==
    /\ writer = "running" /\ ~link
    /\ writer' = "done" /\ commands' = <<>>
    /\ UNCHANGED <<state, addr, keySend, reader, link, selected, gwEvents, socketVars,
                   sockEvents, playerVars, sender>>

(* The Controller is gone and the channel drained: close the connection.   *)
\* Mutant: the loop is left without the close.
CloseForgotten == link
ClosedLink == FALSE

CommandsClosed ==
    /\ writer = "running" /\ state = "Ended" /\ commands = <<>>
    /\ writer' = "done" /\ link' = ClosedLink
    /\ UNCHANGED <<state, addr, keySend, reader, commands, selected, gwEvents, socketVars,
                   sockEvents, playerVars, sender>>

(* The server or the network closes the WebSocket.                         *)
LinkBreaks ==
    /\ link /\ reader # "handshake"
    /\ link' = FALSE
    /\ UNCHANGED <<state, addr, keySend, reader, writer, commands, selected, gwEvents,
                   socketVars, sockEvents, playerVars, sender>>

-----------------------------------------------------------------------------
(* The connection task.                                                    *)

(* event_send.send: ignored when the player let go of the Listener.        *)
Told(event) == IF listening THEN Append(toPlayer, event) ELSE toPlayer

(* Leaving run() drops the receivers of both tasks with what is in them,   *)
(* the Controller and the key sender.                                      *)
Break ==
    /\ state' = "Ended" /\ keySend' = FALSE
    /\ gwEvents' = <<>> /\ sockEvents' = <<>>
    /\ sender' = IF sender = "queued" THEN "dropped" ELSE sender

NextEvent(e) ==
    /\ state # "Ended" /\ gwEvents # <<>> /\ gwEvents[1] = e
    /\ UNCHANGED <<gatewayVars, key, listening>>

(* After an event a connected connection opens its socket, unless it has   *)
(* one.                                                                    *)
\* Mutant: whatever it has.
OpensAgain == TRUE
Opens == socket = "none"

OpenSocket ==
    IF Opens THEN socket' = "discovering" /\ keySend' = TRUE
    ELSE UNCHANGED <<socket, keySend>>

(* Ready: announce it, then open the socket.                               *)
OnReady ==
    /\ NextEvent("ready") /\ state = "Connecting"
    /\ state' = "Connected"
    /\ toPlayer' = Told("connected")
    /\ gwEvents' = Tail(gwEvents)
    /\ OpenSocket
    /\ UNCHANGED <<addr, sockEvents, sender>>

(* The server's address does not resolve.                                  *)
OnReadyNoSocket ==
    /\ NextEvent("ready") /\ state = "Connecting"
    /\ toPlayer' = Told("connected")
    /\ Break
    /\ UNCHANGED <<addr, socket>>

OnUnsupported ==
    /\ NextEvent("unsupported")
    /\ Break
    /\ UNCHANGED <<addr, socket, toPlayer>>

(* SessionDescription: the key goes to the socket, the first time.         *)
OnDescription ==
    /\ state # "Ended" /\ gwEvents # <<>> /\ gwEvents[1] = "description"
    /\ IF keySend /\ socket = "ended"
       THEN Break /\ UNCHANGED key
       ELSE /\ key' = (key \/ keySend)
            /\ keySend' = FALSE
            /\ gwEvents' = Tail(gwEvents)
            /\ UNCHANGED <<state, sockEvents, sender>>
    /\ UNCHANGED <<addr, gatewayVars, socket, playerVars>>

OnMismatch ==
    /\ NextEvent("mismatch")
    /\ IF keySend
       THEN Break
       ELSE gwEvents' = Tail(gwEvents) /\ UNCHANGED <<state, keySend, sockEvents, sender>>
    /\ UNCHANGED <<addr, socket, toPlayer>>

OnOther ==
    /\ NextEvent("other")
    /\ gwEvents' = Tail(gwEvents)
    /\ IF state = "Connected" THEN OpenSocket ELSE UNCHANGED <<socket, keySend>>
    /\ UNCHANGED <<state, addr, sockEvents, toPlayer, sender>>

GatewayGone ==
    /\ state # "Ended" /\ gwEvents = <<>> /\ reader = "done"
    /\ Break
    /\ UNCHANGED <<addr, gatewayVars, socketVars, playerVars>>

NextSocketEvent(e) ==
    /\ state # "Ended" /\ sockEvents # <<>> /\ sockEvents[1] = e
    /\ sockEvents' = Tail(sockEvents)
    /\ UNCHANGED <<state, keySend, reader, writer, link, selected, gwEvents, socketVars, listening>>

(* AddrDiscovery: select the protocol, then announce that we speak.        *)
OnAddr ==
    /\ NextSocketEvent("addr")
    /\ addr' = TRUE
    /\ commands' = IF addr \/ writer = "done" THEN commands
                   ELSE Append(Append(commands, "select"), "speaking")
    /\ UNCHANGED <<toPlayer, sender>>

(* VoiceFrameSender goes to the player; it is dropped when nobody listens. *)
\* Mutant: it is kept.
KeptSender == "offered"
UnheardSender == "dropped"

OnSender ==
    /\ NextSocketEvent("sender")
    /\ toPlayer' = Told("sender")
    /\ sender' = IF listening THEN "offered" ELSE UnheardSender
    /\ UNCHANGED <<addr, commands>>

OnFrame ==
    /\ NextSocketEvent("frame")
    /\ UNCHANGED <<addr, commands, toPlayer, sender>>

(* The socket's channel is drained and closed.                             *)
\* Mutant: a socket that is gone is not noticed.
NeverGone == FALSE
SocketClosed == socket = "ended" /\ sockEvents = <<>>

SocketGone ==
    /\ state # "Ended" /\ SocketClosed
    /\ Break
    /\ UNCHANGED <<addr, gatewayVars, socketVars, playerVars>>

-----------------------------------------------------------------------------
(* The socket task.                                                        *)

(* The address of the answer is reported, to a connection that is there.   *)
Discovered ==
    /\ socket = "discovering"
    /\ IF state = "Ended"
       THEN socket' = "ended" /\ UNCHANGED sockEvents
       ELSE socket' = "keyless" /\ sockEvents' = Append(sockEvents, "addr")
    /\ UNCHANGED <<state, addr, keySend, gatewayVars, gwEvents, key, playerVars, sender>>

(* No answer within ten seconds, a foreign one, or an I/O error; the       *)
(* frame channel's receiver goes with the task.                            *)
SocketFails ==
    /\ socket \notin {"none", "ended"}
    /\ socket' = "ended"
    /\ UNCHANGED <<state, addr, keySend, gatewayVars, gwEvents, key, sockEvents, playerVars,
                   sender>>

\* Mutant: the key is not awaited.
KeyUnasked == TRUE
KeyArrived == key

TakeKey ==
    /\ socket = "keyless" /\ KeyArrived
    /\ socket' = "offering"
    /\ UNCHANGED <<state, addr, keySend, gatewayVars, gwEvents, key, sockEvents, playerVars,
                   sender>>

(* The key sender was dropped.                                             *)
KeyLost ==
    /\ socket = "keyless" /\ ~key /\ ~keySend
    /\ socket' = "ended"
    /\ UNCHANGED <<state, addr, keySend, gatewayVars, gwEvents, key, sockEvents, playerVars,
                   sender>>

(* The sending end of a new frame channel is given to the connection.      *)
Offer ==
    /\ socket = "offering"
    /\ IF state = "Ended"
       THEN socket' = "ended" /\ sender' = "dropped" /\ UNCHANGED sockEvents
       ELSE /\ HasRoom(sockEvents)
            /\ socket' = "sending" /\ sender' = "queued"
            /\ sockEvents' = Append(sockEvents, "sender")
    /\ UNCHANGED <<state, addr, keySend, gatewayVars, gwEvents, key, playerVars>>

(* Every holder of the frame sender is gone.                               *)
FramesEnd ==
    /\ socket = "sending" /\ sender = "dropped"
    /\ socket' = "ended"
    /\ UNCHANGED <<state, addr, keySend, gatewayVars, gwEvents, key, sockEvents, playerVars,
                   sender>>

(* read(): the size of a received packet is reported once there is room.   *)
Packet ==
    /\ socket \in {"keyless", "offering", "sending"}
    /\ IF state = "Ended"
       THEN socket' = "ended" /\ UNCHANGED sockEvents
       ELSE /\ HasRoom(sockEvents)
            /\ sockEvents' = Append(sockEvents, "frame") /\ UNCHANGED socket
    /\ UNCHANGED <<state, addr, keySend, gatewayVars, gwEvents, key, playerVars, sender>>

-----------------------------------------------------------------------------
(* The player.                                                             *)

PlayerTakes ==
    /\ listening /\ toPlayer # <<>>
    /\ toPlayer' = Tail(toPlayer)
    /\ sender' = IF toPlayer[1] = "sender" THEN "held" ELSE sender
    /\ UNCHANGED <<state, addr, keySend, gatewayVars, gwEvents, socketVars, sockEvents,
                   listening>>

(* clear_connection drops the Listener and the frame sender.               *)
ClearConnection ==
    /\ listening' = FALSE /\ toPlayer' = <<>>
    /\ sender' = IF sender \in {"offered", "held"} THEN "dropped" ELSE sender
    /\ UNCHANGED <<state, addr, keySend, gatewayVars, gwEvents, socketVars, sockEvents>>

PlayerLeaves == listening /\ ClearConnection

(* It finds the connection's channel drained and closed.                   *)
PlayerSeesEnd == listening /\ toPlayer = <<>> /\ state = "Ended" /\ ClearConnection

-----------------------------------------------------------------------------
(* Everything that was started for the connection has ended.               *)
Released ==
    /\ state = "Ended" /\ reader = "done" /\ writer = "done"
    /\ socket \in {"none", "ended"}

GatewayTask == \/ HandshakeDone \/ HandshakeFails \/ ReadDescription \/ ReadOther \/ ReadEnd
               \/ WriteCommand \/ WriteFails \/ CommandsClosed
ConnectionTask == \/ OnReady \/ OnReadyNoSocket \/ OnUnsupported \/ OnDescription
                  \/ OnMismatch \/ OnOther \/ GatewayGone
                  \/ OnAddr \/ OnSender \/ OnFrame \/ SocketGone
SocketTask == \/ Discovered \/ SocketFails \/ TakeKey \/ KeyLost \/ Offer \/ FramesEnd \/ Packet
Player == PlayerTakes \/ PlayerLeaves \/ PlayerSeesEnd

AllOver == Released /\ ~listening /\ UNCHANGED vars

Next == GatewayTask \/ ConnectionTask \/ SocketTask \/ Player \/ LinkBreaks \/ AllOver

Spec == Init /\ [][Next]_vars

(***************************************************************************)
(* Fairness.  Every task keeps polling, and a branch of a select! that     *)
(* stays ready is taken.  The handshake comes to an end and the address    *)
(* discovery has a timeout.  A voice server that was asked for a protocol  *)
(* describes the session, among whatever else it sends.  The player takes  *)
(* the events of a connection it listens to.  No packet needs to arrive,   *)
(* nothing needs to break, and the player need not leave.                  *)
(***************************************************************************)
Fairness ==
    /\ WF_vars(HandshakeDone \/ HandshakeFails) /\ SF_vars(ReadDescription)
    /\ WF_vars(ReadEnd)
    /\ WF_vars(WriteCommand) /\ WF_vars(WriteFails) /\ WF_vars(CommandsClosed)
    /\ WF_vars(OnReady \/ OnReadyNoSocket \/ OnUnsupported \/ OnDescription \/ OnMismatch
                 \/ OnOther \/ GatewayGone)
    /\ WF_vars(OnAddr \/ OnSender \/ OnFrame \/ SocketGone)
    /\ WF_vars(socket = "discovering" /\ (Discovered \/ SocketFails))
    /\ WF_vars(TakeKey) /\ WF_vars(KeyLost) /\ SF_vars(Offer) /\ WF_vars(FramesEnd)
    /\ WF_vars(PlayerTakes) /\ WF_vars(PlayerSeesEnd)

FairSpec == Spec /\ Fairness

-----------------------------------------------------------------------------
(* Safety.                                                                 *)

(* Nobody holds a sender for voice frames before all three tasks have done *)
(* their part, in order: the socket found our address, the connection told *)
(* the server to send it there, and the key of the session it described    *)
(* reached the socket (connection.rs:80-91, 109-122, socket.rs:77-98,      *)
(* 152-154).                                                               *)
AudioReady == sender # "none" => addr /\ selected /\ key

(* No frame sender outlives its holders: one that is reported as live is   *)
(* in exactly the queue, or with the player, where it can still be dropped *)
(* (connection.rs:120-122, socket.rs:153-154, player.rs:267-269).  Were it *)
(* lost elsewhere the socket task would wait for frames for ever.          *)
SenderIsSomewhere ==
    /\ (sender = "queued") <=> Has(sockEvents, "sender")
    /\ (sender = "offered") <=> Has(toPlayer, "sender")
    /\ sender = "held" => listening

-----------------------------------------------------------------------------
(* What the player can see of this connection.                             *)
Reachable == IF sender \in {"offered", "held"} THEN sender ELSE "none"
Tasks == IF state # "Ended" THEN "open" ELSE IF Released THEN "gone" ELSE "closing"

Link == INSTANCE VoiceLink WITH sender <- Reachable, tasks <- Tasks

(* The player can rely on VoiceLink: one sender is offered, and only to a  *)
(* player that listens; nothing is offered after the end.                  *)
KeepsContract == Link!Spec

(* Once the player let go of a connection, in whatever state, all three    *)
(* tasks end, although none of them is told (connection.rs:137-183,        *)
(* gateway.rs:253-258, 261-295, socket.rs:111, 157-185).                   *)
AbandonedIsReleased == ~listening ~> Released

(* A connection that ends by itself is noticed by the player, and nothing  *)
(* of it is left.                                                          *)
EndIsSeen == (state = "Ended") ~> (~listening /\ Released)
=============================================================================
