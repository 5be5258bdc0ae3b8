-------------------------- MODULE VoiceSystem_proofs --------------------------
(***************************************************************************)
(* Theorems about VoiceSystem, for any number of connections: the player   *)
(* in the composition is the player of Player, so that its theorems carry  *)
(* over; its audio goes to the connection it listens to; idle, it is out   *)
(* of the channel.                                                         *)
(***************************************************************************)
EXTENDS VoiceSystem, Player_proofs

USE VoiceSystemAssumption DEF VoiceSystemAssumption, ConnAfterClear

(* What a step of the player may do to the connection it holds.            *)
ConnStep ==
    \/ conn' = conn
    \/ conn' = "none"
    \/ conn = "none" /\ conn' = "starting"
    \/ FrameSender

(* No action does more than start a connection, take its frame sender, or  *)
(* let go of it.                                                           *)
LEMMA ConnectionSteps == [Next]_vars => ConnStep
<1> SUFFICES ASSUME [Next]_vars PROVE ConnStep
  OBVIOUS
<1> USE DEF ConnStep, connVars
<1>1. CASE OnUpdate
  BY <1>1 DEF OnUpdate, IgnoreStateUpdate, StateUpdateConnecting, StateUpdateOtherwise,
              NewServer, ServerGone, GuildOnline, GuildOffline, SessionInvalidated,
              Spawned, ClearConnection
<1>2. CASE OnControl
  BY <1>2 DEF OnControl, ConnectAgain, Connect, Disconnect, Shutdown, Play, PlayRefused,
              Stop, ClearConnection
<1>3. CASE FrameSender \/ ConnectionClosed \/ EncoderEnds \/ ConnectTimeout \/ IdleTimeout
              \/ Deliver \/ Proceed \/ End
  BY <1>3 DEF FrameSender, ConnectionClosed, EncoderEnds, ConnectTimeout, IdleTimeout,
              Deliver, Proceed, End, ClearConnection
<1>4. CASE App
  BY <1>4, AppFrame DEF taskVars
<1>5. CASE Discord
  BY <1>5, DiscordFrame DEF taskVars
<1>6. CASE Quiet \/ UNCHANGED vars
  BY <1>6 DEF Quiet, vars
<1> QED BY <1>1, <1>2, <1>3, <1>4, <1>5, <1>6 DEF Next, Task

-----------------------------------------------------------------------------
(* The player in the composition does what Player says: what is proved of  *)
(* it holds in the composition.                                            *)
THEOREM PlayerIsPlayer == SystemSpec => Spec
<1>1. SystemInit => Init
  BY DEF SystemInit
<1>2. [SystemNext]_systemVars => [Next]_vars
  BY DEF SystemNext, Connection, systemVars
<1> QED BY <1>1, <1>2, PTL DEF SystemSpec, Spec

(* The player's shape holds in the composition too.                        *)
THEOREM ShapeInSystem == SystemSpec => []Shape
BY PlayerIsPlayer, PlayerKeepsShape, PTL

(* So does what its listener may rely on: what the events told, and the    *)
(* channel it is in, whatever becomes of its connections (player.rs:       *)
(* 248-257, 274-322, 324-359, 378-407).                                    *)
THEOREM PlayerKeepsItsWord == SystemSpec => [](ViewTruthful /\ Agreement)
BY PlayerIsPlayer, EventsTellTheTruth, ConnectedWhereDiscordSays, PTL

-----------------------------------------------------------------------------
(* Where the audio goes.  The connection the player listens to, if any, is *)
(* one made since credentials were last given up.  Only its frame sender   *)
(* is anywhere: in its channel while it starts, in the player's hand once  *)
(* it is up.                                                               *)
LinksOK ==
    /\ spawned \in 0..MaxLinks /\ source \in 0..spawned /\ before \in 0..spawned
    /\ conn \in {"none", "starting", "up"}
    /\ (conn = "none") <=> (source = 0)
    /\ conn # "none" => source > before
    /\ sender \in [Links -> {"none", "offered", "held"}]
    /\ \A l \in Links : sender[l] # "none" => l = source
    /\ \A l \in Links : sender[l] = "offered" => conn = "starting"
    /\ \A l \in Links : sender[l] = "held" => conn = "up"
    /\ conn = "up" => sender[source] = "held"

(* A step of the player: what it lets go of, it lets go of entirely, and   *)
(* what it spawns is new.                                                  *)
LEMMA LinksFollow == LinksOK /\ Shape' /\ ConnStep /\ Follow => LinksOK'
<1> SUFFICES ASSUME LinksOK, Shape', ConnStep, Follow PROVE LinksOK'
  OBVIOUS
<1> USE DEF LinksOK, Follow, Spawns, Links
<1>1. (voiceSend' <=> conn' = "up") /\ (conn' # "none" => token')
  BY DEF Shape
<1>2. FrameSender => conn = "starting" /\ conn' = "up"
  BY DEF FrameSender
<1>3. CASE conn' = conn
  <2>1. source' = source /\ spawned' = spawned /\ before' \in {before, spawned}
    BY <1>3
  <2>2. sender' = sender
    BY <1>1, <1>2, <1>3, <2>1 DEF Taken, Dropped
  <2> QED BY <1>1, <1>3, <2>1, <2>2
<1>4. CASE conn # "none" /\ conn' = "none"
  <2>1. source' = 0 /\ spawned' = spawned /\ before' \in {before, spawned}
    BY <1>4
  <2>2. sender' = [l \in Links |-> "none"]
    BY <1>1, <1>2, <1>4, <2>1 DEF Taken, Dropped
  <2> QED BY <1>4, <2>1, <2>2
<1>5. CASE conn = "none" /\ conn' = "starting"
  <2>1. source' = spawned' /\ spawned' = spawned + 1 /\ before' = before
    BY <1>1, <1>5
  <2>2. sender' = [l \in Links |-> "none"]
    BY <1>2, <1>5 DEF Taken, Dropped
  <2> QED BY <1>5, <2>1, <2>2
<1>6. CASE FrameSender
  <2>1. source' = source /\ spawned' = spawned /\ before' = before
    BY <1>1, <1>2, <1>6
  <2>2. sender' = [l \in Links |-> IF l = source THEN "held" ELSE "none"]
    BY <1>2, <1>6, <2>1 DEF Taken, Dropped
  <2> QED BY <1>2, <1>6, <2>1, <2>2
<1> QED BY <1>3, <1>4, <1>5, <1>6 DEF ConnStep

(* A step of a connection's tasks: they offer to nobody but who listens.   *)
LEMMA LinksMove ==
  ASSUME LinksOK, NEW m \in Links, Connection(m)
  PROVE  LinksOK'
<1> USE DEF LinksOK, Links
<1>1. UNCHANGED <<spawned, source, before, conn>>
  BY DEF Connection, vars, connVars
<1>2. PICK s \in {"none", "offered", "held"} : sender' = [sender EXCEPT ![m] = s]
  BY DEF Connection
<1>3. \/ sender' = sender
      \/ m = source /\ sender[m] = "none" /\ s = "offered"
  BY <1>2 DEF Connection, Link!Tasks, Link!Offers, Link!Closes, Link!Dies
<1> QED BY <1>1, <1>2, <1>3

(* So it is in every state.                                                *)
LEMMA LinksStayOK == SystemSpec => []LinksOK
<1>1. SystemInit => LinksOK
  BY DEF SystemInit, Init, LinksOK, Links
<1>2. LinksOK /\ Shape' /\ [SystemNext]_systemVars => LinksOK'
  <2> SUFFICES ASSUME LinksOK, Shape', [SystemNext]_systemVars PROVE LinksOK'
    OBVIOUS
  <2>1. CASE Next /\ Follow
    BY <2>1, ConnectionSteps, LinksFollow
  <2>2. ASSUME NEW l \in Links, Connection(l) PROVE LinksOK'
    BY <2>2, LinksMove
  <2>3. CASE UNCHANGED systemVars
    BY <2>3 DEF LinksOK, systemVars, linkVars, vars, connVars
  <2> QED BY <2>1, <2>2, <2>3 DEF SystemNext
<1> QED BY <1>1, <1>2, ShapeInSystem, PTL DEF SystemSpec

(* Voice frames go to the connection the player listens to, made since     *)
(* credentials were last given up, and to no other, whatever becomes of    *)
(* the ones it let go of (player.rs:266-271, 314-319, 378-381).            *)
THEOREM AudioGoesToTheCurrent == SystemSpec => []AudioIsCurrent
<1>1. LinksOK /\ Shape => AudioIsCurrent
  BY DEF LinksOK, Shape, AudioIsCurrent, Links
<1> QED BY <1>1, LinksStayOK, ShapeInSystem, PTL

-----------------------------------------------------------------------------
(* Out of the channel.  An idle player that is still in a channel is on    *)
(* its way out of it, or back in: a request is yet to be made or served,   *)
(* or an update of ours is yet to be taken in.                             *)

Underway == requests # <<>> \/ after # NoRequest \/ ~NothingOwn \/ member = None

Leaving == (state = "Idle" /\ handles /\ ~missed /\ ~cutOff) => Underway

(* Taking in an update of nobody or of others hides none of ours.          *)
LEMMA OwnStays ==
  ASSUME QueuesOK, updates # <<>>, updates' = Tail(updates), ~Own(updates[1]), NothingOwn'
  PROVE  NothingOwn
<1>1. /\ Len(updates) \in Nat /\ Len(updates') = Len(updates) - 1
      /\ \A i \in 1..Len(updates') : updates'[i] = updates[i + 1]
  BY DEF QueuesOK
<1>2. ASSUME NEW j \in 2..Len(updates) PROVE ~Own(updates[j])
  <2>1. j - 1 \in 1..Len(updates') /\ updates'[j - 1] = updates[j]
    BY <1>1
  <2> QED BY <2>1 DEF NothingOwn
<1> QED BY <1>1, <1>2 DEF NothingOwn

(* The last of our updates, once taken in, told where we are.              *)
LEMMA LastTaken ==
  ASSUME QueuesOK, updates # <<>>, updates' = Tail(updates), Own(updates[1]), NothingOwn'
  PROVE  LastWord(1)
<1>1. /\ Len(updates) \in Nat /\ Len(updates) >= 1 /\ Len(updates') = Len(updates) - 1
      /\ \A i \in 1..Len(updates') : updates'[i] = updates[i + 1]
  BY DEF QueuesOK
<1>2. ASSUME NEW j \in 2..Len(updates) PROVE ~Own(updates[j])
  <2>1. j - 1 \in 1..Len(updates') /\ updates'[j - 1] = updates[j]
    BY <1>1
  <2> QED BY <2>1 DEF NothingOwn
<1> QED BY <1>1, <1>2 DEF LastWord

(* News of ours stays under way when more arrives.                         *)
LEMMA OwnWaits ==
  ASSUME QueuesOK, NEW news \in Seq(Updates), updates' = updates \o news
  PROVE  /\ NothingOwn' => NothingOwn
         /\ news # <<>> /\ Own(news[1]) => ~NothingOwn'
<1>1. /\ Len(updates) \in Nat /\ Len(news) \in Nat /\ Len(updates') = Len(updates) + Len(news)
      /\ \A i \in 1..Len(updates) : updates'[i] = updates[i]
      /\ \A i \in 1..Len(news) : updates'[Len(updates) + i] = news[i]
  BY DEF QueuesOK
<1>2. NothingOwn' => NothingOwn
  BY <1>1 DEF NothingOwn
<1>3. ASSUME news # <<>>, Own(news[1]) PROVE ~NothingOwn'
  <2>1. 1 \in 1..Len(news)
    BY <1>3
  <2>2. Own(updates'[Len(updates) + 1]) /\ Len(updates) + 1 \in 1..Len(updates')
    BY <1>1, <1>3, <2>1
  <2> QED BY <2>2 DEF NothingOwn
<1> QED BY <1>2, <1>3

(* A request that is made, unless it is dropped, is under way.             *)
LEMMA AskedIsUnderway ==
  ASSUME QueuesOK, NEW c, Ask(c), ~missed'
  PROVE  requests' # <<>>
<1>1. HasRoom(requests, RequestCap)
  BY DEF Ask
<1>2. requests' = Append(requests, c)
  BY <1>1 DEF Ask, TrySend
<1> QED BY <1>2 DEF QueuesOK

(* The player's own steps.                                                 *)
LEMMA TaskLeaves ==
  ASSUME QueuesOK, Located, Task, ~ConnectionClosed, state' = "Idle", handles, ~missed',
         state = "Idle" => Underway
  PROVE  Underway'
<1> USE DEF Underway, connVars, credVars, emitVars, appVars, worldVars
<1>0. Running'
  BY DEF Running
<1>1. Running /\ ~missed /\ member' = member
  BY <1>0, TaskHears
<1>2. ASSUME NEW t, NextUpdate(t), t # "state" \/ ~Own(updates[1]), state = "Idle",
             after' = after, requests' = requests \/ requests' # <<>>
      PROVE  Underway'
  <2>1. updates # <<>> /\ updates' = Tail(updates) /\ ~Own(updates[1])
    BY <1>2 DEF NextUpdate, Own
  <2> QED BY <1>1, <1>2, <2>1, OwnStays
<1>3. CASE IgnoreStateUpdate
  BY <1>2, <1>3 DEF IgnoreStateUpdate, Ours, Own
<1>4. CASE StateUpdateConnecting
  BY <1>4 DEF StateUpdateConnecting
<1>5. CASE StateUpdateOtherwise
  <2>1. /\ updates # <<>> /\ updates' = Tail(updates) /\ Own(updates[1])
        /\ updates[1].channel = None
    BY <1>5 DEF StateUpdateOtherwise, NextUpdate, Ours, Own, ClearConnection
  <2>2. CASE NothingOwn'
    <3>1. LastWord(1) /\ 1 \in 1..Len(updates)
      BY <2>1, <2>2, LastTaken DEF LastWord
    <3> QED BY <1>1, <2>1, <3>1 DEF Located
  <2> QED BY <2>2
<1>6. CASE NewServer
  BY <1>2, <1>6 DEF NewServer
<1>7. CASE ServerGone
  BY <1>7 DEF ServerGone, Then, NoRequest
<1>8. CASE GuildOnline
  <2>1. requests' = requests \/ requests' # <<>>
    BY <1>8, AskedIsUnderway DEF GuildOnline
  <2> QED BY <1>2, <1>8, <2>1 DEF GuildOnline
<1>9. CASE GuildOffline
  BY <1>9 DEF GuildOffline, ClearConnection
<1>10. CASE SessionInvalidated
  BY <1>2, <1>10 DEF SessionInvalidated
<1>11. CASE ConnectAgain
  BY <1>11 DEF ConnectAgain, AlreadyThere
<1>12. CASE Connect
  BY <1>12 DEF Connect, ClearConnection
<1>13. CASE Disconnect \/ Shutdown
  BY <1>13 DEF Disconnect, Shutdown, Then, Leave, NoRequest
<1>14. ASSUME state = "Idle", Selecting, after' = NoRequest, UNCHANGED <<updates, requests>>
       PROVE  Underway'
  BY <1>1, <1>14 DEF Selecting, Busy, NothingOwn
<1>15. CASE Play \/ PlayRefused \/ Stop
  <2>1. state' = state /\ Selecting /\ after' = NoRequest /\ UNCHANGED <<updates, requests>>
    BY <1>15 DEF Play, PlayRefused, Stop, NextControl, Then
  <2> QED BY <1>14, <2>1
<1>16. CASE FrameSender
  BY <1>16 DEF FrameSender
<1>17. CASE EncoderEnds
  BY <1>14, <1>17 DEF EncoderEnds, Then
<1>18. CASE ConnectTimeout
  BY <1>18, AskedIsUnderway DEF ConnectTimeout
<1>19. CASE IdleTimeout
  BY <1>14, <1>19 DEF IdleTimeout, Selecting, Busy
<1>20. CASE Deliver
  BY <1>20 DEF Deliver, NothingOwn
<1>21. CASE Proceed
  BY <1>21, AskedIsUnderway DEF Proceed
<1>22. CASE End
  BY <1>22 DEF End
<1> QED BY <1>3, <1>4, <1>5, <1>6, <1>7, <1>8, <1>9, <1>10, <1>11, <1>12, <1>13, <1>15,
           <1>16, <1>17, <1>18, <1>19, <1>20, <1>21, <1>22 DEF Task, OnUpdate, OnControl

(* Discord serves a request, moves us or keeps us, and tells of it.        *)
LEMMA DiscordLeaves ==
  ASSUME QueuesOK, Discord, state = "Idle", handles, ~missed', Underway
  PROVE  Underway'
<1> USE DEF Underway
<1>1. Running
  BY DEF Running
<1>2. PICK news \in Seq(Updates) : updates' = updates \o news /\ TellsOf(news)
  BY <1>1, DiscordTells
<1>3. after' = after
  BY DiscordFrame DEF taskVars, emitVars
<1>4. /\ NothingOwn' => NothingOwn
      /\ news # <<>> /\ Own(news[1]) => ~NothingOwn'
  BY <1>2, OwnWaits
<1>5. Own(news[1]) /\ Len(news) \in {1, 2} => ~NothingOwn'
  BY <1>4
<1>6. member' = member \/ ~NothingOwn'
  BY <1>2, <1>5 DEF TellsOf
<1>7. CASE Serve
  <2>1. member' = requests[1]
    BY <1>7 DEF Serve
  <2>2. CASE requests[1] = None
    BY <2>1, <2>2
  <2>3. CASE requests[1] # None
    <3>1. handles /\ state # "Ended" /\ Push(Joined(requests[1]))
      BY <1>7, <2>3 DEF Serve
    <3>2. requests[1] \in Place
      BY <1>7, TailBounded DEF Serve, QueuesOK
    <3>3. Joined(requests[1]) \in Seq(Updates)
      BY <3>2, NewsTyped
    <3>4. updates' = updates \o Joined(requests[1])
      BY <3>1, <3>3 DEF Push
    <3>5. Joined(requests[1]) # <<>> /\ Own(Joined(requests[1])[1])
      BY DEF Joined, StateUpdate, Own
    <3> QED BY <3>3, <3>4, <3>5, OwnWaits
  <2> QED BY <2>2, <2>3
<1>8. CASE Kick \/ Move \/ ServerLost \/ Outage \/ Recovery \/ Invalidation \/ Stranger
  <2>1. requests' = requests
    BY <1>8 DEF Kick, Move, ServerLost, Outage, Recovery, Invalidation, Stranger, Unsolicited
  <2> QED BY <1>3, <1>4, <1>6, <2>1
<1> QED BY <1>7, <1>8 DEF Discord

(* No step leaves an idle player behind in a channel.                      *)
LEMMA LeavingStep ==
  TypeOK /\ Located /\ Leaving /\ [SystemNext]_systemVars => Leaving'
<1> SUFFICES ASSUME TypeOK, Located, Leaving, [SystemNext]_systemVars,
                    state' = "Idle", handles', ~missed', ~cutOff'
             PROVE  Underway'
  BY DEF Leaving
<1>0. QueuesOK
  BY DEF TypeOK
<1>1. CASE Next /\ Follow
  <2>1. ~ConnectionClosed /\ ~cutOff
    BY <1>1 DEF Follow
  <2>2. CASE Task
    <3>1. handles /\ ~missed
      <4>1. Running'
        BY DEF Running
      <4> QED BY <1>0, <2>2, <4>1, TaskHears
    <3>2. state = "Idle" => Underway
      BY <2>1, <3>1 DEF Leaving
    <3> QED BY <1>0, <2>1, <2>2, <3>1, <3>2, TaskLeaves
  <2>3. CASE Discord
    <3>1. state = "Idle" /\ handles
      BY <2>3, DiscordFrame DEF taskVars, Discord, Serve, Kick, Move, ServerLost, Outage,
         Recovery, Invalidation, Stranger, Unsolicited, appVars
    <3>2. Running
      BY <3>1 DEF Running
    <3>3. ~missed
      BY <1>0, <2>3, <3>1, <3>2, DiscordTells
    <3> QED BY <1>0, <2>1, <2>3, <3>1, <3>3, DiscordLeaves DEF Leaving
  <2>4. CASE App \/ Quiet
    <3>1. UNCHANGED <<state, after, updates, requests, member, missed>> /\ handles
      BY <2>4 DEF App, Issue, ReadEvent, DropListener, DropHandles, Quiet, vars, taskVars, emitVars,
         appVars, worldVars
    <3> QED BY <2>1, <3>1 DEF Leaving, Underway, NothingOwn
  <2> QED BY <1>1, <2>2, <2>3, <2>4 DEF Next
<1>2. CASE (\E l \in Links : Connection(l)) \/ UNCHANGED systemVars
  <2>1. UNCHANGED vars /\ cutOff' = cutOff
    BY <1>2 DEF Connection, systemVars, linkVars
  <2> QED BY <2>1 DEF vars, emitVars, appVars, worldVars, Leaving, Underway, NothingOwn
<1> QED BY <1>1, <1>2 DEF SystemNext

(* A player that is idle, with all news digested and none lost, is in no   *)
(* voice channel, unless a connection ended by itself: through timeouts,   *)
(* lost servers, late echoes and any number of connections (player.rs:     *)
(* 284-300, 337-345, 411-418).                                             *)
THEOREM IdleIsGone == SystemSpec => []IdleMeansGone
<1>1. SystemInit => Leaving
  BY DEF SystemInit, Init, Leaving, Underway
<1>2. Leaving => IdleMeansGone
  BY DEF Leaving, IdleMeansGone, Underway, Settled, Busy, NothingOwn
<1>3. Spec => [](TypeOK /\ Located)
  BY TypeCorrect, AlwaysLocated, PTL
<1> QED BY <1>1, <1>2, <1>3, LeavingStep, PlayerIsPlayer, PTL DEF SystemSpec
=============================================================================
