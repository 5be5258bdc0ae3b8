---------------------------- MODULE Player_proofs ----------------------------
(***************************************************************************)
(* Theorems about Player, for every set of channels, every mix of news and *)
(* every capacity.                                                         *)
(***************************************************************************)
EXTENDS Player, TLAPS

USE PlayerAssumption DEF PlayerAssumption, ConnAfterClear

(* The application and Discord touch none of the task's own variables.     *)
LEMMA AppFrame == App => UNCHANGED taskVars
BY DEF App, Issue, ReadEvent, DropListener, DropHandles

(* Discord acts on the channels and its own state only.                    *)
LEMMA DiscordFrame == Discord => UNCHANGED taskVars
BY DEF Discord, Serve, Kick, Move, ServerLost, Outage, Recovery, Invalidation, Stranger,
       Unsolicited

-----------------------------------------------------------------------------
(* The task's own flags.                                                   *)

(* Every action keeps the flags in their types.                            *)
LEMMA FlagsStep == FlagsOK /\ [Next]_vars => FlagsOK'
<1> SUFFICES ASSUME FlagsOK, [Next]_vars PROVE FlagsOK'
  OBVIOUS
<1> USE DEF FlagsOK, Kinds, connVars, credVars, emitVars
<1>1. CASE IgnoreStateUpdate  BY <1>1 DEF IgnoreStateUpdate
<1>2. CASE StateUpdateConnecting  BY <1>2
          DEF StateUpdateConnecting, Spawned, Complete, NextUpdate, Selecting
<1>3. CASE StateUpdateOtherwise  BY <1>3
          DEF StateUpdateOtherwise, ClearConnection, ArmedAfterClear,
              EncoderAfterClear, Emit, EmitNothing, Believes, NextUpdate,
              Selecting
<1>4. CASE NewServer  BY <1>4 DEF NewServer, Spawned, Complete, NextUpdate, Selecting
<1>5. CASE ServerGone  BY <1>5
          DEF ServerGone, ClearConnection, ArmedAfterClear, EncoderAfterClear,
              Emit, EmitNothing, Believes
<1>6. CASE GuildOnline  BY <1>6 DEF GuildOnline, Spawned, Complete, NextUpdate, Selecting
<1>7. CASE GuildOffline  BY <1>7
          DEF GuildOffline, ClearConnection, ArmedAfterClear, EncoderAfterClear,
              Emit, EmitNothing, Believes, NextUpdate, Selecting
<1>8. CASE SessionInvalidated  BY <1>8
          DEF SessionInvalidated, Spawned, Complete, NextUpdate, Selecting
<1>9. CASE ConnectAgain  BY <1>9
          DEF ConnectAgain, AlreadyThere, Emit, EmitNothing, Believes
<1>10. CASE Connect  BY <1>10
          DEF Connect, ClearConnection, ArmedAfterClear, EncoderAfterClear,
              Emit, EmitNothing, Believes
<1>11. CASE Disconnect  BY <1>11
          DEF Disconnect, ClearConnection, ArmedAfterClear, EncoderAfterClear,
              Emit, EmitNothing, Believes
<1>12. CASE Shutdown  BY <1>12
          DEF Shutdown, Emit, EmitNothing, Believes, NextControl, Selecting
<1>13. CASE Play  BY <1>13 DEF Play, Emit, EmitNothing, Believes
<1>14. CASE PlayRefused  BY <1>14
          DEF PlayRefused, Emit, EmitNothing, Believes, NextControl, Selecting
<1>15. CASE Stop  BY <1>15 DEF Stop, Emit, EmitNothing, Believes, NextControl, Selecting
<1>16. CASE FrameSender  BY <1>16
          DEF FrameSender, TimerOnceConnected, Selecting, Emit, EmitNothing,
              Believes
<1>17. CASE ConnectionClosed  BY <1>17
          DEF ConnectionClosed, ClearConnection, ArmedAfterClear,
              EncoderAfterClear, Emit, EmitNothing, Believes, Selecting
<1>18. CASE EncoderEnds  BY <1>18 DEF EncoderEnds, Selecting, Emit, EmitNothing, Believes
<1>19. CASE ConnectTimeout  BY <1>19 DEF ConnectTimeout, Emit, EmitNothing, Believes
<1>20. CASE IdleTimeout  BY <1>20 DEF IdleTimeout, Selecting
<1>21. CASE Deliver  BY <1>21 DEF Deliver
<1>22. CASE Proceed  BY <1>22 DEF Proceed
<1>23. CASE End  BY <1>23 DEF End
<1>24. CASE App  BY <1>24, AppFrame DEF taskVars
<1>25. CASE Discord  BY <1>25, DiscordFrame DEF taskVars
<1>26. CASE UNCHANGED vars  BY <1>26 DEF vars
<1>27. QED
  BY <1>1, <1>2, <1>3, <1>4, <1>5, <1>6, <1>7, <1>8, <1>9, <1>10, <1>11,
     <1>12, <1>13, <1>14, <1>15, <1>16, <1>17, <1>18, <1>19, <1>20, <1>21,
     <1>22, <1>23, <1>24, <1>25, <1>26
     DEF Next, Task, OnUpdate, OnControl, Quiet

(* Every action keeps Shape, given the types.                              *)
LEMMA ShapeStep == FlagsOK /\ Shape /\ [Next]_vars => Shape'
<1> SUFFICES ASSUME FlagsOK /\ Shape, [Next]_vars PROVE Shape'
  OBVIOUS
<1> USE DEF FlagsOK, Shape, connVars, credVars, emitVars
<1>1. CASE IgnoreStateUpdate  BY <1>1 DEF IgnoreStateUpdate
<1>2. CASE StateUpdateConnecting  BY <1>2
          DEF StateUpdateConnecting, Spawned, Complete, NextUpdate, Selecting
<1>3. CASE StateUpdateOtherwise  BY <1>3
          DEF StateUpdateOtherwise, ClearConnection, ArmedAfterClear,
              EncoderAfterClear, Emit, EmitNothing, Believes, NextUpdate,
              Selecting
<1>4. CASE NewServer  BY <1>4 DEF NewServer, Spawned, Complete, NextUpdate, Selecting
<1>5. CASE ServerGone  BY <1>5
          DEF ServerGone, ClearConnection, ArmedAfterClear, EncoderAfterClear,
              Emit, EmitNothing, Believes
<1>6. CASE GuildOnline  BY <1>6 DEF GuildOnline, Spawned, Complete, NextUpdate, Selecting
<1>7. CASE GuildOffline  BY <1>7
          DEF GuildOffline, ClearConnection, ArmedAfterClear, EncoderAfterClear,
              Emit, EmitNothing, Believes, NextUpdate, Selecting
<1>8. CASE SessionInvalidated  BY <1>8
          DEF SessionInvalidated, Spawned, Complete, NextUpdate, Selecting
<1>9. CASE ConnectAgain  BY <1>9
          DEF ConnectAgain, AlreadyThere, Emit, EmitNothing, Believes
<1>10. CASE Connect  BY <1>10
          DEF Connect, ClearConnection, ArmedAfterClear, EncoderAfterClear,
              Emit, EmitNothing, Believes
<1>11. CASE Disconnect  BY <1>11
          DEF Disconnect, ClearConnection, ArmedAfterClear, EncoderAfterClear,
              Emit, EmitNothing, Believes
<1>12. CASE Shutdown  BY <1>12
          DEF Shutdown, Emit, EmitNothing, Believes, NextControl, Selecting
<1>13. CASE Play  BY <1>13 DEF Play, Emit, EmitNothing, Believes
<1>14. CASE PlayRefused  BY <1>14
          DEF PlayRefused, Emit, EmitNothing, Believes, NextControl, Selecting
<1>15. CASE Stop  BY <1>15 DEF Stop, Emit, EmitNothing, Believes, NextControl, Selecting
<1>16. CASE FrameSender  BY <1>16
          DEF FrameSender, TimerOnceConnected, Selecting, Emit, EmitNothing,
              Believes
<1>17. CASE ConnectionClosed  BY <1>17
          DEF ConnectionClosed, ClearConnection, ArmedAfterClear,
              EncoderAfterClear, Emit, EmitNothing, Believes, Selecting
<1>18. CASE EncoderEnds  BY <1>18 DEF EncoderEnds, Selecting, Emit, EmitNothing, Believes
<1>19. CASE ConnectTimeout  BY <1>19 DEF ConnectTimeout, Emit, EmitNothing, Believes
<1>20. CASE IdleTimeout  BY <1>20 DEF IdleTimeout, Selecting
<1>21. CASE Deliver  BY <1>21 DEF Deliver
<1>22. CASE Proceed  BY <1>22 DEF Proceed
<1>23. CASE End  BY <1>23 DEF End
<1>24. CASE App  BY <1>24, AppFrame DEF taskVars
<1>25. CASE Discord  BY <1>25, DiscordFrame DEF taskVars
<1>26. CASE UNCHANGED vars  BY <1>26 DEF vars
<1>27. QED
  BY <1>1, <1>2, <1>3, <1>4, <1>5, <1>6, <1>7, <1>8, <1>9, <1>10, <1>11,
     <1>12, <1>13, <1>14, <1>15, <1>16, <1>17, <1>18, <1>19, <1>20, <1>21,
     <1>22, <1>23, <1>24, <1>25, <1>26
     DEF Next, Task, OnUpdate, OnControl, Quiet

(* Every action keeps the listener's view true, given Shape.               *)
LEMMA ViewStep == FlagsOK /\ Shape /\ ViewTruthful /\ [Next]_vars => ViewTruthful'
<1> SUFFICES ASSUME FlagsOK /\ Shape /\ ViewTruthful, [Next]_vars PROVE ViewTruthful'
  OBVIOUS
<1> USE DEF FlagsOK, Shape, ViewTruthful, connVars, credVars, emitVars
<1>1. CASE IgnoreStateUpdate  BY <1>1 DEF IgnoreStateUpdate
<1>2. CASE StateUpdateConnecting  BY <1>2
          DEF StateUpdateConnecting, Spawned, Complete, NextUpdate, Selecting
<1>3. CASE StateUpdateOtherwise  BY <1>3
          DEF StateUpdateOtherwise, ClearConnection, ArmedAfterClear,
              EncoderAfterClear, Emit, EmitNothing, Believes, NextUpdate,
              Selecting
<1>4. CASE NewServer  BY <1>4 DEF NewServer, Spawned, Complete, NextUpdate, Selecting
<1>5. CASE ServerGone  BY <1>5
          DEF ServerGone, ClearConnection, ArmedAfterClear, EncoderAfterClear,
              Emit, EmitNothing, Believes
<1>6. CASE GuildOnline  BY <1>6 DEF GuildOnline, Spawned, Complete, NextUpdate, Selecting
<1>7. CASE GuildOffline  BY <1>7
          DEF GuildOffline, ClearConnection, ArmedAfterClear, EncoderAfterClear,
              Emit, EmitNothing, Believes, NextUpdate, Selecting
<1>8. CASE SessionInvalidated  BY <1>8
          DEF SessionInvalidated, Spawned, Complete, NextUpdate, Selecting
<1>9. CASE ConnectAgain  BY <1>9
          DEF ConnectAgain, AlreadyThere, Emit, EmitNothing, Believes
<1>10. CASE Connect  BY <1>10
          DEF Connect, ClearConnection, ArmedAfterClear, EncoderAfterClear,
              Emit, EmitNothing, Believes
<1>11. CASE Disconnect  BY <1>11
          DEF Disconnect, ClearConnection, ArmedAfterClear, EncoderAfterClear,
              Emit, EmitNothing, Believes
<1>12. CASE Shutdown  BY <1>12
          DEF Shutdown, Emit, EmitNothing, Believes, NextControl, Selecting
<1>13. CASE Play  BY <1>13 DEF Play, Emit, EmitNothing, Believes
<1>14. CASE PlayRefused  BY <1>14
          DEF PlayRefused, Emit, EmitNothing, Believes, NextControl, Selecting
<1>15. CASE Stop  BY <1>15 DEF Stop, Emit, EmitNothing, Believes, NextControl, Selecting
<1>16. CASE FrameSender  BY <1>16
          DEF FrameSender, TimerOnceConnected, Selecting, Emit, EmitNothing,
              Believes
<1>17. CASE ConnectionClosed  BY <1>17
          DEF ConnectionClosed, ClearConnection, ArmedAfterClear,
              EncoderAfterClear, Emit, EmitNothing, Believes, Selecting
<1>18. CASE EncoderEnds  BY <1>18 DEF EncoderEnds, Selecting, Emit, EmitNothing, Believes
<1>19. CASE ConnectTimeout  BY <1>19 DEF ConnectTimeout, Emit, EmitNothing, Believes
<1>20. CASE IdleTimeout  BY <1>20 DEF IdleTimeout, Selecting
<1>21. CASE Deliver  BY <1>21 DEF Deliver
<1>22. CASE Proceed  BY <1>22 DEF Proceed
<1>23. CASE End  BY <1>23 DEF End
<1>24. CASE App  BY <1>24, AppFrame DEF taskVars
<1>25. CASE Discord  BY <1>25, DiscordFrame DEF taskVars
<1>26. CASE UNCHANGED vars  BY <1>26 DEF vars
<1>27. QED
  BY <1>1, <1>2, <1>3, <1>4, <1>5, <1>6, <1>7, <1>8, <1>9, <1>10, <1>11,
     <1>12, <1>13, <1>14, <1>15, <1>16, <1>17, <1>18, <1>19, <1>20, <1>21,
     <1>22, <1>23, <1>24, <1>25, <1>26
     DEF Next, Task, OnUpdate, OnControl, Quiet

-----------------------------------------------------------------------------
(* The channels.                                                           *)

(* The kinds of updates and what they carry.                               *)
LEMMA UpdateShape ==
  ASSUME NEW u \in Updates
  PROVE  /\ u.type = "state" => u.channel \in Place /\ u.ours \in BOOLEAN
         /\ u.type = "server" => u.endpoint \in BOOLEAN
BY DEF Updates

(* The kinds of controls and what they carry.                              *)
LEMMA ControlShape ==
  ASSUME NEW c \in Controls, c.type = "connect"
  PROVE  c.channel \in Channels
BY DEF Controls

(* try_send keeps a queue within its capacity.                             *)
LEMMA TrySendBounded ==
  ASSUME NEW S, NEW q \in Seq(S), NEW x \in S, NEW cap \in Nat, Len(q) <= cap
  PROVE  TrySend(q, x, cap) \in Seq(S) /\ Len(TrySend(q, x, cap)) <= cap
BY DEF TrySend, HasRoom

(* So does taking an element.                                              *)
LEMMA TailBounded ==
  ASSUME NEW S, NEW q \in Seq(S), NEW cap \in Nat, Len(q) <= cap, q # <<>>
  PROVE  Tail(q) \in Seq(S) /\ Len(Tail(q)) <= cap /\ q[1] \in S
OBVIOUS

(* A request is made within the capacity of the gateway's channel.         *)
LEMMA AskBounded ==
  ASSUME QueuesOK, NEW c \in Place, Ask(c)
  PROVE  requests' \in Seq(Place) /\ Len(requests') <= RequestCap /\ missed' \in BOOLEAN
<1>1. requests' = TrySend(requests, c, RequestCap) /\ missed' \in BOOLEAN
  BY DEF Ask, QueuesOK
<1>2. QED
  BY <1>1, TrySendBounded DEF QueuesOK

(* The Updater pushes what fits.                                           *)
LEMMA PushBounded ==
  ASSUME QueuesOK, NEW news \in Seq(Updates), Push(news)
  PROVE  updates' \in Seq(Updates) /\ Len(updates') <= UpdateCap /\ missed' \in BOOLEAN
<1> DEFINE fits == UpdateCap - Len(updates)
           kept == IF Len(news) <= fits THEN news ELSE SubSeq(news, 1, fits)
<1>1. fits \in Nat
  BY DEF QueuesOK
<1>2. kept \in Seq(Updates) /\ Len(kept) <= fits
  BY <1>1
<1>3. updates \o kept \in Seq(Updates) /\ Len(updates \o kept) <= UpdateCap
  BY <1>2 DEF QueuesOK
<1>4. missed' \in BOOLEAN
  BY DEF Push
<1>5. updates' = updates \o kept \/ updates' = updates
  BY DEF Push
<1>6. QED
  BY <1>3, <1>4, <1>5 DEF QueuesOK

(* The places and requests that occur.                                     *)
LEMMA PlaceFacts ==
  /\ None \in Place /\ Channels \subseteq Place
  /\ NoRequest \in Request
  /\ \A c \in Place : <<c>> \in Request
  /\ \A r \in Request : r # NoRequest => r[1] \in Place
BY DEF Place, Request, NoRequest

(* What taking the next update or control leaves.                          *)
LEMMA NextUpdateOK ==
  ASSUME QueuesOK, NEW t, NextUpdate(t)
  PROVE  /\ updates' \in Seq(Updates) /\ Len(updates') <= UpdateCap
         /\ t = "state" => updates[1].channel \in Place
         /\ t = "server" => updates[1].endpoint \in BOOLEAN
         /\ UNCHANGED <<controls, events, appVars, worldVars, wish>>
<1>1. updates # <<>> /\ updates[1].type = t /\ updates' = Tail(updates)
  BY DEF NextUpdate
<1>2. updates' \in Seq(Updates) /\ Len(updates') <= UpdateCap /\ updates[1] \in Updates
  BY <1>1, TailBounded DEF QueuesOK
<1>3. QED
  BY <1>1, <1>2, UpdateShape DEF NextUpdate

(* What is left after a control was taken.                                 *)
LEMMA NextControlOK ==
  ASSUME QueuesOK, NEW t, NextControl(t)
  PROVE  /\ controls' \in Seq(Controls) /\ Len(controls') <= ControlCap
         /\ t = "connect" => controls[1].channel \in Channels
         /\ UNCHANGED <<updates, events, appVars, requests, worldVars, missed>>
<1>1. controls # <<>> /\ controls[1].type = t /\ controls' = Tail(controls)
  BY DEF NextControl
<1>2. controls' \in Seq(Controls) /\ Len(controls') <= ControlCap /\ controls[1] \in Controls
  BY <1>1, TailBounded DEF QueuesOK
<1>3. QED
  BY <1>1, <1>2, ControlShape DEF NextControl

(* The updates Discord answers with.                                       *)
LEMMA ShortSeq ==
  ASSUME NEW S
  PROVE  /\ <<>> \in Seq(S)
         /\ \A x \in S : <<x>> \in Seq(S)
         /\ \A x, y \in S : <<x, y>> \in Seq(S)
OBVIOUS

(* What Discord may report is made of updates.                             *)
LEMMA NewsTyped ==
  /\ Left \in Seq(Updates) /\ <<>> \in Seq(Updates)
  /\ <<ServerUpdate(FALSE)>> \in Seq(Updates)
  /\ \A c \in Place : Joined(c) \in Seq(Updates)
  /\ \A c \in Place : <<StateUpdate(c, FALSE)>> \in Seq(Updates)
  /\ \A t \in {"online", "offline", "invalidated"} : <<Plain(t)>> \in Seq(Updates)
<1>1. ServerUpdate(FALSE) \in Updates /\ ServerUpdate(TRUE) \in Updates
  <2>1. \A e \in BOOLEAN : ServerUpdate(e) \in Updates
    BY DEF Updates, ServerUpdate
  <2>2. QED
    BY <2>1
<1>2. \A c \in Place : StateUpdate(c, TRUE) \in Updates /\ StateUpdate(c, FALSE) \in Updates
  <2>1. \A c \in Place, e \in BOOLEAN : StateUpdate(c, e) \in Updates
    BY DEF Updates, StateUpdate
  <2>2. QED
    BY <2>1
<1>3. \A t \in {"online", "offline", "invalidated"} : Plain(t) \in Updates
  BY DEF Updates, Plain
<1>4. Left \in Seq(Updates) /\ <<>> \in Seq(Updates)
  BY <1>2, PlaceFacts, ShortSeq DEF Left
<1>5. \A c \in Place : Joined(c) \in Seq(Updates)
  BY <1>1, <1>2, ShortSeq DEF Joined
<1>6. /\ <<ServerUpdate(FALSE)>> \in Seq(Updates)
      /\ \A c \in Place : <<StateUpdate(c, FALSE)>> \in Seq(Updates)
      /\ \A t \in {"online", "offline", "invalidated"} : <<Plain(t)>> \in Seq(Updates)
  BY <1>1, <1>2, <1>3, ShortSeq
<1>7. QED
  BY <1>4, <1>5, <1>6

(* Every action keeps the channels bounded.                                *)
LEMMA QueuesStep == QueuesOK /\ [Next]_vars => QueuesOK'
<1> SUFFICES ASSUME QueuesOK, [Next]_vars PROVE QueuesOK'
  OBVIOUS
<1> USE DEF QueuesOK, appVars, worldVars, connVars, credVars, emitVars
<1>1. CASE IgnoreStateUpdate
  BY <1>1, NextUpdateOK DEF IgnoreStateUpdate
<1>2. CASE StateUpdateConnecting
  BY <1>2, NextUpdateOK DEF StateUpdateConnecting
<1>3. CASE StateUpdateOtherwise
  BY <1>3, NextUpdateOK, PlaceFacts DEF StateUpdateOtherwise, ClearConnection, Then
<1>4. CASE NewServer
  BY <1>4, NextUpdateOK DEF NewServer
<1>5. CASE ServerGone
  BY <1>5, NextUpdateOK, PlaceFacts DEF ServerGone, ClearConnection, Then
<1>6. CASE GuildOnline
  <2>1. requests' \in Seq(Place) /\ Len(requests') <= RequestCap /\ missed' \in BOOLEAN
    BY <1>6, AskBounded DEF GuildOnline
  <2>2. QED
    BY <1>6, <2>1, NextUpdateOK DEF GuildOnline
<1>7. CASE GuildOffline
  BY <1>7, NextUpdateOK, PlaceFacts DEF GuildOffline, ClearConnection, Then
<1>8. CASE SessionInvalidated
  BY <1>8, NextUpdateOK DEF SessionInvalidated
<1>9. CASE ConnectAgain
  BY <1>9, NextControlOK, PlaceFacts DEF ConnectAgain, Then
<1>10. CASE Connect
  BY <1>10, NextControlOK, PlaceFacts DEF Connect, ClearConnection, Then, Leave
<1>11. CASE Disconnect
  BY <1>11, NextControlOK, PlaceFacts DEF Disconnect, ClearConnection, Then, Leave
<1>12. CASE Shutdown
  BY <1>12, NextControlOK, PlaceFacts DEF Shutdown, Then, Leave
<1>13. CASE Play
  BY <1>13, NextControlOK, PlaceFacts DEF Play, Then
<1>14. CASE PlayRefused
  BY <1>14, NextControlOK, PlaceFacts DEF PlayRefused, Then
<1>15. CASE Stop
  BY <1>15, NextControlOK, PlaceFacts DEF Stop, Then
<1>16. CASE FrameSender
  BY <1>16, PlaceFacts DEF FrameSender, Then
<1>17. CASE ConnectionClosed
  BY <1>17, PlaceFacts DEF ConnectionClosed, ClearConnection, Then
<1>18. CASE EncoderEnds
  BY <1>18, PlaceFacts DEF EncoderEnds, Then
<1>19. CASE ConnectTimeout
  <2>1. requests' \in Seq(Place) /\ Len(requests') <= RequestCap /\ missed' \in BOOLEAN
    BY <1>19, AskBounded, PlaceFacts DEF ConnectTimeout
  <2>2. QED
    BY <1>19, <2>1, PlaceFacts DEF ConnectTimeout, Then
<1>20. CASE IdleTimeout  BY <1>20 DEF IdleTimeout
<1>21. CASE Deliver  BY <1>21 DEF Deliver
<1>22. CASE Proceed
  <2>1. after[1] \in Place
    BY <1>22, PlaceFacts DEF Proceed
  <2>2. requests' \in Seq(Place) /\ Len(requests') <= RequestCap /\ missed' \in BOOLEAN
    BY <1>22, <2>1, AskBounded DEF Proceed
  <2>3. QED
    BY <1>22, <2>2, PlaceFacts DEF Proceed
<1>23. CASE End  BY <1>23 DEF End
<1>24. CASE App
  <2>1. CASE Issue
    <3>1. controls' \in Seq(Controls) /\ Len(controls') <= ControlCap
      BY <2>1 DEF Issue, HasRoom
    <3>2. QED
      BY <2>1, <3>1 DEF Issue, taskVars
  <2>2. CASE ReadEvent  BY <2>2 DEF ReadEvent, taskVars
  <2>3. CASE DropListener
    <3>1. listening' \in BOOLEAN
      BY <2>3 DEF DropListener
    <3>2. QED
      BY <2>3, <3>1 DEF DropListener, taskVars
  <2>4. CASE DropHandles  BY <2>4 DEF DropHandles, taskVars
  <2>5. QED
    BY <1>24, <2>1, <2>2, <2>3, <2>4 DEF App
<1>25. CASE Discord
  <2>1. CASE Serve
    <3>1. requests[1] \in Place /\ requests' \in Seq(Place) /\ Len(requests') <= RequestCap
      BY <2>1, TailBounded DEF Serve
    <3>2. /\ Joined(requests[1]) \in Seq(Updates) /\ Left \in Seq(Updates)
          /\ <<>> \in Seq(Updates)
      BY <3>1, NewsTyped
    <3>3. updates' \in Seq(Updates) /\ Len(updates') <= UpdateCap /\ missed' \in BOOLEAN
      BY <2>1, <3>2, PushBounded DEF Serve
    <3>4. QED
      BY <2>1, <3>1, <3>3 DEF Serve, taskVars
  <2>2. ASSUME NEW kind, NEW place \in Place, NEW news \in Seq(Updates),
               Unsolicited(kind, place, news)
        PROVE  QueuesOK'
    <3>1. updates' \in Seq(Updates) /\ Len(updates') <= UpdateCap /\ missed' \in BOOLEAN
      BY <2>2, PushBounded DEF Unsolicited
    <3>2. QED
      BY <2>2, <3>1 DEF Unsolicited, taskVars
  <2>3. CASE Kick  BY <2>2, <2>3, NewsTyped, PlaceFacts DEF Kick
  <2>4. CASE Move  BY <2>2, <2>4, NewsTyped, PlaceFacts DEF Move
  <2>5. CASE ServerLost  BY <2>2, <2>5, NewsTyped DEF ServerLost
  <2>6. CASE Outage  BY <2>2, <2>6, NewsTyped DEF Outage
  <2>7. CASE Recovery  BY <2>2, <2>7, NewsTyped DEF Recovery
  <2>8. CASE Invalidation  BY <2>2, <2>8, NewsTyped DEF Invalidation
  <2>9. CASE Stranger  BY <2>2, <2>9, NewsTyped DEF Stranger
  <2>10. QED
    BY <1>25, <2>1, <2>3, <2>4, <2>5, <2>6, <2>7, <2>8, <2>9 DEF Discord
<1>26. CASE UNCHANGED vars  BY <1>26 DEF vars
<1>27. QED
  BY <1>1, <1>2, <1>3, <1>4, <1>5, <1>6, <1>7, <1>8, <1>9, <1>10, <1>11,
     <1>12, <1>13, <1>14, <1>15, <1>16, <1>17, <1>18, <1>19, <1>20, <1>21,
     <1>22, <1>23, <1>24, <1>25, <1>26
     DEF Next, Task, OnUpdate, OnControl, Quiet

-----------------------------------------------------------------------------
(* The theorems.                                                           *)

(* The initial state is typed.                                             *)
LEMMA InitTyped == Init => TypeOK
<1> SUFFICES ASSUME Init PROVE TypeOK
  OBVIOUS
<1>1. /\ session \in BOOLEAN /\ token \in BOOLEAN /\ endpoint \in BOOLEAN
      /\ timer \in BOOLEAN /\ voiceSend \in BOOLEAN /\ encoder \in BOOLEAN
      /\ missed \in BOOLEAN
  BY DEF Init
<1>2. FlagsOK
  BY <1>1 DEF Init, FlagsOK
<1>3. QueuesOK
  BY <1>1, PlaceFacts DEF Init, QueuesOK
<1>4. QED
  BY <1>2, <1>3 DEF TypeOK

(* The player's variables keep their types and no channel of it overflows, *)
(* whatever the updates, controls and connection events bring.             *)
THEOREM TypeCorrect == Spec => []TypeOK
<1>1. TypeOK /\ [Next]_vars => TypeOK'
  BY FlagsStep, QueuesStep DEF TypeOK
<1>2. QED
  BY InitTyped, <1>1, PTL DEF Spec

IInv == FlagsOK /\ Shape /\ ViewTruthful

(* The inductive invariant holds always.                                   *)
LEMMA Inductive == Spec => []IInv
<1>1. Init => IInv
  BY InitTyped DEF Init, IInv, TypeOK, Shape, ViewTruthful
<1>2. IInv /\ [Next]_vars => IInv'
  BY FlagsStep, ShapeStep, ViewStep DEF IInv
<1>3. QED
  BY <1>1, <1>2, PTL DEF Spec

(* The pieces of the player agree with its state, in any interleaving.     *)
THEOREM PlayerKeepsShape == Spec => []Shape
<1>1. IInv => Shape
  BY DEF IInv
<1>2. QED
  BY Inductive, <1>1, PTL

(* A listener that follows the events knows what the player does.          *)
THEOREM EventsTellTheTruth == Spec => []ViewTruthful
<1>1. IInv => ViewTruthful
  BY DEF IInv
<1>2. QED
  BY Inductive, <1>1, PTL

-----------------------------------------------------------------------------
(* Where Discord has us.  Between Discord and the player stand only the    *)
(* updates: the last of ours under way tells the channel we are in, and    *)
(* when none is under way a player with a session has already taken it in, *)
(* for everything that forgets the channel forgets the session too.        *)

Own(update) == update.type = "state" /\ update.ours

LastWord(i) ==
    /\ i \in 1..Len(updates) /\ Own(updates[i])
    /\ \A j \in (i + 1)..Len(updates) : ~Own(updates[j])

NothingOwn == \A i \in 1..Len(updates) : ~Own(updates[i])

Located ==
    (Running /\ handles /\ ~missed) =>
        /\ \A i \in 1..Len(updates) : LastWord(i) => updates[i].channel = member
        /\ NothingOwn /\ session => channel = member

(* What a step may do to the channel: it is forgotten with the session, or *)
(* set by an update of ours.                                               *)
KeepsOrForgets == session' => session /\ channel' = channel

Hears ==
    /\ updates # <<>> /\ updates' = Tail(updates)
    /\ IF Own(updates[1]) THEN channel' = updates[1].channel ELSE KeepsOrForgets

(* The task moves nobody; it takes the updates one at a time.              *)
LEMMA TaskHears ==
  ASSUME QueuesOK, Task, Running', ~missed'
  PROVE  /\ Running /\ ~missed /\ handles' = handles /\ member' = member
         /\ Hears \/ (updates' = updates /\ KeepsOrForgets)
<1> USE DEF Running, KeepsOrForgets, connVars, credVars, emitVars, appVars, worldVars
<1>0. \A c : Ask(c) => ~missed
  BY DEF Ask
<1>1. CASE OnUpdate
  <2>1. ASSUME NEW t, NextUpdate(t)
        PROVE  /\ updates # <<>> /\ updates' = Tail(updates) /\ updates[1].type = t
               /\ Selecting /\ handles' = handles /\ member' = member
    BY <2>1 DEF NextUpdate
  <2>2. CASE IgnoreStateUpdate
    BY <2>1, <2>2 DEF IgnoreStateUpdate, Ours, Hears, Own
  <2>3. CASE StateUpdateConnecting
    BY <2>1, <2>3 DEF StateUpdateConnecting, Ours, Hears, Own
  <2>4. CASE StateUpdateOtherwise
    BY <2>1, <2>4 DEF StateUpdateOtherwise, Ours, Hears, Own, Selecting
  <2>5. CASE NewServer
    BY <2>1, <2>5 DEF NewServer, Hears, Own
  <2>6. CASE ServerGone
    BY <2>1, <2>6 DEF ServerGone, Hears, Own
  <2>7. CASE GuildOnline
    <3>1. ~missed
      BY <1>0, <2>7 DEF GuildOnline
    <3> QED BY <2>1, <2>7, <3>1 DEF GuildOnline, Hears, Own
  <2>8. CASE GuildOffline
    BY <2>1, <2>8 DEF GuildOffline, Hears, Own, Selecting
  <2>9. CASE SessionInvalidated
    BY <2>1, <2>9 DEF SessionInvalidated, Hears, Own
  <2> QED BY <1>1, <2>2, <2>3, <2>4, <2>5, <2>6, <2>7, <2>8, <2>9 DEF OnUpdate
<1>2. CASE OnControl
  <2>1. ASSUME NEW t, NextControl(t)
        PROVE  Running /\ ~missed /\ handles' = handles /\ member' = member /\ updates' = updates
    BY <2>1 DEF NextControl, Selecting
  <2>2. CASE ConnectAgain \/ Play \/ PlayRefused \/ Stop
    BY <2>1, <2>2 DEF ConnectAgain, Play, PlayRefused, Stop
  <2>3. CASE Connect \/ Disconnect \/ Shutdown
    BY <2>1, <2>3 DEF Connect, Disconnect, Shutdown
  <2> QED BY <1>2, <2>2, <2>3 DEF OnControl
<1>3. CASE FrameSender \/ ConnectionClosed \/ EncoderEnds \/ IdleTimeout
  <2>1. Running /\ UNCHANGED <<handles, member, updates, missed>>
    BY <1>3 DEF FrameSender, ConnectionClosed, EncoderEnds, IdleTimeout, Selecting
  <2>2. KeepsOrForgets
    BY <1>3 DEF FrameSender, ConnectionClosed, EncoderEnds, IdleTimeout
  <2> QED BY <2>1, <2>2
<1>4. CASE ConnectTimeout
  BY <1>0, <1>4 DEF ConnectTimeout, Selecting
<1>5. CASE Proceed
  BY <1>0, <1>5 DEF Proceed
<1>6. CASE Deliver \/ End
  BY <1>6 DEF Deliver, End
<1> QED BY <1>1, <1>2, <1>3, <1>4, <1>5, <1>6 DEF Task

(* The news that Discord moved us to a place, or left us where we are.     *)
TellsOf(news) ==
    \/ /\ Own(news[1]) /\ news[1].channel = member' /\ Len(news) \in {1, 2}
       /\ Len(news) = 2 => ~Own(news[2])
    \/ member' = member /\ \A i \in 1..Len(news) : ~Own(news[i])

(* Whatever moves us is told, unless the news does not fit.                *)
LEMMA DiscordTells ==
  ASSUME QueuesOK, Discord, Running, handles, ~missed'
  PROVE  /\ ~missed /\ handles' = handles /\ session' = session /\ channel' = channel
         /\ \E news \in Seq(Updates) : updates' = updates \o news /\ TellsOf(news)
<1> USE DEF QueuesOK, Running, appVars, taskVars, credVars, worldVars
<1>1. ASSUME NEW news \in Seq(Updates), Push(news)
      PROVE  ~missed /\ updates' = updates \o news
  BY <1>1 DEF Push
<1>2. \A c \in Place : member' = c => TellsOf(Joined(c))
  BY DEF TellsOf, Joined, StateUpdate, ServerUpdate, Own
<1>3. member' = None => TellsOf(Left)
  BY DEF TellsOf, Left, StateUpdate, Own
<1>4. member' = member =>
        /\ TellsOf(<<>>) /\ TellsOf(<<ServerUpdate(FALSE)>>)
        /\ \A t \in {"online", "offline", "invalidated"} : TellsOf(<<Plain(t)>>)
        /\ \A c \in Place : TellsOf(<<StateUpdate(c, FALSE)>>)
  BY DEF TellsOf, StateUpdate, ServerUpdate, Plain, Own
<1>5. CASE Serve
  <2>1. requests[1] \in Place /\ member' = requests[1] /\ UNCHANGED <<handles, session, channel>>
    BY <1>5, TailBounded DEF Serve
  <2>2. CASE requests[1] # None
    BY <1>1, <1>2, <1>5, <2>1, <2>2, NewsTyped DEF Serve
  <2>3. CASE requests[1] = None /\ member # None
    BY <1>1, <1>3, <1>5, <2>1, <2>3, NewsTyped DEF Serve
  <2>4. CASE requests[1] = None /\ member = None
    BY <1>1, <1>4, <1>5, <2>1, <2>4, NewsTyped DEF Serve
  <2> QED BY <2>2, <2>3, <2>4
<1>6. ASSUME NEW kind, NEW place, NEW news \in Seq(Updates), Unsolicited(kind, place, news),
             member' = place => TellsOf(news)
      PROVE  /\ ~missed /\ handles' = handles /\ session' = session /\ channel' = channel
             /\ \E told \in Seq(Updates) : updates' = updates \o told /\ TellsOf(told)
  BY <1>1, <1>6 DEF Unsolicited
<1>7. CASE Kick
  BY <1>3, <1>6, <1>7, NewsTyped DEF Kick
<1>8. CASE Move
  BY <1>2, <1>6, <1>8, NewsTyped, PlaceFacts DEF Move
<1>9. CASE ServerLost
  BY <1>4, <1>6, <1>9, NewsTyped DEF ServerLost
<1>10. CASE Outage
  BY <1>4, <1>6, <1>10, NewsTyped DEF Outage
<1>11. CASE Recovery
  BY <1>4, <1>6, <1>11, NewsTyped DEF Recovery
<1>12. CASE Invalidation
  BY <1>4, <1>6, <1>12, NewsTyped DEF Invalidation
<1>13. CASE Stranger
  BY <1>4, <1>6, <1>13, NewsTyped DEF Stranger
<1> QED BY <1>5, <1>7, <1>8, <1>9, <1>10, <1>11, <1>12, <1>13 DEF Discord

(* Every step keeps us located.                                            *)
LEMMA LocatedStep == QueuesOK /\ Located /\ [Next]_vars => Located'
<1> SUFFICES ASSUME QueuesOK, Located, [Next]_vars, Running', handles', ~missed'
             PROVE  /\ \A i \in 1..Len(updates') : LastWord(i)' => updates'[i].channel = member'
                    /\ NothingOwn' /\ session' => channel' = member'
  BY DEF Located
<1>1. CASE Task
  <2>1. /\ Running /\ ~missed /\ handles /\ member' = member
        /\ Hears \/ (updates' = updates /\ KeepsOrForgets)
    BY <1>1, TaskHears
  <2>2. /\ \A i \in 1..Len(updates) : LastWord(i) => updates[i].channel = member
        /\ NothingOwn /\ session => channel = member
    BY <2>1 DEF Located
  <2>3. CASE updates' = updates /\ KeepsOrForgets
    BY <2>1, <2>2, <2>3 DEF LastWord, NothingOwn, KeepsOrForgets
  <2>4. CASE Hears
    <3>1. /\ Len(updates) \in Nat /\ Len(updates) >= 1 /\ Len(updates') = Len(updates) - 1
          /\ \A i \in 1..Len(updates') : updates'[i] = updates[i + 1]
      BY <2>4 DEF Hears, QueuesOK
    <3>2. ASSUME NEW i \in 1..Len(updates'), LastWord(i)' PROVE LastWord(i + 1)
      <4>1. i + 1 \in 1..Len(updates) /\ Own(updates[i + 1])
        BY <3>1, <3>2 DEF LastWord
      <4>2. ASSUME NEW j \in (i + 2)..Len(updates) PROVE ~Own(updates[j])
        <5>1. j - 1 \in (i + 1)..Len(updates') /\ updates'[j - 1] = updates[j]
          BY <3>1
        <5> QED BY <3>2, <5>1 DEF LastWord
      <4>3. \A j \in ((i + 1) + 1)..Len(updates) : ~Own(updates[j])
        <5>1. (i + 1) + 1 = i + 2
          OBVIOUS
        <5> QED BY <4>2, <5>1
      <4> QED BY <4>1, <4>3 DEF LastWord
    <3>3. NothingOwn' => NothingOwn \/ LastWord(1)
      <4> SUFFICES ASSUME NothingOwn' PROVE NothingOwn \/ LastWord(1)
        OBVIOUS
      <4>1. ASSUME NEW j \in 2..Len(updates) PROVE ~Own(updates[j])
        <5>1. j - 1 \in 1..Len(updates') /\ updates'[j - 1] = updates[j]
          BY <3>1
        <5> QED BY <5>1 DEF NothingOwn
      <4> QED BY <3>1, <4>1 DEF NothingOwn, LastWord
    <3>4. \A i \in 1..Len(updates') : LastWord(i)' => updates'[i].channel = member'
      BY <2>1, <2>2, <3>1, <3>2
    <3>5. NothingOwn' /\ session' => channel' = member'
      <4> SUFFICES ASSUME NothingOwn', session' PROVE channel' = member'
        OBVIOUS
      <4>1. CASE Own(updates[1])
        <5>1. LastWord(1)
          BY <3>1, <3>3, <4>1 DEF NothingOwn
        <5>2. updates[1].channel = member
          BY <2>2, <3>1, <5>1
        <5> QED BY <2>1, <2>4, <4>1, <5>2 DEF Hears
      <4>2. CASE ~Own(updates[1])
        <5>1. NothingOwn
          BY <3>3, <4>2 DEF LastWord
        <5> QED BY <2>1, <2>2, <2>4, <4>2, <5>1 DEF Hears, KeepsOrForgets
      <4> QED BY <4>1, <4>2
    <3> QED BY <3>4, <3>5
  <2> QED BY <2>1, <2>3, <2>4
<1>2. CASE Discord
  <2>1. Running /\ handles
    BY <1>2, DiscordFrame DEF taskVars, Running, Discord, Serve, Kick, Move, ServerLost, Outage,
       Recovery, Invalidation, Stranger, Unsolicited, appVars
  <2>2. PICK news \in Seq(Updates) : updates' = updates \o news /\ TellsOf(news)
    BY <1>2, <2>1, DiscordTells
  <2>3. /\ \A i \in 1..Len(updates) : LastWord(i) => updates[i].channel = member
        /\ NothingOwn /\ session => channel = member
    BY <1>2, <2>1, DiscordTells DEF Located
  <2>4. /\ Len(updates) \in Nat /\ Len(news) \in Nat /\ Len(updates') = Len(updates) + Len(news)
        /\ \A i \in 1..Len(updates) : updates'[i] = updates[i]
        /\ \A i \in 1..Len(news) : updates'[Len(updates) + i] = news[i]
    BY <2>2 DEF QueuesOK
  <2>5. CASE member' = member /\ \A i \in 1..Len(news) : ~Own(news[i])
    <3>1. \A i \in 1..Len(updates') : Own(updates'[i]) => i \in 1..Len(updates)
      <4> SUFFICES ASSUME NEW i \in 1..Len(updates'), i > Len(updates) PROVE ~Own(updates'[i])
        BY <2>4
      <4>1. i - Len(updates) \in 1..Len(news)
        BY <2>4
      <4>2. updates'[Len(updates) + (i - Len(updates))] = news[i - Len(updates)]
        BY <2>4, <4>1
      <4>3. updates'[i] = news[i - Len(updates)]
        BY <2>4, <4>2
      <4> QED BY <2>5, <4>1, <4>3
    <3>2. \A i \in 1..Len(updates') : LastWord(i)' => LastWord(i)
      BY <2>4, <3>1 DEF LastWord
    <3>3. NothingOwn' => NothingOwn
      BY <2>4 DEF NothingOwn
    <3>4. session' = session /\ channel' = channel
      BY <1>2, <2>1, DiscordTells
    <3>5. ASSUME NEW i \in 1..Len(updates'), LastWord(i)' PROVE updates'[i].channel = member'
      <4>1. i \in 1..Len(updates) /\ LastWord(i)
        BY <3>2, <3>5 DEF LastWord
      <4> QED BY <2>3, <2>4, <2>5, <4>1
    <3>6. NothingOwn' /\ session' => channel' = member'
      BY <2>3, <2>5, <3>3, <3>4
    <3> QED BY <3>5, <3>6
  <2>6. CASE /\ Own(news[1]) /\ news[1].channel = member' /\ Len(news) \in {1, 2}
             /\ Len(news) = 2 => ~Own(news[2])
    <3>1. Own(updates'[Len(updates) + 1]) /\ updates'[Len(updates) + 1].channel = member'
      BY <2>4, <2>6
    <3>2. \A i \in 1..Len(updates') : LastWord(i)' => i = Len(updates) + 1
      BY <2>4, <2>6, <3>1 DEF LastWord
    <3> QED BY <2>4, <2>6, <3>1, <3>2 DEF NothingOwn
  <2> QED BY <2>2, <2>5, <2>6 DEF TellsOf
<1>3. CASE App \/ Quiet \/ UNCHANGED vars
  <2>1. UNCHANGED <<state, session, channel, updates, member, missed>> /\ handles
    BY <1>3 DEF App, Issue, ReadEvent, DropListener, DropHandles, Quiet, vars, taskVars, credVars,
       appVars, worldVars
  <2> QED BY <2>1 DEF Located, Running, LastWord, NothingOwn
<1> QED BY <1>1, <1>2, <1>3 DEF Next

(* So we are located always.                                               *)
LEMMA AlwaysLocated == Spec => []Located
<1>1. Init => Located
  BY DEF Init, Located, NothingOwn, LastWord
<1>2. TypeOK /\ Located /\ [Next]_vars => Located'
  BY LocatedStep DEF TypeOK
<1> QED BY <1>1, <1>2, TypeCorrect, PTL DEF Spec

(* Wherever moves, kicks, outages and late echoes of its own requests send *)
(* it, a connected player that has digested all news is in the channel     *)
(* Discord has it in (player.rs:274-322).                                  *)
THEOREM ConnectedWhereDiscordSays == Spec => []Agreement
<1>1. IInv /\ Located => Agreement
  <2> SUFFICES ASSUME IInv, Located, Settled, state = "Connected", handles, ~missed
               PROVE  channel = member
    BY DEF Agreement
  <2>1. session
    BY DEF IInv, Shape
  <2>2. NothingOwn
    BY DEF Settled, NothingOwn
  <2> QED BY <2>1, <2>2 DEF Located, Settled
<1> QED BY <1>1, AlwaysLocated, Inductive, PTL
=============================================================================
