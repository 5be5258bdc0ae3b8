------------------------ MODULE VoiceConnection_proofs ------------------------
(***************************************************************************)
(* Proofs about the voice connection, for every capacity of its channels:  *)
(* type correctness, the causal order behind AudioReady, where the frame   *)
(* sender is, and that the connection keeps the contract VoiceLink the     *)
(* player relies on.  The inductive invariant adds to these which channels *)
(* are still empty in which state of a task (Order), and that the frame    *)
(* sender is in one place at a time (Single).                              *)
(***************************************************************************)
EXTENDS VoiceConnection, TLAPS

USE VoiceConnectionAssumption DEF VoiceConnectionAssumption

-----------------------------------------------------------------------------
(* Queues.                                                                 *)

Once(queue, e) == \A i, j \in DOMAIN queue : queue[i] = e /\ queue[j] = e => i = j

(* What an appended queue holds.                                           *)
LEMMA AppendFacts ==
  ASSUME NEW S, NEW q \in Seq(S), NEW x \in S, NEW e
  PROVE  /\ Append(q, x) \in Seq(S)
         /\ Len(Append(q, x)) = Len(q) + 1
         /\ Has(Append(q, x), e) <=> (Has(q, e) \/ x = e)
         /\ (Once(q, e) /\ (x # e \/ ~Has(q, e))) => Once(Append(q, x), e)
<1>1. /\ Append(q, x) \in Seq(S)
      /\ Len(Append(q, x)) = Len(q) + 1
      /\ Append(q, x)[Len(q) + 1] = x
      /\ \A i \in 1..Len(q) : Append(q, x)[i] = q[i]
  OBVIOUS
<1>2. DOMAIN Append(q, x) = 1..(Len(q) + 1) /\ DOMAIN q = 1..Len(q) /\ Len(q) \in Nat
  OBVIOUS
<1>3. Has(Append(q, x), e) <=> (Has(q, e) \/ x = e)
  BY <1>1, <1>2 DEF Has
<1>4. ASSUME Once(q, e), x # e \/ ~Has(q, e) PROVE Once(Append(q, x), e)
  BY <1>1, <1>2, <1>4 DEF Once, Has
<1> QED BY <1>1, <1>3, <1>4

(* What is left of a queue without its first element.                      *)
LEMMA TailFacts ==
  ASSUME NEW S, NEW q \in Seq(S), q # <<>>, NEW e
  PROVE  /\ Tail(q) \in Seq(S) /\ Len(Tail(q)) = Len(q) - 1 /\ Len(q) \in Nat \ {0}
         /\ q[1] \in S /\ Has(q, q[1])
         /\ Has(Tail(q), e) => Has(q, e)
         /\ q[1] # e => (Has(Tail(q), e) <=> Has(q, e))
         /\ Once(q, e) => Once(Tail(q), e)
         /\ (Once(q, e) /\ q[1] = e) => ~Has(Tail(q), e)
<1>1. /\ Tail(q) \in Seq(S) /\ Len(Tail(q)) = Len(q) - 1 /\ Len(q) \in Nat \ {0}
      /\ \A i \in 1..(Len(q) - 1) : Tail(q)[i] = q[i + 1]
      /\ q[1] \in S
  OBVIOUS
<1>2. DOMAIN Tail(q) = 1..(Len(q) - 1) /\ DOMAIN q = 1..Len(q)
  BY <1>1
<1>3. Has(q, q[1])
  BY <1>1, <1>2 DEF Has
<1>4. Has(Tail(q), e) => Has(q, e)
  BY <1>1, <1>2 DEF Has
<1>5. ASSUME q[1] # e, Has(q, e) PROVE Has(Tail(q), e)
  <2>1. PICK i \in 1..Len(q) : q[i] = e
    BY <1>5, <1>2 DEF Has
  <2>2. i # 1 /\ i - 1 \in 1..(Len(q) - 1)
    BY <2>1, <1>1, <1>5
  <2>3. Tail(q)[i - 1] = e
    BY <2>1, <2>2, <1>1
  <2> QED BY <2>2, <2>3, <1>2 DEF Has
<1>6. ASSUME Once(q, e) PROVE Once(Tail(q), e)
  BY <1>1, <1>2, <1>6 DEF Once
<1>7. ASSUME Once(q, e), q[1] = e PROVE ~Has(Tail(q), e)
  BY <1>1, <1>2, <1>7 DEF Once, Has
<1> QED BY <1>1, <1>3, <1>4, <1>5, <1>6, <1>7

(* An empty queue holds nothing.                                           *)
LEMMA EmptyFacts ==
  ASSUME NEW S, NEW e
  PROVE  <<>> \in Seq(S) /\ Len(<<>>) = 0 /\ ~Has(<<>>, e) /\ Once(<<>>, e)
  BY DEF Has, Once

-----------------------------------------------------------------------------
(* The inductive invariant.                                                *)

(* The order in which the tasks do their part: nothing reaches a channel   *)
(* before its sender is there, and each step that leads to audio was       *)
(* preceded by the one before it.                                          *)
Order ==
    /\ reader = "handshake" => gwEvents = <<>>
    /\ state = "Connecting" => toPlayer = <<>> /\ socket = "none"
    /\ state = "Connected" => socket # "none"
    /\ socket \in {"none", "discovering"} => sockEvents = <<>>
    /\ ~addr => commands = <<>>
    /\ selected => addr
    /\ Has(gwEvents, "description") => selected
    /\ key => selected
    /\ socket = "offering" => key
    /\ sender # "none" => key

(* There is one frame sender, made when the socket offers it.              *)
Single ==
    /\ socket \in {"none", "discovering", "keyless", "offering"} => sender = "none"
    /\ sender \in {"none", "queued"} => Len(toPlayer) <= 1
    /\ (sender = "queued") <=> Has(sockEvents, "sender")
    /\ (sender = "offered") <=> Has(toPlayer, "sender")
    /\ sender = "held" => listening
    /\ ~listening => toPlayer = <<>>
    /\ Once(sockEvents, "sender") /\ Once(toPlayer, "sender")

IInv == FlagsOK /\ QueuesOK /\ Order /\ Single

(* It holds when the player spawns the connection.                         *)
LEMMA InvInit == Init => IInv
<1> SUFFICES ASSUME Init PROVE IInv
  OBVIOUS
<1>1. FlagsOK
  BY DEF Init, FlagsOK
<1>2. QueuesOK
  BY EmptyFacts DEF Init, QueuesOK
<1>3. Order
  BY EmptyFacts DEF Init, Order
<1>4. Single
  BY EmptyFacts DEF Init, Single
<1> QED BY <1>1, <1>2, <1>3, <1>4 DEF IInv

-----------------------------------------------------------------------------
(* Every action keeps it: a lemma for each, by the cases of what it does.  *)

(* The facts about every queue that a step may need.                       *)
LEMMA QueueFacts ==
  ASSUME QueuesOK, NEW e
  PROVE  /\ \A x \in GatewayEvents :
               /\ Append(gwEvents, x) \in Seq(GatewayEvents)
               /\ Len(Append(gwEvents, x)) = Len(gwEvents) + 1
               /\ Has(Append(gwEvents, x), e) <=> (Has(gwEvents, e) \/ x = e)
         /\ \A x \in SocketEvents :
               /\ Append(sockEvents, x) \in Seq(SocketEvents)
               /\ Len(Append(sockEvents, x)) = Len(sockEvents) + 1
               /\ Has(Append(sockEvents, x), e) <=> (Has(sockEvents, e) \/ x = e)
               /\ (Once(sockEvents, e) /\ (x # e \/ ~Has(sockEvents, e)))
                     => Once(Append(sockEvents, x), e)
         /\ \A x \in PlayerEvents :
               /\ Append(toPlayer, x) \in Seq(PlayerEvents)
               /\ Len(Append(toPlayer, x)) = Len(toPlayer) + 1
               /\ Has(Append(toPlayer, x), e) <=> (Has(toPlayer, e) \/ x = e)
               /\ (Once(toPlayer, e) /\ (x # e \/ ~Has(toPlayer, e)))
                     => Once(Append(toPlayer, x), e)
         /\ Len(gwEvents) \in Nat /\ Len(sockEvents) \in Nat
         /\ Len(toPlayer) \in Nat /\ Len(commands) \in Nat
<1> USE DEF QueuesOK
<1>1. \A x \in GatewayEvents :
               /\ Append(gwEvents, x) \in Seq(GatewayEvents)
               /\ Len(Append(gwEvents, x)) = Len(gwEvents) + 1
               /\ Has(Append(gwEvents, x), e) <=> (Has(gwEvents, e) \/ x = e)
  BY AppendFacts
<1>2. \A x \in SocketEvents :
               /\ Append(sockEvents, x) \in Seq(SocketEvents)
               /\ Len(Append(sockEvents, x)) = Len(sockEvents) + 1
               /\ Has(Append(sockEvents, x), e) <=> (Has(sockEvents, e) \/ x = e)
               /\ (Once(sockEvents, e) /\ (x # e \/ ~Has(sockEvents, e)))
                     => Once(Append(sockEvents, x), e)
  BY AppendFacts
<1>3. \A x \in PlayerEvents :
               /\ Append(toPlayer, x) \in Seq(PlayerEvents)
               /\ Len(Append(toPlayer, x)) = Len(toPlayer) + 1
               /\ Has(Append(toPlayer, x), e) <=> (Has(toPlayer, e) \/ x = e)
               /\ (Once(toPlayer, e) /\ (x # e \/ ~Has(toPlayer, e)))
                     => Once(Append(toPlayer, x), e)
  BY AppendFacts
<1>4. /\ Len(gwEvents) \in Nat /\ Len(sockEvents) \in Nat
      /\ Len(toPlayer) \in Nat /\ Len(commands) \in Nat
  OBVIOUS
<1> QED BY <1>1, <1>2, <1>3, <1>4

LEMMA HandshakeDoneKeeps == ASSUME IInv, HandshakeDone PROVE IInv'
<1> USE DEF IInv
<1>3. FlagsOK'
  BY DEF HandshakeDone, FlagsOK, gatewayVars, socketVars, playerVars
<1>4. QueuesOK'
  BY EmptyFacts, QueueFacts DEF HandshakeDone, QueuesOK, GatewayEvents, SocketEvents, GatewayCommands,
     PlayerEvents, gatewayVars, socketVars, playerVars, Order, Single, FlagsOK
<1>5. Order'
  BY EmptyFacts, QueueFacts DEF HandshakeDone, Order, Single, FlagsOK, GatewayEvents, SocketEvents,
     PlayerEvents, gatewayVars, socketVars, playerVars
<1>6. Single'
  BY EmptyFacts, QueueFacts DEF HandshakeDone, Order, Single, FlagsOK, GatewayEvents, SocketEvents,
     PlayerEvents, gatewayVars, socketVars, playerVars
<1> QED BY <1>3, <1>4, <1>5, <1>6

LEMMA HandshakeFailsKeeps == ASSUME IInv, HandshakeFails PROVE IInv'
<1> USE DEF IInv
<1>1. IInv'
  <2>1. /\ reader' = "done"
        /\ writer' = "done"
        /\ link' = FALSE
        /\ UNCHANGED <<state, addr, keySend, commands, selected, gwEvents, socket, key, sockEvents, toPlayer, listening, sender>>
        /\ reader = "handshake"
    BY  DEF HandshakeFails, gatewayVars, socketVars, playerVars
  <2>2. link' \in BOOLEAN
    BY <2>1 DEF FlagsOK
  <2>3. FlagsOK'
    BY <2>1, <2>2 DEF FlagsOK
  <2>4. QueuesOK'
    BY <2>1 DEF QueuesOK
  <2>5. Order'
    BY <2>1 DEF Order, Single
  <2>6. Single'
    BY <2>1 DEF Order, Single
  <2> QED BY <2>3, <2>4, <2>5, <2>6
<1> QED BY <1>1

LEMMA ReadDescriptionKeeps == ASSUME IInv, ReadDescription PROVE IInv'
<1> USE DEF IInv
<1>0. PICK e \in {"description", "mismatch"} : selected /\ Forward(e)
  BY DEF ReadDescription
<1>1. CASE state = "Ended"
  <2>1. /\ reader' = "done"
        /\ UNCHANGED <<state, addr, keySend, writer, link, commands, selected, gwEvents, socket, key, sockEvents, toPlayer, listening, sender>>
    BY <1>1, <1>0 DEF Forward, HasRoom, gatewayVars, socketVars, playerVars
  <2>2. FlagsOK'
    BY <2>1 DEF FlagsOK
  <2>3. QueuesOK'
    BY <2>1 DEF QueuesOK
  <2>4. Order'
    BY <1>1, <1>0, <2>1 DEF Order, Single
  <2>5. Single'
    BY <1>1, <1>0, <2>1 DEF Order, Single
  <2> QED BY <2>2, <2>3, <2>4, <2>5
<1>2. CASE state # "Ended"
  <2>1. /\ gwEvents' = Append(gwEvents, e)
        /\ UNCHANGED <<state, addr, keySend, reader, writer, link, commands, selected, socket, key, sockEvents, toPlayer, listening, sender>>
        /\ selected
        /\ reader = "running"
        /\ e # "other"
        /\ Len(gwEvents) < EventCap
    BY <1>2, <1>0 DEF Forward, HasRoom, gatewayVars, socketVars, playerVars
  <2>2. /\ Append(gwEvents, e) \in Seq(GatewayEvents) /\ Len(Append(gwEvents, e)) = Len(gwEvents) + 1 /\ Len(gwEvents) \in Nat
        /\ Has(Append(gwEvents, e), "description") <=> (Has(gwEvents, "description") \/ e = "description")
        /\ (Once(gwEvents, "description") /\ (e # "description" \/ ~Has(gwEvents, "description"))) => Once(Append(gwEvents, e), "description")
    <3>1. e \in GatewayEvents /\ gwEvents \in Seq(GatewayEvents)
      BY DEF QueuesOK, GatewayEvents
    <3>2. Len(gwEvents) \in Nat
      BY <3>1
    <3> QED BY <3>1, <3>2, AppendFacts
  <2>3. FlagsOK'
    BY <2>1 DEF FlagsOK
  <2>4. QueuesOK'
    BY <2>1, <2>2 DEF QueuesOK
  <2>5. Order'
    BY <1>2, <1>0, <2>1, <2>2 DEF Order, Single
  <2>6. Single'
    BY <1>2, <1>0, <2>1, <2>2 DEF Order, Single
  <2> QED BY <2>3, <2>4, <2>5, <2>6
<1> QED BY <1>1, <1>2

LEMMA ReadOtherKeeps == ASSUME IInv, ReadOther PROVE IInv'
<1> USE DEF IInv
<1>1. CASE state = "Ended"
  <2>1. /\ reader' = "done"
        /\ UNCHANGED <<state, addr, keySend, writer, link, commands, selected, gwEvents, socket, key, sockEvents, toPlayer, listening, sender>>
    BY <1>1 DEF ReadOther, Forward, HasRoom, gatewayVars, socketVars, playerVars
  <2>2. FlagsOK'
    BY <2>1 DEF FlagsOK
  <2>3. QueuesOK'
    BY <2>1 DEF QueuesOK
  <2>4. Order'
    BY <1>1, <2>1 DEF Order, Single
  <2>5. Single'
    BY <1>1, <2>1 DEF Order, Single
  <2> QED BY <2>2, <2>3, <2>4, <2>5
<1>2. CASE state # "Ended"
  <2>1. /\ gwEvents' = Append(gwEvents, "other")
        /\ UNCHANGED <<state, addr, keySend, reader, writer, link, commands, selected, socket, key, sockEvents, toPlayer, listening, sender>>
        /\ reader = "running"
        /\ Len(gwEvents) < EventCap
    BY <1>2 DEF ReadOther, Forward, HasRoom, gatewayVars, socketVars, playerVars
  <2>2. /\ Append(gwEvents, "other") \in Seq(GatewayEvents) /\ Len(Append(gwEvents, "other")) = Len(gwEvents) + 1 /\ Len(gwEvents) \in Nat
        /\ Has(Append(gwEvents, "other"), "description") <=> (Has(gwEvents, "description") \/ "other" = "description")
        /\ (Once(gwEvents, "description") /\ ("other" # "description" \/ ~Has(gwEvents, "description"))) => Once(Append(gwEvents, "other"), "description")
    <3>1. "other" \in GatewayEvents /\ gwEvents \in Seq(GatewayEvents)
      BY DEF QueuesOK, GatewayEvents
    <3>2. Len(gwEvents) \in Nat
      BY <3>1
    <3> QED BY <3>1, <3>2, AppendFacts
  <2>3. FlagsOK'
    BY <2>1 DEF FlagsOK
  <2>4. QueuesOK'
    BY <2>1, <2>2 DEF QueuesOK
  <2>5. Order'
    BY <1>2, <2>1, <2>2 DEF Order, Single
  <2>6. Single'
    BY <1>2, <2>1, <2>2 DEF Order, Single
  <2> QED BY <2>3, <2>4, <2>5, <2>6
<1> QED BY <1>1, <1>2

LEMMA ReadEndKeeps == ASSUME IInv, ReadEnd PROVE IInv'
<1> USE DEF IInv
<1>3. FlagsOK'
  BY DEF ReadEnd, FlagsOK, gatewayVars, socketVars, playerVars
<1>4. QueuesOK'
  BY EmptyFacts, QueueFacts DEF ReadEnd, QueuesOK, GatewayEvents, SocketEvents, GatewayCommands,
     PlayerEvents, gatewayVars, socketVars, playerVars, Order, Single, FlagsOK
<1>5. Order'
  BY EmptyFacts, QueueFacts DEF ReadEnd, Order, Single, FlagsOK, GatewayEvents, SocketEvents,
     PlayerEvents, gatewayVars, socketVars, playerVars
<1>6. Single'
  BY EmptyFacts, QueueFacts DEF ReadEnd, Order, Single, FlagsOK, GatewayEvents, SocketEvents,
     PlayerEvents, gatewayVars, socketVars, playerVars
<1> QED BY <1>3, <1>4, <1>5, <1>6

LEMMA WriteCommandKeeps == ASSUME IInv, WriteCommand PROVE IInv'
<1> USE DEF IInv
<1>1. commands # <<>> /\ commands \in Seq(GatewayCommands)
  BY DEF WriteCommand, QueuesOK
<1>2. /\ Tail(commands) \in Seq(GatewayCommands) /\ Len(Tail(commands)) = Len(commands) - 1
      /\ Len(commands) \in Nat \ {0} /\ Has(commands, commands[1])
      /\ Has(Tail(commands), "select") => Has(commands, "select")
      /\ commands[1] # "select" => (Has(Tail(commands), "select") <=> Has(commands, "select"))
      /\ Once(commands, "select") => Once(Tail(commands), "select")
      /\ (Once(commands, "select") /\ commands[1] = "select") => ~Has(Tail(commands), "select")
  BY <1>1, TailFacts
<1>3. FlagsOK'
  BY DEF WriteCommand, FlagsOK, gatewayVars, socketVars, playerVars
<1>4. QueuesOK'
  BY EmptyFacts, QueueFacts, <1>1, <1>2 DEF WriteCommand, QueuesOK, GatewayEvents, SocketEvents, GatewayCommands,
     PlayerEvents, gatewayVars, socketVars, playerVars, Order, Single, FlagsOK
<1>5. Order'
  BY EmptyFacts, QueueFacts, <1>1, <1>2 DEF WriteCommand, Order, Single, FlagsOK, GatewayEvents, SocketEvents,
     PlayerEvents, gatewayVars, socketVars, playerVars
<1>6. Single'
  BY EmptyFacts, QueueFacts, <1>1, <1>2 DEF WriteCommand, Order, Single, FlagsOK, GatewayEvents, SocketEvents,
     PlayerEvents, gatewayVars, socketVars, playerVars
<1> QED BY <1>3, <1>4, <1>5, <1>6

LEMMA WriteFailsKeeps == ASSUME IInv, WriteFails PROVE IInv'
<1> USE DEF IInv
<1>1. IInv'
  <2>1. /\ writer' = "done"
        /\ commands' = <<>>
        /\ UNCHANGED <<state, addr, keySend, reader, link, selected, gwEvents, socket, key, sockEvents, toPlayer, listening, sender>>
    BY  DEF WriteFails, gatewayVars, socketVars, playerVars
  <2>2. <<>> \in Seq(GatewayCommands) /\ Len(<<>>) = 0 /\ ~Has(<<>>, "select") /\ Once(<<>>, "select")
    BY EmptyFacts
  <2>3. FlagsOK'
    BY <2>1 DEF FlagsOK
  <2>4. QueuesOK'
    BY <2>1, <2>2 DEF QueuesOK
  <2>5. Order'
    BY <2>1, <2>2 DEF Order, Single
  <2>6. Single'
    BY <2>1, <2>2 DEF Order, Single
  <2> QED BY <2>3, <2>4, <2>5, <2>6
<1> QED BY <1>1

LEMMA CommandsClosedKeeps == ASSUME IInv, CommandsClosed PROVE IInv'
<1> USE DEF IInv
<1>1. IInv'
  <2>1. /\ writer' = "done"
        /\ link' = FALSE
        /\ UNCHANGED <<state, addr, keySend, reader, commands, selected, gwEvents, socket, key, sockEvents, toPlayer, listening, sender>>
    BY  DEF CommandsClosed, ClosedLink, gatewayVars, socketVars, playerVars
  <2>2. link' \in BOOLEAN
    BY <2>1 DEF FlagsOK
  <2>3. FlagsOK'
    BY <2>1, <2>2 DEF FlagsOK
  <2>4. QueuesOK'
    BY <2>1 DEF QueuesOK
  <2>5. Order'
    BY <2>1 DEF Order, Single
  <2>6. Single'
    BY <2>1 DEF Order, Single
  <2> QED BY <2>3, <2>4, <2>5, <2>6
<1> QED BY <1>1

LEMMA LinkBreaksKeeps == ASSUME IInv, LinkBreaks PROVE IInv'
<1> USE DEF IInv
<1>1. IInv'
  <2>1. /\ link' = FALSE
        /\ UNCHANGED <<state, addr, keySend, reader, writer, commands, selected, gwEvents, socket, key, sockEvents, toPlayer, listening, sender>>
    BY  DEF LinkBreaks, gatewayVars, socketVars, playerVars
  <2>2. link' \in BOOLEAN
    BY <2>1 DEF FlagsOK
  <2>3. FlagsOK'
    BY <2>1, <2>2 DEF FlagsOK
  <2>4. QueuesOK'
    BY <2>1 DEF QueuesOK
  <2>5. Order'
    BY <2>1 DEF Order, Single
  <2>6. Single'
    BY <2>1 DEF Order, Single
  <2> QED BY <2>3, <2>4, <2>5, <2>6
<1> QED BY <1>1

LEMMA OnReadyKeeps == ASSUME IInv, OnReady PROVE IInv'
<1> USE DEF IInv
<1>1. CASE listening
  <2>1. /\ state' = "Connected"
        /\ toPlayer' = Append(toPlayer, "connected")
        /\ gwEvents' = Tail(gwEvents)
        /\ socket' = "discovering"
        /\ keySend' = TRUE
        /\ UNCHANGED <<addr, reader, writer, link, commands, selected, key, sockEvents, listening, sender>>
        /\ gwEvents # <<>>
        /\ gwEvents[1] = "ready"
        /\ toPlayer = <<>>
        /\ socket = "none"
        /\ sender = "none"
        /\ sockEvents = <<>>
    BY <1>1 DEF OnReady, NextEvent, OpenSocket, Opens, Told, Order, Single, FlagsOK, gatewayVars, socketVars, playerVars
  <2>2. /\ Append(toPlayer, "connected") \in Seq(PlayerEvents) /\ Len(Append(toPlayer, "connected")) = Len(toPlayer) + 1 /\ Len(toPlayer) \in Nat
        /\ Has(Append(toPlayer, "connected"), "sender") <=> (Has(toPlayer, "sender") \/ "connected" = "sender")
        /\ (Once(toPlayer, "sender") /\ ("connected" # "sender" \/ ~Has(toPlayer, "sender"))) => Once(Append(toPlayer, "connected"), "sender")
    <3>1. "connected" \in PlayerEvents /\ toPlayer \in Seq(PlayerEvents)
      BY DEF QueuesOK, PlayerEvents
    <3>2. Len(toPlayer) \in Nat
      BY <3>1
    <3> QED BY <3>1, <3>2, AppendFacts
  <2>3. /\ Tail(gwEvents) \in Seq(GatewayEvents) /\ Len(Tail(gwEvents)) = Len(gwEvents) - 1
        /\ Len(gwEvents) \in Nat \ {0} /\ Has(gwEvents, gwEvents[1])
        /\ Has(Tail(gwEvents), "description") => Has(gwEvents, "description")
        /\ gwEvents[1] # "description" => (Has(Tail(gwEvents), "description") <=> Has(gwEvents, "description"))
        /\ Once(gwEvents, "description") => Once(Tail(gwEvents), "description")
        /\ (Once(gwEvents, "description") /\ gwEvents[1] = "description") => ~Has(Tail(gwEvents), "description")
    BY <2>1, TailFacts DEF QueuesOK
  <2>4. \A e : ~Has(<<>>, e) /\ Once(<<>>, e) /\ Len(<<>>) = 0
    BY EmptyFacts
  <2>5. keySend' \in BOOLEAN
    BY <2>1 DEF FlagsOK
  <2>6. FlagsOK'
    BY <2>1, <2>5 DEF FlagsOK
  <2>7. QueuesOK'
    BY <2>1, <2>2, <2>3, <2>4 DEF QueuesOK
  <2>8. Order'
    BY <1>1, <2>1, <2>2, <2>3, <2>4 DEF Order, Single
  <2>9. Single'
    BY <1>1, <2>1, <2>2, <2>3, <2>4 DEF Order, Single
  <2> QED BY <2>6, <2>7, <2>8, <2>9
<1>2. CASE ~listening
  <2>1. /\ state' = "Connected"
        /\ gwEvents' = Tail(gwEvents)
        /\ socket' = "discovering"
        /\ keySend' = TRUE
        /\ UNCHANGED <<addr, reader, writer, link, commands, selected, key, sockEvents, toPlayer, listening, sender>>
        /\ gwEvents # <<>>
        /\ gwEvents[1] = "ready"
        /\ toPlayer = <<>>
        /\ socket = "none"
        /\ sender = "none"
        /\ sockEvents = <<>>
    BY <1>2 DEF OnReady, NextEvent, OpenSocket, Opens, Told, Order, Single, FlagsOK, gatewayVars, socketVars, playerVars
  <2>2. /\ Tail(gwEvents) \in Seq(GatewayEvents) /\ Len(Tail(gwEvents)) = Len(gwEvents) - 1
        /\ Len(gwEvents) \in Nat \ {0} /\ Has(gwEvents, gwEvents[1])
        /\ Has(Tail(gwEvents), "description") => Has(gwEvents, "description")
        /\ gwEvents[1] # "description" => (Has(Tail(gwEvents), "description") <=> Has(gwEvents, "description"))
        /\ Once(gwEvents, "description") => Once(Tail(gwEvents), "description")
        /\ (Once(gwEvents, "description") /\ gwEvents[1] = "description") => ~Has(Tail(gwEvents), "description")
    BY <2>1, TailFacts DEF QueuesOK
  <2>3. \A e : ~Has(<<>>, e) /\ Once(<<>>, e) /\ Len(<<>>) = 0
    BY EmptyFacts
  <2>4. keySend' \in BOOLEAN
    BY <2>1 DEF FlagsOK
  <2>5. FlagsOK'
    BY <2>1, <2>4 DEF FlagsOK
  <2>6. QueuesOK'
    BY <2>1, <2>2, <2>3 DEF QueuesOK
  <2>7. Order'
    BY <1>2, <2>1, <2>2, <2>3 DEF Order, Single
  <2>8. Single'
    BY <1>2, <2>1, <2>2, <2>3 DEF Order, Single
  <2> QED BY <2>5, <2>6, <2>7, <2>8
<1> QED BY <1>1, <1>2

LEMMA OnReadyNoSocketKeeps == ASSUME IInv, OnReadyNoSocket PROVE IInv'
<1> USE DEF IInv
<1>1. CASE listening
  <2>1. /\ state' = "Ended"
        /\ keySend' = FALSE
        /\ gwEvents' = <<>>
        /\ sockEvents' = <<>>
        /\ sender' = IF sender = "queued" THEN "dropped" ELSE sender
        /\ toPlayer' = Append(toPlayer, "connected")
        /\ UNCHANGED <<addr, reader, writer, link, commands, selected, socket, key, listening>>
        /\ toPlayer = <<>>
        /\ socket = "none"
        /\ sender = "none"
    BY <1>1 DEF OnReadyNoSocket, NextEvent, Break, Told, Order, Single, FlagsOK, gatewayVars, socketVars, playerVars
  <2>2. <<>> \in Seq(GatewayEvents) /\ Len(<<>>) = 0 /\ ~Has(<<>>, "description") /\ Once(<<>>, "description")
    BY EmptyFacts
  <2>3. <<>> \in Seq(SocketEvents) /\ Len(<<>>) = 0 /\ ~Has(<<>>, "sender") /\ Once(<<>>, "sender")
    BY EmptyFacts
  <2>4. /\ Append(toPlayer, "connected") \in Seq(PlayerEvents) /\ Len(Append(toPlayer, "connected")) = Len(toPlayer) + 1 /\ Len(toPlayer) \in Nat
        /\ Has(Append(toPlayer, "connected"), "sender") <=> (Has(toPlayer, "sender") \/ "connected" = "sender")
        /\ (Once(toPlayer, "sender") /\ ("connected" # "sender" \/ ~Has(toPlayer, "sender"))) => Once(Append(toPlayer, "connected"), "sender")
    <3>1. "connected" \in PlayerEvents /\ toPlayer \in Seq(PlayerEvents)
      BY DEF QueuesOK, PlayerEvents
    <3>2. Len(toPlayer) \in Nat
      BY <3>1
    <3> QED BY <3>1, <3>2, AppendFacts
  <2>5. \A e : ~Has(<<>>, e) /\ Once(<<>>, e) /\ Len(<<>>) = 0
    BY EmptyFacts
  <2>6. keySend' \in BOOLEAN
    BY <2>1 DEF FlagsOK
  <2>7. FlagsOK'
    BY <2>1, <2>6 DEF FlagsOK
  <2>8. QueuesOK'
    BY <2>1, <2>2, <2>3, <2>4, <2>5 DEF QueuesOK
  <2>9. Order'
    BY <1>1, <2>1, <2>2, <2>3, <2>4, <2>5 DEF Order, Single
  <2>10. Single'
    BY <1>1, <2>1, <2>2, <2>3, <2>4, <2>5 DEF Order, Single
  <2> QED BY <2>7, <2>8, <2>9, <2>10
<1>2. CASE ~listening
  <2>1. /\ state' = "Ended"
        /\ keySend' = FALSE
        /\ gwEvents' = <<>>
        /\ sockEvents' = <<>>
        /\ sender' = IF sender = "queued" THEN "dropped" ELSE sender
        /\ UNCHANGED <<addr, reader, writer, link, commands, selected, socket, key, toPlayer, listening>>
        /\ toPlayer = <<>>
        /\ socket = "none"
        /\ sender = "none"
    BY <1>2 DEF OnReadyNoSocket, NextEvent, Break, Told, Order, Single, FlagsOK, gatewayVars, socketVars, playerVars
  <2>2. <<>> \in Seq(GatewayEvents) /\ Len(<<>>) = 0 /\ ~Has(<<>>, "description") /\ Once(<<>>, "description")
    BY EmptyFacts
  <2>3. <<>> \in Seq(SocketEvents) /\ Len(<<>>) = 0 /\ ~Has(<<>>, "sender") /\ Once(<<>>, "sender")
    BY EmptyFacts
  <2>4. \A e : ~Has(<<>>, e) /\ Once(<<>>, e) /\ Len(<<>>) = 0
    BY EmptyFacts
  <2>5. keySend' \in BOOLEAN
    BY <2>1 DEF FlagsOK
  <2>6. FlagsOK'
    BY <2>1, <2>5 DEF FlagsOK
  <2>7. QueuesOK'
    BY <2>1, <2>2, <2>3, <2>4 DEF QueuesOK
  <2>8. Order'
    BY <1>2, <2>1, <2>2, <2>3, <2>4 DEF Order, Single
  <2>9. Single'
    BY <1>2, <2>1, <2>2, <2>3, <2>4 DEF Order, Single
  <2> QED BY <2>6, <2>7, <2>8, <2>9
<1> QED BY <1>1, <1>2

LEMMA OnUnsupportedKeeps == ASSUME IInv, OnUnsupported PROVE IInv'
<1> USE DEF IInv
<1>1. IInv'
  <2>1. /\ state' = "Ended"
        /\ keySend' = FALSE
        /\ gwEvents' = <<>>
        /\ sockEvents' = <<>>
        /\ sender' = IF sender = "queued" THEN "dropped" ELSE sender
        /\ UNCHANGED <<addr, reader, writer, link, commands, selected, socket, key, toPlayer, listening>>
    BY  DEF OnUnsupported, NextEvent, Break, gatewayVars, socketVars, playerVars
  <2>2. <<>> \in Seq(GatewayEvents) /\ Len(<<>>) = 0 /\ ~Has(<<>>, "description") /\ Once(<<>>, "description")
    BY EmptyFacts
  <2>3. <<>> \in Seq(SocketEvents) /\ Len(<<>>) = 0 /\ ~Has(<<>>, "sender") /\ Once(<<>>, "sender")
    BY EmptyFacts
  <2>4. keySend' \in BOOLEAN
    BY <2>1 DEF FlagsOK
  <2>5. FlagsOK'
    BY <2>1, <2>4 DEF FlagsOK
  <2>6. QueuesOK'
    BY <2>1, <2>2, <2>3 DEF QueuesOK
  <2>7. Order'
    BY <2>1, <2>2, <2>3 DEF Order, Single
  <2>8. Single'
    BY <2>1, <2>2, <2>3 DEF Order, Single
  <2> QED BY <2>5, <2>6, <2>7, <2>8
<1> QED BY <1>1

LEMMA OnDescriptionKeeps == ASSUME IInv, OnDescription PROVE IInv'
<1> USE DEF IInv
<1>1. CASE keySend /\ socket = "ended"
  <2>1. /\ state' = "Ended"
        /\ keySend' = FALSE
        /\ gwEvents' = <<>>
        /\ sockEvents' = <<>>
        /\ sender' = IF sender = "queued" THEN "dropped" ELSE sender
        /\ UNCHANGED <<addr, reader, writer, link, commands, selected, socket, key, toPlayer, listening>>
    BY <1>1 DEF OnDescription, Break, gatewayVars, socketVars, playerVars
  <2>2. <<>> \in Seq(GatewayEvents) /\ Len(<<>>) = 0 /\ ~Has(<<>>, "description") /\ Once(<<>>, "description")
    BY EmptyFacts
  <2>3. <<>> \in Seq(SocketEvents) /\ Len(<<>>) = 0 /\ ~Has(<<>>, "sender") /\ Once(<<>>, "sender")
    BY EmptyFacts
  <2>4. keySend' \in BOOLEAN
    BY <2>1 DEF FlagsOK
  <2>5. FlagsOK'
    BY <2>1, <2>4 DEF FlagsOK
  <2>6. QueuesOK'
    BY <2>1, <2>2, <2>3 DEF QueuesOK
  <2>7. Order'
    BY <1>1, <2>1, <2>2, <2>3 DEF Order, Single
  <2>8. Single'
    BY <1>1, <2>1, <2>2, <2>3 DEF Order, Single
  <2> QED BY <2>5, <2>6, <2>7, <2>8
<1>2. CASE ~(keySend /\ socket = "ended")
  <2>1. /\ key' = (key \/ keySend)
        /\ keySend' = FALSE
        /\ gwEvents' = Tail(gwEvents)
        /\ UNCHANGED <<state, addr, reader, writer, link, commands, selected, socket, sockEvents, toPlayer, listening, sender>>
        /\ gwEvents # <<>>
        /\ gwEvents[1] = "description"
    BY <1>2 DEF OnDescription, Break, gatewayVars, socketVars, playerVars
  <2>2. /\ Tail(gwEvents) \in Seq(GatewayEvents) /\ Len(Tail(gwEvents)) = Len(gwEvents) - 1
        /\ Len(gwEvents) \in Nat \ {0} /\ Has(gwEvents, gwEvents[1])
        /\ Has(Tail(gwEvents), "description") => Has(gwEvents, "description")
        /\ gwEvents[1] # "description" => (Has(Tail(gwEvents), "description") <=> Has(gwEvents, "description"))
        /\ Once(gwEvents, "description") => Once(Tail(gwEvents), "description")
        /\ (Once(gwEvents, "description") /\ gwEvents[1] = "description") => ~Has(Tail(gwEvents), "description")
    BY <2>1, TailFacts DEF QueuesOK
  <2>3. keySend' \in BOOLEAN /\ key' \in BOOLEAN
    BY <2>1 DEF FlagsOK
  <2>4. FlagsOK'
    BY <2>1, <2>3 DEF FlagsOK
  <2>5. QueuesOK'
    BY <2>1, <2>2 DEF QueuesOK
  <2>6. Order'
    BY <1>2, <2>1, <2>2 DEF Order, Single
  <2>7. Single'
    BY <1>2, <2>1, <2>2 DEF Order, Single
  <2> QED BY <2>4, <2>5, <2>6, <2>7
<1> QED BY <1>1, <1>2

LEMMA OnMismatchKeeps == ASSUME IInv, OnMismatch PROVE IInv'
<1> USE DEF IInv
<1>1. CASE keySend
  <2>1. /\ state' = "Ended"
        /\ keySend' = FALSE
        /\ gwEvents' = <<>>
        /\ sockEvents' = <<>>
        /\ sender' = IF sender = "queued" THEN "dropped" ELSE sender
        /\ UNCHANGED <<addr, reader, writer, link, commands, selected, socket, key, toPlayer, listening>>
    BY <1>1 DEF OnMismatch, NextEvent, Break, gatewayVars, socketVars, playerVars
  <2>2. <<>> \in Seq(GatewayEvents) /\ Len(<<>>) = 0 /\ ~Has(<<>>, "description") /\ Once(<<>>, "description")
    BY EmptyFacts
  <2>3. <<>> \in Seq(SocketEvents) /\ Len(<<>>) = 0 /\ ~Has(<<>>, "sender") /\ Once(<<>>, "sender")
    BY EmptyFacts
  <2>4. keySend' \in BOOLEAN
    BY <2>1 DEF FlagsOK
  <2>5. FlagsOK'
    BY <2>1, <2>4 DEF FlagsOK
  <2>6. QueuesOK'
    BY <2>1, <2>2, <2>3 DEF QueuesOK
  <2>7. Order'
    BY <1>1, <2>1, <2>2, <2>3 DEF Order, Single
  <2>8. Single'
    BY <1>1, <2>1, <2>2, <2>3 DEF Order, Single
  <2> QED BY <2>5, <2>6, <2>7, <2>8
<1>2. CASE ~keySend
  <2>1. /\ gwEvents' = Tail(gwEvents)
        /\ UNCHANGED <<state, addr, keySend, reader, writer, link, commands, selected, socket, key, sockEvents, toPlayer, listening, sender>>
        /\ gwEvents # <<>>
        /\ gwEvents[1] = "mismatch"
    BY <1>2 DEF OnMismatch, NextEvent, Break, gatewayVars, socketVars, playerVars
  <2>2. /\ Tail(gwEvents) \in Seq(GatewayEvents) /\ Len(Tail(gwEvents)) = Len(gwEvents) - 1
        /\ Len(gwEvents) \in Nat \ {0} /\ Has(gwEvents, gwEvents[1])
        /\ Has(Tail(gwEvents), "description") => Has(gwEvents, "description")
        /\ gwEvents[1] # "description" => (Has(Tail(gwEvents), "description") <=> Has(gwEvents, "description"))
        /\ Once(gwEvents, "description") => Once(Tail(gwEvents), "description")
        /\ (Once(gwEvents, "description") /\ gwEvents[1] = "description") => ~Has(Tail(gwEvents), "description")
    BY <2>1, TailFacts DEF QueuesOK
  <2>3. FlagsOK'
    BY <2>1 DEF FlagsOK
  <2>4. QueuesOK'
    BY <2>1, <2>2 DEF QueuesOK
  <2>5. Order'
    BY <1>2, <2>1, <2>2 DEF Order, Single
  <2>6. Single'
    BY <1>2, <2>1, <2>2 DEF Order, Single
  <2> QED BY <2>3, <2>4, <2>5, <2>6
<1> QED BY <1>1, <1>2

LEMMA OnOtherKeeps == ASSUME IInv, OnOther PROVE IInv'
<1> USE DEF IInv
<1>1. IInv'
  <2>1. /\ gwEvents' = Tail(gwEvents)
        /\ UNCHANGED <<state, addr, keySend, reader, writer, link, commands, selected, socket, key, sockEvents, toPlayer, listening, sender>>
        /\ gwEvents # <<>>
        /\ gwEvents[1] = "other"
    BY  DEF OnOther, NextEvent, OpenSocket, Opens, Order, gatewayVars, socketVars, playerVars
  <2>2. /\ Tail(gwEvents) \in Seq(GatewayEvents) /\ Len(Tail(gwEvents)) = Len(gwEvents) - 1
        /\ Len(gwEvents) \in Nat \ {0} /\ Has(gwEvents, gwEvents[1])
        /\ Has(Tail(gwEvents), "description") => Has(gwEvents, "description")
        /\ gwEvents[1] # "description" => (Has(Tail(gwEvents), "description") <=> Has(gwEvents, "description"))
        /\ Once(gwEvents, "description") => Once(Tail(gwEvents), "description")
        /\ (Once(gwEvents, "description") /\ gwEvents[1] = "description") => ~Has(Tail(gwEvents), "description")
    BY <2>1, TailFacts DEF QueuesOK
  <2>3. FlagsOK'
    BY <2>1 DEF FlagsOK
  <2>4. QueuesOK'
    BY <2>1, <2>2 DEF QueuesOK
  <2>5. Order'
    BY <2>1, <2>2 DEF Order, Single
  <2>6. Single'
    BY <2>1, <2>2 DEF Order, Single
  <2> QED BY <2>3, <2>4, <2>5, <2>6
<1> QED BY <1>1

LEMMA GatewayGoneKeeps == ASSUME IInv, GatewayGone PROVE IInv'
<1> USE DEF IInv
<1>1. IInv'
  <2>1. /\ state' = "Ended"
        /\ keySend' = FALSE
        /\ gwEvents' = <<>>
        /\ sockEvents' = <<>>
        /\ sender' = IF sender = "queued" THEN "dropped" ELSE sender
        /\ UNCHANGED <<addr, reader, writer, link, commands, selected, socket, key, toPlayer, listening>>
    BY  DEF GatewayGone, Break, gatewayVars, socketVars, playerVars
  <2>2. <<>> \in Seq(GatewayEvents) /\ Len(<<>>) = 0 /\ ~Has(<<>>, "description") /\ Once(<<>>, "description")
    BY EmptyFacts
  <2>3. <<>> \in Seq(SocketEvents) /\ Len(<<>>) = 0 /\ ~Has(<<>>, "sender") /\ Once(<<>>, "sender")
    BY EmptyFacts
  <2>4. keySend' \in BOOLEAN
    BY <2>1 DEF FlagsOK
  <2>5. FlagsOK'
    BY <2>1, <2>4 DEF FlagsOK
  <2>6. QueuesOK'
    BY <2>1, <2>2, <2>3 DEF QueuesOK
  <2>7. Order'
    BY <2>1, <2>2, <2>3 DEF Order, Single
  <2>8. Single'
    BY <2>1, <2>2, <2>3 DEF Order, Single
  <2> QED BY <2>5, <2>6, <2>7, <2>8
<1> QED BY <1>1

LEMMA OnAddrKeeps == ASSUME IInv, OnAddr PROVE IInv'
<1> USE DEF IInv
<1>1. CASE addr \/ writer = "done"
  <2>1. /\ addr' = TRUE
        /\ sockEvents' = Tail(sockEvents)
        /\ UNCHANGED <<state, keySend, reader, writer, link, commands, selected, gwEvents, socket, key, toPlayer, listening, sender>>
        /\ sockEvents # <<>>
        /\ sockEvents[1] = "addr"
        /\ socket \notin {"none", "discovering"}
    BY <1>1 DEF OnAddr, NextSocketEvent, Order, gatewayVars, socketVars, playerVars
  <2>2. /\ Tail(sockEvents) \in Seq(SocketEvents) /\ Len(Tail(sockEvents)) = Len(sockEvents) - 1
        /\ Len(sockEvents) \in Nat \ {0} /\ Has(sockEvents, sockEvents[1])
        /\ Has(Tail(sockEvents), "sender") => Has(sockEvents, "sender")
        /\ sockEvents[1] # "sender" => (Has(Tail(sockEvents), "sender") <=> Has(sockEvents, "sender"))
        /\ Once(sockEvents, "sender") => Once(Tail(sockEvents), "sender")
        /\ (Once(sockEvents, "sender") /\ sockEvents[1] = "sender") => ~Has(Tail(sockEvents), "sender")
    BY <2>1, TailFacts DEF QueuesOK
  <2>3. addr' \in BOOLEAN
    BY <2>1 DEF FlagsOK
  <2>4. FlagsOK'
    BY <2>1, <2>3 DEF FlagsOK
  <2>5. QueuesOK'
    BY <2>1, <2>2 DEF QueuesOK
  <2>6. Order'
    BY <1>1, <2>1, <2>2 DEF Order, Single
  <2>7. Single'
    BY <1>1, <2>1, <2>2 DEF Order, Single
  <2> QED BY <2>4, <2>5, <2>6, <2>7
<1>2. CASE ~(addr \/ writer = "done")
  <2>1. /\ addr' = TRUE
        /\ sockEvents' = Tail(sockEvents)
        /\ commands' = Append(Append(commands, "select"), "speaking")
        /\ UNCHANGED <<state, keySend, reader, writer, link, selected, gwEvents, socket, key, toPlayer, listening, sender>>
        /\ sockEvents # <<>>
        /\ sockEvents[1] = "addr"
        /\ socket \notin {"none", "discovering"}
        /\ commands = <<>>
    BY <1>2 DEF OnAddr, NextSocketEvent, Order, gatewayVars, socketVars, playerVars
  <2>2. /\ Tail(sockEvents) \in Seq(SocketEvents) /\ Len(Tail(sockEvents)) = Len(sockEvents) - 1
        /\ Len(sockEvents) \in Nat \ {0} /\ Has(sockEvents, sockEvents[1])
        /\ Has(Tail(sockEvents), "sender") => Has(sockEvents, "sender")
        /\ sockEvents[1] # "sender" => (Has(Tail(sockEvents), "sender") <=> Has(sockEvents, "sender"))
        /\ Once(sockEvents, "sender") => Once(Tail(sockEvents), "sender")
        /\ (Once(sockEvents, "sender") /\ sockEvents[1] = "sender") => ~Has(Tail(sockEvents), "sender")
    BY <2>1, TailFacts DEF QueuesOK
  <2>3. Append(Append(commands, "select"), "speaking") \in Seq(GatewayCommands) /\ Len(Append(Append(commands, "select"), "speaking")) = 2
    BY <2>1 DEF GatewayCommands
  <2>4. \A e : ~Has(<<>>, e) /\ Once(<<>>, e) /\ Len(<<>>) = 0
    BY EmptyFacts
  <2>5. addr' \in BOOLEAN
    BY <2>1 DEF FlagsOK
  <2>6. FlagsOK'
    BY <2>1, <2>5 DEF FlagsOK
  <2>7. QueuesOK'
    BY <2>1, <2>2, <2>3, <2>4 DEF QueuesOK
  <2>8. Order'
    BY <1>2, <2>1, <2>2, <2>3, <2>4 DEF Order, Single
  <2>9. Single'
    BY <1>2, <2>1, <2>2, <2>3, <2>4 DEF Order, Single
  <2> QED BY <2>6, <2>7, <2>8, <2>9
<1> QED BY <1>1, <1>2

LEMMA OnSenderKeeps == ASSUME IInv, OnSender PROVE IInv'
<1> USE DEF IInv
<1>1. CASE listening
  <2>1. /\ sockEvents' = Tail(sockEvents)
        /\ toPlayer' = Append(toPlayer, "sender")
        /\ sender' = "offered"
        /\ UNCHANGED <<state, addr, keySend, reader, writer, link, commands, selected, gwEvents, socket, key, listening>>
        /\ sockEvents # <<>>
        /\ sockEvents[1] = "sender"
    BY <1>1 DEF OnSender, NextSocketEvent, Told, UnheardSender, gatewayVars, socketVars, playerVars
  <2>2. /\ Tail(sockEvents) \in Seq(SocketEvents) /\ Len(Tail(sockEvents)) = Len(sockEvents) - 1
        /\ Len(sockEvents) \in Nat \ {0} /\ Has(sockEvents, sockEvents[1])
        /\ Has(Tail(sockEvents), "sender") => Has(sockEvents, "sender")
        /\ sockEvents[1] # "sender" => (Has(Tail(sockEvents), "sender") <=> Has(sockEvents, "sender"))
        /\ Once(sockEvents, "sender") => Once(Tail(sockEvents), "sender")
        /\ (Once(sockEvents, "sender") /\ sockEvents[1] = "sender") => ~Has(Tail(sockEvents), "sender")
    BY <2>1, TailFacts DEF QueuesOK
  <2>3. /\ Append(toPlayer, "sender") \in Seq(PlayerEvents) /\ Len(Append(toPlayer, "sender")) = Len(toPlayer) + 1 /\ Len(toPlayer) \in Nat
        /\ Has(Append(toPlayer, "sender"), "sender") <=> (Has(toPlayer, "sender") \/ "sender" = "sender")
        /\ (Once(toPlayer, "sender") /\ ("sender" # "sender" \/ ~Has(toPlayer, "sender"))) => Once(Append(toPlayer, "sender"), "sender")
    <3>1. "sender" \in PlayerEvents /\ toPlayer \in Seq(PlayerEvents)
      BY DEF QueuesOK, PlayerEvents
    <3>2. Len(toPlayer) \in Nat
      BY <3>1
    <3> QED BY <3>1, <3>2, AppendFacts
  <2>4. sender = "queued" /\ Len(toPlayer) \in Nat /\ Len(toPlayer) <= 1
    BY <2>1, <2>2 DEF Single, QueuesOK
  <2>5. FlagsOK'
    BY <2>1 DEF FlagsOK
  <2>6. QueuesOK'
    BY <2>1, <2>2, <2>3, <2>4 DEF QueuesOK
  <2>7. Order'
    BY <1>1, <2>1, <2>2, <2>3, <2>4 DEF Order, Single
  <2>8. Single'
    BY <1>1, <2>1, <2>2, <2>3, <2>4 DEF Order, Single
  <2> QED BY <2>5, <2>6, <2>7, <2>8
<1>2. CASE ~listening
  <2>1. /\ sockEvents' = Tail(sockEvents)
        /\ sender' = "dropped"
        /\ UNCHANGED <<state, addr, keySend, reader, writer, link, commands, selected, gwEvents, socket, key, toPlayer, listening>>
        /\ sockEvents # <<>>
        /\ sockEvents[1] = "sender"
    BY <1>2 DEF OnSender, NextSocketEvent, Told, UnheardSender, gatewayVars, socketVars, playerVars
  <2>2. /\ Tail(sockEvents) \in Seq(SocketEvents) /\ Len(Tail(sockEvents)) = Len(sockEvents) - 1
        /\ Len(sockEvents) \in Nat \ {0} /\ Has(sockEvents, sockEvents[1])
        /\ Has(Tail(sockEvents), "sender") => Has(sockEvents, "sender")
        /\ sockEvents[1] # "sender" => (Has(Tail(sockEvents), "sender") <=> Has(sockEvents, "sender"))
        /\ Once(sockEvents, "sender") => Once(Tail(sockEvents), "sender")
        /\ (Once(sockEvents, "sender") /\ sockEvents[1] = "sender") => ~Has(Tail(sockEvents), "sender")
    BY <2>1, TailFacts DEF QueuesOK
  <2>3. sender = "queued" /\ Len(toPlayer) \in Nat /\ Len(toPlayer) <= 1
    BY <2>1, <2>2 DEF Single, QueuesOK
  <2>4. FlagsOK'
    BY <2>1 DEF FlagsOK
  <2>5. QueuesOK'
    BY <2>1, <2>2, <2>3 DEF QueuesOK
  <2>6. Order'
    BY <1>2, <2>1, <2>2, <2>3 DEF Order, Single
  <2>7. Single'
    BY <1>2, <2>1, <2>2, <2>3 DEF Order, Single
  <2> QED BY <2>4, <2>5, <2>6, <2>7
<1> QED BY <1>1, <1>2

LEMMA OnFrameKeeps == ASSUME IInv, OnFrame PROVE IInv'
<1> USE DEF IInv
<1>1. IInv'
  <2>1. /\ sockEvents' = Tail(sockEvents)
        /\ UNCHANGED <<state, addr, keySend, reader, writer, link, commands, selected, gwEvents, socket, key, toPlayer, listening, sender>>
        /\ sockEvents # <<>>
        /\ sockEvents[1] = "frame"
    BY  DEF OnFrame, NextSocketEvent, gatewayVars, socketVars, playerVars
  <2>2. /\ Tail(sockEvents) \in Seq(SocketEvents) /\ Len(Tail(sockEvents)) = Len(sockEvents) - 1
        /\ Len(sockEvents) \in Nat \ {0} /\ Has(sockEvents, sockEvents[1])
        /\ Has(Tail(sockEvents), "sender") => Has(sockEvents, "sender")
        /\ sockEvents[1] # "sender" => (Has(Tail(sockEvents), "sender") <=> Has(sockEvents, "sender"))
        /\ Once(sockEvents, "sender") => Once(Tail(sockEvents), "sender")
        /\ (Once(sockEvents, "sender") /\ sockEvents[1] = "sender") => ~Has(Tail(sockEvents), "sender")
    BY <2>1, TailFacts DEF QueuesOK
  <2>3. FlagsOK'
    BY <2>1 DEF FlagsOK
  <2>4. QueuesOK'
    BY <2>1, <2>2 DEF QueuesOK
  <2>5. Order'
    BY <2>1, <2>2 DEF Order, Single
  <2>6. Single'
    BY <2>1, <2>2 DEF Order, Single
  <2> QED BY <2>3, <2>4, <2>5, <2>6
<1> QED BY <1>1

LEMMA SocketGoneKeeps == ASSUME IInv, SocketGone PROVE IInv'
<1> USE DEF IInv
<1>1. IInv'
  <2>1. /\ state' = "Ended"
        /\ keySend' = FALSE
        /\ gwEvents' = <<>>
        /\ sockEvents' = <<>>
        /\ sender' = IF sender = "queued" THEN "dropped" ELSE sender
        /\ UNCHANGED <<addr, reader, writer, link, commands, selected, socket, key, toPlayer, listening>>
    BY  DEF SocketGone, Break, gatewayVars, socketVars, playerVars
  <2>2. <<>> \in Seq(GatewayEvents) /\ Len(<<>>) = 0 /\ ~Has(<<>>, "description") /\ Once(<<>>, "description")
    BY EmptyFacts
  <2>3. <<>> \in Seq(SocketEvents) /\ Len(<<>>) = 0 /\ ~Has(<<>>, "sender") /\ Once(<<>>, "sender")
    BY EmptyFacts
  <2>4. keySend' \in BOOLEAN
    BY <2>1 DEF FlagsOK
  <2>5. FlagsOK'
    BY <2>1, <2>4 DEF FlagsOK
  <2>6. QueuesOK'
    BY <2>1, <2>2, <2>3 DEF QueuesOK
  <2>7. Order'
    BY <2>1, <2>2, <2>3 DEF Order, Single
  <2>8. Single'
    BY <2>1, <2>2, <2>3 DEF Order, Single
  <2> QED BY <2>5, <2>6, <2>7, <2>8
<1> QED BY <1>1

LEMMA DiscoveredKeeps == ASSUME IInv, Discovered PROVE IInv'
<1> USE DEF IInv
<1>1. CASE state = "Ended"
  <2>1. /\ socket' = "ended"
        /\ UNCHANGED <<state, addr, keySend, reader, writer, link, commands, selected, gwEvents, key, sockEvents, toPlayer, listening, sender>>
        /\ socket = "discovering"
        /\ sockEvents = <<>>
    BY <1>1 DEF Discovered, Order, gatewayVars, socketVars, playerVars
  <2>2. \A e : ~Has(<<>>, e) /\ Once(<<>>, e) /\ Len(<<>>) = 0
    BY EmptyFacts
  <2>3. FlagsOK'
    BY <2>1 DEF FlagsOK
  <2>4. QueuesOK'
    BY <2>1, <2>2 DEF QueuesOK
  <2>5. Order'
    BY <1>1, <2>1, <2>2 DEF Order, Single
  <2>6. Single'
    BY <1>1, <2>1, <2>2 DEF Order, Single
  <2> QED BY <2>3, <2>4, <2>5, <2>6
<1>2. CASE state # "Ended"
  <2>1. /\ socket' = "keyless"
        /\ sockEvents' = Append(sockEvents, "addr")
        /\ UNCHANGED <<state, addr, keySend, reader, writer, link, commands, selected, gwEvents, key, toPlayer, listening, sender>>
        /\ socket = "discovering"
        /\ sockEvents = <<>>
    BY <1>2 DEF Discovered, Order, gatewayVars, socketVars, playerVars
  <2>2. /\ Append(sockEvents, "addr") \in Seq(SocketEvents) /\ Len(Append(sockEvents, "addr")) = Len(sockEvents) + 1 /\ Len(sockEvents) \in Nat
        /\ Has(Append(sockEvents, "addr"), "sender") <=> (Has(sockEvents, "sender") \/ "addr" = "sender")
        /\ (Once(sockEvents, "sender") /\ ("addr" # "sender" \/ ~Has(sockEvents, "sender"))) => Once(Append(sockEvents, "addr"), "sender")
    <3>1. "addr" \in SocketEvents /\ sockEvents \in Seq(SocketEvents)
      BY DEF QueuesOK, SocketEvents
    <3>2. Len(sockEvents) \in Nat
      BY <3>1
    <3> QED BY <3>1, <3>2, AppendFacts
  <2>3. \A e : ~Has(<<>>, e) /\ Once(<<>>, e) /\ Len(<<>>) = 0
    BY EmptyFacts
  <2>4. FlagsOK'
    BY <2>1 DEF FlagsOK
  <2>5. QueuesOK'
    BY <2>1, <2>2, <2>3 DEF QueuesOK
  <2>6. Order'
    BY <1>2, <2>1, <2>2, <2>3 DEF Order, Single
  <2>7. Single'
    BY <1>2, <2>1, <2>2, <2>3 DEF Order, Single
  <2> QED BY <2>4, <2>5, <2>6, <2>7
<1> QED BY <1>1, <1>2

LEMMA SocketFailsKeeps == ASSUME IInv, SocketFails PROVE IInv'
<1> USE DEF IInv
<1>3. FlagsOK'
  BY DEF SocketFails, FlagsOK, gatewayVars, socketVars, playerVars
<1>4. QueuesOK'
  BY EmptyFacts, QueueFacts DEF SocketFails, QueuesOK, GatewayEvents, SocketEvents, GatewayCommands,
     PlayerEvents, gatewayVars, socketVars, playerVars, Order, Single, FlagsOK
<1>5. Order'
  BY EmptyFacts, QueueFacts DEF SocketFails, Order, Single, FlagsOK, GatewayEvents, SocketEvents,
     PlayerEvents, gatewayVars, socketVars, playerVars
<1>6. Single'
  BY EmptyFacts, QueueFacts DEF SocketFails, Order, Single, FlagsOK, GatewayEvents, SocketEvents,
     PlayerEvents, gatewayVars, socketVars, playerVars
<1> QED BY <1>3, <1>4, <1>5, <1>6

LEMMA TakeKeyKeeps == ASSUME IInv, TakeKey PROVE IInv'
<1> USE DEF IInv
<1>3. FlagsOK'
  BY DEF TakeKey, KeyArrived, FlagsOK, gatewayVars, socketVars, playerVars
<1>4. QueuesOK'
  BY EmptyFacts, QueueFacts DEF TakeKey, KeyArrived, QueuesOK, GatewayEvents, SocketEvents, GatewayCommands,
     PlayerEvents, gatewayVars, socketVars, playerVars, Order, Single, FlagsOK
<1>5. Order'
  BY EmptyFacts, QueueFacts DEF TakeKey, KeyArrived, Order, Single, FlagsOK, GatewayEvents, SocketEvents,
     PlayerEvents, gatewayVars, socketVars, playerVars
<1>6. Single'
  BY EmptyFacts, QueueFacts DEF TakeKey, KeyArrived, Order, Single, FlagsOK, GatewayEvents, SocketEvents,
     PlayerEvents, gatewayVars, socketVars, playerVars
<1> QED BY <1>3, <1>4, <1>5, <1>6

LEMMA KeyLostKeeps == ASSUME IInv, KeyLost PROVE IInv'
<1> USE DEF IInv
<1>3. FlagsOK'
  BY DEF KeyLost, FlagsOK, gatewayVars, socketVars, playerVars
<1>4. QueuesOK'
  BY EmptyFacts, QueueFacts DEF KeyLost, QueuesOK, GatewayEvents, SocketEvents, GatewayCommands,
     PlayerEvents, gatewayVars, socketVars, playerVars, Order, Single, FlagsOK
<1>5. Order'
  BY EmptyFacts, QueueFacts DEF KeyLost, Order, Single, FlagsOK, GatewayEvents, SocketEvents,
     PlayerEvents, gatewayVars, socketVars, playerVars
<1>6. Single'
  BY EmptyFacts, QueueFacts DEF KeyLost, Order, Single, FlagsOK, GatewayEvents, SocketEvents,
     PlayerEvents, gatewayVars, socketVars, playerVars
<1> QED BY <1>3, <1>4, <1>5, <1>6

LEMMA OfferKeeps == ASSUME IInv, Offer PROVE IInv'
<1> USE DEF IInv
<1>1. CASE state = "Ended"
  <2>1. /\ socket' = "ended"
        /\ sender' = "dropped"
        /\ UNCHANGED <<state, addr, keySend, reader, writer, link, commands, selected, gwEvents, key, sockEvents, toPlayer, listening>>
        /\ socket = "offering"
        /\ sender = "none"
        /\ key
    BY <1>1 DEF Offer, HasRoom, Order, Single, gatewayVars, socketVars, playerVars
  <2>2. FlagsOK'
    BY <2>1 DEF FlagsOK
  <2>3. QueuesOK'
    BY <2>1 DEF QueuesOK
  <2>4. Order'
    BY <1>1, <2>1 DEF Order, Single
  <2>5. Single'
    BY <1>1, <2>1 DEF Order, Single
  <2> QED BY <2>2, <2>3, <2>4, <2>5
<1>2. CASE state # "Ended"
  <2>1. /\ socket' = "sending"
        /\ sender' = "queued"
        /\ sockEvents' = Append(sockEvents, "sender")
        /\ UNCHANGED <<state, addr, keySend, reader, writer, link, commands, selected, gwEvents, key, toPlayer, listening>>
        /\ socket = "offering"
        /\ sender = "none"
        /\ key
        /\ Len(sockEvents) < EventCap
    BY <1>2 DEF Offer, HasRoom, Order, Single, gatewayVars, socketVars, playerVars
  <2>2. /\ Append(sockEvents, "sender") \in Seq(SocketEvents) /\ Len(Append(sockEvents, "sender")) = Len(sockEvents) + 1 /\ Len(sockEvents) \in Nat
        /\ Has(Append(sockEvents, "sender"), "sender") <=> (Has(sockEvents, "sender") \/ "sender" = "sender")
        /\ (Once(sockEvents, "sender") /\ ("sender" # "sender" \/ ~Has(sockEvents, "sender"))) => Once(Append(sockEvents, "sender"), "sender")
    <3>1. "sender" \in SocketEvents /\ sockEvents \in Seq(SocketEvents)
      BY DEF QueuesOK, SocketEvents
    <3>2. Len(sockEvents) \in Nat
      BY <3>1
    <3> QED BY <3>1, <3>2, AppendFacts
  <2>3. FlagsOK'
    BY <2>1 DEF FlagsOK
  <2>4. QueuesOK'
    BY <2>1, <2>2 DEF QueuesOK
  <2>5. Order'
    BY <1>2, <2>1, <2>2 DEF Order, Single
  <2>6. Single'
    BY <1>2, <2>1, <2>2 DEF Order, Single
  <2> QED BY <2>3, <2>4, <2>5, <2>6
<1> QED BY <1>1, <1>2

LEMMA FramesEndKeeps == ASSUME IInv, FramesEnd PROVE IInv'
<1> USE DEF IInv
<1>3. FlagsOK'
  BY DEF FramesEnd, FlagsOK, gatewayVars, socketVars, playerVars
<1>4. QueuesOK'
  BY EmptyFacts, QueueFacts DEF FramesEnd, QueuesOK, GatewayEvents, SocketEvents, GatewayCommands,
     PlayerEvents, gatewayVars, socketVars, playerVars, Order, Single, FlagsOK
<1>5. Order'
  BY EmptyFacts, QueueFacts DEF FramesEnd, Order, Single, FlagsOK, GatewayEvents, SocketEvents,
     PlayerEvents, gatewayVars, socketVars, playerVars
<1>6. Single'
  BY EmptyFacts, QueueFacts DEF FramesEnd, Order, Single, FlagsOK, GatewayEvents, SocketEvents,
     PlayerEvents, gatewayVars, socketVars, playerVars
<1> QED BY <1>3, <1>4, <1>5, <1>6

LEMMA PacketKeeps == ASSUME IInv, Packet PROVE IInv'
<1> USE DEF IInv
<1>1. CASE state = "Ended"
  <2>1. /\ socket' = "ended"
        /\ UNCHANGED <<state, addr, keySend, reader, writer, link, commands, selected, gwEvents, key, sockEvents, toPlayer, listening, sender>>
        /\ socket \in {"keyless", "offering", "sending"}
    BY <1>1 DEF Packet, HasRoom, gatewayVars, socketVars, playerVars
  <2>2. FlagsOK'
    BY <2>1 DEF FlagsOK
  <2>3. QueuesOK'
    BY <2>1 DEF QueuesOK
  <2>4. Order'
    BY <1>1, <2>1 DEF Order, Single
  <2>5. Single'
    BY <1>1, <2>1 DEF Order, Single
  <2> QED BY <2>2, <2>3, <2>4, <2>5
<1>2. CASE state # "Ended"
  <2>1. /\ sockEvents' = Append(sockEvents, "frame")
        /\ UNCHANGED <<state, addr, keySend, reader, writer, link, commands, selected, gwEvents, socket, key, toPlayer, listening, sender>>
        /\ socket \in {"keyless", "offering", "sending"}
        /\ Len(sockEvents) < EventCap
    BY <1>2 DEF Packet, HasRoom, gatewayVars, socketVars, playerVars
  <2>2. /\ Append(sockEvents, "frame") \in Seq(SocketEvents) /\ Len(Append(sockEvents, "frame")) = Len(sockEvents) + 1 /\ Len(sockEvents) \in Nat
        /\ Has(Append(sockEvents, "frame"), "sender") <=> (Has(sockEvents, "sender") \/ "frame" = "sender")
        /\ (Once(sockEvents, "sender") /\ ("frame" # "sender" \/ ~Has(sockEvents, "sender"))) => Once(Append(sockEvents, "frame"), "sender")
    <3>1. "frame" \in SocketEvents /\ sockEvents \in Seq(SocketEvents)
      BY DEF QueuesOK, SocketEvents
    <3>2. Len(sockEvents) \in Nat
      BY <3>1
    <3> QED BY <3>1, <3>2, AppendFacts
  <2>3. FlagsOK'
    BY <2>1 DEF FlagsOK
  <2>4. QueuesOK'
    BY <2>1, <2>2 DEF QueuesOK
  <2>5. Order'
    BY <1>2, <2>1, <2>2 DEF Order, Single
  <2>6. Single'
    BY <1>2, <2>1, <2>2 DEF Order, Single
  <2> QED BY <2>3, <2>4, <2>5, <2>6
<1> QED BY <1>1, <1>2

LEMMA PlayerTakesKeeps == ASSUME IInv, PlayerTakes PROVE IInv'
<1> USE DEF IInv
<1>1. CASE toPlayer[1] = "sender"
  <2>1. /\ toPlayer' = Tail(toPlayer)
        /\ sender' = "held"
        /\ UNCHANGED <<state, addr, keySend, reader, writer, link, commands, selected, gwEvents, socket, key, sockEvents, listening>>
        /\ toPlayer # <<>>
        /\ listening
    BY <1>1 DEF PlayerTakes, gatewayVars, socketVars, playerVars
  <2>2. /\ Tail(toPlayer) \in Seq(PlayerEvents) /\ Len(Tail(toPlayer)) = Len(toPlayer) - 1
        /\ Len(toPlayer) \in Nat \ {0} /\ Has(toPlayer, toPlayer[1])
        /\ Has(Tail(toPlayer), "sender") => Has(toPlayer, "sender")
        /\ toPlayer[1] # "sender" => (Has(Tail(toPlayer), "sender") <=> Has(toPlayer, "sender"))
        /\ Once(toPlayer, "sender") => Once(Tail(toPlayer), "sender")
        /\ (Once(toPlayer, "sender") /\ toPlayer[1] = "sender") => ~Has(Tail(toPlayer), "sender")
    BY <2>1, TailFacts DEF QueuesOK
  <2>3. FlagsOK'
    BY <2>1 DEF FlagsOK
  <2>4. QueuesOK'
    BY <2>1, <2>2 DEF QueuesOK
  <2>5. Order'
    BY <1>1, <2>1, <2>2 DEF Order, Single
  <2>6. Single'
    BY <1>1, <2>1, <2>2 DEF Order, Single
  <2> QED BY <2>3, <2>4, <2>5, <2>6
<1>2. CASE toPlayer[1] # "sender"
  <2>1. /\ toPlayer' = Tail(toPlayer)
        /\ UNCHANGED <<state, addr, keySend, reader, writer, link, commands, selected, gwEvents, socket, key, sockEvents, listening, sender>>
        /\ toPlayer # <<>>
        /\ listening
    BY <1>2 DEF PlayerTakes, gatewayVars, socketVars, playerVars
  <2>2. /\ Tail(toPlayer) \in Seq(PlayerEvents) /\ Len(Tail(toPlayer)) = Len(toPlayer) - 1
        /\ Len(toPlayer) \in Nat \ {0} /\ Has(toPlayer, toPlayer[1])
        /\ Has(Tail(toPlayer), "sender") => Has(toPlayer, "sender")
        /\ toPlayer[1] # "sender" => (Has(Tail(toPlayer), "sender") <=> Has(toPlayer, "sender"))
        /\ Once(toPlayer, "sender") => Once(Tail(toPlayer), "sender")
        /\ (Once(toPlayer, "sender") /\ toPlayer[1] = "sender") => ~Has(Tail(toPlayer), "sender")
    BY <2>1, TailFacts DEF QueuesOK
  <2>3. FlagsOK'
    BY <2>1 DEF FlagsOK
  <2>4. QueuesOK'
    BY <2>1, <2>2 DEF QueuesOK
  <2>5. Order'
    BY <1>2, <2>1, <2>2 DEF Order, Single
  <2>6. Single'
    BY <1>2, <2>1, <2>2 DEF Order, Single
  <2> QED BY <2>3, <2>4, <2>5, <2>6
<1> QED BY <1>1, <1>2

LEMMA PlayerLeavesKeeps == ASSUME IInv, PlayerLeaves PROVE IInv'
<1> USE DEF IInv
<1>1. IInv'
  <2>1. /\ listening' = FALSE
        /\ toPlayer' = <<>>
        /\ sender' = IF sender \in {"offered", "held"} THEN "dropped" ELSE sender
        /\ UNCHANGED <<state, addr, keySend, reader, writer, link, commands, selected, gwEvents, socket, key, sockEvents>>
    BY  DEF PlayerLeaves, ClearConnection, gatewayVars, socketVars, playerVars
  <2>2. <<>> \in Seq(PlayerEvents) /\ Len(<<>>) = 0 /\ ~Has(<<>>, "sender") /\ Once(<<>>, "sender")
    BY EmptyFacts
  <2>3. listening' \in BOOLEAN
    BY <2>1 DEF FlagsOK
  <2>4. FlagsOK'
    BY <2>1, <2>3 DEF FlagsOK
  <2>5. QueuesOK'
    BY <2>1, <2>2 DEF QueuesOK
  <2>6. Order'
    BY <2>1, <2>2 DEF Order, Single
  <2>7. Single'
    BY <2>1, <2>2 DEF Order, Single
  <2> QED BY <2>4, <2>5, <2>6, <2>7
<1> QED BY <1>1

LEMMA PlayerSeesEndKeeps == ASSUME IInv, PlayerSeesEnd PROVE IInv'
<1> USE DEF IInv
<1>1. IInv'
  <2>1. /\ listening' = FALSE
        /\ toPlayer' = <<>>
        /\ sender' = IF sender \in {"offered", "held"} THEN "dropped" ELSE sender
        /\ UNCHANGED <<state, addr, keySend, reader, writer, link, commands, selected, gwEvents, socket, key, sockEvents>>
    BY  DEF PlayerSeesEnd, ClearConnection, gatewayVars, socketVars, playerVars
  <2>2. <<>> \in Seq(PlayerEvents) /\ Len(<<>>) = 0 /\ ~Has(<<>>, "sender") /\ Once(<<>>, "sender")
    BY EmptyFacts
  <2>3. listening' \in BOOLEAN
    BY <2>1 DEF FlagsOK
  <2>4. FlagsOK'
    BY <2>1, <2>3 DEF FlagsOK
  <2>5. QueuesOK'
    BY <2>1, <2>2 DEF QueuesOK
  <2>6. Order'
    BY <2>1, <2>2 DEF Order, Single
  <2>7. Single'
    BY <2>1, <2>2 DEF Order, Single
  <2> QED BY <2>4, <2>5, <2>6, <2>7
<1> QED BY <1>1

-----------------------------------------------------------------------------
(* The invariant of the specification.                                     *)

(* Every step of any task keeps the inductive invariant.                   *)
LEMMA InvStep == IInv /\ [Next]_vars => IInv'
<1> SUFFICES ASSUME IInv, [Next]_vars PROVE IInv'
  OBVIOUS
<1>1. CASE GatewayTask
  BY <1>1, HandshakeDoneKeeps, HandshakeFailsKeeps, ReadDescriptionKeeps,
     ReadOtherKeeps, ReadEndKeeps, WriteCommandKeeps,
     WriteFailsKeeps, CommandsClosedKeeps
     DEF GatewayTask
<1>2. CASE ConnectionTask
  BY <1>2, OnReadyKeeps, OnReadyNoSocketKeeps, OnUnsupportedKeeps,
     OnDescriptionKeeps, OnMismatchKeeps, OnOtherKeeps,
     GatewayGoneKeeps, OnAddrKeeps, OnSenderKeeps,
     OnFrameKeeps, SocketGoneKeeps
     DEF ConnectionTask
<1>3. CASE SocketTask
  BY <1>3, DiscoveredKeeps, SocketFailsKeeps, TakeKeyKeeps,
     KeyLostKeeps, OfferKeeps, FramesEndKeeps,
     PacketKeeps
     DEF SocketTask
<1>4. CASE Player
  BY <1>4, PlayerTakesKeeps, PlayerLeavesKeeps, PlayerSeesEndKeeps
     DEF Player
<1>5. CASE LinkBreaks
  BY <1>5, LinkBreaksKeeps
<1>6. CASE UNCHANGED vars
  <2>1. /\ UNCHANGED <<state, addr, keySend, reader, writer, link, commands, selected>>
        /\ UNCHANGED <<gwEvents, socket, key, sockEvents, toPlayer, listening, sender>>
    BY <1>6 DEF vars, gatewayVars, socketVars, playerVars
  <2>2. FlagsOK'
    BY <2>1 DEF IInv, FlagsOK
  <2>3. QueuesOK'
    BY <2>1 DEF IInv, QueuesOK
  <2>4. Order'
    BY <2>1 DEF IInv, Order
  <2>5. Single'
    BY <2>1 DEF IInv, Single
  <2> QED BY <2>2, <2>3, <2>4, <2>5 DEF IInv
<1> QED BY <1>1, <1>2, <1>3, <1>4, <1>5, <1>6 DEF Next, AllOver

(* So it holds always.                                                     *)
LEMMA Invariant == Spec => []IInv
<1>1. Init => IInv
  BY InvInit
<1>2. IInv /\ [Next]_vars => IInv'
  BY InvStep
<1> QED BY <1>1, <1>2, PTL DEF Spec

(* The variables keep their types and the channels their bounds, so the    *)
(* connection task never waits in a send to the player or the writer.      *)
THEOREM TypeCorrect == Spec => []TypeOK
<1>1. IInv => TypeOK
  BY DEF IInv, TypeOK
<1> QED BY <1>1, Invariant, PTL

(* A frame sender exists only after address discovery, protocol selection  *)
(* and key, in this order (connection.rs:80-122, socket.rs:77-98).         *)
THEOREM AudioIsReady == Spec => []AudioReady
<1>1. IInv => AudioReady
  BY DEF IInv, Order, AudioReady
<1> QED BY <1>1, Invariant, PTL

(* The frame sender is in the one place its state says, so dropping that   *)
(* place drops the sender (connection.rs:120-122, player.rs:267-269).      *)
THEOREM SenderHasAPlace == Spec => []SenderIsSomewhere
<1>1. IInv => SenderIsSomewhere
  BY DEF IInv, Single, SenderIsSomewhere
<1> QED BY <1>1, Invariant, PTL

-----------------------------------------------------------------------------
(* The contract.                                                           *)

(* All the tasks do that the player can see is to offer the frame sender,  *)
(* once and before the end, and to end, which is final.                    *)
LEMMA TasksStep ==
  ASSUME IInv, GatewayTask \/ ConnectionTask \/ SocketTask \/ LinkBreaks
  PROVE  /\ listening' = listening
         /\ \/ Reachable' = Reachable
            \/ /\ listening /\ state # "Ended" /\ state' = state
               /\ Reachable = "none" /\ Reachable' = "offered"
         /\ state = "Ended" => state' = "Ended"
         /\ Released => Released'
<1> USE DEF Reachable, Released, gatewayVars, socketVars, playerVars
<1>1. CASE HandshakeDone
  BY <1>1 DEF HandshakeDone
<1>2. CASE HandshakeFails
  BY <1>2 DEF HandshakeFails
<1>3. CASE ReadDescription
  BY <1>3 DEF ReadDescription, Forward, HasRoom
<1>4. CASE ReadOther
  BY <1>4 DEF ReadOther, Forward, HasRoom
<1>5. CASE ReadEnd
  BY <1>5 DEF ReadEnd
<1>6. CASE WriteCommand
  BY <1>6 DEF WriteCommand
<1>7. CASE WriteFails
  BY <1>7 DEF WriteFails
<1>8. CASE CommandsClosed
  BY <1>8 DEF CommandsClosed, ClosedLink
<1>9. CASE LinkBreaks
  BY <1>9 DEF LinkBreaks
<1>10. CASE OnReady
  BY <1>10 DEF OnReady, NextEvent, OpenSocket, Opens, Told
<1>11. CASE OnReadyNoSocket
  BY <1>11 DEF OnReadyNoSocket, NextEvent, Break, Told
<1>12. CASE OnUnsupported
  BY <1>12 DEF OnUnsupported, NextEvent, Break
<1>13. CASE OnDescription
  BY <1>13 DEF OnDescription, Break
<1>14. CASE OnMismatch
  BY <1>14 DEF OnMismatch, NextEvent, Break
<1>15. CASE OnOther
  BY <1>15 DEF OnOther, NextEvent, OpenSocket, Opens
<1>16. CASE GatewayGone
  BY <1>16 DEF GatewayGone, Break
<1>17. CASE OnAddr
  BY <1>17 DEF OnAddr, NextSocketEvent
<1>18. CASE OnSender
  <2>1. Has(sockEvents, "sender")
    BY <1>18, TailFacts DEF OnSender, NextSocketEvent, IInv, QueuesOK
  <2>2. sender = "queued"
    BY <2>1 DEF IInv, Single
  <2> QED BY <1>18, <2>2 DEF OnSender, NextSocketEvent, Told, UnheardSender
<1>19. CASE OnFrame
  BY <1>19 DEF OnFrame, NextSocketEvent
<1>20. CASE SocketGone
  BY <1>20 DEF SocketGone, Break
<1>21. CASE Discovered
  BY <1>21 DEF Discovered
<1>22. CASE SocketFails
  BY <1>22 DEF SocketFails
<1>23. CASE TakeKey
  BY <1>23 DEF TakeKey, KeyArrived
<1>24. CASE KeyLost
  BY <1>24 DEF KeyLost
<1>25. CASE Offer
  BY <1>25 DEF Offer, HasRoom, IInv, Single
<1>26. CASE FramesEnd
  BY <1>26 DEF FramesEnd
<1>27. CASE Packet
  BY <1>27 DEF Packet, HasRoom
<1> QED BY <1>1, <1>2, <1>3, <1>4, <1>5, <1>6, <1>7, <1>8, <1>9,
          <1>10, <1>11, <1>12, <1>13, <1>14, <1>15, <1>16, <1>17, <1>18,
          <1>19, <1>20, <1>21, <1>22, <1>23, <1>24, <1>25, <1>26, <1>27
          DEF GatewayTask, ConnectionTask, SocketTask

(* The player takes the sender that is offered, or lets go of everything.  *)
LEMMA PlayerStep ==
  ASSUME IInv, Player
  PROVE  /\ Tasks' = Tasks
         /\ \/ listening' = listening /\ Reachable' = Reachable
            \/ listening' = listening /\ listening
                 /\ Reachable = "offered" /\ Reachable' = "held"
            \/ listening /\ listening' = FALSE /\ Reachable' = "none"
<1> USE DEF gatewayVars, socketVars
<1>1. Tasks' = Tasks
  BY DEF Player, PlayerTakes, PlayerLeaves, PlayerSeesEnd, ClearConnection, Tasks, Released
<1>2. CASE PlayerTakes
  <2>1. CASE toPlayer[1] = "sender"
    <3>1. Has(toPlayer, "sender")
      BY <1>2, <2>1, TailFacts DEF PlayerTakes, IInv, QueuesOK
    <3>2. sender = "offered"
      BY <3>1 DEF IInv, Single
    <3> QED BY <1>1, <1>2, <2>1, <3>2 DEF PlayerTakes, Reachable
  <2>2. CASE toPlayer[1] # "sender"
    BY <1>1, <1>2, <2>2 DEF PlayerTakes, Reachable
  <2> QED BY <2>1, <2>2
<1>3. CASE PlayerLeaves \/ PlayerSeesEnd
  BY <1>1, <1>3 DEF PlayerLeaves, PlayerSeesEnd, ClearConnection, Reachable
<1> QED BY <1>2, <1>3 DEF Player

(* The connection implements what the player relies on (VoiceLink): it     *)
(* offers one frame sender, only to a player that listens and not after    *)
(* its end, and the player takes it at most once (connection.rs:117-122,   *)
(* 129-185, player.rs:266-284).                                            *)
THEOREM ContractKept == Spec => KeepsContract
<1>1. Init => Link!Init
  BY DEF Init, Link!Init, Reachable, Tasks
<1>2. IInv /\ [Next]_vars => [Link!Next]_(Link!vars)
  <2> SUFFICES ASSUME IInv, [Next]_vars PROVE [Link!Next]_(Link!vars)
    OBVIOUS
  <2> USE DEF Link!Next, Link!Tasks, Link!vars
  <2>1. CASE GatewayTask \/ ConnectionTask \/ SocketTask \/ LinkBreaks
    <3>1. CASE Reachable' = Reachable
      BY <2>1, <3>1, TasksStep DEF Tasks, Link!Closes, Link!Dies
    <3>2. CASE Reachable' # Reachable
      BY <2>1, <3>2, TasksStep DEF Tasks, Link!Offers
    <3> QED BY <3>1, <3>2
  <2>2. CASE Player
    BY <2>2, PlayerStep DEF Link!Takes, Link!LetsGo
  <2>3. CASE UNCHANGED vars
    BY <2>3 DEF vars, gatewayVars, socketVars, playerVars, Reachable, Tasks, Released
  <2> QED BY <2>1, <2>2, <2>3 DEF Next, AllOver
<1>3. Spec => Link!Spec
  BY <1>1, <1>2, Invariant, PTL DEF Spec, Link!Spec
<1> QED BY <1>3 DEF KeepsContract
=============================================================================
