-------------------------- MODULE VoiceFrames_proofs --------------------------
(***************************************************************************)
(* Proofs about the pacing of a stream, for every duration of a frame and  *)
(* every way of stopping, replaying and replacing streams, and about the   *)
(* nonces of the socket, for the widths the code has.                      *)
(***************************************************************************)
EXTENDS VoiceFrames, TLAPS

USE VoiceFramesAssumption DEF VoiceFramesAssumption

(* Arithmetic: one more item takes one more frame.                         *)
LEMMA OneMore == ASSUME NEW n \in Int PROVE (n + 1) * Frame = n * Frame + Frame
  OBVIOUS

(* Arithmetic: adding under a modulus.                                     *)
LEMMA ModNat == ASSUME NEW a \in Nat, NEW m \in Nat \ {0} PROVE a % m \in 0..(m - 1)
  OBVIOUS

(* With the widths of the code, the timestamps of two frames fewer than    *)
(* 2^26 apart differ: 960 is 15 * 2^6.                                     *)
LEMMA TimestampsDiffer ==
  ASSUME NEW i \in Nat, NEW j \in Nat, i < j, j - i < 67108864
  PROVE  (i * 960) % 4294967296 # (j * 960) % 4294967296
  OBVIOUS

(* The timestamps are the multiples of 960, modulo 2^32.                   *)
LEMMA NextStamp ==
  ASSUME NEW i \in Nat
  PROVE  (((i * 960) % 4294967296) + 960) % 4294967296 = ((i + 1) * 960) % 4294967296
  OBVIOUS

-----------------------------------------------------------------------------
(* Pacing.                                                                 *)

(* The inductive invariant of the stream's clock.  The deadline is at least*)
(* a frame per item after the stream was made, not before the last item    *)
(* and a frame after the one before it; and an awaited delay has passed.   *)
Clock ==
    /\ start <= now
    /\ (produced - 1) * Frame <= now - start
    /\ deadline >= start + produced * Frame
    /\ deadline >= last
    /\ deadline >= previous + Frame
    /\ delayed => now >= deadline

PaceInv == StreamOK /\ Clock

(* What held at some time holds later.                                     *)
LEMMA LaterIsFine ==
  ASSUME NEW p \in Int, NEW a \in Nat, NEW b \in Nat, NEW c \in Nat, p <= a - c, b >= a
  PROVE  p <= b - c
  OBVIOUS

(* No item was produced yet, and the deadline is not past.                 *)
LEMMA PaceInit == Init => PaceInv
<1> SUFFICES ASSUME Init PROVE PaceInv
  OBVIOUS
<1>1. (0 - 1) * Frame = 0 - Frame /\ 0 * Frame = 0
  OBVIOUS
<1>2. StreamOK
  <2>1. playing \in BOOLEAN /\ delayed \in BOOLEAN /\ done \in BOOLEAN
    BY DEF Init
  <2> QED BY <2>1, SMT DEF Init, StreamOK
<1>3. produced = 0 /\ start = 0 /\ now = 0 /\ deadline = 0 /\ last = -Frame
      /\ previous = -Frame /\ ~delayed
  BY DEF Init
<1> QED BY <1>1, <1>2, <1>3 DEF PaceInv, Clock

(* A due stream is at its deadline, and the next one is a frame later or   *)
(* now.                                                                    *)
LEMMA DeadlineMoves ==
  ASSUME PaceInv, Due
  PROVE  /\ now >= deadline
         /\ NextDeadline \in Nat
         /\ NextDeadline >= now
         /\ NextDeadline >= deadline + Frame
  BY SMT DEF PaceInv, StreamOK, Clock, Due, NextDeadline, Larger

(* An item that is due keeps the pace.                                     *)
LEMMA ProduceKeepsPace ==
  ASSUME PaceInv, Due, Produce, silence' \in 0..Silence
  PROVE  PaceInv'
<1> USE DEF PaceInv
<1>1. now' = now /\ start' = start /\ produced' = produced + 1 /\ previous' = last
      /\ last' = now /\ deadline' = NextDeadline /\ delayed' = FALSE
  BY DEF Produce, NotDelayed
<1>2. now >= deadline /\ NextDeadline \in Nat /\ NextDeadline >= now
      /\ NextDeadline >= deadline + Frame
  BY DeadlineMoves
<1>3. playing' \in BOOLEAN /\ done' \in BOOLEAN /\ streams' \in Nat
  BY DEF Produce, StreamOK
<1>4. delayed' \in BOOLEAN
  BY <1>1
<1>5. StreamOK'
  BY <1>1, <1>2, <1>3, <1>4, SMT DEF StreamOK
<1>6. produced' * Frame = produced * Frame + Frame
  BY <1>1, OneMore DEF StreamOK
<1>7. (produced' - 1) * Frame = produced * Frame
  BY <1>1, SMT DEF StreamOK
<1>8. start' <= now' /\ deadline' >= last' /\ (delayed' => now' >= deadline')
  BY <1>1, <1>2 DEF Clock
<1>9. deadline' >= previous' + Frame
  BY <1>1, <1>2, SMT DEF Clock, StreamOK
<1>10. (produced' - 1) * Frame <= now' - start'
  <2>1. produced * Frame \in Int
    BY SMT DEF StreamOK
  <2> QED BY <2>1, <1>1, <1>2, <1>7, SMT DEF Clock, StreamOK
<1>11. deadline' >= start' + produced' * Frame
  <2>1. produced * Frame \in Int
    BY SMT DEF StreamOK
  <2> QED BY <2>1, <1>1, <1>2, <1>6, SMT DEF Clock, StreamOK
<1> QED BY <1>5, <1>8, <1>9, <1>10, <1>11 DEF Clock

(* Every action keeps the pace.                                            *)
LEMMA PaceStep == PaceInv /\ [Next]_vars => PaceInv'
<1> SUFFICES ASSUME PaceInv, [Next]_vars PROVE PaceInv'
  OBVIOUS
<1> USE DEF PaceInv
<1>1. CASE Tick
  <2>1. now' \in Nat /\ now' >= now
    BY <1>1 DEF Tick, StreamOK
  <2>2. StreamOK'
    BY <1>1, <2>1 DEF Tick, StreamOK, streamVars
  <2>3. UNCHANGED streamVars
    BY <1>1 DEF Tick
  <2>4. produced * Frame \in Int /\ (produced - 1) * Frame \in Int
    BY SMT DEF StreamOK
  <2>5. start' = start /\ produced' = produced /\ deadline' = deadline /\ last' = last
        /\ previous' = previous /\ delayed' = delayed
    BY <2>3 DEF streamVars
  <2>6. (produced' - 1) * Frame <= now' - start'
    <3>1. now \in Nat /\ start \in Nat /\ (produced - 1) * Frame <= now - start
      BY DEF StreamOK, Clock
    <3>2. (produced - 1) * Frame <= now' - start
      BY <3>1, <2>1, <2>4, LaterIsFine
    <3> QED BY <3>2, <2>5
  <2>7. deadline' >= start' + produced' * Frame
    BY <2>5 DEF Clock
  <2>8. start' <= now' /\ deadline' >= last' /\ deadline' >= previous' + Frame
        /\ (delayed' => now' >= deadline')
    BY <2>1, <2>5, SMT DEF Clock, StreamOK
  <2> QED BY <2>2, <2>6, <2>7, <2>8 DEF Clock
<1>2. CASE PlayNew
  <2>1. PICK made \in 0..MaxTime :
          /\ made <= now
          /\ deadline' = made /\ start' = made /\ produced' = 0
          /\ previous' = made - Frame /\ last' = made - Frame
          /\ silence' = Silence
    BY <1>2 DEF PlayNew
  <2>2. now' = now /\ streams' = streams + 1 /\ playing' = TRUE /\ delayed' = FALSE
        /\ done' = FALSE
    BY <1>2 DEF PlayNew
  <2>3. playing' \in BOOLEAN /\ delayed' \in BOOLEAN /\ done' \in BOOLEAN
    BY <2>2
  <2>4. StreamOK'
    BY <2>1, <2>2, <2>3, SMT DEF StreamOK
  <2>5. (0 - 1) * Frame = 0 - Frame /\ 0 * Frame = 0
    OBVIOUS
  <2> QED BY <2>1, <2>2, <2>4, <2>5, SMT DEF Clock, StreamOK
<1>3. CASE Stop \/ PlayAgain \/ Finished
  <2>1. UNCHANGED <<now, streamVars, streams>> /\ playing' \in BOOLEAN
    BY <1>3 DEF Stop, PlayAgain, Finished
  <2> QED BY <2>1 DEF StreamOK, Clock, streamVars
<1>4. CASE SilenceFrame
  <2>1. silence' \in 0..Silence
    BY <1>4 DEF SilenceFrame, StreamOK
  <2> QED BY <1>4, <2>1, ProduceKeepsPace DEF SilenceFrame
<1>5. CASE SourceFrame \/ EncodeError
  <2>1. silence' \in 0..Silence
    BY <1>5 DEF SourceFrame, EncodeError, StreamOK
  <2> QED BY <1>5, <2>1, ProduceKeepsPace DEF SourceFrame, EncodeError
<1>6. CASE SourcePending \/ SourceEnds
  <2>1. now >= deadline
    BY <1>6, DeadlineMoves DEF SourcePending, SourceEnds
  <2>2. UNCHANGED <<now, deadline, silence, start, produced, previous, last, streams>>
    BY <1>6 DEF SourcePending, SourceEnds
  <2>3. delayed' = TRUE /\ done' \in BOOLEAN /\ playing' \in BOOLEAN
    BY <1>6 DEF SourcePending, SourceEnds, StreamOK
  <2>4. delayed' \in BOOLEAN
    BY <2>3
  <2>5. StreamOK'
    BY <2>2, <2>3, <2>4 DEF StreamOK
  <2> QED BY <2>1, <2>2, <2>5 DEF Clock
<1>7. CASE Send
  BY <1>7 DEF Send, StreamOK, Clock, streamVars
<1>8. CASE UNCHANGED vars
  BY <1>8 DEF vars, StreamOK, Clock, streamVars
<1> QED BY <1>1, <1>2, <1>3, <1>4, <1>5, <1>6, <1>7, <1>8 DEF Next, Poll

(* The pace is kept always.                                                *)
LEMMA PaceHolds == Spec => []PaceInv
  BY PaceInit, PaceStep, PTL DEF Spec

(* However late it is polled, and however often stopped and replayed, a    *)
(* stream never runs ahead of the clock (opus.rs:163-187).                 *)
THEOREM NeverAhead == Spec => []Paced
<1>1. PaceInv => Paced
  BY DEF PaceInv, Clock, Paced
<1> QED BY <1>1, PaceHolds, PTL

(* A step that produces an item is one of three, each of a due stream.     *)
LEMMA ProducesWhenDue ==
  ASSUME PaceInv, [Next]_vars, produced' = produced + 1
  PROVE  Due
<1>1. produced \in Nat /\ produced' # produced /\ produced' # 0
  BY SMT DEF PaceInv, StreamOK
<1>2. ~(Tick \/ PlayNew \/ Stop \/ PlayAgain \/ SourcePending \/ SourceEnds
        \/ Finished \/ Send \/ UNCHANGED vars)
  BY <1>1 DEF Tick, PlayNew, Stop, PlayAgain, SourcePending, SourceEnds, Finished, Send, vars,
     streamVars
<1> QED BY <1>2 DEF Next, Poll, SilenceFrame, SourceFrame, EncodeError

(* Lost time is not made up for by a burst of frames (opus.rs:182-187).    *)
THEOREM NoBurst == Spec => Spaced
<1>1. PaceInv /\ [Next]_vars => [produced' = produced + 1 => now - previous >= Frame]_vars
  <2> SUFFICES ASSUME PaceInv, [Next]_vars, produced' = produced + 1
               PROVE  now - previous >= Frame
    OBVIOUS
  <2>1. Due
    BY ProducesWhenDue
  <2>2. now >= deadline
    BY <2>1, DeadlineMoves
  <2> QED BY <2>2, SMT DEF PaceInv, StreamOK, Clock
<1> QED BY <1>1, PaceHolds, PTL DEF Spec, Spaced

-----------------------------------------------------------------------------
(* The socket.                                                             *)

(* The socket starts typed.                                                *)
LEMMA SocketInit == Init => SocketOK
  BY SMT DEF Init, SocketOK

(* Every action keeps counters and channel in their widths.                *)
LEMMA SocketStep == SocketOK /\ [Next]_vars => SocketOK'
<1> SUFFICES ASSUME SocketOK, [Next]_vars PROVE SocketOK'
  OBVIOUS
<1>1. CASE Send
  <2>1. sequence' \in 0..(SequenceMod - 1) /\ timestamp' \in 0..(TimestampMod - 1)
    BY <1>1, ModNat DEF Send, NextSequence, NextTimestamp, SocketOK
  <2>2. frames' \in 0..FrameCap /\ sent' \in Nat
    BY <1>1 DEF Send, SocketOK
  <2>3. nonces' \subseteq (0..(SequenceMod - 1)) \X (0..(TimestampMod - 1))
    BY <1>1 DEF Send, Nonce, SocketOK
  <2> QED BY <2>1, <2>2, <2>3 DEF SocketOK
<1>2. CASE SilenceFrame \/ SourceFrame
  <2>1. frames' \in 0..FrameCap
    BY <1>2 DEF SilenceFrame, SourceFrame, Forward, HasRoom, SocketOK
  <2> QED BY <1>2, <2>1 DEF SilenceFrame, SourceFrame, Produce, SocketOK, socketVars
<1>3. CASE EncodeError
  BY <1>3 DEF EncodeError, Produce, SocketOK, socketVars
<1>4. CASE Tick \/ PlayNew \/ Stop \/ PlayAgain \/ SourcePending \/ SourceEnds \/ Finished
  BY <1>4 DEF Tick, PlayNew, Stop, PlayAgain, SourcePending, SourceEnds, Finished, SocketOK,
     socketVars
<1>5. CASE UNCHANGED vars
  BY <1>5 DEF vars, SocketOK, socketVars
<1> QED BY <1>1, <1>2, <1>3, <1>4, <1>5 DEF Next, Poll

(* They stay so.                                                           *)
LEMMA SocketHolds == Spec => []SocketOK
  BY SocketInit, SocketStep, PTL DEF Spec

(* Every variable keeps its type, and the frame channel its capacity.      *)
THEOREM TypeCorrect == Spec => []TypeOK
  BY SocketHolds, PaceHolds, PTL DEF TypeOK, PaceInv

(* The widths of the code, and the frames it can send before a nonce       *)
(* repeats: 2^26, more than fifteen days of audio.                         *)
RealWidths ==
    /\ SequenceMod = 65536 /\ TimestampMod = 4294967296 /\ Step = 960
    /\ Period = 67108864

(* Every nonce so far has the timestamp of an earlier packet.              *)
Numbered ==
    /\ sent \in Nat
    /\ timestamp = (sent * 960) % 4294967296
    /\ \A n \in nonces : \E i \in Nat : i < sent /\ n[2] = (i * 960) % 4294967296

(* No packet was numbered yet.                                             *)
LEMMA NumberedInit == ASSUME RealWidths PROVE Init => Numbered
  BY DEF Init, Numbered

(* Every packet is numbered by its position.                               *)
LEMMA NumberedStep == ASSUME RealWidths PROVE Numbered /\ [Next]_vars => Numbered'
<1> SUFFICES ASSUME Numbered, [Next]_vars PROVE Numbered'
  OBVIOUS
<1>1. CASE Send
  <2>1. sent' = sent + 1 /\ sent' \in Nat
    BY <1>1 DEF Send, Numbered
  <2>2. timestamp' = (timestamp + 960) % 4294967296
    BY <1>1 DEF Send, NextTimestamp, RealWidths
  <2>3. timestamp' = (sent' * 960) % 4294967296
    BY <2>1, <2>2, NextStamp DEF Numbered
  <2>4. ASSUME NEW n \in nonces'
        PROVE  \E i \in Nat : i < sent' /\ n[2] = (i * 960) % 4294967296
    <3>1. CASE n \in nonces
      <4>1. PICK i \in Nat : i < sent /\ n[2] = (i * 960) % 4294967296
        BY <3>1 DEF Numbered
      <4>2. i < sent'
        BY <4>1, <2>1 DEF Numbered
      <4> QED BY <4>1, <4>2
    <3>2. CASE n = Nonce
      <4>1. n[2] = (sent * 960) % 4294967296
        BY <3>2 DEF Nonce, Numbered
      <4>2. sent \in Nat /\ sent < sent'
        BY <2>1 DEF Numbered
      <4> QED BY <4>1, <4>2
    <3> QED BY <2>4, <3>1, <3>2, <1>1 DEF Send
  <2> QED BY <2>1, <2>3, <2>4 DEF Numbered
<1>2. CASE ~Send
  <2>1. UNCHANGED socketVars
    BY <1>2 DEF Next, Poll, Tick, PlayNew, Stop, PlayAgain, SilenceFrame, SourceFrame,
       EncodeError, Produce, SourcePending, SourceEnds, Finished, vars
  <2> QED BY <2>1 DEF Numbered, socketVars
<1> QED BY <1>1, <1>2

(* No two of the first 2^26 packets under a key are encrypted with the     *)
(* same nonce (socket.rs:162-168, 182-183).                                *)
THEOREM NoncesAreFresh == ASSUME RealWidths PROVE Spec => []NonceFresh
<1>1. Numbered => NonceFresh
  <2> SUFFICES ASSUME Numbered, sent < Period, Nonce \in nonces PROVE FALSE
    BY DEF NonceFresh
  <2>1. PICK i \in Nat : i < sent /\ Nonce[2] = (i * 960) % 4294967296
    BY DEF Numbered
  <2>2. sent - i < 67108864
    BY <2>1 DEF Numbered, RealWidths
  <2>3. (i * 960) % 4294967296 # (sent * 960) % 4294967296
    BY <2>1, <2>2, TimestampsDiffer DEF Numbered
  <2> QED BY <2>1, <2>3 DEF Nonce, Numbered
<1>2. Init => Numbered
  BY NumberedInit
<1>3. Numbered /\ [Next]_vars => Numbered'
  BY NumberedStep
<1> QED BY <1>1, <1>2, <1>3, PTL DEF Spec
=============================================================================
