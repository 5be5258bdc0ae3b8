--------------------------- MODULE AudioPath_proofs ---------------------------
(***************************************************************************)
(* Theorems about AudioPath: it is a VoiceFrames, so that pace and nonces  *)
(* carry over; no frame of a source is lost; lateness does not add up.     *)
(* For every size of frames and sources and every duration.                *)
(***************************************************************************)
EXTENDS AudioPath, VoiceFrames_proofs

USE VoiceFramesAssumption, PcmSourceAssumption, AudioPathAssumption
    DEF VoiceFramesAssumption, PcmSourceAssumption, AudioPathAssumption

(* Arithmetic: one more frame takes its bytes.                             *)
LEMMA OneFrame ==
  ASSUME NEW n \in Int PROVE FrameBytes * (n + 1) = FrameBytes * n + FrameBytes
  OBVIOUS

(* Arithmetic: whole frames and less than a frame.                         *)
LEMMA WholeFrames ==
  ASSUME NEW q \in Nat, NEW r \in Nat, r < FrameBytes
  PROVE  (FrameBytes * q + r) \div FrameBytes = q
  OBVIOUS

-----------------------------------------------------------------------------
(* The composition is a VoiceFrames.                                       *)
THEOREM PathIsVoiceFrames == PathSpec => Spec
<1>1. PathInit => Init
  BY DEF PathInit
<1>2. [PathNext]_pathVars => [Next]_vars
  BY DEF PathNext, PlaySource, Lead, Reads, Encodes, Refuses, Fails, Waits, Ends,
         Elsewhere, pathVars, Next, Poll
<1> QED BY <1>1, <1>2, PTL DEF PathSpec, Spec

(* The type and the clock of the stream carry over.                        *)
LEMMA PathPace == PathSpec => []PaceInv
BY PathIsVoiceFrames, PaceHolds, PTL

-----------------------------------------------------------------------------
(* Every byte is in a cut frame, buffered, or still to be read.            *)
Bytes == size = FrameBytes * cut + buffered + left

(* Every item was a silence frame or a cut one, until a read fails.        *)
Items == (streams > 0 /\ ~failed) => produced = Silence - silence + cut

(* A stream that is done asked its source to the end.                      *)
AtEnd == (streams > 0 /\ done /\ ~failed) =>
            silence = 0 /\ left = 0 /\ buffered < FrameBytes

SourceInv == PcmOK /\ Bytes /\ Items /\ AtEnd

(* No source was opened yet.                                               *)
LEMMA SourceInit == PathInit => SourceInv
<1> SUFFICES ASSUME PathInit PROVE SourceInv
  OBVIOUS
<1>1. FrameBytes * 0 = 0
  OBVIOUS
<1>2. size = 0 /\ left = 0 /\ buffered = 0 /\ cut = 0 /\ ~(streams > 0)
  BY DEF PathInit, Init
<1>3. failed \in BOOLEAN
  BY DEF PathInit
<1> QED BY <1>1, <1>2, <1>3 DEF SourceInv, PcmOK, Bytes, Items, AtEnd

(* A source just opened.                                                   *)
LEMMA OpenKeeps ==
  ASSUME NEW n \in Nat, Open(n), streams' > 0, produced' = 0, silence' = Silence, ~done'
  PROVE  SourceInv'
<1>1. FrameBytes * 0 = 0
  OBVIOUS
<1>2. size' = n /\ left' = n /\ buffered' = 0 /\ cut' = 0
  BY DEF Open
<1>3. failed' \in BOOLEAN
  BY DEF Open
<1> QED BY <1>1, <1>2, <1>3 DEF SourceInv, PcmOK, Bytes, Items, AtEnd

(* A cut frame is an item.                                                 *)
LEMMA CutKeeps ==
  ASSUME SourceInv, PaceInv, Cut, Due, silence = 0, produced' = produced + 1,
         UNCHANGED <<silence, done, streams>>
  PROVE  SourceInv'
<1>1. FrameBytes * cut' = FrameBytes * cut + FrameBytes
  BY OneFrame DEF Cut, SourceInv, PcmOK
<1>2. FrameBytes * cut \in Int
  BY DEF SourceInv, PcmOK
<1>3. buffered \in Nat /\ cut \in Nat /\ buffered >= FrameBytes
  BY DEF SourceInv, PcmOK, Cut, Enough
<1>4. PcmOK'
  BY <1>3 DEF Cut, SourceInv, PcmOK
<1>5. Bytes'
  BY <1>1, <1>2, <1>3 DEF Cut, SourceInv, PcmOK, Bytes
<1>6. Items'
  BY DEF Cut, SourceInv, PcmOK, Items, PaceInv, StreamOK
<1>7. AtEnd'
  BY DEF Due, AtEnd
<1> QED BY <1>4, <1>5, <1>6, <1>7 DEF SourceInv

(* Every step keeps the ledger.                                            *)
LEMMA SourceStep == SourceInv /\ PaceInv /\ [PathNext]_pathVars => SourceInv'
<1> SUFFICES ASSUME SourceInv, PaceInv, [PathNext]_pathVars PROVE SourceInv'
  OBVIOUS
<1>1. CASE PlaySource
  <2>1. PICK n \in Sizes : Open(n)
    BY <1>1 DEF PlaySource
  <2>2. streams' > 0 /\ produced' = 0 /\ silence' = Silence /\ ~done'
    BY <1>1 DEF PlaySource, PlayNew, PaceInv, StreamOK
  <2> QED BY <2>1, <2>2, OpenKeeps
<1>2. CASE Lead
  <2>1. produced' = produced + 1 /\ silence' = silence - 1 /\ silence > 0
        /\ UNCHANGED <<done, streams, size, left, buffered, cut, failed>>
    BY <1>2 DEF Lead, SilenceFrame, Produce, pcmVars
  <2>2. Items'
    BY <2>1 DEF SourceInv, Items, PcmOK, PaceInv, StreamOK
  <2>3. AtEnd'
    BY <1>2 DEF Lead, SilenceFrame, Due, Produce, AtEnd
  <2> QED BY <2>1, <2>2, <2>3 DEF SourceInv, PcmOK, Bytes
<1>3. CASE Reads
  <2>1. PICK n \in 1..left : Due /\ Fill(n) /\ UNCHANGED vars
    BY <1>3 DEF Reads
  <2>2. n \in Nat /\ left' = left - n /\ buffered' = buffered + n /\ left' \in Nat
        /\ UNCHANGED <<size, cut, failed>>
    BY <2>1 DEF Fill, SourceInv, PcmOK
  <2>3. UNCHANGED <<streams, produced, silence, done>> /\ ~done
    BY <2>1 DEF vars, streamVars, Due
  <2>4. FrameBytes * cut \in Int
    BY DEF SourceInv, PcmOK
  <2>5. Bytes'
    BY <2>2, <2>4 DEF SourceInv, PcmOK, Bytes
  <2> QED BY <2>2, <2>3, <2>5 DEF SourceInv, PcmOK, Items, AtEnd
<1>4. CASE Encodes \/ Refuses
  BY <1>4, CutKeeps DEF Encodes, Refuses, SourceFrame, EncodeError, Produce
<1>5. CASE Fails
  <2>1. failed' = TRUE /\ UNCHANGED <<size, left, buffered, cut>>
    BY <1>5 DEF Fails, ReadFails
  <2> QED BY <2>1 DEF SourceInv, PcmOK, Bytes, Items, AtEnd
<1>6. CASE Waits
  BY <1>6 DEF Waits, SourcePending, Starved, pcmVars, SourceInv, PcmOK, Bytes, Items, AtEnd
<1>7. CASE Ends
  <2>1. UNCHANGED <<size, left, buffered, cut, failed, silence, produced, streams>>
        /\ silence = 0 /\ (left = 0 \/ failed) /\ buffered < FrameBytes
    BY <1>7 DEF Ends, SourceEnds, Exhausted, Enough, pcmVars, SourceInv, PcmOK
  <2> QED BY <2>1 DEF SourceInv, PcmOK, Bytes, Items, AtEnd
<1>8. CASE Elsewhere \/ UNCHANGED pathVars
  <2>1. UNCHANGED <<silence, produced, done, streams, pcmVars>>
    BY <1>8 DEF Elsewhere, pathVars, vars, streamVars, Tick, Stop, PlayAgain, Finished, Send
  <2> QED BY <2>1 DEF pcmVars, SourceInv, PcmOK, Bytes, Items, AtEnd
<1> QED BY <1>1, <1>2, <1>3, <1>4, <1>5, <1>6, <1>7, <1>8 DEF PathNext

(* A stream that ends without a failed read produced its silence frames    *)
(* and every whole frame of its source once, whatever the reads and the    *)
(* stops were (pcm.rs:40-58, opus.rs:80-121, 168-179).                     *)
THEOREM NoFrameLost == PathSpec => []WholeSource
<1>1. SourceInv /\ PaceInv => WholeSource
  <2> SUFFICES ASSUME SourceInv, PaceInv, streams > 0, done, ~failed
               PROVE  produced = Silence + (size \div FrameBytes)
    BY DEF WholeSource
  <2>1. produced = Silence + cut /\ left = 0 /\ buffered < FrameBytes
    BY DEF SourceInv, PcmOK, Items, AtEnd, PaceInv, StreamOK
  <2>2. size = FrameBytes * cut + buffered
    <3>1. FrameBytes * cut \in Int
      BY DEF SourceInv, PcmOK
    <3> QED BY <2>1, <3>1 DEF SourceInv, PcmOK, Bytes
  <2>3. size \div FrameBytes = cut
    BY <2>1, <2>2, WholeFrames DEF SourceInv, PcmOK
  <2> QED BY <2>1, <2>3
<1> QED BY <1>1, SourceInit, SourceStep, PathPace, PTL DEF PathSpec

-----------------------------------------------------------------------------
(* An item that is at most a frame late moves the deadline by a frame.     *)
LEMMA ItemKeepsTime ==
  ASSUME PaceInv, NoDrift, Produce, Slips
  PROVE  NoDrift'
<1> SUFFICES ASSUME ~slipped' PROVE deadline' = start' + produced' * Frame
  BY DEF NoDrift
<1>1. ~slipped /\ now <= deadline + Frame
  <2>1. ~(slipped \/ now > deadline + Frame)
    BY DEF Slips
  <2> QED BY <2>1 DEF PaceInv, StreamOK
<1>2. deadline' = deadline + Frame
  BY <1>1 DEF Produce, NextDeadline, Larger, PaceInv, StreamOK
<1>3. produced' * Frame = produced * Frame + Frame
  BY OneMore DEF Produce, PaceInv, StreamOK
<1>4. produced * Frame \in Int
  BY DEF PaceInv, StreamOK
<1> QED BY <1>1, <1>2, <1>3, <1>4 DEF NoDrift, Produce, PaceInv, StreamOK

(* Late items do not shift the ones after them: as long as none is more    *)
(* than a frame late, a stream is where its age says (opus.rs:180-187).    *)
THEOREM LatenessDoesNotAddUp == PathSpec => []NoDrift
<1>1. PathInit => NoDrift
  <2>1. 0 * Frame = 0
    OBVIOUS
  <2> QED BY <2>1 DEF PathInit, Init, NoDrift
<1>2. NoDrift /\ PaceInv /\ [PathNext]_pathVars => NoDrift'
  <2> SUFFICES ASSUME NoDrift, PaceInv, [PathNext]_pathVars PROVE NoDrift'
    OBVIOUS
  <2>1. CASE PlaySource
    <3>1. 0 * Frame = 0
      OBVIOUS
    <3> QED BY <2>1, <3>1 DEF PlaySource, PlayNew, NoDrift
  <2>2. CASE Lead \/ Encodes \/ Refuses \/ Fails
    BY <2>2, ItemKeepsTime DEF Lead, Encodes, Refuses, Fails, SilenceFrame, SourceFrame,
                               EncodeError
  <2>3. CASE Reads \/ Waits \/ Ends \/ Elsewhere \/ UNCHANGED pathVars
    <3>1. UNCHANGED <<slipped, deadline, start, produced>>
      BY <2>3 DEF Reads, Waits, Ends, SourcePending, SourceEnds, Elsewhere, pathVars, vars,
                  streamVars, Tick, Stop, PlayAgain, Finished, Send
    <3> QED BY <3>1 DEF NoDrift
  <2> QED BY <2>1, <2>2, <2>3 DEF PathNext
<1> QED BY <1>1, <1>2, PathPace, PTL DEF PathSpec
=============================================================================
