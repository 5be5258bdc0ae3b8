------------------------------ MODULE AudioPath ------------------------------
(***************************************************************************)
(* The whole way of the audio: the bytes of a source (PcmSource), pulled   *)
(* by the encoder when the OpusStream is due (src/src/voice/opus.rs), and  *)
(* what VoiceFrames says of pace, frame channel and packets.               *)
(*                                                                         *)
(* What opus computes is external: a frame is encoded, or refused with an  *)
(* error or for its size.                                                  *)
(***************************************************************************)
EXTENDS VoiceFrames, PcmSource

CONSTANT Sizes  \* bound: sizes of sources

ASSUME AudioPathAssumption == Sizes \subseteq Nat

VARIABLE slipped  \* history: an item of the stream was polled a frame too late

pathVars == <<vars, pcmVars, slipped>>

PathInit ==
    /\ Init
    /\ size = 0 /\ left = 0 /\ buffered = 0 /\ cut = 0 /\ failed = FALSE
    /\ slipped = FALSE

Slips == slipped' = (slipped \/ now > deadline + Frame)

-----------------------------------------------------------------------------
PlaySource ==
    /\ PlayNew /\ \E n \in Sizes : Open(n)
    /\ slipped' = FALSE

(* The five frames before the source is asked.                             *)
Lead == SilenceFrame /\ Slips /\ UNCHANGED pcmVars

(* OpusEncoder::poll_next.                                                 *)
Reads == \E n \in 1..left : Due /\ silence = 0 /\ Fill(n) /\ UNCHANGED <<vars, slipped>>
Encodes == SourceFrame /\ Cut /\ Slips
Refuses == EncodeError /\ Cut /\ Slips
Fails == EncodeError /\ ReadFails /\ Slips
Waits == SourcePending /\ Starved /\ UNCHANGED slipped
Ends == SourceEnds /\ Exhausted /\ UNCHANGED slipped

(* Steps that do not ask the source.                                       *)
Elsewhere ==
    /\ Tick \/ Stop \/ PlayAgain \/ Finished \/ Send
    /\ UNCHANGED <<pcmVars, slipped>>

PathNext == \/ PlaySource \/ Lead \/ Reads \/ Encodes \/ Refuses \/ Fails \/ Waits \/ Ends
            \/ Elsewhere

PathSpec == PathInit /\ [][PathNext]_pathVars

-----------------------------------------------------------------------------
(* A stream that ended without a failed read produced its silence frames   *)
(* and every whole frame of its source, each once, in reads of any size    *)
(* and through any number of stops; only an incomplete last frame is left  *)
(* out (pcm.rs:40-58, opus.rs:80-121, 168-179).                            *)
WholeSource ==
    (streams > 0 /\ done /\ ~failed) =>
        produced = Silence + (size \div FrameBytes)

(* Being late does not add up: as long as no item is polled more than a    *)
(* frame after it was due, the stream is exactly where its age says,       *)
(* however the lateness is spread (opus.rs:180-187).                       *)
NoDrift == ~slipped => deadline = start + produced * Frame
=============================================================================
