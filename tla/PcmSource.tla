------------------------------ MODULE PcmSource ------------------------------
(***************************************************************************)
(* Where a stream's samples come from: the bytes of a file or of an ffmpeg *)
(* process (src/src/voice/source/), read in pieces of any size and cut     *)
(* into frames by PcmCodec (src/src/voice/pcm.rs).  The reading loop is    *)
(* tokio_util's FramedRead: it cuts what it has before it reads, and after *)
(* a failed read it ends.                                                  *)
(***************************************************************************)
EXTENDS Integers

CONSTANT FrameBytes  \* 2 * frame_sample_size

ASSUME PcmSourceAssumption == FrameBytes \in Nat \ {0}

VARIABLES
    size,      \* bytes the source has in all
    left,      \* bytes not read yet
    buffered,  \* bytes read and not cut
    cut,       \* frames cut
    failed     \* a read failed

pcmVars == <<size, left, buffered, cut, failed>>

(* The type invariant.                                                     *)
PcmOK ==
    /\ size \in Nat /\ left \in Nat /\ buffered \in Nat /\ cut \in Nat
    /\ failed \in BOOLEAN

(* FfmpegStream::new, PcmFile::new.                                        *)
Open(n) ==
    /\ size' = n /\ left' = n
    /\ buffered' = 0 /\ cut' = 0 /\ failed' = FALSE

\* Mutant: a frame is cut only when more than a frame is there.
EnoughAndMore == buffered > FrameBytes
Enough == buffered >= FrameBytes

(* A read, made only when there is nothing to cut.                         *)
Fill(n) ==
    /\ ~Enough /\ ~failed /\ n \in 1..left
    /\ left' = left - n /\ buffered' = buffered + n
    /\ UNCHANGED <<size, cut, failed>>

(* decode.                                                                 *)
Cut ==
    /\ Enough
    /\ buffered' = buffered - FrameBytes /\ cut' = cut + 1
    /\ UNCHANGED <<size, left, failed>>

(* Nothing to cut and nothing to read yet.                                 *)
Starved == ~Enough /\ ~failed /\ UNCHANGED pcmVars

ReadFails ==
    /\ ~Enough /\ ~failed
    /\ failed' = TRUE
    /\ UNCHANGED <<size, left, buffered, cut>>

(* decode_eof: an incomplete frame is dropped.                             *)
Exhausted == ~Enough /\ (left = 0 \/ failed) /\ UNCHANGED pcmVars
=============================================================================
