----------------------------- MODULE VoiceFrames -----------------------------
(***************************************************************************)
(* The way of an audio frame on one established voice connection: an       *)
(* OpusStream paces the frames of a source (src/src/voice/opus.rs), the    *)
(* player forwards them into a bounded channel                             *)
(* (src/src/voice/player.rs), and the socket numbers and encrypts them     *)
(* with a nonce made of sequence and timestamp (src/src/voice/socket.rs).  *)
(* A stream can be stopped, handed back and played again, or replaced.     *)
(***************************************************************************)
EXTENDS Integers

CONSTANTS
    Frame,        \* duration of a frame
    Silence,      \* SILENCE_FRAME_COUNT
    FrameCap,     \* capacity of the frame channel
    SequenceMod,  \* 2^16 in the code
    TimestampMod, \* 2^32 in the code
    Step,         \* samples per frame, 960 in the code
    Period,       \* frames for which nonces are claimed to differ
    MaxTime,      \* bound: time
    MaxStreams    \* bound: streams

ASSUME VoiceFramesAssumption ==
    /\ Frame \in Nat \ {0} /\ Silence \in Nat /\ FrameCap \in Nat \ {0}
    /\ SequenceMod \in Nat \ {0} /\ TimestampMod \in Nat \ {0} /\ Step \in Nat
    /\ Period \in Nat /\ MaxTime \in Nat /\ MaxStreams \in Nat

VARIABLES
    now,
    playing,    \* the player's encoder holds the stream
    deadline, delayed, silence, done, \* the OpusStream
    frames,     \* frames in the channel
    sequence, timestamp, \* of the next packet
    streams,    \* streams made so far
    \* History, read by no action's guard.
    start,      \* when the stream was made
    produced,   \* items it produced
    previous,   \* when it produced the one before the last
    last,       \* and the last
    sent,       \* packets sent
    nonces      \* their nonces

streamVars == <<deadline, delayed, silence, done, start, produced, previous, last>>
socketVars == <<sequence, timestamp, sent, nonces>>
vars == <<now, playing, streamVars, frames, socketVars, streams>>

StreamOK ==
    /\ now \in Nat
    /\ playing \in BOOLEAN /\ delayed \in BOOLEAN /\ done \in BOOLEAN
    /\ deadline \in Nat /\ silence \in 0..Silence
    /\ start \in Nat /\ produced \in Nat /\ previous \in Int /\ last \in Int
    /\ streams \in Nat

SocketOK ==
    /\ frames \in 0..FrameCap
    /\ sequence \in 0..(SequenceMod - 1) /\ timestamp \in 0..(TimestampMod - 1)
    /\ sent \in Nat
    /\ nonces \subseteq (0..(SequenceMod - 1)) \X (0..(TimestampMod - 1))

(* The type invariant.                                                     *)
TypeOK == StreamOK /\ SocketOK

Init ==
    /\ now = 0 /\ playing = FALSE
    /\ deadline = 0 /\ delayed = FALSE /\ silence = 0 /\ done = TRUE
    /\ start = 0 /\ produced = 0 /\ previous = -Frame /\ last = -Frame
    /\ frames = 0 /\ streams = 0
    /\ sequence = 0 /\ timestamp = 0 /\ sent = 0 /\ nonces = {}

-----------------------------------------------------------------------------
Tick ==
    /\ now < MaxTime
    /\ now' = now + 1
    /\ UNCHANGED <<playing, streamVars, frames, socketVars, streams>>

(* OpusStream::new, at some earlier time, and Play: a new stream is played *)
(* in place of another or of none.                                         *)
PlayNew == \E made \in 0..MaxTime :
    /\ made <= now /\ streams < MaxStreams
    /\ streams' = streams + 1
    /\ playing' = TRUE
    /\ deadline' = made /\ delayed' = FALSE /\ silence' = Silence /\ done' = FALSE
    /\ start' = made /\ produced' = 0
    /\ previous' = made - Frame /\ last' = made - Frame
    /\ UNCHANGED <<now, frames, socketVars>>

(* The stream is handed back, and may be played again later.               *)
Stop ==
    /\ playing
    /\ playing' = FALSE
    /\ UNCHANGED <<now, streamVars, frames, socketVars, streams>>

PlayAgain ==
    /\ ~playing /\ streams > 0
    /\ playing' = TRUE
    /\ UNCHANGED <<now, streamVars, frames, socketVars, streams>>

-----------------------------------------------------------------------------
(* OpusStream::poll_next.                                                  *)

(* The delay is awaited once per item.                                     *)
Due == ~done /\ playing /\ (delayed \/ now >= deadline)

Larger(a, b) == IF a >= b THEN a ELSE b

(* One frame after the last deadline, or now when that has passed: what    *)
(* is left of the frame's duration saturates at zero.                      *)
\* Mutant: it does not, and all that was missed is made up for.
UnsaturatedDeadline == deadline + Frame
\* Mutant: each item is a frame after the one before, however late that was.
DriftingDeadline == now + Frame
NextDeadline == now + Larger(Frame - (now - deadline), 0)

\* Mutant: has_delayed is not reset.
StillDelayed == TRUE
NotDelayed == FALSE

Produce ==
    /\ deadline' = NextDeadline
    /\ delayed' = NotDelayed
    /\ produced' = produced + 1
    /\ previous' = last /\ last' = now
    /\ UNCHANGED <<now, playing, done, start, streams, socketVars>>

(* The player's try_send into the frame channel.                           *)
\* Mutant: off by one.
HasRoomOneMore == frames <= FrameCap
HasRoom == frames < FrameCap
Forward == frames' = IF HasRoom THEN frames + 1 ELSE frames

SilenceFrame ==
    /\ Due /\ silence > 0
    /\ silence' = silence - 1
    /\ Produce /\ Forward

SourceFrame ==
    /\ Due /\ silence = 0
    /\ Produce /\ Forward /\ UNCHANGED silence

(* The source or the encoder fails; the player goes on polling.            *)
EncodeError ==
    /\ Due /\ silence = 0
    /\ Produce /\ UNCHANGED <<silence, frames>>

SourcePending ==
    /\ Due /\ silence = 0 /\ ~delayed
    /\ delayed' = TRUE
    /\ UNCHANGED <<now, playing, deadline, silence, done, start, produced, previous, last,
                   frames, socketVars, streams>>

(* The source ends: the player clears its encoder.                         *)
SourceEnds ==
    /\ Due /\ silence = 0
    /\ done' = TRUE /\ playing' = FALSE /\ delayed' = TRUE
    /\ UNCHANGED <<now, deadline, silence, start, produced, previous, last, frames,
                   socketVars, streams>>

(* A finished stream that is played again ends at once.                    *)
Finished ==
    /\ playing /\ done
    /\ playing' = FALSE
    /\ UNCHANGED <<now, streamVars, frames, socketVars, streams>>

-----------------------------------------------------------------------------
(* The socket's write().                                                   *)

Nonce == <<sequence, timestamp>>

(* wrapping_add.                                                           *)
NextSequence == (sequence + 1) % SequenceMod
\* Mutant: the timestamp is forgotten.
SameTimestamp == timestamp
NextTimestamp == (timestamp + Step) % TimestampMod

Send ==
    /\ frames > 0
    /\ frames' = frames - 1
    /\ sequence' = NextSequence
    /\ timestamp' = NextTimestamp
    /\ sent' = sent + 1
    /\ nonces' = nonces \cup {Nonce}
    /\ UNCHANGED <<now, playing, streamVars, streams>>

-----------------------------------------------------------------------------
Poll == SilenceFrame \/ SourceFrame \/ EncodeError \/ SourcePending \/ SourceEnds \/ Finished

Next == Tick \/ PlayNew \/ Stop \/ PlayAgain \/ Poll \/ Send

Spec == Init /\ [][Next]_vars

-----------------------------------------------------------------------------
(* Properties.                                                             *)

(* A stream never runs ahead of the clock: however late it is polled, and  *)
(* stopped and played again, it has produced no more than one item per     *)
(* frame of its age, and one (opus.rs:163-187).                            *)
Paced == (produced - 1) * Frame <= now - start

(* Lost time is not made up for by a burst: an item comes at least a frame *)
(* after the one before the last (opus.rs:182-187).                        *)
Spaced == [][produced' = produced + 1 => now - previous >= Frame]_vars

(* A packet is encrypted with a nonce no packet before it had, as long as  *)
(* fewer than Period were sent (socket.rs:162-168, 182-183).               *)
NonceFresh == sent < Period => Nonce \notin nonces
=============================================================================
