------------------------------ MODULE Session ------------------------------
(***************************************************************************)
(* The gateway session driver: the task started by Builder::build          *)
(* (src/src/discord.rs), the handshake it performs for every connection    *)
(* (src/src/gateway.rs), and the handles the application holds on it       *)
(* (Discord, Client, Shutdown).                                            *)
(*                                                                         *)
(* start_discord loops over connect: it dials the gateway, opens a new     *)
(* session or resumes the old one, then races a writer (heartbeats,        *)
(* commands, shutdown) against a reader (events, handed to the             *)
(* application's callback) until one of them ends.  The server is external *)
(* and numbers the events of a session 1, 2, ...; event 1 is Ready.        *)
(***************************************************************************)
EXTENDS Integers

CONSTANTS
    MaxSeq,         \* bound: events the server dispatches in one session
    MaxCommands,    \* bound: commands the application gets accepted
    QueueCapacity,  \* buffer of the command channel plus one slot per sender
    Undecodable     \* sequence numbers of events the codec cannot decode

ASSUME SessionAssumption ==
    /\ MaxSeq \in Nat \ {0}
    /\ MaxCommands \in Nat
    /\ QueueCapacity \in Nat \ {0}
    /\ Undecodable \subseteq 2..MaxSeq

VARIABLES
    pc,            \* where the driver task is
    err,           \* what the last connect() returned
    sessionId,     \* is a session id stored?
    sequence,      \* the shared AtomicU64
    isNew,         \* the connector identifies rather than resumes
    resumeSeq,     \* the sequence in the Resume token
    first,         \* event read by the handshake, 0 if it has no number
    finished,      \* the Gateway stream is fused
    reader,        \* "next": awaiting the stream, "callback": awaiting it
    writer,        \* "select", or sending a "heartbeat" or a "command"
    shutdownSeen,  \* the writer's local `shutdown`
    shutdown,      \* the shutdown oneshot: "open", "sent", "dropped", "taken"
    cmdClosed,     \* the command receiver is closed or dropped
    accepted,      \* commands accepted by try_send so far
    taken,         \* commands the writer has popped so far
    init,          \* the init oneshot: "pending", "sent", "dropped"
    discord,       \* the Discord value: "building", "held", "gone", "failed"
    holder,        \* who holds the Shutdown handle: "discord" or "app"
    clone,         \* the application holds clones of the Client
    srvSeq,        \* server: last number dispatched, 0 without a session
    pos,           \* last number that arrived on this connection
    \* History, read by no action's guard.
    handed,        \* numbers of this session given to the callback
    stale,         \* `sequence` was stored for an earlier session
    misresumed,    \* this session was resumed from a stale sequence
    appView,       \* the last connectivity report the callback was given
    sent, lost     \* commands sent, and commands popped but not sent

sessionVars == <<sessionId, sequence>>
attemptVars == <<isNew, resumeSeq, first>>
pumpVars    == <<finished, reader, writer, shutdownSeen>>
chanVars    == <<shutdown, cmdClosed, accepted, taken, init>>
appVars     == <<discord, holder, clone>>
serverVars  == <<srvSeq, pos>>
resumeHist  == <<stale, misresumed>>
sendHist    == <<sent, lost>>
vars == <<pc, err, sessionVars, attemptVars, pumpVars, chanVars, appVars,
          serverVars, handed, resumeHist, appView, sendHist>>

Handshake == {"dial", "hello", "greet", "first"}
Callbacks == {"online", "event", "invalid", "offline"}
Places == {"check", "run", "closing", "failed", "sleep", "stopped"}
              \cup Handshake \cup Callbacks

(* Flags and places.                                                       *)
FlagsOK ==
    /\ pc \in Places
    /\ err \in {"none", "shutdown", "other"}
    /\ sessionId \in BOOLEAN /\ isNew \in BOOLEAN
    /\ finished \in BOOLEAN
    /\ reader \in {"next", "callback"}
    /\ writer \in {"select", "heartbeat", "command"}
    /\ shutdownSeen \in BOOLEAN
    /\ shutdown \in {"open", "sent", "dropped", "taken"}
    /\ cmdClosed \in BOOLEAN
    /\ init \in {"pending", "sent", "dropped"}
    /\ discord \in {"building", "held", "gone", "failed"}
    /\ holder \in {"discord", "app"} /\ clone \in BOOLEAN
    /\ stale \in BOOLEAN /\ misresumed \in BOOLEAN
    /\ appView \in {"none", "online", "offline", "invalid", "refused", "ended"}

(* Counters and sets of numbers: nothing arrives that was not numbered,    *)
(* nothing is popped that was not accepted, and the queue has room.        *)
CountersOK ==
    /\ sequence \in 0..MaxSeq /\ resumeSeq \in 0..MaxSeq /\ first \in 0..MaxSeq
    /\ srvSeq \in 0..MaxSeq /\ pos \in 0..srvSeq
    /\ handed \subseteq 1..MaxSeq
    /\ accepted \in 0..MaxCommands /\ taken \in 0..accepted
    /\ accepted - taken <= QueueCapacity
    /\ writer = "command" => taken > 0
    /\ sent \subseteq 1..MaxCommands /\ lost \subseteq 1..MaxCommands

(* The type invariant.                                                     *)
TypeOK == FlagsOK /\ CountersOK

Init ==
    /\ pc = "check" /\ err = "none"
    /\ sessionId = FALSE /\ sequence = 0
    /\ isNew = TRUE /\ resumeSeq = 0 /\ first = 0
    /\ finished = FALSE /\ reader = "next" /\ writer = "select"
    /\ shutdownSeen = FALSE
    /\ shutdown = "open" /\ cmdClosed = FALSE
    /\ accepted = 0 /\ taken = 0 /\ init = "pending"
    /\ discord = "building" /\ holder = "discord" /\ clone = FALSE
    /\ srvSeq = 0 /\ pos = 0
    /\ handed = {} /\ stale = FALSE /\ misresumed = FALSE
    /\ appView = "none" /\ sent = {} /\ lost = {}

-----------------------------------------------------------------------------
(* Channels.                                                               *)

(* check_shutdown!: try_recv yields the value, or Err once the sender is   *)
(* gone or the writer already took the value; both mean stop.              *)
\* Mutant: only a value that is still in the channel counts.
ObservedValueOnly == shutdown = "sent"
Observed == shutdown # "open"

HasClient == discord \in {"building", "held"} \/ clone

(* Receiver::next is None only when the buffer is drained and either side  *)
(* closed the channel.                                                     *)
\* Mutant: close() discards what is buffered.
QueueEndedUndrained == cmdClosed \/ (taken = accepted /\ ~HasClient)
QueueEnded == taken = accepted /\ (cmdClosed \/ ~HasClient)

\* Mutant: off by one.
HasRoomOneMore(queued) == queued <= QueueCapacity
HasRoom(queued) == queued < QueueCapacity

-----------------------------------------------------------------------------
(* start_discord and the handshake of connect.                             *)

(* The sequence a resuming connector puts in its token.                    *)
\* Mutant: the number expected next instead of the last one seen.
ResumePointNext == IF sequence < MaxSeq THEN sequence + 1 ELSE sequence
ResumePoint == sequence

(* Leaving the loop drops both receivers and a still unused init_send, and *)
(* calls callback(None) without awaiting the future it returns.            *)
StopDriver ==
    /\ pc' = "stopped"
    /\ cmdClosed' = TRUE
    /\ init' = IF init = "pending" THEN "dropped" ELSE init
    /\ appView' = "ended"

CheckStop ==
    /\ pc = "check" /\ Observed
    /\ StopDriver
    /\ UNCHANGED <<err, sessionVars, attemptVars, pumpVars, shutdown, accepted,
                   taken, appVars, serverVars, handed, resumeHist, sendHist>>

CheckConnect ==
    /\ pc = "check" /\ ~Observed
    /\ pc' = "dial"
    /\ isNew' = ~sessionId
    /\ resumeSeq' = IF sessionId THEN ResumePoint ELSE 0
    /\ first' = 0
    /\ UNCHANGED <<err, sessionVars, pumpVars, chanVars, appVars, serverVars,
                   handed, resumeHist, appView, sendHist>>

(* connect_async within 5 s, then Hello, then Identify or Resume is sent.  *)
Advance(from, to) ==
    /\ pc = from
    /\ pc' = to
    /\ UNCHANGED <<err, sessionVars, attemptVars, pumpVars, chanVars, appVars,
                   serverVars, handed, resumeHist, appView, sendHist>>

Dial  == Advance("dial", "hello")
Hello == Advance("hello", "greet")

Greet ==
    /\ pc = "greet"
    /\ pc' = "first"
    /\ misresumed' = (misresumed \/ (~isNew /\ stale))
    /\ UNCHANGED <<err, sessionVars, attemptVars, pumpVars, chanVars, appVars,
                   serverVars, handed, stale, appView, sendHist>>

(* Timeout, refused connection, closed stream, undecodable or unexpected   *)
(* event: `?` leaves connect() before any callback of this attempt.        *)
HandshakeFails ==
    /\ pc \in Handshake
    /\ pc' = "failed" /\ err' = "other"
    /\ UNCHANGED <<sessionVars, attemptVars, pumpVars, chanVars, appVars,
                   serverVars, handed, resumeHist, appView, sendHist>>

(* A connection that is being set up: split() gives fresh halves.          *)
FreshPump ==
    /\ finished' = FALSE /\ reader' = "next" /\ writer' = "select"
    /\ shutdownSeen' = FALSE

(* Ready opens session numbering at 1; its own number is dropped by        *)
(* read_event! and `sequence` keeps whatever an earlier session left.      *)
SequenceAtReady == sequence

(* init_send.take(): the first Ready answers build().                      *)
\* Mutant: nothing is sent.
InitUnsent == init
InitAtReady == IF init = "pending" THEN "sent" ELSE init

FirstReady ==
    /\ pc = "first" /\ isNew
    /\ pc' = "online" /\ appView' = "online"
    /\ sessionId' = TRUE /\ sequence' = SequenceAtReady
    /\ srvSeq' = 1 /\ pos' = 1
    /\ init' = InitAtReady
    /\ FreshPump
    /\ stale' = (SequenceAtReady # 0) /\ misresumed' = FALSE /\ handed' = {}
    /\ UNCHANGED <<err, attemptVars, shutdown, cmdClosed, accepted, taken,
                   appVars, sendHist>>

(* The stored session id once the server invalidated it.                   *)
\* Mutant: it is kept and resumed again.
SessionKept == TRUE
SessionAfterInvalid == FALSE

FirstInvalid ==
    /\ pc = "first" /\ ~isNew
    /\ pc' = "invalid" /\ appView' = "invalid"
    /\ sessionId' = SessionAfterInvalid
    /\ srvSeq' = 0 /\ pos' = 0
    /\ UNCHANGED <<err, sequence, attemptVars, pumpVars, chanVars, appVars,
                   handed, resumeHist, sendHist>>

(* The server replays what follows the token's sequence; Ready itself is   *)
(* never replayed.                                                         *)
ReplayFrom == IF resumeSeq = 0 THEN 1 ELSE resumeSeq

(* read_event! keeps payload.event only, so the number of the first missed *)
(* event never reaches `sequence`.                                         *)
SequenceAtFirst(n) == sequence

FirstMissed ==
    /\ pc = "first" /\ ~isNew
    /\ ReplayFrom < srvSeq /\ ReplayFrom + 1 \notin Undecodable
    /\ pc' = "online" /\ appView' = "online"
    /\ first' = ReplayFrom + 1 /\ pos' = ReplayFrom + 1
    /\ sequence' = SequenceAtFirst(ReplayFrom + 1)
    /\ FreshPump
    /\ UNCHANGED <<err, sessionId, isNew, resumeSeq, chanVars, appVars, srvSeq,
                   handed, resumeHist, sendHist>>

FirstResumed ==
    /\ pc = "first" /\ ~isNew /\ ReplayFrom = srvSeq
    /\ pc' = "online" /\ appView' = "online"
    /\ first' = 0 /\ pos' = srvSeq
    /\ FreshPump
    /\ UNCHANGED <<err, sessionVars, isNew, resumeSeq, chanVars, appVars, srvSeq,
                   handed, resumeHist, sendHist>>

(* callback(Online) returned Ok: a new session starts to run, a resumed    *)
(* one first hands out the event the handshake read.                       *)
OnlineDone ==
    /\ pc = "online"
    /\ pc' = IF isNew THEN "run" ELSE "event"
    /\ handed' = IF first = 0 THEN handed ELSE handed \cup {first}
    /\ UNCHANGED <<err, sessionVars, attemptVars, pumpVars, chanVars, appVars,
                   serverVars, resumeHist, appView, sendHist>>

FirstEventDone == Advance("event", "run")

(* SessionInvalidated was handed out, or Offline was: connect() returns    *)
(* the error it had.                                                       *)
ReportDone ==
    /\ pc \in {"invalid", "offline"}
    /\ pc' = "failed" /\ err' = IF pc = "invalid" THEN "other" ELSE err
    /\ UNCHANGED <<sessionVars, attemptVars, pumpVars, chanVars, appVars,
                   serverVars, handed, resumeHist, appView, sendHist>>

(* The application's callback returned Err: `?` leaves connect() at once,  *)
(* after Online without an Offline.                                        *)
CallbackFails ==
    /\ pc \in Callbacks
    /\ pc' = "failed"
    /\ err' \in {"shutdown", "other"}
    /\ appView' = IF pc \in {"online", "event"} THEN "refused" ELSE appView
    /\ UNCHANGED <<sessionVars, attemptVars, pumpVars, chanVars, appVars,
                   serverVars, handed, resumeHist, sendHist>>

-----------------------------------------------------------------------------
(* The running connection: select! over the write and the read future.     *)

(* A Shutdown error goes on to the close frame, any other to               *)
(* callback(Offline).                                                      *)
\* Mutant: the error is returned without reporting Offline.
AfterRunSilent(e) == IF e = "shutdown" THEN "closing" ELSE "failed"
AfterRun(e) == IF e = "shutdown" THEN "closing" ELSE "offline"

(* Either future returned Err(e).  The other one is dropped where it is:   *)
(* a command the writer was still sending is lost.                         *)
EndRun(e) ==
    /\ err' = e
    /\ pc' = AfterRun(e)
    /\ appView' = IF AfterRun(e) = "offline" THEN "offline" ELSE appView
    /\ lost' = IF writer = "command" THEN lost \cup {taken} ELSE lost
    /\ writer' = "select" /\ reader' = "next"

(* read() stores the number before it calls the callback.                  *)
\* Mutant: the number is never stored.
StoredNever(n) == sequence
StoredSequence(n) == n

\* Mutant: the stream is not fused.
ReadingUnfused == pc = "run" /\ reader = "next"
Reading == pc = "run" /\ reader = "next" /\ ~finished

ReadDispatch ==
    /\ Reading /\ pos < srvSeq /\ pos + 1 \notin Undecodable
    /\ pos' = pos + 1
    /\ sequence' = StoredSequence(pos + 1)
    /\ handed' = handed \cup {pos + 1}
    /\ reader' = "callback"
    /\ stale' = FALSE
    /\ UNCHANGED <<pc, err, sessionId, attemptVars, finished, writer, shutdownSeen,
                   chanVars, appVars, srvSeq, misresumed, appView, sendHist>>

(* A decode error is logged and skipped.                                   *)
ReadUndecodable ==
    /\ Reading /\ pos < srvSeq /\ pos + 1 \in Undecodable
    /\ pos' = pos + 1
    /\ UNCHANGED <<pc, err, sessionVars, attemptVars, pumpVars, chanVars, appVars,
                   srvSeq, handed, resumeHist, appView, sendHist>>

(* HeartbeatAck, Reconnect and the like: handed out, nothing stored.       *)
ReadUnnumbered ==
    /\ Reading
    /\ reader' = "callback"
    /\ UNCHANGED <<pc, err, sessionVars, attemptVars, finished, writer, shutdownSeen,
                   chanVars, appVars, serverVars, handed, resumeHist, appView,
                   sendHist>>

(* A WebSocket error fuses the stream; read() only logs it.                *)
ReadBroken ==
    /\ Reading
    /\ finished' = TRUE
    /\ UNCHANGED <<pc, err, sessionVars, attemptVars, reader, writer, shutdownSeen,
                   chanVars, appVars, serverVars, handed, resumeHist, appView,
                   sendHist>>

(* A close frame or the end of the stream.                                 *)
ReaderEnds ==
    /\ pc = "run" /\ reader = "next"
    /\ EndRun("other")
    /\ UNCHANGED <<sessionVars, attemptVars, finished, shutdownSeen, chanVars,
                   appVars, serverVars, handed, resumeHist, sent>>

EventHandled ==
    /\ pc = "run" /\ reader = "callback"
    /\ reader' = "next"
    /\ UNCHANGED <<pc, err, sessionVars, attemptVars, finished, writer, shutdownSeen,
                   chanVars, appVars, serverVars, handed, resumeHist, appView,
                   sendHist>>

EventRefused ==
    /\ pc = "run" /\ reader = "callback"
    /\ \E e \in {"shutdown", "other"} : EndRun(e)
    /\ UNCHANGED <<sessionVars, attemptVars, finished, shutdownSeen, chanVars,
                   appVars, serverVars, handed, resumeHist, sent>>

Selecting == pc = "run" /\ writer = "select"

(* One command is popped at a time.                                        *)
\* Mutant: everything ready is popped and the last one kept.
PoppedAll == accepted
Popped == taken + 1

Tick ==
    /\ Selecting
    /\ writer' = "heartbeat"
    /\ UNCHANGED <<pc, err, sessionVars, attemptVars, finished, reader, shutdownSeen,
                   chanVars, appVars, serverVars, handed, resumeHist, appView,
                   sendHist>>

TakeCommand ==
    /\ Selecting /\ taken < accepted
    /\ writer' = "command" /\ taken' = Popped
    /\ UNCHANGED <<pc, err, sessionVars, attemptVars, finished, reader, shutdownSeen,
                   shutdown, cmdClosed, accepted, init, appVars, serverVars, handed,
                   resumeHist, appView, sendHist>>

(* The command stream ended: the writer's exit depends on its local flag.  *)
CommandsGone ==
    /\ Selecting /\ QueueEnded
    /\ EndRun(IF shutdownSeen THEN "shutdown" ELSE "other")
    /\ UNCHANGED <<sessionVars, attemptVars, finished, shutdownSeen, chanVars,
                   appVars, serverVars, handed, resumeHist, sent>>

(* The oneshot resolved, by a value or by the loss of its sender: close    *)
(* the queue and keep draining it.  Polled again it is ready again, which  *)
(* changes nothing.                                                        *)
SeeShutdown ==
    /\ Selecting /\ shutdown # "open" /\ ~shutdownSeen
    /\ shutdownSeen' = TRUE /\ cmdClosed' = TRUE
    /\ shutdown' = IF shutdown = "sent" THEN "taken" ELSE shutdown
    /\ UNCHANGED <<pc, err, sessionVars, attemptVars, finished, reader, writer,
                   accepted, taken, init, appVars, serverVars, handed, resumeHist,
                   appView, sendHist>>

SendDone ==
    /\ pc = "run" /\ writer # "select"
    /\ writer' = "select"
    /\ sent' = IF writer = "command" THEN sent \cup {taken} ELSE sent
    /\ UNCHANGED <<pc, err, sessionVars, attemptVars, finished, reader, shutdownSeen,
                   chanVars, appVars, serverVars, handed, resumeHist, appView, lost>>

SendFails ==
    /\ pc = "run" /\ writer # "select"
    /\ EndRun("other")
    /\ UNCHANGED <<sessionVars, attemptVars, finished, shutdownSeen, chanVars,
                   appVars, serverVars, handed, resumeHist, sent>>

(* gateway.shutdown(): a close frame, its result ignored.                  *)
Closing == Advance("closing", "failed")

(* connect() returned: a Shutdown error or an observed shutdown stops the  *)
(* driver, anything else sleeps for three seconds.                         *)
FailedStop ==
    /\ pc = "failed" /\ (err = "shutdown" \/ Observed)
    /\ StopDriver
    /\ UNCHANGED <<err, sessionVars, attemptVars, pumpVars, shutdown, accepted,
                   taken, appVars, serverVars, handed, resumeHist, sendHist>>

FailedRetry == err # "shutdown" /\ ~Observed /\ Advance("failed", "sleep")

Sleep == Advance("sleep", "check")

-----------------------------------------------------------------------------
(* The application's side.                                                 *)

driverVars == <<pc, err, sessionVars, attemptVars, pumpVars, cmdClosed, taken,
                init, handed, resumeHist, appView, sendHist>>

(* Dropping the sender end; a send that came first stands.                 *)
SenderGone == IF shutdown = "open" THEN "dropped" ELSE shutdown

BuildOk ==
    /\ discord = "building" /\ init = "sent"
    /\ discord' = "held"
    /\ UNCHANGED <<driverVars, shutdown, accepted, holder, clone, serverVars>>

(* The caller drops the build() future, and with it the Client and the     *)
(* Shutdown handle; init_recv failing has the same effect.                 *)
BuildDropped ==
    /\ discord = "building"
    /\ discord' = "failed" /\ shutdown' = SenderGone
    /\ UNCHANGED <<driverVars, accepted, holder, clone, serverVars>>

TakeShutdown ==
    /\ discord = "held" /\ holder = "discord"
    /\ holder' = "app"
    /\ UNCHANGED <<driverVars, shutdown, accepted, discord, clone, serverVars>>

(* Shutdown::send consumes the handle; it returns false when the receiver  *)
(* is gone.                                                                *)
SendShutdown ==
    /\ holder = "app" /\ shutdown = "open"
    /\ shutdown' = IF pc = "stopped" THEN "dropped" ELSE "sent"
    /\ UNCHANGED <<driverVars, accepted, appVars, serverVars>>

DropShutdown ==
    /\ holder = "app" /\ shutdown = "open"
    /\ shutdown' = "dropped"
    /\ UNCHANGED <<driverVars, accepted, appVars, serverVars>>

(* Discord::handle(self), or just dropping it: the Client inside goes, and *)
(* the Shutdown handle if it was never taken.  The task keeps running.     *)
DropDiscord ==
    /\ discord = "held"
    /\ discord' = "gone"
    /\ shutdown' = IF holder = "discord" THEN SenderGone ELSE shutdown
    /\ UNCHANGED <<driverVars, accepted, holder, clone, serverVars>>

CloneClient ==
    /\ discord = "held" /\ ~clone
    /\ clone' = TRUE
    /\ UNCHANGED <<driverVars, shutdown, accepted, discord, holder, serverVars>>

DropClones ==
    /\ clone
    /\ clone' = FALSE
    /\ UNCHANGED <<driverVars, shutdown, accepted, discord, holder, serverVars>>

(* request_guild_members, update_voice_state: try_send.  A refused command *)
(* leaves no trace.                                                        *)
TrySend ==
    /\ discord = "held" \/ clone
    /\ accepted < MaxCommands
    /\ ~cmdClosed /\ HasRoom(accepted - taken)
    /\ accepted' = accepted + 1
    /\ UNCHANGED <<driverVars, shutdown, appVars, serverVars>>

(* External: the server numbers another event, connected or not.           *)
Dispatch ==
    /\ srvSeq \in 1..(MaxSeq - 1)
    /\ srvSeq' = srvSeq + 1
    /\ UNCHANGED <<driverVars, shutdown, accepted, appVars, pos>>

-----------------------------------------------------------------------------
(* The reader's and the writer's alternatives, and the whole system.       *)

Read == ReadDispatch \/ ReadUndecodable \/ ReadUnnumbered \/ ReadBroken \/ ReaderEnds
Write == Tick \/ TakeCommand \/ CommandsGone \/ SeeShutdown \/ SendDone \/ SendFails
FirstEvent == FirstReady \/ FirstInvalid \/ FirstMissed \/ FirstResumed
Connecting == Dial \/ Hello \/ Greet \/ FirstEvent \/ HandshakeFails
Reporting == OnlineDone \/ FirstEventDone \/ ReportDone \/ CallbackFails
Looping == CheckStop \/ CheckConnect \/ Closing \/ FailedStop \/ FailedRetry \/ Sleep
Handling == EventHandled \/ EventRefused
App == \/ BuildOk \/ BuildDropped \/ TakeShutdown \/ SendShutdown
       \/ DropShutdown \/ DropDiscord \/ CloneClient \/ DropClones \/ TrySend

(* A stopped driver is the end of the system, not a deadlock.              *)
Terminated == pc = "stopped" /\ discord # "building" /\ UNCHANGED vars

Next == \/ Looping \/ Connecting \/ Reporting
        \/ Read \/ Handling \/ Write
        \/ App \/ Dispatch \/ Terminated

Spec == Init /\ [][Next]_vars

(***************************************************************************)
(* Fairness.  The driver is one tokio task: a step of its own that stays   *)
(* possible is taken, sleeps and the dial timeout elapse, the futures the  *)
(* application's callback returns complete, and a send completes or fails. *)
(* select! polls its branches in random order, so a branch that is ready   *)
(* again and again is taken: strong fairness for the writer's branches.    *)
(* Hello and the first event have no timeout: WF on Connecting assumes the *)
(* peer answers or the connection breaks.                                  *)
(***************************************************************************)
Fairness ==
    /\ WF_vars(Looping) /\ WF_vars(Reporting) /\ WF_vars(Connecting)
    /\ WF_vars(Handling) /\ WF_vars(finished /\ ReaderEnds)
    /\ WF_vars(SendDone \/ SendFails)
    /\ SF_vars(SeeShutdown) /\ SF_vars(TakeCommand) /\ SF_vars(CommandsGone)
    /\ WF_vars(BuildOk)

FairSpec == Spec /\ Fairness

(* A reachable server: attempts do not fail for ever at any one step.      *)
ReachableServer ==
    SF_vars(Dial) /\ SF_vars(Hello) /\ SF_vars(Greet) /\ SF_vars(FirstEvent)

-----------------------------------------------------------------------------
(* Safety.                                                                 *)

Seen(upTo) == \A n \in 2..upTo : n \in handed \cup Undecodable

(* No event is skipped by a resume: everything up to the stored sequence   *)
(* (what the next Resume tells the server we have) was handed to the       *)
(* callback or could not be decoded.  connect()/read(), discord.rs:221-243 *)
(* and 316-337.  Excluded: a sequence left over from an earlier session.   *)
NoGap == (sessionId /\ ~stale /\ ~misresumed) => Seen(sequence)

(* Only the event a resumed handshake hands out can be a duplicate: what   *)
(* read() delivers (discord.rs:321-337) was never delivered before in the  *)
(* session, whatever mix of resumes and lost sequences came before.        *)
ReadNeverRepeats == [][(pc = "run" /\ pos' # pos) => pos' \notin handed]_vars

(* Every popped command is accounted for: sent, lost with the connection   *)
(* that broke under it, or the one in the writer's hands; none is in two   *)
(* of these (discord.rs:288-306, 250-264).                                 *)
InFlight == IF pc = "run" /\ writer = "command" THEN {taken} ELSE {}

CommandsAccounted ==
    /\ 1..taken = sent \cup lost \cup InFlight
    /\ sent \cap lost = {} /\ InFlight \cap (sent \cup lost) = {}

(* A graceful stop drains: when the writer ends the connection for a       *)
(* shutdown, no accepted command is still queued or in its hands, and none *)
(* can be accepted any more (discord.rs:299-313).  A callback that returns *)
(* Err(Shutdown) also closes, without draining; with the reader at "next"  *)
(* it was not the callback.                                                *)
GracefulDrain ==
    [][(pc = "run" /\ pc' = "closing" /\ reader = "next")
          => taken = accepted /\ cmdClosed' /\ 1..accepted = sent' \cup lost]_vars

(* The application's view: Online never follows Online without an Offline  *)
(* between, Offline and SessionInvalidated never come unannounced, nothing *)
(* comes after the final None.  An application that refuses Online or the  *)
(* first event gets no Offline for it (discord.rs:234-243, 208, 271).      *)
ReportOrder ==
    [][/\ (pc = "first" /\ pc' = "online") => appView \in {"none", "offline", "invalid", "refused"}
       /\ (pc' = "offline" /\ pc # "offline") => appView = "online"
       /\ (pc' = "invalid" /\ pc # "invalid") => appView \in {"offline", "refused"}
       /\ appView = "ended" => appView' = "ended"]_vars

(* Once a shutdown is sent or its handle is lost, no further connection is *)
(* attempted, also when the writer consumed the oneshot and the reader     *)
(* ended the connection first (discord.rs:25-32, 186-207).                 *)
NoDialAfterShutdown == [][(pc # "dial" /\ pc' = "dial") => shutdown = "open"]_vars

(* build() can only wait, never fail, on the gateway: no driver stops      *)
(* under a build() it has not answered, also when the application's        *)
(* callback asks for the stop at its first Online (discord.rs:104-106,     *)
(* 228-234).                                                               *)
BuildNeverRefused == discord = "building" => init # "dropped"

(* gateway.rs:209-213: what a resumed session receives first is "the first *)
(* missed event since our disconnect", so not one that was handed out.     *)
ResumedEventWasMissed == (pc = "online" /\ ~isNew) => first \notin handed

(* The same comment: it is the first missed event, so all before it were   *)
(* handed out (in an instance without undecodable events).                 *)
FirstMissedIsNext == (pc = "online" /\ ~isNew /\ first # 0) => Seen(first - 1)

-----------------------------------------------------------------------------
(* Liveness.                                                               *)

(* A shutdown, sent or implied by dropping the handle, stops the driver    *)
(* wherever it is (discord.rs:25-32, 188, 202-205, 299-313).               *)
ShutdownCompletes == (shutdown # "open") ~> (pc = "stopped")

(* A broken stream ends the connection: read() does not spin on the error  *)
(* it skips (gateway.rs:275-294, discord.rs:330-333).                      *)
BrokenStreamEnds == (pc = "run" /\ finished) ~> (pc # "run")

(* With a reachable server and decodable events the driver gets back       *)
(* online after any failure, a lost session included (discord.rs:186-243). *)
BackOnline == ReachableServer => ((pc = "sleep") ~> (pc \in {"online", "stopped"}))

(* With a reachable server build() resolves (discord.rs:90-115).           *)
BuildResolves == ReachableServer => ((discord = "building") ~> (discord # "building"))
=============================================================================
