# discord-async-rs in TLA+

TLA+ models of the library, the TLC runs that check them on small instances, and
theorems about them that TLAPS checks for every value of the constants.
Paths such as `discord.rs:221` are relative to `src/src/`.

## Inventory

The library is a set of tokio tasks that share nothing but channels. What a task
knows of another is a message, a full channel, or a closed one.

| component | state | operations | talks to |
|---|---|---|---|
| gateway session driver, `discord.rs` | session id, shared `sequence`, the connection, shutdown flag | `start_discord` loop, `connect`, `read`, `write`, `Builder::build`, `Discord`, `Shutdown` | server (WebSocket), application (callback), `Client` (command channel) |
| gateway handshake and stream, `gateway.rs`, `codec/` | connector token, fused stream | `Connector::connect`, `Gateway::poll_next`, decode, close | the driver |
| command channel of `Client`, `client.rs` | bounded channel | `request_guild_members`, `update_voice_state` (`try_send`) | the writer |
| HTTP client, `client.rs` | none of its own; a call's future | one request per call, `check_response_code`, `decode` | Discord's HTTP API |
| guild cache, `guild.rs` | roles, channels, members, commands | `new`, `update`, `load_commands`, `next` | event stream, HTTP, `Client` |
| voice player, `voice/player.rs` | state, wished channel, credentials, connection, stream, timer | updates, controls, connection events, encoder, timeout | application, gateway, voice connection |
| voice connection, `voice/connection.rs` | state, our address, key sender | gateway and socket events | player, voice gateway, socket |
| voice gateway, `voice/gateway.rs` | WebSocket, reader and writer | handshake, `read`, `write` | voice server, voice connection |
| voice socket, `voice/socket.rs` | key, frame channel, sequence, timestamp | discovery, `read`, `write` | voice server, voice connection, player |
| opus stream, `voice/opus.rs` | deadline, delay, silence frames | `poll_next` | player, PCM source |
| PCM sources, `voice/pcm.rs`, `voice/source/` | buffered bytes | `poll_next` | ffmpeg, files |
| interactions, `interaction.rs` | the parts of a response | build, clone, send or spawn it | HTTP client |
| error and re-export surface, `lib.rs`, `voice.rs` | none | | |
| `message.rs` | | not compiled (commented out in `lib.rs`) | |

What makes each of them hard, and what makes it correct:

- **Session driver.** Connections break at every step of the handshake and of the
  pump; sessions are resumed or lost; shutdown arrives anywhere and is a one-shot
  that two places consume; reader and writer race and the loser is dropped in the
  middle of a callback. Correct: a resume of a session with a sequence of its own
  skips nothing, `read` repeats nothing, every command is accounted for, the reports to
  the application are in order, a shutdown always stops the driver, a reachable server always gets it back online.
- **Player.** Five inputs in random order, and an external party (Discord) that
  echoes our own requests late and moves or kicks us. Correct: connection,
  credentials, stream and timer agree with the state; the listener's picture of the
  player is true; we end up where Discord has us; an attempt ends; a final
  Disconnect leaves the channel.
- **Voice connection, gateway, socket.** Three tasks whose end is seen only through
  channels. Correct: audio starts only after discovery, protocol selection and key;
  the frame sender is never lost; an abandoned or ended connection leaves no task.
- **Player and its connections.** A connection is let go of by dropping a channel's end;
  its tasks outlive that, and may still come up while a successor is set up. Correct: audio goes
  to the current connection only, an idle player has left its channel, and dropping the handles
  ends everything.
- **PCM sources, opus stream and packets.** Correct: no whole frame is lost however the
  bytes arrive, the pace is kept, small delays do not add up, a long one is followed by
  no burst, and no nonce is used twice.
- **HTTP calls and interactions.** A call can be dropped, time out, or be answered by an
  error although it was carried out. Correct: what a result says of the call's effect is
  true and stays true; an interaction is answered by one draft as a whole.
- **Guild cache.** A cache fed by an ordered stream that may repeat, started from two
  snapshots taken at different times. Correct: it converges.

The behaviours that a test hardly reaches are listed, with their lines, in
`PROJECT.json` under `hazards`, each with the properties that watch over it or the
reason why none does.

## Modules

| module | what it is |
|---|---|
| `Session` | driver task, handshake, the application's handles; the server's numbering is environment |
| `MCSession` | TLC instances |
| `Session_proofs` | theorems about `Session` |
| `Player` | the player task; Discord, the application and the connection are environment |
| `MCPlayer`, `Player_proofs` | instances, theorems |
| `VoiceLink` | abstract contract of a voice connection: offers one frame sender, ends once, goes on unheard until it notices |
| `VoiceConnection` | connection, voice gateway and socket task; implements `VoiceLink` |
| `MCVoiceConnection`, `VoiceConnection_proofs` | instances, theorems |
| `VoiceSystem` | `Player` over the connections it spawns one after another, each a `VoiceLink` |
| `MCVoiceSystem`, `VoiceSystem_proofs` | instance, theorems |
| `VoiceFrames` | pacing, frame channel and packet numbering on an established connection |
| `VoiceFrames_proofs` | theorems |
| `PcmSource` | a byte source cut into frames |
| `AudioPath` | `PcmSource` pulled by the encoder and paced and sent as `VoiceFrames` says |
| `MCAudioPath`, `AudioPath_proofs` | instance, theorems |
| `Guild`, `MCGuild`, `Guild_proofs` | the cache and the guild it mirrors; instance, theorems |
| `RemoteCall` | abstract contract of one call on a remote service |
| `Requests` | HTTP calls and responses to interactions; implements `RemoteCall` for each call |
| `MCRequests`, `Requests_proofs` | instance, theorems |

### Session

`pc` is where the task stands: `check` (loop head), `dial`, `hello`, `greet`, `first`
(handshake), `online`, `event`, `invalid`, `offline` (awaiting the callback), `run`
(the `select` of `read` and `write`), `closing`, `failed`, `sleep`, `stopped`. In `run`
the two futures have a place of their own, `reader` and `writer`. An action ends at the
next `await`. `sequence` is the shared `AtomicU64`. The oneshot for the shutdown has
the states `open`, `sent`, `dropped`, `taken`; `check_shutdown!` stops for all but
`open` (`Observed`). Commands are numbered by the order they are accepted in, so the
channel is the pair `accepted`, `taken`. The server numbers events `1, 2, ...` per
session, 1 being Ready, and replays from a resume's sequence. `handed`, `stale`,
`misresumed`, `appView`, `sent`, `lost` are history that no guard reads.

`Undecodable` are events that the codec rejects: `read` logs and skips them.

### Player

The task's fields are variables of the same meaning; `conn` is `conn_event_recv`. An
`emit_event` that finds its channel full puts the event into `outbox`, where the task
waits (`Deliver`) and then makes the voice state request that follows it (`Proceed`);
this keeps the order "event, then request" of the code, and the other order of the
timeout. Gateway updates pass through the application's `Updater::try_send`, which
drops at a full channel (`missed`).

`DropHandles` drops the Updater and the Controllers together: both channels' ends have
the same effect, the `item!` return.

### VoiceConnection and VoiceLink

One action per event of the connection task and per step of the gateway's and the
socket's task. Channels are sequences with the length the code gives them as
`EventCap`; the two that carry at most two messages in a connection's life
(`toPlayer`, `commands`) have no guard, and `TypeOK` shows that none is needed.
Leaving the loop (`Break`) drops everything `run` owned. A send to a task that is gone
fails, and what the code does with the failure is in the action.

The model takes the close handshake of the WebSocket as one step: when the writer
closes it, the reader's stream ends.

`VoiceLink` is what the player may rely on: where the frame sender is that it could get at,
how far the tasks are from their end, and whether it still listens. `Reachable` and `Tasks`
are the refinement mapping.

### VoiceSystem

Every connection the player spawns has a frame sender and tasks of its own, which move by
`VoiceLink` (`Connection`) whether the player listens to it or has let go of it. Every step of
`Player` is taken together with `Follow`, which says what it means for the connections: a spawn
makes the next one and listens to it (`source`); a frame sender is taken from the channel of the
one it listens to, and only if that offered it; a channel or `voice_send` that is dropped takes
the frame sender in it along; the end of the event stream is seen only when that is drained and
closed. `Follow` may only forbid a step of the player, never add one, so the theorems about
`Player` hold here (`PlayerIsPlayer`).

`AudioIsCurrent` is what the player owes to its listeners: `conn_event_recv`, `voice_send`, the
credentials and what each connection does on its own agree on one connection, the one made since
credentials were last given up (`before`). A `clear_connection` that left the old event channel
in place lets the old connection come up in place of the new one.

### VoiceFrames

A clock, one stream at a time, the channel as a count. The frame channel is emptied by
the socket; `Stop`, `PlayAgain` and `PlayNew` are the player's. `Instant` and `Duration`
are integers of one unit. The player polls a stream that is due at any later time.

### PcmSource and AudioPath

The source is its number of bytes; a read takes any part of what is left, or fails, or
is not ready. `FramedRead` of tokio_util is external: it cuts while it can, then reads, and
ends after a failed read. `Cut` is `PcmCodec::decode`. In `AudioPath` the encoder's step and the
source's are one (`Encodes`, `Refuses`, `Fails`, `Waits`, `Ends`), as `poll_next`
calls go through; reads in between are steps of their own. Stopping a stream keeps its
source, so it goes on where it was.

### Requests

A call is built, sent, reading its answer's body, done or dropped; its request travels,
is handled or is lost. Handling is independent of what became of the caller. Answers are a
status and whether the body is what was expected, a described error, or neither. `Finish`
gives the result of `check_response_code` and `decode`; `BrokenOff` is that an error whose
body does not arrive is told by its status. Contents are data, but for the parts of a
response to an interaction, where `send` decides what goes on the wire (`Carried`).

Statuses are those that `From<reqwest::Error>` tells apart and any 5xx. The model assumes
that Discord did nothing when it declines with a 4xx, and says "not found" of a
message only when it is deleted. A failure (5xx) leaves open what was done.

### Guild

Roles and channels are a version number, members the set of their roles. Every change
of the guild is an event in `feed`, in order. An event may be delivered twice in a row,
which is what `ResumedEventWasMissed` finds in Session. A lost session cuts the feed
and a new GuildCreate follows; `unheard`, `left` and `stale` are history of what was cut,
so that the invariants say exactly what a lost session can spoil. A GuildUpdate is assumed to carry channels and roles:
what `discord_types` decodes from it is outside this repository.

`Load` takes the command list at the moment the HTTP answer is handled. A list taken
earlier is the same run with the changes in between reported after it: the cache reads
no event before.

## Runs

| run | instance | states | shows |
|---|---|---|---|
| `session_safety` | 5 events, the fourth undecodable, 3 commands, capacity 2 | 2.4M | no gap but for a sequence of another session, no repeat by `read`, ledger of commands, graceful drain, order of reports, no dial after shutdown, `build` never refused |
| `session_live` | 2 events, 1 command | 49k | shutdown completes, a broken stream ends the connection; with a reachable server back online after every failure, `build` resolves |
| `session_duplicate`, `session_gap` | 4 events | | the two findings on the first event of a resumed connection |
| `player_safety` | 2 channels, all news, 3 controls, 2 news, an Updater's channel of 2, others of 1 | 3.0M | type, shape, the listener's view, agreement with Discord |
| `player_echo`, `player_endpoint` | 1 channel | | two findings against comments |
| `connection_tasks` | channels of 3 | 42k | type, order before audio, place of the frame sender, `VoiceLink`; nothing is left of an abandoned or ended connection |
| `voice_system` | 1 channel (so no moves), kicks, lost servers, 2 controls, 1 news, 3 connections | 125k | audio only to the current connection, attempts end, a final Disconnect takes effect, an idle player has left, everything ends |
| `audio_path` | frames of 2 units and 2 bytes, sources of 0, 4 and 5 bytes, 12 units of time, counters modulo 4 and 16 | 2.4M | whole frames produced once (the frame channel may still refuse one), pace, no burst, no drift, fresh nonces |
| `guild_cache` | 2 users, 1 role, 1 channel, 2 commands and names, 3 changes, 1 lost session, 1 repeat | 3.6M | members, roles, channels and commands converge, but for what a lost session can spoil |
| `requests` | 2 calls; reactions, delete, respond, callback; rows, ephemeral; 403, 404, 502 | 1.6M | `RemoteCall`, one draft per interaction, calls end |

### Bounds

- Session: a wrong resume needs an event before the stored number, one stored, one
  not stored and one after it: four numbers, and a fifth for the undecodable one.
  Three commands at capacity 2 make the queue full with one in the writer's hands.
  The number of failures, resumes and new sessions is not bounded.
- Player: three controls are Connect, Disconnect, Connect elsewhere, or Connect, Play,
  Stop; a late echo is the update of one request that waits in the Updater's channel of 2 while
  the control that withdraws it is taken; the next request is then made or, at a full
  channel, dropped. Two news are a move and a kick, or
  an outage and its end. An event channel of one makes the task wait.
- VoiceConnection: the only bound is the capacity; three holds one of each event.
- VoiceSystem: a connection that is up, one let go of and one being set up are three; two
  controls and one news spawn no more, so the bound on them cuts nothing. With two channels
  liveness takes too long to check; moves are in `player_safety`.
- AudioPath: past the first wrap of both counters, which differ in width as 16 and 32
  bits do; time is several times the silence frames. A source is empty, a whole number of
  frames, or leaves a byte over; reads are of every size.
- Requests: two calls are one that changes what the other finds (a deleted message, an
  answered interaction, a cloned builder). One operation stands for each way of
  being answered (body or none, refused locally, on a message, with a draft).
- Guild: a role given, the role deleted and a leave, or a command deleted, its name given
  to another and that renamed, are three changes; one lost session and one repetition
  fall anywhere between. Users, command ids and names are interchangeable (symmetry).
  The members' invariants were also run with three users and two lost sessions.

### Fairness

All specifications ask only for what the runtime gives: tokio polls a task that can
make progress, and `select!` polls its branches in random order, so a branch that is
ready again and again is taken (strong fairness where another branch may disable it).
Sleeps and timeouts elapse. Assumptions about the outside are separate and named:

- Session: the peer answers the handshake or the connection breaks (`WF(Connecting)`:
  the code has no timeout there); the application's callbacks return. `BackOnline`
  and `BuildResolves` are stated under `ReachableServer`, by which attempts do not fail
  for ever.
- Player: the application reads its Listener; Discord serves requests. Nothing makes
  a connection come up.
- VoiceSystem: as Player; the tasks of a connection the player let go of end, as
  `AbandonedIsReleased` shows of `VoiceConnection`. One it listens to need not do anything.
- Requests: only the clock (`WF(Timeout)`). Neither Discord nor the network need answer.
- VoiceConnection: the voice handshake ends (again no timeout in the code); a server
  asked for a protocol describes the session at some time (`SF(ReadDescription)`); the
  player takes events while it listens. No packet needs to arrive.

`DisconnectTakesEffect` is checked without changes of the guild's availability. With
them it fails: after a late echo of a withdrawn Connect, a GuildOnline makes the player
ask for that channel (hazard `player.rs:302`).

## Findings

Each is a run with the expectation `violation`; `PROJECT.json` quotes the lines.

1. `session_duplicate`: the number of the first event of a resumed connection is not
   stored, so the next resume hands it out again, against the comment
   `gateway.rs:209-213`.
2. `session_gap`: a new session starts with the old session's `sequence`; if it breaks
   before its first numbered event it resumes from there and events are skipped.
3. `player_echo`: an idle player takes the late echo of its own withdrawn Connect for a
   reconnect or move, against the comment `player.rs:285-286`.
4. `player_endpoint`: a server update without an endpoint while connecting leads to a
   connected player without endpoint, against the comment `player.rs:297`.

## Proofs

All are of the form `Spec => []P` or `Spec => [][A]_vars`, for every value of the
constants that the ASSUME of the module admits: any number of events, commands,
channels, capacities, durations. The assumptions say no more than that sizes are
natural numbers and capacities positive.

- `Session_proofs`. `TypeCorrect` first. `NoGap` is not inductive: its strengthening
  says of every place in the handshake what the connector's token and the position of
  the connection are in relation to the stored sequence, and what of the numbers before
  the position was handed out. `ReadNeverRepeats` adds that nothing after the position
  was. `CommandsAccounted` needs only the place of the writer. `BuildNeverRefused`
  rests on who holds the oneshot in each state of `discord`.
  `NoDialAfterShutdown` is an action property, from the guards of the loop.
  `ReportOrder` speaks of what was reported before, which no guard looks at: `Reported`
  ties the last report to the driver's place, and a session kept for a resume to a report of
  its loss. `GracefulDrain` needs the ledger and that a writer that saw the shutdown has
  closed the queue (`SeenIsClosed`): what is popped then is popped from a queue
  that no command can enter.
- `Player_proofs`. `TypeCorrect` contains that the bounded channels are never exceeded.
  `Shape` becomes inductive with what a waiting task (`outbox`, `after`) implies about
  the state it already changed; `ViewTruthful` follows with it.
  `Agreement` says nothing of a player with news to come, so it is not inductive;
  `Located` speaks of the queue: the last update of ours in it has the channel
  Discord has us in, and when there is none, a player with a session has it. Updates
  of others may stand anywhere between, and the session may be forgotten.
- `VoiceConnection_proofs`. The invariant adds `Order`, which task's step precedes
  which channel's first message, and `Single`, that the one frame sender is in one place.
  `TypeCorrect`, `AudioIsReady` and `SenderHasAPlace` are parts of it; `ContractKept`
  is the refinement of `VoiceLink`: all the tasks do that the player can see is to offer the
  one sender to a player that listens, and to end for good; the player takes it or lets go.
- `VoiceFrames_proofs`. `NeverAhead` rests on a relation of deadline, items and age,
  `NoBurst` on the deadline being a frame after the item before. `NoncesAreFresh` holds
  for the code's real widths, 2^16, 2^32 and steps of 960, for 2^26 packets (about two
  weeks of audio in frames of 20 ms): packet n has sequence n mod 2^16 and timestamp 960 n mod 2^32,
  and both agree again only after a multiple of 2^26.

- `VoiceSystem_proofs`. `PlayerIsPlayer`: the composition implements `Player`'s
  specification, so `ShapeInSystem` follows from `Player_proofs`. `AudioGoesToTheCurrent`
  is about frames sent; inductive is where every frame sender is (`LinksOK`): only that of
  `source` is anywhere, in its channel while `conn` is starting, in the player's hand once it is
  up. It uses the player's `Shape`: `voice_send` is set exactly when `conn` is up, and no
  connection is held without credentials, so each is newer than the last time they were given up.
  `IdleMeansGone` is about a player at rest; `Leaving` says of every idle one that
  something is `Underway`: a request to be made or served, an update of ours to be
  taken in, or nothing because it is in no channel. It rests on the player's `Located`.
- `AudioPath_proofs`. The composition implements `VoiceFrames`. `NoFrameLost`: bytes cut,
  buffered and left add up to the source's size, and frames produced are silence plus cut;
  a stream ends with less than a frame buffered. `LatenessDoesNotAddUp`: while nothing
  slipped the saturated subtraction never saturates, so the deadline advances by a frame each time.
- `Guild_proofs`. `DirectoryAgrees`: of every role and channel, the last event under way
  that tells of it, or the cache when none does, says what Discord has (`Heard`). This is
  inductive as it stands, for appending, taking, repeating and cutting the feed.
  `CommandsConverge` uses the same relation for every pair of name and command
  (`Naming`). It holds although the list is fetched when older events are still to
  come, because whatever they say is said again by a later event. It needs that Discord's names are unique,
  and leaves out a name given up by a renaming: the code never drops it.
  For members the last event is not enough, since a leave that is lost leaves the member
  cached, and a role's deletion changes what an earlier event said. `Memory` follows the whole course of
  the cached members through the events to come (`Course`, a function from
  positions to members): whoever is cached at a point of it and wrong is still to be told of,
  or was lost (`Faithful`). It must be faithful at every point, not only at the end,
  because a lost session cuts the feed at any. `MembersAgree` is this for an empty
  feed. `MembersComplete` counts: as many cached as the GuildCreate says means
  that no more are missed than are cached and gone (`CountedMissed`), and the
  cached and gone are in `left`. The module assumes
  that the value for "no member" is not a set of roles.
- `Requests_proofs`. `VerdictsAreTrue`: a result is produced in a state whose request has
  the effect the verdict says, and a "no" is only given when the request is handled
  without effect or never sent, so that nothing can apply it later.
  `AnswerIsDraft` needs that one answer at most takes effect, and that a builder whose
  request was sent is neither extended nor sent again (`SentIsFixed`): the draft as it is
  now is the one that was sent (`OneAnswer`).

Every safety invariant and every action property that a passing run checks has a theorem.
`Located`, `Leaving`, `Naming` and `Memory` were checked by TLC on the instances of
their runs before they were proved.

Only model-checked is what holds under fairness, since ENABLED is out of the prover's reach:
`ShutdownCompletes`, `BrokenStreamEnds`, `BackOnline`, `BuildResolves`,
`AbandonedIsReleased`, `EndIsSeen`, `AttemptEnds`, `DisconnectTakesEffect`,
`EverythingEnds` and `CallsEnd`. Only proved: the types of `Guild` and `Requests`.

## Not modelled

- Of the HTTP client: the contents of messages and components, URLs, redirects, failures to
  serialise, the connection pool; aborting a spawned response by its JoinHandle.
- The codec's text, TLS, the WebSocket's own timeouts, and heartbeat acknowledgements,
  which the code does not check.
- The opus encoder, the cipher and the layout of packets: external or pure data.
- The ffmpeg process and its arguments (it is asked for two channels whatever `stereo`
  says), and opening a file.
- The lookups in the guild cache, `member_count` and `available` (constant in
  the code), and events that `next` passes on unchanged.
- `lib.rs`, `voice.rs`: re-exports and error types; `message.rs` is not compiled.

## Plan

Done: `Session`, `Player`, `VoiceConnection` against `VoiceLink`, `VoiceFrames`, `Guild`,
`VoiceSystem`, `PcmSource` and `AudioPath`, `Requests` against `RemoteCall`, and theorems about each.

Left, in order of weight:

1. An abstract event feed (each event at least once, in order but for one repetition)
   that `Session` implements and `Guild` consumes, in place of
   `Guild`'s own feed, with the proof that `Session` does, from `NoGap` and `ReadNeverRepeats`.
2. The identity of tokens and endpoints in `Player`, so that a newer voice server update
   for a connection already spawned can be told from an older one.
