# A TLA+ model of inter-agent

`inter-agent` is a local message bus for coding agents. A Python WebSocket
server (`core/server.py`) keeps the sessions, routes direct,
broadcast, custom and channel messages between them, and lets control
connections list, kick and shut down. Host adapters (Claude Code, Pi) run one
long-lived listener per agent and short-lived command clients, and a Pi
extension in TypeScript holds a mailbox of unread messages.

Paths below are those of the repository, relative to `src/inter_agent/`. In the
sections on `BusServer`, numbers in parentheses are lines of `core/server.py`.

## Inventory

| Component | State | Operations | Interaction | What is hard | What makes it correct |
| --- | --- | --- | --- | --- | --- |
| **BusServer** (`core/server.py`) | `registry`, `channels`, `subscriptions`, `_lock`, `_idle_timer`, `shutdown_event`; per connection the local `session_id` | authentication and registration; `send`, `broadcast`, `custom`, `subscribe`, `unsubscribe`, `publish`, `channels`, `list`, `kick`, `shutdown`, `ping`, `bye`; cleanup; idle timer; `run_server` | one task per connection on one event loop, sharing the maps; a send to another session's socket may suspend or raise | interleavings at awaits, some state under the lock and some not, exceptions unwinding through the lock, slow and dead peers, session ids reused after a kick, timer and shutdown racing arrivals | the maps agree with each other and with the live handlers; names and limits hold; the lock is never lost; everybody leaves in the end |
| **AgentSession** (`core/client.py`) | one pending command, its lock, inbox, closed flag | `connect`, `subscribe`, `unsubscribe`, `publish`, `send`, iteration, `close` | reader task and callers share the pending slot | a reply after its timeout, an unsolicited error during a command | a reply answers the command it belongs to; nobody waits for ever |
| **Listeners** (`adapters/claude/listener.py`, `adapters/pi/listener.py`) | desired channels, readiness, reconnect deadline, stop flag | connect loop, replay of subscriptions, control requests, SIGTERM | AgentSession, ControlServer, state file, a server they start | reconnects while commands run, cancellation anywhere, a kick | desired and actual subscriptions agree; a kicked or stopped listener stays away; one that cannot connect gives up |
| **ControlServer** (`adapters/control.py`) | socket path, inode and device | `start`, `stop`, requests | helper commands of other processes talk to the listener | probe, unlink and bind by several processes, crashes | leftovers never block a listener; a clean exit leaves nothing |
| **Claude state** (`adapters/claude/state.py`) | flock, state file, message log | acquire, write, delete, test, match and unlink; append, trim | listeners and helpers on one directory | stale files, a crash between two writes, tests that take the lock they test | the state file of a live listener is its own |
| **Command clients** (`core/send.py`, `publish.py`, `kick.py`, `list.py`, `channels.py`, `shutdown.py`, `status.py`; `adapters/*/commands.py`) | none | connect, handshake, one frame, perhaps one reply, an exit code | BusServer's connections; the suppression cache | a lost connection or a timeout after the server acted | the exit code means what it says |
| **Duplicate suppression** (`adapters/claude/dedup.py`) | cache of recent sends under an flock | prune, look, record | Claude's send commands of several processes | a crash with the lock, a clock read before the file | a message is taken once per window |
| Authentication (`core/auth.py`) | none kept | HMAC challenge and proof | first two exchanges of every connection | an error or a forged frame in any place | a connection without the secret never registers |
| **Configuration, secret** (`core/config.py`, `core/shared.py`) | config file, token file | resolve endpoint and secret | read by every process; a listener hands its endpoint to the server it starts | precedence with empty and invalid values; two processes creating the token | all processes agree on endpoint and secret |
| **TLS** (`core/tls.py`, `core/transport.py`) | certificate and key file | create, load, trust | servers create, clients read | a crash between the two files, two servers at once | a client trusts the server that is bound |
| Message log (`state.py`, `append_message_log`) | a file | append, trim | listeners of one host session in turn | trimming by rewriting | the log stays bounded |
| Pi mailbox (`integrations/pi/src/mailbox.ts`) | unread messages, notices due | `add`, `read`, `clear`, export and restore | listener output, model turns, extension reload | cap and eviction, notice batching, reload | each message is read at most once, and announced |
| Pi process control (`integrations/pi/src/index.ts`) | listener child, connection state, active stop | connect, disconnect, rename, reload | child process events | overlapping connects, a late exit of an old child | one child, and the state shown is its own |

`PROJECT.json` lists the components with their status, and the hazards of the
code line by line.

How they meet: a listener resolves its settings (`Config`), probes the endpoint
and may start a server with them (`Startup`); it holds the flock of its host
session and serves a control socket (`ListenerFiles`); over one bus session
after another (`AgentSession`, on which `Listener` is built) it replays its
subscriptions and forwards control requests. Commands (`SendCommands`) use the
bus directly, or a listener's control socket. At the other end of every
connection is a handler of `BusServer`.

## Modules

| Module | Content | Instances | Proofs |
| --- | --- | --- | --- |
| `BusServer` | the server and its environment | `BusServerMC` | `BusServer_proofs` (types), `BusServerSafety_proofs` (maps, names, limits, idle timer), `BusServerLocking_proofs` (lock, publish) |
| `Bus` | abstract specification of what the server promises its clients | in `BusServerPromise` | - |
| `BusServerPromise` | the refinement mapping from `BusServer` to `Bus`; what becomes of a kick | `BusServerMC` | `BusServerPromise_proofs` |
| `AgentSession` | a client session, frames in flight, the server's side of it | in `Listener` | in `Listener_proofs` |
| `Listener` | both listeners, built on `AgentSession` by `EXTENDS` | `ListenerMC` | `Listener_proofs` |
| `ListenerFiles` | flock, state file and control socket of several processes | `ListenerFilesMC` | `ListenerFiles_proofs` |
| `SendOnce` | abstract specification of duplicate suppression | in `SendCommands` | - |
| `SendCommands` | command processes, the suppression cache, the handshake; implements `SendOnce` | `SendCommandsMC` | `SendCommands_proofs` |
| `Config` | resolution of settings, as operators | in `Startup` | in `Startup_proofs` |
| `Startup` | auto-started servers, token and certificate files; uses `Config` | `StartupMC` | `Startup_proofs` |

Operators whose name has a suffix behind an underscore and whose comment says
"mutant" are deliberately wrong variants of the definition below them. They are
not part of a specification; `PROJECT.json` pairs each with the property that
fails when it takes the definition's place.

### How `BusServer.tla` corresponds to the code

**Scheduling.** `asyncio` runs one task at a time, and a task keeps the loop
until an await really suspends. The variable `current` is the task that has the
loop. An action with the guard `current = None` is something the event loop
starts (a frame arrives, a lock is granted, a socket drains, a timer fires);
one with `current = c` continues a handler up to its next await. So code
between two suspensions is atomic, as it is in Python, although it may take
several actions. An await that does not suspend in the code (an uncontended
lock, a send to a peer that reads) does not give the loop away in the model.

**A handler** is `pc[c]`: `hello` (reading hello and the proof), `acquire`,
`queued`, `crit` (`async with self._lock`), `recv` (`async for frame in ws`),
`route` (dispatch), `fanout` (the publish and broadcast loops), `sending`,
`draining`, `ending` (inside `ws.send`), `kicked`, `close`, `closing` (the three
awaits at the end of `_handle_kick`), `flag` (between `shutdown_ok` and
`shutdown_event.set()`), `exit` (the `finally` block), `done`. `sid[c]` is the
local `session_id`, `hello[c]` the identity of its `Conn`, and `job[c]` holds
the frame it works on and the locals that survive an await.

**Sending** is the place where most things happen. `Sent`: the frame is written
and the handler goes on. `SendDrains`: the write buffer is full, the handler
waits for the peer. `SendTooLate`: the connection is closing, the library waits
for its end and raises. `SendRaises`: it is gone, `ConnectionClosed` unwinds
(`Raise`), through the lock if the handler has it, to the `finally` block,
except for the KICKED notice, which is sent inside its own `try` (350-353).

**The lock** is `owner` and `waiters`; `Release` hands it to the first waiter,
as `asyncio.Lock` does. `Register` releases it before `welcome` is sent;
everything else sends its reply inside the critical section, and so does every
frame of a publish.

**Handlers as actions**: `RegisterRefused`/`Register` (177-225), `Subscribe`
(521-538), `Unsubscribe` (549-559), `Publish` and `FanOut*` (577-605),
`ListChannels` (612-620), `KickRefused`, `Kick`, `NotifyKicked`, `CloseKicked`,
`KickDone` (301-359), `RouteDirect` (397-428, 481-493), `RouteToAll` and
`FanOut*` (430-458, 494-497), `Answer` and `SetShutdown` (228-266, 281-286),
`Exit` and `Cleanup` (267-275 with 499-505).

**The broadcast loop** runs over `self.registry.values()` itself. Python raises
`RuntimeError` when the dict's size differs from the one at the start
(`FanOutBreaks`). After one entry replaced another the sizes agree, and the
dict's layout decides what the loop still visits, what it passes over and
whether it raises at its end, so the model allows each: `FanOutDone` asks for
every recipient only as long as the entries are those of the start. The order of
visits is left open.

**run_server**: `ShutdownBegins` takes the snapshot of `close_connections`,
`CloseNext` closes one session and waits until it is gone, `StopListening`
leaves the serve context (the library closes what is left), `Stop` is reached
when no handler runs any more.

**The environment**: a connection may be lost or closed by its peer
(`Faults`), a peer may stop reading (`Stall`) and read again (`Drain`), a client
may send any frame of `Requests`, also after a kick and up to the end of what
it sent before it left, and SIGTERM may arrive (`Signal`).

**Abstracted.** Authentication is its outcome (`HelloAccepted`, `HelloFails`).
Texts, labels, capabilities, sizes and timestamps are left out: a frame refused
for one of them behaves as `ping`, one reply and nothing else; the one such
refusal under the lock (BAD_FROM_NAME in `_route_publish`) is the first
alternative of `Publish`. A name is a model value, and `Prefixed` says which
names a target is a prefix of. `list` reads without the lock and answers: it is
`ping` as well. `self.middlewares` is empty wherever `src/` builds a server.
Duplicate control names are resolved to any of their holders (dict order).
`kicked` is a history variable that no guard reads.

### How `Bus.tla` and `BusServerPromise.tla` correspond to the code

`Bus` is the server as its clients may think of it: no lock, no sockets, no event
loop, and every operation one step. A connection is `new`; it is `open` once its
session joined, `posting` while a message of its goes to many, `over` when its
session has to end (`refused` when it never had one), and `gone`. `members` are
the connections messages are routed to, `subs` the subscriptions, and `post` is
the message of each connection that is posting: its channel, those it is for,
and those it has reached.

The mapping reads these off the handlers. A member is a connection the registry
holds under some id. A session is `open` from the instant it is registered, before
`welcome` is written, and a refused one is `over` as soon as the error is on its
way. A message has reached a recipient when its frame is written, though
the writer may then wait (`draining`); a frame that waits for a connection's end
(`ending`) has not (`Unsent`). A publish is for the holders of the ids it found in
`self.channels`, a broadcast for the registry it began with.

What `Bus` promises: a session joins only if its id and its name are free and there
is room; `Kick` ends a session with all its subscriptions, though the kicked
handler still runs; a publish is addressed at one instant and completes only
when it reached everybody it is for, a broadcast unless somebody came or went
meanwhile (`Complete`); a message reaches a session at most once, never its
sender, and only while it is a member and, for a publish, subscribed (`Deliver`);
a message that cannot be carried through ends the session of its sender
(`Leave`). It does not promise that the end of a connection leaves others alone:
`Close` ends the session of whoever holds the id by then, which is the finding
of `session_reuse`.

`KickedIsClosed` is what `_handle_kick` (301-359) does past its change of the maps:
as long as a kicked connection is open, its kicker is on the way to close it, or
a control connection, which may have been the kicker's, was lost (a
failed `kick_ok`, 336, leaves the victim open, connected and unregistered). That
the excuse is any control connection, not the kicker alone, makes the property a
little weaker than the code.

### How `AgentSession.tla` and `Listener.tla` correspond to the code

**One process, several tasks**: the main task (`main`), the session's reader
(`reader`), and one task per control request (`Handlers`); `call[t]` is the
command task `t` runs. Between the moment a result is set and the moment its
task takes it any other ready task may run, so `Read` (the reader sets the
future), `Expire` (a timeout or cancellation is delivered) and `Finish` (the
`finally` block of `_exchange` clears the slot and hands on the lock) are
separate steps. The bodies of `_state_lock` never suspend, so that lock is left
out.

**Who answers what.** A frame carries no request number. `Routed` is the test the
code makes: there is a pending command, and the frame's `op` is one it expects.
The model adds to each frame the command it was meant for (`for`); no guard
reads it, only `AnswersMatch` does.

**A command** is `idle`, `queued` (waiting for `_command_lock`), `waiting` (sent),
`expired` or `failed`. The 0.1 s timeout starts behind the send, so a queued
command expires only when whoever asked for it gives up: the 2 s of a control
request, or SIGTERM during the replay.

**The two programs** share the module; `adapter` is which of them runs. Where they
differ, the guard says so: pi looks for the server before every attempt and may
give up there (`ServerMissing`, `WakeUp`), does not survive NAME_TAKEN, looks for
KICKED only behind the welcome (`EndsSession`, `Verdict`), and does not react to
SIGTERM by itself.

**SIGTERM** (`Stop`) may come again, and does two things: it sets `stop`, which the
loop looks at between its awaits, and it cancels the task of the connection. Where
that task is decides what becomes of the second: it ends an attempt to connect and
a session, the replay included. Behind the replay the listener is in `binding`, the
awaits of `ControlServer.start` (`ReplayDone` to `ControlStarted`); there a
cancellation either ends the session too, or it reaches `probe_alive` or
`_close_server` while they wait for a socket to close (`adapters/control.py`,
110-113 and 196-199), which drop it. The start then reports failure, and the session
goes on without a control server although `stop` is set: `missed` records it. Such
a listener ends when its session does, or with the next SIGTERM; `StopEnds` has
this as its premise, and `StopStays` says that it connects no more in any case.
That a server accepts requests before its setup fails is left out: `bound` is true
only behind a setup that succeeded.

`After` is what stands behind the `try` statement of both
loops: the deadline of reconnecting is kept across failures and is cleared by a
session that returned or by a new name.

**The environment**: the server answers each command once and in order, may
refuse a new subscription (`Serve`), kicks (`Kick`), and the connection may be
lost with what was in flight to the client (`Lose`). `Connected` may also be
answered by an error in place of the welcome. Standard output may break
(`WriteFails`), the state file may be unwritable (`ControlStarted`). A command is
sent while the link is open or, for as long as the loss is not known, to nowhere:
then it fails or waits for its timeout (`Issue`).

**History variables**: `slipped` (a command that was sent has timed out in this
session), `refused` (channels whose replay the server refused), `told` (where
the KICKED notice went). No guard reads them.

**Abstracted.** Messages from other agents are frames like any other the loop
prints: they change no state but the memory of received ids, which is left out.
`publish` on a session is not modelled: no listener calls it. Malformed and
oversized control requests are answered without touching the session.

### How `ListenerFiles.tla` corresponds to the code

Each system call on a shared file is a step. `flock` is the lock of each host
session's key, `session` whose state its state file has, `path` the inode at the
control socket's path, `listens` the inode each process accepts connections on,
`inode` what the process believes it owns. All listeners have one routing name,
so that they share the socket's path, the hard case. A crash drops the process's
lock and its listening socket, as the kernel does, and leaves the files.

`ControlServer.start` is `PathExists`, `Probe`, `UnlinkDead`, `Remove`, `Bind`,
`Bound`, `Stat`, `Chmod`, `Confirm`. `Remove`, `Bind` and `Bound` are inside
`asyncio.start_unix_server`. There is no await between its bind and its listen, so
they are one step, but it then waits for a turn of the event loop (`bound`). SIGTERM may
cancel the session there, or while `probe_alive` connects (`Cancelled`): `stop`
finds neither a server nor an inode, the socket of a start that was cancelled
behind its bind stays at the path (`left`, a history variable), and the abandoned
server accepts connections until the process ends (`ending`, `Quit`). A cancellation
that `probe_alive` drops is an ordinary `Probe`. `start_unix_server` unlinks a
socket at its path by itself; it does not unlink again when the server closes
(Python 3.12; the clean-up that 3.13 adds compares the inode as `_unlink_owned`
does). A failure before `Chmod` makes the control unavailable and the listener goes
on without it. `ControlServer.stop` is `StopServer`, `Compare`, `UnlinkOwned`, also
when the state file could not be written (`welcomed`): the identity is compared in
one step and the path unlinked in another. Device numbers are left out: all is on
one device.

Helper commands read the state file, test the lock by taking it
(`TestLock`/`ReleaseTest`), signal the process the file names (`Kill`) and remove
a file of a dead listener (`MatchLock`, `MatchRead`, `MatchUnlink`). `disconnect`
looks at one state file after the other (`unseen`) and goes on when a file was
not unlinked (`NoMatch`). Left out: `unlink_if_matches` without a lock file
(`adapters/claude/state.py`, 353-359), which takes a lock file that cannot be opened,
and a socket path that cannot be made, which leaves the control unavailable. The probe of
send and status (`Check`) and `disconnect` share these steps. That SIGTERM ends a
listener is `Ends`, at any time; process numbers are not used again in the model.

`disturbed` is history: the listeners at whose start or stop another listener
was busy with the socket.

### How `SendCommands.tla` and `SendOnce.tla` correspond to the code

An invocation is a process: `claude` (send, broadcast or publish of Claude Code,
which pass the suppression), `pi` (the same of pi, which do not), `request` (kick,
list, channels, shutdown, which wait for an answer) or `status`. `Local` are the
steps up to the connection, `Client` those of the connection, `Peer` those of the
server's handler and of the network.

The cache is a function from messages to the second they were recorded at.
`Look` reads the clock and the file, `Record` prunes and writes it and may fail
(full disk), both under the flock. An entry expires by comparison with the
clock, so pruning only matters when it is wrong.

The handshake is modelled frame by frame from `client_handshake`, with the
server's refusal possible in place of each frame; `forged` is a challenge whose
proof is wrong. Leaving the connection's block closes it behind the message
(`Hangs`): a message in flight is still handled. A send expects nothing but an
error and waits 0.1 s for it (`Replied`, `NoError`); a request waits for its
answer; a status gives up after 0.5 s (`StatusTimesOut`). `broken` is history:
connections lost before their command was done.

`SendOnce` is the promise without file, lock or processes: each command is
decided as if at one instant between its start and its end, suppressed if the
message was taken within the window before that instant, and reaches the bus at
most once. `Once == INSTANCE SendOnce WITH last <- cache, stage <- ...` is the
refinement mapping; `DecidedOnce` is the property.

### How `Config.tla` and `Startup.tla` correspond to the code

`Config` is `resolve_endpoint_config` and `resolve_explicit_secret_config`
over records of settings, with absent, empty and unparsable values told apart:
which source wins, which malformed value is an error even where a better
source wins, when TLS is the default. `ServerArguments` is the command line
`_start_server` builds.

In `Startup` each listener may start one server (`Probe`), which inherits
environment and config file and resolves them again with the arguments it was
given. The content of a file is the process that generated it. Tokens and
certificates are created in steps: the check, and one write per file.
`Connect` tells apart a certificate that is missing (the listener ends), one that
does not match (an SSL error, tried again), and a wrong secret (it ends).
`raced` is history: two processes were about to create the same file at once.
Configured certificate files are taken to exist and to match.

## Runs

Every run sets `CHECK_DEADLOCK FALSE`: a server that stopped, a process that
exited and a client that used up its requests rightly take no more steps.
Connections and inode numbers are symmetric where no temporal property is checked
and no other constant tells them apart.

| Run | Instance | Shows |
| --- | --- | --- |
| `channels` | 3 connections, agent sessions s1 and s2 and a control session s3, 2 channels, limits 3/1/1, 2 frames, broadcasts, sends to a prefix and to departed names, losses, one stall | `TypeOK` (no send without a recipient), `LockDiscipline` when sends raise, `ChannelsMirrorSubscriptions`, `WithinLimits`, `PublishSetStable`, the refinement `PromiseKept` |
| `kick` | 3 connections, ids {s1, s2}, agents and a control, an agent that takes the other's name, idle timer, 2 frames, losses, closes and a signal | names, owners of registry entries, subscriptions and the timer survive every order of kick, reuse, late cleanup and shutdown; a kick is carried through (`KickedIsClosed`) |
| `liveness` | 2 connections, every operation, a refused name, 2 frames, losses, one stall, `FairSpec` | `LostSessionsLeave`, `HandlersComeBack`, `ShutdownCompletes`, and `PromiseKept` with kicks and shutdowns |
| `listener` | both adapters, 2 bus sessions, 1 channel, 2 request tasks and the replay, 2 requests, `FairSpec` | `SubscriptionsAgree`, `AnswersMatch`, `SlotBelongsToOwner`, `KickedStaysAway`, `StopStays`, `CommandsEnd`, `StopEnds`, `LossIsNoticed`, `GivesUp` |
| `listener_files` | 3 listeners of 2 host sessions on one socket path, a helper, 4 inodes, 3 bus sessions, 1 crash | `StateFileStays`, `AbsentIsTrue`, `CleanExit`, `LeftoversDoNotBlock` |
| `send` | 2 processes, 2 messages, a window of 1 and a clock up to 2, 1 crash | `SuccessWasWelcomed`, `FailureHadNoEffect`, `LockIsLocal`, the refinement `DecidedOnce` |
| `startup` | 2 listeners, 2 servers, a client, 12 combinations of settings, leftovers, 1 crash | `ChildAgrees`, `SoleCreatorMatches`, `NobodyDenied`, `PairsMatch` |
| `session_reuse` | as `kick`, no fault, one frame | violated: `LiveSessionStaysRegistered` |
| `kick_swallowed` | as `listener`, one request task, one request | violated: `KickIsTerminal` |
| `wrong_listener` | 2 listeners of one host session, a helper of another | violated: `DisconnectIsLocal` |
| `socket_left` | 2 listeners of 2 host sessions, a helper, no crash | violated: `ShutdownRemovesSocket` |
| `startup_race` | as `startup`, no crash, no client | violated: `ServerMatchesFiles` |

**Bounds.** *Server*: `FrameBound` is the number of frames all clients send after
welcome, `StallBound` how many peers stop reading, `Conns` how many connections
one run of the server accepts. Three connections are what the known races need:
a kicker, its victim and a newcomer; a sender and two recipients; a sender, a
recipient that stalls and a session that joins or leaves in the middle of the
loop. Two frames reach a kick followed by the victim's subscribe, a subscription
met by a publish, and a second subscription refused at the limit while a third
handler waits for the lock. A stall is what lets others run between two
sends of a loop, so one is enough to make publishes and broadcasts overlap with
joins, subscriptions and departures. Losses, closes and reads are not bounded.
With three connections the limit of three sessions is met and never exceeded, so
that `channels` tests the limits of channels and subscriptions; `LimitsRespected`
is proved for all three.

*Listener*: `SessionBound` counts bus sessions, `RequestBound` control requests.
Two sessions are a loss and the replay behind it. Requests are accepted behind the
replay only, so two request tasks are what it takes for one command to own the lock
and another to wait behind it, and there to be timed out, fail with the reader, or be
met by a late answer to the first. One channel is enough for a subscribe and an
unsubscribe that cross, and for a replay; the invariants and action properties are
proved for any number of channels, tasks and sessions. Losses, kicks, timeouts and reads are bounded only by the sessions.

*Files*: two listeners compete for one lock while a third, which has a lock of
its own, competes with the winner for the socket; one crash leaves a dead file
and socket. Three bus sessions let a listener start a second control server after
another has come and gone. The helper runs any one of its commands once, which is enough to
meet each step of a listener with a state it found earlier; helpers touch one another only
through the lock, which the proofs cover for any number of them. The number of inodes exceeds the listeners' by one,
so that a number may be used again while a process still remembers it.

*Commands*: two processes are what a cache shared by processes needs, two
messages a prune of one entry while another is recorded. The window of one and
the clock up to two reach an entry at its very end and one past it.

*Startup*: two listeners and two servers are the race; the settings are chosen so
that each source wins somewhere, with an empty and an invalid value, a half
configured certificate, and explicit and empty secrets. One crash at any point
leaves half-written files for the others.

**Fairness.** *Server* (`Fairness` in `BusServer`): a handler that can run is run:
the event loop is FIFO. A closing handshake ends: the library has a close timeout.
A peer that stalls reads again or is lost: the TCP and keepalive timeouts. A
handshake whose connection ended is over: `recv` raises. Nothing is assumed of
clients that are connected and silent, so `ShutdownCompletes` does not rest on
them: leaving the serve context closes their connections.

*Listener* (`Fairness` in `Listener`): weak fairness of the main task, the reader
and each command, which are tasks of one FIFO event loop, of the 0.1 s timer of a
command that was sent, and of the reconnect deadline, which is a point in time.
That an attempt to connect comes to an end is the library's open timeout.
The server, the network, whoever sends control requests, the 2 s of a control
request and SIGTERM owe nothing: commands end although the server may never
answer. `GivesUp` says what is left of progress when no connection succeeds
again.

**What the violated runs show.** They are listed under `findings` with the line
of the document or comment each contradicts. In short: `handle`'s `finally`
removes a session by id, whoever holds the id by now (`core/server.py`, 272); a
KICKED notice that arrives while a subscribe is pending is taken for its answer,
and the kicked listener connects again (`core/client.py`, 253); `disconnect` in a
host session without a listener signals the listener of another one
(`adapters/claude/commands.py`, 431); SIGTERM in the turn of the event loop behind the bind of the control socket leaves
that socket on disk (`adapters/control.py`, 152); and two servers that are started
together may leave a token or a certificate on disk that the bound one does not have
(`core/tls.py`, 138).

What holds beside each of them is checked by a passing run: no subscription
is orphaned and no entry without a handler when an id is reused (`kick`; that the
channel maps mirror each other is checked in `channels` and proved for kicks too), a notice that does reach the inbox ends
the process (`KickedStaysAway`), a state file is never taken from a live
listener (`StateFileStays`), nothing else stays behind without a crash (`CleanExit`), and without a race everybody is admitted
(`NobodyDenied`).

## Proofs

`tlapm` checks these theorems of `Spec` for all values of the constants that
satisfy the named assumptions of each module: finite or disjoint sets, limits in
Nat, model values that are no member of the sets they stand beside. The bounds of
the runs are constants there, so the proofs cover any number of connections,
frames, processes, sessions and faults.

| Module | Theorem | Statement |
| --- | --- | --- |
| `BusServer_proofs` | `TypeCorrect` | `Spec => []TypeOK` |
| `BusServerSafety_proofs` | `Safety` | `Spec => []SafeInv` |
| | `ChannelsMirror` | `Spec => []ChannelsMirrorSubscriptions` |
| | `RegisteredHandlers` | `Spec => []RegisteredSessionHasHandler` |
| | `NoOrphans` | `Spec => []NoOrphanSubscription` |
| | `NamesUnique` | `Spec => []AgentNamesUnique` |
| | `LimitsRespected` | `Spec => []WithinLimits` |
| | `IdleTimer` | `Spec => []IdleTimerArmed` |
| `BusServerLocking_proofs` | `LockSafe` | `Spec => []LockDiscipline` |
| | `PublishSafe` | `Spec => []PublishSetStable` |
| `BusServerPromise_proofs` | `KickCompletes` | `Spec => []KickedIsClosed` |
| | `Refinement` | `Spec => PromiseKept` |
| `Listener_proofs` | `Invariant` | `Spec => []ListenerInv` |
| | `TypeCorrect` | `Spec => []TypeOK` |
| | `SlotSafe` | `Spec => []SlotBelongsToOwner` |
| | `AnswersSafe` | `Spec => []AnswersMatch` |
| | `SubscriptionsSafe` | `Spec => []SubscriptionsAgree` |
| | `KickedAway` | `Spec => KickedStaysAway` |
| | `StopsForGood` | `Spec => StopStays` |
| `ListenerFiles_proofs` | `TypeCorrect` | `Spec => []TypeOK` |
| | `StateFileSafe` | `Spec => []StateFileStays` |
| | `AbsentSafe` | `Spec => []AbsentIsTrue` |
| | `LeftoversSafe` | `Spec => []LeftoversDoNotBlock` |
| | `NothingLeft` | `Spec => []CleanExit` |
| `SendCommands_proofs` | `TypeCorrect` | `Spec => []TypeOK` |
| | `LockSafe` | `Spec => []LockIsLocal` |
| | `SuccessSafe` | `Spec => []SuccessWasWelcomed` |
| | `FailureSafe` | `Spec => []FailureHadNoEffect` |
| | `Refinement` | `Spec => DecidedOnce` |
| `Startup_proofs` | `TypeCorrect` | `Spec => []TypeOK` |
| | `ChildAgreement` | `Spec => []ChildAgrees` |
| | `FilesMatch` | `Spec => []SoleCreatorMatches` |
| | `Admission` | `Spec => []NobodyDenied` |
| | `Pairs` | `Spec => []PairsMatch` |

### The server

`TypeOK` alone is inductive, because it says of each program point which locals
are set (`HandlerType`): that a handler in the middle of a frame has a session
id, that one waiting to register has none yet, that a send has a recipient. The
proof has one lemma per action.

`SafeInv` adds the safety properties. `RegisteredSessionHasHandler` is the
strengthening the others need: a kick forgets the subscriptions of the id its
victim *presented*, and only this invariant says that this is the id it is
registered under; that a connection without `session_id` is not in the registry
is what keeps names unique when a new identity is accepted. `LimitsHold` adds to
`WithinLimits` that the counted sets are finite. `StepShape` reduces `Next` to
the eight actions that touch the maps or an identity; each invariant then has
one step per such action.

`IdleInv` adds to `IdleTimerArmed` that the server leaves "serving" only after a
shutdown was asked for. `TimerShape` says that a handler's step either leaves
the handler running or ends it with `_schedule_idle_shutdown`; when it was the
last one, `RegisteredSessionHasHandler` and the types make the registry empty,
which is what the code tests before it arms the timer.

`LockDiscipline` is inductive given `TypeOK`. `LockShape` reduces every step to
one of four: asking for the lock, being granted it, going on without a change
to it (`Move`), or releasing it if one has it (`Leave`, which errors take too);
each is one lemma. `PublishStates` strengthens `PublishSetStable` with the lock:
a publish that loops, or is inside a send of its loop, owns it. `PublishChannels`
then shows that the channels change only in a step of the lock's owner, and
that this owner is not publishing; `ApartFrame` carries the invariant over the
other handlers.

`KickedIsClosed` and the refinement rest on `PromiseInv`, the invariants above and
three more. `HandlerStates` says what a handler knows at each program point:
that whoever is between two awaits has the event loop; that a handler in the
lock's queue has an operation that takes the lock and that its role may use;
and that a frame a loop has yet to write goes to the element chosen last, which
nobody has replaced since, because choosing and writing are one slice.
`KickStates` says where a handler is that has a victim: in one of the sends of
`_handle_kick`, or between them. `LinkStates` says that a kicked
connection has a session id and that only one that never connected is idle.
`KickCarried` then follows a kick through the steps of its handler: each goes on
towards `CloseKicked`, closes the victim, or raises, which takes a lost
connection of the kicker; from then on the property asks for a lost control
connection only, which stays lost.

`Refinement` is proved handler by handler. `OthersMapped` says that a step of one
handler leaves the `post` of the others as it was; its core is that the holders of the
ids a publish is for change only with the registry, and the registry only under
the lock, which that publish has (`PublishOwnsLock`). There is one lemma per group of
actions (`MapSends`, `MapOpenSteps`, `MapAccepts`, `LoopContinues`, `LoopCompletes`,
`MapRefused`, `MapRegister`, `MapExit`, `MapCleanup`, `MapKick`,
`MapSubscriptions`). Most steps are stutters: asking for the lock, draining, choosing
the next recipient. `Sent` is `Deliver` when the frame is one of a loop
(`ToDeliver`, with `PeerReads`: the recipient is still entitled to it), `Raise`
is `Leave` or nothing, and the end of a loop is `Complete`. There, for a publish,
`ChannelReaders` turns the ids of a channel into connections; for a broadcast, a
loop that ends over the registry it began with has visited everybody in it.

### The listener

None of the listener's properties is inductive, since the session knows frames by
their op, and only the history of the lock says whose they are. `ListenerInv` has
these parts:

* `LockInv`: the queue of `_command_lock` is made of the commands that run, each
  once; only its head has sent anything, and the pending slot is the head's or
  empty. `SlotBelongsToOwner` is read off it.
* `TaskInv`: where the main task is while commands run. The replay runs alone, no
  command survives the session it belongs to, and a welcome is the first frame
  of the inbox or gone. `ReadyInv` adds when requests are accepted.
* `DownInv`: nothing comes behind a KICKED notice.
* `FlightInv`, unless a command on the wire timed out: at most one frame is in
  flight, in one direction or the other, and it is the pending command's, which
  still waits. (Or the replay was cancelled with its session; then its future is
  cancelled and takes nothing.) `AnswersMatch` is its last conjunct.
* `TellsInv`: an answer names the channel of its command, and what it says of the
  subscription is so. `AgreeInv`: where the server and the listener differ, such
  an answer is on its way to a control request, or the server has refused, or the
  replay is still to ask. At rest nothing runs, and `SubscriptionsAgree` is left.
* `InboxInv`: what stands in front of a KICKED notice does not end the session, so
  the notice is reached, or SIGTERM comes first; either way the process exits.

`slipped` is reset by `Connected` alone, when nothing is in flight and no command
runs: this step makes `FlightInv`, `TellsInv` and `AgreeInv` true again. There is one lemma per
part, with one step per action; `StopsForGood` needs none of them, only that a stopped
listener is not in an attempt to connect; `TakeShape`, `ReadShape`, `ServeShape` and
`IssueShape` say once what the steps on the sequences do.

### The files

`StateFileStays` speaks of files, and only the lock makes it true. `LockOwned`,
the strengthening, says that a listener past `AcquireLock` and a helper between
taking a lock and releasing it hold the lock of their key, and that a process
that wrote its state file has not released its lock. `flock` is a function, so a
key has one holder, and whoever writes, deletes or removes a file is not anybody
else's rival. `AbsentIsTrue` follows from `LockOwned` without a step of its own.

The other two are about the socket, which no lock guards. `SocketInv` looks at one
listener: as long as nobody disturbs it, it is the only one at the socket, so
whatever it found at the path has no living server and nobody changes it between
two of its steps; `LeftoversDoNotBlock` is read off where it then ends.
`LeftInv` is about what is there: as long as nobody crashed, a taken lock, a state
file, and whatever is at the path each have a process that will still remove it
(`Claims`), but for a path that is `left`. A race may make two listeners replace
each other's socket, but the last one to bind still owns the path's inode and
compares it before it unlinks. When all are gone nobody claims anything, which is
`CleanExit`.

### The commands

`SendInv` has three parts. `LockInv`: who is between `Lock` and `Release` is the
holder. `DedupInv`: how far each invocation is with the cache; its core is that a
stamp about to be recorded is still no duplicate, which holds because only the
holder changes the cache. `WireInv`: at each point of a client, which frames may
be in flight and where the server's handler is; it is what links an exit code
to what the server did, since neither side sees the other's state.

`Refinement` uses `SendInv` on every step. `Moves` says that a step which changes
one invocation's stage is a step of `SendOnce` for that one alone; `Record`
becomes `Taken` at the instant of the stamp, `Look` becomes `Suppressed` at the
current one, and the server's acceptance becomes `Reached`. Everything else is
a stutter.

### Startup

`ChildAgrees` rests on a lemma about `Config` alone: settings that are resolved,
put on a command line and resolved again give the same endpoint (`ChildResolves`).
`SettingsInv` adds that all processes resolved the same one. `ProgressInv` says
what a process that has come so far knows; it holds with races too, since
no file is ever removed. `FilesInv` holds as long as `raced` is false: a file is
created by one process and out of nothing, so nobody can have read another
version of it. The invariant is their conjunction with `~raced => FilesInv`;
`raced` never becomes false again.

## Only model-checked

* Liveness under fairness, in both `FairSpec`s: the prover has no rules for `WF`
  and `ENABLED`.

## Not modelled

* The Pi extension (`integrations/pi/src`): TypeScript in its host's process, with
  timers and callbacks of a host whose scheduling is not in the repository. It
  meets the rest through the listener's output only.
* The message log of `state.py` and the memory of received ids: neither is read
  by anything that decides a step of the modelled components.
* `iter_client_frames` and `run_client`, which print what arrives; the interface in
  `core/router.py`, whose list is empty wherever `src/` builds a server;
  `AgentSession.publish`, which no listener calls.
* Malformed and oversized control requests, and the requester's side of the
  control socket: `Request` starts where a valid request has been read.
* The HMACs, certificates' contents, file permissions, frame sizes, JSON schemas,
  texts and formatting. A proof is right or forged, a certificate the one that was
  loaded or another.
* Failures of the server's process: it keeps nothing on disk but the files of
  `Startup`, where it may crash anywhere.

Assumed throughout: one data directory for all processes, a wall clock that goes
forward, no reuse of process numbers, and the `asyncio` of Python 3.12 (from
3.12.1 for `wait_for` and `wait_closed`).
