----------------------------- MODULE BusServer -----------------------------
(***************************************************************************)
(* The message bus of inter-agent: class BusServer and run_server of       *)
(* src/inter_agent/core/server.py.  One asyncio event loop runs one        *)
(* `handle` task per WebSocket connection, the run_server task and the     *)
(* idle timer.  A task keeps the loop until it reaches an await that       *)
(* really suspends; `current` is the task that has the loop, so the steps  *)
(* between two suspensions are never interleaved with another task.        *)
(*                                                                         *)
(* An await suspends when a handler reads its next frame, when the lock is *)
(* taken, when the peer a frame is sent to does not drain its socket, and  *)
(* while a closing handshake is under way.                                 *)
(***************************************************************************)
EXTENDS Naturals, FiniteSets, Sequences

CONSTANTS
  Conns,              \* connections accepted during one run of the server
  Sids,               \* session ids clients present
  Names,              \* routing names validate_name accepts
  BadName,            \* any name validate_name refuses
  Channels,           \* channel names validate_channel_name accepts
  Targets,            \* what a direct message may be addressed to
  Prefixed,           \* Targets -> the names that start with the target
  Hellos,             \* the identities clients may authenticate with
  Requests,           \* the frames clients may send once welcomed
  connection_max, subscriptions_max, channels_max,    \* Limits
  IdleTimeout,        \* TRUE when --idle-timeout is positive
  Faults,             \* bound: the environment's events that may happen
  StallBound,         \* bound: how many times a peer may stop reading
  FrameBound,         \* bound: frames all clients together send after welcome
  Main,               \* the run_server task
  None

Roles == {"agent", "control"}
Identities == [sid : Sids, role : Roles, name : Names \cup {BadName}]

\* "ping" stands for every frame that is answered without touching shared
\* state: ping, list, an unknown op, and operations with a bad argument.
AllRequests ==
  [op : {"subscribe", "unsubscribe", "publish"}, channel : Channels]
    \cup [op : {"send"}, to : Targets]
    \cup [op : {"custom"}, to : Targets \cup {None}]
    \cup [op : {"kick"}, who : Sids \cup Names]
    \cup [op : {"broadcast", "channels", "shutdown", "ping", "malformed", "bye"}]

\* The two uses a handler makes of the lock outside a client's request.
Internal == [op : {"register", "cleanup", "none"}]

ASSUME ConnsAssumption == IsFiniteSet(Conns) /\ None \notin Conns /\ Main \notin Conns /\ Main # None
ASSUME SidsAssumption == IsFiniteSet(Sids) /\ None \notin Sids
ASSUME NamesAssumption == BadName \notin Names
ASSUME ChannelsAssumption == IsFiniteSet(Channels) /\ None \notin Channels
ASSUME TargetsAssumption == None \notin Targets /\ Prefixed \in [Targets -> SUBSET Names]
ASSUME InputsAssumption ==
  Hellos \subseteq Identities /\ None \notin Hellos /\ Requests \subseteq AllRequests
ASSUME LimitsAssumption == {connection_max, subscriptions_max, channels_max} \subseteq Nat
ASSUME BoundsAssumption == {FrameBound, StallBound} \subseteq Nat /\ IdleTimeout \in BOOLEAN

VARIABLES
  link,           \* the WebSocket: idle, open, closing (close frame exchanged), lost
  flow,           \* the write buffer to a peer: clear, stalled, drained
  frames,         \* frames received so far
  pc,             \* where the handler of a connection is
  hello,          \* identity it authenticated with
  sid,            \* local variable session_id of handle
  job,            \* what the handler is doing with its current frame
  registry,       \* self.registry: session id -> connection
  channels,       \* self.channels: channel -> session ids
  subscriptions,  \* self.subscriptions: session id -> channels
  owner, waiters, \* self._lock and its FIFO of waiting tasks
  timer,          \* self._idle_timer
  shutdown,       \* self.shutdown_event
  main, toClose, atClose,   \* run_server and the loop of close_connections
  kicked,         \* history: connections a kick removed whose handler still runs
  current         \* the task that has the event loop

netVars == <<link, flow, frames>>
handlerVars == <<pc, hello, sid, job>>
busVars == <<registry, channels, subscriptions>>
lockVars == <<owner, waiters>>
mainVars == <<timer, shutdown, main, toClose, atClose>>
vars == <<netVars, handlerVars, busVars, lockVars, mainVars, kicked, current>>

Labels == {"off", "hello", "recv", "acquire", "queued", "crit", "route", "fanout",
           "sending", "draining", "ending", "flag", "kicked", "close", "closing", "exit", "done"}

\* req: the frame; peer: who is being sent to, then: where to go once it is
\* sent; start, seen: the collection a loop runs over and what it has visited;
\* victim: the connection being kicked.
Jobs == [req : AllRequests \cup Internal, peer : Conns \cup {None}, then : Labels,
         start : SUBSET (Conns \cup Sids), seen : SUBSET (Conns \cup Sids),
         victim : Conns \cup {None}]

NoJob == [req |-> [op |-> "none"], peer |-> None, then |-> "off",
          start |-> {}, seen |-> {}, victim |-> None]

Init ==
  /\ link = [c \in Conns |-> "idle"]
  /\ flow = [c \in Conns |-> "clear"]
  /\ frames = 0
  /\ pc = [c \in Conns |-> "off"]
  /\ hello = [c \in Conns |-> None]
  /\ sid = [c \in Conns |-> None]
  /\ job = [c \in Conns |-> NoJob]
  /\ registry = [s \in Sids |-> None]
  /\ channels = [ch \in {} |-> {}]
  /\ subscriptions = [s \in {} |-> {}]
  /\ owner = None
  /\ waiters = <<>>
  /\ timer = IF IdleTimeout THEN "armed" ELSE "off"
  /\ shutdown = FALSE
  /\ main = "serving"
  /\ toClose = {}
  /\ atClose = None
  /\ kicked = {}
  /\ current = None
-----------------------------------------------------------------------------
(* Reading the server's state. *)

Registered == {c \in Conns : \E s \in Sids : registry[s] = c}
Subs(s) == IF s \in DOMAIN subscriptions THEN subscriptions[s] ELSE {}
Subscribers(ch) == IF ch \in DOMAIN channels THEN channels[ch] ELSE {}

Sessions == {s \in Sids : registry[s] # None}

Full == Cardinality(Sessions) >= connection_max

\* Mutant: the duplicate test run on the wrong kind of session.
NameTaken_ControlOnly(n) == \E c \in Registered : hello[c].name = n /\ hello[c].role = "control"
NameTaken(n) == \E c \in Registered : hello[c].name = n

\* Mutant: a failed resolution used as if it had found somebody.
ResolveTarget_Unchecked(to) ==
  LET exact == {c \in Registered : hello[c].name = to}
  IN  IF exact # {} THEN exact ELSE {None}

\* Exact names first (several control connections may share one), then a
\* prefix that only one connection matches.  The empty set is an error reply.
ResolveTarget(to) ==
  LET exact == {c \in Registered : hello[c].name = to}
      prefixed == {c \in Registered : hello[c].name \in Prefixed[to]}
  IN  IF exact # {} THEN exact
      ELSE IF Cardinality(prefixed) = 1 THEN prefixed ELSE {}

(* Updating it. *)

With(f, k, v) == [x \in DOMAIN f \cup {k} |-> IF x = k THEN v ELSE f[x]]
Without(f, k) == [x \in DOMAIN f \ {k} |-> f[x]]

\* Mutant: an empty channel left behind.
Discard_KeepsEmpty(chs, s) ==
  [ch \in DOMAIN channels |-> IF ch \in chs THEN channels[ch] \ {s} ELSE channels[ch]]

\* self.channels after `s` left the channels `chs`; a channel that loses its
\* last subscriber is dropped.
Discard(chs, s) ==
  [ch \in {x \in DOMAIN channels : x \in chs => channels[x] \ {s} # {}} |->
     IF ch \in chs THEN channels[ch] \ {s} ELSE channels[ch]]

\* Mutant: only one of the two maps updated.
ForgetSubscriptions_OneSided(s) ==
  subscriptions' = Without(subscriptions, s) /\ UNCHANGED channels
\* Mutant: the subscriptions of a session already kicked left alone.
ForgetSubscriptions_IfRegistered(s) ==
  IF registry[s] = None THEN UNCHANGED <<channels, subscriptions>>
  ELSE channels' = Discard(Subs(s), s) /\ subscriptions' = Without(subscriptions, s)

\* _cleanup_session_subscriptions, and the same lines inside _handle_kick.
ForgetSubscriptions(s) ==
  /\ channels' = Discard(Subs(s), s)
  /\ subscriptions' = Without(subscriptions, s)

\* Mutant: unregistering made to depend on a subscription.
Unregister_IfSubscribed(s) ==
  registry' = IF s \in DOMAIN subscriptions THEN [registry EXCEPT ![s] = None] ELSE registry
Unregister(s) == registry' = [registry EXCEPT ![s] = None]

\* Mutant: the registry tested before the session is removed from it.
ScheduleIfEmpty_BeforePop ==
  timer' = IF IdleTimeout /\ Sessions = {} THEN "armed" ELSE timer
ScheduleIfEmpty ==
  timer' = IF IdleTimeout /\ \A s \in Sids : registry'[s] = None THEN "armed" ELSE timer

Hangup(c) == IF link[c] = "open" THEN "closing" ELSE link[c]

(* asyncio.Lock: a release hands the lock to the task that waited longest. *)
Release(c) ==
  IF owner # c THEN UNCHANGED lockVars
  ELSE IF waiters = <<>> THEN owner' = None /\ UNCHANGED waiters
  ELSE owner' = Head(waiters) /\ waiters' = Tail(waiters)

(* Control flow inside one handler. *)
Goto(c, label) == pc' = [pc EXCEPT ![c] = label]
SendTo(c, d, label) ==
  /\ Goto(c, "sending")
  /\ job' = [job EXCEPT ![c].peer = d, ![c].then = label]
Reply(c, label) == SendTo(c, c, label)
At(c, label) == current = c /\ pc[c] = label
InCrit(c, op) == At(c, "crit") /\ job[c].req.op = op
Wakes(c, label) == current = None /\ pc[c] = label
-----------------------------------------------------------------------------
(* The network and the peers, outside the code. *)

Lose(c) ==
  /\ current = None
  /\ link[c] = "closing" \/ (link[c] = "open" /\ "lost" \in Faults)
  /\ link' = [link EXCEPT ![c] = "lost"]
  /\ UNCHANGED <<flow, frames, handlerVars, busVars, lockVars, mainVars, kicked, current>>

PeerCloses(c) ==
  /\ current = None
  /\ link[c] = "open" /\ "close" \in Faults
  /\ link' = [link EXCEPT ![c] = "closing"]
  /\ UNCHANGED <<flow, frames, handlerVars, busVars, lockVars, mainVars, kicked, current>>

Stall(c) ==
  /\ current = None
  /\ link[c] = "open" /\ flow[c] = "clear"
  /\ Cardinality({d \in Conns : flow[d] # "clear"}) < StallBound
  /\ flow' = [flow EXCEPT ![c] = "stalled"]
  /\ UNCHANGED <<link, frames, handlerVars, busVars, lockVars, mainVars, kicked, current>>

Drain(c) ==
  /\ current = None
  /\ flow[c] = "stalled" /\ link[c] # "lost"
  /\ flow' = [flow EXCEPT ![c] = "drained"]
  /\ UNCHANGED <<link, frames, handlerVars, busVars, lockVars, mainVars, kicked, current>>

Signal ==
  /\ current = None
  /\ ~shutdown /\ "signal" \in Faults
  /\ shutdown' = TRUE
  /\ UNCHANGED <<netVars, handlerVars, busVars, lockVars, timer, main, toClose, atClose,
                 kicked, current>>
-----------------------------------------------------------------------------
(* A handler's life: accepted, authenticated, registered, cleaned up. *)

Connect(c) ==
  /\ current = None
  /\ pc[c] = "off"
  /\ main \in {"serving", "closing"}
  /\ link' = [link EXCEPT ![c] = "open"]
  /\ Goto(c, "hello")
  /\ timer' = "off"
  /\ UNCHANGED <<flow, frames, hello, sid, job, busVars, lockVars, shutdown, main, toClose,
                 atClose, kicked, current>>

\* A malformed hello, a failed proof, a bad role or a peer that went away.
HelloFails(c) ==
  /\ Wakes(c, "hello")
  /\ Goto(c, "exit")
  /\ current' = c
  /\ UNCHANGED <<netVars, hello, sid, job, busVars, lockVars, mainVars, kicked>>

HelloAccepted(c, h) ==
  /\ Wakes(c, "hello")
  /\ hello' = [hello EXCEPT ![c] = h]
  /\ job' = [job EXCEPT ![c].req = [op |-> "register"]]
  /\ Goto(c, "acquire")
  /\ current' = c
  /\ UNCHANGED <<netVars, sid, busVars, lockVars, mainVars, kicked>>

Acquire(c) ==
  /\ At(c, "acquire")
  /\ IF owner = None
       THEN owner' = c /\ Goto(c, "crit") /\ UNCHANGED <<waiters, current>>
       ELSE /\ waiters' = Append(waiters, c)
            /\ Goto(c, "queued")
            /\ current' = None
            /\ UNCHANGED owner
  /\ UNCHANGED <<netVars, hello, sid, job, busVars, mainVars, kicked>>

Granted(c) ==
  /\ Wakes(c, "queued")
  /\ owner = c
  /\ Goto(c, "crit")
  /\ current' = c
  /\ UNCHANGED <<netVars, hello, sid, job, busVars, lockVars, mainVars, kicked>>

\* SESSION_TAKEN and TOO_MANY_CONNECTIONS leave session_id unset, BAD_NAME and
\* NAME_TAKEN do not: their handler will clean up after a session it never was.
RegisterRefused(c) ==
  /\ InCrit(c, "register")
  /\ LET h == hello[c] IN
       IF registry[h.sid] # None \/ Full
         THEN UNCHANGED sid
         ELSE /\ h.role = "agent" /\ (h.name = BadName \/ NameTaken(h.name))
              /\ sid' = [sid EXCEPT ![c] = h.sid]
  /\ Reply(c, "exit")
  /\ UNCHANGED <<netVars, hello, busVars, lockVars, mainVars, kicked, current>>

Register(c) ==
  /\ InCrit(c, "register")
  /\ LET h == hello[c] IN
       /\ registry[h.sid] = None
       /\ ~Full
       /\ h.role = "agent" => h.name # BadName /\ ~NameTaken(h.name)
       /\ sid' = [sid EXCEPT ![c] = h.sid]
       /\ registry' = [registry EXCEPT ![h.sid] = c]
  /\ Release(c)
  /\ Reply(c, "recv")
  /\ UNCHANGED <<netVars, hello, channels, subscriptions, mainVars, kicked, current>>

\* The finally block; the lock is already released.
Exit(c) ==
  /\ At(c, "exit")
  /\ IF sid[c] = None
       THEN /\ Goto(c, "done")
            /\ link' = [link EXCEPT ![c] = Hangup(c)]
            /\ UNCHANGED registry
            /\ ScheduleIfEmpty
            /\ current' = None
            /\ job' = [job EXCEPT ![c] = NoJob]
            /\ hello' = [hello EXCEPT ![c] = None]
       ELSE /\ Goto(c, "acquire")
            /\ job' = [job EXCEPT ![c] = [NoJob EXCEPT !.req = [op |-> "cleanup"]]]
            /\ UNCHANGED <<link, registry, timer, current, hello>>
  /\ UNCHANGED <<flow, frames, sid, channels, subscriptions, lockVars, shutdown, main,
                 toClose, atClose, kicked>>

Cleanup(c) ==
  /\ InCrit(c, "cleanup")
  /\ ForgetSubscriptions(sid[c])
  /\ Release(c)
  /\ Unregister(sid[c])
  /\ ScheduleIfEmpty
  /\ sid' = [sid EXCEPT ![c] = None]
  /\ link' = [link EXCEPT ![c] = Hangup(c)]
  /\ job' = [job EXCEPT ![c] = NoJob]
  /\ hello' = [hello EXCEPT ![c] = None]
  /\ kicked' = kicked \ {c}
  /\ Goto(c, "done")
  /\ current' = None
  /\ UNCHANGED <<flow, frames, shutdown, main, toClose, atClose>>
-----------------------------------------------------------------------------
(* Sending a frame: the handler goes on at job.then, leaving the lock unless *)
(* it is inside publish's loop; a closed connection raises ConnectionClosed. *)

\* Mutant: a lock taken without `async with`.
Raise_KeepsLock(c) == UNCHANGED lockVars /\ Goto(c, "exit")
Raise(c) == Release(c) /\ Goto(c, "exit")

\* Only the KICKED notice is sent inside a try that swallows the exception.
Swallows(c) == job[c].then = "close"

Resume(c) ==
  LET k == job[c].then IN
  /\ Goto(c, k)
  /\ IF k = "fanout" THEN UNCHANGED lockVars ELSE Release(c)
  /\ current' = IF k = "recv" THEN None ELSE c
  /\ job' = IF k = "recv" THEN [job EXCEPT ![c] = NoJob] ELSE job

Sent(c) ==
  /\ At(c, "sending")
  /\ link[job[c].peer] = "open" /\ flow[job[c].peer] # "stalled"
  /\ Resume(c)
  /\ UNCHANGED <<netVars, hello, sid, busVars, mainVars, kicked>>

\* The frame is written but the peer does not read: send() waits in drain().
SendDrains(c) ==
  /\ At(c, "sending")
  /\ link[job[c].peer] = "open" /\ flow[job[c].peer] = "stalled"
  /\ Goto(c, "draining")
  /\ current' = None
  /\ UNCHANGED <<netVars, hello, sid, job, busVars, lockVars, mainVars, kicked>>

\* A connection that is being closed takes no frame: send() waits for its end.
SendTooLate(c) ==
  /\ At(c, "sending")
  /\ link[job[c].peer] = "closing"
  /\ Goto(c, "ending")
  /\ current' = None
  /\ UNCHANGED <<netVars, hello, sid, job, busVars, lockVars, mainVars, kicked>>

\* connection_lost wakes a draining task with or without an exception.
Drained(c) ==
  /\ Wakes(c, "draining")
  /\ flow[job[c].peer] = "drained" \/ link[job[c].peer] = "lost"
  /\ Resume(c)
  /\ UNCHANGED <<netVars, hello, sid, busVars, mainVars, kicked>>

SendRaises(c) ==
  /\ At(c, "sending") \/ Wakes(c, "draining") \/ Wakes(c, "ending")
  /\ link[job[c].peer] = "lost"
  /\ IF Swallows(c) THEN Resume(c)
     ELSE Raise(c) /\ current' = c /\ UNCHANGED job
  /\ UNCHANGED <<netVars, hello, sid, busVars, mainVars, kicked>>
-----------------------------------------------------------------------------
(* The frame loop of handle: one frame, then the operation it asks for. *)

\* Frames that arrived before a close are still read after it.
Receive(c, r) ==
  /\ Wakes(c, "recv")
  /\ frames < FrameBound
  /\ frames' = frames + 1
  /\ job' = [job EXCEPT ![c] = [NoJob EXCEPT !.req = r]]
  /\ Goto(c, "route")
  /\ current' = c
  /\ UNCHANGED <<link, flow, hello, sid, busVars, lockVars, mainVars, kicked>>

EndOfFrames(c) ==
  /\ Wakes(c, "recv")
  /\ link[c] = "lost"
  /\ Goto(c, "exit")
  /\ current' = c
  /\ UNCHANGED <<netVars, hello, sid, job, busVars, lockVars, mainVars, kicked>>

AgentOps == {"subscribe", "unsubscribe"}
ControlOps == {"kick", "shutdown", "channels"}
LockedOps == {"subscribe", "unsubscribe", "publish", "kick", "channels"}

MayUse(c, op) ==
  /\ op \in AgentOps => hello[c].role = "agent"
  /\ op \in ControlOps => hello[c].role = "control"

\* Answers that need no lock: BAD_ROLE, pong, list_ok, UNKNOWN_OP, argument
\* errors, shutdown_ok; a frame that is no JSON object and bye end the loop.
Answer(c) ==
  /\ At(c, "route")
  /\ LET op == job[c].req.op IN
       \/ ~MayUse(c, op) /\ Reply(c, "recv")
       \/ op = "ping" /\ Reply(c, "recv")
       \/ op = "malformed" /\ Reply(c, "exit")
       \/ op = "bye" /\ Goto(c, "exit") /\ UNCHANGED job
       \/ op = "shutdown" /\ MayUse(c, op) /\ Reply(c, "flag")
  /\ UNCHANGED <<netVars, hello, sid, busVars, lockVars, mainVars, kicked, current>>

SetShutdown(c) ==
  /\ At(c, "flag")
  /\ shutdown' = TRUE
  /\ Goto(c, "recv")
  /\ job' = [job EXCEPT ![c] = NoJob]
  /\ current' = None
  /\ UNCHANGED <<netVars, hello, sid, busVars, lockVars, timer, main, toClose, atClose, kicked>>

AskLock(c) ==
  /\ At(c, "route")
  /\ job[c].req.op \in LockedOps /\ MayUse(c, job[c].req.op)
  /\ Goto(c, "acquire")
  /\ UNCHANGED <<netVars, hello, sid, job, busVars, lockVars, mainVars, kicked, current>>

\* send, and custom with a "to".
RouteDirect(c) ==
  /\ At(c, "route")
  /\ job[c].req.op \in {"send", "custom"} /\ job[c].req.to # None
  /\ LET found == ResolveTarget(job[c].req.to) IN
       \/ found = {} /\ Reply(c, "recv")
       \/ \E d \in found : SendTo(c, d, "recv")
  /\ UNCHANGED <<netVars, hello, sid, busVars, lockVars, mainVars, kicked, current>>

\* broadcast, and custom without a "to": a loop over the live registry.
RouteToAll(c) ==
  /\ At(c, "route")
  /\ \/ job[c].req.op = "broadcast"
     \/ job[c].req.op = "custom" /\ job[c].req.to = None
  /\ job' = [job EXCEPT ![c].start = Registered]
  /\ Goto(c, "fanout")
  /\ UNCHANGED <<netVars, hello, sid, busVars, lockVars, mainVars, kicked, current>>
-----------------------------------------------------------------------------
(* Operations under the lock. *)

\* Mutant: the limit on the server's channels forgotten.
ChannelLimitReached_OwnOnly(s, ch) == Cardinality(Subs(s)) >= subscriptions_max
ChannelLimitReached(s, ch) ==
  \/ Cardinality(Subs(s)) >= subscriptions_max
  \/ ch \notin DOMAIN channels /\ Cardinality(DOMAIN channels) >= channels_max

\* The session's entry is created, and stays, whatever the answer is.
Subscribe(c) ==
  /\ InCrit(c, "subscribe")
  /\ LET s == sid[c]
         ch == job[c].req.channel
     IN  IF ch \in Subs(s) \/ ChannelLimitReached(s, ch)
           THEN /\ subscriptions' = With(subscriptions, s, Subs(s))
                /\ UNCHANGED channels
           ELSE /\ subscriptions' = With(subscriptions, s, Subs(s) \cup {ch})
                /\ channels' = With(channels, ch, Subscribers(ch) \cup {s})
  /\ Reply(c, "recv")
  /\ UNCHANGED <<netVars, hello, sid, registry, lockVars, mainVars, kicked, current>>

Unsubscribe(c) ==
  /\ InCrit(c, "unsubscribe")
  /\ LET s == sid[c]
         ch == job[c].req.channel
         left == Subs(s) \ {ch}
     IN  IF ch \notin Subs(s)
           THEN UNCHANGED <<channels, subscriptions>>
           ELSE /\ subscriptions' = IF left = {} THEN Without(subscriptions, s)
                                    ELSE With(subscriptions, s, left)
                /\ channels' = Discard({ch}, s)
  /\ Reply(c, "recv")
  /\ UNCHANGED <<netVars, hello, sid, registry, lockVars, mainVars, kicked, current>>

\* Mutant: the lock released before the loop over the subscribers.
Publish_Unlocked(c) ==
  /\ InCrit(c, "publish")
  /\ Release(c)
  /\ job' = [job EXCEPT ![c].start = Subscribers(job[c].req.channel)]
  /\ Goto(c, "fanout")
  /\ UNCHANGED <<netVars, hello, sid, busVars, mainVars, kicked, current>>

\* The error is UNKNOWN_CHANNEL, or BAD_FROM_NAME on a channel that exists.
Publish(c) ==
  /\ InCrit(c, "publish")
  /\ LET subscribers == Subscribers(job[c].req.channel) IN
       \/ Reply(c, "recv")
       \/ /\ subscribers # {}
          /\ job' = [job EXCEPT ![c].start = subscribers]
          /\ Goto(c, "fanout")
  /\ UNCHANGED <<netVars, hello, sid, busVars, lockVars, mainVars, kicked, current>>

ListChannels(c) ==
  /\ InCrit(c, "channels")
  /\ Reply(c, "recv")
  /\ UNCHANGED <<netVars, hello, sid, busVars, lockVars, mainVars, kicked, current>>

\* A session id has one holder, a name may be shared with control connections.
KickTargets(who) ==
  {d \in Registered : (who \in Sids /\ registry[who] = d) \/ hello[d].name = who}

KickRefused(c) ==
  /\ InCrit(c, "kick")
  /\ \/ KickTargets(job[c].req.who) = {}
     \/ \E d \in KickTargets(job[c].req.who) : hello[d].role # "agent"
  /\ Reply(c, "recv")
  /\ UNCHANGED <<netVars, hello, sid, busVars, lockVars, mainVars, kicked, current>>

\* The target leaves the registry and its channels before kick_ok is sent.
Kick(c) ==
  /\ InCrit(c, "kick")
  /\ \E d \in KickTargets(job[c].req.who) :
       /\ hello[d].role = "agent"
       /\ Unregister(hello[d].sid)
       /\ ForgetSubscriptions(hello[d].sid)
       /\ kicked' = kicked \cup {d}
       /\ job' = [job EXCEPT ![c].victim = d, ![c].peer = c, ![c].then = "kicked"]
  /\ Goto(c, "sending")
  /\ UNCHANGED <<netVars, hello, sid, lockVars, mainVars, current>>

NotifyKicked(c) ==
  /\ At(c, "kicked")
  /\ SendTo(c, job[c].victim, "close")
  /\ UNCHANGED <<netVars, hello, sid, busVars, lockVars, mainVars, kicked, current>>

\* Mutant: the target left to close its own connection.
CloseKicked_LeftOpen(c) ==
  /\ At(c, "close")
  /\ Goto(c, "closing")
  /\ current' = None
  /\ UNCHANGED <<netVars, hello, sid, job, busVars, lockVars, mainVars, kicked>>

CloseKicked(c) ==
  /\ At(c, "close")
  /\ link' = [link EXCEPT ![job[c].victim] = Hangup(job[c].victim)]
  /\ Goto(c, "closing")
  /\ current' = None
  /\ UNCHANGED <<flow, frames, hello, sid, job, busVars, lockVars, mainVars, kicked>>

KickDone(c) ==
  /\ Wakes(c, "closing")
  /\ link[job[c].victim] = "lost"
  /\ UNCHANGED registry
  /\ ScheduleIfEmpty
  /\ Goto(c, "recv")
  /\ job' = [job EXCEPT ![c] = NoJob]
  /\ UNCHANGED <<netVars, hello, sid, channels, subscriptions, lockVars, shutdown, main, toClose,
                 atClose, kicked, current>>
-----------------------------------------------------------------------------
(* The loops that send one frame to many: publish iterates over the set of   *)
(* a channel's session ids, broadcast over the registry itself.  Python      *)
(* raises RuntimeError when the collection changed size since the loop began.*)
(* When entries were replaced by others, the layout of the dict decides what *)
(* is visited, what is passed over, and whether the loop raises.             *)

Live(c) ==
  IF job[c].req.op = "publish" THEN Subscribers(job[c].req.channel) ELSE Registered

\* The connection the loop sends to for element x, None when it skips x.
Recipient(c, x) ==
  IF job[c].req.op = "publish"
    THEN IF x # sid[c] THEN registry[x] ELSE None
    ELSE IF hello[x].sid # sid[c] /\ hello[x].role = "agent" THEN x ELSE None

FanOutNext(c, x) ==
  /\ At(c, "fanout")
  /\ Cardinality(Live(c)) = Cardinality(job[c].start)
  /\ x \in Live(c) \ job[c].seen
  /\ Recipient(c, x) # None
  /\ Goto(c, "sending")
  /\ job' = [job EXCEPT ![c].seen = @ \cup {x}, ![c].peer = Recipient(c, x), ![c].then = "fanout"]
  /\ UNCHANGED <<netVars, hello, sid, busVars, lockVars, mainVars, kicked, current>>

FanOutDone(c) ==
  /\ At(c, "fanout")
  /\ Cardinality(Live(c)) = Cardinality(job[c].start)
  /\ Live(c) # job[c].start \/ \A x \in Live(c) \ job[c].seen : Recipient(c, x) = None
  /\ Release(c)
  /\ Goto(c, "recv")
  /\ job' = [job EXCEPT ![c] = NoJob]
  /\ current' = None
  /\ UNCHANGED <<netVars, hello, sid, busVars, mainVars, kicked>>

FanOutBreaks(c) ==
  /\ At(c, "fanout")
  /\ Live(c) # job[c].start
  /\ Raise(c)
  /\ UNCHANGED <<netVars, hello, sid, job, busVars, mainVars, kicked, current>>
-----------------------------------------------------------------------------
(* run_server and the idle timer. *)

IdleTimerFires ==
  /\ current = None
  /\ timer = "armed"
  /\ timer' = "off"
  /\ shutdown' = TRUE
  /\ UNCHANGED <<netVars, handlerVars, busVars, lockVars, main, toClose, atClose, kicked, current>>

ShutdownBegins ==
  /\ current = None
  /\ main = "serving" /\ shutdown
  /\ timer' = "off"
  /\ main' = "closing"
  /\ toClose' = Registered
  /\ current' = Main
  /\ UNCHANGED <<netVars, handlerVars, busVars, lockVars, shutdown, atClose, kicked>>

\* close() of one connection returns once it is lost.
CloseNext(c) ==
  /\ main = "closing" /\ c \in toClose
  /\ \/ current = Main
     \/ current = None /\ atClose # None /\ link[atClose] = "lost"
  /\ link' = [link EXCEPT ![c] = Hangup(c)]
  /\ toClose' = toClose \ {c}
  /\ atClose' = c
  /\ current' = None
  /\ UNCHANGED <<flow, frames, handlerVars, busVars, lockVars, timer, shutdown, main, kicked>>

\* Mutant: the serve context left without closing what is not registered.
StopListening_OnlyRegistered ==
  /\ main = "closing" /\ toClose = {}
  /\ \/ current = Main
     \/ current = None /\ atClose # None /\ link[atClose] = "lost"
  /\ main' = "exiting"
  /\ atClose' = None
  /\ current' = None
  /\ UNCHANGED <<netVars, handlerVars, busVars, lockVars, timer, shutdown, toClose, kicked>>

\* Leaving the serve context: no more connections are accepted and the ones
\* that are left are closed.
StopListening ==
  /\ main = "closing" /\ toClose = {}
  /\ \/ current = Main
     \/ current = None /\ atClose # None /\ link[atClose] = "lost"
  /\ main' = "exiting"
  /\ atClose' = None
  /\ link' = [c \in Conns |-> Hangup(c)]
  /\ current' = None
  /\ UNCHANGED <<flow, frames, handlerVars, busVars, lockVars, timer, shutdown, toClose, kicked>>

Stop ==
  /\ current = None
  /\ main = "exiting"
  /\ \A c \in Conns : pc[c] \in {"off", "done"}
  /\ main' = "stopped"
  /\ timer' = "off"
  /\ UNCHANGED <<netVars, handlerVars, busVars, lockVars, shutdown, toClose, atClose, kicked,
                 current>>
-----------------------------------------------------------------------------
Network(c) == Lose(c) \/ PeerCloses(c) \/ Stall(c) \/ Drain(c)

Enter(c) == Connect(c) \/ HelloFails(c) \/ \E h \in Hellos : HelloAccepted(c, h)

Locking(c) == Acquire(c) \/ Granted(c) \/ RegisterRefused(c) \/ Register(c) \/ Cleanup(c)

Sending(c) == Sent(c) \/ SendDrains(c) \/ SendTooLate(c) \/ Drained(c) \/ SendRaises(c)

Routing(c) ==
  \/ Answer(c) \/ SetShutdown(c) \/ AskLock(c) \/ RouteDirect(c) \/ RouteToAll(c)
  \/ Subscribe(c) \/ Unsubscribe(c) \/ Publish(c) \/ ListChannels(c)
  \/ KickRefused(c) \/ Kick(c) \/ NotifyKicked(c) \/ CloseKicked(c) \/ KickDone(c)
  \/ (\E x \in Conns \cup Sids : FanOutNext(c, x)) \/ FanOutDone(c) \/ FanOutBreaks(c)

\* What a handler does by itself, without waiting for its client's next frame.
Handler(c) == Locking(c) \/ Sending(c) \/ Routing(c) \/ EndOfFrames(c) \/ Exit(c)

Server ==
  IdleTimerFires \/ ShutdownBegins \/ (\E c \in Conns : CloseNext(c)) \/ StopListening \/ Stop

Next ==
  \/ \E c \in Conns :
       Network(c) \/ Enter(c) \/ (\E r \in Requests : Receive(c, r)) \/ Handler(c)
  \/ Server
  \/ Signal

Spec == Init /\ [][Next]_vars

\* A task that can run is run by the event loop; a closing handshake ends (the
\* library's close timeout); a peer that stalls reads again or is lost (TCP); a
\* handshake whose connection ended is over.
Fairness ==
  /\ \A c \in Conns : WF_vars(Handler(c))
  /\ \A c \in Conns : WF_vars(link[c] # "open" /\ HelloFails(c))
  /\ \A c \in Conns : WF_vars(link[c] = "closing" /\ Lose(c))
  /\ \A c \in Conns : WF_vars(Drain(c))
  /\ WF_vars(Server)

FairSpec == Spec /\ Fairness
-----------------------------------------------------------------------------
(* Properties. *)

SendLabels == {"sending", "draining", "ending"}

VarTypes ==
  /\ link \in [Conns -> {"idle", "open", "closing", "lost"}]
  /\ flow \in [Conns -> {"clear", "stalled", "drained"}]
  /\ frames \in 0..FrameBound
  /\ pc \in [Conns -> Labels]
  /\ hello \in [Conns -> Hellos \cup {None}]
  /\ sid \in [Conns -> Sids \cup {None}]
  /\ job \in [Conns -> Jobs]
  /\ registry \in [Sids -> Conns \cup {None}]
  /\ DOMAIN channels \subseteq Channels
  /\ channels \in [DOMAIN channels -> SUBSET Sids]
  /\ DOMAIN subscriptions \subseteq Sids
  /\ subscriptions \in [DOMAIN subscriptions -> SUBSET Channels]
  /\ owner \in Conns \cup {None}
  /\ waiters \in Seq(Conns)
  /\ timer \in {"off", "armed"}
  /\ shutdown \in BOOLEAN
  /\ main \in {"serving", "closing", "exiting", "stopped"}
  /\ toClose \subseteq Conns
  /\ atClose \in Conns \cup {None}
  /\ kicked \subseteq Conns
  /\ current \in Conns \cup {Main, None}

\* The locals of handle a handler can rely on, by where it is: session_id is
\* set from registration to cleanup and no longer, a send has a recipient (a
\* resolution that failed never reaches it), a kick has its target.
HandlerType(c) ==
  /\ sid[c] # None => hello[c] \in Hellos /\ sid[c] = hello[c].sid
  /\ pc[c] \in {"off", "hello", "done"} => sid[c] = None
  /\ job[c].req.op = "register" => hello[c] \in Hellos
  /\ (job[c].req.op = "register" /\ pc[c] \in {"acquire", "queued", "crit"}) => sid[c] = None
  /\ job[c].req.op \notin {"register", "none"} => sid[c] \in Sids
  /\ pc[c] \in {"recv", "route", "fanout", "flag", "kicked", "close", "closing"} => sid[c] \in Sids
  /\ (pc[c] \in SendLabels /\ job[c].then # "exit") => sid[c] \in Sids
  /\ pc[c] \in SendLabels => job[c].peer \in Conns
  /\ pc[c] \in SendLabels => job[c].then \in {"recv", "exit", "fanout", "flag", "kicked", "close"}
  /\ (pc[c] \in {"kicked", "close", "closing"} \/ job[c].then \in {"kicked", "close"})
       => job[c].victim \in Conns

HandlerTypes == \A c \in Conns : HandlerType(c)

\* The type invariant, strong enough to be inductive.
TypeOK == VarTypes /\ HandlerTypes

Waiting == {waiters[i] : i \in DOMAIN waiters}

\* No wake-up of the lock is lost: whoever waits is queued exactly once or has
\* just been handed the lock, and only the owner runs under it (every
\* `async with self._lock` of server.py, including the ones an error unwinds).
LockDiscipline ==
  /\ \A c \in Conns :
       /\ pc[c] = "queued" => c \in Waiting \/ owner = c
       /\ c \in Waiting => pc[c] = "queued"
       /\ pc[c] = "crit" => owner = c
       /\ owner = c => pc[c] \in {"queued", "crit", "fanout", "sending", "draining", "ending"}
  /\ owner = None => waiters = <<>>
  /\ owner \notin Waiting
  /\ \A i, j \in DOMAIN waiters : waiters[i] = waiters[j] => i = j

\* self.channels and self.subscriptions are each other's inverse after any
\* mixture of subscribe, unsubscribe, kick and cleanup, and a channel vanishes
\* with its last subscriber; self.channels[channel] never raises KeyError.
ChannelsMirrorSubscriptions ==
  /\ \A ch \in DOMAIN channels : channels[ch] # {}
  /\ \A ch \in Channels, s \in Sids : s \in Subscribers(ch) <=> ch \in Subs(s)

\* The three limits are checked and used in one critical section.
WithinLimits ==
  /\ Cardinality(Sessions) <= connection_max
  /\ Cardinality(DOMAIN channels) <= channels_max
  /\ \A s \in Sids : Cardinality(Subs(s)) <= subscriptions_max

\* An agent's routing name is its own among the agents, whatever reconnects
\* and cleanups happen around the check in handle.
AgentNamesUnique ==
  \A c, d \in Registered :
    (c # d /\ hello[c].role = "agent" /\ hello[d].role = "agent") => hello[c].name # hello[d].name

\* A subscription never outlives the handlers of its session, even one added by
\* a frame of a kicked session or reinstated under a reused session id.
NoOrphanSubscription ==
  \A s \in DOMAIN subscriptions : \E c \in Conns : sid[c] = s

\* Whoever is in the registry has a handler that has yet to take it out again.
RegisteredSessionHasHandler ==
  \A s \in Sids : registry[s] # None => sid[registry[s]] = s

\* publish iterates over the channel's set itself, not over a copy: the lock
\* keeps it still for as long as the slowest subscriber takes.
PublishSetStable ==
  \A c \in Conns :
    /\ pc[c] \in {"fanout", "sending", "draining", "ending"}
    /\ job[c].req.op = "publish" /\ job[c].start # {}
    => Subscribers(job[c].req.channel) = job[c].start

\* With an idle timeout, a server nobody is connected to is counting down: the
\* last handler to leave restarts the timer that its arrival cancelled.
IdleTimerArmed ==
  (IdleTimeout /\ ~shutdown /\ \A c \in Conns : pc[c] \in {"off", "done"}) => timer = "armed"

\* A connection that ended leaves the registry, also when its handler was
\* waiting for the lock or for a slow peer.
LostSessionsLeave ==
  \A c \in Conns : (link[c] = "lost" /\ c \in Registered) ~> c \notin Registered

\* Whatever a handler does for a frame ends: the holder of the lock may wait for
\* a slow peer in the middle of a publish, and then everybody else with it, but
\* no two handlers ever wait for each other.
HandlersComeBack ==
  \A c \in Conns :
    pc[c] \notin {"off", "hello", "recv", "done"} ~> pc[c] \in {"recv", "done"}

\* A shutdown request, a signal or the idle timer ends the server.
ShutdownCompletes == shutdown ~> main = "stopped"

(* What the documentation says and the code does not do. *)

\* ARCHITECTURE.md: a session id "may be reused after the previous connection
\* closes", and _handle_kick: the late finally "does not double-remove".  So a
\* welcomed connection nobody kicked stays registered while it is open.
LiveSessionStaysRegistered ==
  \A c \in Conns :
    (pc[c] = "recv" /\ link[c] = "open" /\ c \notin kicked) => c \in Registered
=============================================================================
