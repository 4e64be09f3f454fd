------------------------------ MODULE Listener ------------------------------
(***************************************************************************)
(* The long-lived listener of an agent: Listener.run and _run_session of   *)
(* adapters/claude/listener.py, run_listener and _connect_and_stream of    *)
(* adapters/pi/listener.py, and the requests that ControlServer in         *)
(* adapters/control.py hands to the session.  Each session is an           *)
(* AgentSession; `adapter` says which of the two programs runs.            *)
(***************************************************************************)
EXTENDS AgentSession

CONSTANTS
  Handlers,       \* tasks of ControlServer._handle_connection
  Replay,         \* the main task, when it reapplies the subscriptions
  SessionBound,   \* bound: connections that get past the handshake
  RequestBound    \* bound: control requests

ASSUME HandlersAssumption == Callers = Handlers \cup {Replay} /\ Replay \notin Handlers
ASSUME ListenerBoundsAssumption == {SessionBound, RequestBound} \subseteq Nat

VARIABLES
  adapter,        \* claude or pi
  main,           \* where the main task is
  outcome,        \* why the session is being left
  stop,           \* self._stop: SIGTERM was received
  desired,        \* self._desired_channels
  todo,           \* channels the replay has still to subscribe to
  bound,          \* the control socket accepts requests
  ready,          \* the welcome was processed
  deadline,       \* of reconnecting: none, running, passed
  renamed,        \* name_retry_used
  missed,         \* a SIGTERM got lost in ControlServer.start, which then fails
  number,         \* sessions so far
  requests,       \* control requests so far
  slipped,        \* history: a command on the wire timed out in this session
  refused,        \* history: channels whose replay the server refused
  told            \* history: where the KICKED notice went

listenerVars == <<adapter, main, outcome, stop, missed, desired, todo, bound, ready, deadline,
                  renamed, number, requests, slipped, refused, told>>
vars == <<sessionVars, listenerVars>>

Mains == {"starting", "connecting", "serving", "replaying", "binding",
          "leaving", "pausing", "exited"}
Outcomes == {"returned", "lost", "cancelled", "fatal", "taken"}

Init ==
  /\ SessionInit
  /\ adapter \in {"claude", "pi"}
  /\ main = "starting" /\ outcome = "returned"
  /\ stop = FALSE /\ missed = FALSE /\ bound = FALSE /\ ready = FALSE /\ renamed = FALSE
  /\ desired = {} /\ todo = {} /\ refused = {}
  /\ deadline = "none"
  /\ number = 0 /\ requests = 0
  /\ slipped = FALSE /\ told = "nowhere"

-----------------------------------------------------------------------------
(* The loop around the sessions. *)

Exit == main' = "exited" /\ desired' = {}

\* Behind the try statement of the loop.  Only a session that returned by
\* itself, or a new name, resets the deadline.
\* Mutant: every failed attempt starts the deadline anew.
After_Rearms(o) ==
  \/ o \in {"fatal", "taken"} /\ Exit /\ UNCHANGED <<deadline, renamed>>
  \/ /\ o \in {"returned", "lost", "cancelled"}
     /\ deadline' = "running"
     /\ IF stop THEN Exit ELSE main' = "pausing" /\ UNCHANGED desired
     /\ UNCHANGED renamed

After(o) ==
  \/ /\ o = "fatal" \/ (o = "taken" /\ (renamed \/ adapter = "pi"))
     /\ Exit /\ UNCHANGED <<deadline, renamed>>
  \/ /\ o = "taken" /\ ~renamed /\ adapter = "claude"
     /\ renamed' = TRUE /\ deadline' = "none"
     /\ IF stop THEN Exit ELSE main' = "connecting" /\ UNCHANGED desired
  \/ /\ o \in {"returned", "lost", "cancelled"}
     /\ deadline' = IF o = "returned" \/ deadline = "none" THEN "running" ELSE deadline
     /\ IF stop \/ deadline' = "passed" THEN Exit ELSE main' = "pausing" /\ UNCHANGED desired
     /\ UNCHANGED renamed

\* The endpoint accepts connections, at once or after an auto-started
\* server came up.
ServerFound ==
  /\ main = "starting"
  /\ IF stop THEN Exit ELSE main' = "connecting" /\ UNCHANGED desired
  /\ UNCHANGED <<sessionVars, adapter, outcome, stop, missed, todo, bound, ready, deadline, renamed,
                 number, requests, slipped, refused, told>>

\* It does not come up in time: pi tries again until its deadline.  Either
\* program gives up when the server's process cannot be started.
ServerMissing ==
  /\ main = "starting"
  /\ \/ Exit /\ UNCHANGED deadline
     \/ /\ adapter = "pi"
        /\ deadline' = IF deadline = "none" THEN "running" ELSE deadline
        /\ IF deadline' = "passed" THEN Exit ELSE main' = "pausing" /\ UNCHANGED desired
  /\ UNCHANGED <<sessionVars, adapter, outcome, stop, missed, todo, bound, ready, renamed,
                 number, requests, slipped, refused, told>>

\* __aenter__ returns: the first frame is a welcome or the server's refusal.
Connected ==
  /\ main = "connecting" /\ number < SessionBound
  /\ \E first \in {Welcome} \cup {Frame("error", code, None, None) : code \in {"refused", "permanent", "taken"}} :
       Open(first)
  /\ main' = "serving" /\ number' = number + 1
  /\ slipped' = FALSE /\ refused' = {} /\ told' = "nowhere"
  /\ UNCHANGED <<adapter, outcome, stop, missed, desired, todo, bound, ready, deadline, renamed, requests>>

\* __aenter__ raises: OSError and ConnectionClosed are tried again; an
\* authentication failure and a service that does not speak WebSocket end
\* the process.
ConnectFails ==
  /\ main = "connecting"
  /\ \E o \in {"lost", "fatal"} : After(o)
  /\ UNCHANGED <<sessionVars, adapter, outcome, stop, missed, todo, bound, ready, number, requests,
                 slipped, refused, told>>

DeadlinePasses ==
  /\ deadline = "running"
  /\ deadline' = "passed"
  /\ UNCHANGED <<sessionVars, adapter, main, outcome, stop, missed, desired, todo, bound, ready, renamed,
                 number, requests, slipped, refused, told>>

\* The backoff is over, or SIGTERM cut it short.
WakeUp_Ignores ==       \* mutant: the loop does not look at the event again
  /\ main = "pausing"
  /\ main' = (IF adapter = "pi" THEN "starting" ELSE "connecting")
  /\ UNCHANGED <<sessionVars, adapter, outcome, stop, missed, desired, todo, bound, ready, deadline, renamed,
                 number, requests, slipped, refused, told>>
WakeUp ==
  /\ main = "pausing"
  /\ IF stop THEN Exit
     ELSE main' = (IF adapter = "pi" THEN "starting" ELSE "connecting") /\ UNCHANGED desired
  /\ UNCHANGED <<sessionVars, adapter, outcome, stop, missed, todo, bound, ready, deadline, renamed,
                 number, requests, slipped, refused, told>>

-----------------------------------------------------------------------------
(* Inside a session. *)

\* The finally block of the session: no more control requests.  A KICKED
\* notice that is still in the inbox will not be read when a failed write
\* (state file, standard output) ends the session.
Leave(o) ==
  /\ main' = "leaving" /\ outcome' = o /\ bound' = FALSE
  /\ told' = IF told = "inbox" /\ o = "lost" THEN "hidden" ELSE told

\* Which frames end the session.  NAME_TAKEN, the permanent codes and KICKED
\* are looked for in every error by claude; pi looks for KICKED only behind
\* the welcome, for the others only in the first frame, and returns on any
\* other error there.
EndsSession_NotKicked(f) == f = Eof \/ (f.op = "error" /\ f.code \in {"permanent", "taken"})
EndsSession(f) == f = Eof \/ (f.op = "error" /\ (f.code \in {"permanent", "taken", "kicked"} \/ (adapter = "pi" /\ ~ready)))
Verdict(f) ==
  IF f.code = "taken" /\ (adapter = "claude" \/ ~ready) THEN "taken"
  ELSE IF f = Eof \/ f.code = "refused" THEN "returned" ELSE "fatal"

\* `async for raw in session`
TakeFrame ==
  /\ main = "serving" /\ inbox # << >>
  /\ inbox' = Tail(inbox)
  /\ LET f == Head(inbox) IN
       \/ /\ f = Welcome
          /\ main' = "replaying" /\ todo' = desired
          /\ UNCHANGED <<outcome, bound, told>>
       \/ EndsSession(f) /\ Leave(Verdict(f)) /\ UNCHANGED todo
       \/ /\ f # Welcome /\ ~EndsSession(f)
          /\ UNCHANGED <<main, todo, outcome, bound, told>>
  /\ UNCHANGED <<link, up, down, subscribed, closed, reader, pending, lock, call, adapter, stop, missed,
                 desired, ready, deadline, renamed, number, requests, slipped, refused>>

\* Standard output cannot be written: the host that reads it is gone.
WriteFails ==
  /\ main = "serving" /\ ready
  /\ Leave("lost")
  /\ UNCHANGED <<sessionVars, adapter, stop, missed, desired, todo, ready, deadline, renamed, number,
                 requests, slipped, refused>>

\* _on_welcome, reapply_desired: one subscribe after the other.
ReplayNext ==
  /\ main = "replaying" /\ call[Replay].pc = "idle"
  /\ \E c \in todo : Ask(Replay, "subscribe", c) /\ todo' = todo \ {c}
  /\ UNCHANGED <<adapter, main, outcome, stop, missed, desired, bound, ready, deadline, renamed,
                 number, requests, slipped, refused, told>>

\* On to ControlServer.start, which waits for the probe of what is at its
\* path, for the new server, and for one that could not be set up to close.
ReplayDone ==
  /\ main = "replaying" /\ call[Replay].pc = "idle" /\ todo = {}
  /\ main' = "binding"
  /\ UNCHANGED <<sessionVars, adapter, outcome, stop, missed, desired, todo, bound, ready, deadline,
                 renamed, number, requests, slipped, refused, told>>

\* The control socket is bound, or unavailable; claude then writes its
\* state file.
ControlStarted ==
  /\ main = "binding"
  /\ \/ /\ main' = "serving" /\ ready' = TRUE
        /\ bound' \in BOOLEAN /\ (bound' => ~missed)
        /\ UNCHANGED <<outcome, told>>
     \/ adapter = "claude" /\ Leave("lost") /\ UNCHANGED ready
  /\ UNCHANGED <<sessionVars, adapter, stop, missed, desired, todo, deadline, renamed, number,
                 requests, slipped, refused>>

\* ControlServer.stop has waited for its handlers; the session is closed.
LeaveDone ==
  /\ main = "leaving" /\ \A t \in Callers : call[t].pc = "idle"
  /\ Close
  /\ ready' = FALSE
  /\ After(outcome)
  /\ UNCHANGED <<adapter, outcome, stop, missed, todo, bound, number, requests, slipped, refused, told>>

\* SIGTERM, not only the first one: stop() also cancels the task of the
\* connection, wherever it is.  probe_alive and _close_server drop a
\* cancellation that reaches them while they wait for a socket to close:
\* the session then goes on, without a control server.
Stop_NoCancel ==       \* mutant: only the event is set
  /\ adapter = "claude" /\ main # "exited"
  /\ stop' = TRUE
  /\ UNCHANGED <<sessionVars, adapter, main, outcome, missed, desired, todo, bound, ready, deadline, renamed,
                 number, requests, slipped, refused, told>>
Stop ==
  /\ adapter = "claude" /\ main # "exited"
  /\ stop' = TRUE
  /\ \/ /\ main = "connecting" /\ Exit
        /\ UNCHANGED <<sessionVars, outcome, missed, bound, told>>
     \/ /\ main \in {"serving", "replaying", "binding"} /\ Leave("cancelled")
        /\ IF call[Replay].pc \in {"queued", "waiting"} THEN Expire(Replay) ELSE UNCHANGED sessionVars
        /\ UNCHANGED <<desired, missed>>
     \/ /\ main = "binding" /\ missed' = TRUE
        /\ UNCHANGED <<sessionVars, main, outcome, bound, told, desired>>
     \/ /\ main = "leaving" /\ outcome' \in {outcome, "cancelled"}
        /\ UNCHANGED <<sessionVars, main, missed, bound, told, desired>>
     \/ /\ main \in {"starting", "pausing"}
        /\ UNCHANGED <<sessionVars, main, outcome, missed, bound, told, desired>>
  /\ UNCHANGED <<adapter, todo, ready, deadline, renamed, number, requests, slipped, refused>>

-----------------------------------------------------------------------------
(* Commands: the replay's and the control requests'. *)

\* _handle_connection reads a valid request and calls the listener back.
Request_Unchecked(h) ==       \* mutant: a request without a channel is passed on
  /\ bound /\ requests < RequestBound
  /\ \E op \in Ops : Ask(h, op, None)
  /\ requests' = requests + 1
  /\ UNCHANGED <<adapter, main, outcome, stop, missed, desired, todo, bound, ready, deadline, renamed,
                 number, slipped, refused, told>>
Request(h) ==
  /\ bound /\ requests < RequestBound
  /\ \E op \in Ops, c \in Channels : Ask(h, op, c)
  /\ requests' = requests + 1
  /\ UNCHANGED <<adapter, main, outcome, stop, missed, desired, todo, bound, ready, deadline, renamed,
                 number, slipped, refused, told>>

\* The frame leaves, or the session raises.
Proceed(t) == Issue(t) /\ UNCHANGED listenerVars

\* The 0.1 s of a command that was sent, or the 2 s of the control request.
GiveUp(t) ==
  /\ call[t].pc = "waiting" \/ t \in Handlers
  /\ Expire(t)
  /\ slipped' = (slipped \/ call[t].pc = "waiting")
  /\ UNCHANGED <<adapter, main, outcome, stop, missed, desired, todo, bound, ready, deadline, renamed,
                 number, requests, refused, told>>

\* What a control request learns from its answer.
Learned_Always(t, answer) ==       \* mutant: whatever the answer was
  IF call[t].op = "subscribe" THEN desired \cup {call[t].channel} ELSE desired \ {call[t].channel}
Learned(t, answer) ==
  IF answer.op = "subscribe_ok" /\ call[t].op = "subscribe" THEN desired \cup {call[t].channel}
  ELSE IF answer.op = "unsubscribe_ok" /\ call[t].op = "unsubscribe" THEN desired \ {call[t].channel}
  ELSE desired

\* The answer goes back to the handler, and from there to the command that
\* asked; the replay ignores answers and exceptions alike.
Answered(t) ==
  /\ Finish(t)
  /\ desired' = IF t = Replay THEN desired ELSE Learned(t, Result(t))
  /\ refused' = IF t = Replay /\ Result(t).code = "refused" THEN refused \cup {call[t].channel} ELSE refused
  /\ UNCHANGED <<adapter, main, outcome, stop, missed, todo, bound, ready, deadline, renamed,
                 number, requests, slipped, told>>

\* The reader task.
Reads ==
  /\ Read
  /\ told' = IF Head(down) # Kicked THEN told
             ELSE IF Routed(Kicked) THEN "command" ELSE IF main = "leaving" THEN "hidden" ELSE "inbox"
  /\ UNCHANGED <<adapter, main, outcome, stop, missed, desired, todo, bound, ready, deadline, renamed,
                 number, requests, slipped, refused>>
ReaderStops == ReaderEnds /\ UNCHANGED listenerVars

\* The server and the network.
Server == (Serve \/ Kick \/ Lose) /\ UNCHANGED listenerVars

Next ==
  \/ ServerFound \/ ServerMissing \/ Connected \/ ConnectFails \/ DeadlinePasses \/ WakeUp
  \/ TakeFrame \/ WriteFails \/ ReplayNext \/ ReplayDone \/ ControlStarted \/ LeaveDone \/ Stop
  \/ Reads \/ ReaderStops \/ Server
  \/ \E h \in Handlers : Request(h)
  \/ \E t \in Callers : Proceed(t) \/ GiveUp(t) \/ Answered(t)

Spec == Init /\ [][Next]_vars

\* The steps each task takes when nothing but the event loop decides.
MainStep ==
  \/ ServerFound \/ ServerMissing \/ Connected \/ ConnectFails \/ WakeUp
  \/ TakeFrame \/ ReplayNext \/ ReplayDone \/ ControlStarted \/ LeaveDone
CallerStep(t) == Proceed(t) \/ Answered(t) \/ (call[t].pc = "waiting" /\ GiveUp(t))

\* The event loop runs what is ready, timers fire, and a started attempt to
\* connect ends.  The server, the network and the user owe nothing.
Fairness ==
  /\ WF_vars(MainStep) /\ WF_vars(DeadlinePasses) /\ WF_vars(Reads \/ ReaderStops)
  /\ \A t \in Callers : WF_vars(CallerStep(t))
FairSpec == Spec /\ Fairness

-----------------------------------------------------------------------------
(* Properties. *)

\* Every variable has its type.
TypeOK ==
  /\ SessionTypeOK
  /\ adapter \in {"claude", "pi"} /\ main \in Mains /\ outcome \in Outcomes
  /\ stop \in BOOLEAN /\ missed \in BOOLEAN /\ bound \in BOOLEAN /\ ready \in BOOLEAN
  /\ renamed \in BOOLEAN /\ slipped \in BOOLEAN
  /\ desired \subseteq Channels /\ todo \subseteq Channels /\ refused \subseteq Channels
  /\ deadline \in {"none", "running", "passed"}
  /\ number \in 0..SessionBound /\ requests \in 0..RequestBound
  /\ told \in {"nowhere", "inbox", "command", "hidden"}

\* As long as no command times out, a session at rest has exactly the
\* subscriptions the listener will ask for again, but for those whose
\* replay the server refused (_handle_control_request, _on_welcome).
Quiet == link = "open" /\ up = << >> /\ down = << >> /\ lock = << >> /\ main = "serving" /\ ready
SubscriptionsAgree ==
  Quiet /\ ~slipped => subscribed \subseteq desired /\ desired \ subscribed \subseteq refused

\* As long as no command times out, a command is answered with the frame
\* the server meant for it, or with a notice nobody asked for: the pending
\* slot and the lock of _exchange.
AnswersMatch ==
  ~slipped => \A t \in Callers : call[t].future \in Frames => call[t].future.for \in {t, None}

\* The slot belongs to the command that owns the lock and was sent
\* (_exchange): nothing else can be answered.
SlotBelongsToOwner ==
  pending # None => lock # << >> /\ Head(lock) = pending /\ call[pending].pc \in {"waiting", "expired"}

\* A KICKED notice that reaches the inbox ends the process: no later
\* session, however it is interleaved with commands, losses and SIGTERM.
KickedStaysAway == [][told = "inbox" => number' = number]_vars

\* "A KICKED error ends this listener process without reconnecting."
KickIsTerminal == [][told # "nowhere" => number' = number]_vars

\* Every control request is answered.
CommandsEnd == \A h \in Handlers : call[h].pc # "idle" ~> call[h].pc = "idle"

\* SIGTERM ends the Claude listener, whatever it is doing; one that got lost
\* in ControlServer.start does so when the session is over (Listener.stop).
StopEnds == stop /\ (missed => link # "open") ~> main = "exited"

\* Behind SIGTERM the listener begins no further session, not even when the
\* signal got lost or came again (the loop of Listener.run).
StopStays == [][stop => number' = number]_vars

\* A session whose connection is over is closed and left.
LossIsNoticed == link = "closed" ~> link = "none"

\* A listener that gets no session any more gives up.
GivesUp == <>[](link = "none") => <>(main = "exited")
=============================================================================
