---------------------------- MODULE SendCommands ----------------------------
(***************************************************************************)
(* The short-lived commands.  `send`, `broadcast` and `publish` of         *)
(* adapters/claude/commands.py with the duplicate suppression of dedup.py, *)
(* the same of adapters/pi/commands.py without it, the requests (kick,     *)
(* list, channels, shutdown) and the status probe of core, down to the     *)
(* client side of the handshake in core/auth.py.                           *)
(*                                                                         *)
(* Each invocation is a process of its own.  They meet in one file, the    *)
(* suppression cache, under an flock; a process may crash at any step, and *)
(* the kernel then releases its lock.  The server of each connection       *)
(* accepts, refuses, answers late or not at all, and the connection may be *)
(* lost at any moment.  The wall clock only goes forward.                  *)
(***************************************************************************)
EXTENDS Integers

CONSTANTS
  Invocations,    \* command processes
  Kinds,          \* which commands each of them may be
  Messages,       \* sender, target or channel, and text
  Window,         \* DEDUP_WINDOW_S
  TimeBound,      \* bound: the clock
  CrashBound,     \* bound: processes that crash
  None

Pcs == {"off", "check", "lock", "look", "record", "release", "resolve", "hello", "proof", "wait", "exited", "crashed"}
Outcomes == {"success", "failure", "available", "auth_failed", "protocol_mismatch", "unavailable"}
Commands == {"claude", "pi", "request", "status"}
Sends == {"claude", "pi"}
Upward == {"hello", "proof", "message"}
Downward == {"challenge", "forged", "welcome", "ok", "error"}

ASSUME KindsAssumption == Kinds \in [Invocations -> SUBSET Commands]
ASSUME SendBoundsAssumption == Window \in Nat /\ TimeBound \in Nat /\ CrashBound \in Nat
ASSUME NoneAssumption == None \notin Int \cup Invocations \cup Commands \cup Outcomes \cup Upward \cup Downward

VARIABLES
  now,            \* time.time()
  cache,          \* send-dedup.json: when each message was recorded, None if absent
  holder,         \* of the flock on send-dedup.json.lock
  pc, kind,       \* where each process is, and which command it runs
  began,          \* its start and its message, if it is compared with others
  stamp,          \* `now` in is_duplicate_send
  outcome,        \* its exit code, or the state of a status
  conn,           \* its connection
  handler,        \* what the server's handler of it waits for
  up, down,       \* the frame in flight to the server, and from it
  accepted,       \* invocations whose message the server acted on
  recorded,       \* history: invocations that recorded their message
  suppressed,     \* history: invocations that were dropped as duplicates
  broken,         \* history: connections lost before their command was done
  crashes

vars == <<now, cache, holder, pc, kind, began, stamp, outcome, conn, handler, up, down,
          accepted, recorded, suppressed, broken, crashes>>
file == <<cache, holder, stamp, recorded, suppressed>>
wire == <<conn, handler, up, down, broken>>
chosen == <<kind, began>>

NotYet == [at |-> 0, message |-> None]
Message(i) == began[i].message

Init ==
  /\ now = 0
  /\ cache = [m \in Messages |-> None] /\ holder = None
  /\ pc = [i \in Invocations |-> "off"]
  /\ kind = [i \in Invocations |-> None] /\ began = [i \in Invocations |-> NotYet]
  /\ stamp = [i \in Invocations |-> 0]
  /\ outcome = [i \in Invocations |-> None]
  /\ conn = [i \in Invocations |-> "none"] /\ handler = [i \in Invocations |-> "hello"]
  /\ up = [i \in Invocations |-> None] /\ down = [i \in Invocations |-> None]
  /\ accepted = {} /\ recorded = {} /\ suppressed = {} /\ broken = {}
  /\ crashes = 0

Goto(i, l) == pc' = [pc EXCEPT ![i] = l]
Ends(i, o) == Goto(i, "exited") /\ outcome' = [outcome EXCEPT ![i] = o]

Tick ==
  /\ now < TimeBound /\ now' = now + 1
  /\ UNCHANGED <<file, pc, chosen, outcome, wire, accepted, crashes>>

-----------------------------------------------------------------------------
(* The commands, up to the connection. *)

Begin(i) ==
  /\ pc[i] = "off"
  /\ \E k \in Kinds[i], m \in Messages :
       /\ kind' = [kind EXCEPT ![i] = k]
       /\ began' = IF k = "claude" THEN [began EXCEPT ![i] = [at |-> now, message |-> m]] ELSE began
       /\ Goto(i, IF k = "claude" THEN "check" ELSE "resolve")
  /\ UNCHANGED <<now, file, outcome, wire, accepted, crashes>>

\* Claude's sends need a valid channel and a live listener.
Require(i) ==
  /\ pc[i] = "check"
  /\ \/ Goto(i, "lock") /\ UNCHANGED outcome
     \/ Ends(i, "failure")
  /\ UNCHANGED <<now, file, chosen, wire, accepted, crashes>>

\* _cache_lock: flock without a timeout.
Lock_Shared(i) ==       \* mutant: LOCK_SH
  /\ pc[i] = "lock" /\ Goto(i, "look")
  /\ UNCHANGED <<now, file, chosen, outcome, wire, accepted, crashes>>
Lock(i) ==
  /\ pc[i] = "lock" /\ holder = None
  /\ holder' = i /\ Goto(i, "look")
  /\ UNCHANGED <<now, cache, stamp, recorded, suppressed, chosen, outcome, wire, accepted, crashes>>

Within(c, m, t) == c[m] # None /\ c[m] >= t - Window
Prune(c, t) == [m \in Messages |-> IF Within(c, m, t) THEN c[m] ELSE None]

\* is_duplicate_send: the clock and the file.  A duplicate ends the command
\* with exit code 0.
Look_Expiry(i) ==       \* mutant: the end of the window is recorded, not its start
  /\ pc[i] = "look"
  /\ stamp' = [stamp EXCEPT ![i] = now + Window]
  /\ IF cache[Message(i)] # None /\ cache[Message(i)] >= now
       THEN /\ suppressed' = suppressed \cup {i}
            /\ outcome' = [outcome EXCEPT ![i] = "success"] /\ Goto(i, "release")
       ELSE Goto(i, "record") /\ UNCHANGED <<suppressed, outcome>>
  /\ UNCHANGED <<now, cache, holder, recorded, chosen, wire, accepted, crashes>>
Look(i) ==
  /\ pc[i] = "look"
  /\ stamp' = [stamp EXCEPT ![i] = now]
  /\ IF Within(cache, Message(i), now)
       THEN /\ suppressed' = suppressed \cup {i}
            /\ outcome' = [outcome EXCEPT ![i] = "success"] /\ Goto(i, "release")
       ELSE Goto(i, "record") /\ UNCHANGED <<suppressed, outcome>>
  /\ UNCHANGED <<now, cache, holder, recorded, chosen, wire, accepted, crashes>>

\* The message is recorded as sent; a full disk ends the command.
Record(i) ==
  /\ pc[i] = "record" /\ Goto(i, "release")
  /\ \/ /\ cache' = [Prune(cache, stamp[i]) EXCEPT ![Message(i)] = stamp[i]]
        /\ recorded' = recorded \cup {i}
        /\ UNCHANGED outcome
     \/ outcome' = [outcome EXCEPT ![i] = "failure"] /\ UNCHANGED <<cache, recorded>>
  /\ UNCHANGED <<now, holder, stamp, suppressed, chosen, wire, accepted, crashes>>

\* Mutant: the lock is kept while the message is sent.
Release_AtExit(i) ==
  /\ pc[i] = "release"
  /\ Goto(i, IF outcome[i] = None THEN "resolve" ELSE "exited")
  /\ holder' = IF outcome[i] = None THEN holder ELSE None
  /\ UNCHANGED <<now, cache, stamp, recorded, suppressed, chosen, outcome, wire, accepted, crashes>>
Release(i) ==
  /\ pc[i] = "release"
  /\ Goto(i, IF outcome[i] = None THEN "resolve" ELSE "exited")
  /\ holder' = IF holder = i THEN None ELSE holder
  /\ stamp' = [stamp EXCEPT ![i] = 0]
  /\ UNCHANGED <<now, cache, recorded, suppressed, chosen, outcome, wire, accepted, crashes>>

\* SIGKILL: the kernel closes the descriptor.  Later than this, a crash is a
\* lost connection to everybody else.
Crash(i) ==
  /\ pc[i] \in {"check", "lock", "look", "record", "release"} /\ crashes < CrashBound
  /\ crashes' = crashes + 1
  /\ Goto(i, "crashed")
  /\ holder' = IF holder = i THEN None ELSE holder
  /\ stamp' = [stamp EXCEPT ![i] = 0]
  /\ UNCHANGED <<now, cache, recorded, suppressed, chosen, outcome, wire, accepted>>

-----------------------------------------------------------------------------
(* The connection, from the client's side. *)

Takes(i) == down' = [down EXCEPT ![i] = None]

\* The block of the connection is left: its close frame follows whatever was
\* sent, and the server still handles a message; what it makes of the rest
\* reaches nobody.
Hangs(i) ==
  /\ conn' = [conn EXCEPT ![i] = "closed"]
  /\ up' = [up EXCEPT ![i] = IF @ = "message" THEN @ ELSE None]
  /\ Takes(i)
  /\ UNCHANGED <<handler, broken>>

Failure(i, state) == IF kind[i] = "status" THEN state ELSE "failure"
Says(i, f) == up' = [up EXCEPT ![i] = f]

\* resolve_endpoint, the secret, the TLS context and websockets.connect; the
\* hello is the first frame.
Connect(i) ==
  /\ pc[i] = "resolve"
  /\ \/ /\ conn' = [conn EXCEPT ![i] = "open"] /\ Says(i, "hello")
        /\ Goto(i, "hello") /\ UNCHANGED outcome
     \/ \E s \in {"unavailable", "protocol_mismatch"} : Ends(i, Failure(i, s)) /\ UNCHANGED <<conn, up>>
  /\ UNCHANGED <<now, file, chosen, handler, down, broken, accepted, crashes>>

\* client_handshake: the challenge must prove the secret; an error ends the
\* handshake like a welcome.
Challenged(i) ==
  /\ pc[i] = "hello" /\ down[i] \in {"challenge", "forged"}
  /\ Takes(i)
  /\ IF down[i] = "challenge"
       THEN /\ IF conn[i] = "open"
                 THEN Says(i, "proof") /\ Goto(i, "proof") /\ UNCHANGED outcome
                 ELSE Ends(i, Failure(i, "unavailable")) /\ UNCHANGED up
            /\ UNCHANGED <<conn, handler, broken>>
       ELSE Hangs(i) /\ \E s \in {"auth_failed", "protocol_mismatch"} : Ends(i, Failure(i, s))
  /\ UNCHANGED <<now, file, chosen, accepted, crashes>>

\* The last frame of the handshake.  Sends look for an error in it, requests
\* do not, and a status is what it says.
Welcomed_Anyhow(i) ==       \* mutant: sends do not look either
  /\ pc[i] = "proof" /\ down[i] # None
  /\ Takes(i)
  /\ IF kind[i] = "status"
       THEN Hangs(i) /\ Ends(i, IF down[i] = "welcome" THEN "available" ELSE "protocol_mismatch")
       ELSE Says(i, "message") /\ Goto(i, "wait") /\ UNCHANGED <<outcome, conn, handler, broken>>
  /\ UNCHANGED <<now, file, chosen, accepted, crashes>>
Welcomed(i) ==
  /\ \/ pc[i] = "proof" /\ down[i] # None
     \/ pc[i] = "hello" /\ down[i] = "error"
  /\ Takes(i)
  /\ \/ /\ kind[i] = "status" /\ Hangs(i)
        /\ IF down[i] = "welcome" THEN Ends(i, "available")
           ELSE \E s \in {"auth_failed", "protocol_mismatch"} : Ends(i, s)
     \/ /\ kind[i] \in Sends /\ down[i] = "error"
        /\ Hangs(i) /\ Ends(i, "failure")
     \/ /\ kind[i] = "request" \/ (kind[i] \in Sends /\ down[i] = "welcome")
        /\ IF conn[i] = "open"
             THEN Says(i, "message") /\ Goto(i, "wait") /\ UNCHANGED <<outcome, conn, handler, broken>>
             ELSE Ends(i, "failure") /\ Hangs(i)
  /\ UNCHANGED <<now, file, chosen, accepted, crashes>>

\* A frame behind the message: a send expects none but an error, a request
\* waits for its answer.
Replied(i) ==
  /\ pc[i] = "wait" /\ down[i] # None
  /\ Hangs(i)
  /\ Ends(i, IF down[i] = "error" THEN "failure" ELSE "success")
  /\ UNCHANGED <<now, file, chosen, accepted, crashes>>

\* The 0.1 s of a send are over without an error: success.
NoError_Fails(i) ==       \* mutant: a timeout is a failure
  /\ pc[i] = "wait" /\ kind[i] \in Sends
  /\ Hangs(i) /\ Ends(i, "failure")
  /\ UNCHANGED <<now, file, chosen, accepted, crashes>>
NoError(i) ==
  /\ pc[i] = "wait" /\ kind[i] \in Sends
  /\ Hangs(i) /\ Ends(i, "success")
  /\ UNCHANGED <<now, file, chosen, accepted, crashes>>

\* The 0.5 s of a status are over, wherever it is.
StatusTimesOut(i) ==
  /\ kind[i] = "status" /\ pc[i] \in {"resolve", "hello", "proof"}
  /\ Hangs(i) /\ Ends(i, "unavailable")
  /\ UNCHANGED <<now, file, chosen, accepted, crashes>>

\* ConnectionClosed.
ConnectionLost(i) ==
  /\ pc[i] \in {"hello", "proof", "wait"} /\ conn[i] = "closed" /\ down[i] = None
  /\ Ends(i, Failure(i, "unavailable"))
  /\ UNCHANGED <<now, file, chosen, wire, accepted, crashes>>

-----------------------------------------------------------------------------
(* The server's side. *)

\* Nothing reaches a client that is gone.
Answers(i, f) == down' = IF conn[i] = "open" THEN [down EXCEPT ![i] = f] ELSE down
Waits(i, h) == up' = [up EXCEPT ![i] = None] /\ handler' = [handler EXCEPT ![i] = h]
ServerRest == <<now, file, pc, chosen, outcome, conn, broken, crashes>>

ServeHello(i) ==
  /\ handler[i] = "hello" /\ up[i] = "hello"
  /\ \/ \E f \in {"challenge", "forged"} : Answers(i, f) /\ Waits(i, "auth")
     \/ Answers(i, "error") /\ Waits(i, "gone")
  /\ UNCHANGED <<ServerRest, accepted>>

ServeProof(i) ==
  /\ handler[i] = "auth" /\ up[i] = "proof"
  /\ \/ Answers(i, "welcome") /\ Waits(i, "ready")
     \/ Answers(i, "error") /\ Waits(i, "gone")
  /\ UNCHANGED <<ServerRest, accepted>>

\* A send that is accepted is not answered.
ServeMessage(i) ==
  /\ handler[i] = "ready" /\ up[i] = "message"
  /\ Waits(i, "ready")
  /\ \/ /\ accepted' = accepted \cup {i}
        /\ IF kind[i] \in Sends THEN UNCHANGED down ELSE Answers(i, "ok")
     \/ Answers(i, "error") /\ UNCHANGED accepted
  /\ UNCHANGED ServerRest

\* What is in flight may be lost with the connection.
Lose(i) ==
  /\ conn[i] = "open"
  /\ conn' = [conn EXCEPT ![i] = "closed"] /\ broken' = broken \cup {i}
  /\ up' \in {up, [up EXCEPT ![i] = None]} /\ down' \in {down, [down EXCEPT ![i] = None]}
  /\ UNCHANGED <<now, file, pc, chosen, outcome, handler, accepted, crashes>>

-----------------------------------------------------------------------------
Local(i) ==
  Begin(i) \/ Require(i) \/ Lock(i) \/ Look(i) \/ Record(i) \/ Release(i)
Client(i) ==
  \/ Connect(i) \/ Challenged(i) \/ Welcomed(i) \/ Replied(i) \/ NoError(i)
  \/ StatusTimesOut(i) \/ ConnectionLost(i)
Peer(i) == ServeHello(i) \/ ServeProof(i) \/ ServeMessage(i) \/ Lose(i)

Next == Tick \/ \E i \in Invocations : Local(i) \/ Crash(i) \/ Client(i) \/ Peer(i)

Spec == Init /\ [][Next]_vars

-----------------------------------------------------------------------------
(* Properties. *)

\* Every variable has its type.
TypeOK ==
  /\ now \in 0..TimeBound
  /\ cache \in [Messages -> 0..TimeBound \cup {None}]
  /\ holder \in Invocations \cup {None}
  /\ pc \in [Invocations -> Pcs]
  /\ DOMAIN kind = Invocations /\ \A i \in Invocations : kind[i] \in Kinds[i] \cup {None}
  /\ began \in [Invocations -> [at : 0..TimeBound, message : Messages \cup {None}]]
  /\ stamp \in [Invocations -> 0..TimeBound]
  /\ outcome \in [Invocations -> Outcomes \cup {None}]
  /\ conn \in [Invocations -> {"none", "open", "closed"}]
  /\ handler \in [Invocations -> {"hello", "auth", "ready", "gone"}]
  /\ up \in [Invocations -> Upward \cup {None}] /\ down \in [Invocations -> Downward \cup {None}]
  /\ accepted \subseteq Invocations /\ recorded \subseteq Invocations
  /\ suppressed \subseteq Invocations /\ broken \subseteq Invocations
  /\ crashes \in 0..CrashBound

\* What each invocation is to SendOnce.
Stage(i) ==
  IF kind[i] # "claude" THEN "idle"
  ELSE IF i \in suppressed THEN "suppressed"
  ELSE IF i \in recorded THEN (IF i \in accepted THEN "reached" ELSE "taken")
  ELSE IF pc[i] \in {"check", "lock", "look", "record"} THEN "asked"
  ELSE "failed"

Once == INSTANCE SendOnce WITH
  last <- cache,
  stage <- [i \in Invocations |-> Stage(i)]

\* The window holds across processes, crashes and failing writes: a message
\* is decided as if at one instant, and reaches the bus once if it was taken
\* (is_duplicate_send).
DecidedOnce == Once!OnceSpec

\* Whoever reports success was welcomed by the server, or was dropped as a
\* duplicate; a request was also acted on (_send_result_code, kick, ...).
SuccessWasWelcomed ==
  \A i \in Invocations \ suppressed :
    /\ outcome[i] \in {"success", "available"} => handler[i] = "ready"
    /\ kind[i] = "request" /\ outcome[i] = "success" => i \in accepted

\* A send that reports a failure had no effect, unless its connection broke
\* before it ended: retrying it does not deliver it twice.
FailureHadNoEffect ==
  \A i \in Invocations : kind[i] \in Sends /\ outcome[i] = "failure" => i \notin accepted \/ i \in broken

\* A command waits for the lock only while another one looks at the file,
\* never while that one waits for the network: _cache_lock has no timeout.
LockIsLocal == holder # None => pc[holder] \in {"look", "record", "release"}
=============================================================================
