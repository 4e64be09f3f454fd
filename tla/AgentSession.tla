---------------------------- MODULE AgentSession ----------------------------
(***************************************************************************)
(* One client session on the bus: class AgentSession of                    *)
(* src/inter_agent/core/client.py, the frames in flight, and the little    *)
(* the session sees of its server.                                         *)
(*                                                                         *)
(* A reader task takes frames from the socket.  One command at a time, the *)
(* one that holds `_command_lock`, has a pending slot; a frame whose op    *)
(* the slot expects is its answer, whatever command the server meant, and  *)
(* every other frame goes to the inbox.  A command gives up after 0.1 s,   *)
(* or when whoever asked for it gives up.                                  *)
(*                                                                         *)
(* Between a result and the caller that takes it the event loop may run    *)
(* other tasks, so setting the future and finishing are two steps.  The    *)
(* bodies of `_state_lock` never suspend: that lock is not modelled.       *)
(***************************************************************************)
EXTENDS Naturals, FiniteSets, Sequences

CONSTANTS
  Callers,        \* the tasks that may run a command
  Channels,
  None

ASSUME CallersAssumption == None \notin Callers /\ IsFiniteSet(Callers)
ASSUME SessionChannelsAssumption == IsFiniteSet(Channels) /\ None \notin Channels

VARIABLES
  link,           \* the WebSocket: none, open, closed (nothing more arrives)
  up, down,       \* frames in flight to the server, and from it
  subscribed,     \* what the server has this session subscribed to
  inbox,          \* self._inbox
  closed,         \* self._closed
  reader,         \* self._reader_task runs
  pending,        \* whose command self._pending is
  lock,           \* self._command_lock: its owner, then who waits for it
  call            \* the command each caller runs

sessionVars == <<link, up, down, subscribed, inbox, closed, reader, pending, lock, call>>

\* Frames from the server.  `code` tells refusals apart; `for` is the caller
\* whose frame it answers, None when nothing was asked: the frame does not
\* carry it, and no guard reads it.
Frame(op, code, channel, for) == [op |-> op, code |-> code, channel |-> channel, for |-> for]
Ops == {"subscribe", "unsubscribe"}
FrameOps == {"welcome", "subscribe_ok", "unsubscribe_ok", "error", "eof"}
Codes == {"none", "refused", "permanent", "taken", "kicked"}
Frames == [op : FrameOps, code : Codes, channel : Channels \cup {None}, for : Callers \cup {None}]
Commands == [op : Ops, channel : Channels, for : Callers]

Welcome == Frame("welcome", "none", None, None)
Kicked == Frame("error", "kicked", None, None)
Eof == Frame("eof", "none", None, None)

\* What a caller's future may hold besides a frame: nothing yet, the
\* cancellation of a timeout, or the exception of a session that is over.
Unset == Frame("unset", "none", None, None)
Cancelled == Frame("cancelled", "none", None, None)
Aborted == Frame("aborted", "none", None, None)
Futures == Frames \cup {Unset, Cancelled, Aborted}

Idle == [pc |-> "idle", op |-> "subscribe", channel |-> None, future |-> Unset]
Calls == [pc : {"idle", "queued", "waiting", "expired", "failed"}, op : Ops,
          channel : Channels \cup {None}, future : Futures]

Expected(op) == {IF op = "subscribe" THEN "subscribe_ok" ELSE "unsubscribe_ok", "error"}
RemoveAt(s, i) == SubSeq(s, 1, i - 1) \o SubSeq(s, i + 1, Len(s))

SessionInit ==
  /\ link = "none"
  /\ up = << >> /\ down = << >> /\ inbox = << >> /\ lock = << >>
  /\ subscribed = {}
  /\ closed = TRUE /\ reader = FALSE
  /\ pending = None
  /\ call = [t \in Callers |-> Idle]

-----------------------------------------------------------------------------
(* The session's own steps. *)

\* __aenter__: a fresh object, whose first frame is the answer to the
\* handshake; an error there is yielded like a welcome, and the server
\* closes the connection behind it.
Open(first) ==
  /\ link' = IF first = Welcome THEN "open" ELSE "closed"
  /\ inbox' = <<first>>
  /\ closed' = FALSE /\ reader' = TRUE
  /\ up' = << >> /\ down' = << >> /\ lock' = << >>
  /\ subscribed' = {} /\ pending' = None
  /\ UNCHANGED call

\* _reader_loop: the frame answers the pending command if its op fits.  A
\* future that is cancelled already swallows it.
Routed(f) == pending # None /\ f.op \in Expected(call[pending].op)

Read ==
  /\ reader /\ down # << >>
  /\ down' = Tail(down)
  /\ IF Routed(Head(down))
       THEN /\ call' = IF call[pending].future = Unset
                         THEN [call EXCEPT ![pending].future = Head(down)] ELSE call
            /\ pending' = None
            /\ UNCHANGED inbox
       ELSE inbox' = Append(inbox, Head(down)) /\ UNCHANGED <<call, pending>>
  /\ UNCHANGED <<link, up, subscribed, closed, reader, lock>>

\* Mutant: the end of the session is not put into the inbox.
ReaderEnds_NoEof ==
  /\ reader /\ link = "closed" /\ down = << >>
  /\ reader' = FALSE /\ closed' = TRUE
  /\ UNCHANGED <<link, up, down, subscribed, inbox, pending, lock, call>>

\* The loop is over: the finally block of _reader_loop.
ReaderEnds ==
  /\ reader /\ link = "closed" /\ down = << >>
  /\ reader' = FALSE /\ closed' = TRUE
  /\ call' = IF pending # None /\ call[pending].future = Unset
               THEN [call EXCEPT ![pending].future = Aborted] ELSE call
  /\ inbox' = Append(inbox, Eof)
  /\ UNCHANGED <<link, up, down, subscribed, pending, lock>>

\* _exchange, up to the lock.
Ask(t, op, c) ==
  /\ call[t].pc = "idle"
  /\ call' = [call EXCEPT ![t] = [pc |-> "queued", op |-> op, channel |-> c, future |-> Unset]]
  /\ lock' = Append(lock, t)
  /\ UNCHANGED <<link, up, down, subscribed, inbox, closed, reader, pending>>

\* Mutant: commands are sent without waiting for the lock.
Issue_Unlocked(t) ==
  /\ call[t].pc = "queued" /\ ~closed /\ link = "open"
  /\ call' = [call EXCEPT ![t].pc = "waiting"]
  /\ up' = Append(up, [op |-> call[t].op, channel |-> call[t].channel, for |-> t])
  /\ pending' = t
  /\ UNCHANGED <<link, down, subscribed, inbox, closed, reader, lock>>

\* _exchange with the lock: a session that is over raises, and otherwise the
\* frame leaves.  A connection that is over raises as well, or takes the frame
\* to nowhere as long as its end has not been noticed.
Issue(t) ==
  /\ call[t].pc = "queued" /\ lock # << >> /\ Head(lock) = t
  /\ \/ /\ closed \/ link # "open"
        /\ call' = [call EXCEPT ![t].pc = "failed"]
        /\ UNCHANGED <<up, pending>>
     \/ /\ ~closed
        /\ call' = [call EXCEPT ![t].pc = "waiting"]
        /\ up' = IF link = "open"
                   THEN Append(up, [op |-> call[t].op, channel |-> call[t].channel, for |-> t]) ELSE up
        /\ pending' = t
  /\ UNCHANGED <<link, down, subscribed, inbox, closed, reader, lock>>

\* A timeout or a cancellation reaches the caller: a result that is there
\* already and was not taken is lost with it.
Expire(t) ==
  /\ call[t].pc \in {"queued", "waiting"}
  /\ call' = [call EXCEPT ![t].pc = "expired", ![t].future = Cancelled]
  /\ UNCHANGED <<link, up, down, subscribed, inbox, closed, reader, pending, lock>>

\* The caller goes on: the finally block of _exchange clears the slot if it
\* is still its own, and the lock goes to the next caller.
Done(t) == call[t].pc \in {"expired", "failed"} \/ (call[t].pc = "waiting" /\ call[t].future # Unset)
Result(t) == IF call[t].pc = "waiting" THEN call[t].future ELSE Aborted

\* Mutants: an exception leaves the pending slot, or the lock, taken.
Finish_KeepsSlot(t) ==
  /\ Done(t)
  /\ \E i \in DOMAIN lock : lock[i] = t /\ lock' = RemoveAt(lock, i)
  /\ call' = [call EXCEPT ![t] = Idle]
  /\ UNCHANGED <<link, up, down, subscribed, inbox, closed, reader, pending>>
Finish_KeepsLock(t) ==
  /\ Done(t)
  /\ pending' = IF pending = t THEN None ELSE pending
  /\ \E i \in DOMAIN lock : lock[i] = t /\ lock' = (IF call[t].pc = "expired" THEN lock ELSE RemoveAt(lock, i))
  /\ call' = [call EXCEPT ![t] = Idle]
  /\ UNCHANGED <<link, up, down, subscribed, inbox, closed, reader>>

Finish(t) ==
  /\ Done(t)
  /\ pending' = IF pending = t THEN None ELSE pending
  /\ \E i \in DOMAIN lock : lock[i] = t /\ lock' = RemoveAt(lock, i)
  /\ call' = [call EXCEPT ![t] = Idle]
  /\ UNCHANGED <<link, up, down, subscribed, inbox, closed, reader>>

\* _close, with the closing handshake behind it.
Close ==
  /\ link' = "none" /\ closed' = TRUE /\ reader' = FALSE
  /\ up' = << >> /\ down' = << >> /\ inbox' = << >> /\ subscribed' = {}
  /\ UNCHANGED <<pending, lock, call>>

-----------------------------------------------------------------------------
(* The server's side: what BusServer does with this session. *)

\* _route_subscribe and _route_unsubscribe.  A limit may refuse a new
\* subscription, never one the session has.
Serve ==
  /\ link = "open" /\ up # << >>
  /\ LET r == Head(up)
         ok == Frame(IF r.op = "subscribe" THEN "subscribe_ok" ELSE "unsubscribe_ok", "none", r.channel, r.for)
         no == Frame("error", "refused", r.channel, r.for)
     IN \/ /\ r.op = "subscribe"
           /\ subscribed' = subscribed \cup {r.channel}
           /\ down' = Append(down, ok)
        \/ /\ r.op = "unsubscribe" /\ r.channel \in subscribed
           /\ subscribed' = subscribed \ {r.channel}
           /\ down' = Append(down, ok)
        \/ /\ r.channel \notin subscribed
           /\ down' = Append(down, no)
           /\ UNCHANGED subscribed
  /\ up' = Tail(up)
  /\ UNCHANGED <<link, inbox, closed, reader, pending, lock, call>>

\* _handle_kick: the session leaves the registry, is told, and is closed.
Kick ==
  /\ link = "open"
  /\ link' = "closed" /\ subscribed' = {} /\ up' = << >>
  /\ down' = Append(down, Kicked)
  /\ UNCHANGED <<inbox, closed, reader, pending, lock, call>>

\* The connection is lost or closed; what was on its way to the client may
\* be lost with it.
Lose ==
  /\ link = "open"
  /\ link' = "closed" /\ subscribed' = {} /\ up' = << >>
  /\ down' \in {down, << >>}
  /\ UNCHANGED <<inbox, closed, reader, pending, lock, call>>

SessionTypeOK ==
  /\ link \in {"none", "open", "closed"}
  /\ up \in Seq(Commands) /\ down \in Seq(Frames) /\ inbox \in Seq(Frames)
  /\ subscribed \subseteq Channels
  /\ closed \in BOOLEAN /\ reader \in BOOLEAN
  /\ pending \in Callers \cup {None}
  /\ lock \in Seq(Callers)
  /\ call \in [Callers -> Calls] /\ \A t \in Callers : call[t].pc # "idle" => call[t].channel \in Channels
=============================================================================
