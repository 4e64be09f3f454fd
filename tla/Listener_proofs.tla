---------------------------- MODULE Listener_proofs ----------------------------
(***************************************************************************)
(* The listener and its sessions, for any number of control requests,      *)
(* channels and reconnections: types, the pending slot, which command an   *)
(* answer goes to, and what becomes of a KICKED notice in the inbox.       *)
(*                                                                         *)
(* The inductive invariant has four parts.  LockInv, TaskInv: the queue of *)
(* the command lock is made of the commands that run, each once, only its  *)
(* head has sent anything; and where the main task must be for a command   *)
(* to run at all.  FlightInv, as long as no command on the wire timed out: *)
(* at most one command is in flight, and it is the pending one.  TellsInv, *)
(* AgreeInv: the same for what its answer says and the server did.         *)
(* InboxInv: a KICKED notice in the inbox is not behind anything else that *)
(* ends the session.                                                       *)
(***************************************************************************)
EXTENDS Listener, TLAPS

Runs(t) == call[t].pc # "idle"
NoRequests == \A h \in Handlers : ~Runs(h)
Between == {"starting", "connecting", "pausing", "exited"}

\* The queue of the lock.
LockInv ==
  /\ \A i, j \in 1..Len(lock) : lock[i] = lock[j] => i = j
  /\ \A t \in Callers : Runs(t) <=> \E i \in 1..Len(lock) : lock[i] = t
  /\ \A t \in Callers : call[t].pc \in {"waiting", "failed"} => Len(lock) > 0 /\ lock[1] = t
  /\ pending # None => Len(lock) > 0 /\ lock[1] = pending /\ call[pending].pc \in {"waiting", "expired"}

\* Where the main task is while a command runs.
TaskInv ==
  /\ bound => main = "serving"
  /\ main \in Between => ~reader /\ \A t \in Callers : ~Runs(t)
  /\ main \in {"replaying", "binding"} => NoRequests
  /\ Runs(Replay) => NoRequests /\ main \in {"replaying", "leaving"}
  /\ main = "leaving" => call[Replay].pc \in {"idle", "expired", "failed"}
  /\ \A i \in 1..Len(inbox) : inbox[i] = Welcome =>
       i = 1 /\ main \in {"serving", "leaving"} /\ ~bound /\ NoRequests
  /\ \A t \in Callers :
       call[t].future = (IF call[t].pc = "expired" THEN Cancelled ELSE Unset) \/ call[t].pc = "waiting"

\* What the server sends; nothing comes behind a KICKED notice.
DownInv ==
  /\ link # "open" => up = << >>
  /\ \A i \in 1..Len(down) :
       \/ down[i] = Kicked /\ i = Len(down) /\ link = "closed"
       \/ down[i].for # None /\ down[i].code \in {"none", "refused"} /\ down[i].op \notin {"eof", "welcome"}

\* The command of t, or its answer, is on its way: t waits for it, or it is
\* the replay's and was cancelled together with its session.
OnItsWay(t, ops) ==
  \/ pending = t /\ t # None /\ call[t].pc = "waiting" /\ call[t].future = Unset /\ call[t].op \in ops
  \/ main = "leaving" /\ NoRequests

FlightInv ==
  /\ Len(up) <= 1
  /\ up # << >> => down = << >> /\ OnItsWay(up[1].for, {up[1].op})
  /\ \A i \in 1..Len(down) :
       down[i] # Kicked => i = 1 /\ OnItsWay(down[1].for, {op \in Ops : down[1].op \in Expected(op)})
  /\ AnswersMatch

\* What may stand before a KICKED notice.
Mild(f) == f # Eof /\ f.code \in {"none", "refused"}
Starts == main = "serving" /\ ~ready => inbox # << >> /\ inbox[1] = Welcome

InboxInv ==
  /\ told # "nowhere" => link # "open" /\ down = << >>
  /\ reader /\ (link = "open" \/ down # << >>) => Starts /\ \A i \in 1..Len(inbox) : Mild(inbox[i])
  /\ told = "inbox" =>
       \/ main = "exited"
       \/ main = "leaving" /\ (outcome = "fatal" \/ stop)
       \/ /\ main \in {"serving", "replaying", "binding"} /\ Starts
          /\ \E i \in 1..Len(inbox) : inbox[i] = Kicked /\ \A j \in 1..(i - 1) : Mild(inbox[j])

\* When requests are accepted and the replay takes place.
ReadyInv ==
  /\ link = "open" => ~closed
  /\ bound => ready
  /\ main \in Between => ~ready
  /\ ready => \A i \in 1..Len(inbox) : inbox[i] # Welcome
  /\ main = "serving" /\ ~ready => NoRequests /\ subscribed = {} /\ up = << >>
  /\ main = "replaying" => todo \subseteq desired
  /\ Runs(Replay) => call[Replay].op = "subscribe"
  /\ Runs(Replay) /\ main = "replaying" => call[Replay].channel \in desired

\* What the answer f to the command of t says is so.
Tells(f, t) ==
  /\ f.op \in Expected(call[t].op) /\ f.channel = call[t].channel
  /\ f.op = "subscribe_ok" => f.channel \in subscribed
  /\ f.op = "unsubscribe_ok" => f.channel \notin subscribed
  /\ f.op = "error" => f.channel \notin subscribed /\ f.code = "refused"

\* An answer with this op is on its way to the caller t, or there already.
Gets(t, op) ==
  /\ call[t].pc = "waiting"
  /\ call[t].future.op = op \/ (pending = t /\ call[t].future = Unset /\ down # << >> /\ down[1].op = op)

\* What is in flight in a session that can still be at rest.
Live == link = "open" /\ main \in {"serving", "replaying", "binding"}
TellsInv ==
  Live =>
    /\ up # << >> => up[1].channel = call[up[1].for].channel
    /\ down # << >> => Tells(down[1], pending)
    /\ \A t \in Callers : call[t].pc = "waiting" /\ call[t].future # Unset => Tells(call[t].future, t)
    /\ \A t \in Callers : call[t].pc # "failed"
    /\ call[Replay].pc # "expired"

\* Where the server and the listener differ, an answer will tell, the server
\* has refused, or the replay is still to ask.
AgreeInv ==
  Live =>
    /\ \A c \in subscribed \ desired :
         \E t \in Handlers : call[t].channel = c /\ Gets(t, "subscribe_ok")
    /\ \A c \in desired \ subscribed :
         \/ c \in refused \/ (main = "serving" /\ ~ready)
         \/ main = "replaying" /\ (c \in todo \/ (Runs(Replay) /\ call[Replay].channel = c))
         \/ \E t \in Handlers : call[t].channel = c /\ Gets(t, "unsubscribe_ok")

ListenerInv ==
  TypeOK /\ LockInv /\ TaskInv /\ DownInv /\ ReadyInv /\ (~slipped => FlightInv /\ TellsInv /\ AgreeInv) /\ InboxInv
-----------------------------------------------------------------------------
(* Types. *)

\* Taking one element out of a sequence.
LEMMA RemoveAtFacts ==
  ASSUME NEW S, NEW s \in Seq(S), NEW i \in 1..Len(s)
  PROVE  /\ RemoveAt(s, i) \in Seq(S) /\ Len(RemoveAt(s, i)) = Len(s) - 1
         /\ \A j \in 1..(Len(s) - 1) : RemoveAt(s, i)[j] = IF j < i THEN s[j] ELSE s[j + 1]
<1> DEFINE a == SubSeq(s, 1, i - 1)
           b == SubSeq(s, i + 1, Len(s))
<1>1. a \in Seq(S) /\ Len(a) = i - 1 /\ \A j \in 1..(i - 1) : a[j] = s[j]
  OBVIOUS
<1>2. b \in Seq(S) /\ Len(b) = Len(s) - i /\ \A j \in 1..(Len(s) - i) : b[j] = s[i + j]
  OBVIOUS
<1>3. RemoveAt(s, i) = a \o b
  BY DEF RemoveAt
<1> HIDE DEF a, b
<1>4. RemoveAt(s, i) \in Seq(S) /\ Len(RemoveAt(s, i)) = Len(s) - 1
  BY <1>1, <1>2, <1>3
<1>5. ASSUME NEW j \in 1..(Len(s) - 1)
      PROVE RemoveAt(s, i)[j] = IF j < i THEN s[j] ELSE s[j + 1]
  <2>1. CASE j < i
    BY <1>1, <1>2, <1>3, <2>1
  <2>2. CASE j >= i
    <3>1. RemoveAt(s, i)[j] = b[j - Len(a)]
      BY <1>1, <1>2, <1>3, <2>2
    <3>2. j - Len(a) \in 1..(Len(s) - i) /\ i + (j - Len(a)) = j + 1
      BY <1>1, <2>2
    <3>3. b[j - Len(a)] = s[i + (j - Len(a))]
      BY <1>2, <3>2
    <3>4. QED
      BY <2>2, <3>1, <3>2, <3>3
  <2>3. QED
    BY <2>1, <2>2
<1>6. QED
  BY <1>4, <1>5

\* The frames and futures that have a name.
LEMMA NamedFrames ==
  /\ {Welcome, Kicked, Eof} \subseteq Frames /\ {Unset, Cancelled, Aborted} \subseteq Futures
  /\ Frames \subseteq Futures /\ Idle \in Calls
  BY DEF Welcome, Kicked, Eof, Unset, Cancelled, Aborted, Idle, Calls, Futures, Frames, Frame,
     FrameOps, Codes, Ops

\* What keeps the type of a sequence.
LEMMA SeqTypes ==
  ASSUME NEW S, NEW s \in Seq(S)
  PROVE  /\ << >> \in Seq(S)
         /\ \A e \in S : Append(s, e) \in Seq(S) /\ <<e>> \in Seq(S)
         /\ s # << >> => Head(s) \in S /\ Tail(s) \in Seq(S)
  OBVIOUS

\* What keeps the type of a command.
LEMMA CallTypes ==
  ASSUME call \in [Callers -> Calls], NEW t \in Callers
  PROVE  /\ \A p \in {"idle", "queued", "waiting", "expired", "failed"} : [call EXCEPT ![t].pc = p] \in [Callers -> Calls]
         /\ \A f \in Futures : [call EXCEPT ![t].future = f] \in [Callers -> Calls]
         /\ [call EXCEPT ![t].pc = "expired", ![t].future = Cancelled] \in [Callers -> Calls]
         /\ [call EXCEPT ![t] = Idle] \in [Callers -> Calls]
         /\ \A op \in Ops, c \in Channels :
              [call EXCEPT ![t] = [pc |-> "queued", op |-> op, channel |-> c, future |-> Unset]] \in [Callers -> Calls]
         /\ call[t].op \in Ops
  BY NamedFrames DEF Calls

\* A session starts (__aenter__).
LEMMA OpenTypes ==
  ASSUME SessionTypeOK, NEW f \in Frames, Open(f) PROVE SessionTypeOK'
<1>1. up' \in Seq(Commands) /\ down' \in Seq(Frames) /\ inbox' \in Seq(Frames) /\ lock' \in Seq(Callers)
  BY SeqTypes DEF SessionTypeOK, Open
<1>2. QED
  BY <1>1 DEF SessionTypeOK, Open

\* A session is closed (_close).
LEMMA CloseTypes ==
  ASSUME SessionTypeOK, Close PROVE SessionTypeOK'
<1>1. up' \in Seq(Commands) /\ down' \in Seq(Frames) /\ inbox' \in Seq(Frames)
  BY SeqTypes DEF SessionTypeOK, Close
<1>2. QED
  BY <1>1 DEF SessionTypeOK, Close

\* The reader takes a frame (_reader_loop).
LEMMA ReadTypes ==
  ASSUME SessionTypeOK, Read PROVE SessionTypeOK'
<1>1. Head(down) \in Frames /\ down' \in Seq(Frames)
  BY SeqTypes DEF SessionTypeOK, Read
<1>2. inbox' \in Seq(Frames)
  BY <1>1, SeqTypes DEF SessionTypeOK, Read
<1>3. CASE Routed(Head(down))
  <2>1. pending \in Callers /\ pending' = None /\ Head(down) \in Futures
    BY <1>1, <1>3, NamedFrames DEF SessionTypeOK, Read, Routed
  <2>2. call' \in {call, [call EXCEPT ![pending].future = Head(down)]}
    BY <1>3 DEF Read
  <2>3. call' \in [Callers -> Calls] /\ \A t \in Callers : call'[t].pc = call[t].pc /\ call'[t].channel = call[t].channel
    <3>1. CASE call' = call
      BY <3>1 DEF SessionTypeOK
    <3>2. CASE call' = [call EXCEPT ![pending].future = Head(down)]
      BY <2>1, <3>2 DEF SessionTypeOK, Calls
    <3>3. QED
      BY <2>2, <3>1, <3>2
  <2>4. QED
    BY <1>1, <1>2, <2>1, <2>3 DEF SessionTypeOK, Read
<1>4. CASE ~Routed(Head(down))
  BY <1>1, <1>2, <1>4 DEF SessionTypeOK, Read
<1>5. QED
  BY <1>3, <1>4

\* The reader ends (_reader_loop).
LEMMA ReaderEndsTypes ==
  ASSUME SessionTypeOK, ReaderEnds PROVE SessionTypeOK'
<1>1. inbox' \in Seq(Frames)
  BY NamedFrames, SeqTypes DEF SessionTypeOK, ReaderEnds
<1>2. call' \in [Callers -> Calls] /\ \A t \in Callers : call'[t].pc = call[t].pc /\ call'[t].channel = call[t].channel
  BY NamedFrames DEF SessionTypeOK, ReaderEnds, Calls
<1>3. QED
  BY <1>1, <1>2 DEF SessionTypeOK, ReaderEnds

\* A command is queued (_exchange).
LEMMA AskTypes ==
  ASSUME SessionTypeOK, NEW t \in Callers, NEW op \in Ops, NEW c \in Channels, Ask(t, op, c)
  PROVE  SessionTypeOK'
<1>1. lock' \in Seq(Callers)
  BY SeqTypes DEF SessionTypeOK, Ask
<1>2. call' \in [Callers -> Calls]
  BY CallTypes DEF SessionTypeOK, Ask
<1>3. \A u \in Callers : call'[u].pc # "idle" => call'[u].channel \in Channels
  BY DEF SessionTypeOK, Ask
<1>4. QED
  BY <1>1, <1>2, <1>3 DEF SessionTypeOK, Ask

\* A command is sent or fails (_exchange).
LEMMA IssueTypes ==
  ASSUME SessionTypeOK, NEW t \in Callers, Issue(t) PROVE SessionTypeOK'
<1>1. pending' \in Callers \cup {None} /\ call' \in [Callers -> Calls]
      /\ \A u \in Callers : call'[u].pc # "idle" => call'[u].channel \in Channels
  <2>1. pending' \in {pending, t}
    BY DEF Issue
  <2>2. \E p \in {"failed", "waiting"} : call' = [call EXCEPT ![t].pc = p]
    BY DEF Issue
  <2>3. call[t].pc # "idle"
    BY DEF Issue
  <2>4. PICK p \in {"failed", "waiting"} : call' = [call EXCEPT ![t].pc = p]
    BY <2>2
  <2>5. call \in [Callers -> Calls] /\ call' \in [Callers -> Calls]
    BY <2>4, CallTypes DEF SessionTypeOK
  <2>6. ASSUME NEW u \in Callers, call'[u].pc # "idle" PROVE call'[u].channel \in Channels
    <3>1. call[u].pc # "idle" /\ call'[u].channel = call[u].channel
      BY <2>3, <2>4, <2>5, <2>6 DEF Calls
    <3>2. QED
      BY <3>1 DEF SessionTypeOK
  <2>7. QED
    BY <2>1, <2>5, <2>6 DEF SessionTypeOK
<1>2. [op |-> call[t].op, channel |-> call[t].channel, for |-> t] \in Commands
  BY CallTypes DEF SessionTypeOK, Commands, Issue
<1>3. up' \in Seq(Commands)
  <2>1. up' = up \/ up' = Append(up, [op |-> call[t].op, channel |-> call[t].channel, for |-> t])
    BY DEF Issue
  <2>2. QED
    BY <1>2, <2>1, SeqTypes DEF SessionTypeOK
<1>4. QED
  BY <1>1, <1>3 DEF SessionTypeOK, Issue

\* The server answers.
LEMMA ServeTypes == ASSUME SessionTypeOK, Serve PROVE SessionTypeOK'
<1> DEFINE r == Head(up)
<1>1. r \in Commands /\ up' \in Seq(Commands)
  BY SeqTypes DEF SessionTypeOK, Serve
<1>2. \A op \in FrameOps, code \in Codes : Frame(op, code, r.channel, r.for) \in Frames
  BY <1>1 DEF Frame, Frames, Commands
<1>3. down' \in Seq(Frames)
  <2>1. \E op \in FrameOps, code \in Codes : down' = Append(down, Frame(op, code, r.channel, r.for))
    BY DEF Serve, FrameOps, Codes
  <2>2. QED
    BY <1>2, <2>1, SeqTypes DEF SessionTypeOK
<1>4. subscribed' \subseteq Channels
  BY <1>1 DEF SessionTypeOK, Serve, Commands
<1>5. QED
  BY <1>1, <1>3, <1>4 DEF SessionTypeOK, Serve

\* The server kicks the session, or the connection is lost.
LEMMA LossTypes == ASSUME SessionTypeOK, Kick \/ Lose PROVE SessionTypeOK'
<1>1. up' \in Seq(Commands) /\ (down' = down \/ down' = << >> \/ down' = Append(down, Kicked))
  BY SeqTypes DEF SessionTypeOK, Kick, Lose
<1>2. down' \in Seq(Frames)
  BY <1>1, NamedFrames, SeqTypes DEF SessionTypeOK
<1>3. QED
  BY <1>1, <1>2 DEF SessionTypeOK, Kick, Lose

\* A command gives up (_exchange).
LEMMA ExpireTypes ==
  ASSUME SessionTypeOK, NEW t \in Callers, Expire(t) PROVE SessionTypeOK'
  BY NamedFrames DEF SessionTypeOK, Expire, Calls

\* A command is over (_exchange).
LEMMA FinishTypes ==
  ASSUME SessionTypeOK, NEW t \in Callers, Finish(t) PROVE SessionTypeOK'
<1>1. lock' \in Seq(Callers)
  <2>1. PICK i \in DOMAIN lock : lock' = RemoveAt(lock, i)
    BY DEF Finish
  <2>2. i \in 1..Len(lock) /\ lock \in Seq(Callers)
    BY DEF SessionTypeOK
  <2>3. QED
    BY <2>1, <2>2, RemoveAtFacts
<1>2. call' \in [Callers -> Calls] /\ \A u \in Callers : call'[u].pc # "idle" => call'[u].channel \in Channels
  BY NamedFrames DEF SessionTypeOK, Finish, Idle
<1>3. pending' \in Callers \cup {None}
  BY DEF SessionTypeOK, Finish
<1>4. QED
  BY <1>1, <1>2, <1>3 DEF SessionTypeOK, Finish

\* Init gives every variable a value of its type.
LEMMA TypeInit == Init => TypeOK
<1>1. SUFFICES ASSUME Init PROVE TypeOK
  OBVIOUS
<1>2. up \in Seq(Commands) /\ down \in Seq(Frames) /\ inbox \in Seq(Frames) /\ lock \in Seq(Callers)
  BY <1>1 DEF Init, SessionInit
<1>3. SessionTypeOK
  BY <1>1, <1>2, NamedFrames DEF Init, SessionInit, SessionTypeOK, Idle
<1>4. SessionBound \in Nat /\ RequestBound \in Nat
  BY ListenerBoundsAssumption
<1>5. 0 \in 0..SessionBound /\ 0 \in 0..RequestBound
  BY <1>4
<1>6. QED
  BY <1>1, <1>3, <1>5 DEF Init, TypeOK, Mains, Outcomes


\* What becomes of the frame that is taken from the inbox.
LEMMA TakeShape ==
  ASSUME TypeOK, TakeFrame
  PROVE  /\ inbox[1] \in Frames /\ 1 <= Len(inbox) /\ Len(inbox') = Len(inbox) - 1
         /\ \A i \in 1..Len(inbox') : inbox'[i] = inbox[i + 1]
         /\ \/ inbox[1] = Welcome /\ main' = "replaying" /\ todo' = desired /\ UNCHANGED <<outcome, bound, told>>
            \/ /\ EndsSession(inbox[1])
               /\ \E o \in Outcomes : o = Verdict(inbox[1]) /\ Leave(o) /\ UNCHANGED todo
            \/ inbox[1] # Welcome /\ ~EndsSession(inbox[1]) /\ UNCHANGED <<main, todo, outcome, bound, told>>
<1>1. inbox \in Seq(Frames) /\ inbox # << >> /\ inbox' = Tail(inbox)
  BY DEF TypeOK, SessionTypeOK, TakeFrame
<1>2. inbox[1] \in Frames /\ 1 <= Len(inbox) /\ inbox[1] = Head(inbox)
  BY <1>1
<1>3. Len(inbox') = Len(inbox) - 1 /\ \A i \in 1..Len(inbox') : inbox'[i] = inbox[i + 1]
  BY <1>1
<1>4. \A f \in Frames : Verdict(f) \in Outcomes
  BY DEF Verdict, Outcomes
<1>5. QED
  BY <1>2, <1>3, <1>4 DEF TakeFrame

\* A step keeps the types.
LEMMA TypeStep ==
  ASSUME TypeOK, Next
  PROVE  TypeOK'
<1> USE HandlersAssumption, ListenerBoundsAssumption DEF TypeOK, Mains, Outcomes, listenerVars
<1>1. ASSUME ServerFound PROVE TypeOK'
  <2>1. SessionTypeOK'
    BY <1>1 DEF TypeOK, SessionTypeOK, sessionVars, ServerFound
  <2>2. QED
    BY <1>1, <2>1 DEF ServerFound, Exit
<1>2. ASSUME ServerMissing PROVE TypeOK'
  <2>1. SessionTypeOK'
    BY <1>2 DEF TypeOK, SessionTypeOK, sessionVars, ServerMissing
  <2>2. QED
    BY <1>2, <2>1 DEF ServerMissing, Exit
<1>3. ASSUME Connected PROVE TypeOK'
  <2>1. PICK first \in {Welcome} \cup {Frame("error", code, None, None) : code \in {"refused", "permanent", "taken"}} : Open(first)
    BY <1>3 DEF Connected
  <2>2. first \in Frames
    BY <2>1, NamedFrames DEF Frame, Frames, FrameOps, Codes
  <2>3. SessionTypeOK'
    BY <2>1, <2>2, OpenTypes
  <2>4. number' \in 0..SessionBound
    BY <1>3 DEF Connected
  <2>5. main' \in Mains /\ slipped' \in BOOLEAN /\ refused' \subseteq Channels
        /\ told' \in {"nowhere", "inbox", "command", "hidden"}
    BY <1>3 DEF Connected
  <2>6. UNCHANGED <<adapter, outcome, stop, missed, desired, todo, bound, ready, deadline, renamed, requests>>
    BY <1>3 DEF Connected
  <2>7. QED
    BY <2>3, <2>4, <2>5, <2>6
<1>4. ASSUME ConnectFails PROVE TypeOK'
  <2>1. SessionTypeOK'
    BY <1>4 DEF TypeOK, SessionTypeOK, sessionVars, ConnectFails
  <2>2. QED
    BY <1>4, <2>1 DEF ConnectFails, After, Exit
<1>5. ASSUME DeadlinePasses PROVE TypeOK'
  <2>1. SessionTypeOK'
    BY <1>5 DEF TypeOK, SessionTypeOK, sessionVars, DeadlinePasses
  <2>2. QED
    BY <1>5, <2>1 DEF DeadlinePasses
<1>6. ASSUME WakeUp PROVE TypeOK'
  <2>1. SessionTypeOK'
    BY <1>6 DEF TypeOK, SessionTypeOK, sessionVars, WakeUp
  <2>2. QED
    BY <1>6, <2>1 DEF WakeUp, Exit
<1>7. ASSUME TakeFrame PROVE TypeOK'
  <2>1. inbox' \in Seq(Frames) /\ UNCHANGED <<link, up, down, subscribed, closed, reader, pending, lock, call>>
    BY <1>7, SeqTypes DEF TakeFrame, SessionTypeOK
  <2>2. SessionTypeOK'
    BY <2>1 DEF SessionTypeOK
  <2> DEFINE Keeps ==
        /\ main' \in Mains /\ outcome' \in Outcomes /\ bound' \in BOOLEAN /\ todo' \subseteq Channels
        /\ told' \in {"nowhere", "inbox", "command", "hidden"}
  <2>3. Keeps
    <3>1. CASE main' = "replaying" /\ todo' = desired /\ UNCHANGED <<outcome, bound, told>>
      BY <3>1
    <3>2. ASSUME NEW o \in Outcomes, Leave(o), UNCHANGED todo PROVE Keeps
      BY <3>2 DEF Leave
    <3>3. CASE UNCHANGED <<main, todo, outcome, bound, told>>
      BY <3>3
    <3>4. QED
      BY <1>7, TakeShape, <3>1, <3>2, <3>3
  <2>4. UNCHANGED <<adapter, stop, missed, desired, ready, deadline, renamed, number, requests, slipped, refused>>
    BY <1>7 DEF TakeFrame
  <2>5. QED
    BY <2>2, <2>3, <2>4
<1>8. ASSUME WriteFails PROVE TypeOK'
  <2>1. SessionTypeOK'
    BY <1>8 DEF TypeOK, SessionTypeOK, sessionVars, WriteFails
  <2>2. QED
    BY <1>8, <2>1 DEF WriteFails, Leave
<1>9. ASSUME ReplayNext PROVE TypeOK'
  <2>1. SessionTypeOK'
    BY <1>9, AskTypes DEF ReplayNext, Ops
  <2>2. QED
    BY <1>9, <2>1 DEF ReplayNext, Ask
<1>10. ASSUME ReplayDone PROVE TypeOK'
  <2>1. SessionTypeOK'
    BY <1>10 DEF TypeOK, SessionTypeOK, sessionVars, ReplayDone
  <2>2. QED
    BY <1>10, <2>1 DEF ReplayDone
<1>10a. ASSUME ControlStarted PROVE TypeOK'
  <2>1. SessionTypeOK'
    BY <1>10a DEF TypeOK, SessionTypeOK, sessionVars, ControlStarted
  <2>2. main' \in Mains /\ outcome' \in Outcomes /\ ready' \in BOOLEAN /\ bound' \in BOOLEAN
        /\ told' \in {"nowhere", "inbox", "command", "hidden"}
    BY <1>10a DEF ControlStarted, Leave
  <2>3. UNCHANGED <<adapter, stop, missed, desired, todo, deadline, renamed, number, requests, slipped, refused>>
    BY <1>10a DEF ControlStarted
  <2>4. QED
    BY <2>1, <2>2, <2>3
<1>11. ASSUME LeaveDone PROVE TypeOK'
  <2>1. SessionTypeOK'
    BY <1>11, CloseTypes DEF LeaveDone
  <2>2. After(outcome) /\ ready' = FALSE
        /\ UNCHANGED <<adapter, outcome, stop, missed, todo, bound, number, requests, slipped, refused, told>>
    BY <1>11 DEF LeaveDone
  <2>3. main' \in Mains /\ desired' \subseteq Channels
    <3>1. main' \in {"exited", "connecting", "pausing"} /\ desired' \in {{}, desired}
      BY <2>2 DEF After, Exit
    <3>2. QED
      BY <3>1
  <2>4. deadline' \in {"none", "running", "passed"} /\ renamed' \in BOOLEAN
    BY <2>2 DEF After
  <2>5. QED
    BY <2>1, <2>2, <2>3, <2>4
<1>12. ASSUME Stop PROVE TypeOK'
  <2>1. SessionTypeOK'
    <3>1. Expire(Replay) \/ UNCHANGED sessionVars
      BY <1>12 DEF Stop
    <3>2. QED
      BY <3>1, ExpireTypes DEF SessionTypeOK, sessionVars
  <2>2. main' \in Mains /\ desired' \subseteq Channels
    BY <1>12 DEF Stop, Exit, Leave
  <2>3. stop' \in BOOLEAN /\ missed' \in BOOLEAN /\ bound' \in BOOLEAN
    BY <1>12 DEF Stop, Exit, Leave
  <2>4. outcome' \in Outcomes /\ told' \in {"nowhere", "inbox", "command", "hidden"}
    BY <1>12 DEF Stop, Leave
  <2>5. UNCHANGED <<adapter, todo, ready, deadline, renamed, number, requests, slipped, refused>>
    BY <1>12 DEF Stop
  <2>6. QED
    BY <2>1, <2>2, <2>3, <2>4, <2>5
<1>13. ASSUME Reads PROVE TypeOK'
  <2>1. SessionTypeOK'
    BY <1>13, ReadTypes DEF Reads
  <2>2. QED
    BY <1>13, <2>1 DEF Reads, Read, Routed
<1>14. ASSUME ReaderStops PROVE TypeOK'
  <2>1. SessionTypeOK'
    BY <1>14, ReaderEndsTypes DEF ReaderStops
  <2>2. QED
    BY <1>14, <2>1 DEF ReaderStops, ReaderEnds
<1>15. ASSUME Serve /\ UNCHANGED listenerVars PROVE TypeOK'
  BY <1>15, ServeTypes
<1>16. ASSUME Kick /\ UNCHANGED listenerVars PROVE TypeOK'
  BY <1>16, LossTypes
<1>17. ASSUME Lose /\ UNCHANGED listenerVars PROVE TypeOK'
  BY <1>17, LossTypes
<1>18. ASSUME NEW t \in Handlers, Request(t) PROVE TypeOK'
  <2>1. SessionTypeOK'
    <3>1. PICK op \in Ops, c \in Channels : Ask(t, op, c)
      BY <1>18 DEF Request
    <3>2. QED
      BY <3>1, AskTypes
  <2>2. QED
    BY <1>18, <2>1 DEF Request
<1>19. ASSUME NEW t \in Callers, Proceed(t) PROVE TypeOK'
  BY <1>19, IssueTypes DEF Proceed
<1>20. ASSUME NEW t \in Callers, GiveUp(t) PROVE TypeOK'
  <2>1. SessionTypeOK'
    BY <1>20, ExpireTypes DEF GiveUp
  <2>2. QED
    BY <1>20, <2>1 DEF GiveUp, Expire
<1>21. ASSUME NEW t \in Callers, Answered(t) PROVE TypeOK'
  <2>1. SessionTypeOK'
    BY <1>21, FinishTypes DEF Answered
  <2>2. desired' \subseteq Channels /\ refused' \subseteq Channels
    BY <1>21 DEF Answered, Learned, SessionTypeOK, Finish, Done
  <2>3. QED
    BY <1>21, <2>1, <2>2 DEF Answered
<1>22. QED
  BY <1>1, <1>2, <1>3, <1>4, <1>5, <1>6, <1>7, <1>8, <1>9, <1>10, <1>10a, <1>11, <1>12, <1>13, <1>14,
     <1>15, <1>16, <1>17, <1>18, <1>19, <1>20, <1>21 DEF Next, Server

-----------------------------------------------------------------------------
(* The lock. *)

\* The four ways in which a command moves: it is queued.
LEMMA LockAsk ==
  ASSUME TypeOK, LockInv, NEW t \in Callers, NEW op, NEW c, Ask(t, op, c) PROVE LockInv'
<1>1. lock \in Seq(Callers) /\ call \in [Callers -> Calls]
  BY DEF TypeOK, SessionTypeOK
<1>2. Len(lock') = Len(lock) + 1 /\ lock'[Len(lock) + 1] = t /\ \A i \in 1..Len(lock) : lock'[i] = lock[i]
  BY <1>1 DEF Ask
<1>3. ~Runs(t) /\ call'[t].pc = "queued" /\ pending' = pending /\ \A u \in Callers \ {t} : call'[u] = call[u]
  BY <1>1 DEF Ask, Runs
<1>4. Len(lock) \in Nat /\ \A i \in 1..Len(lock) : lock[i] # t
  BY <1>1, <1>3 DEF LockInv
<1>5. \A i, j \in 1..Len(lock') : lock'[i] = lock'[j] => i = j
  BY <1>2, <1>4 DEF LockInv
<1>6. \A u \in Callers : Runs(u)' <=> \E i \in 1..Len(lock') : lock'[i] = u
  <2>1. ASSUME NEW u \in Callers \ {t} PROVE Runs(u)' <=> \E i \in 1..Len(lock') : lock'[i] = u
    <3>1. Runs(u)' <=> Runs(u)
      BY <1>3 DEF Runs
    <3>2. (\E i \in 1..Len(lock') : lock'[i] = u) <=> \E i \in 1..Len(lock) : lock[i] = u
      BY <1>2, <1>4
    <3>3. QED
      BY <3>1, <3>2 DEF LockInv
  <2>2. Runs(t)' /\ \E i \in 1..Len(lock') : lock'[i] = t
    BY <1>2, <1>3, <1>4 DEF Runs
  <2>3. QED
    BY <2>1, <2>2
<1>7. \A u \in Callers : call'[u].pc \in {"waiting", "failed"} => Len(lock') > 0 /\ lock'[1] = u
  BY <1>2, <1>3, <1>4 DEF LockInv
<1>8. pending' # None => Len(lock') > 0 /\ lock'[1] = pending' /\ call'[pending'].pc \in {"waiting", "expired"}
  <2>1. pending # None => Len(lock) > 0 /\ lock[1] = pending /\ call[pending].pc \in {"waiting", "expired"}
    BY DEF LockInv
  <2>2. pending # None => pending \in Callers \ {t}
    BY <1>3, <2>1 DEF TypeOK, SessionTypeOK, Runs
  <2>3. QED
    BY <1>2, <1>3, <1>4, <2>1, <2>2
<1>9. QED
  BY <1>5, <1>6, <1>7, <1>8 DEF LockInv

\* It is sent, or fails.
LEMMA LockIssue ==
  ASSUME TypeOK, LockInv, NEW t \in Callers, Issue(t) PROVE LockInv'
<1>1. lock \in Seq(Callers) /\ call \in [Callers -> Calls]
  BY DEF TypeOK, SessionTypeOK
<1>2. call[t].pc = "queued" /\ Len(lock) > 0 /\ lock[1] = t /\ lock' = lock
  BY <1>1 DEF Issue
<1>3. /\ call'[t].pc \in {"waiting", "failed"} /\ \A u \in Callers \ {t} : call'[u] = call[u]
      /\ pending' = pending \/ (pending' = t /\ call'[t].pc = "waiting")
  <2>1. CASE call' = [call EXCEPT ![t].pc = "failed"] /\ pending' = pending
    BY <1>1, <2>1 DEF Calls
  <2>2. CASE call' = [call EXCEPT ![t].pc = "waiting"] /\ pending' = t
    BY <1>1, <2>2 DEF Calls
  <2>3. QED
    BY <2>1, <2>2 DEF Issue
<1>4. \A u \in Callers : Runs(u)' <=> Runs(u)
  BY <1>2, <1>3 DEF Runs
<1>5. pending # None => FALSE
  BY <1>2 DEF LockInv
<1>6. QED
  BY <1>2, <1>3, <1>4, <1>5 DEF LockInv

\* It gives up.
LEMMA LockExpire ==
  ASSUME TypeOK, LockInv, NEW t \in Callers, Expire(t) PROVE LockInv'
<1>1. call \in [Callers -> Calls] /\ pending \in Callers \cup {None}
  BY DEF TypeOK, SessionTypeOK
<1>2. /\ call[t].pc \in {"queued", "waiting"} /\ call'[t].pc = "expired"
      /\ UNCHANGED <<lock, pending>> /\ \A u \in Callers \ {t} : call'[u] = call[u]
  BY <1>1 DEF Expire, Calls
<1>3. \A u \in Callers : Runs(u)' <=> Runs(u)
  BY <1>2 DEF Runs
<1>4. QED
  BY <1>1, <1>2, <1>3 DEF LockInv

\* It is over: the lock goes on.
LEMMA LockFinish ==
  ASSUME TypeOK, LockInv, NEW t \in Callers, Finish(t) PROVE LockInv'
<1>1. lock \in Seq(Callers) /\ call \in [Callers -> Calls] /\ pending \in Callers \cup {None}
  BY DEF TypeOK, SessionTypeOK
<1>2. PICK i \in 1..Len(lock) : lock[i] = t /\ lock' = RemoveAt(lock, i)
  BY <1>1 DEF Finish
<1>3. Len(lock') = Len(lock) - 1 /\ \A j \in 1..(Len(lock) - 1) : lock'[j] = IF j < i THEN lock[j] ELSE lock[j + 1]
  BY <1>1, <1>2, RemoveAtFacts
<1>4. /\ call'[t] = Idle /\ \A u \in Callers \ {t} : call'[u] = call[u]
      /\ pending' = IF pending = t THEN None ELSE pending
  BY <1>1 DEF Finish
<1>5. Len(lock) \in Nat /\ \A j \in 1..Len(lock) : lock[j] = t => j = i
  BY <1>1, <1>2 DEF LockInv
<1>6. \A j, k \in 1..Len(lock') : lock'[j] = lock'[k] => j = k
  <2>1. SUFFICES ASSUME NEW j \in 1..Len(lock'), NEW k \in 1..Len(lock'), lock'[j] = lock'[k] PROVE j = k
    OBVIOUS
  <2>2. (IF j < i THEN lock[j] ELSE lock[j + 1]) = (IF k < i THEN lock[k] ELSE lock[k + 1])
    BY <1>3, <1>5, <2>1
  <2>3. (IF j < i THEN j ELSE j + 1) = (IF k < i THEN k ELSE k + 1)
    BY <1>3, <1>5, <2>2, SMTT(30) DEF LockInv
  <2>4. QED
    BY <1>3, <1>5, <2>3
<1>7. \A u \in Callers : Runs(u)' <=> \E j \in 1..Len(lock') : lock'[j] = u
  <2>1. ~Runs(t)' /\ \A j \in 1..Len(lock') : lock'[j] # t
    BY <1>3, <1>4, <1>5 DEF Runs, Idle
  <2>2. ASSUME NEW u \in Callers \ {t} PROVE Runs(u)' <=> \E j \in 1..Len(lock') : lock'[j] = u
    <3>1. Runs(u)' <=> Runs(u)
      BY <1>4 DEF Runs
    <3>2. ASSUME NEW j \in 1..Len(lock), lock[j] = u PROVE \E k \in 1..Len(lock') : lock'[k] = u
      <4>1. CASE j < i
        BY <1>3, <1>5, <3>2, <4>1
      <4>2. CASE j > i
        <5>1. j - 1 \in 1..Len(lock') /\ lock'[j - 1] = lock[j]
          BY <1>2, <1>3, <1>5, <4>2
        <5>2. QED
          BY <3>2, <5>1
      <4>3. QED
        BY <1>2, <3>2, <4>1, <4>2
    <3>3. ASSUME NEW k \in 1..Len(lock'), lock'[k] = u PROVE \E j \in 1..Len(lock) : lock[j] = u
      BY <1>3, <1>5, <3>3
    <3>4. QED
      BY <3>1, <3>2, <3>3 DEF LockInv
  <2>3. QED
    BY <2>1, <2>2
<1>8. \A u \in Callers : lock[1] = u /\ Runs(u) /\ u # t => Len(lock') > 0 /\ lock'[1] = u
  <2>1. SUFFICES ASSUME NEW u \in Callers, lock[1] = u, Runs(u), u # t PROVE Len(lock') > 0 /\ lock'[1] = u
    OBVIOUS
  <2>2. i # 1 /\ Len(lock) > 1
    BY <1>2, <2>1
  <2>3. QED
    BY <1>2, <1>3, <1>5, <2>1, <2>2
<1>9. \A u \in Callers : call'[u].pc \in {"waiting", "failed"} => Len(lock') > 0 /\ lock'[1] = u
  BY <1>4, <1>8 DEF LockInv, Runs, Idle
<1>10. pending' # None => Len(lock') > 0 /\ lock'[1] = pending' /\ call'[pending'].pc \in {"waiting", "expired"}
  BY <1>1, <1>4, <1>8 DEF LockInv, Runs
<1>11. QED
  BY <1>6, <1>7, <1>9, <1>10 DEF LockInv

\* The queue stays one of commands, each once, whose head alone has sent
\* anything.
LEMMA LockStep ==
  ASSUME TypeOK, LockInv, TaskInv, Next
  PROVE  LockInv'
<1> USE HandlersAssumption, CallersAssumption
<1>1. ASSUME ServerFound PROVE LockInv'
  BY <1>1 DEF ServerFound, Exit, LockInv, Runs, sessionVars
<1>2. ASSUME ServerMissing PROVE LockInv'
  BY <1>2 DEF ServerMissing, Exit, LockInv, Runs, sessionVars
<1>3. ASSUME Connected PROVE LockInv'
  BY <1>3 DEF Connected, Open, Welcome, Frame, LockInv, Runs, TaskInv, Between
<1>4. ASSUME ConnectFails PROVE LockInv'
  BY <1>4 DEF ConnectFails, After, Exit, LockInv, Runs, sessionVars
<1>5. ASSUME DeadlinePasses PROVE LockInv'
  BY <1>5 DEF DeadlinePasses, LockInv, Runs, sessionVars
<1>6. ASSUME WakeUp PROVE LockInv'
  BY <1>6 DEF WakeUp, Exit, LockInv, Runs, sessionVars
<1>7. ASSUME TakeFrame PROVE LockInv'
  BY <1>7 DEF TakeFrame, Leave, Verdict, EndsSession, LockInv, Runs, sessionVars
<1>8. ASSUME WriteFails PROVE LockInv'
  BY <1>8 DEF WriteFails, Leave, LockInv, Runs, sessionVars
<1>9. ASSUME ReplayNext PROVE LockInv'
  BY <1>9, LockAsk DEF ReplayNext
<1>10. ASSUME ReplayDone PROVE LockInv'
  BY <1>10 DEF ReplayDone, LockInv, Runs, sessionVars
<1>10a. ASSUME ControlStarted PROVE LockInv'
  BY <1>10a DEF ControlStarted, Leave, LockInv, Runs, sessionVars
<1>11. ASSUME LeaveDone PROVE LockInv'
  BY <1>11 DEF LeaveDone, Close, After, Exit, LockInv, Runs, sessionVars
<1>12. ASSUME Stop PROVE LockInv'
  <2>1. Expire(Replay) \/ UNCHANGED sessionVars
    BY <1>12 DEF Stop
  <2>2. QED
    BY <2>1, LockExpire DEF LockInv, Runs, sessionVars
<1>13. ASSUME Reads PROVE LockInv'
  <2>1. call \in [Callers -> Calls] /\ lock' = lock /\ pending' \in {pending, None}
    BY <1>13 DEF Reads, Read, TypeOK, SessionTypeOK
  <2>2. \A u \in Callers : call'[u].pc = call[u].pc
    BY <1>13, <2>1 DEF Reads, Read, Calls
  <2>3. pending' # None => call'[pending'].pc = call[pending].pc
    BY <1>13, <2>1, <2>2 DEF TypeOK, SessionTypeOK
  <2>4. QED
    BY <2>1, <2>2, <2>3 DEF LockInv, Runs
<1>14. ASSUME ReaderStops PROVE LockInv'
  BY <1>14 DEF ReaderStops, ReaderEnds, LockInv, Runs, TypeOK, SessionTypeOK, Calls
<1>15. ASSUME Serve /\ UNCHANGED listenerVars PROVE LockInv'
  BY <1>15 DEF Serve, Frame, LockInv, Runs, sessionVars
<1>16. ASSUME Kick /\ UNCHANGED listenerVars PROVE LockInv'
  BY <1>16 DEF Kick, LockInv, Runs, sessionVars
<1>17. ASSUME Lose /\ UNCHANGED listenerVars PROVE LockInv'
  BY <1>17 DEF Lose, LockInv, Runs, sessionVars
<1>18. ASSUME NEW t \in Handlers, Request(t) PROVE LockInv'
  BY <1>18, LockAsk DEF Request
<1>19. ASSUME NEW t \in Callers, Proceed(t) PROVE LockInv'
  BY <1>19, LockIssue DEF Proceed
<1>20. ASSUME NEW t \in Callers, GiveUp(t) PROVE LockInv'
  BY <1>20, LockExpire DEF GiveUp
<1>21. ASSUME NEW t \in Callers, Answered(t) PROVE LockInv'
  BY <1>21, LockFinish DEF Answered
<1>22. QED
  BY <1>1, <1>2, <1>3, <1>4, <1>5, <1>6, <1>7, <1>8, <1>9, <1>10, <1>10a, <1>11, <1>12, <1>13, <1>14,
     <1>15, <1>16, <1>17, <1>18, <1>19, <1>20, <1>21 DEF Next, Server

-----------------------------------------------------------------------------
(* What the steps on the sequences do. *)

\* The reader: the frame goes to the pending command or to the inbox.
LEMMA ReadShape ==
  ASSUME TypeOK, Read
  PROVE  /\ reader /\ UNCHANGED <<link, up, subscribed, closed, reader, lock>>
         /\ down[1] \in Frames /\ Len(down) \in Nat \ {0} /\ Len(down') = Len(down) - 1
         /\ \A i \in 1..Len(down') : down'[i] = down[i + 1]
         /\ \A u \in Callers : call'[u].pc = call[u].pc /\ call'[u].op = call[u].op /\ call'[u].channel = call[u].channel
         /\ \/ /\ Routed(down[1]) /\ pending \in Callers /\ pending' = None /\ inbox' = inbox
               /\ \A u \in Callers : call'[u].future =
                    IF u = pending /\ call[u].future = Unset THEN down[1] ELSE call[u].future
            \/ /\ ~Routed(down[1]) /\ UNCHANGED <<call, pending>>
               /\ Len(inbox') = Len(inbox) + 1 /\ inbox'[Len(inbox) + 1] = down[1]
               /\ \A i \in 1..Len(inbox) : inbox'[i] = inbox[i]
<1>1. down \in Seq(Frames) /\ down # << >> /\ down' = Tail(down) /\ Head(down) = down[1]
  BY DEF TypeOK, SessionTypeOK, Read
<1>2. /\ down[1] \in Frames /\ Len(down) \in Nat \ {0} /\ Len(down') = Len(down) - 1
      /\ \A i \in 1..Len(down') : down'[i] = down[i + 1]
  BY <1>1
<1>3. call \in [Callers -> Calls] /\ inbox \in Seq(Frames) /\ pending \in Callers \cup {None}
  BY DEF TypeOK, SessionTypeOK
<1>4. CASE Routed(down[1])
  <2>1. pending \in Callers /\ pending' = None /\ inbox' = inbox
    BY <1>1, <1>3, <1>4 DEF Read, Routed
  <2>2. CASE call[pending].future = Unset
    <3>1. call' = [call EXCEPT ![pending].future = down[1]]
      BY <1>1, <1>4, <2>2 DEF Read
    <3>2. QED
      BY <1>2, <1>3, <1>4, <2>1, <2>2, <3>1 DEF Read, Calls
  <2>3. CASE call[pending].future # Unset
    <3>1. call' = call
      BY <1>1, <1>4, <2>3 DEF Read
    <3>2. QED
      BY <1>2, <1>4, <2>1, <2>3, <3>1 DEF Read
  <2>4. QED
    BY <2>2, <2>3
<1>5. CASE ~Routed(down[1])
  <2>1. inbox' = Append(inbox, down[1]) /\ UNCHANGED <<call, pending>>
    BY <1>1, <1>5 DEF Read
  <2>2. /\ Len(inbox') = Len(inbox) + 1 /\ inbox'[Len(inbox) + 1] = down[1]
        /\ \A i \in 1..Len(inbox) : inbox'[i] = inbox[i]
    BY <1>2, <1>3, <2>1
  <2>3. QED
    BY <1>2, <1>5, <2>1, <2>2 DEF Read
<1>6. QED
  BY <1>4, <1>5

\* Its end: Eof for the inbox, an exception for the pending command.
LEMMA EndShape ==
  ASSUME TypeOK, ReaderEnds
  PROVE  /\ Len(inbox') = Len(inbox) + 1 /\ inbox'[Len(inbox) + 1] = Eof
         /\ \A i \in 1..Len(inbox) : inbox'[i] = inbox[i]
         /\ \A u \in Callers : call'[u].pc = call[u].pc /\ call'[u].op = call[u].op /\ call'[u].channel = call[u].channel
         /\ \A u \in Callers : call'[u].future =
              IF u = pending /\ call[u].future = Unset THEN Aborted ELSE call[u].future
<1>1. inbox \in Seq(Frames) /\ call \in [Callers -> Calls] /\ pending \in Callers \cup {None} /\ None \notin Callers
  BY CallersAssumption DEF TypeOK, SessionTypeOK
<1>2. inbox' = Append(inbox, Eof)
  BY DEF ReaderEnds
<1>3. /\ Len(inbox') = Len(inbox) + 1 /\ inbox'[Len(inbox) + 1] = Eof
      /\ \A i \in 1..Len(inbox) : inbox'[i] = inbox[i]
  BY <1>1, <1>2
<1>4. CASE pending # None /\ call[pending].future = Unset
  <2>1. call' = [call EXCEPT ![pending].future = Aborted] /\ pending \in Callers
    BY <1>1, <1>4 DEF ReaderEnds
  <2>2. QED
    BY <1>1, <1>3, <1>4, <2>1 DEF Calls
<1>5. CASE ~(pending # None /\ call[pending].future = Unset)
  <2>1. call' = call
    BY <1>5 DEF ReaderEnds
  <2>2. QED
    BY <1>1, <1>3, <1>5, <2>1
<1>6. QED
  BY <1>4, <1>5

\* The server's answer to the first command.
LEMMA ServeShape ==
  ASSUME TypeOK, Serve
  PROVE  /\ up[1] \in Commands /\ Len(up) \in Nat \ {0} /\ Len(up') = Len(up) - 1 /\ link = "open"
         /\ UNCHANGED <<link, inbox, closed, reader, pending, lock, call>>
         /\ Len(down') = Len(down) + 1 /\ \A i \in 1..Len(down) : down'[i] = down[i]
         /\ LET f == down'[Len(down) + 1] IN
              /\ f.for = up[1].for /\ f.channel = up[1].channel
              /\ f.op \in Expected(up[1].op) /\ f.code \in {"none", "refused"}
              /\ \/ f.op = "subscribe_ok" /\ subscribed' = subscribed \cup {f.channel}
                 \/ f.op = "unsubscribe_ok" /\ subscribed' = subscribed \ {f.channel}
                 \/ f.op = "error" /\ f.code = "refused" /\ subscribed' = subscribed /\ f.channel \notin subscribed
<1>1. up \in Seq(Commands) /\ up # << >> /\ Head(up) = up[1] /\ down \in Seq(Frames)
  BY DEF TypeOK, SessionTypeOK, Serve
<1>2. up[1] \in Commands /\ Len(up) \in Nat \ {0} /\ Len(Tail(up)) = Len(up) - 1
  BY <1>1
<1>3. PICK op \in FrameOps, code \in Codes :
        /\ down' = Append(down, Frame(op, code, up[1].channel, up[1].for))
        /\ op \in Expected(up[1].op) /\ code \in {"none", "refused"}
        /\ \/ op = "subscribe_ok" /\ subscribed' = subscribed \cup {up[1].channel}
           \/ op = "unsubscribe_ok" /\ subscribed' = subscribed \ {up[1].channel}
           \/ op = "error" /\ code = "refused" /\ subscribed' = subscribed /\ up[1].channel \notin subscribed
  BY <1>1, <1>2 DEF Serve, FrameOps, Codes, Expected, Commands, Ops
<1>4. /\ Len(down') = Len(down) + 1 /\ \A i \in 1..Len(down) : down'[i] = down[i]
      /\ down'[Len(down) + 1] = Frame(op, code, up[1].channel, up[1].for)
  BY <1>1, <1>3
<1>5. QED
  BY <1>2, <1>3, <1>4 DEF Serve, Frame

\* A command is sent, or fails: no other is under way.
LEMMA IssueShape ==
  ASSUME TypeOK, LockInv, NEW t \in Callers, Issue(t)
  PROVE  /\ call[t].pc = "queued" /\ pending = None /\ Len(lock) > 0 /\ lock[1] = t
         /\ \A u \in Callers \ {t} : call'[u] = call[u]
         /\ \A u \in Callers \ {t} : call[u].pc \notin {"waiting", "failed"}
         /\ call'[t].op = call[t].op /\ call'[t].future = call[t].future /\ call'[t].channel = call[t].channel
         /\ UNCHANGED <<link, down, subscribed, inbox, closed, reader, lock>>
         /\ \/ call'[t].pc = "failed" /\ UNCHANGED <<up, pending>>
            \/ link # "open" /\ call'[t].pc = "waiting" /\ pending' = t /\ UNCHANGED up
            \/ /\ link = "open" /\ call'[t].pc = "waiting" /\ pending' = t /\ Len(up') = Len(up) + 1
               /\ up'[Len(up) + 1] = [op |-> call[t].op, channel |-> call[t].channel, for |-> t]
<1>1. call \in [Callers -> Calls] /\ up \in Seq(Commands) /\ lock \in Seq(Callers)
  BY DEF TypeOK, SessionTypeOK
<1>2. call[t].pc = "queued" /\ Len(lock) > 0 /\ lock[1] = t
  BY <1>1 DEF Issue
<1>3. pending = None /\ \A u \in Callers \ {t} : call[u].pc \notin {"waiting", "failed"}
  BY <1>2 DEF LockInv
<1>4. CASE call' = [call EXCEPT ![t].pc = "failed"] /\ UNCHANGED <<up, pending>>
  BY <1>1, <1>2, <1>3, <1>4 DEF Issue, Calls
<1>5. CASE call' = [call EXCEPT ![t].pc = "waiting"] /\ pending' = t /\ link # "open" /\ UNCHANGED up
  BY <1>1, <1>2, <1>3, <1>5 DEF Issue, Calls
<1>6. CASE /\ call' = [call EXCEPT ![t].pc = "waiting"] /\ pending' = t /\ link = "open"
           /\ up' = Append(up, [op |-> call[t].op, channel |-> call[t].channel, for |-> t])
  <2>1. [op |-> call[t].op, channel |-> call[t].channel, for |-> t] \in Commands
    BY <1>1, <1>2 DEF TypeOK, SessionTypeOK, Commands, Calls
  <2>2. Len(up') = Len(up) + 1 /\ up'[Len(up) + 1] = [op |-> call[t].op, channel |-> call[t].channel, for |-> t]
    BY <1>1, <1>6, <2>1
  <2>3. QED
    BY <1>1, <1>2, <1>3, <1>6, <2>2 DEF Issue, Calls
<1>7. QED
  BY <1>4, <1>5, <1>6 DEF Issue
-----------------------------------------------------------------------------
(* The tasks. *)

\* Commands run only where the main task lets them.
LEMMA TaskStep ==
  ASSUME TypeOK, LockInv, TaskInv, DownInv, Next
  PROVE  TaskInv'
<1> USE HandlersAssumption, CallersAssumption
<1>1. ASSUME ServerFound PROVE TaskInv'
  BY <1>1 DEF ServerFound, Exit, TaskInv, Between, NoRequests, Runs, sessionVars, listenerVars
<1>2. ASSUME ServerMissing PROVE TaskInv'
  BY <1>2 DEF ServerMissing, Exit, TaskInv, Between, NoRequests, Runs, sessionVars, listenerVars
<1>3. ASSUME Connected PROVE TaskInv'
  BY <1>3 DEF Connected, Open, Welcome, Frame, TaskInv, Between, NoRequests, Runs, sessionVars,
     listenerVars
<1>4. ASSUME ConnectFails PROVE TaskInv'
  BY <1>4 DEF ConnectFails, After, Exit, TaskInv, Between, NoRequests, Runs, sessionVars,
     listenerVars
<1>5. ASSUME DeadlinePasses PROVE TaskInv'
  BY <1>5 DEF DeadlinePasses, TaskInv, Between, NoRequests, Runs, sessionVars, listenerVars
<1>6. ASSUME WakeUp PROVE TaskInv'
  BY <1>6 DEF WakeUp, Exit, TaskInv, Between, NoRequests, Runs, sessionVars, listenerVars
<1>7. ASSUME TakeFrame PROVE TaskInv'
  BY <1>7 DEF TakeFrame, Leave, Verdict, EndsSession, TaskInv, Between, NoRequests, Runs,
     sessionVars, listenerVars
<1>8. ASSUME WriteFails PROVE TaskInv'
  BY <1>8 DEF WriteFails, Leave, TaskInv, Between, NoRequests, Runs, sessionVars, listenerVars
<1>9. ASSUME ReplayNext PROVE TaskInv'
  BY <1>9 DEF ReplayNext, Ask, TaskInv, Between, NoRequests, Runs, sessionVars, listenerVars
<1>10. ASSUME ReplayDone PROVE TaskInv'
  BY <1>10 DEF ReplayDone, TaskInv, Between, NoRequests, Runs, sessionVars, listenerVars
<1>10a. ASSUME ControlStarted PROVE TaskInv'
  BY <1>10a DEF ControlStarted, Leave, TaskInv, Between, NoRequests, Runs, sessionVars, listenerVars
<1>11. ASSUME LeaveDone PROVE TaskInv'
  BY <1>11 DEF LeaveDone, Close, After, Exit, TaskInv, Between, NoRequests, Runs, sessionVars,
     listenerVars
<1>12. ASSUME Stop PROVE TaskInv'
  <2>1. UNCHANGED <<reader, inbox>> /\ call \in [Callers -> Calls]
    BY <1>12 DEF Stop, Expire, sessionVars, TypeOK, SessionTypeOK
  <2>2. CASE main = "connecting"
    <3>1. main' \in Between /\ UNCHANGED <<bound, call>>
      BY <1>12, <2>2 DEF Stop, Exit, Between, sessionVars
    <3>2. QED
      BY <2>1, <2>2, <3>1 DEF TaskInv, Between, NoRequests, Runs
  <2>3. CASE Leave("cancelled")
    <3>1. main' = "leaving" /\ bound' = FALSE
      BY <2>3 DEF Leave
    <3>2. CASE Expire(Replay)
      <4>1. /\ call'[Replay].pc = "expired" /\ call'[Replay].future = Cancelled
            /\ call[Replay].pc \in {"queued", "waiting"}
            /\ \A u \in Callers \ {Replay} : call'[u] = call[u]
        BY <2>1, <3>2 DEF Expire, Calls
      <4>2. QED
        BY <2>1, <2>3, <3>1, <3>2, <4>1 DEF TaskInv, Between, NoRequests, Runs
    <3>3. CASE ~Expire(Replay)
      <4>1. call' = call /\ (main = "leaving" \/ call[Replay].pc \notin {"queued", "waiting"})
        BY <1>12, <2>3, <3>1, <3>3 DEF Stop, Exit, sessionVars
      <4>2. call[Replay].pc \in {"idle", "expired", "failed"}
        BY <2>1, <4>1 DEF TaskInv, Calls
      <4>3. QED
        BY <2>1, <2>3, <3>1, <4>1, <4>2 DEF TaskInv, Between, NoRequests, Runs
    <3>4. QED
      BY <3>2, <3>3
  <2>4. CASE UNCHANGED <<main, bound, call>>
    BY <2>1, <2>4 DEF TaskInv, Between, NoRequests, Runs
  <2>5. QED
    BY <1>12, <2>2, <2>3, <2>4 DEF Stop, sessionVars
<1>13. ASSUME Reads PROVE TaskInv'
  <2>1. Read /\ UNCHANGED <<main, bound>>
    BY <1>13 DEF Reads
  <2>2. down[1] # Welcome
    <3>1. 1 \in 1..Len(down)
      BY <2>1, ReadShape
    <3>2. QED
      BY <3>1 DEF DownInv, Welcome, Kicked, Frame
  <2>3. \A u \in Callers : call'[u].pc = call[u].pc /\ (call'[u].future = call[u].future \/ call[u].pc = "waiting")
    <3>1. pending \in Callers => call[pending].pc = "waiting" \/ call[pending].future # Unset
      BY CallersAssumption DEF LockInv, TaskInv, Unset, Cancelled, Frame
    <3>2. QED
      BY <2>1, <3>1, ReadShape
  <2>4. \A i \in 1..Len(inbox') : inbox'[i] = Welcome => i \in 1..Len(inbox) /\ inbox[i] = Welcome
    <3>1. inbox \in Seq(Frames)
      BY DEF TypeOK, SessionTypeOK
    <3>2. QED
      BY <2>1, <2>2, <3>1, ReadShape, SMTT(30)
  <2>5. reader' = reader /\ reader
    BY <2>1, ReadShape
  <2>6. QED
    BY <2>1, <2>3, <2>4, <2>5 DEF TaskInv, Between, NoRequests, Runs
<1>14. ASSUME ReaderStops PROVE TaskInv'
  <2>1. ReaderEnds /\ UNCHANGED <<main, bound>> /\ reader' = FALSE
    BY <1>14 DEF ReaderStops, ReaderEnds, listenerVars
  <2>2. \A u \in Callers : call'[u].pc = call[u].pc /\ (call'[u].future = call[u].future \/ call[u].pc = "waiting")
    <3>1. pending \in Callers => call[pending].pc = "waiting" \/ call[pending].future # Unset
      BY CallersAssumption DEF LockInv, TaskInv, Unset, Cancelled, Frame
    <3>2. QED
      BY <2>1, <3>1, EndShape
  <2>3. \A i \in 1..Len(inbox') : inbox'[i] = Welcome => i \in 1..Len(inbox) /\ inbox[i] = Welcome
    <3>1. inbox \in Seq(Frames) /\ Eof # Welcome
      BY DEF TypeOK, SessionTypeOK, Eof, Welcome, Frame
    <3>2. QED
      BY <2>1, <3>1, EndShape
  <2>4. QED
    BY <2>1, <2>2, <2>3 DEF TaskInv, Between, NoRequests, Runs
<1>15. ASSUME Serve /\ UNCHANGED listenerVars PROVE TaskInv'
  BY <1>15 DEF Serve, Frame, TaskInv, Between, NoRequests, Runs, sessionVars, listenerVars
<1>16. ASSUME Kick /\ UNCHANGED listenerVars PROVE TaskInv'
  BY <1>16 DEF Kick, TaskInv, Between, NoRequests, Runs, sessionVars, listenerVars
<1>17. ASSUME Lose /\ UNCHANGED listenerVars PROVE TaskInv'
  BY <1>17 DEF Lose, TaskInv, Between, NoRequests, Runs, sessionVars, listenerVars
<1>18. ASSUME NEW t \in Handlers, Request(t) PROVE TaskInv'
  BY <1>18 DEF Request, Ask, TaskInv, Between, NoRequests, Runs, sessionVars, listenerVars
<1>19. ASSUME NEW t \in Callers, Proceed(t) PROVE TaskInv'
  <2>1. /\ Issue(t) /\ UNCHANGED <<main, bound, inbox, reader>>
    BY <1>19 DEF Proceed, Issue, listenerVars
  <2>2. \A u \in Callers \ {t} : call'[u] = call[u]
    BY <2>1, IssueShape
  <2>3. call[t].pc = "queued" /\ call'[t].future = call[t].future
    BY <2>1, IssueShape
  <2>4. call'[t].pc \in {"waiting", "failed"}
    BY <2>1, IssueShape
  <2>5. QED
    BY <2>1, <2>2, <2>3, <2>4 DEF TaskInv, Between, NoRequests, Runs
<1>20. ASSUME NEW t \in Callers, GiveUp(t) PROVE TaskInv'
  BY <1>20 DEF GiveUp, Expire, TypeOK, SessionTypeOK, Calls, TaskInv, Between, NoRequests, Runs,
     sessionVars, listenerVars
<1>21. ASSUME NEW t \in Callers, Answered(t) PROVE TaskInv'
  BY <1>21 DEF Answered, Finish, Learned, Result, Done, TypeOK, SessionTypeOK, Idle, TaskInv,
     Between, NoRequests, Runs, sessionVars, listenerVars
<1>22. QED
  BY <1>1, <1>2, <1>3, <1>4, <1>5, <1>6, <1>7, <1>8, <1>9, <1>10, <1>10a, <1>11, <1>12, <1>13, <1>14,
     <1>15, <1>16, <1>17, <1>18, <1>19, <1>20, <1>21 DEF Next, Server

\* The server sends nothing behind a KICKED notice.
LEMMA DownStep ==
  ASSUME TypeOK, LockInv, TaskInv, DownInv, Next
  PROVE  DownInv'
<1> USE HandlersAssumption, CallersAssumption
<1>1. ASSUME ServerFound PROVE DownInv'
  BY <1>1 DEF ServerFound, Exit, DownInv, sessionVars, listenerVars
<1>2. ASSUME ServerMissing PROVE DownInv'
  BY <1>2 DEF ServerMissing, Exit, DownInv, sessionVars, listenerVars
<1>3. ASSUME Connected PROVE DownInv'
  BY <1>3 DEF Connected, Open, Welcome, Frame, DownInv, sessionVars, listenerVars
<1>4. ASSUME ConnectFails PROVE DownInv'
  BY <1>4 DEF ConnectFails, After, Exit, DownInv, sessionVars, listenerVars
<1>5. ASSUME DeadlinePasses PROVE DownInv'
  BY <1>5 DEF DeadlinePasses, DownInv, sessionVars, listenerVars
<1>6. ASSUME WakeUp PROVE DownInv'
  BY <1>6 DEF WakeUp, Exit, DownInv, sessionVars, listenerVars
<1>7. ASSUME TakeFrame PROVE DownInv'
  BY <1>7 DEF TakeFrame, Leave, Verdict, EndsSession, DownInv, sessionVars, listenerVars
<1>8. ASSUME WriteFails PROVE DownInv'
  BY <1>8 DEF WriteFails, Leave, DownInv, sessionVars, listenerVars
<1>9. ASSUME ReplayNext PROVE DownInv'
  BY <1>9 DEF ReplayNext, Ask, DownInv, sessionVars, listenerVars
<1>10. ASSUME ReplayDone PROVE DownInv'
  BY <1>10 DEF ReplayDone, DownInv, sessionVars, listenerVars
<1>10a. ASSUME ControlStarted PROVE DownInv'
  BY <1>10a DEF ControlStarted, Leave, DownInv, sessionVars, listenerVars
<1>11. ASSUME LeaveDone PROVE DownInv'
  BY <1>11 DEF LeaveDone, Close, After, Exit, DownInv, sessionVars, listenerVars
<1>12. ASSUME Stop PROVE DownInv'
  BY <1>12 DEF Stop, Exit, Leave, Expire, DownInv, sessionVars, listenerVars
<1>13. ASSUME Reads PROVE DownInv'
  <2>1. Read
    BY <1>13 DEF Reads
  <2>2. QED
    BY <2>1, ReadShape DEF DownInv
<1>14. ASSUME ReaderStops PROVE DownInv'
  BY <1>14 DEF ReaderStops, ReaderEnds, DownInv, sessionVars, listenerVars
<1>15. ASSUME Serve /\ UNCHANGED listenerVars PROVE DownInv'
  <2>1. up[1].for # None /\ down \in Seq(Frames)
    BY <1>15, ServeShape, CallersAssumption DEF Commands, TypeOK, SessionTypeOK
  <2>2. \A i \in 1..Len(down) : down[i] # Kicked
    BY <1>15, ServeShape DEF DownInv, Kicked, Frame
  <2>3. \A i \in 1..Len(down) : down[i].for # None /\ down[i].code \in {"none", "refused"} /\ down[i].op \notin {"eof", "welcome"}
    BY <2>2 DEF DownInv
  <2>4. Len(down') = Len(down) + 1 /\ (\A i \in 1..Len(down) : down'[i] = down[i]) /\ link' = "open"
    BY <1>15, ServeShape
  <2>5. /\ down'[Len(down) + 1].for # None /\ down'[Len(down) + 1].code \in {"none", "refused"}
        /\ down'[Len(down) + 1].op \notin {"eof", "welcome"}
    BY <1>15, <2>1, ServeShape DEF Expected
  <2>6. \A i \in 1..Len(down') : i \in 1..Len(down) \/ i = Len(down) + 1
    BY <2>1, <2>4
  <2>7. QED
    BY <2>3, <2>4, <2>5, <2>6 DEF DownInv
<1>16. ASSUME Kick /\ UNCHANGED listenerVars PROVE DownInv'
  BY <1>16 DEF Kick, DownInv, sessionVars, listenerVars
<1>17. ASSUME Lose /\ UNCHANGED listenerVars PROVE DownInv'
  BY <1>17 DEF Lose, DownInv, sessionVars, listenerVars
<1>18. ASSUME NEW t \in Handlers, Request(t) PROVE DownInv'
  BY <1>18 DEF Request, Ask, DownInv, sessionVars, listenerVars
<1>19. ASSUME NEW t \in Callers, Proceed(t) PROVE DownInv'
  BY <1>19 DEF Proceed, Issue, DownInv, sessionVars, listenerVars
<1>20. ASSUME NEW t \in Callers, GiveUp(t) PROVE DownInv'
  BY <1>20 DEF GiveUp, Expire, DownInv, sessionVars, listenerVars
<1>21. ASSUME NEW t \in Callers, Answered(t) PROVE DownInv'
  BY <1>21 DEF Answered, Finish, Learned, Result, Done, DownInv, sessionVars, listenerVars
<1>22. QED
  BY <1>1, <1>2, <1>3, <1>4, <1>5, <1>6, <1>7, <1>8, <1>9, <1>10, <1>10a, <1>11, <1>12, <1>13, <1>14,
     <1>15, <1>16, <1>17, <1>18, <1>19, <1>20, <1>21 DEF Next, Server

-----------------------------------------------------------------------------
(* The start. *)

\* Before the first session there is nothing to go wrong.
LEMMA InitInv == Init => ListenerInv
<1>1. SUFFICES ASSUME Init PROVE ListenerInv
  OBVIOUS
<1>2. TypeOK
  BY <1>1, TypeInit
<1>3. /\ lock = << >> /\ up = << >> /\ down = << >> /\ inbox = << >> /\ pending = None /\ ~reader /\ link = "none"
      /\ main = "starting" /\ ~bound /\ ~slipped /\ told = "nowhere"
      /\ \A t \in Callers : call[t].pc = "idle" /\ call[t].future = Unset
  BY <1>1 DEF Init, SessionInit, Idle
<1>4. Len(lock) = 0 /\ Len(up) = 0 /\ Len(down) = 0 /\ Len(inbox) = 0
  BY <1>3
<1>5. LockInv
  BY <1>3, <1>4 DEF LockInv, Runs
<1>6. TaskInv
  BY <1>3, <1>4, HandlersAssumption DEF TaskInv, NoRequests, Runs, Between
<1>7. DownInv
  BY <1>3, <1>4 DEF DownInv
<1>8. FlightInv
  BY <1>3, <1>4 DEF FlightInv, AnswersMatch, Frames, FrameOps, Unset, Frame
<1>9. InboxInv
  BY <1>3 DEF InboxInv
<1>10. ReadyInv /\ TellsInv /\ AgreeInv
  BY <1>1, <1>3, <1>4, HandlersAssumption DEF Init, ReadyInv, TellsInv, AgreeInv, Live, Between,
     Runs
<1>11. QED
  BY <1>2, <1>5, <1>6, <1>7, <1>8, <1>9, <1>10 DEF ListenerInv

-----------------------------------------------------------------------------
(* Commands and answers in flight. *)

\* What a future holds besides a frame is none.
LEMMA NoFrames == Unset \notin Frames /\ Cancelled \notin Frames /\ Aborted \notin Frames
  BY DEF Unset, Cancelled, Aborted, Frame, Frames, FrameOps

\* What the first frame in either direction is.
LEMMA FirstTypes ==
  ASSUME TypeOK
  PROVE  /\ up # << >> => up[1].for \in Callers /\ up[1].op \in Ops
         /\ \A i \in 1..Len(down) : down[i].for \in Callers \cup {None}
<1>1. up \in Seq(Commands) /\ down \in Seq(Frames)
  BY DEF TypeOK, SessionTypeOK
<1>2. up # << >> => up[1] \in Commands
  BY <1>1
<1>3. \A i \in 1..Len(down) : down[i] \in Frames
  BY <1>1
<1>4. QED
  BY <1>2, <1>3 DEF Commands, Frames

\* What is in flight stays on its way when a step leaves it and the command
\* that waits for it alone, and puts no frame into a future.
LEMMA FlightKept ==
  ASSUME TypeOK, FlightInv, ~slipped, UNCHANGED <<up, down, pending>>,
         \A u \in Callers : pending = u /\ call[u].pc = "waiting" /\ call[u].future = Unset =>
           \/ call'[u].pc = "waiting" /\ call'[u].future = Unset /\ call'[u].op = call[u].op
           \/ main' = "leaving" /\ NoRequests',
         main = "leaving" /\ NoRequests => main' = "leaving" /\ NoRequests',
         \A u \in Callers : call'[u].future \in Frames => call'[u].future = call[u].future
  PROVE  FlightInv'
<1>1. up \in Seq(Commands) /\ down \in Seq(Frames) /\ pending \in Callers \cup {None}
  BY DEF TypeOK, SessionTypeOK
<1>2. \A t \in Callers, ops \in SUBSET Ops : OnItsWay(t, ops) => OnItsWay(t, ops)'
  BY DEF OnItsWay
<1>3. up # << >> => up[1].for \in Callers /\ {up[1].op} \in SUBSET Ops
  BY FirstTypes
<1>4. up' # << >> => down' = << >> /\ OnItsWay(up[1].for, {up[1].op})'
  BY <1>2, <1>3 DEF FlightInv
<1>5. ASSUME NEW i \in 1..Len(down'), down'[i] # Kicked
      PROVE  i = 1 /\ OnItsWay(down[1].for, {op \in Ops : down[1].op \in Expected(op)})'
  <2>1. i = 1 /\ OnItsWay(down[1].for, {op \in Ops : down[1].op \in Expected(op)})
    BY <1>5 DEF FlightInv
  <2>2. CASE main = "leaving" /\ NoRequests
    BY <2>1, <2>2 DEF OnItsWay
  <2>3. CASE ~(main = "leaving" /\ NoRequests)
    <3>1. pending = down[1].for /\ pending # None /\ call[pending].pc = "waiting" /\ call[pending].future = Unset
          /\ call[pending].op \in Ops /\ down[1].op \in Expected(call[pending].op)
      BY <2>1, <2>3 DEF OnItsWay
    <3>2. pending \in Callers
      BY <1>1, <3>1
    <3>3. QED
      BY <2>1, <3>1, <3>2 DEF OnItsWay
  <2>4. QED
    BY <2>2, <2>3
<1>6. AnswersMatch'
  BY DEF FlightInv, AnswersMatch
<1>7. QED
  BY <1>4, <1>5, <1>6 DEF FlightInv

\* As long as no command times out, what is in flight is what somebody waits
\* for.
LEMMA FlightStep ==
  ASSUME TypeOK, LockInv, TaskInv, DownInv, ~slipped => FlightInv, ~slipped', Next
  PROVE  FlightInv'
<1> USE HandlersAssumption, CallersAssumption
<1>1. ASSUME ServerFound PROVE FlightInv'
  <2>1. UNCHANGED <<up, down, pending, call, slipped>> /\ (main = "leaving" => main' = "leaving")
    BY <1>1 DEF ServerFound, Exit, sessionVars
  <2>2. QED
    BY <2>1, FlightKept DEF NoRequests, Runs
<1>2. ASSUME ServerMissing PROVE FlightInv'
  <2>1. UNCHANGED <<up, down, pending, call, slipped>> /\ (main = "leaving" => main' = "leaving")
    BY <1>2 DEF ServerMissing, Exit, sessionVars
  <2>2. QED
    BY <2>1, FlightKept DEF NoRequests, Runs
<1>3. ASSUME Connected PROVE FlightInv'
  <2>1. up' = << >> /\ down' = << >> /\ call' = call /\ main = "connecting"
    BY <1>3 DEF Connected, Open
  <2>2. \A u \in Callers : call[u].future = Unset
    BY <2>1 DEF TaskInv, Between, Runs, Calls, TypeOK, SessionTypeOK
  <2>3. Unset \notin Frames
    BY NoFrames
  <2>4. QED
    BY <2>1, <2>2, <2>3 DEF FlightInv, AnswersMatch
<1>4. ASSUME ConnectFails PROVE FlightInv'
  <2>1. UNCHANGED <<up, down, pending, call, slipped>> /\ (main = "leaving" => main' = "leaving")
    BY <1>4 DEF ConnectFails, After, Exit, sessionVars
  <2>2. QED
    BY <2>1, FlightKept DEF NoRequests, Runs
<1>5. ASSUME DeadlinePasses PROVE FlightInv'
  <2>1. UNCHANGED <<up, down, pending, call, slipped>> /\ (main = "leaving" => main' = "leaving")
    BY <1>5 DEF DeadlinePasses, sessionVars
  <2>2. QED
    BY <2>1, FlightKept DEF NoRequests, Runs
<1>6. ASSUME WakeUp PROVE FlightInv'
  <2>1. UNCHANGED <<up, down, pending, call, slipped>> /\ (main = "leaving" => main' = "leaving")
    BY <1>6 DEF WakeUp, Exit, sessionVars
  <2>2. QED
    BY <2>1, FlightKept DEF NoRequests, Runs
<1>7. ASSUME TakeFrame PROVE FlightInv'
  <2>1. UNCHANGED <<up, down, pending, call, slipped>> /\ (main = "leaving" => main' = "leaving")
    BY <1>7 DEF TakeFrame, Leave, Verdict, EndsSession, sessionVars
  <2>2. QED
    BY <2>1, FlightKept DEF NoRequests, Runs
<1>8. ASSUME WriteFails PROVE FlightInv'
  <2>1. UNCHANGED <<up, down, pending, call, slipped>> /\ (main = "leaving" => main' = "leaving")
    BY <1>8 DEF WriteFails, Leave, sessionVars
  <2>2. QED
    BY <2>1, FlightKept DEF NoRequests, Runs
<1>9. ASSUME ReplayNext PROVE FlightInv'
  <2>1. PICK c \in todo : Ask(Replay, "subscribe", c)
    BY <1>9 DEF ReplayNext
  <2>2. UNCHANGED <<up, down, pending, main, slipped>> /\ main # "leaving" /\ call[Replay].pc = "idle"
    BY <1>9, <2>1 DEF ReplayNext, Ask, TaskInv
  <2>3. call'[Replay].future = Unset /\ \A u \in Callers \ {Replay} : call'[u] = call[u]
    BY <2>1 DEF Ask, TypeOK, SessionTypeOK
  <2>4. QED
    BY <2>2, <2>3, FlightKept, NoFrames
<1>10. ASSUME ReplayDone PROVE FlightInv'
  <2>1. UNCHANGED <<up, down, pending, call, slipped>> /\ (main = "leaving" => main' = "leaving")
    BY <1>10 DEF ReplayDone, sessionVars
  <2>2. QED
    BY <2>1, FlightKept DEF NoRequests, Runs
<1>10a. ASSUME ControlStarted PROVE FlightInv'
  <2>1. UNCHANGED <<up, down, pending, call, slipped>> /\ main # "leaving"
    BY <1>10a DEF ControlStarted, sessionVars
  <2>2. QED
    BY <2>1, FlightKept DEF NoRequests, Runs
<1>11. ASSUME LeaveDone PROVE FlightInv'
  <2>1. up' = << >> /\ down' = << >> /\ UNCHANGED <<call, slipped>>
    BY <1>11 DEF LeaveDone, Close
  <2>2. QED
    BY <2>1 DEF FlightInv, AnswersMatch
<1>12. ASSUME Stop PROVE FlightInv'
  <2>1. UNCHANGED <<up, down, pending, slipped>> /\ call \in [Callers -> Calls]
    BY <1>12 DEF Stop, Expire, sessionVars, TypeOK, SessionTypeOK
  <2>2. CASE call' = call
    <3>1. main = "leaving" => main' = "leaving"
      BY <1>12 DEF Stop
    <3>2. QED
      BY <2>1, <2>2, <3>1, FlightKept DEF NoRequests, Runs
  <2>3. CASE call' # call
    <3>1. main # "leaving" /\ main' = "leaving" /\ Expire(Replay)
      BY <1>12, <2>3 DEF Stop, Leave, sessionVars
    <3>2. call[Replay].pc # "idle" /\ call'[Replay].future = Cancelled /\ \A u \in Callers \ {Replay} : call'[u] = call[u]
      BY <2>1, <3>1 DEF Expire, Calls
    <3>3. NoRequests'
      BY <3>2 DEF TaskInv, NoRequests, Runs
    <3>4. QED
      BY <2>1, <3>1, <3>2, <3>3, FlightKept, NoFrames
  <2>4. QED
    BY <2>2, <2>3
<1>13. ASSUME Reads PROVE FlightInv'
  <2>1. Read /\ UNCHANGED <<main, slipped>>
    BY <1>13 DEF Reads
  <2>2. down # << >> /\ up = << >> /\ up' = << >>
    BY <2>1, ReadShape DEF Read, FlightInv
  <2>3. \A i \in 1..Len(down') : down'[i] = Kicked
    <3>1. ASSUME NEW i \in 1..Len(down') PROVE down'[i] = Kicked
      <4>1. i + 1 \in 1..Len(down) /\ i + 1 # 1 /\ down'[i] = down[i + 1]
        BY <2>1, ReadShape
      <4>2. QED
        BY <2>1, <4>1 DEF FlightInv
    <3>2. QED
      BY <3>1
  <2>4. ASSUME NEW u \in Callers, call'[u].future \in Frames PROVE call'[u].future.for \in {u, None}
    <3>1. CASE call'[u].future = call[u].future
      BY <2>1, <2>4, <3>1 DEF FlightInv, AnswersMatch
    <3>2. CASE call'[u].future # call[u].future
      <4>1. u = pending /\ call[u].future = Unset /\ call'[u].future = down[1]
        BY <2>1, <3>2, ReadShape
      <4>2. call[u].pc = "waiting" /\ Runs(u)
        BY <4>1, CallersAssumption DEF LockInv, TaskInv, Unset, Cancelled, Frame, Runs
      <4>3. ~(main = "leaving" /\ NoRequests)
        BY <4>2 DEF TaskInv, NoRequests
      <4>4. 1 \in 1..Len(down)
        BY <2>1, ReadShape
      <4>5. down[1] = Kicked \/ down[1].for = u
        BY <2>1, <4>1, <4>3, <4>4 DEF FlightInv, OnItsWay
      <4>6. QED
        BY <4>1, <4>5 DEF Kicked, Frame
    <3>3. QED
      BY <3>1, <3>2
  <2>5. QED
    BY <2>2, <2>3, <2>4 DEF FlightInv, AnswersMatch
<1>14. ASSUME ReaderStops PROVE FlightInv'
  <2>1. ReaderEnds /\ UNCHANGED <<up, down, pending, main, slipped>> /\ link = "closed" /\ down = << >>
    BY <1>14 DEF ReaderStops, ReaderEnds, listenerVars
  <2>2. up = << >>
    BY <2>1 DEF DownInv
  <2>3. \A u \in Callers : call'[u].future \in Frames => call'[u].future = call[u].future
    BY <2>1, EndShape, NoFrames
  <2>4. QED
    BY <2>1, <2>2, <2>3 DEF FlightInv, AnswersMatch
<1>15. ASSUME Serve /\ UNCHANGED listenerVars PROVE FlightInv'
  <2>1. UNCHANGED <<pending, call, main, slipped>>
    BY <1>15, ServeShape DEF listenerVars
  <2>2. up' \in Seq(Commands) /\ Len(up') = 0
    <3>1. up' \in Seq(Commands)
      BY <1>15, ServeTypes DEF TypeOK, SessionTypeOK
    <3>2. QED
      BY <1>15, <2>1, <3>1, ServeShape DEF FlightInv
  <2>3. up # << >> /\ down = << >> /\ OnItsWay(up[1].for, {up[1].op})
    BY <1>15, <2>1 DEF Serve, FlightInv
  <2>4. Len(down') = 1 /\ down'[1].for = up[1].for /\ down'[1].op \in Expected(up[1].op) /\ up[1].op \in Ops
    BY <1>15, <2>3, ServeShape DEF Commands
  <2>5. OnItsWay(down[1].for, {op \in Ops : down[1].op \in Expected(op)})'
    BY <2>1, <2>3, <2>4 DEF OnItsWay, NoRequests, Runs
  <2>6. up' = << >>
    BY <2>2
  <2>7. QED
    BY <2>1, <2>4, <2>5, <2>6 DEF FlightInv, AnswersMatch
<1>16. ASSUME Kick /\ UNCHANGED listenerVars PROVE FlightInv'
  <2>1. UNCHANGED <<pending, call, main, slipped>> /\ up' = << >>
    BY <1>16 DEF Kick, listenerVars
  <2>2. /\ Len(down') = Len(down) + 1 /\ down'[Len(down) + 1] = Kicked /\ Len(down) \in Nat
        /\ \A i \in 1..Len(down) : down'[i] = down[i]
    BY <1>16 DEF Kick, TypeOK, SessionTypeOK
  <2>3. ASSUME NEW i \in 1..Len(down'), down'[i] # Kicked
        PROVE  i = 1 /\ OnItsWay(down[1].for, {op \in Ops : down[1].op \in Expected(op)})'
    <3>1. i \in 1..Len(down) /\ down'[i] = down[i]
      BY <2>2, <2>3
    <3>2. i = 1 /\ OnItsWay(down[1].for, {op \in Ops : down[1].op \in Expected(op)}) /\ down'[1] = down[1]
      BY <2>1, <2>2, <2>3, <3>1 DEF FlightInv
    <3>3. QED
      BY <2>1, <3>2 DEF OnItsWay, NoRequests, Runs
  <2>4. Len(up') <= 1 /\ AnswersMatch'
    BY <2>1 DEF FlightInv, AnswersMatch
  <2>5. QED
    BY <2>1, <2>3, <2>4 DEF FlightInv
<1>17. ASSUME Lose /\ UNCHANGED listenerVars PROVE FlightInv'
  <2>1. UNCHANGED <<pending, call, main, slipped>> /\ up' = << >> /\ down' \in {down, << >>}
    BY <1>17 DEF Lose, listenerVars
  <2>2. CASE down' = down
    BY <2>1, <2>2 DEF FlightInv, AnswersMatch, OnItsWay, NoRequests, Runs
  <2>3. CASE down' = << >>
    BY <2>1, <2>3 DEF FlightInv, AnswersMatch
  <2>4. QED
    BY <2>1, <2>2, <2>3
<1>18. ASSUME NEW t \in Handlers, Request(t) PROVE FlightInv'
  <2>1. PICK op \in Ops, c \in Channels : Ask(t, op, c)
    BY <1>18 DEF Request
  <2>2. UNCHANGED <<up, down, pending, main, slipped>> /\ main # "leaving" /\ call[t].pc = "idle"
    BY <1>18, <2>1 DEF Request, Ask, TaskInv
  <2>3. call'[t].future = Unset /\ \A u \in Callers \ {t} : call'[u] = call[u]
    BY <2>1 DEF Ask, TypeOK, SessionTypeOK
  <2>4. QED
    BY <2>2, <2>3, FlightKept, NoFrames
<1>19. ASSUME NEW t \in Callers, Proceed(t) PROVE FlightInv'
  <2>1. Issue(t) /\ UNCHANGED <<main, slipped>>
    BY <1>19 DEF Proceed, listenerVars
  <2>2. call[t].pc = "queued" /\ pending = None /\ UNCHANGED <<link, down>> /\ call'[t].future = call[t].future
    BY <2>1, IssueShape
  <2>3. call[t].future = Unset /\ call'[t].op = call[t].op
    BY <2>1, <2>2, IssueShape DEF TaskInv
  <2>4. \A u \in Callers : call'[u].future = call[u].future
    <3>1. \A u \in Callers \ {t} : call'[u] = call[u]
      BY <2>1, IssueShape
    <3>2. QED
      BY <2>2, <3>1
  <2>5. ~(main = "leaving" /\ NoRequests)
    BY <2>2 DEF TaskInv, NoRequests, Runs
  <2>6. up = << >> /\ \A i \in 1..Len(down) : down[i] = Kicked
    <3>1. ASSUME NEW u, NEW ops PROVE ~(OnItsWay(u, ops) /\ u \in Callers)
      BY <2>2, <2>5, CallersAssumption DEF OnItsWay
    <3>2. up # << >> => up[1].for \in Callers
      BY FirstTypes
    <3>3. up = << >>
      BY <2>1, <3>1, <3>2 DEF FlightInv
    <3>4. ASSUME NEW i \in 1..Len(down), down[i] # Kicked PROVE FALSE
      <4>1. i = 1 /\ OnItsWay(down[1].for, {op \in Ops : down[1].op \in Expected(op)})
        BY <2>1, <3>4 DEF FlightInv
      <4>2. down[1].for \in Callers
        BY <3>4, <4>1, FirstTypes DEF DownInv
      <4>3. QED
        BY <3>1, <4>1, <4>2
    <3>5. QED
      BY <3>3, <3>4
  <2>7. CASE UNCHANGED up
    BY <2>1, <2>2, <2>4, <2>6, <2>7 DEF FlightInv, AnswersMatch
  <2>8. CASE ~UNCHANGED up
    <3>1. /\ link = "open" /\ call'[t].pc = "waiting" /\ pending' = t /\ Len(up') = Len(up) + 1
          /\ up'[Len(up) + 1] = [op |-> call[t].op, channel |-> call[t].channel, for |-> t]
      BY <2>1, <2>8, IssueShape
    <3>2. down = << >>
      <4>1. \A i \in 1..Len(down) : FALSE
        BY <2>6, <3>1 DEF DownInv, Kicked, Frame
      <4>2. QED
        BY <4>1 DEF TypeOK, SessionTypeOK
    <3>3. Len(up') = 1 /\ up'[1].for = t /\ up'[1].op = call[t].op
      BY <2>6, <3>1
    <3>4. OnItsWay(up[1].for, {up[1].op})'
      BY <2>2, <2>3, <3>1, <3>3 DEF OnItsWay
    <3>5. QED
      BY <2>1, <2>2, <2>4, <3>2, <3>3, <3>4 DEF FlightInv, AnswersMatch
  <2>9. QED
    BY <2>7, <2>8
<1>20. ASSUME NEW t \in Callers, GiveUp(t) PROVE FlightInv'
  <2>1. Expire(t) /\ UNCHANGED <<up, down, pending, main>> /\ call \in [Callers -> Calls]
    BY <1>20 DEF GiveUp, Expire, TypeOK, SessionTypeOK
  <2>2. call[t].pc # "waiting" /\ ~slipped
    BY <1>20 DEF GiveUp
  <2>3. call[t].pc # "idle" /\ call'[t].future = Cancelled /\ \A u \in Callers \ {t} : call'[u] = call[u]
    BY <2>1, <2>2 DEF Expire, Calls
  <2>4. NoRequests => NoRequests'
    BY <2>3 DEF NoRequests, Runs
  <2>5. QED
    BY <2>1, <2>2, <2>3, <2>4, FlightKept, NoFrames
<1>21. ASSUME NEW t \in Callers, Answered(t) PROVE FlightInv'
  <2>1. Finish(t) /\ UNCHANGED <<up, down, main, slipped>> /\ call \in [Callers -> Calls]
    BY <1>21 DEF Answered, Finish, TypeOK, SessionTypeOK
  <2>2. Done(t) /\ call'[t] = Idle /\ (\A u \in Callers \ {t} : call'[u] = call[u])
    BY <2>1 DEF Finish
  <2>3. pending' = IF pending = t THEN None ELSE pending
    BY <2>1 DEF Finish
  <2>4. \A u \in Callers : call'[u].future \in Frames => call'[u].future = call[u].future
    BY <2>2, NoFrames DEF Idle
  <2>5. NoRequests => NoRequests'
    BY <2>2 DEF NoRequests, Runs, Idle
  <2>6. CASE pending # t
    BY <2>1, <2>2, <2>3, <2>4, <2>5, <2>6, FlightKept DEF Done
  <2>7. CASE pending = t
    <3>1. \A u, ops : OnItsWay(u, ops) => OnItsWay(u, ops)'
      BY <2>1, <2>2, <2>5, <2>7 DEF OnItsWay, Done
    <3>2. QED
      BY <2>1, <2>4, <3>1 DEF FlightInv, AnswersMatch
  <2>8. QED
    BY <2>6, <2>7
<1>22. QED
  BY <1>1, <1>2, <1>3, <1>4, <1>5, <1>6, <1>7, <1>8, <1>9, <1>10, <1>10a, <1>11, <1>12, <1>13, <1>14,
     <1>15, <1>16, <1>17, <1>18, <1>19, <1>20, <1>21 DEF Next, Server

\* Requests are accepted between the replay and the end of the session.
LEMMA ReadyStep ==
  ASSUME TypeOK, LockInv, TaskInv, DownInv, ReadyInv, Next
  PROVE  ReadyInv'
<1> USE HandlersAssumption, CallersAssumption
<1>1. ASSUME ServerFound PROVE ReadyInv'
  BY <1>1 DEF ServerFound, Exit, ReadyInv, TaskInv, Between, NoRequests, Runs, sessionVars,
     listenerVars
<1>2. ASSUME ServerMissing PROVE ReadyInv'
  BY <1>2 DEF ServerMissing, Exit, ReadyInv, TaskInv, Between, NoRequests, Runs, sessionVars,
     listenerVars
<1>3. ASSUME Connected PROVE ReadyInv'
  <2>1. PICK first \in {Welcome} \cup {Frame("error", code, None, None) : code \in {"refused", "permanent", "taken"}} : Open(first)
    BY <1>3 DEF Connected
  <2>2. /\ closed' = FALSE /\ subscribed' = {} /\ up' = << >> /\ main' = "serving"
        /\ UNCHANGED <<call, bound, ready>> /\ main = "connecting"
    BY <1>3, <2>1 DEF Connected, Open
  <2>3. ~ready /\ NoRequests /\ ~Runs(Replay)
    BY <2>2 DEF TaskInv, ReadyInv, Between, NoRequests
  <2>4. QED
    BY <2>2, <2>3 DEF ReadyInv, NoRequests, Runs, Between
<1>4. ASSUME ConnectFails PROVE ReadyInv'
  BY <1>4 DEF ConnectFails, After, Exit, ReadyInv, TaskInv, Between, NoRequests, Runs,
     sessionVars, listenerVars
<1>5. ASSUME DeadlinePasses PROVE ReadyInv'
  BY <1>5 DEF DeadlinePasses, ReadyInv, TaskInv, Between, NoRequests, Runs, sessionVars,
     listenerVars
<1>6. ASSUME WakeUp PROVE ReadyInv'
  BY <1>6 DEF WakeUp, Exit, ReadyInv, TaskInv, Between, NoRequests, Runs, sessionVars, listenerVars
<1>7. ASSUME TakeFrame PROVE ReadyInv'
  <2>1. UNCHANGED <<link, closed, call, ready, desired, subscribed, up>> /\ main = "serving"
    BY <1>7 DEF TakeFrame
  <2>2. (\E i \in 1..Len(inbox') : inbox'[i] = Welcome) => \E i \in 1..Len(inbox) : inbox[i] = Welcome
    BY <1>7, TakeShape, SMTT(30) DEF TypeOK, SessionTypeOK
  <2>3. \/ main' = "replaying" /\ bound' = bound /\ todo' = desired
        \/ main' = "leaving" /\ bound' = FALSE
        \/ UNCHANGED <<main, bound, todo>>
    BY <1>7 DEF TakeFrame, Leave
  <2>4. ~Runs(Replay)
    BY <2>1 DEF TaskInv
  <2>5. QED
    BY <2>1, <2>2, <2>3, <2>4 DEF ReadyInv, NoRequests, Runs, Between
<1>8. ASSUME WriteFails PROVE ReadyInv'
  BY <1>8 DEF WriteFails, Leave, ReadyInv, TaskInv, Between, NoRequests, Runs, sessionVars,
     listenerVars
<1>9. ASSUME ReplayNext PROVE ReadyInv'
  BY <1>9 DEF ReplayNext, Ask, ReadyInv, TaskInv, Between, NoRequests, Runs, sessionVars,
     listenerVars
<1>10. ASSUME ReplayDone PROVE ReadyInv'
  BY <1>10 DEF ReplayDone, ReadyInv, TaskInv, Between, NoRequests, Runs, sessionVars,
     listenerVars
<1>10a. ASSUME ControlStarted PROVE ReadyInv'
  BY <1>10a DEF ControlStarted, Leave, ReadyInv, TaskInv, Between, NoRequests, Runs, sessionVars,
     listenerVars
<1>11. ASSUME LeaveDone PROVE ReadyInv'
  <2>1. link' = "none" /\ ready' = FALSE /\ bound' = bound /\ main = "leaving"
    BY <1>11 DEF LeaveDone, Close
  <2>2. main' \in Between /\ UNCHANGED call /\ \A t \in Callers : ~Runs(t)
    BY <1>11 DEF LeaveDone, Close, After, Exit, Between, Runs
  <2>3. QED
    BY <2>1, <2>2 DEF ReadyInv, TaskInv, Between, Runs
<1>12. ASSUME Stop PROVE ReadyInv'
  <2>1. UNCHANGED <<link, closed, inbox, ready, subscribed, up, todo>> /\ call \in [Callers -> Calls]
    BY <1>12 DEF Stop, Expire, sessionVars, TypeOK, SessionTypeOK
  <2>2. CASE Leave("cancelled")
    <3>1. main' = "leaving" /\ bound' = FALSE
      BY <2>2 DEF Leave
    <3>2. call'[Replay].op = call[Replay].op /\ (Runs(Replay)' => Runs(Replay))
      BY <1>12, <2>1, <2>2 DEF Stop, Expire, sessionVars, Calls, Runs
    <3>3. QED
      BY <2>1, <3>1, <3>2 DEF ReadyInv, Between
  <2>3. CASE ~Leave("cancelled")
    <3>1. UNCHANGED <<call, bound, desired>> \/ (main' \in Between /\ main \in Between /\ UNCHANGED <<call, bound>>)
      BY <1>12, <2>3 DEF Stop, Exit, sessionVars, Between
    <3>2. main' = main \/ (main' \in Between /\ main \in Between)
      BY <1>12, <2>3 DEF Stop, Exit, Between
    <3>3. QED
      BY <2>1, <3>1, <3>2 DEF ReadyInv, Between, Runs, NoRequests
  <2>4. QED
    BY <2>2, <2>3
<1>13. ASSUME Reads PROVE ReadyInv'
  <2>1. Read /\ UNCHANGED <<main, bound, ready, desired, todo>>
    BY <1>13 DEF Reads
  <2>2. UNCHANGED <<link, closed, subscribed, up>>
    BY <2>1, ReadShape
  <2>3. down[1] # Welcome
    <3>1. 1 \in 1..Len(down)
      BY <2>1, ReadShape
    <3>2. QED
      BY <3>1 DEF DownInv, Welcome, Kicked, Frame
  <2>4. (\E i \in 1..Len(inbox') : inbox'[i] = Welcome) => \E i \in 1..Len(inbox) : inbox[i] = Welcome
    <3>1. inbox \in Seq(Frames)
      BY DEF TypeOK, SessionTypeOK
    <3>2. QED
      BY <2>1, <2>3, <3>1, ReadShape
  <2>5. \A u \in Callers : call'[u].pc = call[u].pc /\ call'[u].op = call[u].op /\ call'[u].channel = call[u].channel
    BY <2>1, ReadShape
  <2>6. QED
    BY <2>1, <2>2, <2>4, <2>5 DEF ReadyInv, NoRequests, Runs
<1>14. ASSUME ReaderStops PROVE ReadyInv'
  <2>1. ReaderEnds /\ UNCHANGED <<link, main, bound, ready, desired, todo, subscribed, up>> /\ link = "closed"
    BY <1>14 DEF ReaderStops, ReaderEnds, listenerVars
  <2>2. (\E i \in 1..Len(inbox') : inbox'[i] = Welcome) => \E i \in 1..Len(inbox) : inbox[i] = Welcome
    <3>1. inbox \in Seq(Frames) /\ Eof # Welcome
      BY DEF TypeOK, SessionTypeOK, Eof, Welcome, Frame
    <3>2. QED
      BY <2>1, <3>1, EndShape
  <2>3. \A u \in Callers : call'[u].pc = call[u].pc /\ call'[u].op = call[u].op /\ call'[u].channel = call[u].channel
    BY <2>1, EndShape
  <2>4. QED
    BY <2>1, <2>2, <2>3 DEF ReadyInv, NoRequests, Runs
<1>15. ASSUME Serve /\ UNCHANGED listenerVars PROVE ReadyInv'
  <2>1. UNCHANGED <<link, inbox, closed, call, main, bound, ready, desired, todo>> /\ up # << >>
    BY <1>15 DEF Serve, listenerVars
  <2>2. QED
    BY <2>1 DEF ReadyInv, NoRequests, Runs
<1>16. ASSUME Kick /\ UNCHANGED listenerVars PROVE ReadyInv'
  BY <1>16 DEF Kick, ReadyInv, TaskInv, Between, NoRequests, Runs, sessionVars, listenerVars
<1>17. ASSUME Lose /\ UNCHANGED listenerVars PROVE ReadyInv'
  BY <1>17 DEF Lose, ReadyInv, TaskInv, Between, NoRequests, Runs, sessionVars, listenerVars
<1>18. ASSUME NEW t \in Handlers, Request(t) PROVE ReadyInv'
  BY <1>18 DEF Request, Ask, ReadyInv, TaskInv, Between, NoRequests, Runs, sessionVars, listenerVars
<1>19. ASSUME NEW t \in Callers, Proceed(t) PROVE ReadyInv'
  <2>1. Issue(t) /\ UNCHANGED <<main, bound, ready, desired, todo>>
    BY <1>19 DEF Proceed, listenerVars
  <2>2. UNCHANGED <<link, closed, inbox, subscribed>> /\ Runs(t)
    BY <2>1, IssueShape DEF Runs
  <2>3. \A u \in Callers : call'[u].op = call[u].op /\ call'[u].channel = call[u].channel /\ (Runs(u)' <=> Runs(u))
    <3>1. \A u \in Callers \ {t} : call'[u] = call[u]
      BY <2>1, IssueShape
    <3>2. call'[t].op = call[t].op /\ call'[t].channel = call[t].channel /\ call'[t].pc \in {"waiting", "failed"}
      BY <2>1, IssueShape
    <3>3. QED
      BY <2>2, <3>1, <3>2 DEF Runs
  <2>4. ~(main = "serving" /\ ~ready)
    BY <2>2 DEF ReadyInv, TaskInv, NoRequests
  <2>5. QED
    BY <2>1, <2>2, <2>3, <2>4 DEF ReadyInv, NoRequests
<1>20. ASSUME NEW t \in Callers, GiveUp(t) PROVE ReadyInv'
  BY <1>20 DEF GiveUp, Expire, TypeOK, SessionTypeOK, Calls, ReadyInv, TaskInv, Between,
     NoRequests, Runs, sessionVars, listenerVars
<1>21. ASSUME NEW t \in Callers, Answered(t) PROVE ReadyInv'
  <2>1. Finish(t) /\ UNCHANGED <<main, bound, ready, todo>> /\ (t = Replay => desired' = desired)
    BY <1>21 DEF Answered
  <2>2. UNCHANGED <<link, closed, inbox, subscribed, up>> /\ Runs(t)
    BY <2>1 DEF Finish, Done, Runs
  <2>3. ~Runs(t)' /\ \A u \in Callers \ {t} : call'[u] = call[u]
    BY <2>1 DEF Finish, Runs, Idle, TypeOK, SessionTypeOK
  <2>4. main = "replaying" => t = Replay
    BY <2>2 DEF TaskInv, NoRequests
  <2>5. QED
    BY <2>1, <2>2, <2>3, <2>4 DEF ReadyInv, NoRequests, Runs
<1>22. QED
  BY <1>1, <1>2, <1>3, <1>4, <1>5, <1>6, <1>7, <1>8, <1>9, <1>10, <1>10a, <1>11, <1>12, <1>13, <1>14,
     <1>15, <1>16, <1>17, <1>18, <1>19, <1>20, <1>21 DEF Next, Server

-----------------------------------------------------------------------------
(* What the server and the listener know of each other. *)

\* What is in flight in a live session.
LEMMA InFlight ==
  ASSUME TypeOK, DownInv, FlightInv, Live
  PROVE  /\ up # << >> => pending = up[1].for /\ up[1].op = call[pending].op /\ down = << >>
         /\ down # << >> => down[1].op \in Expected(call[pending].op) /\ down[1].for = pending /\ Len(down) = 1 /\ up = << >>
         /\ up # << >> \/ down # << >> =>
              pending \in Callers /\ call[pending].pc = "waiting" /\ call[pending].future = Unset
<1>1. up \in Seq(Commands) /\ down \in Seq(Frames) /\ pending \in Callers \cup {None}
  BY DEF TypeOK, SessionTypeOK
<1>2. up # << >> => OnItsWay(up[1].for, {up[1].op}) /\ down = << >>
  BY DEF FlightInv
<1>3. \A i \in 1..Len(down) : i = 1 /\ OnItsWay(down[1].for, {op \in Ops : down[1].op \in Expected(op)})
  <2>1. SUFFICES ASSUME NEW i \in 1..Len(down)
                 PROVE  i = 1 /\ OnItsWay(down[1].for, {op \in Ops : down[1].op \in Expected(op)})
    OBVIOUS
  <2>2. down[i] # Kicked
    BY DEF DownInv, Live, Kicked, Frame
  <2>3. QED
    BY <2>2 DEF FlightInv
<1>4. down # << >> => Len(down) = 1
  <2>1. \A i \in 1..Len(down) : i = 1
    BY <1>3
  <2>2. Len(down) \in Nat /\ (down # << >> => Len(down) > 0)
    BY <1>1
  <2>3. Len(down) > 1 => 2 \in 1..Len(down)
    BY <2>2
  <2>4. QED
    BY <2>1, <2>2, <2>3
<1>5. main # "leaving"
  BY DEF Live
<1>6. down # << >> => OnItsWay(down[1].for, {op \in Ops : down[1].op \in Expected(op)})
  BY <1>3, <1>4
<1>7. QED
  BY <1>1, <1>2, <1>4, <1>5, <1>6 DEF OnItsWay

\* One command waits at a time.
LEMMA WaitsAlone ==
  ASSUME LockInv, NEW t \in Callers, NEW u \in Callers, call[t].pc = "waiting", call[u].pc = "waiting" PROVE t = u
  BY DEF LockInv

\* What an answer says stays true until it is taken.
LEMMA TellsStep ==
  ASSUME TypeOK, LockInv, TaskInv, DownInv, ReadyInv, ~slipped => FlightInv /\ TellsInv, ~slipped', Next
  PROVE  TellsInv'
<1> USE HandlersAssumption, CallersAssumption
<1>1. ASSUME ServerFound PROVE TellsInv'
  <2>1. main' \notin {"serving", "replaying", "binding"}
    BY <1>1 DEF ServerFound, Exit
  <2>2. QED
    BY <2>1 DEF TellsInv, Live
<1>2. ASSUME ServerMissing PROVE TellsInv'
  <2>1. main' \notin {"serving", "replaying", "binding"}
    BY <1>2 DEF ServerMissing, Exit
  <2>2. QED
    BY <2>1 DEF TellsInv, Live
<1>3. ASSUME Connected PROVE TellsInv'
  <2>1. up' = << >> /\ down' = << >> /\ UNCHANGED call /\ main = "connecting"
    BY <1>3 DEF Connected, Open
  <2>2. \A t \in Callers : call[t].pc = "idle"
    BY <2>1 DEF TaskInv, Between, Runs
  <2>3. QED
    BY <2>1, <2>2 DEF TellsInv
<1>4. ASSUME ConnectFails PROVE TellsInv'
  <2>1. main' \notin {"serving", "replaying", "binding"}
    BY <1>4 DEF ConnectFails, After, Exit
  <2>2. QED
    BY <2>1 DEF TellsInv, Live
<1>5. ASSUME DeadlinePasses PROVE TellsInv'
  <2>1. UNCHANGED <<link, up, down, pending, subscribed, call, main, slipped>>
    BY <1>5 DEF DeadlinePasses, sessionVars
  <2>2. QED
    BY <2>1 DEF TellsInv, Live, Tells
<1>6. ASSUME WakeUp PROVE TellsInv'
  <2>1. main' \notin {"serving", "replaying", "binding"}
    BY <1>6 DEF WakeUp, Exit
  <2>2. QED
    BY <2>1 DEF TellsInv, Live
<1>7. ASSUME TakeFrame PROVE TellsInv'
  <2>1. UNCHANGED <<link, up, down, pending, subscribed, call, slipped>> /\ main = "serving"
    BY <1>7 DEF TakeFrame
  <2>2. QED
    BY <2>1 DEF TellsInv, Live, Tells
<1>8. ASSUME WriteFails PROVE TellsInv'
  <2>1. main' \notin {"serving", "replaying", "binding"}
    BY <1>8 DEF WriteFails, Leave
  <2>2. QED
    BY <2>1 DEF TellsInv, Live
<1>9. ASSUME ReplayNext PROVE TellsInv'
  <2>1. PICK c \in todo : Ask(Replay, "subscribe", c)
    BY <1>9 DEF ReplayNext
  <2>2. UNCHANGED <<link, up, down, pending, subscribed, main, slipped>> /\ call[Replay].pc = "idle"
    BY <1>9, <2>1 DEF ReplayNext, Ask
  <2>3. call'[Replay].pc = "queued" /\ \A u \in Callers \ {Replay} : call'[u] = call[u]
    BY <2>1 DEF Ask, TypeOK, SessionTypeOK
  <2>4. SUFFICES ASSUME Live PROVE TellsInv'
    BY <2>2 DEF TellsInv, Live
  <2>5. up # << >> \/ down # << >> => pending \in Callers /\ pending # Replay
    BY <2>2, <2>4, InFlight
  <2>6. up # << >> => up[1].for = pending
    BY <2>2, <2>4, InFlight
  <2>7. QED
    BY <2>2, <2>3, <2>4, <2>5, <2>6 DEF TellsInv, Tells
<1>10. ASSUME ReplayDone PROVE TellsInv'
  <2>1. UNCHANGED <<link, up, down, pending, subscribed, call, slipped>> /\ main = "replaying"
    BY <1>10 DEF ReplayDone, sessionVars
  <2>2. QED
    BY <2>1 DEF TellsInv, Live, Tells
<1>10a. ASSUME ControlStarted PROVE TellsInv'
  <2>1. UNCHANGED <<link, up, down, pending, subscribed, call, slipped>> /\ main = "binding"
    BY <1>10a DEF ControlStarted, sessionVars
  <2>2. QED
    BY <2>1 DEF TellsInv, Live, Tells
<1>11. ASSUME LeaveDone PROVE TellsInv'
  <2>1. link' = "none"
    BY <1>11 DEF LeaveDone, Close
  <2>2. QED
    BY <2>1 DEF TellsInv, Live
<1>12. ASSUME Stop PROVE TellsInv'
  <2>1. CASE main' \notin {"serving", "replaying", "binding"}
    BY <2>1 DEF TellsInv, Live
  <2>2. CASE main = "binding" /\ UNCHANGED <<sessionVars, main>>
    BY <1>12, <2>2 DEF Stop, TellsInv, Live, Tells, sessionVars
  <2>3. QED
    BY <1>12, <2>1, <2>2 DEF Stop, Exit, Leave
<1>13. ASSUME Reads PROVE TellsInv'
  <2>1. Read /\ UNCHANGED <<main, slipped>>
    BY <1>13 DEF Reads
  <2>2. UNCHANGED <<link, up, subscribed>> /\ down # << >>
    BY <2>1, ReadShape DEF Read
  <2>3. SUFFICES ASSUME Live PROVE TellsInv'
    BY <2>1, <2>2 DEF TellsInv, Live
  <2>4. /\ down[1].op \in Expected(call[pending].op) /\ Len(down) = 1 /\ up = << >>
        /\ pending \in Callers /\ call[pending].pc = "waiting" /\ call[pending].future = Unset
    BY <2>1, <2>2, <2>3, InFlight
  <2>5. down' = << >>
    <3>1. down' \in Seq(Frames) /\ Len(down') = 0
      BY <2>1, <2>4, ReadShape, ReadTypes DEF TypeOK, SessionTypeOK
    <3>2. QED
      BY <3>1
  <2>6. Routed(down[1])
    BY <2>4, CallersAssumption DEF Routed
  <2>7. \A u \in Callers : call'[u].future = IF u = pending THEN down[1] ELSE call[u].future
    BY <2>1, <2>4, <2>6, ReadShape
  <2>8. \A u \in Callers : call'[u].pc = call[u].pc /\ call'[u].op = call[u].op /\ call'[u].channel = call[u].channel
    BY <2>1, ReadShape
  <2>9. Tells(down[1], pending)
    BY <2>1, <2>2, <2>3 DEF TellsInv
  <2>10. ASSUME NEW u \in Callers, call'[u].pc = "waiting", call'[u].future # Unset
         PROVE  \E f : f = call'[u].future /\ Tells(f, u)'
    <3>1. CASE u = pending
      BY <2>2, <2>7, <2>8, <2>9, <3>1 DEF Tells
    <3>2. CASE u # pending
      <4>1. Tells(call[u].future, u) /\ call'[u].future = call[u].future
        BY <2>1, <2>3, <2>7, <2>8, <2>10, <3>2 DEF TellsInv
      <4>2. QED
        BY <2>2, <2>8, <4>1 DEF Tells
    <3>3. QED
      BY <3>1, <3>2
  <2>11. (\A u \in Callers : call'[u].pc # "failed") /\ call'[Replay].pc # "expired"
    BY <2>1, <2>3, <2>8 DEF TellsInv
  <2>12. QED
    BY <2>2, <2>4, <2>5, <2>10, <2>11 DEF TellsInv, Tells
<1>14. ASSUME ReaderStops PROVE TellsInv'
  <2>1. link' = "closed"
    BY <1>14 DEF ReaderStops, ReaderEnds
  <2>2. QED
    BY <2>1 DEF TellsInv, Live
<1>15. ASSUME Serve /\ UNCHANGED listenerVars PROVE TellsInv'
  <2>1. UNCHANGED <<link, pending, call, main, slipped>> /\ up # << >>
    BY <1>15, ServeShape DEF Serve, listenerVars
  <2>2. SUFFICES ASSUME Live PROVE TellsInv'
    BY <2>1 DEF TellsInv, Live
  <2>3. /\ pending = up[1].for /\ up[1].op = call[pending].op /\ down = << >>
        /\ pending \in Callers /\ call[pending].pc = "waiting" /\ call[pending].future = Unset
    BY <2>1, <2>2, InFlight
  <2>4. up[1].channel = call[pending].channel
    BY <2>1, <2>2, <2>3 DEF TellsInv
  <2>5. up' = << >>
    <3>1. up' \in Seq(Commands) /\ Len(up') = 0
      BY <1>15, <2>1, ServeShape, ServeTypes DEF FlightInv, TypeOK, SessionTypeOK
    <3>2. QED
      BY <3>1
  <2>6. Tells(down[1], pending)'
    <3>1. Len(down) = 0
      BY <2>3
    <3>2. /\ down'[1].channel = up[1].channel /\ down'[1].op \in Expected(up[1].op)
          /\ \/ down'[1].op = "subscribe_ok" /\ subscribed' = subscribed \cup {down'[1].channel}
             \/ down'[1].op = "unsubscribe_ok" /\ subscribed' = subscribed \ {down'[1].channel}
             \/ /\ down'[1].op = "error" /\ down'[1].code = "refused"
                /\ subscribed' = subscribed /\ down'[1].channel \notin subscribed
      BY <1>15, <3>1, ServeShape
    <3>3. QED
      BY <2>1, <2>3, <2>4, <3>2 DEF Tells
  <2>7. \A u \in Callers : call[u].pc = "waiting" => call[u].future = Unset
    BY <2>3, WaitsAlone
  <2>8. QED
    BY <2>1, <2>2, <2>5, <2>6, <2>7 DEF TellsInv
<1>16. ASSUME Kick /\ UNCHANGED listenerVars PROVE TellsInv'
  <2>1. link' = "closed"
    BY <1>16 DEF Kick
  <2>2. QED
    BY <2>1 DEF TellsInv, Live
<1>17. ASSUME Lose /\ UNCHANGED listenerVars PROVE TellsInv'
  <2>1. link' = "closed"
    BY <1>17 DEF Lose
  <2>2. QED
    BY <2>1 DEF TellsInv, Live
<1>18. ASSUME NEW t \in Handlers, Request(t) PROVE TellsInv'
  <2>1. PICK op \in Ops, c \in Channels : Ask(t, op, c)
    BY <1>18 DEF Request
  <2>2. UNCHANGED <<link, up, down, pending, subscribed, main, slipped>> /\ call[t].pc = "idle"
    BY <1>18, <2>1 DEF Request, Ask
  <2>3. call'[t].pc = "queued" /\ \A u \in Callers \ {t} : call'[u] = call[u]
    BY <2>1 DEF Ask, TypeOK, SessionTypeOK
  <2>4. SUFFICES ASSUME Live PROVE TellsInv'
    BY <2>2 DEF TellsInv, Live
  <2>5. up # << >> \/ down # << >> => pending \in Callers /\ pending # t
    BY <2>2, <2>4, InFlight
  <2>6. up # << >> => up[1].for = pending
    BY <2>2, <2>4, InFlight
  <2>7. QED
    BY <2>2, <2>3, <2>4, <2>5, <2>6 DEF TellsInv, Tells
<1>19. ASSUME NEW t \in Callers, Proceed(t) PROVE TellsInv'
  <2>1. Issue(t) /\ UNCHANGED <<main, slipped>>
    BY <1>19 DEF Proceed, listenerVars
  <2>2. /\ call[t].pc = "queued" /\ pending = None /\ UNCHANGED <<link, down, subscribed>>
        /\ call'[t].future = call[t].future /\ call'[t].channel = call[t].channel
    BY <2>1, IssueShape
  <2>3. SUFFICES ASSUME Live PROVE TellsInv'
    BY <2>1, <2>2 DEF TellsInv, Live
  <2>4. up = << >> /\ down = << >>
    BY <2>1, <2>2, <2>3, InFlight, CallersAssumption
  <2>5. /\ call' = [call EXCEPT ![t].pc = "waiting"] /\ pending' = t
        /\ up' = Append(up, [op |-> call[t].op, channel |-> call[t].channel, for |-> t])
    BY <2>1, <2>3 DEF Issue, ReadyInv, Live
  <2>6. up' = << [op |-> call[t].op, channel |-> call[t].channel, for |-> t] >>
    BY <2>4, <2>5
  <2>7. call'[t].pc = "waiting"
    BY <2>5 DEF TypeOK, SessionTypeOK, Calls
  <2>8. call[t].future = Unset
    BY <2>2 DEF TaskInv
  <2>9. \A u \in Callers \ {t} : call'[u] = call[u]
    BY <2>1, IssueShape
  <2>10. \A u \in Callers \ {t} : call[u].pc # "waiting"
    BY <2>1, IssueShape
  <2>11. (\A u \in Callers : call[u].pc # "failed") /\ call[Replay].pc # "expired"
    BY <2>1, <2>3 DEF TellsInv
  <2>12. up'[1].channel = call'[up'[1].for].channel
    BY <2>2, <2>6
  <2>13. QED
    BY <2>2, <2>4, <2>7, <2>8, <2>9, <2>10, <2>11, <2>12 DEF TellsInv
<1>20. ASSUME NEW t \in Callers, GiveUp(t) PROVE TellsInv'
  <2>1. Expire(t) /\ UNCHANGED <<link, up, down, pending, subscribed, main>> /\ call[t].pc # "waiting" /\ ~slipped /\ t \in Handlers
    BY <1>20 DEF GiveUp, Expire
  <2>2. call'[t].pc = "expired" /\ \A u \in Callers \ {t} : call'[u] = call[u]
    BY <2>1 DEF Expire, TypeOK, SessionTypeOK, Calls
  <2>3. SUFFICES ASSUME Live PROVE TellsInv'
    BY <2>1 DEF TellsInv, Live
  <2>4. up # << >> \/ down # << >> => pending \in Callers /\ pending # t
    BY <2>1, <2>3, InFlight
  <2>5. up # << >> => up[1].for = pending
    BY <2>1, <2>3, InFlight
  <2>6. QED
    BY <2>1, <2>2, <2>3, <2>4, <2>5 DEF TellsInv, Tells
<1>21. ASSUME NEW t \in Callers, Answered(t) PROVE TellsInv'
  <2>1. Finish(t) /\ UNCHANGED <<link, up, down, subscribed, main, slipped>>
    BY <1>21 DEF Answered, Finish
  <2>2. /\ Done(t) /\ call'[t] = Idle /\ pending' = IF pending = t THEN None ELSE pending
        /\ \A u \in Callers \ {t} : call'[u] = call[u]
    BY <2>1 DEF Finish, TypeOK, SessionTypeOK
  <2>3. SUFFICES ASSUME Live PROVE TellsInv'
    BY <2>1 DEF TellsInv, Live
  <2>4. up # << >> \/ down # << >> => pending \in Callers /\ pending # t
    BY <2>1, <2>2, <2>3, InFlight DEF Done
  <2>5. up # << >> => up[1].for = pending
    BY <2>1, <2>3, InFlight
  <2>6. QED
    BY <2>1, <2>2, <2>3, <2>4, <2>5 DEF TellsInv, Tells, Idle
<1>22. QED
  BY <1>1, <1>2, <1>3, <1>4, <1>5, <1>6, <1>7, <1>8, <1>9, <1>10, <1>10a, <1>11, <1>12, <1>13, <1>14,
     <1>15, <1>16, <1>17, <1>18, <1>19, <1>20, <1>21 DEF Next, Server

\* The server and the listener differ only in what an answer will tell, the
\* server has refused or the replay has still to ask.
LEMMA AgreeStep ==
  ASSUME TypeOK, LockInv, TaskInv, DownInv, ReadyInv, ~slipped => FlightInv /\ TellsInv /\ AgreeInv, ~slipped', Next
  PROVE  AgreeInv'
<1> USE HandlersAssumption, CallersAssumption
<1>1. ASSUME ServerFound PROVE AgreeInv'
  <2>1. main' \notin {"serving", "replaying", "binding"}
    BY <1>1 DEF ServerFound, Exit
  <2>2. QED
    BY <2>1 DEF AgreeInv, Live
<1>2. ASSUME ServerMissing PROVE AgreeInv'
  <2>1. main' \notin {"serving", "replaying", "binding"}
    BY <1>2 DEF ServerMissing, Exit
  <2>2. QED
    BY <2>1 DEF AgreeInv, Live
<1>3. ASSUME Connected PROVE AgreeInv'
  <2>1. subscribed' = {} /\ main' = "serving" /\ ready' = ready /\ main = "connecting"
    BY <1>3 DEF Connected, Open
  <2>2. ~ready
    BY <2>1 DEF ReadyInv, Between
  <2>3. QED
    BY <2>1, <2>2 DEF AgreeInv
<1>4. ASSUME ConnectFails PROVE AgreeInv'
  <2>1. main' \notin {"serving", "replaying", "binding"}
    BY <1>4 DEF ConnectFails, After, Exit
  <2>2. QED
    BY <2>1 DEF AgreeInv, Live
<1>5. ASSUME DeadlinePasses PROVE AgreeInv'
  <2>1. UNCHANGED <<link, down, pending, subscribed, call, main, slipped, desired, refused, ready, todo>>
    BY <1>5 DEF DeadlinePasses, sessionVars
  <2>2. QED
    BY <2>1 DEF AgreeInv, Live, Gets, Runs
<1>6. ASSUME WakeUp PROVE AgreeInv'
  <2>1. main' \notin {"serving", "replaying", "binding"}
    BY <1>6 DEF WakeUp, Exit
  <2>2. QED
    BY <2>1 DEF AgreeInv, Live
<1>7. ASSUME TakeFrame PROVE AgreeInv'
  <2>1. UNCHANGED <<link, down, pending, subscribed, call, slipped, desired, refused, ready>> /\ main = "serving"
    BY <1>7 DEF TakeFrame
  <2>2. CASE inbox[1] = Welcome /\ main' = "replaying" /\ todo' = desired
    <3>1. 1 \in 1..Len(inbox)
      BY <1>7, TakeShape DEF TypeOK, SessionTypeOK
    <3>2. subscribed = {}
      BY <2>1, <2>2, <3>1 DEF ReadyInv
    <3>3. QED
      BY <2>1, <2>2, <3>2 DEF AgreeInv
  <2>3. CASE main' = "leaving"
    BY <2>3 DEF AgreeInv, Live
  <2>4. CASE UNCHANGED <<main, todo>>
    BY <2>1, <2>4 DEF AgreeInv, Live, Gets, Runs
  <2>5. QED
    BY <1>7, TakeShape, <2>2, <2>3, <2>4 DEF Leave
<1>8. ASSUME WriteFails PROVE AgreeInv'
  <2>1. main' \notin {"serving", "replaying", "binding"}
    BY <1>8 DEF WriteFails, Leave
  <2>2. QED
    BY <2>1 DEF AgreeInv, Live
<1>9. ASSUME ReplayNext PROVE AgreeInv'
  <2>1. PICK c \in todo : Ask(Replay, "subscribe", c) /\ todo' = todo \ {c}
    BY <1>9 DEF ReplayNext
  <2>2. UNCHANGED <<link, down, pending, subscribed, main, slipped, desired, refused, ready>>
        /\ call[Replay].pc = "idle" /\ main = "replaying"
    BY <1>9, <2>1 DEF ReplayNext, Ask
  <2>3. call'[Replay].pc = "queued" /\ call'[Replay].channel = c /\ \A u \in Callers \ {Replay} : call'[u] = call[u]
    BY <2>1 DEF Ask, TypeOK, SessionTypeOK
  <2>4. \A u \in Handlers : \A op : Gets(u, op)' <=> Gets(u, op)
    BY <2>2, <2>3 DEF Gets
  <2>5. QED
    BY <2>1, <2>2, <2>3, <2>4 DEF AgreeInv, Live, Runs
<1>10. ASSUME ReplayDone PROVE AgreeInv'
  <2>1. UNCHANGED <<link, down, pending, subscribed, call, slipped, desired, refused, todo>> /\ main = "replaying"
        /\ todo = {} /\ ~Runs(Replay)
    BY <1>10 DEF ReplayDone, sessionVars, Runs
  <2>2. QED
    BY <2>1 DEF AgreeInv, Live, Gets
<1>10a. ASSUME ControlStarted PROVE AgreeInv'
  <2>1. UNCHANGED <<link, down, pending, subscribed, call, slipped, desired, refused>> /\ main = "binding"
    BY <1>10a DEF ControlStarted, sessionVars
  <2>2. ~Live' \/ (Live /\ main' = "serving")
    BY <1>10a, <2>1 DEF ControlStarted, Leave, Live
  <2>3. QED
    BY <2>1, <2>2 DEF AgreeInv, Gets
<1>11. ASSUME LeaveDone PROVE AgreeInv'
  <2>1. link' = "none"
    BY <1>11 DEF LeaveDone, Close
  <2>2. QED
    BY <2>1 DEF AgreeInv, Live
<1>12. ASSUME Stop PROVE AgreeInv'
  <2>1. CASE main' \notin {"serving", "replaying", "binding"}
    BY <2>1 DEF AgreeInv, Live
  <2>2. CASE main = "binding" /\ UNCHANGED <<sessionVars, main, desired>>
    BY <1>12, <2>2 DEF Stop, AgreeInv, Live, Gets, sessionVars
  <2>3. QED
    BY <1>12, <2>1, <2>2 DEF Stop, Exit, Leave
<1>13. ASSUME Reads PROVE AgreeInv'
  <2>1. Read /\ UNCHANGED <<main, slipped, desired, refused, ready, todo>>
    BY <1>13 DEF Reads
  <2>2. UNCHANGED <<link, subscribed>> /\ down # << >>
    BY <2>1, ReadShape DEF Read
  <2>3. SUFFICES ASSUME Live PROVE AgreeInv'
    BY <2>1, <2>2 DEF AgreeInv, Live
  <2>4. /\ down[1].op \in Expected(call[pending].op)
        /\ pending \in Callers /\ call[pending].pc = "waiting" /\ call[pending].future = Unset
    BY <2>1, <2>2, <2>3, InFlight
  <2>5. Routed(down[1])
    BY <2>4, CallersAssumption DEF Routed
  <2>6. \A u \in Callers : call'[u].future = IF u = pending THEN down[1] ELSE call[u].future
    BY <2>1, <2>4, <2>5, ReadShape
  <2>7. \A u \in Callers : call'[u].pc = call[u].pc /\ call'[u].op = call[u].op /\ call'[u].channel = call[u].channel
    BY <2>1, ReadShape
  <2>8. \A u \in Callers : \A op \in {"subscribe_ok", "unsubscribe_ok"} : Gets(u, op) => Gets(u, op)'
    BY <2>4, <2>6, <2>7 DEF Gets, Unset, Frame
  <2>9. QED
    BY <2>1, <2>2, <2>3, <2>7, <2>8 DEF AgreeInv, Live, Runs
<1>14. ASSUME ReaderStops PROVE AgreeInv'
  <2>1. link' = "closed"
    BY <1>14 DEF ReaderStops, ReaderEnds
  <2>2. QED
    BY <2>1 DEF AgreeInv, Live
<1>15. ASSUME Serve /\ UNCHANGED listenerVars PROVE AgreeInv'
  <2>1. UNCHANGED <<link, pending, call, main, slipped, desired, refused, ready, todo>> /\ up # << >>
    BY <1>15, ServeShape DEF Serve, listenerVars
  <2>2. SUFFICES ASSUME Live PROVE AgreeInv'
    BY <2>1 DEF AgreeInv, Live
  <2>3. /\ pending = up[1].for /\ up[1].op = call[pending].op /\ down = << >>
        /\ pending \in Callers /\ call[pending].pc = "waiting" /\ call[pending].future = Unset
    BY <2>1, <2>2, InFlight
  <2>4. up[1].channel = call[pending].channel
    BY <2>1, <2>2, <2>3 DEF TellsInv
  <2>5. \A u \in Callers : \A op \in {"subscribe_ok", "unsubscribe_ok"} : ~Gets(u, op)
    BY <2>3, WaitsAlone DEF Gets, Unset, Frame
  <2> DEFINE f == down'[1]
  <2>6. /\ f.op \in Expected(call[pending].op) /\ f.channel = call[pending].channel
        /\ \/ f.op = "subscribe_ok" /\ subscribed' = subscribed \cup {f.channel}
           \/ f.op = "unsubscribe_ok" /\ subscribed' = subscribed \ {f.channel}
           \/ f.op = "error" /\ subscribed' = subscribed
    <3>1. Len(down) = 0
      BY <2>3
    <3>2. QED
      BY <1>15, <2>3, <2>4, <3>1, ServeShape
  <2>7. Gets(pending, down[1].op)'
    <3>1. down' # << >>
      <4>1. Len(down') = 1
        BY <1>15, <2>3, ServeShape
      <4>2. QED
        BY <4>1
    <3>2. QED
      BY <2>1, <2>3, <3>1 DEF Gets
  <2>8. pending = Replay => call[Replay].op = "subscribe" /\ call[Replay].channel \in desired
    BY <2>2, <2>3 DEF ReadyInv, TaskInv, Live, Runs
  <2>9. ASSUME NEW c \in subscribed' \ desired PROVE \E t \in Handlers : call[t].channel = c /\ Gets(t, "subscribe_ok")'
    <3>1. c \notin subscribed
      BY <2>1, <2>2, <2>5, <2>9 DEF AgreeInv
    <3>2. f.op = "subscribe_ok" /\ c = call[pending].channel
      BY <2>6, <2>9, <3>1
    <3>3. pending \in Handlers
      BY <2>3, <2>8, <2>9, <3>2
    <3>4. QED
      BY <2>1, <2>7, <3>2, <3>3 DEF Gets
  <2>10. ASSUME NEW c \in desired \ subscribed'
         PROVE  \/ c \in refused \/ (main = "serving" /\ ~ready)
                \/ main = "replaying" /\ (c \in todo \/ (Runs(Replay) /\ call[Replay].channel = c))
                \/ \E t \in Handlers : call[t].channel = c /\ Gets(t, "unsubscribe_ok")'
    <3>1. CASE c \notin subscribed
      BY <2>1, <2>2, <2>5, <2>10, <3>1 DEF AgreeInv
    <3>2. CASE c \in subscribed
      <4>1. f.op = "unsubscribe_ok" /\ c = call[pending].channel
        BY <2>6, <2>10, <3>2
      <4>2. pending \in Handlers
        BY <2>3, <2>6, <2>8, <4>1 DEF Expected
      <4>3. QED
        BY <2>1, <2>7, <4>1, <4>2 DEF Gets
    <3>3. QED
      BY <3>1, <3>2
  <2>11. QED
    BY <2>1, <2>9, <2>10 DEF AgreeInv, Runs
<1>16. ASSUME Kick /\ UNCHANGED listenerVars PROVE AgreeInv'
  <2>1. link' = "closed"
    BY <1>16 DEF Kick
  <2>2. QED
    BY <2>1 DEF AgreeInv, Live
<1>17. ASSUME Lose /\ UNCHANGED listenerVars PROVE AgreeInv'
  <2>1. link' = "closed"
    BY <1>17 DEF Lose
  <2>2. QED
    BY <2>1 DEF AgreeInv, Live
<1>18. ASSUME NEW t \in Handlers, Request(t) PROVE AgreeInv'
  <2>1. PICK op \in Ops, c \in Channels : Ask(t, op, c)
    BY <1>18 DEF Request
  <2>2. UNCHANGED <<link, down, pending, subscribed, main, slipped, desired, refused, ready, todo>> /\ call[t].pc = "idle"
    BY <1>18, <2>1 DEF Request, Ask
  <2>3. call'[t].pc = "queued" /\ \A u \in Callers \ {t} : call'[u] = call[u]
    BY <2>1 DEF Ask, TypeOK, SessionTypeOK
  <2>4. \A u \in Handlers : \A o : Gets(u, o) => Gets(u, o)' /\ call'[u].channel = call[u].channel
    BY <2>2, <2>3 DEF Gets
  <2>5. QED
    BY <2>2, <2>3, <2>4 DEF AgreeInv, Live, Runs
<1>19. ASSUME NEW t \in Callers, Proceed(t) PROVE AgreeInv'
  <2>1. Issue(t) /\ UNCHANGED <<main, slipped, desired, refused, ready, todo>>
    BY <1>19 DEF Proceed, listenerVars
  <2>2. call[t].pc = "queued" /\ UNCHANGED <<link, down, subscribed>> /\ call'[t].channel = call[t].channel
    BY <2>1, IssueShape
  <2>3. \A u \in Callers \ {t} : call'[u] = call[u]
    BY <2>1, IssueShape
  <2>4. \A u \in Callers \ {t} : call[u].pc # "waiting"
    BY <2>1, IssueShape
  <2>5. \A u \in Callers : \A op : ~Gets(u, op)
    BY <2>2, <2>4 DEF Gets
  <2>6. call'[t].pc \in {"waiting", "failed"}
    BY <2>1, IssueShape
  <2>7. Runs(Replay) => Runs(Replay)'
    BY <2>3, <2>6 DEF Runs
  <2>8. \A u \in Callers : call'[u].channel = call[u].channel
    BY <2>2, <2>3
  <2>9. QED
    BY <2>1, <2>2, <2>5, <2>7, <2>8 DEF AgreeInv, Live
<1>20. ASSUME NEW t \in Callers, GiveUp(t) PROVE AgreeInv'
  <2>1. /\ Expire(t) /\ call[t].pc # "waiting" /\ ~slipped /\ t \in Handlers
        /\ UNCHANGED <<link, down, pending, subscribed, main, desired, refused, ready, todo>>
    BY <1>20 DEF GiveUp, Expire
  <2>2. call'[t].pc = "expired" /\ \A u \in Callers \ {t} : call'[u] = call[u]
    BY <2>1 DEF Expire, TypeOK, SessionTypeOK, Calls
  <2>3. \A u \in Handlers : \A o : Gets(u, o) => Gets(u, o)' /\ call'[u].channel = call[u].channel
    BY <2>1, <2>2 DEF Gets
  <2>4. QED
    BY <2>1, <2>2, <2>3 DEF AgreeInv, Live, Runs
<1>21. ASSUME NEW t \in Callers, Answered(t) PROVE AgreeInv'
  <2>1. Finish(t) /\ UNCHANGED <<link, down, subscribed, main, slipped, ready, todo>>
    BY <1>21 DEF Answered, Finish
  <2>2. /\ Done(t) /\ call'[t] = Idle /\ pending' = IF pending = t THEN None ELSE pending
        /\ \A u \in Callers \ {t} : call'[u] = call[u]
    BY <2>1 DEF Finish, TypeOK, SessionTypeOK
  <2>3. /\ desired' = IF t = Replay THEN desired ELSE Learned(t, Result(t))
        /\ refused' = IF t = Replay /\ Result(t).code = "refused" THEN refused \cup {call[t].channel} ELSE refused
    BY <1>21 DEF Answered
  <2>4. SUFFICES ASSUME Live PROVE AgreeInv'
    BY <2>1 DEF AgreeInv, Live
  <2>5. \A u \in Callers \ {t} : \A o : Gets(u, o) => Gets(u, o)' /\ call'[u].channel = call[u].channel
    BY <2>1, <2>2 DEF Gets
  <2>6. \/ call[t].pc = "waiting" /\ call[t].future # Unset /\ Tells(call[t].future, t)
        \/ call[t].pc = "expired" /\ t # Replay
    BY <2>1, <2>2, <2>4 DEF Done, TellsInv
  <2>7. CASE call[t].pc = "expired" /\ t # Replay
    <3>1. desired' = desired /\ refused' = refused
      BY <2>3, <2>7 DEF Learned, Result, Aborted, Frame
    <3>2. \A o : ~Gets(t, o)
      BY <2>7 DEF Gets
    <3>3. QED
      BY <2>1, <2>2, <2>4, <2>5, <2>7, <3>1, <3>2 DEF AgreeInv, Runs
  <2>8. CASE call[t].pc = "waiting" /\ call[t].future # Unset /\ Tells(call[t].future, t)
    <3> DEFINE c == call[t].channel
               f == call[t].future
    <3>1. \A u \in Callers : \A o : Gets(u, o) => u = t /\ f.op = o
      BY <2>8, WaitsAlone DEF Gets
    <3>2. Result(t) = f
      BY <2>8 DEF Result
    <3>3. /\ f.op \in Expected(call[t].op) /\ f.channel = c
          /\ f.op = "subscribe_ok" => c \in subscribed
          /\ f.op = "unsubscribe_ok" => c \notin subscribed
          /\ f.op = "error" => f.code = "refused"
      BY <2>8 DEF Tells
    <3>4. CASE t = Replay
      <4>1. desired' = desired /\ call[t].op = "subscribe"
        BY <2>3, <2>8, <3>4 DEF ReadyInv, Runs
      <4>2. c \in subscribed \/ c \in refused'
        BY <2>3, <3>2, <3>3, <3>4, <4>1 DEF Expected
      <4>3. refused \subseteq refused'
        BY <2>3
      <4>4. \A u \in Handlers : \A o : ~Gets(u, o)
        BY <3>1, <3>4
      <4>5. QED
        BY <2>1, <2>4, <3>4, <4>1, <4>2, <4>3, <4>4 DEF AgreeInv
    <3>5. CASE t # Replay
      <4>1. refused' = refused /\ (Runs(Replay) => Runs(Replay)' /\ call'[Replay].channel = call[Replay].channel)
        BY <2>2, <2>3, <3>5 DEF Runs
      <4>2. CASE f.op = "subscribe_ok"
        <5>1. desired' = desired \cup {c}
          BY <2>3, <3>2, <3>3, <3>5, <4>2 DEF Learned, Expected
        <5>2. \A x \in subscribed \ desired : x = c
          BY <2>1, <2>4, <3>1 DEF AgreeInv
        <5>3. \A x \in desired' \ subscribed : x \in desired \ subscribed
          BY <3>3, <4>2, <5>1
        <5>4. \A u \in Callers : ~Gets(u, "unsubscribe_ok")
          BY <3>1, <4>2
        <5>5. QED
          BY <2>1, <2>4, <4>1, <5>1, <5>2, <5>3, <5>4 DEF AgreeInv
      <4>3. CASE f.op = "unsubscribe_ok"
        <5>1. desired' = desired \ {c}
          <6>1. call[t].op = "unsubscribe"
            BY <3>3, <4>3 DEF TypeOK, SessionTypeOK, Calls, Ops, Expected
          <6>2. QED
            BY <2>3, <3>2, <3>5, <4>3, <6>1 DEF Learned
        <5>2. \A u \in Callers : ~Gets(u, "subscribe_ok")
          BY <3>1, <4>3
        <5>3. \A x \in subscribed : x \in desired /\ x # c
          BY <2>1, <2>4, <3>3, <4>3, <5>2 DEF AgreeInv
        <5>4. \A x \in desired' \ subscribed : x \in desired \ subscribed /\ x # c
          BY <5>1
        <5>5. \A u \in Handlers : Gets(u, "unsubscribe_ok") => call[u].channel = c
          BY <3>1
        <5>6. QED
          BY <2>1, <2>4, <4>1, <5>1, <5>3, <5>4, <5>5 DEF AgreeInv
      <4>4. CASE f.op = "error"
        <5>1. desired' = desired
          BY <2>3, <3>2, <3>5, <4>4 DEF Learned
        <5>2. \A u \in Callers : ~Gets(u, "subscribe_ok") /\ ~Gets(u, "unsubscribe_ok")
          BY <3>1, <4>4
        <5>3. QED
          BY <2>1, <2>4, <4>1, <5>1, <5>2 DEF AgreeInv
      <4>5. QED
        BY <3>3, <4>2, <4>3, <4>4 DEF Expected
    <3>6. QED
      BY <3>4, <3>5
  <2>9. QED
    BY <2>6, <2>7, <2>8
<1>22. QED
  BY <1>1, <1>2, <1>3, <1>4, <1>5, <1>6, <1>7, <1>8, <1>9, <1>10, <1>10a, <1>11, <1>12, <1>13, <1>14,
     <1>15, <1>16, <1>17, <1>18, <1>19, <1>20, <1>21 DEF Next, Server

-----------------------------------------------------------------------------
(* The KICKED notice. *)

\* Nothing gets in front of a KICKED notice that ends the session otherwise.
LEMMA InboxStep ==
  ASSUME TypeOK, LockInv, TaskInv, DownInv, InboxInv, Next
  PROVE  InboxInv'
<1> USE HandlersAssumption, CallersAssumption
<1>1. ASSUME ServerFound PROVE InboxInv'
  <2>1. UNCHANGED <<link, down, inbox, reader, told>> /\ main \in {"starting", "connecting", "pausing"}
    BY <1>1 DEF ServerFound, Exit, sessionVars
  <2>2. ~reader /\ told # "inbox"
    BY <2>1 DEF TaskInv, Between, InboxInv
  <2>3. QED
    BY <2>1, <2>2 DEF InboxInv
<1>2. ASSUME ServerMissing PROVE InboxInv'
  <2>1. UNCHANGED <<link, down, inbox, reader, told>> /\ main \in {"starting", "connecting", "pausing"}
    BY <1>2 DEF ServerMissing, Exit, sessionVars
  <2>2. ~reader /\ told # "inbox"
    BY <2>1 DEF TaskInv, Between, InboxInv
  <2>3. QED
    BY <2>1, <2>2 DEF InboxInv
<1>3. ASSUME Connected PROVE InboxInv'
  <2>1. PICK first \in {Welcome} \cup {Frame("error", code, None, None) : code \in {"refused", "permanent", "taken"}} : Open(first)
    BY <1>3 DEF Connected
  <2>2. told' = "nowhere" /\ down' = << >> /\ link' = (IF first = Welcome THEN "open" ELSE "closed") /\ inbox' = <<first>>
    BY <1>3, <2>1 DEF Connected, Open
  <2>3. CASE first = Welcome
    <3>1. inbox' # << >> /\ inbox'[1] = Welcome /\ \A i \in 1..Len(inbox') : Mild(inbox'[i])
      BY <2>2, <2>3 DEF Mild, Welcome, Eof, Frame
    <3>2. QED
      BY <2>2, <3>1 DEF InboxInv, Starts, Mild
  <2>4. CASE first # Welcome
    BY <2>2, <2>4 DEF InboxInv
  <2>5. QED
    BY <2>3, <2>4
<1>4. ASSUME ConnectFails PROVE InboxInv'
  <2>1. UNCHANGED <<link, down, inbox, reader, told>> /\ main \in {"starting", "connecting", "pausing"}
    BY <1>4 DEF ConnectFails, After, Exit, sessionVars
  <2>2. ~reader /\ told # "inbox"
    BY <2>1 DEF TaskInv, Between, InboxInv
  <2>3. QED
    BY <2>1, <2>2 DEF InboxInv
<1>5. ASSUME DeadlinePasses PROVE InboxInv'
  <2>1. UNCHANGED <<link, down, inbox, reader, told, main, outcome, stop, ready>>
    BY <1>5 DEF DeadlinePasses, sessionVars, listenerVars
  <2>2. QED
    BY <2>1 DEF InboxInv, Starts
<1>6. ASSUME WakeUp PROVE InboxInv'
  <2>1. UNCHANGED <<link, down, inbox, reader, told>> /\ main \in {"starting", "connecting", "pausing"}
    BY <1>6 DEF WakeUp, Exit, sessionVars
  <2>2. ~reader /\ told # "inbox"
    BY <2>1 DEF TaskInv, Between, InboxInv
  <2>3. QED
    BY <2>1, <2>2 DEF InboxInv
<1>7. ASSUME TakeFrame PROVE InboxInv'
  <2>1. UNCHANGED <<link, down, reader, ready, stop, adapter>> /\ main = "serving"
    BY <1>7 DEF TakeFrame
  <2>2. /\ 1 <= Len(inbox) /\ Len(inbox) \in Nat /\ Len(inbox') = Len(inbox) - 1
        /\ \A i \in 1..Len(inbox') : inbox'[i] = inbox[i + 1]
    BY <1>7, TakeShape DEF TypeOK, SessionTypeOK
  <2>3. \A i \in 1..Len(inbox') : i + 1 \in 1..Len(inbox) /\ inbox'[i] = inbox[i + 1]
    BY <2>2
  <2>4. reader' /\ (link' = "open" \/ down' # << >>) => Starts /\ \A i \in 1..Len(inbox') : Mild(inbox'[i])
    BY <2>1, <2>3 DEF InboxInv
  <2>5. told = "inbox" => Starts /\ \E i \in 1..Len(inbox) : inbox[i] = Kicked /\ \A j \in 1..(i - 1) : Mild(inbox[j])
    BY <2>1 DEF InboxInv
  <2> DEFINE Waits == \E i \in 1..Len(inbox') : inbox'[i] = Kicked /\ \A j \in 1..(i - 1) : Mild(inbox'[j])
  <2>6. told = "inbox" /\ inbox[1] # Kicked => Mild(inbox[1]) /\ Waits
    <3>1. SUFFICES ASSUME told = "inbox", inbox[1] # Kicked PROVE Mild(inbox[1]) /\ Waits
      OBVIOUS
    <3>2. PICK i \in 1..Len(inbox) : inbox[i] = Kicked /\ \A j \in 1..(i - 1) : Mild(inbox[j])
      BY <2>5, <3>1
    <3>3. i # 1 /\ i - 1 \in 1..Len(inbox') /\ inbox'[i - 1] = Kicked
      BY <2>2, <3>1, <3>2
    <3>4. \A j \in 1..(i - 1 - 1) : Mild(inbox'[j])
      BY <2>2, <3>2, <3>3
    <3>5. Mild(inbox[1])
      BY <2>2, <3>2, <3>3
    <3>6. QED
      BY <3>3, <3>4, <3>5
  <2>7. CASE inbox[1] = Welcome /\ main' = "replaying" /\ UNCHANGED <<outcome, told>>
    BY <2>1, <2>4, <2>6, <2>7 DEF InboxInv, Starts, Mild, Welcome, Kicked, Frame
  <2>8. ASSUME EndsSession(inbox[1]), NEW o \in Outcomes, o = Verdict(inbox[1]), Leave(o) PROVE InboxInv'
    <3>1. main' = "leaving" /\ outcome' = o /\ told' = IF told = "inbox" /\ o = "lost" THEN "hidden" ELSE told
      BY <2>8 DEF Leave
    <3>2. told = "inbox" => inbox[1] = Kicked
      <4>1. SUFFICES ASSUME told = "inbox", inbox[1] # Kicked PROVE FALSE
        OBVIOUS
      <4>2. Mild(inbox[1]) /\ Starts
        BY <2>5, <2>6, <4>1
      <4>3. inbox[1].op = "error" /\ ~ready
        BY <2>8, <4>2 DEF EndsSession, Mild
      <4>4. QED
        BY <2>1, <4>2, <4>3 DEF Starts, Welcome, Frame
    <3>3. told' = "inbox" => outcome' = "fatal"
      BY <2>8, <3>1, <3>2 DEF Verdict, Kicked, Eof, Frame
    <3>4. QED
      BY <2>1, <2>4, <3>1, <3>3 DEF InboxInv, Starts, Mild
  <2>9. CASE inbox[1] # Welcome /\ ~EndsSession(inbox[1]) /\ UNCHANGED <<main, outcome, told>>
    <3>1. inbox[1] # Kicked
      BY <2>9 DEF EndsSession, Kicked, Frame
    <3>2. Starts => ready
      BY <2>1, <2>9 DEF Starts
    <3>3. QED
      BY <2>1, <2>4, <2>5, <2>6, <2>9, <3>1, <3>2 DEF InboxInv, Starts, Mild
  <2>10. QED
    BY <1>7, TakeShape, <2>7, <2>8, <2>9
<1>8. ASSUME WriteFails PROVE InboxInv'
  <2>1. UNCHANGED <<link, down, inbox, reader>> /\ main' = "leaving" /\ told' # "inbox" /\ (told' # "nowhere" => told # "nowhere")
    BY <1>8 DEF WriteFails, Leave, sessionVars
  <2>2. QED
    BY <2>1 DEF InboxInv, Starts
<1>9. ASSUME ReplayNext PROVE InboxInv'
  <2>1. UNCHANGED <<link, down, inbox, reader, told, main, outcome, stop, ready>>
    BY <1>9 DEF ReplayNext, Ask, sessionVars, listenerVars
  <2>2. QED
    BY <2>1 DEF InboxInv, Starts
<1>10. ASSUME ReplayDone PROVE InboxInv'
  <2>1. UNCHANGED <<link, down, inbox, reader, stop, told>> /\ main = "replaying" /\ main' = "binding"
    BY <1>10 DEF ReplayDone, sessionVars
  <2>2. QED
    BY <2>1 DEF InboxInv, Starts
<1>10a. ASSUME ControlStarted PROVE InboxInv'
  <2>1. UNCHANGED <<link, down, inbox, reader, stop>> /\ main = "binding"
    BY <1>10a DEF ControlStarted, sessionVars
  <2>2. CASE main' = "serving" /\ ready' = TRUE /\ UNCHANGED <<outcome, told>>
    BY <2>1, <2>2 DEF InboxInv, Starts
  <2>3. CASE Leave("lost")
    <3>1. main' = "leaving" /\ told' # "inbox" /\ (told' # "nowhere" => told # "nowhere")
      BY <2>3 DEF Leave
    <3>2. QED
      BY <2>1, <3>1 DEF InboxInv, Starts
  <2>4. QED
    BY <1>10a, <2>2, <2>3 DEF ControlStarted
<1>11. ASSUME LeaveDone PROVE InboxInv'
  <2>1. link' = "none" /\ down' = << >> /\ reader' = FALSE /\ told' = told /\ main = "leaving" /\ After(outcome)
    BY <1>11 DEF LeaveDone, Close
  <2>2. told = "inbox" => outcome = "fatal" \/ stop
    BY <2>1 DEF InboxInv
  <2>3. told = "inbox" => main' = "exited"
    BY <2>1, <2>2 DEF After, Exit
  <2>4. QED
    BY <2>1, <2>3 DEF InboxInv
<1>12. ASSUME Stop PROVE InboxInv'
  <2>1. UNCHANGED <<link, down, inbox, reader, told, ready>> /\ stop' = TRUE
    BY <1>12 DEF Stop, Leave, Expire, sessionVars
  <2>2. CASE main = "connecting"
    <3>1. ~reader /\ told # "inbox"
      BY <2>2 DEF TaskInv, Between, InboxInv
    <3>2. QED
      BY <2>1, <3>1 DEF InboxInv
  <2>3. CASE main' = "leaving"
    BY <2>1, <2>3 DEF InboxInv, Starts
  <2>4. CASE main \in {"starting", "pausing", "binding"} /\ main' = main
    BY <2>1, <2>4 DEF InboxInv, Starts
  <2>5. QED
    BY <1>12, <2>2, <2>3, <2>4 DEF Stop, Leave
<1>13. ASSUME Reads PROVE InboxInv'
  <2>1. Read /\ UNCHANGED <<main, outcome, stop, ready>>
    BY <1>13 DEF Reads
  <2>2. /\ reader /\ link' = link /\ down # << >> /\ Len(down) \in Nat \ {0} /\ Len(down') = Len(down) - 1
        /\ 1 \in 1..Len(down) /\ Head(down) = down[1]
    BY <2>1, ReadShape DEF Read, TypeOK, SessionTypeOK
  <2>3. inbox \in Seq(Frames) /\ down' \in Seq(Frames)
    BY <2>1, ReadTypes DEF TypeOK, SessionTypeOK
  <2>4. Starts /\ (\A i \in 1..Len(inbox) : Mild(inbox[i])) /\ told = "nowhere"
    BY <2>2 DEF InboxInv
  <2>5. \/ inbox' = inbox /\ Routed(down[1])
        \/ /\ ~Routed(down[1])
           /\ Len(inbox') = Len(inbox) + 1 /\ inbox'[Len(inbox) + 1] = down[1]
           /\ \A i \in 1..Len(inbox) : inbox'[i] = inbox[i]
    BY <2>1, ReadShape
  <2>6. Starts'
    BY <2>1, <2>3, <2>4, <2>5 DEF Starts
  <2>7. CASE down[1] = Kicked
    <3>1. Len(down) = 1 /\ link = "closed"
      BY <2>2, <2>7 DEF DownInv, Kicked, Frame
    <3>2. down' = << >>
      BY <2>2, <2>3, <3>1
    <3>3. told' = IF Routed(Kicked) THEN "command" ELSE IF main = "leaving" THEN "hidden" ELSE "inbox"
      BY <1>13, <2>2, <2>7 DEF Reads
    <3>4. told' = "inbox" => main \in {"serving", "replaying", "binding"} /\ ~Routed(Kicked)
      BY <2>2, <3>3 DEF TaskInv, Between, TypeOK, Mains
    <3>5. ~Routed(Kicked) => \E i \in 1..Len(inbox') : inbox'[i] = Kicked /\ \A j \in 1..(i - 1) : Mild(inbox'[j])
      <4>1. SUFFICES ASSUME ~Routed(Kicked)
                     PROVE  \E i \in 1..Len(inbox') : inbox'[i] = Kicked /\ \A j \in 1..(i - 1) : Mild(inbox'[j])
        OBVIOUS
      <4>2. Len(inbox) + 1 \in 1..Len(inbox') /\ inbox'[Len(inbox) + 1] = Kicked
        BY <2>3, <2>5, <2>7, <4>1
      <4>3. \A j \in 1..(Len(inbox) + 1 - 1) : Mild(inbox'[j])
        BY <2>3, <2>4, <2>5, <2>7, <4>1
      <4>4. QED
        BY <4>2, <4>3
    <3>6. QED
      BY <2>1, <2>2, <2>6, <3>1, <3>2, <3>4, <3>5 DEF InboxInv, Mild
  <2>8. CASE down[1] # Kicked
    <3>1. told' = "nowhere"
      BY <1>13, <2>2, <2>4, <2>8 DEF Reads
    <3>2. Mild(down[1])
      BY <2>2, <2>8 DEF DownInv, Mild, Eof, Frame
    <3>3. \A i \in 1..Len(inbox') : Mild(inbox'[i])
      BY <2>3, <2>4, <2>5, <3>2
    <3>4. QED
      BY <2>6, <3>1, <3>3 DEF InboxInv, Mild
  <2>9. QED
    BY <2>7, <2>8
<1>14. ASSUME ReaderStops PROVE InboxInv'
  <2>1. ReaderEnds /\ UNCHANGED <<link, down, told, main, outcome, stop, ready>> /\ reader' = FALSE
    BY <1>14 DEF ReaderStops, ReaderEnds, listenerVars
  <2>2. inbox \in Seq(Frames) /\ Len(inbox') = Len(inbox) + 1 /\ \A i \in 1..Len(inbox) : inbox'[i] = inbox[i]
    BY <2>1, EndShape DEF TypeOK, SessionTypeOK
  <2>3. Starts => Starts'
    <3>1. inbox # << >> /\ inbox[1] = Welcome => inbox' # << >> /\ inbox'[1] = Welcome
      BY <2>2
    <3>2. QED
      BY <2>1, <3>1 DEF Starts
  <2>4. ASSUME NEW i \in 1..Len(inbox), inbox[i] = Kicked, \A j \in 1..(i - 1) : Mild(inbox[j])
        PROVE  \E k \in 1..Len(inbox') : inbox'[k] = Kicked /\ \A j \in 1..(k - 1) : Mild(inbox'[j])
    BY <2>2, <2>4
  <2>5. QED
    BY <2>1, <2>3, <2>4 DEF InboxInv, Mild
<1>15. ASSUME Serve /\ UNCHANGED listenerVars PROVE InboxInv'
  <2>1. UNCHANGED <<link, inbox, reader, told, main, outcome, stop, ready>> /\ link = "open"
    BY <1>15, ServeShape DEF listenerVars
  <2>2. QED
    BY <2>1 DEF InboxInv, Starts
<1>16. ASSUME Kick /\ UNCHANGED listenerVars PROVE InboxInv'
  <2>1. UNCHANGED <<inbox, reader, told, main, outcome, stop, ready>> /\ link = "open"
    BY <1>16 DEF Kick, listenerVars
  <2>2. QED
    BY <2>1 DEF InboxInv, Starts
<1>17. ASSUME Lose /\ UNCHANGED listenerVars PROVE InboxInv'
  <2>1. UNCHANGED <<inbox, reader, told, main, outcome, stop, ready>> /\ link = "open"
    BY <1>17 DEF Lose, listenerVars
  <2>2. QED
    BY <2>1 DEF InboxInv, Starts
<1>18. ASSUME NEW t \in Handlers, Request(t) PROVE InboxInv'
  <2>1. UNCHANGED <<link, down, inbox, reader, told, main, outcome, stop, ready>>
    BY <1>18 DEF Request, Ask, sessionVars, listenerVars
  <2>2. QED
    BY <2>1 DEF InboxInv, Starts
<1>19. ASSUME NEW t \in Callers, Proceed(t) PROVE InboxInv'
  <2>1. UNCHANGED <<link, down, inbox, reader, told, main, outcome, stop, ready>>
    BY <1>19 DEF Proceed, Issue, sessionVars, listenerVars
  <2>2. QED
    BY <2>1 DEF InboxInv, Starts
<1>20. ASSUME NEW t \in Callers, GiveUp(t) PROVE InboxInv'
  <2>1. UNCHANGED <<link, down, inbox, reader, told, main, outcome, stop, ready>>
    BY <1>20 DEF GiveUp, Expire, sessionVars, listenerVars
  <2>2. QED
    BY <2>1 DEF InboxInv, Starts
<1>21. ASSUME NEW t \in Callers, Answered(t) PROVE InboxInv'
  <2>1. UNCHANGED <<link, down, inbox, reader, told, main, outcome, stop, ready>>
    BY <1>21 DEF Answered, Finish, sessionVars, listenerVars
  <2>2. QED
    BY <2>1 DEF InboxInv, Starts
<1>22. QED
  BY <1>1, <1>2, <1>3, <1>4, <1>5, <1>6, <1>7, <1>8, <1>9, <1>10, <1>10a, <1>11, <1>12, <1>13, <1>14,
     <1>15, <1>16, <1>17, <1>18, <1>19, <1>20, <1>21 DEF Next, Server

-----------------------------------------------------------------------------
(* The theorems. *)

\* Between two steps nothing changes.
LEMMA Stutter == ASSUME ListenerInv, UNCHANGED vars PROVE ListenerInv'
<1>1. TypeOK' /\ LockInv' /\ TaskInv' /\ DownInv'
  BY DEF ListenerInv, vars, sessionVars, listenerVars, TypeOK, SessionTypeOK, LockInv, TaskInv,
     DownInv, NoRequests, Runs
<1>2. ReadyInv' /\ InboxInv'
  BY DEF ListenerInv, vars, sessionVars, listenerVars, ReadyInv, InboxInv, Starts, NoRequests, Runs
<1>3. ~slipped' => FlightInv' /\ TellsInv' /\ AgreeInv'
  BY DEF ListenerInv, vars, sessionVars, listenerVars, FlightInv, AnswersMatch, OnItsWay,
     NoRequests, Runs,
         TellsInv, AgreeInv, Live, Tells, Gets
<1>4. QED
  BY <1>1, <1>2, <1>3 DEF ListenerInv

\* The invariant holds in every state of every listener.
THEOREM Invariant == Spec => []ListenerInv
<1>1. ListenerInv /\ [Next]_vars => ListenerInv'
  <2>1. SUFFICES ASSUME ListenerInv, [Next]_vars PROVE ListenerInv'
    OBVIOUS
  <2>2. CASE Next
    <3>1. /\ TypeOK /\ LockInv /\ TaskInv /\ DownInv /\ ReadyInv /\ InboxInv
          /\ ~slipped => FlightInv /\ TellsInv /\ AgreeInv
      BY <2>1 DEF ListenerInv
    <3>2. TypeOK' /\ LockInv' /\ TaskInv' /\ DownInv' /\ ReadyInv' /\ InboxInv'
      BY <2>2, <3>1, TypeStep, LockStep, TaskStep, DownStep, ReadyStep, InboxStep
    <3>3. ~slipped' => FlightInv' /\ TellsInv' /\ AgreeInv'
      BY <2>2, <3>1, FlightStep, TellsStep, AgreeStep
    <3>4. QED
      BY <3>2, <3>3 DEF ListenerInv
  <2>3. CASE UNCHANGED vars
    BY <2>1, <2>3, Stutter
  <2>4. QED
    BY <2>1, <2>2, <2>3
<1>2. QED
  BY InitInv, <1>1, PTL DEF Spec

\* Every variable keeps its type.
THEOREM TypeCorrect == Spec => []TypeOK
<1>1. ListenerInv => TypeOK
  BY DEF ListenerInv
<1>2. QED
  BY Invariant, <1>1, PTL

\* The pending slot belongs to the command that owns the lock and was sent
\* (AgentSession._exchange).
THEOREM SlotSafe == Spec => []SlotBelongsToOwner
<1>1. ListenerInv => SlotBelongsToOwner
  <2>1. SUFFICES ASSUME ListenerInv, pending # None
                 PROVE  lock # << >> /\ Head(lock) = pending /\ call[pending].pc \in {"waiting", "expired"}
    BY DEF SlotBelongsToOwner
  <2>2. lock \in Seq(Callers) /\ Len(lock) > 0 /\ lock[1] = pending /\ call[pending].pc \in {"waiting", "expired"}
    BY <2>1 DEF ListenerInv, TypeOK, SessionTypeOK, LockInv
  <2>3. QED
    BY <2>2
<1>2. QED
  BY Invariant, <1>1, PTL

\* As long as no command timed out on the wire, an answer goes to the command
\* the server meant it for (AgentSession._reader_loop knows frames by their
\* op only).
THEOREM AnswersSafe == Spec => []AnswersMatch
<1>1. ListenerInv => AnswersMatch
  BY DEF ListenerInv, FlightInv, AnswersMatch
<1>2. QED
  BY Invariant, <1>1, PTL

\* As long as no command timed out on the wire, a session at rest has the
\* subscriptions the listener will ask for again, but for those the server
\* refused (Listener._handle_control_request, reapply_desired).
THEOREM SubscriptionsSafe == Spec => []SubscriptionsAgree
<1>1. ListenerInv => SubscriptionsAgree
  <2>1. SUFFICES ASSUME ListenerInv, Quiet, ~slipped
                 PROVE  subscribed \subseteq desired /\ desired \ subscribed \subseteq refused
    BY DEF SubscriptionsAgree
  <2>2. Live /\ main = "serving" /\ ready /\ AgreeInv
    BY <2>1 DEF Quiet, ListenerInv, Live
  <2>3. \A t \in Callers : ~Runs(t)
    <3>1. Len(lock) = 0
      BY <2>1 DEF Quiet
    <3>2. QED
      BY <2>1, <3>1 DEF ListenerInv, LockInv
  <2>4. \A t \in Handlers : \A op : ~Gets(t, op)
    BY <2>3, HandlersAssumption DEF Gets, Runs
  <2>5. QED
    BY <2>2, <2>4 DEF AgreeInv
<1>2. QED
  BY Invariant, <1>1, PTL

\* A KICKED notice in the inbox ends the listener: no session follows
\* (Listener._handle_frame, and _run_session of either adapter).
THEOREM KickedAway == Spec => KickedStaysAway
<1>1. ListenerInv /\ [Next]_vars => [told = "inbox" => number' = number]_vars
  <2>1. SUFFICES ASSUME ListenerInv, Next, told = "inbox" PROVE number' = number
    BY DEF vars
  <2>2. main # "connecting"
    BY <2>1 DEF ListenerInv, InboxInv
  <2>3. Connected \/ number' = number
    BY <2>1 DEF Next, ServerFound, ServerMissing, ConnectFails, DeadlinePasses, WakeUp, TakeFrame,
       WriteFails,
                ReplayNext, ReplayDone, ControlStarted, LeaveDone, Stop, Reads, ReaderStops, Server, Request, Proceed, GiveUp,
                Answered, listenerVars
  <2>4. QED
    BY <2>2, <2>3 DEF Connected
<1>2. QED
  BY Invariant, <1>1, PTL DEF Spec, KickedStaysAway

\* Behind SIGTERM no further session begins: the loop looks at the event
\* before every attempt, so the main task is at none when the event is set
\* (the loop of Listener.run).
THEOREM StopsForGood == Spec => StopStays
<1> DEFINE Away == stop => main # "connecting"
<1>1. Init => Away
  BY DEF Init
<1>2. Away /\ [Next]_vars => Away' /\ [stop => number' = number]_vars
  <2>1. CASE UNCHANGED vars
    BY <2>1 DEF vars, listenerVars
  <2>2. ASSUME Away, Next PROVE Away' /\ (stop => number' = number)
    <3>1. Away'
      BY <2>2 DEF Next, ServerFound, ServerMissing, Connected, ConnectFails, After, Exit, DeadlinePasses,
         WakeUp, TakeFrame, Leave, WriteFails, ReplayNext, ReplayDone, ControlStarted, LeaveDone, Stop,
         Reads, ReaderStops, Server, Request, Proceed, GiveUp, Answered, listenerVars
    <3>2. Connected \/ number' = number
      BY <2>2 DEF Next, ServerFound, ServerMissing, ConnectFails, DeadlinePasses, WakeUp, TakeFrame,
         WriteFails, ReplayNext, ReplayDone, ControlStarted, LeaveDone, Stop, Reads, ReaderStops, Server,
         Request, Proceed, GiveUp, Answered, listenerVars
    <3>3. QED
      BY <2>2, <3>1, <3>2 DEF Connected
  <2>3. QED
    BY <2>1, <2>2
<1>3. QED
  BY <1>1, <1>2, PTL DEF Spec, StopStays

=============================================================================
