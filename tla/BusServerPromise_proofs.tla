---------------------- MODULE BusServerPromise_proofs ----------------------
(* BusServer implements Bus, and a kicked connection is closed, for every   *)
(* value of the constants.                                                  *)
EXTENDS BusServerPromise, BusServerLocking_proofs

LockLabels == {"acquire", "queued", "crit"}

\* Where a handler can only be while it has the event loop.
RunLabels == {"route", "acquire", "crit", "fanout", "sending", "flag", "kicked", "close", "exit"}

\* What a handler knows where it is.  A frame it has yet to write goes to an
\* element of its loop that nobody can have changed since it was chosen.
HandlerState(c) ==
  /\ pc[c] \in RunLabels => current = c
  /\ pc[c] \in {"off", "hello"} => hello[c] = None
  /\ pc[c] \in {"off", "hello", "recv", "done"} => job[c] = NoJob
  /\ pc[c] = "route" =>
       job[c].req \in Requests /\ job[c].seen = {} /\ job[c].victim = None
  /\ pc[c] \in LockLabels =>
       /\ job[c].req.op \in LockedOps \cup {"register", "cleanup"}
       /\ MayUse(c, job[c].req.op)
       /\ job[c].seen = {} /\ job[c].victim = None
  /\ job[c].req.op = "cleanup" => pc[c] \in LockLabels
  /\ (pc[c] = "sending" /\ job[c].then = "fanout") =>
       \E x \in job[c].seen \cap Live(c) : Recipient(c, x) = job[c].peer

HandlerStates == \A c \in Conns : HandlerState(c)

-----------------------------------------------------------------------------
(* The locals of one handler. *)

\* A task runs only its own handler.
LEMMA OthersSame ==
  ASSUME VarTypes, NEW c \in Conns,
         Enter(c) \/ (\E r \in Requests : Receive(c, r)) \/ Handler(c)
  PROVE  \A e \in Conns \ {c} : SameHandler(e)
<1> SUFFICES ASSUME NEW e \in Conns \ {c} PROVE SameHandler(e)
  OBVIOUS
<1> USE DEF VarTypes, SameHandler, handlerVars
<1>1. CASE Enter(c) \/ (\E r \in Requests : Receive(c, r)) \/ EndOfFrames(c) \/ Exit(c)
  BY <1>1 DEF Enter, Connect, HelloFails, HelloAccepted, Receive, EndOfFrames, Exit, Goto
<1>2. CASE Locking(c)
  BY <1>2 DEF Locking, Acquire, Granted, RegisterRefused, Register, Cleanup, Reply, SendTo, Goto
<1>3. CASE Sending(c)
  BY <1>3 DEF Sending, Sent, SendDrains, SendTooLate, Drained, SendRaises, Resume, Raise, Goto
<1>4. CASE Answer(c) \/ SetShutdown(c) \/ AskLock(c) \/ RouteDirect(c) \/ RouteToAll(c)
  BY <1>4 DEF Answer, SetShutdown, AskLock, RouteDirect, RouteToAll, Reply, SendTo, Goto
<1>5. CASE Subscribe(c) \/ Unsubscribe(c) \/ Publish(c) \/ ListChannels(c) \/ KickRefused(c)
  BY <1>5 DEF Subscribe, Unsubscribe, Publish, ListChannels, KickRefused, Reply, SendTo, Goto
<1>6. CASE Kick(c) \/ NotifyKicked(c) \/ CloseKicked(c) \/ KickDone(c)
  BY <1>6 DEF Kick, NotifyKicked, CloseKicked, KickDone, SendTo, Goto
<1>7. CASE FanOutDone(c) \/ FanOutBreaks(c) \/ \E x \in Conns \cup Sids : FanOutNext(c, x)
  BY <1>7 DEF FanOutDone, FanOutBreaks, FanOutNext, Raise, Goto
<1> QED BY <1>1, <1>2, <1>3, <1>4, <1>5, <1>6, <1>7 DEF Handler, Routing

LEMMA SendToJob ==
  ASSUME VarTypes, NEW c \in Conns, NEW d \in Conns, NEW label \in Labels, SendTo(c, d, label)
  PROVE  /\ pc'[c] = "sending"
         /\ job'[c].peer = d /\ job'[c].then = label
         /\ job'[c].req = job[c].req /\ job'[c].victim = job[c].victim
         /\ job'[c].start = job[c].start /\ job'[c].seen = job[c].seen
<1>1. job[c] \in Jobs /\ job \in [Conns -> Jobs] /\ pc \in [Conns -> Labels]
  BY DEF VarTypes
<1>2. job'[c] = [job[c] EXCEPT !.peer = d, !.then = label]
  BY <1>1 DEF SendTo
<1> QED BY <1>1, <1>2 DEF Jobs, SendTo, Goto

LEMMA StatesFrame ==
  ASSUME HandlerStates, NEW c \in Conns, current \in {c, None}, HandlerState(c)',
         \A e \in Conns \ {c} : SameHandler(e)
  PROVE  HandlerStates'
<1> SUFFICES ASSUME NEW e \in Conns \ {c} PROVE HandlerState(e)'
  BY DEF HandlerStates
<1>1. HandlerState(e) /\ SameHandler(e)
  BY DEF HandlerStates
<1>2. pc[e] \notin RunLabels
  BY <1>1, ConnsAssumption DEF HandlerState
<1> QED BY <1>1, <1>2 DEF HandlerState, SameHandler, RunLabels, MayUse

(* Where a step leaves its handler. *)

\* At rest.
LEMMA StateRests ==
  ASSUME NEW c \in Conns, pc'[c] \in {"recv", "done"}, job'[c] = NoJob
  PROVE  HandlerState(c)'
BY DEF HandlerState, RunLabels, LockLabels, NoJob

\* Running or waiting with its frame, outside the lock's queue.
LEMMA StateGoesOn ==
  ASSUME NEW c \in Conns, job'[c].req.op # "cleanup",
         \/ pc'[c] \in {"exit", "flag", "kicked", "close", "fanout"} /\ current' = c
         \/ pc'[c] = "sending" /\ current' = c /\ job'[c].then # "fanout"
         \/ pc'[c] \in {"draining", "ending", "closing"}
  PROVE  HandlerState(c)'
BY DEF HandlerState, RunLabels, LockLabels

LEMMA StateReplies ==
  ASSUME VarTypes, NEW c \in Conns, NEW d \in Conns, NEW label \in Labels \ {"fanout"},
         SendTo(c, d, label), job[c].req.op # "cleanup", current' = c
  PROVE  HandlerState(c)'
<1>1. pc'[c] = "sending" /\ job'[c].then = label /\ job'[c].req = job[c].req
  BY SendToJob
<1> QED BY <1>1, StateGoesOn

LEMMA StateEnters ==
  ASSUME VarTypes, NEW c \in Conns, HandlerState(c),
         Enter(c) \/ (\E r \in Requests : Receive(c, r)) \/ EndOfFrames(c) \/ Exit(c)
  PROVE  HandlerState(c)'
<1> USE DEF VarTypes
<1>1. CASE Connect(c)
  BY <1>1 DEF Connect, Goto, HandlerState, RunLabels, LockLabels, NoJob
<1>2. CASE HelloFails(c) \/ EndOfFrames(c)
  <2>1. pc'[c] = "exit" /\ current' = c /\ job'[c] = NoJob
    BY <1>2 DEF HelloFails, EndOfFrames, Wakes, Goto, HandlerState
  <2> QED BY <2>1, StateGoesOn DEF NoJob
<1>3. ASSUME NEW h \in Hellos, HelloAccepted(c, h) PROVE HandlerState(c)'
  <2>1. pc'[c] = "acquire" /\ current' = c /\ job'[c] = [NoJob EXCEPT !.req = [op |-> "register"]]
    BY <1>3 DEF HelloAccepted, Wakes, Goto, HandlerState
  <2>2. job'[c].req.op = "register" /\ job'[c].seen = {} /\ job'[c].victim = None
    BY <2>1 DEF NoJob
  <2> QED BY <2>1, <2>2 DEF HandlerState, RunLabels, LockLabels, MayUse, AgentOps, ControlOps
<1>4. ASSUME NEW r \in Requests, Receive(c, r) PROVE HandlerState(c)'
  <2>1. pc'[c] = "route" /\ current' = c /\ job'[c] = [NoJob EXCEPT !.req = r]
    BY <1>4 DEF Receive, Goto
  <2>2. job'[c].req = r /\ job'[c].seen = {} /\ job'[c].victim = None
    BY <2>1 DEF NoJob
  <2>3. r.op # "cleanup"
    BY RequestOps
  <2> QED BY <2>1, <2>2, <2>3 DEF HandlerState, RunLabels, LockLabels
<1>5. CASE Exit(c)
  <2>1. CASE Goto(c, "done") /\ job' = [job EXCEPT ![c] = NoJob]
    BY <2>1, StateRests DEF Goto
  <2>2. CASE /\ Goto(c, "acquire") /\ UNCHANGED current
             /\ job' = [job EXCEPT ![c] = [NoJob EXCEPT !.req = [op |-> "cleanup"]]]
    <3>1. pc'[c] = "acquire" /\ current' = c /\ job'[c] = [NoJob EXCEPT !.req = [op |-> "cleanup"]]
      BY <1>5, <2>2 DEF Exit, At, Goto
    <3>2. job'[c].req.op = "cleanup" /\ job'[c].seen = {} /\ job'[c].victim = None
      BY <3>1 DEF NoJob
    <3> QED BY <3>1, <3>2 DEF HandlerState, RunLabels, LockLabels, MayUse, AgentOps, ControlOps
  <2> QED BY <1>5, <2>1, <2>2 DEF Exit
<1> QED BY <1>1, <1>2, <1>3, <1>4, <1>5 DEF Enter

LEMMA StateLocks ==
  ASSUME VarTypes, NEW c \in Conns, HandlerState(c), Locking(c)
  PROVE  HandlerState(c)'
<1> USE DEF VarTypes
<1>1. CASE Acquire(c) \/ Granted(c)
  <2>1. /\ pc'[c] \in {"crit", "queued"} /\ (pc'[c] = "crit" => current' = c)
        /\ pc[c] \in LockLabels /\ UNCHANGED <<job, hello>>
    BY <1>1 DEF Acquire, Granted, At, Wakes, Goto, LockLabels
  <2> QED BY <2>1 DEF HandlerState, RunLabels, LockLabels, MayUse
<1>2. CASE RegisterRefused(c) \/ Register(c)
  <2>1. /\ Reply(c, "exit") \/ Reply(c, "recv")
        /\ job[c].req.op = "register" /\ current' = c
    BY <1>2 DEF RegisterRefused, Register, InCrit, At
  <2> QED BY <2>1, StateReplies DEF Reply, Labels
<1>3. CASE Cleanup(c)
  BY <1>3, StateRests DEF Cleanup, Goto
<1> QED BY <1>1, <1>2, <1>3 DEF Locking

LEMMA StateResumes ==
  ASSUME VarTypes, NEW c \in Conns, HandlerType(c), HandlerState(c), pc[c] \in SendLabels, Resume(c)
  PROVE  HandlerState(c)'
<1>1. job[c].then \in {"recv", "exit", "fanout", "flag", "kicked", "close"} /\ job[c].req.op # "cleanup"
  BY DEF HandlerType, HandlerState, SendLabels, LockLabels
<1>2. pc'[c] = job[c].then
  BY DEF Resume, Goto, VarTypes
<1>3. CASE job[c].then = "recv"
  <2>1. job'[c] = NoJob
    BY <1>3 DEF Resume, VarTypes
  <2> QED BY <1>2, <1>3, <2>1, StateRests
<1>4. CASE job[c].then # "recv"
  <2>1. job' = job /\ current' = c
    BY <1>4 DEF Resume
  <2> QED BY <1>1, <1>2, <1>4, <2>1, StateGoesOn
<1> QED BY <1>3, <1>4

LEMMA StateSends ==
  ASSUME TypeOK, NEW c \in Conns, HandlerState(c), Sending(c)
  PROVE  HandlerState(c)'
<1>0. VarTypes /\ HandlerType(c)
  BY DEF TypeOK, HandlerTypes
<1>1. pc[c] \in SendLabels
  BY DEF Sending, Sent, SendDrains, SendTooLate, Drained, SendRaises, At, Wakes, SendLabels
<1>2. job[c].req.op # "cleanup"
  BY <1>1 DEF HandlerState, SendLabels, LockLabels
<1>3. CASE SendDrains(c) \/ SendTooLate(c)
  <2>1. pc'[c] \in {"draining", "ending"} /\ job' = job
    BY <1>0, <1>3 DEF SendDrains, SendTooLate, Goto, VarTypes
  <2> QED BY <1>2, <2>1, StateGoesOn
<1>4. CASE Resume(c)
  BY <1>0, <1>1, <1>4, StateResumes
<1>5. CASE Raise(c) /\ current' = c /\ UNCHANGED job
  <2>1. pc'[c] = "exit"
    BY <1>0, <1>5 DEF Raise, Goto, VarTypes
  <2> QED BY <1>2, <1>5, <2>1, StateGoesOn
<1> QED BY <1>3, <1>4, <1>5 DEF Sending, Sent, Drained, SendRaises

LEMMA StateRoutes ==
  ASSUME TypeOK, NEW c \in Conns, HandlerState(c), Routing(c)
  PROVE  HandlerState(c)'
<1>0. VarTypes /\ HandlerType(c)
  BY DEF TypeOK, HandlerTypes
<1> USE DEF VarTypes
<1>1. CASE Answer(c) \/ RouteDirect(c) \/ RouteToAll(c) \/ AskLock(c)
  <2>1. pc[c] = "route" /\ current' = c /\ job[c].req.op # "cleanup"
    BY <1>1 DEF Answer, RouteDirect, RouteToAll, AskLock, At, HandlerState, LockLabels
  <2>2. CASE Answer(c)
    <3>1. CASE Goto(c, "exit") /\ UNCHANGED job
      <4>1. pc'[c] = "exit" /\ job'[c] = job[c]
        BY <1>0, <3>1 DEF Goto
      <4> QED BY <2>1, <4>1, StateGoesOn
    <3>2. CASE Reply(c, "recv") \/ Reply(c, "exit") \/ Reply(c, "flag")
      BY <1>0, <2>1, <3>2, StateReplies DEF Reply, Labels
    <3> QED BY <2>2, <3>1, <3>2 DEF Answer
  <2>3. CASE RouteDirect(c)
    <3>1. PICK d \in Conns : SendTo(c, d, "recv")
      BY <2>3 DEF RouteDirect, Reply, ResolveTarget, Registered
    <3> QED BY <1>0, <2>1, <3>1, StateReplies DEF Labels
  <2>4. CASE RouteToAll(c)
    <3>1. pc'[c] = "fanout" /\ job'[c].req = job[c].req
      BY <1>0, <2>4 DEF RouteToAll, Goto, Jobs
    <3> QED BY <2>1, <3>1, StateGoesOn
  <2>5. CASE AskLock(c)
    <3>1. pc'[c] = "acquire" /\ UNCHANGED <<job, hello>>
      BY <1>0, <2>5 DEF AskLock, Goto
    <3> QED BY <2>1, <2>5, <3>1 DEF AskLock, HandlerState, RunLabels, LockLabels, MayUse
  <2> QED BY <1>1, <2>2, <2>3, <2>4, <2>5
<1>2. CASE Subscribe(c) \/ Unsubscribe(c) \/ Publish(c) \/ ListChannels(c) \/ KickRefused(c) \/ Kick(c)
  <2>1. current' = c /\ job[c].req.op # "cleanup"
    BY <1>2 DEF Subscribe, Unsubscribe, Publish, ListChannels, KickRefused, Kick, InCrit, At
  <2>2. CASE Reply(c, "recv")
    BY <1>0, <2>1, <2>2, StateReplies DEF Reply, Labels
  <2>3. CASE Goto(c, "fanout") /\ job' = [job EXCEPT ![c].start = Subscribers(job[c].req.channel)]
    <3>1. pc'[c] = "fanout" /\ job'[c].req = job[c].req
      BY <1>0, <2>3 DEF Goto, Jobs
    <3> QED BY <2>1, <3>1, StateGoesOn
  <2>4. CASE Kick(c)
    <3>1. PICK d : job' = [job EXCEPT ![c].victim = d, ![c].peer = c, ![c].then = "kicked"]
      BY <2>4 DEF Kick
    <3>2. pc'[c] = "sending" /\ job'[c].req = job[c].req /\ job'[c].then = "kicked"
      BY <1>0, <2>4, <3>1 DEF Kick, Goto, Jobs
    <3> QED BY <2>1, <3>2, StateGoesOn
  <2> QED BY <1>2, <2>2, <2>3, <2>4 DEF Subscribe, Unsubscribe, Publish, ListChannels, KickRefused
<1>3. CASE SetShutdown(c) \/ KickDone(c) \/ FanOutDone(c)
  BY <1>0, <1>3, StateRests DEF SetShutdown, KickDone, FanOutDone, Goto
<1>4. CASE NotifyKicked(c) \/ CloseKicked(c) \/ FanOutBreaks(c)
  <2>1. pc[c] \in {"kicked", "close", "fanout"} /\ current = c
    BY <1>4 DEF NotifyKicked, CloseKicked, FanOutBreaks, At
  <2>2. job[c].req.op # "cleanup" /\ (pc[c] = "kicked" => job[c].victim \in Conns)
    BY <1>0, <2>1 DEF HandlerState, HandlerType, LockLabels
  <2>3. CASE NotifyKicked(c)
    <3>1. SendTo(c, job[c].victim, "close") /\ current' = c /\ job[c].victim \in Conns
      BY <2>1, <2>2, <2>3 DEF NotifyKicked, At
    <3> QED BY <1>0, <2>2, <3>1, StateReplies DEF Labels
  <2>4. CASE CloseKicked(c)
    <3>1. pc'[c] = "closing" /\ job' = job
      BY <1>0, <2>4 DEF CloseKicked, Goto
    <3> QED BY <2>2, <3>1, StateGoesOn
  <2>5. CASE FanOutBreaks(c)
    <3>1. pc'[c] = "exit" /\ job' = job /\ current' = c
      BY <1>0, <2>1, <2>5 DEF FanOutBreaks, Raise, Goto
    <3> QED BY <2>2, <3>1, StateGoesOn
  <2> QED BY <1>4, <2>3, <2>4, <2>5
<1>5. ASSUME NEW x \in Conns \cup Sids, FanOutNext(c, x) PROVE HandlerState(c)'
  <2>1. /\ pc'[c] = "sending" /\ current' = c /\ job[c].req.op # "cleanup"
        /\ UNCHANGED <<registry, channels, hello, sid>>
    BY <1>0, <1>5 DEF FanOutNext, At, Goto, HandlerState, LockLabels, busVars
  <2>2. /\ job'[c].req = job[c].req /\ job'[c].then = "fanout"
        /\ job'[c].seen = job[c].seen \cup {x} /\ job'[c].peer = Recipient(c, x)
    BY <1>0, <1>5 DEF FanOutNext, Jobs
  <2>3. Live(c)' = Live(c) /\ Recipient(c, x)' = Recipient(c, x)
    BY <2>1, <2>2 DEF Live, Recipient, Subscribers, Registered
  <2>4. x \in Live(c)
    BY <1>5 DEF FanOutNext
  <2> QED BY <2>1, <2>2, <2>3, <2>4 DEF HandlerState, RunLabels, LockLabels
<1> QED BY <1>1, <1>2, <1>3, <1>4, <1>5 DEF Routing

LEMMA StatesStep ==
  ASSUME TypeOK, HandlerStates, [Next]_vars
  PROVE  HandlerStates'
<1>0. VarTypes /\ \A c \in Conns : HandlerState(c) /\ HandlerType(c)
  BY DEF TypeOK, HandlerTypes, HandlerStates
<1>1. ASSUME UNCHANGED <<handlerVars, busVars, current>> PROVE HandlerStates'
  BY <1>1 DEF HandlerStates, HandlerState, MayUse, Live, Recipient, Subscribers, Registered, handlerVars, busVars
<1>2. CASE UNCHANGED vars \/ Signal \/ IdleTimerFires \/ Stop
  BY <1>1, <1>2 DEF vars, Signal, IdleTimerFires, Stop
<1>3. CASE ShutdownBegins \/ StopListening \/ \E c \in Conns : CloseNext(c)
  <2>1. UNCHANGED handlerVars /\ current \notin Conns
    BY <1>3, ConnsAssumption DEF ShutdownBegins, StopListening, CloseNext
  <2> QED BY <2>1, <1>0 DEF HandlerStates, HandlerState, MayUse, handlerVars, RunLabels
<1>4. ASSUME NEW c \in Conns, Network(c) PROVE HandlerStates'
  BY <1>1, <1>4 DEF Network, Lose, PeerCloses, Stall, Drain
<1>5. ASSUME NEW c \in Conns, Enter(c) \/ (\E r \in Requests : Receive(c, r)) \/ Handler(c)
      PROVE  HandlerStates'
  <2>1. HandlerState(c)'
    BY <1>0, <1>5, StateEnters, StateLocks, StateSends, StateRoutes DEF Handler
  <2>2. current \in {c, None}
    <3>1. CASE Enter(c) \/ (\E r \in Requests : Receive(c, r)) \/ EndOfFrames(c) \/ Exit(c) \/ Locking(c)
      BY <3>1 DEF Enter, Connect, HelloFails, HelloAccepted, Receive, EndOfFrames, Exit, Locking,
                  Acquire, Granted, RegisterRefused, Register, Cleanup, InCrit, At, Wakes
    <3>2. CASE Sending(c)
      BY <3>2 DEF Sending, Sent, SendDrains, SendTooLate, Drained, SendRaises, At, Wakes
    <3>3. CASE Routing(c)
      BY <3>3 DEF Routing, Answer, SetShutdown, AskLock, RouteDirect, RouteToAll, Subscribe, Unsubscribe,
                  Publish, ListChannels, KickRefused, Kick, NotifyKicked, CloseKicked, KickDone,
                  FanOutNext, FanOutDone, FanOutBreaks, InCrit, At, Wakes
    <3> QED BY <1>5, <3>1, <3>2, <3>3 DEF Handler
  <2>3. \A e \in Conns \ {c} : SameHandler(e)
    BY <1>0, <1>5, OthersSame
  <2> QED BY <2>1, <2>2, <2>3, StatesFrame
<1> QED BY <1>2, <1>3, <1>4, <1>5 DEF Next, Server

LEMMA InitStates == Init => HandlerStates
BY DEF Init, HandlerStates, HandlerState, RunLabels, LockLabels, NoJob
-----------------------------------------------------------------------------
(* A kick is carried through. *)

\* What a handler that is kicking somebody has got to.
KickState(c) ==
  /\ job[c].victim # None => pc[c] \in SendLabels \cup {"kicked", "close", "closing", "exit"}
  /\ (pc[c] \in SendLabels /\ job[c].victim # None) => job[c].then \in {"kicked", "close"}
  /\ (pc[c] \in SendLabels /\ job[c].then = "kicked") => job[c].peer = c

KickStates == \A c \in Conns : KickState(c)

\* A connection nobody made is idle; a kicked one still has its handler.
LinkStates == \A c \in Conns : (pc[c] = "off" => link[c] = "idle") /\ (c \in kicked => sid[c] # None)

StepOf(c) == Enter(c) \/ (\E r \in Requests : Receive(c, r)) \/ Handler(c)

LEMMA NextShape ==
  ASSUME [Next]_vars
  PROVE  UNCHANGED <<handlerVars, busVars, kicked>> \/ \E c \in Conns : StepOf(c)
<1>1. CASE UNCHANGED vars \/ Server \/ Signal
  BY <1>1 DEF vars, Server, Signal, IdleTimerFires, ShutdownBegins, CloseNext, StopListening, Stop
<1>2. ASSUME NEW c \in Conns, Network(c) PROVE UNCHANGED <<handlerVars, busVars, kicked>>
  BY <1>2 DEF Network, Lose, PeerCloses, Stall, Drain
<1> QED BY <1>1, <1>2 DEF Next, StepOf

LEMMA KickStatesFrame ==
  ASSUME KickStates, VarTypes, NEW c \in Conns, StepOf(c), KickState(c)'
  PROVE  KickStates'
<1>1. \A e \in Conns \ {c} : SameHandler(e)
  BY OthersSame DEF StepOf
<1> QED BY <1>1 DEF KickStates, KickState, SameHandler

\* Steps of a handler that is not kicking anybody.
LEMMA KickStateNone ==
  ASSUME NEW c \in Conns, job'[c].victim = None, pc'[c] \in SendLabels => job'[c].then # "kicked"
  PROVE  KickState(c)'
BY DEF KickState

LEMMA KickStateElsewhere ==
  ASSUME TypeOK, HandlerStates, NEW c \in Conns,
         Enter(c) \/ (\E r \in Requests : Receive(c, r)) \/ EndOfFrames(c) \/ Exit(c) \/ Locking(c)
  PROVE  KickState(c)'
<1>0. VarTypes /\ HandlerState(c)
  BY DEF TypeOK, HandlerStates
<1> USE DEF VarTypes
<1>1. CASE Connect(c) \/ HelloFails(c) \/ EndOfFrames(c)
  <2>1. job'[c] = NoJob /\ pc'[c] \in {"hello", "exit"}
    BY <1>0, <1>1 DEF Connect, HelloFails, EndOfFrames, Wakes, Goto, HandlerState
  <2> QED BY <2>1, KickStateNone DEF NoJob, SendLabels
<1>2. ASSUME NEW h \in Hellos, HelloAccepted(c, h) PROVE KickState(c)'
  <2>1. job'[c] = [NoJob EXCEPT !.req = [op |-> "register"]] /\ pc'[c] = "acquire"
    BY <1>0, <1>2 DEF HelloAccepted, Wakes, Goto, HandlerState
  <2>2. job'[c].victim = None
    BY <2>1 DEF NoJob
  <2> QED BY <2>1, <2>2, KickStateNone DEF SendLabels
<1>3. ASSUME NEW r \in Requests, Receive(c, r) PROVE KickState(c)'
  <2>1. job'[c] = [NoJob EXCEPT !.req = r] /\ pc'[c] = "route"
    BY <1>0, <1>3 DEF Receive, Goto
  <2>2. job'[c].victim = None
    BY <2>1 DEF NoJob
  <2> QED BY <2>1, <2>2, KickStateNone DEF SendLabels
<1>4. CASE Exit(c) \/ Cleanup(c)
  <2>1. pc'[c] \in {"done", "acquire"} /\ (job'[c] = NoJob \/ job'[c] = [NoJob EXCEPT !.req = [op |-> "cleanup"]])
    BY <1>0, <1>4 DEF Exit, Cleanup, Goto
  <2>2. job'[c].victim = None
    BY <2>1 DEF NoJob
  <2> QED BY <2>1, <2>2, KickStateNone DEF SendLabels
<1>5. CASE Acquire(c) \/ Granted(c)
  <2>1. job'[c] = job[c] /\ pc[c] \in LockLabels /\ pc'[c] \in {"crit", "queued"}
    BY <1>0, <1>5 DEF Acquire, Granted, At, Wakes, Goto, LockLabels
  <2> QED BY <1>0, <2>1, KickStateNone DEF SendLabels, HandlerState
<1>6. CASE RegisterRefused(c) \/ Register(c)
  <2>1. (Reply(c, "exit") \/ Reply(c, "recv")) /\ pc[c] \in LockLabels
    BY <1>6 DEF RegisterRefused, Register, InCrit, At, LockLabels
  <2>2. job'[c].victim = None /\ job'[c].then # "kicked"
    BY <1>0, <2>1, SendToJob DEF Reply, HandlerState, Labels
  <2> QED BY <2>2, KickStateNone
<1> QED BY <1>1, <1>2, <1>3, <1>4, <1>5, <1>6 DEF Enter, Locking

LEMMA KickStateSends ==
  ASSUME TypeOK, NEW c \in Conns, KickState(c), Sending(c)
  PROVE  KickState(c)'
<1>0. VarTypes /\ pc[c] \in SendLabels /\ HandlerType(c)
  BY DEF TypeOK, HandlerTypes, Sending, Sent, SendDrains, SendTooLate, Drained, SendRaises, At, Wakes, SendLabels
<1>1. CASE SendDrains(c) \/ SendTooLate(c)
  <2>1. pc'[c] \in {"draining", "ending"} /\ job' = job
    BY <1>0, <1>1 DEF SendDrains, SendTooLate, Goto, VarTypes
  <2> QED BY <1>0, <2>1 DEF KickState, SendLabels
<1>2. CASE Resume(c)
  <2>1. pc'[c] = job[c].then /\ job'[c] \in {job[c], NoJob}
    BY <1>0, <1>2 DEF Resume, Goto, VarTypes
  <2>2. job[c].then \in {"recv", "exit", "fanout", "flag", "kicked", "close"}
    BY <1>0 DEF HandlerType
  <2>3. NoJob.victim = None
    BY DEF NoJob
  <2> QED BY <1>0, <2>1, <2>2, <2>3 DEF KickState, SendLabels
<1>3. CASE Raise(c) /\ UNCHANGED job
  <2>1. pc'[c] = "exit" /\ job' = job
    BY <1>0, <1>3 DEF Raise, Goto, VarTypes
  <2> QED BY <2>1 DEF KickState, SendLabels
<1> QED BY <1>1, <1>2, <1>3 DEF Sending, Sent, Drained, SendRaises

LEMMA KickStateRoutes ==
  ASSUME TypeOK, HandlerStates, NEW c \in Conns, KickState(c), Routing(c)
  PROVE  KickState(c)'
<1>0. VarTypes /\ HandlerState(c) /\ HandlerType(c)
  BY DEF TypeOK, HandlerTypes, HandlerStates
<1> USE DEF VarTypes
<1>1. ASSUME NEW d \in Conns, NEW l \in Labels \ {"kicked"}, SendTo(c, d, l), pc[c] \in {"route", "crit"}
      PROVE  KickState(c)'
  <2>1. job'[c].victim = None /\ job'[c].then # "kicked"
    BY <1>0, <1>1, SendToJob DEF HandlerState, LockLabels
  <2> QED BY <2>1, KickStateNone
<1>2. ASSUME UNCHANGED job, NEW l \in {"exit", "acquire", "closing"}, Goto(c, l),
             pc[c] \in {"route", "fanout"} \/ (pc[c] = "close" /\ l = "closing")
      PROVE  KickState(c)'
  <2>1. pc'[c] = l /\ job'[c] = job[c] /\ (pc[c] # "close" => job[c].victim = None)
    BY <1>0, <1>2 DEF Goto, KickState, SendLabels
  <2> QED BY <1>2, <2>1 DEF KickState, SendLabels
<1>3. CASE Answer(c) \/ RouteDirect(c) \/ AskLock(c)
  <2>1. CASE Reply(c, "recv") \/ Reply(c, "exit") \/ Reply(c, "flag")
    BY <1>1, <1>3, <2>1 DEF Reply, Labels, Answer, RouteDirect, AskLock, At
  <2>2. CASE \E d \in Registered : SendTo(c, d, "recv")
    BY <1>1, <1>3, <2>2 DEF Registered, Labels, Answer, RouteDirect, AskLock, At
  <2>3. CASE UNCHANGED job /\ (Goto(c, "exit") \/ Goto(c, "acquire"))
    BY <1>2, <1>3, <2>3 DEF Answer, RouteDirect, AskLock, At
  <2> QED BY <1>3, <2>1, <2>2, <2>3 DEF Answer, RouteDirect, AskLock, ResolveTarget
<1>4. CASE Subscribe(c) \/ Unsubscribe(c) \/ Publish(c) \/ ListChannels(c) \/ KickRefused(c) \/ RouteToAll(c)
  <2>1. CASE Reply(c, "recv") /\ pc[c] = "crit"
    BY <1>1, <2>1 DEF Reply, Labels
  <2>2. ASSUME NEW S, Goto(c, "fanout"), job' = [job EXCEPT ![c].start = S], pc[c] \in {"route", "crit"}
        PROVE  KickState(c)'
    <3>1. job'[c].victim = None /\ pc'[c] = "fanout"
      BY <1>0, <2>2 DEF Goto, Jobs, HandlerState, LockLabels
    <3> QED BY <3>1, KickStateNone DEF SendLabels
  <2> QED BY <1>4, <2>1, <2>2 DEF Subscribe, Unsubscribe, Publish, ListChannels, KickRefused, RouteToAll, InCrit, At
<1>5. CASE Kick(c)
  <2>1. PICK d : job' = [job EXCEPT ![c].victim = d, ![c].peer = c, ![c].then = "kicked"]
    BY <1>5 DEF Kick
  <2>2. pc'[c] = "sending" /\ job'[c].peer = c /\ job'[c].then = "kicked"
    BY <1>0, <1>5, <2>1 DEF Kick, Goto, Jobs
  <2> QED BY <2>2 DEF KickState, SendLabels
<1>6. CASE NotifyKicked(c)
  <2>1. SendTo(c, job[c].victim, "close") /\ job[c].victim \in Conns
    BY <1>0, <1>6 DEF NotifyKicked, At, HandlerType
  <2>2. pc'[c] = "sending" /\ job'[c].then = "close"
    BY <1>0, <2>1, SendToJob DEF Labels
  <2> QED BY <2>2 DEF KickState, SendLabels
<1>7. CASE CloseKicked(c) \/ FanOutBreaks(c)
  BY <1>2, <1>7 DEF CloseKicked, FanOutBreaks, Raise, At
<1>8. CASE SetShutdown(c) \/ KickDone(c) \/ FanOutDone(c)
  <2>1. job'[c] = NoJob /\ pc'[c] = "recv"
    BY <1>0, <1>8 DEF SetShutdown, KickDone, FanOutDone, Goto
  <2> QED BY <2>1, KickStateNone DEF NoJob, SendLabels
<1>9. ASSUME NEW x \in Conns \cup Sids, FanOutNext(c, x) PROVE KickState(c)'
  <2>1. job'[c].victim = job[c].victim /\ job'[c].then = "fanout" /\ pc[c] = "fanout"
    BY <1>0, <1>9 DEF FanOutNext, At, Jobs
  <2> QED BY <2>1, KickStateNone DEF KickState, SendLabels
<1> QED BY <1>3, <1>4, <1>5, <1>6, <1>7, <1>8, <1>9 DEF Routing

LEMMA KickStatesStep ==
  ASSUME TypeOK, HandlerStates, KickStates, [Next]_vars
  PROVE  KickStates'
<1>1. CASE UNCHANGED handlerVars
  BY <1>1 DEF KickStates, KickState, handlerVars
<1>2. ASSUME NEW c \in Conns, StepOf(c) PROVE KickStates'
  <2>1. KickState(c)'
    BY <1>2, KickStateElsewhere, KickStateSends, KickStateRoutes DEF StepOf, Handler, KickStates
  <2> QED BY <1>2, <2>1, KickStatesFrame DEF TypeOK
<1> QED BY <1>1, <1>2, NextShape

\* How a connection may change.
LinkMove(d) ==
  \/ link'[d] \in {link[d], Hangup(d)}
  \/ link[d] \in {"open", "closing"} /\ link'[d] = "lost"
  \/ pc[d] = "off" /\ pc'[d] = "hello"

LEMMA LinkShape ==
  ASSUME VarTypes, [Next]_vars
  PROVE  \A d \in Conns : LinkMove(d)
<1> USE DEF VarTypes
<1>1. ASSUME UNCHANGED link PROVE \A d \in Conns : LinkMove(d)
  BY <1>1 DEF LinkMove
<1>2. ASSUME NEW c \in Conns, link' = [link EXCEPT ![c] = Hangup(c)] PROVE \A d \in Conns : LinkMove(d)
  BY <1>2 DEF LinkMove
<1> HIDE DEF VarTypes
<1>3. CASE UNCHANGED vars \/ Signal \/ Server
  <2>1. CASE StopListening
    BY <2>1 DEF StopListening, LinkMove
  <2> QED BY <1>1, <1>2, <1>3, <2>1 DEF vars, netVars, Signal, Server, IdleTimerFires, ShutdownBegins, Stop, CloseNext
<1>4. ASSUME NEW c \in Conns, Network(c) PROVE \A d \in Conns : LinkMove(d)
  <2>1. CASE Lose(c)
    BY <2>1 DEF Lose, LinkMove, VarTypes
  <2>2. CASE PeerCloses(c)
    BY <1>2, <2>2 DEF PeerCloses, Hangup
  <2> QED BY <1>1, <1>4, <2>1, <2>2 DEF Network, Stall, Drain
<1>5. ASSUME NEW c \in Conns, Enter(c) \/ (\E r \in Requests : Receive(c, r))
      PROVE  \A d \in Conns : LinkMove(d)
  <2>1. CASE Connect(c)
    BY <2>1 DEF Connect, Goto, LinkMove, VarTypes
  <2> QED BY <1>1, <1>5, <2>1 DEF Enter, HelloFails, HelloAccepted, Receive, netVars
<1>6. ASSUME NEW c \in Conns, Locking(c) \/ Sending(c) \/ EndOfFrames(c) \/ Exit(c)
      PROVE  \A d \in Conns : LinkMove(d)
  BY <1>1, <1>2, <1>6 DEF Locking, Acquire, Granted, RegisterRefused, Register, Cleanup, Sending, Sent,
     SendDrains, SendTooLate, Drained, SendRaises, EndOfFrames, Exit, netVars
<1>7. ASSUME NEW c \in Conns, Routing(c) PROVE \A d \in Conns : LinkMove(d)
  <2>1. CASE CloseKicked(c)
    BY <2>1 DEF CloseKicked, LinkMove, VarTypes
  <2> QED BY <1>1, <1>7, <2>1 DEF Routing, Answer, SetShutdown, AskLock, RouteDirect, RouteToAll, Subscribe,
     Unsubscribe, Publish, ListChannels, KickRefused, Kick, NotifyKicked, KickDone, FanOutNext, FanOutDone,
     FanOutBreaks, netVars
<1> QED BY <1>3, <1>4, <1>5, <1>6, <1>7 DEF Next, Handler

LEMMA KickedShape ==
  ASSUME TypeOK, RegisteredSessionHasHandler, [Next]_vars
  PROVE  \/ UNCHANGED <<sid, kicked>>
         \/ \E c \in Conns :
              \/ sid' = [sid EXCEPT ![c] = None] /\ kicked' = kicked \ {c}
              \/ UNCHANGED kicked /\ \E s \in Sids : sid' = [sid EXCEPT ![c] = s]
              \/ Kick(c) /\ UNCHANGED sid
<1>1. CASE UNCHANGED <<handlerVars, busVars, kicked>>
  BY <1>1 DEF handlerVars
<1>2. ASSUME NEW c \in Conns, Cleanup(c) PROVE sid' = [sid EXCEPT ![c] = None] /\ kicked' = kicked \ {c}
  BY <1>2 DEF Cleanup
<1>3. ASSUME NEW c \in Conns, RegisterRefused(c) \/ Register(c)
      PROVE  UNCHANGED kicked /\ (UNCHANGED sid \/ \E s \in Sids : sid' = [sid EXCEPT ![c] = s])
  <2>1. hello[c].sid \in Sids
    BY <1>3, IdentityFields DEF RegisterRefused, Register, InCrit, TypeOK, HandlerTypes, HandlerType
  <2> QED BY <1>3, <2>1 DEF RegisterRefused, Register
<1>4. ASSUME NEW c \in Conns, Enter(c) \/ (\E r \in Requests : Receive(c, r)) \/ EndOfFrames(c) \/ Exit(c)
      PROVE  UNCHANGED <<sid, kicked>>
  BY <1>4 DEF Enter, Connect, HelloFails, HelloAccepted, Receive, EndOfFrames, Exit
<1>5. ASSUME NEW c \in Conns, Acquire(c) \/ Granted(c) \/ Sending(c) PROVE UNCHANGED <<sid, kicked>>
  BY <1>5 DEF Acquire, Granted, Sending, Sent, SendDrains, SendTooLate, Drained, SendRaises
<1>6. ASSUME NEW c \in Conns, Routing(c) PROVE UNCHANGED sid /\ (UNCHANGED kicked \/ Kick(c))
  BY <1>6 DEF Routing, Answer, SetShutdown, AskLock, RouteDirect, RouteToAll, Subscribe,
     Unsubscribe, Publish, ListChannels, KickRefused, Kick, NotifyKicked, CloseKicked, KickDone, FanOutNext,
     FanOutDone, FanOutBreaks
<1>7. ASSUME NEW c \in Conns, StepOf(c)
      PROVE  \/ UNCHANGED <<sid, kicked>>
             \/ sid' = [sid EXCEPT ![c] = None] /\ kicked' = kicked \ {c}
             \/ UNCHANGED kicked /\ \E s \in Sids : sid' = [sid EXCEPT ![c] = s]
             \/ Kick(c) /\ UNCHANGED sid
  BY <1>2, <1>3, <1>4, <1>5, <1>6, <1>7 DEF StepOf, Handler, Locking
<1> QED BY <1>1, <1>7, NextShape

\* A kick is a control session's, of an agent that is registered.
LEMMA KickShape ==
  ASSUME TypeOK, RegisteredSessionHasHandler, HandlerStates, NEW c \in Conns, Kick(c)
  PROVE  \E d \in Registered :
           /\ hello[c].role = "control" /\ hello[d].role = "agent" /\ d \in Conns \ {c}
           /\ sid[d] # None /\ kicked' = kicked \cup {d}
           /\ Unregister(hello[d].sid) /\ ForgetSubscriptions(hello[d].sid)
           /\ pc'[c] = "sending" /\ job'[c].victim = d /\ job'[c].then = "kicked"
<1>1. VarTypes /\ HandlerState(c)
  BY DEF TypeOK, HandlerStates
<1>2. PICK d \in Registered :
        /\ hello[d].role = "agent" /\ kicked' = kicked \cup {d}
        /\ Unregister(hello[d].sid) /\ ForgetSubscriptions(hello[d].sid)
        /\ job' = [job EXCEPT ![c].victim = d, ![c].peer = c, ![c].then = "kicked"]
  BY DEF Kick, KickTargets
<1>3. hello[c].role = "control"
  BY <1>1 DEF Kick, InCrit, At, HandlerState, LockLabels, MayUse, ControlOps
<1>4. d \in Conns /\ sid[d] # None
  BY <1>2, RegisteredIdentity, SidsAssumption DEF Registered
<1>5. pc'[c] = "sending" /\ job'[c].victim = d /\ job'[c].then = "kicked"
  BY <1>1, <1>2 DEF Kick, Goto, VarTypes, Jobs
<1> QED BY <1>2, <1>3, <1>4, <1>5

LEMMA NeverOffAgain ==
  ASSUME TypeOK, NEW d \in Conns, [Next]_vars, pc'[d] \in {"off", "hello"}
  PROVE  pc[d] \in {"off", "hello"} /\ (pc'[d] = "off" => pc[d] = "off")
<1>0. VarTypes
  BY DEF TypeOK
<1>1. CASE SameHandler(d)
  BY <1>1 DEF SameHandler
<1>2. CASE Connect(d)
  BY <1>0, <1>2 DEF Connect, Goto, VarTypes
<1>3. ASSUME NEW l \in Labels \ {"off", "hello"}, Goto(d, l) PROVE FALSE
  BY <1>0, <1>3 DEF Goto, VarTypes
<1>4. ASSUME StepOf(d) PROVE Connect(d) \/ \E l \in Labels \ {"off", "hello"} : Goto(d, l)
  <2>1. CASE Enter(d) \/ (\E r \in Requests : Receive(d, r)) \/ EndOfFrames(d) \/ Exit(d) \/ Locking(d)
    BY <2>1 DEF Enter, HelloFails, HelloAccepted, Receive, EndOfFrames, Exit, Locking, Acquire,
       Granted, RegisterRefused, Register, Cleanup, Reply, SendTo, Labels
  <2>2. CASE Sending(d)
    <3>1. HandlerType(d) /\ pc[d] \in SendLabels
      BY <2>2 DEF TypeOK, HandlerTypes, Sending, Sent, SendDrains, SendTooLate, Drained, SendRaises, At,
         Wakes, SendLabels
    <3>2. job[d].then \in Labels \ {"off", "hello"}
      BY <3>1 DEF HandlerType, Labels
    <3> QED BY <2>2, <3>2 DEF Sending, Sent, SendDrains, SendTooLate, Drained, SendRaises, Resume, Raise, Labels
  <2>3. CASE Routing(d)
    BY <2>3 DEF Routing, Answer, SetShutdown, AskLock, RouteDirect, RouteToAll, Subscribe, Unsubscribe,
       Publish, ListChannels, KickRefused, Kick, NotifyKicked, CloseKicked, KickDone, FanOutNext, FanOutDone,
       FanOutBreaks, Raise, Reply, SendTo, Labels
  <2> QED BY <1>4, <2>1, <2>2, <2>3 DEF StepOf, Handler
<1>5. ASSUME NEW c \in Conns \ {d}, StepOf(c) PROVE SameHandler(d)
  BY <1>0, <1>5, OthersSame DEF StepOf
<1>6. CASE UNCHANGED handlerVars
  BY <1>1, <1>6 DEF SameHandler, handlerVars
<1> QED BY <1>1, <1>2, <1>3, <1>4, <1>5, <1>6, NextShape

\* An identity is given once, and taken back at the end.
LEMMA IdentityKept ==
  ASSUME TypeOK, NEW d \in Conns, [Next]_vars, pc[d] \notin {"off", "hello"}
  PROVE  hello'[d] \in {hello[d], None}
<1>1. CASE UNCHANGED hello
  BY <1>1, SMTT(30)
<1>2. ASSUME NEW c \in Conns, BusStep(c) PROVE hello'[d] \in {hello[d], None}
  BY <1>2 DEF BusStep, HelloAccepted, Wakes, Exit, RegisterRefused, Register, Cleanup, Subscribe, Unsubscribe, Kick,
              TypeOK, VarTypes
<1> QED BY <1>1, <1>2, StepShape DEF busState

LEMMA LinkStatesStep ==
  ASSUME TypeOK, RegisteredSessionHasHandler, HandlerStates, LinkStates, [Next]_vars
  PROVE  LinkStates'
<1>0. VarTypes /\ \A d \in Conns : LinkMove(d)
  BY LinkShape DEF TypeOK
<1>1. ASSUME NEW d \in Conns, pc'[d] = "off" PROVE link'[d] = "idle"
  <2>1. pc[d] = "off"
    BY <1>1, NeverOffAgain
  <2> QED BY <1>0, <1>1, <2>1 DEF LinkStates, LinkMove, Hangup
<1>2. ASSUME NEW d \in kicked' PROVE sid'[d] # None
  <2>1. ASSUME NEW c \in Conns, Kick(c), UNCHANGED sid PROVE sid'[d] # None
    BY <1>2, <2>1, KickShape DEF LinkStates, TypeOK, VarTypes
  <2> QED BY <1>0, <1>2, <2>1, KickedShape, SidsAssumption DEF LinkStates, VarTypes
<1> QED BY <1>1, <1>2 DEF LinkStates

\* KickedIsClosed with what its step needs: the kicker is still at it.
Carries(c, d) == job[c].victim = d /\ pc[c] \in SendLabels \cup {"kicked", "close"}

LEMMA MayHaveKickedStep ==
  ASSUME TypeOK, NEW c \in Conns, MayHaveKicked(c), [Next]_vars
  PROVE  MayHaveKicked(c)'
BY NeverOffAgain, IdentityKept DEF MayHaveKicked

LEMMA KickCarried ==
  ASSUME TypeOK, HandlerStates, KickStates, NEW c \in Conns, NEW d \in Conns \ {c}, Carries(c, d), [Next]_vars
  PROVE  Carries(c, d)' \/ link'[c] = "lost" \/ link'[d] # "open"
<1>0. VarTypes /\ HandlerType(c) /\ HandlerState(c) /\ KickState(c) /\ pc[c] \in SendLabels \cup {"kicked", "close"}
  BY DEF TypeOK, HandlerTypes, HandlerStates, KickStates, Carries
<1>1. CASE SameHandler(c)
  BY <1>1 DEF SameHandler, Carries
<1>2. CASE Sending(c)
  <2>1. pc[c] \in SendLabels /\ job[c].then \in {"kicked", "close"}
    BY <1>0, <1>2, ConnsAssumption DEF KickState, Carries, Sending, Sent, SendDrains, SendTooLate, Drained, SendRaises, At,
       Wakes, SendLabels
  <2>2. CASE SendDrains(c) \/ SendTooLate(c)
    <3>1. pc'[c] \in SendLabels /\ job' = job
      BY <1>0, <2>2 DEF SendDrains, SendTooLate, Goto, VarTypes, SendLabels
    <3> QED BY <3>1 DEF Carries
  <2>3. CASE Resume(c)
    <3>1. pc'[c] \in {"kicked", "close"} /\ job' = job
      BY <1>0, <2>1, <2>3 DEF Resume, Goto, VarTypes
    <3> QED BY <3>1 DEF Carries
  <2>4. CASE SendRaises(c) /\ ~Swallows(c)
    <3>1. link[job[c].peer] = "lost" /\ UNCHANGED link /\ job[c].then = "kicked"
      BY <2>1, <2>4 DEF SendRaises, Swallows, netVars
    <3> QED BY <1>0, <2>1, <3>1 DEF KickState
  <2> QED BY <1>2, <2>2, <2>3, <2>4 DEF Sending, Sent, Drained, SendRaises
<1>3. CASE Routing(c)
  <2>1. NotifyKicked(c) \/ CloseKicked(c)
    BY <1>0, <1>3 DEF Routing, Answer, SetShutdown, AskLock, RouteDirect, RouteToAll, Subscribe,
       Unsubscribe, Publish, ListChannels, KickRefused, Kick, KickDone, FanOutNext, FanOutDone,
       FanOutBreaks, InCrit, At, Wakes, SendLabels
  <2>2. CASE NotifyKicked(c)
    <3>1. SendTo(c, d, "close")
      BY <2>2 DEF NotifyKicked, Carries
    <3>2. pc'[c] = "sending" /\ job'[c].victim = job[c].victim
      BY <1>0, <3>1, SendToJob DEF Labels
    <3> QED BY <3>2 DEF Carries, SendLabels
  <2>3. CASE CloseKicked(c)
    <3>1. link' = [link EXCEPT ![d] = Hangup(d)]
      BY <2>3 DEF CloseKicked, Carries
    <3> QED BY <1>0, <3>1 DEF Hangup, VarTypes
  <2> QED BY <2>1, <2>2, <2>3
<1>4. ASSUME Enter(c) \/ (\E r \in Requests : Receive(c, r)) \/ EndOfFrames(c) \/ Exit(c) \/ Locking(c)
      PROVE  FALSE
  BY <1>0, <1>4 DEF Enter, Connect, HelloFails, HelloAccepted, Receive, EndOfFrames, Exit, Locking, Acquire,
     Granted, RegisterRefused, Register, Cleanup, InCrit, At, Wakes, SendLabels
<1>5. CASE UNCHANGED handlerVars
  BY <1>1, <1>5 DEF SameHandler, handlerVars
<1>6. ASSUME NEW e \in Conns, StepOf(e) PROVE e = c \/ SameHandler(c)
  BY <1>0, <1>6, OthersSame DEF StepOf
<1> QED BY <1>1, <1>2, <1>3, <1>4, <1>5, <1>6, NextShape DEF StepOf, Handler

LEMMA KickedIsClosedStep ==
  ASSUME TypeOK, RegisteredSessionHasHandler, HandlerStates, KickStates, LinkStates, KickedIsClosed, [Next]_vars
  PROVE  KickedIsClosed'
<1> SUFFICES ASSUME NEW d \in kicked', link'[d] = "open"
             PROVE  \E c \in Conns \ {d} : MayHaveKicked(c)' /\ (Carries(c, d)' \/ link'[c] = "lost")
  BY DEF KickedIsClosed, Carries
<1>0. VarTypes /\ \A e \in Conns : LinkMove(e)
  BY LinkShape DEF TypeOK
<1>1. CASE d \in kicked
  <2>1. d \in Conns /\ link[d] = "open"
    <3>1. pc[d] # "off" /\ d \in Conns
      BY <1>0, <1>1 DEF LinkStates, TypeOK, HandlerTypes, HandlerType, VarTypes
    <3> QED BY <1>0, <3>1 DEF LinkMove, Hangup
  <2>2. PICK c \in Conns \ {d} : MayHaveKicked(c) /\ (Carries(c, d) \/ link[c] = "lost")
    BY <1>1, <2>1 DEF KickedIsClosed, Carries
  <2>3. link[c] = "lost" => link'[c] = "lost"
    BY <1>0 DEF LinkMove, LinkStates, Hangup
  <2> QED BY <2>1, <2>2, <2>3, KickCarried, MayHaveKickedStep
<1>2. CASE d \notin kicked
  <2>1. PICK c \in Conns : Kick(c)
    BY <1>2, KickedShape
  <2>2. PICK e \in Registered :
          /\ e \in Conns \ {c} /\ kicked' = kicked \cup {e} /\ hello[c].role = "control"
          /\ pc'[c] = "sending" /\ job'[c].victim = e
    BY <2>1, KickShape
  <2>3. e = d
    BY <1>2, <2>2
  <2>4. MayHaveKicked(c)'
    BY <2>1, <2>2 DEF Kick, MayHaveKicked
  <2> QED BY <2>2, <2>3, <2>4 DEF Carries, SendLabels
<1> QED BY <1>1, <1>2

\* What the two theorems rest on, besides the invariants proved before.
PromiseInv ==
  /\ SafeInv /\ LockDiscipline /\ PublishStates
  /\ HandlerStates /\ KickStates /\ LinkStates

LEMMA PromiseInvStep == PromiseInv /\ [Next]_vars => PromiseInv'
<1> SUFFICES ASSUME PromiseInv, [Next]_vars PROVE PromiseInv'
  OBVIOUS
<1>1. TypeOK /\ RegisteredSessionHasHandler
  BY DEF PromiseInv, SafeInv
<1> QED BY <1>1, SafeStep, LockDisciplineStep, PublishStep, StatesStep, KickStatesStep, LinkStatesStep DEF PromiseInv

LEMMA InitPromise == Init => PromiseInv /\ KickedIsClosed
<1> SUFFICES ASSUME Init PROVE PromiseInv /\ KickedIsClosed
  OBVIOUS
<1>1. LockDiscipline
  <2>1. DOMAIN waiters = {}
    BY DEF Init
  <2> QED BY <2>1, ConnsAssumption DEF Init, LockDiscipline, Waiting
<1>2. PublishStates /\ KickStates /\ LinkStates /\ KickedIsClosed
  BY DEF Init, PublishStates, PublishState, KickStates, KickState, LinkStates, KickedIsClosed, NoJob, SendLabels
<1> QED BY <1>1, <1>2, InitSafe, InitStates DEF PromiseInv

LEMMA PromiseInvariant == Spec => []PromiseInv
BY InitPromise, PromiseInvStep, PTL DEF Spec

\* A kicked connection is hung up, however slow or broken its peer is, unless
\* a control connection, which may have been the kicker's, was lost first.
THEOREM KickCompletes == Spec => []KickedIsClosed
<1>1. PromiseInv /\ KickedIsClosed /\ [Next]_vars => PromiseInv' /\ KickedIsClosed'
  BY PromiseInvStep, KickedIsClosedStep DEF PromiseInv, SafeInv
<1> QED BY <1>1, InitPromise, PTL DEF Spec
-----------------------------------------------------------------------------
(* The refinement: what a step of one handler does to the abstract state. *)

stageMap == [c \in Conns |-> StageOf(c)]
postMap == [c \in Conns |-> PostOf(c)]
subsMap == [s \in Sids |-> Subs(s)]

EmptyPost == [channel |-> None, to |-> {}, got |-> {}]

\* Only the stage and the post of handler c may have changed.
OnlyAt(c) ==
  /\ stageMap' = [stageMap EXCEPT ![c] = StageOf(c)']
  /\ postMap' = [postMap EXCEPT ![c] = PostOf(c)']

Quiet == hello' = hello /\ Registered' = Registered /\ subsMap' = subsMap

LEMMA PublishOwnsLock ==
  ASSUME PublishStates, NEW c \in Conns, Posting(c), job[c].req.op = "publish"
  PROVE  owner = c /\ Subscribers(job[c].req.channel) = job[c].start /\ job[c].start # {}
BY DEF PublishStates, PublishState, Posting, SendLabels

LEMMA OthersMapped ==
  ASSUME VarTypes, PublishStates, NEW c \in Conns, StepOf(c), UNCHANGED registry \/ owner = c
  PROVE  OnlyAt(c)
<1>1. ASSUME NEW e \in Conns \ {c} PROVE StageOf(e)' = StageOf(e) /\ PostOf(e)' = PostOf(e)
  <2>1. SameHandler(e)
    BY OthersSame DEF StepOf
  <2>2. UNCHANGED registry \/ ~(Posting(e) /\ job[e].req.op = "publish")
    BY PublishOwnsLock
  <2>3. StageOf(e)' = StageOf(e) /\ Posting(e)' = Posting(e)
    BY <2>1 DEF StageOf, Posting, SameHandler
  <2>4. PostOf(e)' = PostOf(e)
    BY <2>1, <2>2, <2>3 DEF PostOf, SameHandler, Holders, Unsent
  <2> QED BY <2>3, <2>4
<1> QED BY <1>1 DEF OnlyAt, stageMap, postMap

LEMMA QuietBus ==
  ASSUME UNCHANGED busState
  PROVE  Quiet
BY DEF busState, Quiet, Registered, subsMap, Subs

LEMMA ToStutter ==
  ASSUME NEW c \in Conns, Quiet, OnlyAt(c), StageOf(c)' = StageOf(c), PostOf(c)' = PostOf(c)
  PROVE  UNCHANGED Promise!promiseVars
<1>1. stageMap' = stageMap /\ postMap' = postMap
  BY DEF OnlyAt, stageMap, postMap
<1> QED BY <1>1 DEF Promise!promiseVars, Quiet, stageMap, postMap, subsMap

LEMMA ToLeave ==
  ASSUME NEW c \in Conns, Quiet, OnlyAt(c), StageOf(c) \in {"open", "posting"}, StageOf(c)' = "over",
         PostOf(c)' = EmptyPost
  PROVE  Promise!Leave(c)
<1>1. stageMap[c] = StageOf(c)
  BY DEF stageMap
<1> QED BY <1>1 DEF Promise!Leave, Promise!Move, Promise!NoPost, OnlyAt, Quiet, stageMap, postMap, subsMap, EmptyPost

(* Whom a message is for. *)

LEMMA HolderIdentity ==
  ASSUME TypeOK, RegisteredSessionHasHandler, NEW s \in Sids, registry[s] # None
  PROVE  registry[s] \in Registered /\ registry[s] \in Conns /\ sid[registry[s]] = s /\ hello[registry[s]].sid = s
<1>1. registry[s] \in Conns /\ sid[registry[s]] = s
  BY DEF TypeOK, VarTypes, RegisteredSessionHasHandler
<1> QED BY <1>1, SidsAssumption DEF TypeOK, HandlerTypes, HandlerType, Registered

\* The readers of a channel are the holders of its subscribed session ids.
LEMMA ChannelReaders ==
  ASSUME TypeOK, RegisteredSessionHasHandler, ChannelsMirrorSubscriptions,
         NEW c \in Conns, sid[c] \in Sids, NEW ch \in Channels
  PROVE  Promise!Readers(c, ch) = Holders(Subscribers(ch) \ {sid[c]})
<1>0. ch # None /\ hello[c].sid = sid[c] /\ Subscribers(ch) \subseteq Sids
  BY ChannelsAssumption, SidsAssumption DEF TypeOK, HandlerTypes, HandlerType, VarTypes, Subscribers
<1>1. ASSUME NEW d \in Promise!Readers(c, ch) PROVE d \in Holders(Subscribers(ch) \ {sid[c]})
  <2>1. d \in Registered /\ hello[d].sid # sid[c] /\ ch \in subsMap[hello[d].sid]
    BY <1>0, <1>1 DEF Promise!Readers, subsMap
  <2>2. d \in Conns /\ hello[d].sid \in Sids /\ registry[hello[d].sid] = d
    BY <2>1, RegisteredIdentity
  <2>3. hello[d].sid \in Subscribers(ch) \ {sid[c]}
    BY <2>1, <2>2 DEF subsMap, ChannelsMirrorSubscriptions
  <2> QED BY <2>2, <2>3, ConnsAssumption DEF Holders
<1>2. ASSUME NEW d \in Holders(Subscribers(ch) \ {sid[c]}) PROVE d \in Promise!Readers(c, ch)
  <2>1. PICK s \in Subscribers(ch) \ {sid[c]} : d = registry[s] /\ d # None
    BY <1>2, ConnsAssumption DEF Holders
  <2>2. s \in Sids /\ d \in Registered /\ hello[d].sid = s
    BY <1>0, <2>1, HolderIdentity
  <2>3. ch \in subsMap[s]
    BY <2>1, <2>2 DEF subsMap, ChannelsMirrorSubscriptions
  <2> QED BY <1>0, <2>1, <2>2, <2>3 DEF Promise!Readers, subsMap
<1> QED BY <1>1, <1>2

LEMMA EverybodyReads ==
  ASSUME TypeOK, NEW c \in Conns, sid[c] \in Sids
  PROVE  Promise!Readers(c, None) = {d \in Registered : hello[d].sid # sid[c] /\ hello[d].role = "agent"}
<1>1. hello[c].sid = sid[c]
  BY SidsAssumption DEF TypeOK, HandlerTypes, HandlerType
<1> QED BY <1>1 DEF Promise!Readers

\* Everything in one place about a handler in a loop.
LEMMA PostingState ==
  ASSUME PromiseInv, NEW c \in Conns, Posting(c)
  PROVE  /\ StageOf(c) = "posting" /\ stageMap[c] = "posting" /\ sid[c] \in Sids
         /\ job[c].req.op = "publish" =>
              /\ job[c].req.channel \in Channels /\ job[c].start = Subscribers(job[c].req.channel)
              /\ Promise!Readers(c, job[c].req.channel) = Holders(job[c].start \ {sid[c]})
<1>0. TypeOK /\ RegisteredSessionHasHandler /\ ChannelsMirrorSubscriptions /\ PublishStates /\ HandlerState(c) /\ HandlerType(c)
  BY DEF PromiseInv, SafeInv, TypeOK, HandlerTypes, HandlerStates
<1>1. sid[c] \in Sids
  BY <1>0 DEF Posting, HandlerType
<1>2. job[c].req.op # "cleanup"
  BY <1>0 DEF Posting, HandlerState, LockLabels, SendLabels
<1>3. StageOf(c) = "posting"
  BY <1>2 DEF StageOf, Posting, SendLabels
<1>4. ASSUME job[c].req.op = "publish"
      PROVE  job[c].req.channel \in Channels /\ job[c].start = Subscribers(job[c].req.channel)
  BY <1>0, <1>4, PublishOwnsLock, RequestFields DEF TypeOK, VarTypes, Jobs
<1> QED BY <1>0, <1>1, <1>3, <1>4, ChannelReaders DEF stageMap

\* The recipient a loop has chosen is one the message is for.
LEMMA PeerReads ==
  ASSUME PromiseInv, NEW c \in Conns, pc[c] = "sending", job[c].then = "fanout"
  PROVE  /\ job[c].peer \in Conns
         /\ job[c].peer \in Promise!Readers(c, PostOf(c).channel) \ PostOf(c).got
         /\ job[c].req.op = "publish" => job[c].peer \in Holders(job[c].seen)
         /\ job[c].req.op # "publish" => job[c].peer \in job[c].seen
<1>0. TypeOK /\ HandlerState(c) /\ Posting(c) /\ RegisteredSessionHasHandler
  BY DEF PromiseInv, SafeInv, HandlerStates, Posting, SendLabels
<1>1. PICK x \in job[c].seen \cap Live(c) : Recipient(c, x) = job[c].peer
  BY <1>0 DEF HandlerState
<1>2. job[c].peer \in Conns /\ job[c].peer # None
  BY <1>0, ConnsAssumption DEF TypeOK, HandlerTypes, HandlerType, SendLabels
<1>3. job[c].peer \notin PostOf(c).got
  BY <1>0 DEF PostOf, Unsent
<1>4. CASE job[c].req.op = "publish"
  <2>1. x \in job[c].start \ {sid[c]} /\ x \in Sids /\ registry[x] = job[c].peer
    BY <1>0, <1>1, <1>2, <1>4, PostingState DEF Live, Recipient, Subscribers, TypeOK, VarTypes
  <2>2. job[c].peer \in Holders(job[c].start \ {sid[c]}) /\ job[c].peer \in Holders(job[c].seen)
    BY <1>1, <1>2, <2>1 DEF Holders
  <2>3. PostOf(c).channel = job[c].req.channel
    BY <1>0, <1>4 DEF PostOf
  <2> QED BY <1>0, <1>2, <1>3, <1>4, <2>2, <2>3, PostingState
<1>5. CASE job[c].req.op # "publish"
  <2>1. job[c].peer = x /\ x \in Registered /\ hello[x].sid # sid[c] /\ hello[x].role = "agent"
    BY <1>1, <1>2, <1>5 DEF Live, Recipient
  <2>2. PostOf(c).channel = None
    BY <1>0, <1>5 DEF PostOf
  <2> QED BY <1>0, <1>1, <1>2, <1>3, <1>5, <2>1, <2>2, EverybodyReads, PostingState
<1> QED BY <1>4, <1>5

LEMMA GotAdded ==
  ASSUME NEW ch, NEW to, NEW got, NEW d, d \in got
  PROVE  [channel |-> ch, to |-> to, got |-> got]
           = [[channel |-> ch, to |-> to, got |-> got \ {d}] EXCEPT !.got = @ \cup {d}]
<1>1. (got \ {d}) \cup {d} = got
  OBVIOUS
<1> QED BY <1>1

LEMMA ToDeliver ==
  ASSUME PromiseInv, NEW c \in Conns, Quiet, OnlyAt(c), pc[c] = "sending", job[c].then = "fanout",
         pc'[c] \in {"fanout", "draining"}, job' = job, UNCHANGED <<registry, sid>>
  PROVE  Promise!Deliver(c, job[c].peer)
<1> DEFINE d == job[c].peer
<1>1. /\ Posting(c) /\ d \in Promise!Readers(c, PostOf(c).channel) \ PostOf(c).got
      /\ stageMap[c] = "posting" /\ postMap[c] = PostOf(c)
  BY PeerReads, PostingState DEF Posting, SendLabels, postMap
<1>2. StageOf(c)' = StageOf(c)
  <2>1. Posting(c)' /\ job[c].req.op # "cleanup"
    BY DEF Posting, SendLabels, PromiseInv, HandlerStates, HandlerState, LockLabels
  <2> QED BY <1>1, <2>1, PostingState DEF StageOf, SendLabels
<1>3. PostOf(c)' = [PostOf(c) EXCEPT !.got = @ \cup {d}]
  <2>1. Posting(c)' /\ Unsent(c)' = {} /\ Unsent(c) = {d}
    BY DEF Posting, SendLabels, Unsent
  <2>2. CASE job[c].req.op = "publish"
    <3>1. Holders(job[c].seen)' = Holders(job[c].seen) /\ d \in Holders(job[c].seen)
      BY <2>2, PeerReads DEF Holders
    <3>2. PostOf(c)' = [channel |-> job[c].req.channel, to |-> Holders(job[c].start \ {sid[c]}), got |-> Holders(job[c].seen)]
      BY <2>1, <2>2, <3>1 DEF PostOf, Holders
    <3>3. PostOf(c) = [channel |-> job[c].req.channel, to |-> Holders(job[c].start \ {sid[c]}), got |-> Holders(job[c].seen) \ {d}]
      BY <1>1, <2>1, <2>2 DEF PostOf
    <3>4. \A to, got : d \in got =>
            [channel |-> job[c].req.channel, to |-> to, got |-> got]
              = [[channel |-> job[c].req.channel, to |-> to, got |-> got \ {d}] EXCEPT !.got = @ \cup {d}]
      BY GotAdded
    <3> HIDE DEF d
    <3> QED BY <3>1, <3>2, <3>3, <3>4
  <2>3. CASE job[c].req.op # "publish"
    <3>1. d \in job[c].seen
      BY <2>3, PeerReads
    <3>2. PostOf(c)' = [channel |-> None, to |-> job[c].start, got |-> job[c].seen]
      BY <2>1, <2>3 DEF PostOf
    <3>3. PostOf(c) = [channel |-> None, to |-> job[c].start, got |-> job[c].seen \ {d}]
      BY <1>1, <2>1, <2>3 DEF PostOf
    <3>4. [channel |-> None, to |-> job[c].start, got |-> job[c].seen]
            = [[channel |-> None, to |-> job[c].start, got |-> job[c].seen \ {d}] EXCEPT !.got = @ \cup {d}]
      BY <3>1, GotAdded
    <3> HIDE DEF d
    <3> QED BY <3>2, <3>3, <3>4
  <2> QED BY <2>2, <2>3
<1>4. stageMap' = stageMap /\ postMap' = [postMap EXCEPT ![c].got = @ \cup {d}]
  BY <1>1, <1>2, <1>3 DEF OnlyAt, stageMap
<1> QED BY <1>1, <1>4 DEF Promise!Deliver, Quiet, stageMap, postMap, subsMap

(* Steps of a welcomed handler that leave registry and channels alone. *)

\* Serving its client, and not in a loop.
OpenAt(c) ==
  \/ pc[c] \in {"recv", "route", "flag", "kicked", "close", "closing"}
  \/ pc[c] \in LockLabels /\ job[c].req.op \in LockedOps
  \/ pc[c] \in SendLabels /\ job[c].then \in {"recv", "flag", "kicked", "close"}

\* On its way out.
EndingAt(c) == pc[c] = "exit" \/ (pc[c] \in SendLabels /\ job[c].then = "exit")

LEMMA OpenStage ==
  ASSUME NEW c \in Conns, HandlerState(c), OpenAt(c)
  PROVE  StageOf(c) = "open" /\ PostOf(c) = EmptyPost
BY DEF HandlerState, OpenAt, StageOf, PostOf, EmptyPost, Posting, LockLabels, SendLabels, LockedOps

LEMMA OpenStageNext ==
  ASSUME NEW c \in Conns, HandlerState(c)', OpenAt(c)'
  PROVE  StageOf(c)' = "open" /\ PostOf(c)' = EmptyPost
BY DEF HandlerState, OpenAt, StageOf, PostOf, EmptyPost, Posting, LockLabels, SendLabels, LockedOps

LEMMA EndingStage ==
  ASSUME NEW c \in Conns, EndingAt(c)
  PROVE  StageOf(c) = (IF sid[c] = None THEN "refused" ELSE "over") /\ PostOf(c) = EmptyPost
BY DEF EndingAt, StageOf, PostOf, EmptyPost, Posting, SendLabels

LEMMA EndingStageNext ==
  ASSUME NEW c \in Conns, EndingAt(c)'
  PROVE  StageOf(c)' = (IF sid'[c] = None THEN "refused" ELSE "over") /\ PostOf(c)' = EmptyPost
BY DEF EndingAt, StageOf, PostOf, EmptyPost, Posting, SendLabels

LEMMA OpenToOpen ==
  ASSUME PromiseInv, HandlerStates', NEW c \in Conns, Quiet, OnlyAt(c), OpenAt(c), OpenAt(c)'
  PROVE  UNCHANGED Promise!promiseVars
<1>1. HandlerState(c) /\ HandlerState(c)'
  BY DEF PromiseInv, HandlerStates
<1> QED BY <1>1, OpenStage, OpenStageNext, ToStutter

LEMMA OpenToEnding ==
  ASSUME PromiseInv, NEW c \in Conns, Quiet, OnlyAt(c), OpenAt(c) \/ Posting(c), EndingAt(c)',
         sid[c] \in Sids, UNCHANGED sid
  PROVE  Promise!Leave(c)
<1>1. HandlerState(c)
  BY DEF PromiseInv, HandlerStates
<1>2. StageOf(c) \in {"open", "posting"}
  BY <1>1, OpenStage, PostingState
<1>3. StageOf(c)' = "over" /\ PostOf(c)' = EmptyPost
  BY EndingStageNext, SidsAssumption
<1> QED BY <1>2, <1>3, ToLeave

LEMMA MapSends ==
  ASSUME PromiseInv, HandlerStates', NEW c \in Conns, Sending(c)
  PROVE  UNCHANGED Promise!promiseVars \/ Promise!Leave(c) \/ \E d \in Conns : Promise!Deliver(c, d)
<1>0. VarTypes /\ HandlerType(c) /\ PublishStates /\ HandlerState(c)
  BY DEF PromiseInv, SafeInv, TypeOK, HandlerTypes, HandlerStates
<1>1. pc[c] \in SendLabels /\ UNCHANGED <<hello, sid, registry, channels, subscriptions>>
  BY DEF Sending, Sent, SendDrains, SendTooLate, Drained, SendRaises, At, Wakes, SendLabels, busVars
<1>2. Quiet /\ OnlyAt(c)
  BY <1>0, <1>1, QuietBus, OthersMapped DEF busState, StepOf, Handler
<1>3. CASE job[c].then = "exit"
  <2>1. pc'[c] \in {"draining", "ending", "exit"} /\ job'[c] = job[c]
    BY <1>0, <1>3 DEF Sending, Sent, SendDrains, SendTooLate, Drained, SendRaises, Resume, Raise, Goto, VarTypes
  <2>2. EndingAt(c) /\ EndingAt(c)'
    BY <1>1, <1>3, <2>1 DEF EndingAt, SendLabels
  <2> QED BY <1>1, <1>2, <2>2, EndingStage, EndingStageNext, ToStutter
<1>4. CASE job[c].then \in {"recv", "flag", "kicked", "close"}
  <2>1. OpenAt(c) /\ sid[c] \in Sids
    BY <1>0, <1>1, <1>4 DEF OpenAt, HandlerType
  <2>2. CASE SendDrains(c) \/ SendTooLate(c)
    <3>1. pc'[c] \in {"draining", "ending"} /\ job'[c] = job[c]
      BY <1>0, <2>2 DEF SendDrains, SendTooLate, Goto, VarTypes
    <3> QED BY <1>2, <1>4, <2>1, <3>1, OpenToOpen DEF OpenAt, SendLabels
  <2>3. CASE Resume(c)
    <3>1. pc'[c] = job[c].then
      BY <1>0, <2>3 DEF Resume, Goto, VarTypes
    <3> QED BY <1>2, <1>4, <2>1, <3>1, OpenToOpen DEF OpenAt
  <2>4. CASE Raise(c)
    <3>1. pc'[c] = "exit"
      BY <1>0, <2>4 DEF Raise, Goto, VarTypes
    <3> QED BY <1>1, <1>2, <2>1, <3>1, OpenToEnding DEF EndingAt
  <2> QED BY <2>2, <2>3, <2>4 DEF Sending, Sent, Drained, SendRaises
<1>5. CASE job[c].then = "fanout"
  <2>1. Posting(c) /\ sid[c] \in Sids
    BY <1>0, <1>1, <1>5 DEF Posting, HandlerType
  <2>2. CASE Sent(c) \/ SendDrains(c)
    <3>1. pc[c] = "sending" /\ pc'[c] \in {"fanout", "draining"} /\ job' = job
      BY <1>0, <1>5, <2>2 DEF Sent, SendDrains, At, Resume, Goto, VarTypes
    <3>2. job[c].peer \in Conns
      BY <1>0, <1>1 DEF HandlerType
    <3> QED BY <1>1, <1>2, <1>5, <3>1, <3>2, ToDeliver
  <2>3. CASE SendTooLate(c) \/ Drained(c)
    <3>1. /\ job' = job
          /\ \/ pc[c] = "sending" /\ pc'[c] = "ending"
             \/ pc[c] = "draining" /\ pc'[c] = "fanout"
      BY <1>0, <1>5, <2>3 DEF SendTooLate, Drained, At, Wakes, Resume, Goto, VarTypes
    <3>2. Unsent(c)' = Unsent(c) /\ Posting(c)'
      BY <1>5, <3>1 DEF Unsent, Posting, SendLabels
    <3>3. StageOf(c)' = StageOf(c)
      <4>1. job[c].req.op # "cleanup"
        BY <1>0, <1>1 DEF HandlerState, LockLabels, SendLabels
      <4> QED BY <1>5, <2>1, <3>1, <3>2, <4>1 DEF StageOf, SendLabels
    <3>4. PostOf(c)' = PostOf(c)
      BY <1>1, <2>1, <3>1, <3>2 DEF PostOf, Holders
    <3> QED BY <1>2, <3>3, <3>4, ToStutter
  <2>4. CASE SendRaises(c)
    <3>1. pc'[c] = "exit"
      BY <1>0, <1>5, <2>4 DEF SendRaises, Swallows, Raise, Goto, VarTypes
    <3> QED BY <1>1, <1>2, <2>1, <3>1, OpenToEnding DEF EndingAt
  <2> QED BY <2>2, <2>3, <2>4 DEF Sending
<1> QED BY <1>0, <1>1, <1>3, <1>4, <1>5 DEF HandlerType

LEMMA MapOpenSteps ==
  ASSUME PromiseInv, HandlerStates', NEW c \in Conns,
         \/ (\E r \in Requests : Receive(c, r)) \/ EndOfFrames(c)
         \/ Answer(c) \/ SetShutdown(c) \/ AskLock(c) \/ RouteDirect(c) \/ ListChannels(c)
         \/ KickRefused(c) \/ NotifyKicked(c) \/ CloseKicked(c) \/ KickDone(c) \/ FanOutBreaks(c)
  PROVE  UNCHANGED Promise!promiseVars \/ Promise!Leave(c)
<1>0. VarTypes /\ HandlerType(c) /\ PublishStates /\ HandlerState(c)
  BY DEF PromiseInv, SafeInv, TypeOK, HandlerTypes, HandlerStates
<1>1. /\ UNCHANGED <<hello, sid, registry, channels, subscriptions>>
      /\ pc[c] \in {"recv", "route", "flag", "crit", "kicked", "close", "closing", "fanout"}
      /\ pc[c] = "crit" => job[c].req.op \in LockedOps
  BY DEF Receive, EndOfFrames, Answer, SetShutdown, AskLock, RouteDirect, ListChannels, KickRefused, NotifyKicked,
     CloseKicked, KickDone, FanOutBreaks, InCrit, At, Wakes, busVars, LockedOps
<1>2. Quiet /\ OnlyAt(c)
  <2>1. StepOf(c)
    BY DEF StepOf, Handler, Routing
  <2> QED BY <1>0, <1>1, <2>1, QuietBus, OthersMapped DEF busState
<1>3. (OpenAt(c) \/ Posting(c)) /\ sid[c] \in Sids
  BY <1>0, <1>1 DEF OpenAt, Posting, LockLabels, HandlerType, LockedOps
<1>4. ASSUME OpenAt(c)', pc[c] # "fanout" PROVE UNCHANGED Promise!promiseVars
  BY <1>1, <1>2, <1>4, OpenToOpen DEF OpenAt, LockLabels
<1>5. ASSUME EndingAt(c)' PROVE Promise!Leave(c)
  BY <1>1, <1>2, <1>3, <1>5, OpenToEnding
<1>6. ASSUME NEW d \in Conns, NEW l \in {"recv", "flag", "close", "exit"}, SendTo(c, d, l)
      PROVE  IF l = "exit" THEN EndingAt(c)' ELSE OpenAt(c)'
  <2>1. pc'[c] = "sending" /\ job'[c].then = l
    BY <1>0, <1>6, SendToJob DEF Labels
  <2> QED BY <2>1 DEF EndingAt, OpenAt, SendLabels
<1>7. ASSUME NEW l, l \in {"recv", "route", "closing", "exit"}, Goto(c, l)
      PROVE  IF l = "exit" THEN EndingAt(c)' ELSE OpenAt(c)'
  BY <1>0, <1>7 DEF Goto, VarTypes, EndingAt, OpenAt
<1>8. CASE (\E r \in Requests : Receive(c, r)) \/ SetShutdown(c) \/ CloseKicked(c) \/ KickDone(c)
  <2>1. pc[c] # "fanout" /\ \E l \in {"recv", "route", "closing"} : Goto(c, l)
    BY <1>8 DEF Receive, SetShutdown, CloseKicked, KickDone, At, Wakes
  <2> QED BY <1>4, <1>7, <2>1
<1>9. CASE EndOfFrames(c) \/ FanOutBreaks(c)
  BY <1>5, <1>7, <1>9 DEF EndOfFrames, FanOutBreaks, Raise
<1>10. CASE Answer(c)
  <2>1. pc[c] = "route"
    BY <1>10 DEF Answer, At
  <2>2. Goto(c, "exit") \/ \E l \in {"recv", "flag", "exit"} : SendTo(c, c, l)
    BY <1>10 DEF Answer, Reply
  <2> QED BY <1>4, <1>5, <1>6, <1>7, <2>1, <2>2
<1>11. CASE RouteDirect(c) \/ ListChannels(c) \/ KickRefused(c)
  <2>1. pc[c] # "fanout" /\ \E d \in Conns : SendTo(c, d, "recv")
    BY <1>11 DEF RouteDirect, ListChannels, KickRefused, Reply, ResolveTarget, Registered, InCrit, At
  <2> QED BY <1>4, <1>6, <2>1
<1>12. CASE NotifyKicked(c)
  <2>1. pc[c] # "fanout" /\ job[c].victim \in Conns /\ SendTo(c, job[c].victim, "close")
    BY <1>0, <1>12 DEF NotifyKicked, At, HandlerType
  <2> QED BY <1>4, <1>6, <2>1
<1>13. CASE AskLock(c)
  <2>1. pc[c] # "fanout" /\ pc'[c] = "acquire" /\ job' = job /\ job[c].req.op \in LockedOps
    BY <1>0, <1>13 DEF AskLock, At, Goto, VarTypes
  <2>2. OpenAt(c)'
    BY <2>1 DEF OpenAt, LockLabels, LockedOps
  <2> QED BY <1>4, <2>1, <2>2
<1> QED BY <1>8, <1>9, <1>10, <1>11, <1>12, <1>13

LEMMA ToAccept ==
  ASSUME PromiseInv, NEW c \in Conns, NEW ch \in Channels \cup {None}, Quiet, OnlyAt(c), OpenAt(c),
         ch # None => ch \in Promise!Used, StageOf(c)' = "posting",
         PostOf(c)' = [channel |-> ch, to |-> IF ch = None THEN Registered ELSE Promise!Readers(c, ch), got |-> {}]
  PROVE  Promise!Accept(c, ch)
<1>1. stageMap[c] = "open"
  BY OpenStage DEF PromiseInv, HandlerStates, stageMap
<1> QED BY <1>1 DEF Promise!Accept, Promise!Move, OnlyAt, Quiet, stageMap, postMap, subsMap

LEMMA MapAccepts ==
  ASSUME PromiseInv, HandlerStates', NEW c \in Conns, RouteToAll(c) \/ Publish(c)
  PROVE  UNCHANGED Promise!promiseVars \/ \E ch \in Channels \cup {None} : Promise!Accept(c, ch)
<1>0. /\ VarTypes /\ HandlerType(c) /\ PublishStates /\ HandlerState(c) /\ TypeOK
      /\ RegisteredSessionHasHandler /\ ChannelsMirrorSubscriptions /\ job[c] \in Jobs
  BY DEF PromiseInv, SafeInv, TypeOK, VarTypes, HandlerTypes, HandlerStates
<1>1. UNCHANGED <<hello, sid, registry, channels, subscriptions>>
  BY DEF RouteToAll, Publish, busVars
<1>2. Quiet /\ OnlyAt(c)
  <2>1. StepOf(c)
    BY DEF StepOf, Handler, Routing
  <2> QED BY <1>0, <1>1, <2>1, QuietBus, OthersMapped DEF busState
<1>3. OpenAt(c) /\ job[c].seen = {}
  BY <1>0 DEF OpenAt, RouteToAll, Publish, InCrit, At, LockLabels, LockedOps, HandlerState
<1>4. ASSUME NEW S, Goto(c, "fanout"), job' = [job EXCEPT ![c].start = S], job[c].req.op # "cleanup"
      PROVE  /\ StageOf(c)' = "posting" /\ Posting(c)' /\ Unsent(c)' = {}
             /\ job'[c].req = job[c].req /\ job'[c].start = S /\ job'[c].seen = {}
  <2>1. pc'[c] = "fanout"
    BY <1>0, <1>4 DEF Goto, VarTypes
  <2>2. job'[c].req = job[c].req /\ job'[c].start = S /\ job'[c].seen = {}
    BY <1>0, <1>3, <1>4 DEF Jobs, VarTypes
  <2>3. Posting(c)' /\ Unsent(c)' = {}
    BY <2>1 DEF Posting, Unsent
  <2> QED BY <1>4, <2>1, <2>2, <2>3 DEF StageOf, SendLabels
<1>5. CASE RouteToAll(c)
  <2>1. /\ Goto(c, "fanout") /\ job' = [job EXCEPT ![c].start = Registered]
        /\ job[c].req.op # "cleanup" /\ job[c].req.op # "publish"
    BY <1>5 DEF RouteToAll
  <2>2. PostOf(c)' = [channel |-> None, to |-> Registered, got |-> {}]
    <3>1. Posting(c)' /\ Unsent(c)' = {} /\ job'[c].req = job[c].req /\ job'[c].start = Registered /\ job'[c].seen = {}
      BY <1>4, <2>1
    <3> QED BY <2>1, <3>1 DEF PostOf
  <2>3. StageOf(c)' = "posting"
    BY <1>4, <2>1
  <2> QED BY <1>2, <1>3, <2>2, <2>3, ToAccept
<1>6. CASE Publish(c)
  <2> DEFINE ch == job[c].req.channel
  <2>1. job[c].req.op = "publish" /\ ch \in Channels /\ sid[c] \in Sids
    BY <1>0, <1>6, RequestFields DEF Publish, InCrit, At, HandlerType, Jobs
  <2>2. CASE Reply(c, "recv")
    <3>1. OpenAt(c)'
      <4>1. pc'[c] = "sending" /\ job'[c].then = "recv"
        BY <1>0, <2>2, SendToJob DEF Reply, Labels
      <4> QED BY <4>1 DEF OpenAt, SendLabels
    <3> QED BY <1>2, <1>3, <3>1, OpenToOpen
  <2>3. CASE /\ Subscribers(ch) # {}
             /\ job' = [job EXCEPT ![c].start = Subscribers(ch)]
             /\ Goto(c, "fanout")
    <3>1. /\ StageOf(c)' = "posting" /\ Posting(c)' /\ Unsent(c)' = {}
          /\ job'[c].req = job[c].req /\ job'[c].start = Subscribers(ch) /\ job'[c].seen = {}
      BY <1>4, <2>1, <2>3
    <3>2. Holders(job[c].seen)' = {}
      BY <3>1 DEF Holders
    <3>3. Holders(job[c].start \ {sid[c]})' = Holders(Subscribers(ch) \ {sid[c]})
      BY <1>1, <3>1 DEF Holders
    <3>4. PostOf(c)' = [channel |-> ch, to |-> Promise!Readers(c, ch), got |-> {}]
      BY <1>0, <2>1, <3>1, <3>2, <3>3, ChannelReaders DEF PostOf
    <3>5. ch \in Promise!Used
      <4>1. PICK s \in Subscribers(ch) : s \in Sids
        BY <1>0, <2>3 DEF Subscribers, VarTypes
      <4>2. ch \in subsMap[s]
        BY <1>0, <2>1, <4>1 DEF subsMap, ChannelsMirrorSubscriptions
      <4> QED BY <4>1, <4>2 DEF Promise!Used, subsMap
    <3>6. ch # None
      BY <2>1, ChannelsAssumption
    <3> HIDE DEF ch
    <3> QED BY <1>2, <1>3, <2>1, <3>1, <3>4, <3>5, <3>6, ToAccept
  <2> QED BY <1>6, <2>2, <2>3 DEF Publish
<1> QED BY <1>5, <1>6

LEMMA HoldersGrow ==
  ASSUME TypeOK, RegisteredSessionHasHandler, NEW S, NEW x \in Sids, registry[x] # None, x \notin S
  PROVE  Holders(S \cup {x}) \ {registry[x]} = Holders(S)
<1>1. registry[x] \in Conns /\ Holders(S \cup {x}) = Holders(S) \cup {registry[x]}
  BY HolderIdentity DEF Holders
<1>2. registry[x] \notin Holders(S)
  BY <1>1, HolderIdentity DEF Holders
<1> QED BY <1>1, <1>2

LEMMA LoopContinues ==
  ASSUME PromiseInv, NEW c \in Conns, NEW x \in Conns \cup Sids, FanOutNext(c, x)
  PROVE  UNCHANGED Promise!promiseVars
<1>0. /\ VarTypes /\ PublishStates /\ TypeOK /\ RegisteredSessionHasHandler
      /\ pc[c] = "fanout" /\ Posting(c)
      /\ UNCHANGED <<hello, sid, registry, channels, subscriptions>>
  BY DEF PromiseInv, SafeInv, TypeOK, FanOutNext, At, Posting, busVars
<1>1. Quiet /\ OnlyAt(c)
  <2>1. StepOf(c)
    BY DEF StepOf, Handler, Routing
  <2> QED BY <1>0, <2>1, QuietBus, OthersMapped DEF busState
<1>2. /\ pc'[c] = "sending" /\ job'[c].req = job[c].req /\ job'[c].start = job[c].start
      /\ job'[c].then = "fanout" /\ job'[c].peer = Recipient(c, x)
      /\ job'[c].seen = job[c].seen \cup {x}
  BY <1>0 DEF FanOutNext, Goto, VarTypes, Jobs
<1>3. Posting(c)' /\ Unsent(c)' = {Recipient(c, x)} /\ Unsent(c) = {}
  BY <1>0, <1>2 DEF Posting, SendLabels, Unsent
<1>4. StageOf(c)' = StageOf(c)
  <2>1. job[c].req.op # "cleanup"
    BY <1>0 DEF PromiseInv, HandlerStates, HandlerState, LockLabels
  <2> QED BY <1>0, <1>2, <1>3, <2>1, PostingState DEF StageOf, SendLabels
<1>5. x \in Live(c) /\ x \notin job[c].seen /\ Recipient(c, x) # None
  BY DEF FanOutNext
<1>6. CASE job[c].req.op = "publish"
  <2>1. x \in Sids /\ registry[x] = Recipient(c, x)
    BY <1>0, <1>5, <1>6, PostingState DEF Live, Recipient, Subscribers, VarTypes
  <2>2. Holders(job[c].seen \cup {x}) \ {registry[x]} = Holders(job[c].seen)
    BY <1>0, <1>5, <2>1, HoldersGrow
  <2>3. Holders(job[c].seen)' = Holders(job[c].seen \cup {x})
    BY <1>0, <1>2 DEF Holders
  <2>4. Holders(job[c].start \ {sid[c]})' = Holders(job[c].start \ {sid[c]})
    BY <1>0, <1>2 DEF Holders
  <2>5. PostOf(c)' = PostOf(c)
    BY <1>0, <1>2, <1>3, <1>6, <2>1, <2>2, <2>3, <2>4 DEF PostOf
  <2> QED BY <1>1, <1>4, <2>5, ToStutter
<1>7. CASE job[c].req.op # "publish"
  <2>1. Recipient(c, x) = x
    BY <1>5, <1>7 DEF Recipient
  <2>2. (job[c].seen \cup {x}) \ {x} = job[c].seen
    BY <1>5
  <2>3. PostOf(c)' = PostOf(c)
    BY <1>0, <1>2, <1>3, <1>7, <2>1, <2>2 DEF PostOf
  <2> QED BY <1>1, <1>4, <2>3, ToStutter
<1> QED BY <1>6, <1>7

\* A loop ends when it has reached all it set out to reach.
LEMMA LoopCompletes ==
  ASSUME PromiseInv, NEW c \in Conns, FanOutDone(c)
  PROVE  Promise!Complete(c)
<1>0. /\ VarTypes /\ PublishStates /\ TypeOK /\ RegisteredSessionHasHandler
      /\ pc[c] = "fanout" /\ Posting(c) /\ Unsent(c) = {}
      /\ UNCHANGED <<hello, sid, registry, channels, subscriptions>>
  BY DEF PromiseInv, SafeInv, TypeOK, FanOutDone, At, Posting, Unsent, busVars
<1>1. Quiet /\ OnlyAt(c)
  <2>1. StepOf(c)
    BY DEF StepOf, Handler, Routing
  <2> QED BY <1>0, <2>1, QuietBus, OthersMapped DEF busState
<1>2. StageOf(c)' = "open" /\ PostOf(c)' = EmptyPost
  <2>1. pc'[c] = "recv" /\ job'[c] = NoJob
    BY <1>0 DEF FanOutDone, Goto, VarTypes
  <2> QED BY <2>1 DEF StageOf, PostOf, EmptyPost, Posting, SendLabels, NoJob
<1>3. stageMap[c] = "posting" /\ postMap[c] = PostOf(c) /\ sid[c] \in Sids
  BY <1>0, PostingState DEF postMap
<1>4. CASE job[c].req.op = "publish"
  <2>1. \A x \in job[c].start \ job[c].seen : Recipient(c, x) = None
    BY <1>0, <1>4, PostingState DEF FanOutDone, Live
  <2>2. Holders(job[c].start \ {sid[c]}) \subseteq Holders(job[c].seen)
    BY <1>4, <2>1, ConnsAssumption DEF Recipient, Holders
  <2>3. PostOf(c).channel # None /\ PostOf(c).to \subseteq PostOf(c).got
    BY <1>0, <1>4, <2>2, PostingState, ChannelsAssumption DEF PostOf
  <2> QED BY <1>1, <1>2, <1>3, <2>3
       DEF Promise!Complete, Promise!Move, Promise!NoPost, OnlyAt, Quiet, stageMap, postMap, subsMap, EmptyPost
<1>5. CASE job[c].req.op # "publish"
  <2>1. PostOf(c).channel = None /\ PostOf(c).to = job[c].start /\ PostOf(c).got = job[c].seen
    BY <1>0, <1>5 DEF PostOf
  <2>2. Registered = job[c].start => Promise!Readers(c, None) \subseteq job[c].seen
    BY <1>0, <1>3, <1>5, EverybodyReads, ConnsAssumption DEF FanOutDone, Live, Recipient, Registered
  <2> QED BY <1>1, <1>2, <1>3, <2>1, <2>2
       DEF Promise!Complete, Promise!Move, Promise!NoPost, OnlyAt, Quiet, stageMap, postMap, subsMap, EmptyPost
<1> QED BY <1>4, <1>5

(* Steps around a session: the lock, a hello, joining, leaving. *)

LEMMA MapLocks ==
  ASSUME PromiseInv, HandlerStates', NEW c \in Conns, Acquire(c) \/ Granted(c)
  PROVE  UNCHANGED Promise!promiseVars
<1>0. /\ VarTypes /\ PublishStates /\ HandlerState(c)
      /\ UNCHANGED <<hello, sid, job, registry, channels, subscriptions>>
  BY DEF PromiseInv, SafeInv, TypeOK, HandlerStates, Acquire, Granted, busVars
<1>1. Quiet /\ OnlyAt(c)
  <2>1. StepOf(c)
    BY DEF StepOf, Handler, Locking
  <2> QED BY <1>0, <2>1, QuietBus, OthersMapped DEF busState
<1>2. pc[c] \in LockLabels /\ pc'[c] \in LockLabels
  BY <1>0 DEF Acquire, Granted, At, Wakes, Goto, VarTypes, LockLabels
<1>3. StageOf(c)' = StageOf(c) /\ PostOf(c)' = PostOf(c)
  BY <1>0, <1>2 DEF StageOf, PostOf, Posting, LockLabels, SendLabels
<1> QED BY <1>1, <1>3, ToStutter

LEMMA MapEnters ==
  ASSUME PromiseInv, NEW c \in Conns, Enter(c)
  PROVE  UNCHANGED Promise!promiseVars \/ Promise!Refuse(c) \/ \E h \in Hellos : Promise!Authenticate(c, h)
<1>0. /\ VarTypes /\ PublishStates /\ HandlerState(c) /\ HandlerType(c)
      /\ UNCHANGED <<sid, registry, channels, subscriptions>>
  BY DEF PromiseInv, SafeInv, TypeOK, HandlerTypes, HandlerStates, Enter, Connect, HelloFails, HelloAccepted, busVars
<1>1. OnlyAt(c)
  <2>1. StepOf(c)
    BY DEF StepOf
  <2> QED BY <1>0, <2>1, OthersMapped
<1>2. Registered' = Registered /\ subsMap' = subsMap
  BY <1>0 DEF Registered, subsMap, Subs
<1>3. pc[c] \in {"off", "hello"} /\ hello[c] = None /\ sid[c] = None /\ job[c] = NoJob
  BY <1>0 DEF Enter, Connect, HelloFails, HelloAccepted, Wakes, HandlerState, HandlerType
<1>4. StageOf(c) = "new" /\ PostOf(c) = EmptyPost /\ stageMap[c] = "new" /\ postMap[c] = EmptyPost
  BY <1>3 DEF StageOf, PostOf, Posting, EmptyPost, SendLabels, stageMap, postMap
<1>5. CASE Connect(c)
  <2>1. pc'[c] = "hello" /\ UNCHANGED hello
    BY <1>0, <1>5 DEF Connect, Goto, VarTypes
  <2>2. StageOf(c)' = "new" /\ PostOf(c)' = EmptyPost
    BY <2>1 DEF StageOf, PostOf, Posting, EmptyPost, SendLabels
  <2> QED BY <1>1, <1>2, <1>4, <2>1, <2>2, ToStutter DEF Quiet
<1>6. CASE HelloFails(c)
  <2>1. pc'[c] = "exit" /\ UNCHANGED <<hello, job>>
    BY <1>0, <1>6 DEF HelloFails, Goto, VarTypes
  <2>2. StageOf(c)' = "refused" /\ PostOf(c)' = EmptyPost
    BY <1>0, <1>3, <2>1, EndingStageNext DEF EndingAt
  <2>3. postMap' = postMap /\ stageMap' = [stageMap EXCEPT ![c] = "refused"]
    BY <1>1, <1>4, <2>2 DEF OnlyAt, postMap
  <2> QED BY <1>2, <1>4, <2>1, <2>3 DEF Promise!Refuse, Promise!Move, stageMap, postMap, subsMap
<1>7. ASSUME NEW h \in Hellos, HelloAccepted(c, h) PROVE Promise!Authenticate(c, h)
  <2>1. pc'[c] = "acquire" /\ hello' = [hello EXCEPT ![c] = h] /\ job'[c].req.op = "register"
    BY <1>0, <1>7 DEF HelloAccepted, Goto, VarTypes, Jobs
  <2>2. StageOf(c)' = "new" /\ PostOf(c)' = EmptyPost
    BY <2>1 DEF StageOf, PostOf, Posting, EmptyPost, SendLabels
  <2>3. postMap' = postMap /\ stageMap' = stageMap
    BY <1>1, <1>4, <2>2 DEF OnlyAt, postMap, stageMap
  <2> QED BY <1>2, <1>3, <1>4, <2>1, <2>3 DEF Promise!Authenticate, stageMap, postMap, subsMap
<1> QED BY <1>5, <1>6, <1>7 DEF Enter

\* The instance has a copy of the operator.
LEMMA SameCardinality == \A S : Promise!Cardinality(S) = Cardinality(S)
BY DEF Promise!Cardinality, Cardinality

LEMMA PresentSessions ==
  ASSUME TypeOK, RegisteredSessionHasHandler
  PROVE  Promise!Present = Sessions
<1>1. ASSUME NEW s \in Promise!Present PROVE s \in Sessions
  BY <1>1, RegisteredIdentity, ConnsAssumption DEF Promise!Present, Sessions
<1>2. ASSUME NEW s \in Sessions PROVE s \in Promise!Present
  BY <1>2, HolderIdentity DEF Promise!Present, Sessions
<1> QED BY <1>1, <1>2

LEMMA MapRefused ==
  ASSUME PromiseInv, NEW c \in Conns, RegisterRefused(c)
  PROVE  Promise!Refuse(c)
<1>0. /\ VarTypes /\ PublishStates /\ HandlerType(c)
      /\ pc[c] = "crit" /\ job[c].req.op = "register"
      /\ UNCHANGED <<hello, registry, channels, subscriptions>>
  BY DEF PromiseInv, SafeInv, TypeOK, HandlerTypes, RegisterRefused, InCrit, At, busVars
<1>1. OnlyAt(c)
  <2>1. StepOf(c)
    BY DEF StepOf, Handler, Locking
  <2> QED BY <1>0, <2>1, OthersMapped
<1>2. Registered' = Registered /\ subsMap' = subsMap
  BY <1>0 DEF Registered, subsMap, Subs
<1>3. stageMap[c] = "new" /\ postMap[c] = EmptyPost
  BY <1>0 DEF stageMap, postMap, StageOf, PostOf, EmptyPost, Posting, SendLabels
<1>4. EndingAt(c)'
  <2>1. pc'[c] = "sending" /\ job'[c].then = "exit"
    BY <1>0, SendToJob DEF RegisterRefused, Reply, Labels
  <2> QED BY <2>1 DEF EndingAt, SendLabels
<1>5. StageOf(c)' = (IF sid'[c] = None THEN "refused" ELSE "over") /\ postMap' = postMap
  BY <1>1, <1>3, <1>4, EndingStageNext DEF OnlyAt, postMap
<1>6. hello[c] # None /\ hello[c].sid \in Sids /\ sid[c] = None
  BY <1>0, IdentityFields, InputsAssumption DEF HandlerType
<1>7. CASE UNCHANGED sid
  BY <1>0, <1>1, <1>2, <1>3, <1>5, <1>6, <1>7 DEF Promise!Refuse, Promise!Move, OnlyAt, stageMap, postMap, subsMap
<1>8. CASE /\ hello[c].role = "agent" /\ (hello[c].name = BadName \/ NameTaken(hello[c].name))
           /\ sid' = [sid EXCEPT ![c] = hello[c].sid]
  <2>1. ~Promise!Free(c)
    BY <1>8 DEF NameTaken, Promise!Free
  <2>2. StageOf(c)' = "over"
    BY <1>0, <1>5, <1>6, <1>8, SidsAssumption DEF VarTypes
  <2> QED BY <1>0, <1>1, <1>2, <1>3, <1>5, <1>6, <2>1, <2>2
       DEF Promise!Refuse, Promise!Move, OnlyAt, stageMap, postMap, subsMap
<1> QED BY <1>7, <1>8 DEF RegisterRefused

LEMMA MapRegister ==
  ASSUME PromiseInv, HandlerStates', NEW c \in Conns, Register(c)
  PROVE  Promise!Join(c)
<1>0. /\ VarTypes /\ PublishStates /\ HandlerType(c) /\ TypeOK /\ RegisteredSessionHasHandler
      /\ pc[c] = "crit" /\ job[c].req.op = "register"
      /\ UNCHANGED <<hello, channels, subscriptions>>
      /\ owner = c /\ Limited(Sessions, connection_max)
  BY DEF PromiseInv, SafeInv, LimitsHold, LockDiscipline, TypeOK, HandlerTypes, Register, InCrit, At
<1>1. OnlyAt(c)
  <2>1. StepOf(c)
    BY DEF StepOf, Handler, Locking
  <2> QED BY <1>0, <2>1, OthersMapped
<1>2. hello[c] # None /\ hello[c].sid \in Sids /\ registry[hello[c].sid] = None /\ ~Full
  BY <1>0, IdentityFields, InputsAssumption DEF HandlerType, Register
<1>3. Registered' = Registered \cup {c} /\ subsMap' = subsMap
  BY <1>0, <1>2, ConnsAssumption DEF Register, Registered, VarTypes, subsMap, Subs
<1>4. stageMap[c] = "new" /\ postMap[c] = EmptyPost
  BY <1>0 DEF stageMap, postMap, StageOf, PostOf, EmptyPost, Posting, SendLabels
<1>5. StageOf(c)' = "open" /\ postMap' = postMap
  <2>1. pc'[c] = "sending" /\ job'[c].then = "recv"
    BY <1>0, SendToJob DEF Register, Reply, Labels
  <2>2. OpenAt(c)' /\ HandlerState(c)'
    BY <2>1 DEF OpenAt, SendLabels, HandlerStates
  <2> QED BY <1>1, <1>4, <2>2, OpenStageNext DEF OnlyAt, postMap
<1>6. Promise!Free(c)
  <2>1. hello[c].sid \notin Sessions
    BY <1>2 DEF Sessions
  <2>2. Cardinality(Sessions) < connection_max
    BY <1>0, <1>2, FS_CardinalityType, LimitsAssumption DEF Full, Limited
  <2>3. hello[c].role = "agent" =>
          hello[c].name # BadName /\ \A d \in Registered : hello[d].name # hello[c].name
    BY DEF Register, NameTaken
  <2> QED BY <1>0, <1>2, <2>1, <2>2, <2>3, PresentSessions, SameCardinality DEF Promise!Free
<1> QED BY <1>0, <1>1, <1>2, <1>3, <1>4, <1>5, <1>6
     DEF Promise!Join, Promise!Move, OnlyAt, stageMap, postMap, subsMap

\* What taking a session out of the registry and its channels amounts to.
LEMMA SessionEnds ==
  ASSUME TypeOK, RegisteredSessionHasHandler, NEW s \in Sids, Unregister(s), ForgetSubscriptions(s)
  PROVE  /\ Registered' = {d \in Registered : hello[d].sid # s}
         /\ subsMap' = [subsMap EXCEPT ![s] = {}]
<1>0. VarTypes
  BY DEF TypeOK
<1>1. ASSUME NEW d \in Registered' PROVE d \in Registered /\ hello[d].sid # s
  <2>1. PICK t \in Sids : d \in Conns /\ registry'[t] = d
    BY <1>1 DEF Registered
  <2>2. t # s /\ registry[t] = d /\ d # None
    BY <1>0, <2>1, ConnsAssumption DEF Unregister, VarTypes
  <2> QED BY <2>1, <2>2, HolderIdentity
<1>2. ASSUME NEW d \in Registered, hello[d].sid # s PROVE d \in Registered'
  <2>1. d \in Conns /\ hello[d].sid \in Sids /\ registry[hello[d].sid] = d
    BY <1>2, RegisteredIdentity
  <2>2. registry'[hello[d].sid] = d
    BY <1>0, <1>2, <2>1 DEF Unregister, VarTypes
  <2> QED BY <2>1, <2>2 DEF Registered
<1>3. \A t \in Sids : Subs(t)' = IF t = s THEN {} ELSE Subs(t)
  BY <1>0 DEF ForgetSubscriptions, Without, Subs, VarTypes
<1> QED BY <1>1, <1>2, <1>3 DEF subsMap

LEMMA MapExit ==
  ASSUME PromiseInv, NEW c \in Conns, Exit(c)
  PROVE  UNCHANGED Promise!promiseVars \/ Promise!Close(c)
<1>0. /\ VarTypes /\ PublishStates /\ HandlerType(c) /\ TypeOK /\ RegisteredSessionHasHandler
      /\ pc[c] = "exit" /\ EndingAt(c) /\ UNCHANGED <<sid, registry, channels, subscriptions>>
  BY DEF PromiseInv, SafeInv, TypeOK, HandlerTypes, Exit, At, EndingAt
<1>1. OnlyAt(c)
  <2>1. StepOf(c)
    BY DEF StepOf, Handler
  <2> QED BY <1>0, <2>1, OthersMapped
<1>2. Registered' = Registered /\ subsMap' = subsMap
  BY <1>0 DEF Registered, subsMap, Subs
<1>3. StageOf(c) = (IF sid[c] = None THEN "refused" ELSE "over") /\ PostOf(c) = EmptyPost
  BY <1>0, EndingStage
<1>4. CASE sid[c] = None
  <2>1. pc'[c] = "done" /\ job'[c] = NoJob /\ hello' = [hello EXCEPT ![c] = None]
    BY <1>0, <1>4 DEF Exit, Goto, VarTypes
  <2>2. StageOf(c)' = "gone" /\ PostOf(c)' = EmptyPost
    BY <2>1 DEF StageOf, PostOf, EmptyPost, Posting, SendLabels, NoJob
  <2>3. c \notin Registered
    BY <1>0, <1>4, RegisteredIdentity, SidsAssumption
  <2>4. postMap' = postMap /\ stageMap[c] = "refused" /\ stageMap' = [stageMap EXCEPT ![c] = "gone"]
    BY <1>1, <1>3, <1>4, <2>2 DEF OnlyAt, postMap, stageMap
  <2> QED BY <1>2, <2>1, <2>3, <2>4 DEF Promise!Close, Promise!Move, stageMap, postMap, subsMap
<1>5. CASE sid[c] # None
  <2>1. pc'[c] = "acquire" /\ UNCHANGED hello /\ job'[c] = [NoJob EXCEPT !.req = [op |-> "cleanup"]]
    BY <1>0, <1>5 DEF Exit, Goto, VarTypes
  <2>2. job'[c].req.op = "cleanup"
    BY <2>1 DEF NoJob
  <2>3. StageOf(c)' = "over" /\ PostOf(c)' = EmptyPost
    BY <1>0, <1>5, <2>1, <2>2 DEF StageOf, PostOf, EmptyPost, Posting, SendLabels
  <2> QED BY <1>1, <1>2, <1>3, <1>5, <2>1, <2>3, ToStutter DEF Quiet
<1> QED BY <1>4, <1>5

LEMMA MapCleanup ==
  ASSUME PromiseInv, NEW c \in Conns, Cleanup(c)
  PROVE  Promise!Close(c)
<1>0. /\ VarTypes /\ PublishStates /\ HandlerType(c) /\ TypeOK /\ RegisteredSessionHasHandler
      /\ pc[c] = "crit" /\ job[c].req.op = "cleanup" /\ owner = c
  BY DEF PromiseInv, SafeInv, LockDiscipline, TypeOK, HandlerTypes, Cleanup, InCrit, At
<1>1. OnlyAt(c)
  <2>1. StepOf(c)
    BY DEF StepOf, Handler, Locking
  <2> QED BY <1>0, <2>1, OthersMapped
<1>2. sid[c] \in Sids /\ sid[c] = hello[c].sid /\ sid[c] # None
  BY <1>0, SidsAssumption DEF HandlerType
<1>3. stageMap[c] = "over" /\ postMap[c] = EmptyPost
  BY <1>0, <1>2 DEF stageMap, postMap, StageOf, PostOf, EmptyPost, Posting, SendLabels
<1>4. StageOf(c)' = "gone" /\ PostOf(c)' = EmptyPost
  <2>1. pc'[c] = "done" /\ job'[c] = NoJob
    BY <1>0 DEF Cleanup, Goto, VarTypes
  <2> QED BY <2>1 DEF StageOf, PostOf, EmptyPost, Posting, SendLabels, NoJob
<1>5. /\ Registered' = {d \in Registered : hello[d].sid # hello[c].sid}
      /\ subsMap' = [subsMap EXCEPT ![hello[c].sid] = {}]
  BY <1>0, <1>2, SessionEnds DEF Cleanup
<1>6. postMap' = postMap /\ stageMap' = [stageMap EXCEPT ![c] = "gone"] /\ hello' = [hello EXCEPT ![c] = None]
  BY <1>1, <1>3, <1>4 DEF OnlyAt, postMap, Cleanup
<1> QED BY <1>3, <1>5, <1>6 DEF Promise!Close, Promise!Move, Promise!EndSession, stageMap, postMap, subsMap

(* Requests under the lock that change sessions or subscriptions. *)

LEMMA MapKick ==
  ASSUME PromiseInv, HandlerStates', NEW c \in Conns, Kick(c)
  PROVE  \E d \in Conns : Promise!Kick(c, d)
<1>0. /\ VarTypes /\ PublishStates /\ HandlerState(c) /\ TypeOK /\ RegisteredSessionHasHandler /\ HandlerStates
      /\ pc[c] = "crit" /\ owner = c /\ OpenAt(c) /\ UNCHANGED hello
  BY DEF PromiseInv, SafeInv, LockDiscipline, TypeOK, HandlerStates, Kick, InCrit, At, OpenAt, LockLabels, LockedOps
<1>1. OnlyAt(c)
  <2>1. StepOf(c)
    BY DEF StepOf, Handler, Routing
  <2> QED BY <1>0, <2>1, OthersMapped
<1>2. PICK d \in Registered :
        /\ hello[c].role = "control" /\ hello[d].role = "agent" /\ d \in Conns
        /\ Unregister(hello[d].sid) /\ ForgetSubscriptions(hello[d].sid)
        /\ pc'[c] = "sending" /\ job'[c].then = "kicked"
  BY <1>0, KickShape
<1>3. StageOf(c) = "open" /\ PostOf(c) = EmptyPost
  BY <1>0, OpenStage
<1>4. StageOf(c)' = "open" /\ PostOf(c)' = EmptyPost
  <2>1. OpenAt(c)' /\ HandlerState(c)'
    BY <1>2 DEF OpenAt, SendLabels, HandlerStates
  <2> QED BY <2>1, OpenStageNext
<1>5. hello[d].sid \in Sids
  BY <1>0, RegisteredIdentity
<1>6. /\ Registered' = {e \in Registered : hello[e].sid # hello[d].sid}
      /\ subsMap' = [subsMap EXCEPT ![hello[d].sid] = {}]
  BY <1>0, <1>2, <1>5, SessionEnds
<1>7. postMap' = postMap /\ stageMap' = stageMap /\ stageMap[c] = "open"
  BY <1>1, <1>3, <1>4 DEF OnlyAt, postMap, stageMap
<1> QED BY <1>0, <1>2, <1>6, <1>7 DEF Promise!Kick, Promise!EndSession, stageMap, postMap, subsMap

LEMMA UsedChannels ==
  ASSUME VarTypes, ChannelsMirrorSubscriptions
  PROVE  Promise!Used = DOMAIN channels
<1>1. ASSUME NEW ch \in Promise!Used PROVE ch \in DOMAIN channels
  <2>1. PICK s \in Sids : ch \in Subs(s)
    BY <1>1 DEF Promise!Used
  <2>2. ch \in Channels /\ s \in Subscribers(ch)
    BY <2>1 DEF ChannelsMirrorSubscriptions, Subs, VarTypes
  <2> QED BY <2>2 DEF Subscribers
<1>2. ASSUME NEW ch \in DOMAIN channels PROVE ch \in Promise!Used
  <2>1. PICK s \in Sids : s \in Subscribers(ch)
    BY <1>2 DEF ChannelsMirrorSubscriptions, Subscribers, VarTypes
  <2>2. ch \in Subs(s)
    BY <2>1 DEF ChannelsMirrorSubscriptions, VarTypes
  <2> QED BY <2>1, <2>2 DEF Promise!Used
<1> QED BY <1>1, <1>2

LEMMA MapSubscriptions ==
  ASSUME PromiseInv, HandlerStates', NEW c \in Conns, Subscribe(c) \/ Unsubscribe(c)
  PROVE  \/ UNCHANGED Promise!promiseVars
         \/ \E ch \in Channels : Promise!Subscribe(c, ch) \/ Promise!Unsubscribe(c, ch)
<1> DEFINE s == sid[c]
           ch == job[c].req.channel
<1>0. /\ VarTypes /\ PublishStates /\ HandlerState(c) /\ HandlerType(c) /\ LimitsHold
      /\ ChannelsMirrorSubscriptions
      /\ pc[c] = "crit" /\ job[c].req.op \in {"subscribe", "unsubscribe"}
      /\ UNCHANGED <<hello, sid, registry>> /\ Reply(c, "recv")
  BY DEF PromiseInv, SafeInv, TypeOK, HandlerTypes, HandlerStates, Subscribe, Unsubscribe, InCrit, At
<1>1. OnlyAt(c)
  <2>1. StepOf(c)
    BY DEF StepOf, Handler, Routing
  <2> QED BY <1>0, <2>1, OthersMapped
<1>2. /\ ch \in Channels /\ s \in Sids /\ hello[c].sid = s /\ hello[c].role = "agent"
  BY <1>0, RequestFields, SidsAssumption DEF VarTypes, Jobs, HandlerType, HandlerState, LockLabels, MayUse, AgentOps
<1>3. Registered' = Registered
  BY <1>0 DEF Registered
<1>4. OpenAt(c) /\ OpenAt(c)'
  <2>1. pc'[c] = "sending" /\ job'[c].then = "recv"
    BY <1>0, SendToJob DEF Reply, Labels
  <2> QED BY <1>0, <2>1 DEF OpenAt, LockLabels, LockedOps, SendLabels
<1>5. ASSUME subsMap' = subsMap PROVE UNCHANGED Promise!promiseVars
  BY <1>0, <1>1, <1>3, <1>4, <1>5, OpenToOpen DEF Quiet
<1>6. stageMap[c] = "open" /\ stageMap' = stageMap /\ postMap' = postMap
  <2>1. HandlerState(c)'
    BY DEF HandlerStates
  <2> QED BY <1>0, <1>1, <1>4, <2>1, OpenStage, OpenStageNext DEF OnlyAt, stageMap, postMap
<1>7. ASSUME NEW T, \A t \in Sids : Subs(t)' = IF t = s THEN T ELSE Subs(t)
      PROVE  subsMap' = [subsMap EXCEPT ![s] = T]
  BY <1>2, <1>7 DEF subsMap
<1>8. ASSUME NEW T, subscriptions' = With(subscriptions, s, T)
      PROVE  subsMap' = [subsMap EXCEPT ![s] = T]
  BY <1>0, <1>2, <1>7, <1>8 DEF With, Subs, VarTypes
<1>9. CASE Subscribe(c)
  <2>1. CASE subscriptions' = With(subscriptions, s, Subs(s))
    <3>1. subsMap' = subsMap
      BY <1>2, <1>8, <2>1 DEF subsMap
    <3> QED BY <1>5, <3>1
  <2>2. CASE ~ChannelLimitReached(s, ch) /\ subscriptions' = With(subscriptions, s, Subs(s) \cup {ch})
    <3>1. subsMap' = [subsMap EXCEPT ![s] = @ \cup {ch}]
      BY <1>2, <1>8, <2>2 DEF subsMap
    <3>2. Cardinality(Subs(s)) \in Nat /\ Cardinality(DOMAIN channels) \in Nat
      BY <1>0, <1>2, FS_CardinalityType DEF LimitsHold, Limited
    <3>3. Promise!Cardinality(Subs(s)) < subscriptions_max
      BY <2>2, <3>2, SameCardinality, LimitsAssumption DEF ChannelLimitReached
    <3>4. ch \in Promise!Used \/ Promise!Cardinality(Promise!Used) < channels_max
      BY <1>0, <2>2, <3>2, UsedChannels, SameCardinality, LimitsAssumption DEF ChannelLimitReached
    <3> QED BY <1>0, <1>2, <1>3, <1>6, <3>1, <3>3, <3>4 DEF Promise!Subscribe, stageMap, postMap, subsMap
  <2> QED BY <1>9, <2>1, <2>2 DEF Subscribe
<1>10. CASE Unsubscribe(c)
  <2>1. CASE UNCHANGED subscriptions
    BY <1>5, <2>1 DEF subsMap, Subs
  <2>2. CASE /\ Subs(s) \ {ch} = {} /\ subscriptions' = Without(subscriptions, s)
    <3>1. \A t \in Sids : Subs(t)' = IF t = s THEN Subs(s) \ {ch} ELSE Subs(t)
      BY <1>0, <2>2 DEF Without, Subs, VarTypes
    <3>2. subsMap' = [subsMap EXCEPT ![s] = @ \ {ch}]
      BY <1>2, <1>7, <3>1 DEF subsMap
    <3> QED BY <1>0, <1>2, <1>3, <1>6, <3>2 DEF Promise!Unsubscribe, stageMap, postMap, subsMap
  <2>3. CASE subscriptions' = With(subscriptions, s, Subs(s) \ {ch})
    <3>1. subsMap' = [subsMap EXCEPT ![s] = @ \ {ch}]
      BY <1>2, <1>8, <2>3 DEF subsMap
    <3> QED BY <1>0, <1>2, <1>3, <1>6, <3>1 DEF Promise!Unsubscribe, stageMap, postMap, subsMap
  <2> QED BY <1>10, <2>1, <2>2, <2>3 DEF Unsubscribe
<1> QED BY <1>9, <1>10

LEMMA HandlerRefines ==
  ASSUME PromiseInv, HandlerStates', NEW c \in Conns, StepOf(c)
  PROVE  UNCHANGED Promise!promiseVars \/ Promise!BusStep
<1>1. CASE Enter(c)
  BY <1>1, MapEnters DEF Promise!BusStep
<1>2. CASE Locking(c)
  BY <1>2, MapLocks, MapRefused, MapRegister, MapCleanup DEF Locking, Promise!BusStep
<1>3. CASE Sending(c)
  BY <1>3, MapSends DEF Promise!BusStep
<1>4. CASE Exit(c)
  BY <1>4, MapExit DEF Promise!BusStep
<1>5. CASE (\E r \in Requests : Receive(c, r)) \/ EndOfFrames(c) \/ Routing(c)
  <2>1. CASE Subscribe(c) \/ Unsubscribe(c)
    BY <2>1, MapSubscriptions DEF Promise!BusStep
  <2>2. CASE Kick(c)
    BY <2>2, MapKick DEF Promise!BusStep
  <2>3. CASE RouteToAll(c) \/ Publish(c)
    BY <2>3, MapAccepts DEF Promise!BusStep
  <2>4. CASE FanOutDone(c) \/ \E x \in Conns \cup Sids : FanOutNext(c, x)
    BY <2>4, LoopContinues, LoopCompletes DEF Promise!BusStep
  <2> QED BY <1>5, <2>1, <2>2, <2>3, <2>4, MapOpenSteps DEF Routing, Promise!BusStep
<1> QED BY <1>1, <1>2, <1>3, <1>4, <1>5 DEF StepOf, Handler

LEMMA StepRefines ==
  PromiseInv /\ HandlerStates' /\ [Next]_vars => [Promise!BusNext]_(Promise!promiseVars)
<1> SUFFICES ASSUME PromiseInv, HandlerStates', [Next]_vars
             PROVE  UNCHANGED Promise!promiseVars \/ Promise!BusStep
  BY DEF Promise!BusNext
<1>1. CASE UNCHANGED <<handlerVars, busVars, kicked>>
  BY <1>1 DEF handlerVars, busVars, Promise!promiseVars, StageOf, PostOf, Posting, Holders, Unsent, Registered, Subs
<1> QED BY <1>1, NextShape, HandlerRefines

LEMMA InitRefines == Init => Promise!BusInit
BY ConnsAssumption, SidsAssumption DEF Init, Promise!BusInit, Promise!NoPost, StageOf, PostOf, Posting, SendLabels,
   NoJob, Registered, Subs

\* The server implements Bus: every step of its handlers, whatever it does in
\* the middle of an operation, is one step of a client's session or none.
THEOREM Refinement == Spec => PromiseKept
<1>1. PromiseInv /\ PromiseInv' /\ [Next]_vars => [Promise!BusNext]_(Promise!promiseVars)
  BY StepRefines DEF PromiseInv
<1> QED BY <1>1, InitRefines, PromiseInvariant, PTL DEF Spec, PromiseKept, Promise!BusSpec
=============================================================================
