---------------------- MODULE BusServerLocking_proofs ----------------------
(* The lock of BusServer: no wake-up is lost, and publish's set stays still.  *)
EXTENDS BusServerSafety_proofs

Holding == {"queued", "crit", "fanout", "sending", "draining", "ending"}

\* How a step of handler c may treat the lock.
Move(c, l) ==
  /\ UNCHANGED lockVars /\ Goto(c, l)
  /\ pc[c] # "queued" /\ l \notin {"queued", "crit"}
  /\ owner = c => l \in Holding

Leave(c, l) ==
  /\ Release(c) /\ Goto(c, l)
  /\ pc[c] # "queued" /\ l \notin {"queued", "crit"}

LEMMA WaitingAppend ==
  ASSUME NEW s \in Seq(Conns), NEW c \in Conns
  PROVE  /\ {Append(s, c)[i] : i \in DOMAIN Append(s, c)} = {s[i] : i \in DOMAIN s} \cup {c}
         /\ (c \notin {s[i] : i \in DOMAIN s} /\ \A i, j \in DOMAIN s : s[i] = s[j] => i = j)
              => \A i, j \in DOMAIN Append(s, c) : Append(s, c)[i] = Append(s, c)[j] => i = j
<1>1. /\ DOMAIN s = 1..Len(s) /\ Len(s) \in Nat
      /\ DOMAIN Append(s, c) = 1..(Len(s) + 1)
      /\ \A i \in 1..Len(s) : Append(s, c)[i] = s[i]
      /\ Append(s, c)[Len(s) + 1] = c
  OBVIOUS
<1> QED BY <1>1

LEMMA WaitingTail ==
  ASSUME NEW s \in Seq(Conns), s # <<>>, \A i, j \in DOMAIN s : s[i] = s[j] => i = j
  PROVE  /\ Head(s) \in {s[i] : i \in DOMAIN s}
         /\ {Tail(s)[i] : i \in DOMAIN Tail(s)} = {s[i] : i \in DOMAIN s} \ {Head(s)}
         /\ \A i, j \in DOMAIN Tail(s) : Tail(s)[i] = Tail(s)[j] => i = j
<1>1. /\ DOMAIN s = 1..Len(s) /\ Len(s) \in Nat /\ Len(s) > 0
      /\ Head(s) = s[1]
      /\ DOMAIN Tail(s) = 1..(Len(s) - 1)
      /\ \A i \in 1..(Len(s) - 1) : Tail(s)[i] = s[i + 1]
  OBVIOUS
<1> DEFINE t == Tail(s)
<1> HIDE DEF t
<1>2. \A i \in DOMAIN s : s[i] # s[1] => i - 1 \in 1..(Len(s) - 1) /\ t[i - 1] = s[i]
  BY <1>1 DEF t
<1>3. \A i \in DOMAIN t : t[i] = s[i + 1] /\ i + 1 \in DOMAIN s /\ i + 1 # 1 /\ DOMAIN t = 1..(Len(s) - 1)
  BY <1>1 DEF t
<1>4. Head(s) \in {s[i] : i \in DOMAIN s}
  BY <1>1
<1>5. \A i \in DOMAIN t : t[i] \in {s[k] : k \in DOMAIN s} \ {Head(s)}
  BY <1>1, <1>3
<1>6. \A i \in DOMAIN s : s[i] # Head(s) => s[i] \in {t[k] : k \in DOMAIN t}
  BY <1>1, <1>2, <1>3 DEF t
<1>7. {t[k] : k \in DOMAIN t} = {s[i] : i \in DOMAIN s} \ {Head(s)}
  BY <1>5, <1>6
<1>8. \A i, j \in DOMAIN t : t[i] = t[j] => i = j
  BY <1>1, <1>3
<1> QED BY <1>4, <1>7, <1>8 DEF t

LEMMA MoveKeepsLock ==
  ASSUME TypeOK, LockDiscipline, NEW c \in Conns, NEW l, Move(c, l)
  PROVE  LockDiscipline'
BY DEF TypeOK, VarTypes, LockDiscipline, Waiting, Move, Goto, Holding, lockVars

LEMMA LeaveKeepsLock ==
  ASSUME TypeOK, LockDiscipline, NEW c \in Conns, NEW l, Leave(c, l)
  PROVE  LockDiscipline'
<1>0. /\ pc \in [Conns -> Labels] /\ pc' = [pc EXCEPT ![c] = l] /\ waiters \in Seq(Conns)
      /\ l \notin {"queued", "crit"}
      /\ pc[c] # "queued" /\ None \notin Conns /\ c \notin Waiting
  BY ConnsAssumption DEF TypeOK, VarTypes, Leave, Goto, LockDiscipline
<1>1. CASE owner # c
  BY <1>0, <1>1 DEF LockDiscipline, Waiting, Leave, Release, lockVars
<1>2. CASE owner = c /\ waiters = <<>>
  <2>1. owner' = None /\ waiters' = waiters
    BY <1>2 DEF Leave, Release
  <2> QED BY <1>0, <1>2, <2>1 DEF LockDiscipline, Waiting
<1>3. CASE owner = c /\ waiters # <<>>
  <2>1. owner' = Head(waiters) /\ waiters' = Tail(waiters)
    BY <1>3 DEF Leave, Release
  <2>2. /\ Head(waiters) \in Waiting /\ Waiting' = Waiting \ {Head(waiters)}
        /\ \A i, j \in DOMAIN waiters' : waiters'[i] = waiters'[j] => i = j
    <3>1. \A i, j \in DOMAIN waiters : waiters[i] = waiters[j] => i = j
      BY DEF LockDiscipline
    <3>2. /\ Head(waiters) \in {waiters[i] : i \in DOMAIN waiters}
          /\ {Tail(waiters)[i] : i \in DOMAIN Tail(waiters)}
               = {waiters[i] : i \in DOMAIN waiters} \ {Head(waiters)}
          /\ \A i, j \in DOMAIN Tail(waiters) : Tail(waiters)[i] = Tail(waiters)[j] => i = j
      BY <1>0, <1>3, <3>1, WaitingTail
    <3> QED BY <2>1, <3>2 DEF Waiting
  <2>3. Head(waiters) \in Conns
    BY <1>0, <1>3
  <2>4. \A d \in Conns :
          /\ pc'[d] = "queued" => d \in Waiting' \/ owner' = d
          /\ d \in Waiting' => pc'[d] = "queued"
          /\ pc'[d] = "crit" => owner' = d
          /\ owner' = d => pc'[d] \in Holding
    BY <1>0, <1>3, <2>1, <2>2 DEF LockDiscipline, Holding
  <2>5. owner' # None /\ owner' \notin Waiting'
    BY <1>0, <2>1, <2>2, <2>3
  <2> QED BY <2>2, <2>4, <2>5 DEF LockDiscipline, Holding
<1> QED BY <1>1, <1>2, <1>3

LEMMA AcquireKeepsLock ==
  ASSUME TypeOK, LockDiscipline, NEW c \in Conns, Acquire(c)
  PROVE  LockDiscipline'
<1>0. /\ pc \in [Conns -> Labels] /\ waiters \in Seq(Conns) /\ pc[c] = "acquire"
      /\ None \notin Conns /\ c \notin Waiting /\ owner # c
  BY ConnsAssumption DEF TypeOK, VarTypes, Acquire, At, LockDiscipline
<1>1. CASE owner = None
  <2>1. owner' = c /\ pc' = [pc EXCEPT ![c] = "crit"] /\ waiters' = waiters
    BY <1>1 DEF Acquire, Goto
  <2> QED BY <1>0, <1>1, <2>1 DEF LockDiscipline, Waiting
<1>2. CASE owner # None
  <2>1. owner' = owner /\ pc' = [pc EXCEPT ![c] = "queued"] /\ waiters' = Append(waiters, c)
    BY <1>2 DEF Acquire, Goto
  <2>2. /\ Waiting' = Waiting \cup {c}
        /\ \A i, j \in DOMAIN waiters' : waiters'[i] = waiters'[j] => i = j
    <3>1. \A i, j \in DOMAIN waiters : waiters[i] = waiters[j] => i = j
      BY DEF LockDiscipline
    <3>2. c \notin {waiters[i] : i \in DOMAIN waiters}
      BY <1>0 DEF Waiting
    <3>3. {Append(waiters, c)[i] : i \in DOMAIN Append(waiters, c)}
            = {waiters[i] : i \in DOMAIN waiters} \cup {c}
      BY <1>0, WaitingAppend
    <3>4. \A i, j \in DOMAIN Append(waiters, c) : Append(waiters, c)[i] = Append(waiters, c)[j] => i = j
      BY <1>0, <3>1, <3>2, WaitingAppend
    <3> QED BY <2>1, <3>3, <3>4 DEF Waiting
  <2> QED BY <1>0, <1>2, <2>1, <2>2 DEF LockDiscipline
<1> QED BY <1>1, <1>2

LEMMA GrantedKeepsLock ==
  ASSUME TypeOK, LockDiscipline, NEW c \in Conns, Granted(c)
  PROVE  LockDiscipline'
<1>1. /\ pc \in [Conns -> Labels] /\ pc' = [pc EXCEPT ![c] = "crit"]
      /\ owner = c /\ UNCHANGED lockVars /\ c \notin Waiting
  BY DEF TypeOK, VarTypes, Granted, Goto, LockDiscipline
<1> QED BY <1>1 DEF LockDiscipline, Waiting, lockVars

\* What a step does to the lock.
LockStep(c) ==
  \/ Acquire(c) \/ Granted(c)
  \/ \E l \in Labels : Move(c, l) \/ Leave(c, l)

LEMMA LockShape ==
  ASSUME TypeOK, LockDiscipline, [Next]_vars
  PROVE  UNCHANGED <<pc, lockVars>> \/ \E c \in Conns : LockStep(c)
<1>0. \A c \in Conns : HandlerType(c) /\ (owner = c => pc[c] \in Holding)
  BY DEF TypeOK, HandlerTypes, LockDiscipline, Holding
<1>1. CASE UNCHANGED vars
  BY <1>1 DEF vars, handlerVars
<1>2. CASE Server \/ Signal
  BY <1>2 DEF Server, Signal, IdleTimerFires, ShutdownBegins, CloseNext, StopListening, Stop, handlerVars
<1>3. ASSUME NEW c \in Conns, Network(c) PROVE UNCHANGED <<pc, lockVars>>
  BY <1>3 DEF Network, Lose, PeerCloses, Stall, Drain, handlerVars
<1>4. ASSUME NEW c \in Conns, Enter(c) \/ (\E r \in Requests : Receive(c, r)) \/ EndOfFrames(c)
      PROVE  LockStep(c)
  <2>1. UNCHANGED lockVars /\ pc[c] \in {"off", "hello", "recv"}
    BY <1>4 DEF Enter, Connect, HelloFails, HelloAccepted, Receive, EndOfFrames, Wakes
  <2>2. \E l \in {"hello", "exit", "acquire", "route"} : Goto(c, l)
    BY <1>4 DEF Enter, Connect, HelloFails, HelloAccepted, Receive, EndOfFrames
  <2> QED BY <1>0, <2>1, <2>2 DEF LockStep, Move, Holding, Labels
<1>5. ASSUME NEW c \in Conns, RegisterRefused(c) PROVE LockStep(c)
  BY <1>0, <1>5 DEF RegisterRefused, InCrit, At, Reply, SendTo, LockStep, Move, Holding, Labels
<1>6. ASSUME NEW c \in Conns, Register(c) \/ Cleanup(c) \/ FanOutDone(c) \/ FanOutBreaks(c)
      PROVE  LockStep(c)
  <2>1. Release(c) /\ pc[c] \in {"crit", "fanout"}
    BY <1>6 DEF Register, Cleanup, FanOutDone, FanOutBreaks, Raise, InCrit, At
  <2>2. \E l \in {"sending", "done", "recv", "exit"} : Goto(c, l)
    BY <1>6 DEF Register, Cleanup, FanOutDone, FanOutBreaks, Raise, Reply, SendTo
  <2> QED BY <2>1, <2>2 DEF LockStep, Leave, Labels
<1>7. ASSUME NEW c \in Conns, Exit(c) PROVE LockStep(c)
  <2>1. UNCHANGED lockVars /\ pc[c] = "exit" /\ \E l \in {"done", "acquire"} : Goto(c, l)
    BY <1>7 DEF Exit, At
  <2> QED BY <1>0, <2>1 DEF LockStep, Move, Holding, Labels
<1>8. ASSUME NEW c \in Conns, Sending(c) PROVE LockStep(c)
  <2>1. pc[c] \in SendLabels /\ job[c].then \in {"recv", "exit", "fanout", "flag", "kicked", "close"}
    BY <1>0, <1>8 DEF Sending, Sent, SendDrains, SendTooLate, Drained, SendRaises, At, Wakes,
                      SendLabels, HandlerType
  <2>2. CASE SendDrains(c) \/ SendTooLate(c)
    <3>1. UNCHANGED lockVars /\ \E l \in {"draining", "ending"} : Goto(c, l)
      BY <2>2 DEF SendDrains, SendTooLate
    <3> QED BY <2>1, <3>1 DEF LockStep, Move, Holding, Labels, SendLabels
  <2>3. CASE Resume(c)
    <3>1. Goto(c, job[c].then)
      BY <2>3 DEF Resume
    <3>2. CASE job[c].then = "fanout"
      <4>1. UNCHANGED lockVars
        BY <2>3, <3>2 DEF Resume
      <4> QED BY <2>1, <3>1, <3>2, <4>1 DEF LockStep, Move, Holding, Labels, SendLabels
    <3>3. CASE job[c].then # "fanout"
      <4>1. Release(c)
        BY <2>3, <3>3 DEF Resume
      <4> QED BY <2>1, <3>1, <4>1 DEF LockStep, Leave, Labels, SendLabels
    <3> QED BY <3>2, <3>3
  <2>4. CASE Raise(c)
    BY <2>1, <2>4 DEF Raise, LockStep, Leave, Labels, SendLabels
  <2> QED BY <1>8, <2>2, <2>3, <2>4 DEF Sending, Sent, Drained, SendRaises
<1>9. ASSUME NEW c \in Conns, Routing(c) PROVE LockStep(c)
  <2>1. CASE FanOutDone(c) \/ FanOutBreaks(c)
    BY <1>6, <2>1
  <2>2. ASSUME UNCHANGED lockVars, pc[c] \in {"crit", "fanout"}, \E l \in {"sending", "fanout"} : Goto(c, l)
        PROVE  LockStep(c)
    BY <2>2 DEF LockStep, Move, Holding, Labels
  <2>3. ASSUME UNCHANGED lockVars, pc[c] \in {"route", "flag", "kicked", "close", "closing"},
               \E l \in {"sending", "fanout", "recv", "exit", "acquire", "closing"} : Goto(c, l)
        PROVE  LockStep(c)
    BY <1>0, <2>3 DEF LockStep, Move, Holding, Labels
  <2>4. CASE Subscribe(c) \/ Unsubscribe(c) \/ Publish(c) \/ ListChannels(c)
    BY <2>2, <2>4 DEF Subscribe, Unsubscribe, Publish, ListChannels, InCrit, At, Reply, SendTo
  <2>5. CASE KickRefused(c) \/ Kick(c) \/ \E x \in Conns \cup Sids : FanOutNext(c, x)
    BY <2>2, <2>5 DEF KickRefused, Kick, FanOutNext, InCrit, At, Reply, SendTo
  <2>6. CASE Answer(c) \/ SetShutdown(c) \/ AskLock(c) \/ RouteDirect(c) \/ RouteToAll(c)
    BY <2>3, <2>6 DEF Answer, SetShutdown, AskLock, RouteDirect, RouteToAll, At, Reply, SendTo
  <2>7. CASE NotifyKicked(c) \/ CloseKicked(c) \/ KickDone(c)
    BY <2>3, <2>7 DEF NotifyKicked, CloseKicked, KickDone, At, Wakes, SendTo
  <2> QED BY <1>9, <2>1, <2>4, <2>5, <2>6, <2>7 DEF Routing
<1>10. ASSUME NEW c \in Conns, Locking(c) PROVE LockStep(c)
  BY <1>5, <1>6, <1>10 DEF Locking, LockStep
<1> QED BY <1>1, <1>2, <1>3, <1>4, <1>7, <1>8, <1>9, <1>10 DEF Next, Handler

LEMMA LockDisciplineStep ==
  ASSUME TypeOK, LockDiscipline, [Next]_vars
  PROVE  LockDiscipline'
<1>1. CASE UNCHANGED <<pc, lockVars>>
  BY <1>1 DEF LockDiscipline, Waiting, lockVars
<1>2. ASSUME NEW c \in Conns, LockStep(c) PROVE LockDiscipline'
  BY <1>2, AcquireKeepsLock, GrantedKeepsLock, MoveKeepsLock, LeaveKeepsLock DEF LockStep
<1> QED BY <1>1, <1>2, LockShape

\* Whoever waits for self._lock is queued once or owns it, and only its owner
\* runs under it, for any number of handlers and of errors raised under it.
THEOREM LockSafe == Spec => []LockDiscipline
<1>1. ASSUME Init PROVE LockDiscipline
  <2>1. DOMAIN waiters = {}
    BY <1>1 DEF Init
  <2> QED BY <1>1, <2>1, ConnsAssumption DEF Init, LockDiscipline, Waiting
<1>2. TypeOK /\ LockDiscipline /\ [Next]_vars => LockDiscipline'
  BY LockDisciplineStep
<1> QED BY <1>1, <1>2, TypeCorrect, PTL DEF Spec
-----------------------------------------------------------------------------
(* publish loops over a set nobody else may change. *)

\* Where a publish has got to, the lock it holds and the set it loops over.
PublishState(c) ==
  job[c].req.op = "publish" =>
    /\ pc[c] \in {"route", "acquire", "queued", "crit"} => job[c].start = {}
    /\ pc[c] \notin {"flag", "kicked", "close", "closing"}
    /\ pc[c] = "fanout" => job[c].start # {}
    /\ pc[c] \in SendLabels =>
         job[c].then \in {"recv", "fanout"} /\ (job[c].then = "fanout" <=> job[c].start # {})
    /\ (pc[c] \in SendLabels \cup {"fanout"} /\ job[c].start # {}) =>
         owner = c /\ Subscribers(job[c].req.channel) = job[c].start

PublishStates == \A c \in Conns : PublishState(c)

\* A step of handler c as another handler e sees it.
Apart(c, e) ==
  /\ pc'[e] = pc[e] /\ job'[e] = job[e]
  /\ owner = e => owner' = e
  /\ channels' = channels \/ owner = c

LEMMA SendToKeeps ==
  ASSUME VarTypes, NEW c \in Conns, NEW d \in Conns, NEW label \in Labels, SendTo(c, d, label)
  PROVE  /\ pc'[c] = "sending" /\ job'[c].then = label
         /\ job'[c].req = job[c].req /\ job'[c].start = job[c].start
         /\ \A e \in Conns \ {c} : pc'[e] = pc[e] /\ job'[e] = job[e]
<1>1. job[c] \in Jobs /\ job \in [Conns -> Jobs] /\ pc \in [Conns -> Labels]
  BY DEF VarTypes
<1>2. job' = [job EXCEPT ![c] = [job[c] EXCEPT !.peer = d, !.then = label]]
  BY <1>1 DEF SendTo
<1>3. pc' = [pc EXCEPT ![c] = "sending"]
  BY DEF SendTo, Goto
<1>4. job'[c] = [job[c] EXCEPT !.peer = d, !.then = label]
  BY <1>1, <1>2
<1>5. job'[c].then = label /\ job'[c].req = job[c].req /\ job'[c].start = job[c].start
  BY <1>1, <1>4 DEF Jobs
<1> QED BY <1>1, <1>2, <1>3, <1>5

LEMMA ApartFrame ==
  ASSUME PublishStates, NEW c \in Conns, PublishState(c)', \A e \in Conns \ {c} : Apart(c, e)
  PROVE  PublishStates'
<1>1. ASSUME NEW e \in Conns \ {c} PROVE PublishState(e)'
  <2>1. PublishState(e) /\ Apart(c, e)
    BY DEF PublishStates
  <2>2. owner = e => channels' = channels
    BY <2>1 DEF Apart
  <2>3. (owner = e /\ Subscribers(job[e].req.channel) = job[e].start)
           => Subscribers(job[e].req.channel)' = job'[e].start
    BY <2>1, <2>2 DEF Apart, Subscribers
  <2> QED BY <2>1, <2>3 DEF PublishState, Apart
<1> QED BY <1>1 DEF PublishStates

LEMMA HandsOff ==
  ASSUME LockDiscipline, NEW c \in Conns, NEW e \in Conns \ {c},
         UNCHANGED lockVars \/ Release(c) \/ (Acquire(c) /\ owner' \in {owner, c})
  PROVE  owner = e => owner' = e
BY ConnsAssumption DEF lockVars, Release, Acquire

\* Steps that leave the channels and the lock alone, or hand the lock on.
LEMMA PublishStateQuiet ==
  ASSUME TypeOK, LockDiscipline, PublishStates, NEW c \in Conns,
         UNCHANGED channels, UNCHANGED lockVars \/ Release(c),
         \A e \in Conns \ {c} : pc'[e] = pc[e] /\ job'[e] = job[e],
         \/ job'[c].req.op # "publish"
         \/ pc'[c] \in {"off", "hello", "recv", "exit", "done"}
  PROVE  PublishStates'
<1>1. \A e \in Conns \ {c} : Apart(c, e)
  BY HandsOff DEF Apart
<1>2. PublishState(c)'
  BY DEF PublishState, SendLabels
<1> QED BY <1>1, <1>2, ApartFrame

LEMMA PublishEnter ==
  ASSUME TypeOK, LockDiscipline, PublishStates, NEW c \in Conns,
         Enter(c) \/ EndOfFrames(c) \/ Exit(c) \/ SetShutdown(c) \/ KickDone(c)
  PROVE  PublishStates'
<1>0. pc \in [Conns -> Labels] /\ job \in [Conns -> Jobs]
  BY DEF TypeOK, VarTypes
<1>1. CASE Connect(c) \/ HelloFails(c) \/ EndOfFrames(c)
  <2>1. UNCHANGED <<channels, lockVars, job>> /\ \E l \in {"hello", "exit"} : Goto(c, l)
    BY <1>1 DEF Connect, HelloFails, EndOfFrames, busVars
  <2> QED BY <1>0, <2>1, PublishStateQuiet DEF Goto
<1>2. ASSUME NEW h \in Hellos, HelloAccepted(c, h) PROVE PublishStates'
  <2>1. /\ UNCHANGED <<channels, lockVars>> /\ Goto(c, "acquire")
        /\ job' = [job EXCEPT ![c] = [job[c] EXCEPT !.req = [op |-> "register"]]]
    BY <1>0, <1>2 DEF HelloAccepted, busVars
  <2>2. job'[c].req.op # "publish"
    BY <1>0, <2>1 DEF Jobs
  <2> QED BY <1>0, <2>1, <2>2, PublishStateQuiet DEF Goto
<1>3. CASE Exit(c) \/ SetShutdown(c) \/ KickDone(c)
  <2>1. UNCHANGED <<channels, lockVars>>
    BY <1>3 DEF Exit, SetShutdown, KickDone, busVars
  <2>2. \E l \in {"done", "acquire", "recv"} : Goto(c, l)
    BY <1>3 DEF Exit, SetShutdown, KickDone
  <2>3. \E j \in {NoJob, [NoJob EXCEPT !.req = [op |-> "cleanup"]]} : job' = [job EXCEPT ![c] = j]
    BY <1>3 DEF Exit, SetShutdown, KickDone
  <2>4. job'[c].req.op # "publish"
    BY <1>0, <2>3 DEF NoJob
  <2> QED BY <1>0, <2>1, <2>2, <2>3, <2>4, PublishStateQuiet DEF Goto
<1> QED BY <1>1, <1>2, <1>3 DEF Enter

LEMMA PublishRegister ==
  ASSUME TypeOK, LockDiscipline, PublishStates, NEW c \in Conns,
         RegisterRefused(c) \/ Register(c) \/ ListChannels(c) \/ KickRefused(c) \/ RouteDirect(c)
           \/ NotifyKicked(c)
  PROVE  PublishStates'
<1>0. VarTypes
  BY DEF TypeOK
<1>1. UNCHANGED channels /\ (UNCHANGED lockVars \/ Release(c))
  BY DEF RegisterRefused, Register, ListChannels, KickRefused, RouteDirect, NotifyKicked, busVars
<1>2. job[c].req.op # "publish"
  BY DEF RegisterRefused, Register, ListChannels, KickRefused, RouteDirect, NotifyKicked, InCrit, At,
         PublishStates, PublishState
<1>3. \E d \in Conns, l \in Labels : SendTo(c, d, l)
  BY DEF RegisterRefused, Register, ListChannels, KickRefused, RouteDirect, NotifyKicked, Reply, Labels,
         ResolveTarget, Registered, At, TypeOK, HandlerTypes, HandlerType
<1> QED BY <1>0, <1>1, <1>2, <1>3, SendToKeeps, PublishStateQuiet

LEMMA PublishLoops ==
  ASSUME TypeOK, LockDiscipline, PublishStates, NEW c \in Conns,
         RouteToAll(c) \/ CloseKicked(c) \/ FanOutDone(c) \/ FanOutBreaks(c)
  PROVE  PublishStates'
<1>0. pc \in [Conns -> Labels] /\ job \in [Conns -> Jobs]
  BY DEF TypeOK, VarTypes
<1>1. UNCHANGED channels /\ (UNCHANGED lockVars \/ Release(c))
  BY DEF RouteToAll, CloseKicked, FanOutDone, FanOutBreaks, Raise, busVars
<1>2. \E l \in {"fanout", "closing", "recv", "exit"} : Goto(c, l)
  BY DEF RouteToAll, CloseKicked, FanOutDone, FanOutBreaks, Raise
<1>3. \A e \in Conns \ {c} : pc'[e] = pc[e] /\ job'[e] = job[e]
  BY <1>0, <1>2 DEF RouteToAll, CloseKicked, FanOutDone, FanOutBreaks, Goto
<1>4. CASE RouteToAll(c)
  <2>1. job'[c] = [job[c] EXCEPT !.start = Registered] /\ job[c].req.op # "publish"
    BY <1>0, <1>4 DEF RouteToAll
  <2>2. job'[c].req = job[c].req
    BY <1>0, <2>1 DEF Jobs
  <2> QED BY <1>1, <1>3, <2>1, <2>2, PublishStateQuiet
<1>5. CASE CloseKicked(c)
  <2>1. job' = job /\ pc[c] = "close"
    BY <1>5 DEF CloseKicked, At
  <2> QED BY <1>1, <1>3, <2>1, PublishStateQuiet DEF PublishStates, PublishState
<1>6. CASE FanOutDone(c) \/ FanOutBreaks(c)
  <2>1. pc'[c] \in {"recv", "exit"}
    BY <1>0, <1>6 DEF FanOutDone, FanOutBreaks, Raise, Goto
  <2> QED BY <1>1, <1>3, <2>1, PublishStateQuiet
<1> QED BY <1>4, <1>5, <1>6

\* The operations that change the channels do so while they hold the lock.
LEMMA PublishChannels ==
  ASSUME TypeOK, LockDiscipline, PublishStates, NEW c \in Conns,
         Cleanup(c) \/ Subscribe(c) \/ Unsubscribe(c) \/ Kick(c)
  PROVE  PublishStates'
<1>0. VarTypes /\ pc \in [Conns -> Labels] /\ job \in [Conns -> Jobs] /\ owner = c
  BY DEF TypeOK, VarTypes, LockDiscipline, Cleanup, Subscribe, Unsubscribe, Kick, InCrit, At
<1>1. job'[c].req.op # "publish" /\ \A e \in Conns \ {c} : pc'[e] = pc[e] /\ job'[e] = job[e]
  <2>1. CASE Cleanup(c)
    BY <1>0, <2>1 DEF Cleanup, Goto, NoJob
  <2>2. CASE Subscribe(c) \/ Unsubscribe(c)
    <3>1. job[c].req.op # "publish" /\ SendTo(c, c, "recv")
      BY <2>2 DEF Subscribe, Unsubscribe, InCrit, Reply
    <3> QED BY <1>0, <3>1, SendToKeeps DEF Labels
  <2>3. CASE Kick(c)
    <3>1. PICK d \in Conns :
            job' = [job EXCEPT ![c] = [job[c] EXCEPT !.victim = d, !.peer = c, !.then = "kicked"]]
      <4>1. PICK d \in KickTargets(job[c].req.who) :
              job' = [job EXCEPT ![c].victim = d, ![c].peer = c, ![c].then = "kicked"]
        BY <2>3 DEF Kick
      <4>2. d \in Conns
        BY DEF KickTargets, Registered
      <4> QED BY <1>0, <4>1, <4>2
    <3>2. job[c].req.op = "kick" /\ job[c] \in Jobs
      BY <1>0, <2>3 DEF Kick, InCrit
    <3>3. job'[c] = [job[c] EXCEPT !.victim = d, !.peer = c, !.then = "kicked"]
      BY <1>0, <3>1
    <3>4. job'[c].req = job[c].req
      BY <3>2, <3>3 DEF Jobs
    <3> QED BY <1>0, <2>3, <3>1, <3>2, <3>4 DEF Kick, Goto
  <2> QED BY <2>1, <2>2, <2>3
<1>2. \A e \in Conns \ {c} : Apart(c, e)
  BY <1>0, <1>1 DEF Apart
<1>3. PublishState(c)'
  BY <1>1 DEF PublishState
<1> QED BY <1>2, <1>3, ApartFrame

\* A publish on its way to the lock.
LEMMA PublishArrives ==
  ASSUME TypeOK, LockDiscipline, PublishStates, NEW c \in Conns,
         (\E r \in Requests : Receive(c, r)) \/ AskLock(c) \/ Acquire(c) \/ Granted(c)
  PROVE  PublishStates'
<1>0. pc \in [Conns -> Labels] /\ job \in [Conns -> Jobs] /\ PublishState(c)
  BY DEF TypeOK, VarTypes, PublishStates
<1>1. UNCHANGED channels
  BY DEF Receive, AskLock, Acquire, Granted, busVars
<1>2. \E l \in {"route", "acquire", "queued", "crit"} : Goto(c, l)
  BY DEF Receive, AskLock, Acquire, Granted
<1>3. \A e \in Conns \ {c} : owner = e => owner' = e
  BY ConnsAssumption, HandsOff DEF Receive, AskLock, Acquire, Granted, lockVars
<1>4. \A e \in Conns \ {c} : pc'[e] = pc[e] /\ job'[e] = job[e]
  BY <1>0, <1>2 DEF Receive, AskLock, Acquire, Granted, Goto
<1>5. job'[c].req.op = "publish" => job'[c].start = {}
  <2>1. ASSUME NEW r \in Requests, Receive(c, r) PROVE job'[c].start = {}
    <3>1. job'[c] = [NoJob EXCEPT !.req = r]
      BY <1>0, <2>1 DEF Receive
    <3> QED BY <3>1 DEF NoJob
  <2>2. CASE AskLock(c) \/ Acquire(c) \/ Granted(c)
    BY <1>0, <2>2 DEF AskLock, Acquire, Granted, At, Wakes, PublishState
  <2> QED BY <2>1, <2>2
<1>6. PublishState(c)'
  BY <1>0, <1>2, <1>5 DEF PublishState, Goto, SendLabels
<1>7. \A e \in Conns \ {c} : Apart(c, e)
  BY <1>1, <1>3, <1>4 DEF Apart
<1> QED BY <1>6, <1>7, ApartFrame

LEMMA PublishRuns ==
  ASSUME TypeOK, LockDiscipline, PublishStates, NEW c \in Conns,
         Answer(c) \/ Publish(c) \/ \E x \in Conns \cup Sids : FanOutNext(c, x)
  PROVE  PublishStates'
<1>0. VarTypes /\ pc \in [Conns -> Labels] /\ job \in [Conns -> Jobs] /\ PublishState(c)
  BY SMTT(30) DEF TypeOK, VarTypes, PublishStates
<1>1. UNCHANGED <<channels, lockVars>>
  BY DEF Answer, Publish, FanOutNext, busVars
<1>2. ASSUME PublishState(c)', \A e \in Conns \ {c} : pc'[e] = pc[e] /\ job'[e] = job[e]
      PROVE  PublishStates'
  BY <1>1, <1>2, ApartFrame DEF Apart, lockVars
<1>3. ASSUME NEW l \in {"recv", "exit", "flag"}, Reply(c, l), pc[c] \in {"route", "crit"},
             l = "recv" \/ job[c].req.op # "publish"
      PROVE  PublishStates'
  <2>1. /\ pc'[c] = "sending" /\ job'[c].then = l
        /\ job'[c].req = job[c].req /\ job'[c].start = job[c].start
        /\ \A e \in Conns \ {c} : pc'[e] = pc[e] /\ job'[e] = job[e]
    BY <1>0, <1>3, SendToKeeps DEF Reply, Labels
  <2>2. PublishState(c)'
    BY <1>0, <1>3, <2>1 DEF PublishState, SendLabels
  <2> QED BY <1>2, <2>1, <2>2
<1>4. CASE Answer(c)
  <2>1. CASE Goto(c, "exit") /\ UNCHANGED job
    BY <1>0, <1>1, <2>1, PublishStateQuiet DEF Goto
  <2>2. CASE \E l \in {"recv", "exit", "flag"} :
               Reply(c, l) /\ (l = "recv" \/ job[c].req.op # "publish")
    BY <1>3, <1>4, <2>2 DEF Answer, At
  <2> QED BY <1>4, <2>1, <2>2 DEF Answer
<1>5. CASE Publish(c)
  <2>1. CASE Reply(c, "recv")
    BY <1>3, <1>5, <2>1 DEF Publish, InCrit, At
  <2>2. CASE /\ Subscribers(job[c].req.channel) # {}
             /\ job' = [job EXCEPT ![c].start = Subscribers(job[c].req.channel)]
             /\ Goto(c, "fanout")
    <3>1. /\ job' = [job EXCEPT ![c] = [job[c] EXCEPT !.start = Subscribers(job[c].req.channel)]]
          /\ pc' = [pc EXCEPT ![c] = "fanout"]
      BY <1>0, <2>2 DEF Goto
    <3>2. job'[c].req = job[c].req /\ job'[c].start = Subscribers(job[c].req.channel)
      BY <1>0, <3>1 DEF Jobs
    <3>3. owner' = c
      BY <1>1, <1>5 DEF Publish, InCrit, At, LockDiscipline, lockVars
    <3>4. Subscribers(job[c].req.channel)' = Subscribers(job[c].req.channel)
      BY <1>1, <3>2 DEF Subscribers
    <3>5. PublishState(c)'
      BY <1>0, <2>2, <3>1, <3>2, <3>3, <3>4 DEF PublishState, SendLabels
    <3> QED BY <1>0, <1>2, <3>1, <3>5
  <2> QED BY <1>5, <2>1, <2>2 DEF Publish
<1>6. ASSUME NEW x \in Conns \cup Sids, FanOutNext(c, x) PROVE PublishStates'
  <2> DEFINE j == [job[c] EXCEPT !.seen = @ \cup {x}, !.peer = Recipient(c, x), !.then = "fanout"]
  <2>1. job' = [job EXCEPT ![c] = j] /\ pc' = [pc EXCEPT ![c] = "sending"] /\ pc[c] = "fanout"
    BY <1>0, <1>6 DEF FanOutNext, Goto, At
  <2>2. j.req = job[c].req /\ j.start = job[c].start /\ j.then = "fanout"
    BY <1>0 DEF Jobs
  <2>3. job'[c] = j /\ pc'[c] = "sending" /\ \A e \in Conns \ {c} : pc'[e] = pc[e] /\ job'[e] = job[e]
    BY <1>0, <2>1
  <2> HIDE DEF j
  <2>4. Subscribers(job[c].req.channel)' = Subscribers(job[c].req.channel)
    BY <1>1, <2>2, <2>3 DEF Subscribers
  <2>5. PublishState(c)'
    BY <1>0, <1>1, <2>1, <2>2, <2>3, <2>4 DEF PublishState, SendLabels, lockVars
  <2> QED BY <1>2, <2>3, <2>5
<1> QED BY <1>4, <1>5, <1>6

LEMMA PublishSends ==
  ASSUME TypeOK, LockDiscipline, PublishStates, NEW c \in Conns, Sending(c)
  PROVE  PublishStates'
<1>0. pc \in [Conns -> Labels] /\ job \in [Conns -> Jobs] /\ PublishState(c)
  BY DEF TypeOK, VarTypes, PublishStates
<1>1. UNCHANGED channels /\ pc[c] \in SendLabels
  BY DEF Sending, Sent, SendDrains, SendTooLate, Drained, SendRaises, At, Wakes, SendLabels, busVars
<1>2. CASE SendDrains(c) \/ SendTooLate(c)
  <2>1. /\ UNCHANGED <<job, lockVars>>
        /\ \E l \in {"draining", "ending"} : pc' = [pc EXCEPT ![c] = l]
    BY <1>2 DEF SendDrains, SendTooLate, Goto
  <2>2. PublishState(c)'
    BY <1>0, <1>1, <2>1 DEF PublishState, SendLabels, lockVars, Subscribers
  <2>3. \A e \in Conns \ {c} : Apart(c, e)
    BY <1>0, <1>1, <2>1 DEF Apart, lockVars
  <2> QED BY <2>2, <2>3, ApartFrame
<1>3. CASE Resume(c)
  <2>1. pc' = [pc EXCEPT ![c] = job[c].then]
    BY <1>3 DEF Resume, Goto
  <2>2. CASE job[c].then = "fanout"
    <3>1. UNCHANGED <<lockVars, job>>
      BY <1>3, <2>2 DEF Resume
    <3>2. PublishState(c)'
      BY <1>0, <1>1, <2>1, <2>2, <3>1 DEF PublishState, SendLabels, lockVars, Subscribers
    <3>3. \A e \in Conns \ {c} : Apart(c, e)
      BY <1>0, <1>1, <2>1, <3>1 DEF Apart, lockVars
    <3> QED BY <3>2, <3>3, ApartFrame
  <2>3. CASE job[c].then # "fanout"
    <3>1. Release(c)
      BY <1>3, <2>3 DEF Resume
    <3>2. \A e \in Conns \ {c} : pc'[e] = pc[e] /\ job'[e] = job[e]
      BY <1>0, <1>3, <2>1 DEF Resume
    <3>3. job[c].req.op = "publish" => job[c].then = "recv"
      BY <1>0, <1>1, <2>3 DEF PublishState
    <3>4. job'[c].req.op = "publish" => job[c].req.op = "publish" /\ job'[c].req = job[c].req
      BY <1>0, <1>3 DEF Resume, NoJob
    <3>5. pc'[c] = job[c].then
      BY <1>0, <2>1
    <3> QED BY <1>1, <3>1, <3>2, <3>3, <3>4, <3>5, PublishStateQuiet
  <2> QED BY <2>2, <2>3
<1>4. CASE Raise(c) /\ UNCHANGED job
  <2>1. Release(c) /\ pc' = [pc EXCEPT ![c] = "exit"]
    BY <1>4 DEF Raise, Goto
  <2> QED BY <1>0, <1>1, <1>4, <2>1, PublishStateQuiet
<1> QED BY <1>2, <1>3, <1>4 DEF Sending, Sent, Drained, SendRaises

LEMMA PublishStep ==
  ASSUME TypeOK, LockDiscipline, PublishStates, [Next]_vars
  PROVE  PublishStates'
<1>1. ASSUME UNCHANGED <<handlerVars, busVars, lockVars>> PROVE PublishStates'
  BY <1>1 DEF PublishStates, PublishState, Subscribers, handlerVars, busVars, lockVars, SendLabels
<1>2. CASE UNCHANGED vars \/ Server \/ Signal
  BY <1>1, <1>2 DEF vars, Server, Signal, IdleTimerFires, ShutdownBegins, CloseNext, StopListening, Stop
<1>3. ASSUME NEW c \in Conns, Network(c) PROVE PublishStates'
  BY <1>1, <1>3 DEF Network, Lose, PeerCloses, Stall, Drain
<1>4. ASSUME NEW c \in Conns, Routing(c) PROVE PublishStates'
  BY <1>4, PublishEnter, PublishRegister, PublishLoops, PublishChannels, PublishArrives, PublishRuns
     DEF Routing
<1>5. ASSUME NEW c \in Conns, Locking(c) PROVE PublishStates'
  BY <1>5, PublishRegister, PublishChannels, PublishArrives DEF Locking
<1>6. ASSUME NEW c \in Conns,
             Enter(c) \/ (\E r \in Requests : Receive(c, r)) \/ Sending(c) \/ EndOfFrames(c) \/ Exit(c)
      PROVE  PublishStates'
  BY <1>6, PublishEnter, PublishArrives, PublishSends
<1> QED BY <1>2, <1>3, <1>4, <1>5, <1>6 DEF Next, Handler

\* The set a publish iterates over is the channel's set of subscribers from the
\* first send to the last, however long the subscribers take.
THEOREM PublishSafe == Spec => []PublishSetStable
<1>1. Init => PublishStates
  BY DEF Init, PublishStates, PublishState, NoJob
<1>2. TypeOK /\ LockDiscipline /\ PublishStates /\ [Next]_vars => PublishStates'
  BY PublishStep
<1>3. PublishStates => PublishSetStable
  BY DEF PublishStates, PublishState, PublishSetStable, SendLabels
<1> QED BY <1>1, <1>2, <1>3, TypeCorrect, LockSafe, PTL DEF Spec
=============================================================================
