-------------------------- MODULE BusServer_proofs --------------------------
(* Safety of BusServer for every set of connections, sessions, channels and *)
(* every limit, checked by TLAPS.                                           *)
EXTENDS BusServer, TLAPS

\* What a request carries, by its operation.
LEMMA RequestFields ==
  ASSUME NEW r \in AllRequests \cup Internal
  PROVE  r.op \in {"subscribe", "unsubscribe", "publish"} => r.channel \in Channels
BY DEF AllRequests, Internal

LEMMA RequestOps ==
  ASSUME NEW r \in Requests
  PROVE  r \in AllRequests \cup Internal /\ r.op \notin {"register", "cleanup", "none"}
BY InputsAssumption DEF AllRequests

LEMMA NoJobTyped == NoJob \in Jobs /\ \A r \in AllRequests \cup Internal : [NoJob EXCEPT !.req = r] \in Jobs
BY DEF Jobs, NoJob, Internal, Labels

LEMMA InternalTyped ==
  [op |-> "register"] \in AllRequests \cup Internal /\ [op |-> "cleanup"] \in AllRequests \cup Internal
BY DEF Internal

LEMMA InitTypes == Init => TypeOK
<1> SUFFICES ASSUME Init PROVE TypeOK
  OBVIOUS
<1>1. VarTypes
  <2>1. job \in [Conns -> Jobs]
    BY NoJobTyped DEF Init
  <2>2. channels \in [DOMAIN channels -> SUBSET Sids] /\ DOMAIN channels = {}
    BY DEF Init
  <2>3. subscriptions \in [DOMAIN subscriptions -> SUBSET Channels] /\ DOMAIN subscriptions = {}
    BY DEF Init
  <2>4. frames \in 0..FrameBound
    BY BoundsAssumption DEF Init
  <2>5. pc \in [Conns -> Labels]
    BY DEF Init, Labels
  <2>6. waiters \in Seq(Conns)
    BY DEF Init
  <2> QED
    BY <2>1, <2>2, <2>3, <2>4, <2>5, <2>6 DEF Init, VarTypes
<1>2. HandlerTypes
  BY DEF Init, HandlerTypes, HandlerType, NoJob, SendLabels
<1> QED BY <1>1, <1>2 DEF TypeOK

-----------------------------------------------------------------------------
(* What the control-flow operators do to the types. *)

LEMMA GotoTyped ==
  ASSUME VarTypes, NEW c \in Conns, NEW label \in Labels, Goto(c, label)
  PROVE  pc' \in [Conns -> Labels] /\ pc'[c] = label
BY DEF VarTypes, Goto

LEMMA JobStart ==
  ASSUME NEW j \in Jobs, NEW X \in SUBSET (Conns \cup Sids)
  PROVE  [j EXCEPT !.start = X] \in Jobs
BY DEF Jobs

LEMMA JobRequest ==
  ASSUME NEW j \in Jobs, NEW r \in AllRequests \cup Internal
  PROVE  [j EXCEPT !.req = r] \in Jobs
BY DEF Jobs

LEMMA JobSeen ==
  ASSUME NEW j \in Jobs, NEW x \in Conns \cup Sids, NEW d \in Conns, NEW label \in Labels
  PROVE  [j EXCEPT !.seen = @ \cup {x}, !.peer = d, !.then = label] \in Jobs
BY DEF Jobs

LEMMA JobVictim ==
  ASSUME NEW j \in Jobs, NEW d \in Conns, NEW e \in Conns, NEW label \in Labels
  PROVE  [j EXCEPT !.victim = d, !.peer = e, !.then = label] \in Jobs
BY DEF Jobs

LEMMA JobTyped ==
  ASSUME VarTypes, NEW c \in Conns, NEW j \in Jobs
  PROVE  [job EXCEPT ![c] = j] \in [Conns -> Jobs] /\ job[c] \in Jobs
BY DEF VarTypes

LEMMA IdentityFields ==
  ASSUME NEW h \in Hellos
  PROVE  h.sid \in Sids /\ h.role \in Roles
BY InputsAssumption DEF Identities

LEMMA SendToTyped ==
  ASSUME VarTypes, NEW c \in Conns, NEW d \in Conns, NEW label \in Labels, SendTo(c, d, label)
  PROVE  /\ pc' \in [Conns -> Labels] /\ pc'[c] = "sending"
         /\ job' \in [Conns -> Jobs]
         /\ job'[c].peer = d /\ job'[c].then = label
         /\ job'[c].req = job[c].req /\ job'[c].victim = job[c].victim
<1>1. pc' \in [Conns -> Labels] /\ pc'[c] = "sending"
  BY DEF VarTypes, SendTo, Goto, Labels
<1>2. job[c] \in Jobs /\ job \in [Conns -> Jobs]
  BY DEF VarTypes
<1>3. job' = [job EXCEPT ![c] = [job[c] EXCEPT !.peer = d, !.then = label]]
  BY <1>2 DEF SendTo
<1>4. [job[c] EXCEPT !.peer = d, !.then = label] \in Jobs
  BY <1>2 DEF Jobs
<1>5. job' \in [Conns -> Jobs] /\ job'[c] = [job[c] EXCEPT !.peer = d, !.then = label]
  BY <1>2, <1>3, <1>4
<1> QED BY <1>1, <1>2, <1>5 DEF Jobs

LEMMA ReleaseTyped ==
  ASSUME VarTypes, NEW c \in Conns, Release(c)
  PROVE  owner' \in Conns \cup {None} /\ waiters' \in Seq(Conns)
<1>1. waiters \in Seq(Conns) /\ owner \in Conns \cup {None}
  BY DEF VarTypes
<1>2. CASE owner = c /\ waiters # <<>>
  <2>1. Head(waiters) \in Conns /\ Tail(waiters) \in Seq(Conns)
    BY <1>1, <1>2
  <2> QED BY <1>1, <1>2, <2>1 DEF Release
<1>3. CASE owner # c \/ waiters = <<>>
  BY <1>1, <1>3 DEF Release, lockVars
<1> QED BY <1>2, <1>3

LEMMA ResumeTyped ==
  ASSUME TypeOK, NEW c \in Conns, pc[c] \in SendLabels, Resume(c)
  PROVE  /\ pc' \in [Conns -> Labels] /\ job' \in [Conns -> Jobs]
         /\ owner' \in Conns \cup {None} /\ waiters' \in Seq(Conns)
         /\ current' \in Conns \cup {None}
<1>1. job[c].then \in Labels /\ VarTypes
  BY DEF TypeOK, HandlerTypes, HandlerType, Labels
<1>2. pc' \in [Conns -> Labels]
  BY <1>1, GotoTyped DEF Resume
<1>3. job' \in [Conns -> Jobs]
  BY <1>1, NoJobTyped DEF Resume, VarTypes
<1>4. owner' \in Conns \cup {None} /\ waiters' \in Seq(Conns)
  BY <1>1, ReleaseTyped DEF Resume, VarTypes, lockVars
<1> QED BY <1>2, <1>3, <1>4 DEF Resume

LEMMA DiscardTyped ==
  ASSUME VarTypes, NEW chs, NEW s
  PROVE  /\ DOMAIN Discard(chs, s) \subseteq Channels
         /\ Discard(chs, s) \in [DOMAIN Discard(chs, s) -> SUBSET Sids]
<1>1. ASSUME NEW ch \in DOMAIN Discard(chs, s)
      PROVE  ch \in DOMAIN channels /\ Discard(chs, s)[ch] \subseteq channels[ch]
  BY <1>1 DEF Discard
<1> QED BY <1>1 DEF VarTypes, Discard

LEMMA ForgetTyped ==
  ASSUME VarTypes, NEW s, ForgetSubscriptions(s)
  PROVE  /\ DOMAIN channels' \subseteq Channels
         /\ channels' \in [DOMAIN channels' -> SUBSET Sids]
         /\ DOMAIN subscriptions' \subseteq Sids
         /\ subscriptions' \in [DOMAIN subscriptions' -> SUBSET Channels]
<1>1. DOMAIN channels' \subseteq Channels /\ channels' \in [DOMAIN channels' -> SUBSET Sids]
  BY DiscardTyped DEF ForgetSubscriptions
<1> QED BY <1>1 DEF ForgetSubscriptions, Without, VarTypes

(* One lemma per action. *)

\* A step of one handler leaves the locals of the others alone.
SameHandler(e) ==
  pc'[e] = pc[e] /\ hello'[e] = hello[e] /\ sid'[e] = sid[e] /\ job'[e] = job[e]

LEMMA FrameRule ==
  ASSUME TypeOK, NEW c \in Conns, VarTypes', HandlerType(c)',
         \A e \in Conns \ {c} : SameHandler(e)
  PROVE  TypeOK'
<1> SUFFICES ASSUME NEW e \in Conns, e # c PROVE HandlerType(e)'
  BY DEF TypeOK, HandlerTypes
<1> QED BY DEF TypeOK, HandlerTypes, HandlerType, SameHandler

LEMMA LoseTypes ==
  ASSUME TypeOK, NEW c \in Conns, Lose(c)
  PROVE  TypeOK'
<1>0. VarTypes /\ HandlerType(c)
  BY DEF TypeOK, HandlerTypes
<1>1. VarTypes'
  BY <1>0, NoJobTyped, InternalTyped, InputsAssumption
     DEF Lose, VarTypes, Labels, netVars, handlerVars, busVars, lockVars, mainVars
<1>2. HandlerType(c)'
  BY <1>0, InputsAssumption DEF Lose, VarTypes, HandlerType, SendLabels, netVars, handlerVars, busVars, lockVars, mainVars, NoJob
<1>3. \A e \in Conns \ {c} : SameHandler(e)
  BY <1>0 DEF Lose, SameHandler, VarTypes, handlerVars
<1> QED BY <1>1, <1>2, <1>3, FrameRule

LEMMA PeerClosesTypes ==
  ASSUME TypeOK, NEW c \in Conns, PeerCloses(c)
  PROVE  TypeOK'
<1>0. VarTypes /\ HandlerType(c)
  BY DEF TypeOK, HandlerTypes
<1>1. VarTypes'
  BY <1>0, NoJobTyped, InternalTyped, InputsAssumption
     DEF PeerCloses, VarTypes, Labels, netVars, handlerVars, busVars, lockVars, mainVars
<1>2. HandlerType(c)'
  BY <1>0, InputsAssumption DEF PeerCloses, VarTypes, HandlerType, SendLabels, netVars, handlerVars, busVars, lockVars, mainVars, NoJob
<1>3. \A e \in Conns \ {c} : SameHandler(e)
  BY <1>0 DEF PeerCloses, SameHandler, VarTypes, handlerVars
<1> QED BY <1>1, <1>2, <1>3, FrameRule

LEMMA StallTypes ==
  ASSUME TypeOK, NEW c \in Conns, Stall(c)
  PROVE  TypeOK'
<1>0. VarTypes /\ HandlerType(c)
  BY DEF TypeOK, HandlerTypes
<1>1. VarTypes'
  BY <1>0, NoJobTyped, InternalTyped, InputsAssumption
     DEF Stall, VarTypes, Labels, netVars, handlerVars, busVars, lockVars, mainVars
<1>2. HandlerType(c)'
  BY <1>0, InputsAssumption DEF Stall, VarTypes, HandlerType, SendLabels, netVars, handlerVars, busVars, lockVars, mainVars, NoJob
<1>3. \A e \in Conns \ {c} : SameHandler(e)
  BY <1>0 DEF Stall, SameHandler, VarTypes, handlerVars
<1> QED BY <1>1, <1>2, <1>3, FrameRule

LEMMA DrainTypes ==
  ASSUME TypeOK, NEW c \in Conns, Drain(c)
  PROVE  TypeOK'
<1>0. VarTypes /\ HandlerType(c)
  BY DEF TypeOK, HandlerTypes
<1>1. VarTypes'
  BY <1>0, NoJobTyped, InternalTyped, InputsAssumption
     DEF Drain, VarTypes, Labels, netVars, handlerVars, busVars, lockVars, mainVars
<1>2. HandlerType(c)'
  BY <1>0, InputsAssumption DEF Drain, VarTypes, HandlerType, SendLabels, netVars, handlerVars, busVars, lockVars, mainVars, NoJob
<1>3. \A e \in Conns \ {c} : SameHandler(e)
  BY <1>0 DEF Drain, SameHandler, VarTypes, handlerVars
<1> QED BY <1>1, <1>2, <1>3, FrameRule

LEMMA ConnectTypes ==
  ASSUME TypeOK, NEW c \in Conns, Connect(c)
  PROVE  TypeOK'
<1>0. VarTypes /\ HandlerType(c)
  BY DEF TypeOK, HandlerTypes
<1>1. VarTypes'
  BY <1>0, NoJobTyped, InternalTyped, InputsAssumption, GotoTyped
     DEF Connect, VarTypes, Labels, netVars, handlerVars, busVars, lockVars, mainVars
<1>2. HandlerType(c)'
  BY <1>0, InputsAssumption DEF Connect, Goto, VarTypes, HandlerType, SendLabels, netVars, handlerVars, busVars, lockVars, mainVars, NoJob
<1>3. \A e \in Conns \ {c} : SameHandler(e)
  BY <1>0 DEF Connect, Goto, SameHandler, VarTypes, handlerVars
<1> QED BY <1>1, <1>2, <1>3, FrameRule

LEMMA HelloFailsTypes ==
  ASSUME TypeOK, NEW c \in Conns, HelloFails(c)
  PROVE  TypeOK'
<1>0. VarTypes /\ HandlerType(c)
  BY DEF TypeOK, HandlerTypes
<1>1. VarTypes'
  BY <1>0, NoJobTyped, InternalTyped, InputsAssumption, GotoTyped
     DEF HelloFails, Wakes, VarTypes, Labels, netVars, handlerVars, busVars, lockVars, mainVars
<1>2. HandlerType(c)'
  BY <1>0, InputsAssumption DEF HelloFails, Goto, Wakes, VarTypes, HandlerType, SendLabels, netVars, handlerVars, busVars, lockVars, mainVars, NoJob
<1>3. \A e \in Conns \ {c} : SameHandler(e)
  BY <1>0 DEF HelloFails, Goto, Wakes, SameHandler, VarTypes, handlerVars
<1> QED BY <1>1, <1>2, <1>3, FrameRule

LEMMA HelloAcceptedTypes ==
  ASSUME TypeOK, NEW c \in Conns, NEW h \in Hellos, HelloAccepted(c, h)
  PROVE  TypeOK'
<1>0. VarTypes /\ HandlerType(c)
  BY DEF TypeOK, HandlerTypes
<1>1. VarTypes'
  <2>1. [job[c] EXCEPT !.req = [op |-> "register"]] \in Jobs
    <3>1. job[c] \in Jobs
      BY <1>0 DEF VarTypes
    <3>2. \A r \in AllRequests \cup Internal : [job[c] EXCEPT !.req = r] \in Jobs
      BY <3>1, JobRequest
    <3> QED BY <3>2, InternalTyped
  <2>2. job' \in [Conns -> Jobs]
    BY <1>0, <2>1, JobTyped DEF HelloAccepted
  <2> QED
    BY <1>0, <2>2, GotoTyped DEF HelloAccepted, VarTypes, Labels, netVars, handlerVars, busVars, lockVars, mainVars
<1>2. HandlerType(c)'
  BY <1>0, InputsAssumption DEF HelloAccepted, Goto, Wakes, VarTypes, HandlerType, SendLabels, netVars, handlerVars, busVars, lockVars, mainVars, NoJob
<1>3. \A e \in Conns \ {c} : SameHandler(e)
  BY <1>0 DEF HelloAccepted, Goto, Wakes, SameHandler, VarTypes, handlerVars
<1> QED BY <1>1, <1>2, <1>3, FrameRule

LEMMA AcquireTypes ==
  ASSUME TypeOK, NEW c \in Conns, Acquire(c)
  PROVE  TypeOK'
<1>0. VarTypes /\ HandlerType(c)
  BY DEF TypeOK, HandlerTypes
<1>1. VarTypes'
  <2>1. pc' \in [Conns -> Labels]
    BY <1>0, GotoTyped DEF Acquire, Labels
  <2>2. waiters' \in Seq(Conns) /\ owner' \in Conns \cup {None} /\ current' \in Conns \cup {None}
    BY <1>0 DEF Acquire, At, VarTypes
  <2> QED
    BY <1>0, <2>1, <2>2 DEF Acquire, VarTypes, netVars, handlerVars, busVars, mainVars
<1>2. HandlerType(c)'
  BY <1>0, InputsAssumption DEF Acquire, At, Goto, VarTypes, HandlerType, SendLabels, netVars, handlerVars, busVars, lockVars, mainVars, NoJob
<1>3. \A e \in Conns \ {c} : SameHandler(e)
  BY <1>0 DEF Acquire, At, Goto, SameHandler, VarTypes, handlerVars
<1> QED BY <1>1, <1>2, <1>3, FrameRule

LEMMA GrantedTypes ==
  ASSUME TypeOK, NEW c \in Conns, Granted(c)
  PROVE  TypeOK'
<1>0. VarTypes /\ HandlerType(c)
  BY DEF TypeOK, HandlerTypes
<1>1. VarTypes'
  BY <1>0, NoJobTyped, InternalTyped, InputsAssumption, GotoTyped
     DEF Granted, Wakes, VarTypes, Labels, netVars, handlerVars, busVars, lockVars, mainVars
<1>2. HandlerType(c)'
  BY <1>0, InputsAssumption DEF Granted, Wakes, Goto, VarTypes, HandlerType, SendLabels, netVars, handlerVars, busVars, lockVars, mainVars, NoJob
<1>3. \A e \in Conns \ {c} : SameHandler(e)
  BY <1>0 DEF Granted, Wakes, Goto, SameHandler, VarTypes, handlerVars
<1> QED BY <1>1, <1>2, <1>3, FrameRule

LEMMA RegisterRefusedTypes ==
  ASSUME TypeOK, NEW c \in Conns, RegisterRefused(c)
  PROVE  TypeOK'
<1>0. VarTypes /\ HandlerType(c)
  BY DEF TypeOK, HandlerTypes
<1>1. VarTypes'
  <2>1. hello[c].sid \in Sids
    BY <1>0, IdentityFields DEF RegisterRefused, InCrit, HandlerType
  <2>2. pc' \in [Conns -> Labels] /\ job' \in [Conns -> Jobs]
    BY <1>0, SendToTyped DEF RegisterRefused, Reply, Labels
  <2>3. sid' \in [Conns -> Sids \cup {None}]
    BY <1>0, <2>1 DEF RegisterRefused, VarTypes
  <2> QED
    BY <1>0, <2>2, <2>3 DEF RegisterRefused, VarTypes, netVars, busVars, lockVars, mainVars
<1>2. HandlerType(c)'
  BY <1>0, InputsAssumption DEF RegisterRefused, InCrit, At, Reply, SendTo, Goto, VarTypes, HandlerType, SendLabels, netVars, handlerVars, busVars, lockVars, mainVars, NoJob
<1>3. \A e \in Conns \ {c} : SameHandler(e)
  BY <1>0 DEF RegisterRefused, InCrit, At, Reply, SendTo, Goto, SameHandler, VarTypes, handlerVars
<1> QED BY <1>1, <1>2, <1>3, FrameRule

LEMMA RegisterTypes ==
  ASSUME TypeOK, NEW c \in Conns, Register(c)
  PROVE  TypeOK'
<1>0. VarTypes /\ HandlerType(c)
  BY DEF TypeOK, HandlerTypes
<1>1. VarTypes'
  <2>1. hello[c].sid \in Sids
    BY <1>0, IdentityFields DEF Register, InCrit, HandlerType
  <2>2. pc' \in [Conns -> Labels] /\ job' \in [Conns -> Jobs]
    BY <1>0, SendToTyped DEF Register, Reply, Labels
  <2>3. sid' \in [Conns -> Sids \cup {None}] /\ registry' \in [Sids -> Conns \cup {None}]
    BY <1>0, <2>1 DEF Register, VarTypes
  <2>4. owner' \in Conns \cup {None} /\ waiters' \in Seq(Conns)
    BY <1>0, ReleaseTyped DEF Register
  <2> QED
    BY <1>0, <2>2, <2>3, <2>4 DEF Register, VarTypes, netVars, mainVars
<1>2. HandlerType(c)'
  <2>1. hello[c] \in Hellos /\ hello[c].sid \in Sids /\ job[c].req.op = "register"
    BY <1>0, IdentityFields DEF Register, InCrit, HandlerType
  <2>2. pc'[c] = "sending" /\ job'[c].peer = c /\ job'[c].then = "recv" /\ job'[c].req = job[c].req
    BY <1>0, SendToTyped DEF Register, Reply, Labels
  <2>3. sid'[c] = hello[c].sid /\ hello' = hello
    BY <1>0 DEF Register, VarTypes
  <2> QED
    BY <2>1, <2>2, <2>3 DEF HandlerType, SendLabels
<1>3. \A e \in Conns \ {c} : SameHandler(e)
  BY <1>0 DEF Register, InCrit, At, Reply, SendTo, Goto, Release, SameHandler, VarTypes, handlerVars
<1> QED BY <1>1, <1>2, <1>3, FrameRule

LEMMA CleanupTypes ==
  ASSUME TypeOK, NEW c \in Conns, Cleanup(c)
  PROVE  TypeOK'
<1>0. VarTypes /\ HandlerType(c)
  BY DEF TypeOK, HandlerTypes
<1>1. VarTypes'
  BY <1>0, NoJobTyped, InternalTyped, InputsAssumption, GotoTyped, ReleaseTyped, ForgetTyped
     DEF Cleanup, InCrit, At, Unregister, ScheduleIfEmpty, Hangup, VarTypes, Labels, netVars, handlerVars, busVars, lockVars, mainVars
<1>2. HandlerType(c)'
  BY <1>0, InputsAssumption DEF Cleanup, InCrit, At, Goto, Release, ForgetSubscriptions, Unregister, Without, Discard, ScheduleIfEmpty, Hangup, Subs, VarTypes, HandlerType, SendLabels, netVars, handlerVars, busVars, lockVars, mainVars, NoJob
<1>3. \A e \in Conns \ {c} : SameHandler(e)
  BY <1>0 DEF Cleanup, InCrit, At, Goto, Release, ForgetSubscriptions, Unregister, Without, Discard, ScheduleIfEmpty, Hangup, Subs, SameHandler, VarTypes, handlerVars
<1> QED BY <1>1, <1>2, <1>3, FrameRule

LEMMA ExitTypes ==
  ASSUME TypeOK, NEW c \in Conns, Exit(c)
  PROVE  TypeOK'
<1>0. VarTypes /\ HandlerType(c)
  BY DEF TypeOK, HandlerTypes
<1>1. VarTypes'
  <2>1. [NoJob EXCEPT !.req = [op |-> "cleanup"]] \in Jobs /\ NoJob \in Jobs
    BY NoJobTyped, InternalTyped
  <2>2. job' \in [Conns -> Jobs]
    BY <1>0, <2>1, JobTyped DEF Exit
  <2>3. pc' \in [Conns -> Labels]
    BY <1>0, GotoTyped DEF Exit, Labels
  <2> QED
    BY <1>0, <2>2, <2>3 DEF Exit, At, Hangup, ScheduleIfEmpty, VarTypes, lockVars
<1>2. HandlerType(c)'
  BY <1>0, InputsAssumption DEF Exit, At, Goto, Hangup, ScheduleIfEmpty, VarTypes, HandlerType, SendLabels, netVars, handlerVars, busVars, lockVars, mainVars, NoJob
<1>3. \A e \in Conns \ {c} : SameHandler(e)
  BY <1>0 DEF Exit, At, Goto, Hangup, ScheduleIfEmpty, SameHandler, VarTypes, handlerVars
<1> QED BY <1>1, <1>2, <1>3, FrameRule

LEMMA SentTypes ==
  ASSUME TypeOK, NEW c \in Conns, Sent(c)
  PROVE  TypeOK'
<1>0. VarTypes /\ HandlerType(c)
  BY DEF TypeOK, HandlerTypes
<1>1. VarTypes'
  BY <1>0, NoJobTyped, InternalTyped, InputsAssumption, GotoTyped, ResumeTyped, ReleaseTyped
     DEF Sent, At, SendLabels, VarTypes, Labels, netVars, handlerVars, busVars, lockVars, mainVars
<1>2. HandlerType(c)'
  BY <1>0, InputsAssumption DEF Sent, At, Resume, Release, Goto, VarTypes, HandlerType, SendLabels, netVars, handlerVars, busVars, lockVars, mainVars, NoJob
<1>3. \A e \in Conns \ {c} : SameHandler(e)
  BY <1>0 DEF Sent, At, Resume, Release, Goto, SameHandler, VarTypes, handlerVars
<1> QED BY <1>1, <1>2, <1>3, FrameRule

LEMMA SendDrainsTypes ==
  ASSUME TypeOK, NEW c \in Conns, SendDrains(c)
  PROVE  TypeOK'
<1>0. VarTypes /\ HandlerType(c)
  BY DEF TypeOK, HandlerTypes
<1>1. VarTypes'
  BY <1>0, NoJobTyped, InternalTyped, InputsAssumption, GotoTyped
     DEF SendDrains, At, VarTypes, Labels, netVars, handlerVars, busVars, lockVars, mainVars
<1>2. HandlerType(c)'
  BY <1>0, InputsAssumption DEF SendDrains, At, Goto, VarTypes, HandlerType, SendLabels, netVars, handlerVars, busVars, lockVars, mainVars, NoJob
<1>3. \A e \in Conns \ {c} : SameHandler(e)
  BY <1>0 DEF SendDrains, At, Goto, SameHandler, VarTypes, handlerVars
<1> QED BY <1>1, <1>2, <1>3, FrameRule

LEMMA SendTooLateTypes ==
  ASSUME TypeOK, NEW c \in Conns, SendTooLate(c)
  PROVE  TypeOK'
<1>0. VarTypes /\ HandlerType(c)
  BY DEF TypeOK, HandlerTypes
<1>1. VarTypes'
  BY <1>0, NoJobTyped, InternalTyped, InputsAssumption, GotoTyped
     DEF SendTooLate, At, VarTypes, Labels, netVars, handlerVars, busVars, lockVars, mainVars
<1>2. HandlerType(c)'
  BY <1>0, InputsAssumption DEF SendTooLate, At, Goto, VarTypes, HandlerType, SendLabels, netVars, handlerVars, busVars, lockVars, mainVars, NoJob
<1>3. \A e \in Conns \ {c} : SameHandler(e)
  BY <1>0 DEF SendTooLate, At, Goto, SameHandler, VarTypes, handlerVars
<1> QED BY <1>1, <1>2, <1>3, FrameRule

LEMMA DrainedTypes ==
  ASSUME TypeOK, NEW c \in Conns, Drained(c)
  PROVE  TypeOK'
<1>0. VarTypes /\ HandlerType(c)
  BY DEF TypeOK, HandlerTypes
<1>1. VarTypes'
  BY <1>0, NoJobTyped, InternalTyped, InputsAssumption, GotoTyped, ResumeTyped, ReleaseTyped
     DEF Drained, Wakes, SendLabels, VarTypes, Labels, netVars, handlerVars, busVars, lockVars, mainVars
<1>2. HandlerType(c)'
  BY <1>0, InputsAssumption DEF Drained, Wakes, Resume, Release, Goto, VarTypes, HandlerType, SendLabels, netVars, handlerVars, busVars, lockVars, mainVars, NoJob
<1>3. \A e \in Conns \ {c} : SameHandler(e)
  BY <1>0 DEF Drained, Wakes, Resume, Release, Goto, SameHandler, VarTypes, handlerVars
<1> QED BY <1>1, <1>2, <1>3, FrameRule

LEMMA SendRaisesTypes ==
  ASSUME TypeOK, NEW c \in Conns, SendRaises(c)
  PROVE  TypeOK'
<1>0. VarTypes /\ HandlerType(c)
  BY DEF TypeOK, HandlerTypes
<1>1. VarTypes'
  BY <1>0, NoJobTyped, InternalTyped, InputsAssumption, GotoTyped, ResumeTyped, ReleaseTyped
     DEF SendRaises, At, Wakes, Raise, Swallows, SendLabels, VarTypes, Labels, netVars, handlerVars, busVars, lockVars, mainVars
<1>2. HandlerType(c)'
  BY <1>0, InputsAssumption DEF SendRaises, At, Wakes, Resume, Release, Goto, Raise, Swallows, VarTypes, HandlerType, SendLabels, netVars, handlerVars, busVars, lockVars, mainVars, NoJob
<1>3. \A e \in Conns \ {c} : SameHandler(e)
  BY <1>0 DEF SendRaises, At, Wakes, Resume, Release, Goto, Raise, Swallows, SameHandler, VarTypes, handlerVars
<1> QED BY <1>1, <1>2, <1>3, FrameRule

LEMMA EndOfFramesTypes ==
  ASSUME TypeOK, NEW c \in Conns, EndOfFrames(c)
  PROVE  TypeOK'
<1>0. VarTypes /\ HandlerType(c)
  BY DEF TypeOK, HandlerTypes
<1>1. VarTypes'
  BY <1>0, NoJobTyped, InternalTyped, InputsAssumption, GotoTyped
     DEF EndOfFrames, Wakes, VarTypes, Labels, netVars, handlerVars, busVars, lockVars, mainVars
<1>2. HandlerType(c)'
  BY <1>0, InputsAssumption DEF EndOfFrames, Wakes, Goto, VarTypes, HandlerType, SendLabels, netVars, handlerVars, busVars, lockVars, mainVars, NoJob
<1>3. \A e \in Conns \ {c} : SameHandler(e)
  BY <1>0 DEF EndOfFrames, Wakes, Goto, SameHandler, VarTypes, handlerVars
<1> QED BY <1>1, <1>2, <1>3, FrameRule

LEMMA ReceiveTypes ==
  ASSUME TypeOK, NEW c \in Conns, NEW r \in Requests, Receive(c, r)
  PROVE  TypeOK'
<1>0. VarTypes /\ HandlerType(c)
  BY DEF TypeOK, HandlerTypes
<1>1. VarTypes'
  <2>1. job' \in [Conns -> Jobs]
    BY <1>0, NoJobTyped, RequestOps, JobTyped DEF Receive
  <2>2. frames' \in 0..FrameBound
    BY <1>0, BoundsAssumption DEF Receive, VarTypes
  <2> QED
    BY <1>0, <2>1, <2>2, GotoTyped DEF Receive, VarTypes, Labels, netVars, handlerVars, busVars, lockVars, mainVars
<1>2. HandlerType(c)'
  <2>1. job'[c].req = r /\ job'[c].then = "off" /\ pc'[c] = "route"
    BY <1>0 DEF Receive, Goto, NoJob, VarTypes
  <2> QED
    BY <1>0, <2>1, RequestOps DEF Receive, Wakes, HandlerType, SendLabels
<1>3. \A e \in Conns \ {c} : SameHandler(e)
  BY <1>0 DEF Receive, Wakes, Goto, SameHandler, VarTypes, handlerVars
<1> QED BY <1>1, <1>2, <1>3, FrameRule

LEMMA AnswerTypes ==
  ASSUME TypeOK, NEW c \in Conns, Answer(c)
  PROVE  TypeOK'
<1>0. VarTypes /\ HandlerType(c)
  BY DEF TypeOK, HandlerTypes
<1>1. /\ sid[c] \in Sids /\ pc[c] = "route"
      /\ UNCHANGED <<netVars, hello, sid, busVars, lockVars, mainVars, kicked, current>>
  BY <1>0 DEF Answer, At, HandlerType
<1>2. ASSUME NEW label \in {"recv", "exit", "flag"}, Reply(c, label)
      PROVE  TypeOK'
  <2>1. /\ pc' \in [Conns -> Labels] /\ pc'[c] = "sending"
        /\ job' \in [Conns -> Jobs] /\ job'[c].peer = c /\ job'[c].then = label
        /\ job'[c].req = job[c].req /\ job'[c].victim = job[c].victim
    BY <1>0, <1>2, SendToTyped DEF Reply, Labels
  <2>2. VarTypes'
    BY <1>0, <1>1, <2>1 DEF VarTypes, netVars, busVars, lockVars, mainVars
  <2>3. HandlerType(c)'
    BY <1>0, <1>1, <2>1 DEF HandlerType, SendLabels
  <2>4. \A e \in Conns \ {c} : SameHandler(e)
    BY <1>0, <1>1, <1>2 DEF Reply, SendTo, Goto, SameHandler, VarTypes
  <2> QED BY <2>2, <2>3, <2>4, FrameRule
<1>3. CASE Goto(c, "exit") /\ UNCHANGED job
  <2>1. VarTypes'
    BY <1>0, <1>1, <1>3, GotoTyped DEF VarTypes, Labels, netVars, busVars, lockVars, mainVars
  <2>2. HandlerType(c)'
    BY <1>0, <1>1, <1>3 DEF Goto, VarTypes, HandlerType, SendLabels
  <2>3. \A e \in Conns \ {c} : SameHandler(e)
    BY <1>0, <1>1, <1>3 DEF Goto, SameHandler, VarTypes
  <2> QED BY <2>1, <2>2, <2>3, FrameRule
<1> QED BY <1>2, <1>3 DEF Answer

LEMMA SetShutdownTypes ==
  ASSUME TypeOK, NEW c \in Conns, SetShutdown(c)
  PROVE  TypeOK'
<1>0. VarTypes /\ HandlerType(c)
  BY DEF TypeOK, HandlerTypes
<1>1. VarTypes'
  BY <1>0, NoJobTyped, InternalTyped, InputsAssumption, GotoTyped
     DEF SetShutdown, At, VarTypes, Labels, netVars, handlerVars, busVars, lockVars, mainVars
<1>2. HandlerType(c)'
  BY <1>0, InputsAssumption DEF SetShutdown, At, Goto, VarTypes, HandlerType, SendLabels, netVars, handlerVars, busVars, lockVars, mainVars, NoJob
<1>3. \A e \in Conns \ {c} : SameHandler(e)
  BY <1>0 DEF SetShutdown, At, Goto, SameHandler, VarTypes, handlerVars
<1> QED BY <1>1, <1>2, <1>3, FrameRule

LEMMA AskLockTypes ==
  ASSUME TypeOK, NEW c \in Conns, AskLock(c)
  PROVE  TypeOK'
<1>0. VarTypes /\ HandlerType(c)
  BY DEF TypeOK, HandlerTypes
<1>1. VarTypes'
  BY <1>0, NoJobTyped, InternalTyped, InputsAssumption, GotoTyped
     DEF AskLock, At, LockedOps, VarTypes, Labels, netVars, handlerVars, busVars, lockVars, mainVars
<1>2. HandlerType(c)'
  BY <1>0, InputsAssumption DEF AskLock, At, Goto, LockedOps, VarTypes, HandlerType, SendLabels, netVars, handlerVars, busVars, lockVars, mainVars, NoJob
<1>3. \A e \in Conns \ {c} : SameHandler(e)
  BY <1>0 DEF AskLock, At, Goto, LockedOps, SameHandler, VarTypes, handlerVars
<1> QED BY <1>1, <1>2, <1>3, FrameRule

LEMMA RouteDirectTypes ==
  ASSUME TypeOK, NEW c \in Conns, RouteDirect(c)
  PROVE  TypeOK'
<1>0. VarTypes /\ HandlerType(c)
  BY DEF TypeOK, HandlerTypes
<1>1. PICK d \in Conns : SendTo(c, d, "recv")
  BY DEF RouteDirect, Reply, ResolveTarget, Registered
<1>2. /\ pc' \in [Conns -> Labels] /\ pc'[c] = "sending"
      /\ job' \in [Conns -> Jobs] /\ job'[c].peer = d /\ job'[c].then = "recv"
      /\ job'[c].req = job[c].req /\ job'[c].victim = job[c].victim
  BY <1>0, <1>1, SendToTyped DEF Labels
<1>3. UNCHANGED <<netVars, hello, sid, busVars, lockVars, mainVars, kicked, current>>
  BY DEF RouteDirect
<1>4. VarTypes'
  BY <1>0, <1>2, <1>3 DEF VarTypes, netVars, busVars, lockVars, mainVars
<1>5. HandlerType(c)'
  <2>1. sid[c] \in Sids
    BY <1>0 DEF RouteDirect, At, HandlerType
  <2> QED
    BY <1>0, <1>2, <1>3, <2>1 DEF HandlerType, SendLabels
<1>6. \A e \in Conns \ {c} : SameHandler(e)
  BY <1>0, <1>1, <1>3 DEF SendTo, Goto, SameHandler, VarTypes
<1> QED BY <1>4, <1>5, <1>6, FrameRule

LEMMA RouteToAllTypes ==
  ASSUME TypeOK, NEW c \in Conns, RouteToAll(c)
  PROVE  TypeOK'
<1>0. VarTypes /\ HandlerType(c)
  BY DEF TypeOK, HandlerTypes
<1>1. VarTypes'
  <2>1. [job[c] EXCEPT !.start = Registered] \in Jobs
    BY <1>0, JobStart DEF VarTypes, Registered
  <2>2. job' \in [Conns -> Jobs]
    BY <1>0, <2>1, JobTyped DEF RouteToAll
  <2> QED
    BY <1>0, <2>2, GotoTyped DEF RouteToAll, VarTypes, Labels, netVars, handlerVars, busVars, lockVars, mainVars
<1>2. HandlerType(c)'
  BY <1>0, InputsAssumption DEF RouteToAll, At, Goto, Registered, VarTypes, HandlerType, SendLabels, netVars, handlerVars, busVars, lockVars, mainVars, NoJob
<1>3. \A e \in Conns \ {c} : SameHandler(e)
  BY <1>0 DEF RouteToAll, At, Goto, Registered, SameHandler, VarTypes, handlerVars
<1> QED BY <1>1, <1>2, <1>3, FrameRule

LEMMA SubscribeTypes ==
  ASSUME TypeOK, NEW c \in Conns, Subscribe(c)
  PROVE  TypeOK'
<1>0. VarTypes /\ HandlerType(c)
  BY DEF TypeOK, HandlerTypes
<1>1. VarTypes'
  <2>1. sid[c] \in Sids /\ job[c].req.channel \in Channels
    BY <1>0, RequestFields DEF Subscribe, InCrit, HandlerType, VarTypes, Jobs
  <2>2. pc' \in [Conns -> Labels] /\ job' \in [Conns -> Jobs]
    BY <1>0, SendToTyped DEF Subscribe, Reply, Labels
  <2>3. Subs(sid[c]) \subseteq Channels /\ Subscribers(job[c].req.channel) \subseteq Sids
    BY <1>0 DEF VarTypes, Subs, Subscribers
  <2>4. /\ DOMAIN subscriptions' \subseteq Sids
        /\ subscriptions' \in [DOMAIN subscriptions' -> SUBSET Channels]
    BY <1>0, <2>1, <2>3 DEF Subscribe, With, VarTypes
  <2>5. DOMAIN channels' \subseteq Channels /\ channels' \in [DOMAIN channels' -> SUBSET Sids]
    BY <1>0, <2>1, <2>3 DEF Subscribe, With, VarTypes
  <2> QED
    BY <1>0, <2>2, <2>4, <2>5 DEF Subscribe, VarTypes, netVars, lockVars, mainVars
<1>2. HandlerType(c)'
  BY <1>0, InputsAssumption DEF Subscribe, InCrit, At, Reply, SendTo, Goto, With, Subs, Subscribers, VarTypes, HandlerType, SendLabels, netVars, handlerVars, busVars, lockVars, mainVars, NoJob
<1>3. \A e \in Conns \ {c} : SameHandler(e)
  BY <1>0 DEF Subscribe, InCrit, At, Reply, SendTo, Goto, With, Subs, Subscribers, SameHandler, VarTypes, handlerVars
<1> QED BY <1>1, <1>2, <1>3, FrameRule

LEMMA UnsubscribeTypes ==
  ASSUME TypeOK, NEW c \in Conns, Unsubscribe(c)
  PROVE  TypeOK'
<1>0. VarTypes /\ HandlerType(c)
  BY DEF TypeOK, HandlerTypes
<1>1. VarTypes'
  <2>1. pc' \in [Conns -> Labels] /\ job' \in [Conns -> Jobs]
    BY <1>0, SendToTyped DEF Unsubscribe, Reply, Labels
  <2>2. Subs(sid[c]) \subseteq Channels
    BY <1>0 DEF VarTypes, Subs
  <2>3. /\ DOMAIN subscriptions' \subseteq Sids
        /\ subscriptions' \in [DOMAIN subscriptions' -> SUBSET Channels]
    <3>1. CASE job[c].req.channel \notin Subs(sid[c])
      BY <1>0, <3>1 DEF Unsubscribe, VarTypes
    <3>2. CASE job[c].req.channel \in Subs(sid[c])
      <4>1. sid[c] \in Sids
        BY <1>0 DEF Unsubscribe, InCrit, HandlerType
      <4> QED
        BY <1>0, <2>2, <3>2, <4>1 DEF Unsubscribe, With, Without, VarTypes
    <3> QED BY <3>1, <3>2
  <2>4. DOMAIN channels' \subseteq Channels /\ channels' \in [DOMAIN channels' -> SUBSET Sids]
    BY <1>0, DiscardTyped DEF Unsubscribe, VarTypes
  <2> QED
    BY <1>0, <2>1, <2>3, <2>4 DEF Unsubscribe, VarTypes, netVars, lockVars, mainVars
<1>2. HandlerType(c)'
  BY <1>0, InputsAssumption DEF Unsubscribe, InCrit, At, Reply, SendTo, Goto, With, Without, Discard, Subs, Subscribers, VarTypes, HandlerType, SendLabels, netVars, handlerVars, busVars, lockVars, mainVars, NoJob
<1>3. \A e \in Conns \ {c} : SameHandler(e)
  BY <1>0 DEF Unsubscribe, InCrit, At, Reply, SendTo, Goto, With, Without, Discard, Subs, Subscribers, SameHandler, VarTypes, handlerVars
<1> QED BY <1>1, <1>2, <1>3, FrameRule

LEMMA PublishTypes ==
  ASSUME TypeOK, NEW c \in Conns, Publish(c)
  PROVE  TypeOK'
<1>0. VarTypes /\ HandlerType(c)
  BY DEF TypeOK, HandlerTypes
<1>1. VarTypes'
  <2>1. CASE Reply(c, "recv")
    BY <1>0, <2>1, SendToTyped DEF Publish, Reply, VarTypes, Labels, netVars, handlerVars, busVars, lockVars, mainVars
  <2>2. CASE /\ job' = [job EXCEPT ![c].start = Subscribers(job[c].req.channel)]
             /\ Goto(c, "fanout")
    <3>1. [job[c] EXCEPT !.start = Subscribers(job[c].req.channel)] \in Jobs
      <4>1. Subscribers(job[c].req.channel) \in SUBSET (Conns \cup Sids)
        BY <1>0 DEF VarTypes, Subscribers
      <4> QED BY <1>0, <4>1, JobStart DEF VarTypes
    <3>2. job' \in [Conns -> Jobs]
      BY <1>0, <2>2, <3>1, JobTyped
    <3> QED
      BY <1>0, <2>2, <3>2, GotoTyped DEF Publish, VarTypes, Labels, netVars, handlerVars, busVars, lockVars, mainVars
  <2> QED BY <2>1, <2>2 DEF Publish
<1>2. HandlerType(c)'
  <2>1. sid[c] \in Sids /\ sid' = sid /\ hello' = hello
    BY <1>0 DEF Publish, InCrit, HandlerType
  <2>2. CASE Reply(c, "recv")
    <3>1. /\ pc'[c] = "sending" /\ job'[c].peer = c /\ job'[c].then = "recv"
          /\ job'[c].req = job[c].req /\ job'[c].victim = job[c].victim
      BY <1>0, <2>2, SendToTyped DEF Reply, Labels
    <3> QED
      BY <1>0, <2>1, <3>1 DEF HandlerType, SendLabels
  <2>3. CASE /\ job' = [job EXCEPT ![c].start = Subscribers(job[c].req.channel)]
             /\ Goto(c, "fanout")
    BY <1>0, <2>1, <2>3 DEF Goto, VarTypes, Jobs, HandlerType, SendLabels
  <2> QED BY <2>2, <2>3 DEF Publish
<1>3. \A e \in Conns \ {c} : SameHandler(e)
  BY <1>0 DEF Publish, InCrit, At, Reply, SendTo, Goto, Subscribers, SameHandler, VarTypes, handlerVars
<1> QED BY <1>1, <1>2, <1>3, FrameRule

LEMMA ListChannelsTypes ==
  ASSUME TypeOK, NEW c \in Conns, ListChannels(c)
  PROVE  TypeOK'
<1>0. VarTypes /\ HandlerType(c)
  BY DEF TypeOK, HandlerTypes
<1>1. VarTypes'
  BY <1>0, NoJobTyped, InternalTyped, InputsAssumption, SendToTyped, GotoTyped
     DEF ListChannels, InCrit, At, Reply, VarTypes, Labels, netVars, handlerVars, busVars, lockVars, mainVars
<1>2. HandlerType(c)'
  BY <1>0, InputsAssumption DEF ListChannels, InCrit, At, Reply, SendTo, Goto, VarTypes, HandlerType, SendLabels, netVars, handlerVars, busVars, lockVars, mainVars, NoJob
<1>3. \A e \in Conns \ {c} : SameHandler(e)
  BY <1>0 DEF ListChannels, InCrit, At, Reply, SendTo, Goto, SameHandler, VarTypes, handlerVars
<1> QED BY <1>1, <1>2, <1>3, FrameRule

LEMMA KickRefusedTypes ==
  ASSUME TypeOK, NEW c \in Conns, KickRefused(c)
  PROVE  TypeOK'
<1>0. VarTypes /\ HandlerType(c)
  BY DEF TypeOK, HandlerTypes
<1>1. VarTypes'
  BY <1>0, NoJobTyped, InternalTyped, InputsAssumption, SendToTyped, GotoTyped
     DEF KickRefused, InCrit, At, Reply, VarTypes, Labels, netVars, handlerVars, busVars, lockVars, mainVars
<1>2. HandlerType(c)'
  BY <1>0, InputsAssumption DEF KickRefused, InCrit, At, Reply, SendTo, Goto, VarTypes, HandlerType, SendLabels, netVars, handlerVars, busVars, lockVars, mainVars, NoJob
<1>3. \A e \in Conns \ {c} : SameHandler(e)
  BY <1>0 DEF KickRefused, InCrit, At, Reply, SendTo, Goto, SameHandler, VarTypes, handlerVars
<1> QED BY <1>1, <1>2, <1>3, FrameRule

LEMMA KickTypes ==
  ASSUME TypeOK, NEW c \in Conns, Kick(c)
  PROVE  TypeOK'
<1>0. VarTypes /\ HandlerType(c)
  BY DEF TypeOK, HandlerTypes
<1>1. VarTypes'
  <2>1. PICK d \in Conns :
          /\ Unregister(hello[d].sid) /\ ForgetSubscriptions(hello[d].sid)
          /\ kicked' = kicked \cup {d}
          /\ job' = [job EXCEPT ![c].victim = d, ![c].peer = c, ![c].then = "kicked"]
    BY DEF Kick, KickTargets, Registered
  <2>2. job' = [job EXCEPT ![c] = [job[c] EXCEPT !.victim = d, !.peer = c, !.then = "kicked"]]
    BY <1>0, <2>1 DEF VarTypes
  <2>3. [job[c] EXCEPT !.victim = d, !.peer = c, !.then = "kicked"] \in Jobs
    BY <1>0, JobVictim DEF VarTypes, Labels
  <2>4. job' \in [Conns -> Jobs]
    BY <1>0, <2>2, <2>3, JobTyped
  <2>5. registry' \in [Sids -> Conns \cup {None}] /\ kicked' \subseteq Conns
    BY <1>0, <2>1 DEF Unregister, VarTypes
  <2> QED
    BY <1>0, <2>1, <2>4, <2>5, ForgetTyped, GotoTyped DEF Kick, VarTypes, Labels, netVars, handlerVars, busVars, lockVars, mainVars
<1>2. HandlerType(c)'
  BY <1>0, InputsAssumption DEF Kick, InCrit, At, Goto, ForgetSubscriptions, Unregister, Without, Discard, Subs, KickTargets, Registered, VarTypes, HandlerType, SendLabels, netVars, handlerVars, busVars, lockVars, mainVars, NoJob
<1>3. \A e \in Conns \ {c} : SameHandler(e)
  BY <1>0 DEF Kick, InCrit, At, Goto, ForgetSubscriptions, Unregister, Without, Discard, Subs, KickTargets, Registered, SameHandler, VarTypes, handlerVars
<1> QED BY <1>1, <1>2, <1>3, FrameRule

LEMMA NotifyKickedTypes ==
  ASSUME TypeOK, NEW c \in Conns, NotifyKicked(c)
  PROVE  TypeOK'
<1>0. VarTypes /\ HandlerType(c)
  BY DEF TypeOK, HandlerTypes
<1>1. VarTypes'
  <2>1. job[c].victim \in Conns
    BY <1>0 DEF NotifyKicked, At, HandlerType
  <2> QED
    BY <1>0, <2>1, SendToTyped DEF NotifyKicked, VarTypes, Labels, netVars, handlerVars, busVars, lockVars, mainVars
<1>2. HandlerType(c)'
  BY <1>0, InputsAssumption DEF NotifyKicked, At, SendTo, Goto, VarTypes, HandlerType, SendLabels, netVars, handlerVars, busVars, lockVars, mainVars, NoJob
<1>3. \A e \in Conns \ {c} : SameHandler(e)
  BY <1>0 DEF NotifyKicked, At, SendTo, Goto, SameHandler, VarTypes, handlerVars
<1> QED BY <1>1, <1>2, <1>3, FrameRule

LEMMA CloseKickedTypes ==
  ASSUME TypeOK, NEW c \in Conns, CloseKicked(c)
  PROVE  TypeOK'
<1>0. VarTypes /\ HandlerType(c)
  BY DEF TypeOK, HandlerTypes
<1>1. VarTypes'
  BY <1>0, NoJobTyped, InternalTyped, InputsAssumption, GotoTyped
     DEF CloseKicked, At, Hangup, VarTypes, Labels, netVars, handlerVars, busVars, lockVars, mainVars
<1>2. HandlerType(c)'
  BY <1>0, InputsAssumption DEF CloseKicked, At, Hangup, Goto, VarTypes, HandlerType, SendLabels, netVars, handlerVars, busVars, lockVars, mainVars, NoJob
<1>3. \A e \in Conns \ {c} : SameHandler(e)
  BY <1>0 DEF CloseKicked, At, Hangup, Goto, SameHandler, VarTypes, handlerVars
<1> QED BY <1>1, <1>2, <1>3, FrameRule

LEMMA KickDoneTypes ==
  ASSUME TypeOK, NEW c \in Conns, KickDone(c)
  PROVE  TypeOK'
<1>0. VarTypes /\ HandlerType(c)
  BY DEF TypeOK, HandlerTypes
<1>1. VarTypes'
  BY <1>0, NoJobTyped, InternalTyped, InputsAssumption, GotoTyped
     DEF KickDone, Wakes, ScheduleIfEmpty, VarTypes, Labels, netVars, handlerVars, busVars, lockVars, mainVars
<1>2. HandlerType(c)'
  BY <1>0, InputsAssumption DEF KickDone, Wakes, Goto, ScheduleIfEmpty, VarTypes, HandlerType, SendLabels, netVars, handlerVars, busVars, lockVars, mainVars, NoJob
<1>3. \A e \in Conns \ {c} : SameHandler(e)
  BY <1>0 DEF KickDone, Wakes, Goto, ScheduleIfEmpty, SameHandler, VarTypes, handlerVars
<1> QED BY <1>1, <1>2, <1>3, FrameRule

LEMMA FanOutNextTypes ==
  ASSUME TypeOK, NEW c \in Conns, NEW x \in Conns \cup Sids, FanOutNext(c, x)
  PROVE  TypeOK'
<1>0. VarTypes /\ HandlerType(c) /\ pc[c] = "fanout"
  BY DEF TypeOK, HandlerTypes, FanOutNext, At
<1> DEFINE d == Recipient(c, x)
<1>1. d \in Conns
  BY <1>0 DEF FanOutNext, Recipient, Live, Subscribers, Registered, VarTypes
<1>2. job' = [job EXCEPT ![c] = [job[c] EXCEPT !.seen = @ \cup {x}, !.peer = d, !.then = "fanout"]]
  BY <1>0 DEF FanOutNext, VarTypes
<1>3. [job[c] EXCEPT !.seen = @ \cup {x}, !.peer = d, !.then = "fanout"] \in Jobs
  BY <1>0, <1>1, JobSeen DEF VarTypes, Labels
<1>4. job' \in [Conns -> Jobs]
  BY <1>0, <1>2, <1>3, JobTyped
<1>5. VarTypes'
  BY <1>0, <1>4, GotoTyped DEF FanOutNext, VarTypes, Labels, netVars, busVars, lockVars, mainVars
<1>6. HandlerType(c)'
  <2>1. /\ job'[c].peer = d /\ job'[c].then = "fanout"
        /\ job'[c].req = job[c].req /\ job'[c].victim = job[c].victim
    BY <1>0, <1>2 DEF VarTypes, Jobs
  <2>2. pc'[c] = "sending" /\ UNCHANGED <<sid, hello>>
    BY <1>0 DEF FanOutNext, Goto, VarTypes
  <2> HIDE DEF d
  <2> QED BY <1>0, <1>1, <2>1, <2>2 DEF HandlerType, SendLabels
<1>7. \A e \in Conns \ {c} : SameHandler(e)
  BY <1>0 DEF FanOutNext, Goto, SameHandler, VarTypes
<1> QED BY <1>5, <1>6, <1>7, FrameRule

LEMMA FanOutDoneTypes ==
  ASSUME TypeOK, NEW c \in Conns, FanOutDone(c)
  PROVE  TypeOK'
<1>0. VarTypes /\ HandlerType(c)
  BY DEF TypeOK, HandlerTypes
<1>1. VarTypes'
  BY <1>0, NoJobTyped, InternalTyped, InputsAssumption, GotoTyped, ReleaseTyped
     DEF FanOutDone, At, VarTypes, Labels, netVars, handlerVars, busVars, lockVars, mainVars
<1>2. HandlerType(c)'
  BY <1>0, InputsAssumption DEF FanOutDone, At, Goto, Release, VarTypes, HandlerType, SendLabels, netVars, handlerVars, busVars, lockVars, mainVars, NoJob
<1>3. \A e \in Conns \ {c} : SameHandler(e)
  BY <1>0 DEF FanOutDone, At, Goto, Release, SameHandler, VarTypes, handlerVars
<1> QED BY <1>1, <1>2, <1>3, FrameRule

LEMMA FanOutBreaksTypes ==
  ASSUME TypeOK, NEW c \in Conns, FanOutBreaks(c)
  PROVE  TypeOK'
<1>0. VarTypes /\ HandlerType(c)
  BY DEF TypeOK, HandlerTypes
<1>1. VarTypes'
  BY <1>0, NoJobTyped, InternalTyped, InputsAssumption, GotoTyped, ReleaseTyped
     DEF FanOutBreaks, At, Raise, VarTypes, Labels, netVars, handlerVars, busVars, lockVars, mainVars
<1>2. HandlerType(c)'
  BY <1>0, InputsAssumption DEF FanOutBreaks, At, Goto, Release, Raise, VarTypes, HandlerType, SendLabels, netVars, handlerVars, busVars, lockVars, mainVars, NoJob
<1>3. \A e \in Conns \ {c} : SameHandler(e)
  BY <1>0 DEF FanOutBreaks, At, Goto, Release, Raise, SameHandler, VarTypes, handlerVars
<1> QED BY <1>1, <1>2, <1>3, FrameRule

LEMMA HandlerStepTypes ==
  ASSUME TypeOK, NEW c \in Conns,
         Network(c) \/ Enter(c) \/ (\E r \in Requests : Receive(c, r)) \/ Handler(c)
  PROVE  TypeOK'
<1>1. CASE Network(c)
  BY <1>1, LoseTypes, PeerClosesTypes, StallTypes, DrainTypes DEF Network
<1>2. CASE Enter(c)
  BY <1>2, ConnectTypes, HelloFailsTypes, HelloAcceptedTypes DEF Enter
<1>3. CASE \E r \in Requests : Receive(c, r)
  BY <1>3, ReceiveTypes
<1>4. CASE Locking(c)
  BY <1>4, AcquireTypes, GrantedTypes, RegisterRefusedTypes, RegisterTypes, CleanupTypes DEF Locking
<1>5. CASE Sending(c)
  BY <1>5, SentTypes, SendDrainsTypes, SendTooLateTypes, DrainedTypes, SendRaisesTypes DEF Sending
<1>6. CASE Routing(c)
  BY <1>6, AnswerTypes, SetShutdownTypes, AskLockTypes, RouteDirectTypes, RouteToAllTypes,
     SubscribeTypes, UnsubscribeTypes, PublishTypes, ListChannelsTypes, KickRefusedTypes, KickTypes,
     NotifyKickedTypes, CloseKickedTypes, KickDoneTypes, FanOutNextTypes, FanOutDoneTypes,
     FanOutBreaksTypes DEF Routing
<1>7. CASE EndOfFrames(c) \/ Exit(c)
  BY <1>7, EndOfFramesTypes, ExitTypes
<1> QED BY <1>1, <1>2, <1>3, <1>4, <1>5, <1>6, <1>7 DEF Handler

LEMMA ServerStepTypes ==
  ASSUME TypeOK, Server \/ Signal
  PROVE  TypeOK'
<1>1. HandlerTypes'
  BY DEF Server, Signal, IdleTimerFires, ShutdownBegins, CloseNext, StopListening, Stop, TypeOK,
         HandlerTypes, HandlerType, handlerVars
<1>2. CASE IdleTimerFires \/ ShutdownBegins \/ Stop \/ Signal
  BY <1>1, <1>2 DEF IdleTimerFires, ShutdownBegins, Stop, Signal, TypeOK, VarTypes, Registered,
                    netVars, handlerVars, busVars, lockVars
<1>3. CASE (\E c \in Conns : CloseNext(c)) \/ StopListening
  BY <1>1, <1>3 DEF CloseNext, StopListening, Hangup, TypeOK, VarTypes, handlerVars, busVars, lockVars
<1> QED BY <1>2, <1>3 DEF Server

LEMMA StutterTypes == TypeOK /\ UNCHANGED vars => TypeOK'
BY DEF TypeOK, VarTypes, HandlerTypes, HandlerType, vars, netVars, handlerVars, busVars, lockVars,
       mainVars

LEMMA TypesStep == TypeOK /\ [Next]_vars => TypeOK'
BY HandlerStepTypes, ServerStepTypes, StutterTypes DEF Next

\* Every variable, and every local of every handler, keeps its type.
THEOREM TypeCorrect == Spec => []TypeOK
BY InitTypes, TypesStep, PTL DEF Spec
=============================================================================
