----------------------- MODULE BusServerSafety_proofs -----------------------
(* The safety invariants of BusServer for every value of its constants.      *)
EXTENDS BusServer_proofs, FiniteSetTheorems

busState == <<registry, channels, subscriptions, sid, hello>>

\* The only steps that touch the registry, the channels or an identity.
BusStep(c) ==
  \/ \E h \in Hellos : HelloAccepted(c, h)
  \/ Exit(c) \/ RegisterRefused(c) \/ Register(c) \/ Cleanup(c)
  \/ Subscribe(c) \/ Unsubscribe(c) \/ Kick(c)

LEMMA StepShape ==
  ASSUME [Next]_vars
  PROVE  UNCHANGED busState \/ \E c \in Conns : BusStep(c)
<1> USE DEF busState, BusStep, netVars, handlerVars, busVars, lockVars, mainVars
<1>1. CASE UNCHANGED vars
  BY <1>1 DEF vars
<1>2. CASE Server \/ Signal
  BY <1>2 DEF Server, Signal, IdleTimerFires, ShutdownBegins, CloseNext, StopListening, Stop
<1>3. ASSUME NEW c \in Conns, Network(c) \/ Enter(c) \/ (\E r \in Requests : Receive(c, r))
      PROVE  UNCHANGED busState \/ BusStep(c)
  BY <1>3 DEF Network, Lose, PeerCloses, Stall, Drain, Enter, Connect, HelloFails, Receive
<1>4. ASSUME NEW c \in Conns, Locking(c) \/ Sending(c) \/ EndOfFrames(c) \/ Exit(c)
      PROVE  UNCHANGED busState \/ BusStep(c)
  BY <1>4 DEF Locking, Acquire, Granted, Sending, Sent, SendDrains, SendTooLate, Drained,
              SendRaises, EndOfFrames
<1>5. ASSUME NEW c \in Conns, Routing(c)
      PROVE  UNCHANGED busState \/ BusStep(c)
  <2>1. CASE Answer(c) \/ SetShutdown(c) \/ AskLock(c) \/ RouteDirect(c) \/ RouteToAll(c)
    BY <2>1 DEF Answer, SetShutdown, AskLock, RouteDirect, RouteToAll
  <2>2. CASE Publish(c) \/ ListChannels(c) \/ KickRefused(c) \/ NotifyKicked(c)
    BY <2>2 DEF Publish, ListChannels, KickRefused, NotifyKicked
  <2>3. CASE CloseKicked(c) \/ KickDone(c) \/ FanOutDone(c) \/ FanOutBreaks(c)
    BY <2>3 DEF CloseKicked, KickDone, FanOutDone, FanOutBreaks
  <2>4. CASE \E x \in Conns \cup Sids : FanOutNext(c, x)
    BY <2>4 DEF FanOutNext
  <2> QED BY <1>5, <2>1, <2>2, <2>3, <2>4 DEF Routing
<1> QED BY <1>1, <1>2, <1>3, <1>4, <1>5 DEF Next, Handler

\* A registered connection is registered under the session id it presented.
LEMMA RegisteredIdentity ==
  ASSUME TypeOK, RegisteredSessionHasHandler, NEW d \in Registered
  PROVE  /\ d \in Conns /\ hello[d] \in Hellos
         /\ hello[d].sid \in Sids /\ sid[d] = hello[d].sid /\ registry[sid[d]] = d
<1>1. PICK s \in Sids : d \in Conns /\ registry[s] = d
  BY DEF Registered
<1>2. sid[d] = s /\ s # None
  BY <1>1, ConnsAssumption, SidsAssumption DEF RegisteredSessionHasHandler
<1> QED BY <1>1, <1>2 DEF TypeOK, HandlerTypes, HandlerType
-----------------------------------------------------------------------------
(* channels and subscriptions are inverse to each other. *)

LEMMA DiscardSubscribers ==
  ASSUME VarTypes, ChannelsMirrorSubscriptions, NEW chs \in SUBSET Channels, NEW s \in Sids
  PROVE  /\ \A ch \in DOMAIN Discard(chs, s) : Discard(chs, s)[ch] # {}
         /\ \A ch \in Channels, t \in Sids :
              t \in (IF ch \in DOMAIN Discard(chs, s) THEN Discard(chs, s)[ch] ELSE {})
                <=> t \in Subscribers(ch) /\ ~(ch \in chs /\ t = s)
BY DEF Discard, Subscribers, ChannelsMirrorSubscriptions, VarTypes

LEMMA ForgetKeepsMirror ==
  ASSUME VarTypes, ChannelsMirrorSubscriptions, NEW s \in Sids, ForgetSubscriptions(s)
  PROVE  ChannelsMirrorSubscriptions'
<1>1. Subs(s) \in SUBSET Channels
  BY DEF Subs, VarTypes
<1>2. \A ch \in Channels, t \in Sids :
        t \in Subscribers(ch)' <=> t \in Subscribers(ch) /\ ~(ch \in Subs(s) /\ t = s)
  BY <1>1, DiscardSubscribers DEF ForgetSubscriptions, Subscribers
<1>3. \A t \in Sids : Subs(t)' = IF t = s THEN {} ELSE Subs(t)
  BY DEF ForgetSubscriptions, Without, Subs, VarTypes
<1>4. \A ch \in DOMAIN channels' : channels'[ch] # {}
  BY <1>1, DiscardSubscribers DEF ForgetSubscriptions
<1> QED BY <1>2, <1>3, <1>4 DEF ChannelsMirrorSubscriptions

LEMMA MirrorStep ==
  ASSUME TypeOK, RegisteredSessionHasHandler, ChannelsMirrorSubscriptions, [Next]_vars
  PROVE  ChannelsMirrorSubscriptions'
<1>0. VarTypes
  BY DEF TypeOK
<1>1. ASSUME UNCHANGED <<channels, subscriptions>> PROVE ChannelsMirrorSubscriptions'
  BY <1>1 DEF ChannelsMirrorSubscriptions, Subscribers, Subs
<1>2. ASSUME NEW c \in Conns, Subscribe(c) PROVE ChannelsMirrorSubscriptions'
  <2>1. sid[c] \in Sids /\ job[c].req.channel \in Channels
    BY <1>0, <1>2, RequestFields DEF Subscribe, InCrit, TypeOK, HandlerTypes, HandlerType, VarTypes, Jobs
  <2> DEFINE s == sid[c]
             ch == job[c].req.channel
  <2>2. CASE UNCHANGED channels /\ subscriptions' = With(subscriptions, s, Subs(s))
    BY <1>0, <2>1, <2>2 DEF With, Subs, Subscribers, ChannelsMirrorSubscriptions, VarTypes
  <2>3. CASE /\ subscriptions' = With(subscriptions, s, Subs(s) \cup {ch})
             /\ channels' = With(channels, ch, Subscribers(ch) \cup {s})
    <3>1. \A t \in Sids : Subs(t)' = IF t = s THEN Subs(t) \cup {ch} ELSE Subs(t)
      BY <2>1, <2>3 DEF With, Subs
    <3>2. \A d \in Channels :
            Subscribers(d)' = IF d = ch THEN Subscribers(d) \cup {s} ELSE Subscribers(d)
      BY <2>1, <2>3 DEF With, Subscribers
    <3>3. \A d \in DOMAIN channels' : channels'[d] # {}
      BY <2>3 DEF With, ChannelsMirrorSubscriptions
    <3> QED BY <2>1, <3>1, <3>2, <3>3 DEF ChannelsMirrorSubscriptions
  <2> QED BY <1>2, <2>2, <2>3 DEF Subscribe
<1>3. ASSUME NEW c \in Conns, Unsubscribe(c) PROVE ChannelsMirrorSubscriptions'
  <2> DEFINE s == sid[c]
             ch == job[c].req.channel
  <2>1. CASE ch \notin Subs(s)
    BY <1>1, <1>3, <2>1 DEF Unsubscribe
  <2>2. CASE ch \in Subs(s)
    <3>1. s \in Sids /\ ch \in Channels
      BY <1>0, <1>3, <2>2 DEF Unsubscribe, InCrit, TypeOK, HandlerTypes, HandlerType, VarTypes, Subs
    <3>2. /\ channels' = Discard({ch}, s)
          /\ subscriptions' = IF Subs(s) \ {ch} = {} THEN Without(subscriptions, s)
                              ELSE With(subscriptions, s, Subs(s) \ {ch})
      BY <1>3, <2>2 DEF Unsubscribe
    <3>3. \A t \in Sids : Subs(t)' = IF t = s THEN Subs(t) \ {ch} ELSE Subs(t)
      BY <3>1, <3>2 DEF With, Without, Subs
    <3>4. \A d \in Channels, t \in Sids :
            t \in Subscribers(d)' <=> t \in Subscribers(d) /\ ~(d = ch /\ t = s)
      <4>1. \A d \in Channels, t \in Sids :
              t \in (IF d \in DOMAIN Discard({ch}, s) THEN Discard({ch}, s)[d] ELSE {})
                <=> t \in Subscribers(d) /\ ~(d \in {ch} /\ t = s)
        <5>1. {ch} \in SUBSET Channels
          BY <3>1
        <5> HIDE DEF s, ch
        <5> QED BY <1>0, <3>1, <5>1, DiscardSubscribers
      <4> QED BY <3>2, <4>1 DEF Subscribers
    <3>5. \A d \in DOMAIN channels' : channels'[d] # {}
      BY <1>0, <3>1, <3>2, DiscardSubscribers
    <3> QED BY <3>3, <3>4, <3>5 DEF ChannelsMirrorSubscriptions
  <2> QED BY <2>1, <2>2
<1>4. ASSUME NEW c \in Conns, Cleanup(c) PROVE ChannelsMirrorSubscriptions'
  <2>1. sid[c] \in Sids /\ ForgetSubscriptions(sid[c])
    BY <1>4 DEF Cleanup, InCrit, TypeOK, HandlerTypes, HandlerType
  <2> QED BY <1>0, <2>1, ForgetKeepsMirror
<1>5. ASSUME NEW c \in Conns, Kick(c) PROVE ChannelsMirrorSubscriptions'
  <2>1. PICK d \in Registered : ForgetSubscriptions(hello[d].sid)
    BY <1>5 DEF Kick, KickTargets
  <2>2. hello[d].sid \in Sids
    BY <2>1, RegisteredIdentity
  <2> QED BY <1>0, <2>1, <2>2, ForgetKeepsMirror
<1>6. ASSUME NEW c \in Conns, BusStep(c) PROVE ChannelsMirrorSubscriptions'
  BY <1>1, <1>2, <1>3, <1>4, <1>5, <1>6 DEF BusStep, HelloAccepted, Exit, RegisterRefused, Register, busVars
<1> QED BY <1>1, <1>6, StepShape DEF busState
-----------------------------------------------------------------------------
(* Who is registered, and who still has something to clean up. *)

LEMMA HandlerRegistered ==
  ASSUME TypeOK, RegisteredSessionHasHandler, [Next]_vars
  PROVE  RegisteredSessionHasHandler'
<1>0. VarTypes
  BY DEF TypeOK
<1> USE <1>0, ConnsAssumption, SidsAssumption DEF VarTypes
<1>1. ASSUME UNCHANGED <<registry, sid>> PROVE RegisteredSessionHasHandler'
  BY <1>1 DEF RegisteredSessionHasHandler
<1>2. ASSUME NEW c \in Conns, sid[c] = None, NEW s \in Sids, sid' = [sid EXCEPT ![c] = s],
             registry' = registry \/ registry' = [registry EXCEPT ![s] = c]
      PROVE  RegisteredSessionHasHandler'
  <2>1. \A t \in Sids : registry[t] # c
    BY <1>2 DEF RegisteredSessionHasHandler
  <2> QED BY <1>2, <2>1 DEF RegisteredSessionHasHandler
<1>3. ASSUME NEW c \in Conns, RegisterRefused(c) \/ Register(c)
      PROVE  RegisteredSessionHasHandler'
  <2>1. sid[c] = None /\ hello[c].sid \in Sids
    BY <1>3, IdentityFields DEF RegisterRefused, Register, InCrit, At, TypeOK, HandlerTypes, HandlerType
  <2> QED BY <1>1, <1>2, <1>3, <2>1 DEF RegisterRefused, Register, busVars
<1>4. ASSUME NEW c \in Conns, Cleanup(c) PROVE RegisteredSessionHasHandler'
  <2>1. /\ registry' = [registry EXCEPT ![sid[c]] = None]
        /\ sid' = [sid EXCEPT ![c] = None]
    BY <1>4 DEF Cleanup, Unregister
  <2> QED BY <2>1 DEF RegisteredSessionHasHandler
<1>5. ASSUME NEW c \in Conns, Kick(c) PROVE RegisteredSessionHasHandler'
  <2>1. PICK d \in Conns : registry' = [registry EXCEPT ![hello[d].sid] = None]
    BY <1>5 DEF Kick, KickTargets, Registered, Unregister
  <2>2. UNCHANGED sid
    BY <1>5 DEF Kick
  <2> QED BY <2>1, <2>2 DEF RegisteredSessionHasHandler
<1>6. ASSUME NEW c \in Conns, BusStep(c) PROVE RegisteredSessionHasHandler'
  <2>1. CASE (\E h \in Hellos : HelloAccepted(c, h)) \/ Subscribe(c) \/ Unsubscribe(c)
    BY <1>1, <2>1 DEF HelloAccepted, Subscribe, Unsubscribe, busVars
  <2>2. CASE Exit(c)
    BY <1>1, <2>2 DEF Exit
  <2> QED BY <1>3, <1>4, <1>5, <1>6, <2>1, <2>2 DEF BusStep
<1> QED BY <1>1, <1>6, StepShape DEF busState

LEMMA NoOrphanStep ==
  ASSUME TypeOK, RegisteredSessionHasHandler, NoOrphanSubscription, [Next]_vars
  PROVE  NoOrphanSubscription'
<1>0. VarTypes
  BY DEF TypeOK
<1> USE <1>0, SidsAssumption DEF VarTypes
<1>1. ASSUME UNCHANGED <<subscriptions, sid>> PROVE NoOrphanSubscription'
  BY <1>1 DEF NoOrphanSubscription
<1>2. ASSUME NEW c \in Conns, RegisterRefused(c) \/ Register(c) PROVE NoOrphanSubscription'
  <2>1. sid[c] = None /\ UNCHANGED subscriptions
    BY <1>2 DEF RegisterRefused, Register, InCrit, At, TypeOK, HandlerTypes, HandlerType, busVars
  <2>2. \A d \in Conns : d # c => sid'[d] = sid[d]
    BY <1>2 DEF RegisterRefused, Register
  <2> QED BY <2>1, <2>2 DEF NoOrphanSubscription
<1>3. ASSUME NEW c \in Conns, Cleanup(c) PROVE NoOrphanSubscription'
  <2>1. /\ DOMAIN subscriptions' = DOMAIN subscriptions \ {sid[c]}
        /\ sid' = [sid EXCEPT ![c] = None]
    BY <1>3 DEF Cleanup, ForgetSubscriptions, Without
  <2> QED BY <2>1 DEF NoOrphanSubscription
<1>4. ASSUME NEW c \in Conns, Kick(c) PROVE NoOrphanSubscription'
  <2>1. DOMAIN subscriptions' \subseteq DOMAIN subscriptions /\ UNCHANGED sid
    BY <1>4 DEF Kick, ForgetSubscriptions, Without
  <2> QED BY <2>1 DEF NoOrphanSubscription
<1>5. ASSUME NEW c \in Conns, Subscribe(c) \/ Unsubscribe(c) PROVE NoOrphanSubscription'
  <2>1. DOMAIN subscriptions' \subseteq DOMAIN subscriptions \cup {sid[c]} /\ UNCHANGED sid
    BY <1>5 DEF Subscribe, Unsubscribe, With, Without
  <2> QED BY <2>1 DEF NoOrphanSubscription
<1>6. ASSUME NEW c \in Conns, BusStep(c) PROVE NoOrphanSubscription'
  <2>1. CASE (\E h \in Hellos : HelloAccepted(c, h)) \/ Exit(c)
    BY <1>1, <2>1 DEF HelloAccepted, Exit, busVars
  <2> QED BY <1>2, <1>3, <1>4, <1>5, <1>6, <2>1 DEF BusStep
<1> QED BY <1>1, <1>6, StepShape DEF busState

LEMMA NamesStep ==
  ASSUME TypeOK, RegisteredSessionHasHandler, AgentNamesUnique, [Next]_vars
  PROVE  AgentNamesUnique'
<1>0. VarTypes
  BY DEF TypeOK
<1> USE <1>0, ConnsAssumption, SidsAssumption DEF VarTypes
<1>1. ASSUME Registered' \subseteq Registered, \A d \in Registered' : hello'[d] = hello[d]
      PROVE  AgentNamesUnique'
  BY <1>1 DEF AgentNamesUnique
<1>2. ASSUME NEW c \in Conns, sid[c] = None PROVE c \notin Registered
  BY <1>2 DEF Registered, RegisteredSessionHasHandler
<1>3. ASSUME NEW c \in Conns, (\E h \in Hellos : HelloAccepted(c, h)) \/ Exit(c)
      PROVE  AgentNamesUnique'
  <2>1. UNCHANGED registry
    BY <1>3 DEF HelloAccepted, Exit, busVars
  <2>2. sid[c] = None \/ UNCHANGED hello
    BY <1>3 DEF HelloAccepted, Exit, Wakes, TypeOK, HandlerTypes, HandlerType
  <2>3. \A d \in Conns : d # c => hello'[d] = hello[d]
    BY <1>3 DEF HelloAccepted, Exit
  <2>4. Registered' = Registered
    BY <2>1 DEF Registered
  <2> QED BY <1>1, <1>2, <2>2, <2>3, <2>4 DEF Registered
<1>4. ASSUME NEW c \in Conns, Register(c) PROVE AgentNamesUnique'
  <2>1. /\ hello[c].role = "agent" => ~NameTaken(hello[c].name)
        /\ registry' = [registry EXCEPT ![hello[c].sid] = c]
        /\ UNCHANGED hello
    BY <1>4 DEF Register
  <2>2. Registered' \subseteq Registered \cup {c}
    BY <2>1 DEF Registered
  <2> QED BY <2>1, <2>2 DEF AgentNamesUnique, NameTaken
<1>5. ASSUME NEW c \in Conns, Cleanup(c) PROVE AgentNamesUnique'
  <2>1. /\ registry' = [registry EXCEPT ![sid[c]] = None]
        /\ hello' = [hello EXCEPT ![c] = None]
    BY <1>5 DEF Cleanup, Unregister
  <2>2. Registered' \subseteq Registered \ {c}
    BY <2>1 DEF Registered, RegisteredSessionHasHandler
  <2> QED BY <1>1, <2>1, <2>2 DEF Registered
<1>6. ASSUME NEW c \in Conns, Kick(c) PROVE AgentNamesUnique'
  <2>1. Registered' \subseteq Registered /\ UNCHANGED hello
    BY <1>6 DEF Kick, Unregister, Registered
  <2> QED BY <1>1, <2>1
<1>7. ASSUME UNCHANGED <<registry, hello>> PROVE AgentNamesUnique'
  BY <1>1, <1>7 DEF Registered
<1>8. ASSUME NEW c \in Conns, BusStep(c) PROVE AgentNamesUnique'
  <2>1. CASE RegisterRefused(c) \/ Subscribe(c) \/ Unsubscribe(c)
    BY <1>7, <2>1 DEF RegisterRefused, Subscribe, Unsubscribe, busVars
  <2> QED BY <1>3, <1>4, <1>5, <1>6, <1>8, <2>1 DEF BusStep
<1> QED BY <1>7, <1>8, StepShape DEF busState
-----------------------------------------------------------------------------
(* The limits. *)

Limited(S, n) == IsFiniteSet(S) /\ Cardinality(S) <= n

LEMMA LimitedSubset ==
  ASSUME NEW S, NEW T \in SUBSET S, NEW n \in Nat, Limited(S, n)
  PROVE  Limited(T, n)
BY FS_Subset, FS_CardinalityType DEF Limited

LEMMA LimitedAdd ==
  ASSUME NEW S, NEW e, NEW n \in Nat, Limited(S, n), e \in S \/ ~(Cardinality(S) >= n)
  PROVE  Limited(S \cup {e}, n)
<1>1. IsFiniteSet(S) /\ Cardinality(S) \in Nat /\ Cardinality(S) <= n
  BY FS_CardinalityType DEF Limited
<1>2. /\ IsFiniteSet(S \cup {e})
      /\ Cardinality(S \cup {e}) = IF e \in S THEN Cardinality(S) ELSE Cardinality(S) + 1
  BY <1>1, FS_AddElement
<1> QED BY <1>1, <1>2 DEF Limited

\* WithinLimits with the finiteness its cardinalities rely on.
LimitsHold ==
  /\ Limited(Sessions, connection_max)
  /\ Limited(DOMAIN channels, channels_max)
  /\ \A s \in Sids : Limited(Subs(s), subscriptions_max)

LEMMA LimitsStep ==
  ASSUME TypeOK, RegisteredSessionHasHandler, LimitsHold, [Next]_vars
  PROVE  LimitsHold'
<1>0. VarTypes /\ connection_max \in Nat /\ subscriptions_max \in Nat /\ channels_max \in Nat
  BY LimitsAssumption DEF TypeOK
<1>1. ASSUME Sessions' \subseteq Sessions,
             DOMAIN channels' \subseteq DOMAIN channels,
             \A s \in Sids : Subs(s)' \subseteq Subs(s)
      PROVE  LimitsHold'
  BY <1>0, <1>1, LimitedSubset DEF LimitsHold
<1>2. ASSUME UNCHANGED busVars PROVE LimitsHold'
  <2>1. Sessions' = Sessions
    BY <1>2 DEF busVars, Sessions
  <2> QED BY <1>1, <1>2, <2>1 DEF busVars, Subs
<1>3. ASSUME NEW s \in Sids, UNCHANGED registry \/ Unregister(s), ForgetSubscriptions(s)
      PROVE  LimitsHold'
  <2>1. Sessions' \subseteq Sessions
    BY <1>0, <1>3 DEF Sessions, Unregister, VarTypes
  <2>2. DOMAIN channels' \subseteq DOMAIN channels
    BY <1>3 DEF ForgetSubscriptions, Discard
  <2>3. \A t \in Sids : Subs(t)' \subseteq Subs(t)
    BY <1>3 DEF ForgetSubscriptions, Without, Subs
  <2> QED BY <1>1, <2>1, <2>2, <2>3
<1>4. ASSUME NEW c \in Conns, Register(c) PROVE LimitsHold'
  <2>1. /\ ~(Cardinality(Sessions) >= connection_max)
        /\ registry' = [registry EXCEPT ![hello[c].sid] = c]
        /\ UNCHANGED <<channels, subscriptions>>
    BY <1>4 DEF Register, Full
  <2>2. Limited(Sessions \cup {hello[c].sid}, connection_max)
    BY <1>0, <2>1, LimitedAdd DEF LimitsHold
  <2>3. Sessions' \subseteq Sessions \cup {hello[c].sid}
    BY <2>1, <1>0 DEF Sessions, VarTypes
  <2> QED BY <1>0, <2>1, <2>2, <2>3, LimitedSubset DEF LimitsHold, Subs
<1>5. ASSUME NEW c \in Conns, Subscribe(c) PROVE LimitsHold'
  <2> DEFINE s == sid[c]
             ch == job[c].req.channel
  <2>1. UNCHANGED registry
    BY <1>5 DEF Subscribe
  <2>2. CASE UNCHANGED channels /\ subscriptions' = With(subscriptions, s, Subs(s))
    <3>1. \A t \in Sids : Subs(t)' = Subs(t)
      BY <2>2 DEF With, Subs
    <3> QED BY <1>1, <2>1, <2>2, <3>1 DEF Sessions
  <2>3. CASE /\ subscriptions' = With(subscriptions, s, Subs(s) \cup {ch})
             /\ channels' = With(channels, ch, Subscribers(ch) \cup {s})
             /\ ~(Cardinality(Subs(s)) >= subscriptions_max)
             /\ ch \in DOMAIN channels \/ ~(Cardinality(DOMAIN channels) >= channels_max)
    <3>1. Limited(DOMAIN channels \cup {ch}, channels_max)
      BY <1>0, <2>3, LimitedAdd DEF LimitsHold
    <3>2. DOMAIN channels' = DOMAIN channels \cup {ch}
      BY <2>3 DEF With
    <3>3. \A t \in Sids : Subs(t)' = IF t = s THEN Subs(t) \cup {ch} ELSE Subs(t)
      BY <2>3 DEF With, Subs
    <3>4. \A t \in Sids : t = s => Limited(Subs(t) \cup {ch}, subscriptions_max)
      BY <1>0, <2>3, LimitedAdd DEF LimitsHold
    <3>5. Sessions' = Sessions
      BY <2>1 DEF Sessions
    <3> QED BY <3>1, <3>2, <3>3, <3>4, <3>5 DEF LimitsHold
  <2> QED BY <1>5, <2>2, <2>3 DEF Subscribe, ChannelLimitReached
<1>6. ASSUME NEW c \in Conns, Unsubscribe(c) PROVE LimitsHold'
  <2>1. Sessions' = Sessions
    BY <1>6 DEF Unsubscribe, Sessions
  <2>2. DOMAIN channels' \subseteq DOMAIN channels
    BY <1>6 DEF Unsubscribe, Discard
  <2>3. \A t \in Sids : Subs(t)' \subseteq Subs(t)
    BY <1>6 DEF Unsubscribe, With, Without, Subs
  <2> QED BY <1>1, <2>1, <2>2, <2>3
<1>7. ASSUME NEW c \in Conns, Cleanup(c) PROVE LimitsHold'
  <2>1. sid[c] \in Sids
    BY <1>7 DEF Cleanup, InCrit, TypeOK, HandlerTypes, HandlerType
  <2> QED BY <1>3, <1>7, <2>1 DEF Cleanup
<1>8. ASSUME NEW c \in Conns, Kick(c) PROVE LimitsHold'
  <2>1. PICK d \in Registered : Unregister(hello[d].sid) /\ ForgetSubscriptions(hello[d].sid)
    BY <1>8 DEF Kick, KickTargets
  <2> QED BY <1>3, <2>1, RegisteredIdentity
<1>9. ASSUME NEW c \in Conns, BusStep(c) PROVE LimitsHold'
  <2>1. CASE (\E h \in Hellos : HelloAccepted(c, h)) \/ RegisterRefused(c)
    BY <1>2, <2>1 DEF HelloAccepted, RegisterRefused
  <2>2. CASE Exit(c)
    BY <1>2, <2>2 DEF Exit, busVars
  <2> QED BY <1>4, <1>5, <1>6, <1>7, <1>8, <1>9, <2>1, <2>2 DEF BusStep
<1> QED BY <1>2, <1>9, StepShape DEF busState, busVars
-----------------------------------------------------------------------------
(* The idle timer. *)

Gone == {"off", "done"}

\* IdleTimerArmed, and that the server shuts down only after a request to.
IdleInv ==
  /\ IdleTimerArmed
  /\ main # "serving" => shutdown

\* A handler's step leaves it running, or ends it with _schedule_idle_shutdown.
LEMMA TimerShape ==
  ASSUME TypeOK, [Next]_vars
  PROVE  \/ UNCHANGED <<pc, timer, shutdown, main>>
         \/ Server
         \/ /\ shutdown => shutdown'
            /\ main' = main
            /\ \/ (UNCHANGED pc /\ shutdown')
               \/ \E c \in Conns : pc'[c] \notin Gone \/ ScheduleIfEmpty
<1>0. pc \in [Conns -> Labels] /\ \A c \in Conns : HandlerType(c)
  BY DEF TypeOK, VarTypes, HandlerTypes
<1> DEFINE Ends(c) ==
      /\ shutdown => shutdown'
      /\ main' = main
      /\ pc'[c] \notin Gone \/ ScheduleIfEmpty
<1>1. ASSUME NEW c \in Conns, NEW l \in Labels \ Gone, Goto(c, l),
             shutdown => shutdown', main' = main
      PROVE  Ends(c)
  <2>1. pc'[c] = l
    BY <1>0, <1>1 DEF Goto
  <2> QED BY <1>1, <2>1
<1> HIDE DEF Ends
<1>2. CASE UNCHANGED vars
  BY <1>2 DEF vars, handlerVars, mainVars
<1>3. CASE Signal
  BY <1>3 DEF Signal, handlerVars
<1>4. ASSUME NEW c \in Conns, Network(c) PROVE UNCHANGED <<pc, timer, shutdown, main>>
  BY <1>4 DEF Network, Lose, PeerCloses, Stall, Drain, handlerVars, mainVars
<1>5. ASSUME NEW c \in Conns, Enter(c) \/ (\E r \in Requests : Receive(c, r)) \/ EndOfFrames(c)
      PROVE  Ends(c)
  <2>1. UNCHANGED <<shutdown, main>> /\ \E l \in {"hello", "exit", "acquire", "route"} : Goto(c, l)
    BY <1>5 DEF Enter, Connect, HelloFails, HelloAccepted, Receive, EndOfFrames, mainVars
  <2> QED BY <1>1, <2>1 DEF Labels, Gone
<1>6. ASSUME NEW c \in Conns, Exit(c) \/ Cleanup(c) PROVE Ends(c)
  <2>1. UNCHANGED <<shutdown, main>>
    BY <1>6 DEF Exit, Cleanup
  <2>2. ScheduleIfEmpty \/ Goto(c, "acquire")
    BY <1>6 DEF Exit, Cleanup
  <2> QED BY <1>1, <2>1, <2>2 DEF Ends, Gone, Labels
<1>7. ASSUME NEW c \in Conns, Acquire(c) \/ Granted(c) \/ RegisterRefused(c) \/ Register(c)
      PROVE  Ends(c)
  <2>1. UNCHANGED <<shutdown, main>> /\ \E l \in {"crit", "queued", "sending"} : Goto(c, l)
    BY <1>7 DEF Acquire, Granted, RegisterRefused, Register, Reply, SendTo, mainVars
  <2> QED BY <1>1, <2>1 DEF Labels, Gone
<1>8. ASSUME NEW c \in Conns, Sending(c) PROVE Ends(c)
  <2>1. job[c].then \in Labels \ Gone
    BY <1>0, <1>8 DEF Sending, Sent, SendDrains, SendTooLate, Drained, SendRaises, At, Wakes,
                      SendLabels, HandlerType, Labels, Gone
  <2>2. UNCHANGED <<shutdown, main>>
    BY <1>8 DEF Sending, Sent, SendDrains, SendTooLate, Drained, SendRaises, mainVars
  <2>3. \E l \in {"draining", "ending", "exit", job[c].then} : Goto(c, l)
    BY <1>8 DEF Sending, Sent, SendDrains, SendTooLate, Drained, SendRaises, Resume, Raise
  <2> QED BY <1>1, <2>1, <2>2, <2>3 DEF Labels, Gone
<1>9. ASSUME NEW c \in Conns, Routing(c) PROVE Ends(c)
  <2> DEFINE Running == {"sending", "fanout", "recv", "exit", "acquire", "closing"}
  <2>1. CASE Subscribe(c) \/ Unsubscribe(c) \/ Publish(c) \/ ListChannels(c) \/ KickRefused(c)
    <3>1. UNCHANGED <<shutdown, main>> /\ \E l \in Running : Goto(c, l)
      BY <2>1 DEF Subscribe, Unsubscribe, Publish, ListChannels, KickRefused, Reply, SendTo, mainVars
    <3> QED BY <1>1, <3>1 DEF Labels, Gone
  <2>2. CASE Kick(c) \/ NotifyKicked(c) \/ CloseKicked(c) \/ KickDone(c)
    <3>1. UNCHANGED <<shutdown, main>> /\ \E l \in Running : Goto(c, l)
      BY <2>2 DEF Kick, NotifyKicked, CloseKicked, KickDone, SendTo, mainVars
    <3> QED BY <1>1, <3>1 DEF Labels, Gone
  <2>3. CASE FanOutDone(c) \/ FanOutBreaks(c) \/ \E x \in Conns \cup Sids : FanOutNext(c, x)
    <3>1. UNCHANGED <<shutdown, main>> /\ \E l \in Running : Goto(c, l)
      BY <2>3 DEF FanOutDone, FanOutBreaks, FanOutNext, Raise, SendTo, mainVars
    <3> QED BY <1>1, <3>1 DEF Labels, Gone
  <2>4. CASE Answer(c) \/ SetShutdown(c) \/ AskLock(c) \/ RouteDirect(c) \/ RouteToAll(c)
    <3>1. \/ UNCHANGED shutdown /\ main' = main
          \/ shutdown' = TRUE /\ main' = main
      BY <2>4 DEF Answer, SetShutdown, AskLock, RouteDirect, RouteToAll, mainVars
    <3>2. \E l \in {"sending", "flag", "fanout", "recv", "exit", "acquire"} : Goto(c, l)
      BY <2>4 DEF Answer, SetShutdown, AskLock, RouteDirect, RouteToAll, Reply, SendTo
    <3> QED BY <1>1, <3>1, <3>2 DEF Labels, Gone
  <2> QED BY <1>9, <2>1, <2>2, <2>3, <2>4 DEF Routing
<1>10. ASSUME NEW c \in Conns, Handler(c) PROVE Ends(c)
  BY <1>5, <1>6, <1>7, <1>8, <1>9, <1>10 DEF Handler, Locking
<1> QED BY <1>2, <1>3, <1>4, <1>5, <1>10 DEF Next, Ends

LEMMA IdleStep ==
  ASSUME TypeOK, TypeOK', RegisteredSessionHasHandler', IdleInv, [Next]_vars
  PROVE  IdleInv'
<1>1. CASE UNCHANGED <<pc, timer, shutdown, main>>
  BY <1>1 DEF IdleInv, IdleTimerArmed
<1>2. CASE Server
  <2>1. CASE IdleTimerFires
    BY <2>1 DEF IdleTimerFires, IdleInv, IdleTimerArmed
  <2>2. CASE ShutdownBegins
    BY <2>2 DEF ShutdownBegins, IdleInv, IdleTimerArmed
  <2>3. CASE (\E c \in Conns : CloseNext(c)) \/ StopListening \/ Stop
    <3>1. main # "serving" /\ UNCHANGED shutdown
      BY <2>3 DEF CloseNext, StopListening, Stop
    <3> QED BY <3>1 DEF IdleInv, IdleTimerArmed
  <2> QED BY <1>2, <2>1, <2>2, <2>3 DEF Server
<1>3. ASSUME shutdown => shutdown', main' = main PROVE main' # "serving" => shutdown'
  BY <1>3 DEF IdleInv
<1>4. CASE shutdown'
  BY <1>4, <1>1, <1>2, <1>3, TimerShape DEF IdleInv, IdleTimerArmed
<1>5. ASSUME NEW c \in Conns, pc'[c] \notin Gone, main' # "serving" => shutdown' PROVE IdleInv'
  BY <1>5 DEF IdleInv, IdleTimerArmed, Gone
<1>6. ASSUME ScheduleIfEmpty, main' # "serving" => shutdown' PROVE IdleInv'
  <2>1. SUFFICES ASSUME IdleTimeout, \A d \in Conns : pc'[d] \in Gone PROVE timer' = "armed"
    BY <1>6 DEF IdleInv, IdleTimerArmed, Gone
  <2>2. ASSUME NEW d \in Conns PROVE sid'[d] = None
    BY <2>1 DEF TypeOK, HandlerTypes, HandlerType, Gone
  <2>3. registry' \in [Sids -> Conns \cup {None}]
    BY DEF TypeOK, VarTypes
  <2>4. ASSUME NEW s \in Sids PROVE registry'[s] = None
    BY <2>2, <2>3, SidsAssumption DEF RegisteredSessionHasHandler
  <2> QED BY <1>6, <2>1, <2>4 DEF ScheduleIfEmpty
<1> QED BY <1>1, <1>2, <1>3, <1>4, <1>5, <1>6, TimerShape
-----------------------------------------------------------------------------
(* The inductive invariant and what follows from it. *)

\* KickTargets needs RegisteredSessionHasHandler to know that the session id a
\* victim presented is the one it is registered under; the other invariants
\* rest on the same two facts, so they are proved together.
SafeInv ==
  /\ TypeOK
  /\ RegisteredSessionHasHandler
  /\ ChannelsMirrorSubscriptions
  /\ NoOrphanSubscription
  /\ AgentNamesUnique
  /\ LimitsHold

LEMMA InitSafe == Init => SafeInv
<1> SUFFICES ASSUME Init PROVE SafeInv
  OBVIOUS
<1>1. Registered = {} /\ Sessions = {} /\ \A s \in Sids : Subs(s) = {}
  BY ConnsAssumption DEF Init, Registered, Sessions, Subs
<1>2. \A n \in Nat : Limited({}, n)
  BY FS_EmptySet DEF Limited
<1>3. LimitsHold
  BY <1>1, <1>2, LimitsAssumption DEF LimitsHold, Init
<1>4. ChannelsMirrorSubscriptions
  BY <1>1 DEF ChannelsMirrorSubscriptions, Init, Subscribers
<1> QED
  BY <1>1, <1>3, <1>4, InitTypes DEF SafeInv, Init, RegisteredSessionHasHandler,
     NoOrphanSubscription, AgentNamesUnique

LEMMA SafeStep == SafeInv /\ [Next]_vars => SafeInv'
<1> SUFFICES ASSUME SafeInv, [Next]_vars PROVE SafeInv'
  OBVIOUS
<1>1. TypeOK /\ RegisteredSessionHasHandler
  BY DEF SafeInv
<1> QED
  BY <1>1, TypesStep, HandlerRegistered, MirrorStep, NoOrphanStep, NamesStep, LimitsStep DEF SafeInv

\* Every reachable state satisfies the whole invariant.
THEOREM Safety == Spec => []SafeInv
BY InitSafe, SafeStep, PTL DEF Spec

\* subscribe, unsubscribe, kick and cleanup keep the two maps of server.py
\* inverse to each other, for any number of clients, channels and frames.
THEOREM ChannelsMirror == Spec => []ChannelsMirrorSubscriptions
<1>1. SafeInv => ChannelsMirrorSubscriptions
  BY DEF SafeInv
<1> QED BY <1>1, Safety, PTL

\* Every entry of self.registry belongs to a handler whose session_id it is.
THEOREM RegisteredHandlers == Spec => []RegisteredSessionHasHandler
<1>1. SafeInv => RegisteredSessionHasHandler
  BY DEF SafeInv
<1> QED BY <1>1, Safety, PTL

\* No entry of self.subscriptions outlives the handlers of its session.
THEOREM NoOrphans == Spec => []NoOrphanSubscription
<1>1. SafeInv => NoOrphanSubscription
  BY DEF SafeInv
<1> QED BY <1>1, Safety, PTL

\* Two registered agents never have the same routing name.
THEOREM NamesUnique == Spec => []AgentNamesUnique
<1>1. SafeInv => AgentNamesUnique
  BY DEF SafeInv
<1> QED BY <1>1, Safety, PTL

\* Unless it is shutting down, a server with an idle timeout and no handlers has
\* its timer running, whatever order arrivals, kicks and cleanups came in.
THEOREM IdleTimer == Spec => []IdleTimerArmed
<1>1. Init => IdleInv
  BY DEF Init, IdleInv, IdleTimerArmed
<1>2. SafeInv /\ IdleInv /\ [Next]_vars => SafeInv' /\ IdleInv'
  BY SafeStep, IdleStep DEF SafeInv
<1>3. IdleInv => IdleTimerArmed
  BY DEF IdleInv
<1> QED BY <1>1, <1>2, <1>3, InitSafe, PTL DEF Spec

\* The connection, channel and subscription limits hold in every state.
THEOREM LimitsRespected == Spec => []WithinLimits
<1>1. SafeInv => WithinLimits
  BY DEF SafeInv, LimitsHold, Limited, WithinLimits
<1> QED BY <1>1, Safety, PTL
=============================================================================
