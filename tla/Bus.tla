-------------------------------- MODULE Bus --------------------------------
(***************************************************************************)
(* What the server promises to its clients, without its lock, its sockets  *)
(* and its event loop.  Sessions open, close and are removed, subscriptions *)
(* come and go, each in one step.  A publish is for those who subscribe at *)
(* one instant and reaches all of them; a broadcast reaches everybody      *)
(* unless somebody comes or goes; each gets a message at most once, and    *)
(* only while it is entitled to.  A message that does not reach everybody  *)
(* ends the session of its sender.                                         *)
(***************************************************************************)
EXTENDS Naturals, FiniteSets

CONSTANTS Conns, Sids, Channels, Hellos, BadName, None,
          connection_max, subscriptions_max, channels_max

VARIABLES
  who,        \* the identity a connection has authenticated with
  stage,      \* how far a connection is: new, then open (welcomed) or posting
              \* (sending to many), over (it has to end its session) or refused
              \* (it has none), gone
  members,    \* the connections messages are routed to
  subs,       \* session id -> the channels it subscribes to
  post        \* the message a connection is sending to many

promiseVars == <<who, stage, members, subs, post>>

NoPost == [channel |-> None, to |-> {}, got |-> {}]

BusInit ==
  /\ who = [c \in Conns |-> None]
  /\ stage = [c \in Conns |-> "new"]
  /\ members = {}
  /\ subs = [s \in Sids |-> {}]
  /\ post = [c \in Conns |-> NoPost]

Present == {who[d].sid : d \in members}
Used == UNION {subs[s] : s \in Sids}

Free(c) ==
  /\ who[c].sid \notin Present /\ Cardinality(Present) < connection_max
  /\ who[c].role = "agent" =>
       who[c].name # BadName /\ \A d \in members : who[d].name # who[c].name

\* Whom a message reaches: the subscribers of its channel, or without one
\* every agent; never the sender's own session.
Readers(c, ch) ==
  {d \in members :
     /\ who[d].sid # who[c].sid
     /\ IF ch = None THEN who[d].role = "agent" ELSE ch \in subs[who[d].sid]}

Move(c, from, to) == stage[c] = from /\ stage' = [stage EXCEPT ![c] = to]

EndSession(s) ==
  /\ members' = {d \in members : who[d].sid # s}
  /\ subs' = [subs EXCEPT ![s] = {}]
-----------------------------------------------------------------------------
Authenticate(c, h) ==
  /\ stage[c] = "new" /\ who[c] = None
  /\ who' = [who EXCEPT ![c] = h]
  /\ UNCHANGED <<stage, members, subs, post>>

Join(c) ==
  /\ who[c] # None /\ Free(c)
  /\ Move(c, "new", "open")
  /\ members' = members \cup {c}
  /\ UNCHANGED <<who, subs, post>>

\* A connection refused for its name ends a session it never had.
Refuse(c) ==
  /\ Move(c, "new", "refused") \/ (who[c] # None /\ ~Free(c) /\ Move(c, "new", "over"))
  /\ UNCHANGED <<who, members, subs, post>>

Subscribe(c, ch) ==
  /\ stage[c] = "open" /\ who[c].role = "agent"
  /\ Cardinality(subs[who[c].sid]) < subscriptions_max
  /\ ch \in Used \/ Cardinality(Used) < channels_max
  /\ subs' = [subs EXCEPT ![who[c].sid] = @ \cup {ch}]
  /\ UNCHANGED <<who, stage, members, post>>

Unsubscribe(c, ch) ==
  /\ stage[c] = "open" /\ who[c].role = "agent"
  /\ subs' = [subs EXCEPT ![who[c].sid] = @ \ {ch}]
  /\ UNCHANGED <<who, stage, members, post>>

Kick(c, d) ==
  /\ stage[c] = "open" /\ who[c].role = "control"
  /\ d \in members /\ who[d].role = "agent"
  /\ EndSession(who[d].sid)
  /\ UNCHANGED <<who, stage, post>>

\* A publish is addressed to the readers it finds; a broadcast remembers who
\* is a member when it begins.
Accept(c, ch) ==
  /\ ch # None => ch \in Used
  /\ Move(c, "open", "posting")
  /\ post' = [post EXCEPT ![c] = [channel |-> ch, to |-> IF ch = None THEN members ELSE Readers(c, ch),
                                  got |-> {}]]
  /\ UNCHANGED <<who, members, subs>>

Deliver(c, d) ==
  /\ stage[c] = "posting"
  /\ d \in Readers(c, post[c].channel) \ post[c].got
  /\ post' = [post EXCEPT ![c].got = @ \cup {d}]
  /\ UNCHANGED <<who, stage, members, subs>>

Complete(c) ==
  /\ IF post[c].channel # None THEN post[c].to \subseteq post[c].got
     ELSE members = post[c].to => Readers(c, None) \subseteq post[c].got
  /\ Move(c, "posting", "open")
  /\ post' = [post EXCEPT ![c] = NoPost]
  /\ UNCHANGED <<who, members, subs>>

\* It disconnects, or is cut off in the middle of a message.
Leave(c) ==
  /\ Move(c, "open", "over") \/ Move(c, "posting", "over")
  /\ post' = [post EXCEPT ![c] = NoPost]
  /\ UNCHANGED <<who, members, subs>>

\* The end of a connection ends its session, whoever holds its id by now; a
\* connection without one just goes.
Close(c) ==
  /\ \/ Move(c, "over", "gone") /\ EndSession(who[c].sid)
     \/ Move(c, "refused", "gone") /\ c \notin members /\ UNCHANGED <<members, subs>>
  /\ who' = [who EXCEPT ![c] = None]
  /\ UNCHANGED post

BusStep ==
  \E c \in Conns :
    \/ Join(c) \/ Refuse(c) \/ Complete(c) \/ Leave(c) \/ Close(c)
    \/ \E h \in Hellos : Authenticate(c, h)
    \/ \E ch \in Channels : Subscribe(c, ch) \/ Unsubscribe(c, ch)
    \/ \E d \in Conns : Kick(c, d) \/ Deliver(c, d)
    \/ \E ch \in Channels \cup {None} : Accept(c, ch)

\* That something changes is said first: most steps of an implementation change
\* nothing here, and need not be looked for among the steps.
BusNext == promiseVars' # promiseVars /\ BusStep

BusSpec == BusInit /\ [][BusNext]_promiseVars
=============================================================================
