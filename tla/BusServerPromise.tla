-------------------------- MODULE BusServerPromise --------------------------
(***************************************************************************)
(* BusServer keeps the promise of Bus: what its state, with handlers that  *)
(* wait for the lock and for slow peers in the middle of everything, is to *)
(* the clients.                                                            *)
(***************************************************************************)
EXTENDS BusServer

\* The handler is in a loop that sends one frame to many.
Posting(c) == pc[c] = "fanout" \/ (pc[c] \in SendLabels /\ job[c].then = "fanout")

StageOf(c) ==
  IF \/ pc[c] \in {"off", "hello"}
     \/ job[c].req.op = "register" /\ pc[c] \in {"acquire", "queued", "crit"}
    THEN "new"
  ELSE IF pc[c] = "done" THEN "gone"
  ELSE IF \/ pc[c] = "exit"
          \/ job[c].req.op = "cleanup"
          \/ pc[c] \in SendLabels /\ job[c].then = "exit"
    THEN IF sid[c] = None THEN "refused" ELSE "over"
  ELSE IF Posting(c) THEN "posting"
  ELSE "open"

\* The connections registered under the session ids of S.
Holders(S) == {c \in Conns : \E s \in S \cap Sids : registry[s] = c}

\* A frame is delivered when it is written, also if the writer then waits.
Unsent(c) == IF pc[c] \in {"sending", "ending"} THEN {job[c].peer} ELSE {}

PostOf(c) ==
  IF ~Posting(c) THEN [channel |-> None, to |-> {}, got |-> {}]
  ELSE IF job[c].req.op = "publish"
    THEN [channel |-> job[c].req.channel, to |-> Holders(job[c].start \ {sid[c]}),
          got |-> Holders(job[c].seen) \ Unsent(c)]
    ELSE [channel |-> None, to |-> job[c].start, got |-> job[c].seen \ Unsent(c)]

Promise == INSTANCE Bus WITH
  who <- hello,
  stage <- [c \in Conns |-> StageOf(c)],
  members <- Registered,
  subs <- [s \in Sids |-> Subs(s)],
  post <- [c \in Conns |-> PostOf(c)]

\* The server implements Bus: sessions, subscriptions and messages change as if
\* each operation were one step, whatever suspends, stalls or raises within it.
PromiseKept == Promise!BusSpec

\* Once past its hello, and a control session for as long as it is one.
MayHaveKicked(c) ==
  pc[c] \notin {"off", "hello"} /\ (hello[c] # None => hello[c].role = "control")

\* A kicked connection is open only while its kicker is on the way to close it,
\* or once a control connection, which may have been the kicker's, was lost
\* (_handle_kick).
KickedIsClosed ==
  \A d \in kicked : link[d] = "open" =>
    \E c \in Conns \ {d} :
      /\ MayHaveKicked(c)
      /\ \/ job[c].victim = d /\ pc[c] \in SendLabels \cup {"kicked", "close"}
         \/ link[c] = "lost"
=============================================================================
