-------------------------- MODULE SendCommands_proofs --------------------------
(***************************************************************************)
(* SendCommands for any number of commands, messages and crashes: its      *)
(* types, the lock, what an exit code tells, and the refinement of         *)
(* SendOnce.                                                               *)
(*                                                                         *)
(* The inductive invariant has three parts.  LockInv: who is between Lock  *)
(* and Release is the holder.  DedupInv: how far an invocation is with the *)
(* cache, and that the stamp it is about to record is still not a          *)
(* duplicate, since only the holder writes the cache.  WireInv: at each    *)
(* point of the client, what may be in flight, where the server's handler  *)
(* is, and what an exit code has already decided.                          *)
(***************************************************************************)
EXTENDS SendCommands, TLAPS

Critical == {"look", "record", "release"}
Early == {"off", "check", "lock", "crashed", "resolve"} \cup Critical
Acts(i) == Local(i) \/ Crash(i) \/ Client(i) \/ Peer(i)

LockInv ==
  /\ LockIsLocal
  /\ \A i \in Invocations : pc[i] \in Critical => holder = i

DedupInv == \A i \in Invocations :
  /\ pc[i] = "off" <=> kind[i] = None
  /\ pc[i] \in {"check", "lock"} \cup Critical => kind[i] = "claude"
  /\ pc[i] \in {"off", "check", "lock", "look", "record"} =>
       i \notin recorded \cup suppressed /\ outcome[i] = None
  /\ kind[i] = "claude" => Message(i) \in Messages /\ began[i].at <= now
  /\ pc[i] = "record" =>
       began[i].at <= stamp[i] /\ stamp[i] <= now /\ ~Within(cache, Message(i), stamp[i])
  /\ pc[i] = "release" /\ outcome[i] = None => i \in recorded
  /\ pc[i] \in {"release", "crashed"} => outcome[i] \in {None, "failure"} \/ i \in suppressed
  /\ i \in suppressed => i \notin recorded
  /\ kind[i] = "claude" /\ (pc[i] \in {"resolve", "hello", "proof", "wait"} \/ conn[i] # "none") => i \in recorded

WireAt(i) ==
  /\ up[i] # None \/ i \in accepted => conn[i] # "none"
  /\ pc[i] \in Early =>
       conn[i] = "none" /\ handler[i] = "hello" /\ up[i] = None /\ down[i] = None /\ i \notin accepted
  /\ pc[i] \in {"hello", "proof", "wait"} =>
       /\ outcome[i] = None /\ conn[i] # "none" /\ kind[i] # None
       /\ conn[i] = "closed" => i \in broken
  /\ pc[i] = "hello" =>
       /\ up[i] \in {None, "hello"} /\ down[i] \in {None, "challenge", "forged", "error"} /\ i \notin accepted
       /\ handler[i] \in {"hello", "auth", "gone"}
       /\ up[i] = "hello" => handler[i] = "hello" /\ down[i] = None
  /\ pc[i] = "proof" =>
       /\ up[i] \in {None, "proof"} /\ down[i] \in {None, "welcome", "error"} /\ i \notin accepted
       /\ up[i] = "proof" => down[i] = None
       /\ down[i] = "welcome" => handler[i] = "ready"
  /\ pc[i] = "wait" =>
       /\ up[i] \in {None, "message"} /\ down[i] \in {None, "ok", "error"} /\ kind[i] # "status"
       /\ up[i] = "message" => down[i] = None /\ i \notin accepted
       /\ kind[i] \in Sends => handler[i] = "ready"
       /\ down[i] = "ok" => handler[i] = "ready" /\ i \in accepted
       /\ down[i] = "error" /\ kind[i] \in Sends => i \notin accepted
  /\ pc[i] = "exited" /\ i \notin suppressed =>
       /\ outcome[i] \in {"success", "available"} => handler[i] = "ready"
       /\ kind[i] = "request" /\ outcome[i] = "success" => i \in accepted
       /\ kind[i] \in Sends /\ outcome[i] = "failure" => i \in broken \/ (i \notin accepted /\ up[i] # "message")
  /\ pc[i] = "resolve" => outcome[i] = None
  /\ i \in suppressed =>
       conn[i] = "none" /\ pc[i] \in {"release", "exited", "crashed"} /\ (pc[i] = "release" => outcome[i] # None)

WireInv == \A i \in Invocations : WireAt(i)

SendInv == TypeOK /\ LockInv /\ DedupInv /\ WireInv

-----------------------------------------------------------------------------
(* Types. *)

LEMMA TypeInit == Init => TypeOK
  BY SendBoundsAssumption, KindsAssumption DEF Init, TypeOK, Pcs, NotYet

\* The operators that several actions share.
LEMMA EndsTypes ==
  ASSUME TypeOK, NEW i \in Invocations, NEW o \in Outcomes, Ends(i, o)
  PROVE  pc' \in [Invocations -> Pcs] /\ outcome' \in [Invocations -> Outcomes \cup {None}]
BY DEF TypeOK, Ends, Goto, Pcs

LEMMA HangsTypes ==
  ASSUME TypeOK, NEW i \in Invocations, Hangs(i)
  PROVE  /\ conn' \in [Invocations -> {"none", "open", "closed"}]
         /\ handler' \in [Invocations -> {"hello", "auth", "ready", "gone"}]
         /\ up' \in [Invocations -> Upward \cup {None}] /\ down' \in [Invocations -> Downward \cup {None}]
         /\ broken' \subseteq Invocations
BY DEF TypeOK, Hangs, Takes

LEMMA AnswerTypes ==
  ASSUME TypeOK, NEW i \in Invocations,
         NEW f \in Downward, NEW h \in {"auth", "ready", "gone"}, Answers(i, f), Waits(i, h)
  PROVE  /\ handler' \in [Invocations -> {"hello", "auth", "ready", "gone"}]
         /\ up' \in [Invocations -> Upward \cup {None}] /\ down' \in [Invocations -> Downward \cup {None}]
BY DEF TypeOK, Answers, Waits

\* No step of a command or of its peer takes a variable out of its type.
LEMMA TypeStep == ASSUME TypeOK, NEW i \in Invocations, Acts(i) PROVE TypeOK'
<1> USE SendBoundsAssumption, KindsAssumption, NoneAssumption DEF TypeOK, Pcs, Outcomes, Commands, Upward, Downward, Goto, file, wire, chosen
<1>1. ASSUME Begin(i) PROVE TypeOK'
  BY <1>1 DEF Begin
<1>2. ASSUME Require(i) PROVE TypeOK'
  <2>1. CASE Goto(i, "lock") /\ UNCHANGED outcome
    BY <1>2, <2>1 DEF Require
  <2>2. CASE Ends(i, "failure")
    BY <1>2, <2>2, EndsTypes DEF Require
  <2>3. QED
    BY <1>2, <2>1, <2>2 DEF Require
<1>3. ASSUME Lock(i) PROVE TypeOK'
  BY <1>3 DEF Lock
<1>4. ASSUME Look(i) PROVE TypeOK'
  <2>1. stamp' \in [Invocations -> 0..TimeBound] /\ suppressed' \subseteq Invocations
    <3>1. stamp' = [stamp EXCEPT ![i] = now]
      BY <1>4 DEF Look
    <3>2. suppressed' = suppressed \cup {i} \/ suppressed' = suppressed
      BY <1>4, Zenon DEF Look
    <3>3. QED
      BY <3>1, <3>2
  <2>2. (Goto(i, "release") /\ outcome' = [outcome EXCEPT ![i] = "success"]) \/ (Goto(i, "record") /\ UNCHANGED outcome)
    BY <1>4, Zenon DEF Look
  <2>3. pc' \in [Invocations -> Pcs] /\ outcome' \in [Invocations -> Outcomes \cup {None}]
    BY <2>2, ZenonT(30)
  <2>4. QED
    BY <1>4, <2>1, <2>3 DEF Look
<1>5. ASSUME Record(i) PROVE TypeOK'
  BY <1>5, ZenonT(30) DEF Record, Prune, Within, Message
<1>6. ASSUME Release(i) PROVE TypeOK'
  BY <1>6 DEF Release
<1>7. ASSUME Crash(i) PROVE TypeOK'
  BY <1>7 DEF Crash
<1>8. ASSUME Connect(i) PROVE TypeOK'
  <2>1. ASSUME NEW s \in {"unavailable", "protocol_mismatch"}, Ends(i, Failure(i, s))
        PROVE  pc' \in [Invocations -> Pcs] /\ outcome' \in [Invocations -> Outcomes \cup {None}]
    BY <2>1, EndsTypes DEF Failure
  <2>2. pc' \in [Invocations -> Pcs] /\ outcome' \in [Invocations -> Outcomes \cup {None}]
    BY <1>8, <2>1 DEF Connect
  <2>3. conn' \in [Invocations -> {"none", "open", "closed"}] /\ up' \in [Invocations -> Upward \cup {None}]
    BY <1>8 DEF Connect, Says
  <2>4. QED
    BY <1>8, <2>2, <2>3 DEF Connect
<1>9. ASSUME Challenged(i) PROVE TypeOK'
  <2>1. CASE down[i] = "challenge" /\ conn[i] = "open"
    <3>1. up' \in [Invocations -> Upward \cup {None}] /\ down' \in [Invocations -> Downward \cup {None}]
      BY <1>9, <2>1 DEF Challenged, Takes, Says
    <3>2. QED
      BY <1>9, <2>1, <3>1, ZenonT(30) DEF Challenged
  <2>2. CASE down[i] = "challenge" /\ conn[i] # "open"
    <3>1. pc' \in [Invocations -> Pcs] /\ outcome' \in [Invocations -> Outcomes \cup {None}]
      BY <1>9, <2>2, EndsTypes DEF Challenged, Failure
    <3>2. QED
      BY <1>9, <2>2, <3>1 DEF Challenged, Takes
  <2>3. CASE down[i] # "challenge"
    <3>1. PICK s \in {"auth_failed", "protocol_mismatch"} : Ends(i, Failure(i, s))
      BY <1>9, <2>3 DEF Challenged
    <3>2. pc' \in [Invocations -> Pcs] /\ outcome' \in [Invocations -> Outcomes \cup {None}]
      BY <3>1, EndsTypes DEF Failure
    <3>3. Hangs(i)
      BY <1>9, <2>3 DEF Challenged
    <3>4. QED
      BY <1>9, <3>2, <3>3, HangsTypes DEF Challenged
  <2>4. QED
    BY <2>1, <2>2, <2>3
<1>10. ASSUME Welcomed(i) PROVE TypeOK'
  <2>1. CASE kind[i] = "status" /\ Hangs(i)
    <3>1. PICK o \in Outcomes : Ends(i, o)
      BY <1>10, <2>1 DEF Welcomed, Sends
    <3>2. QED
      BY <1>10, <2>1, <3>1, EndsTypes, HangsTypes DEF Welcomed
  <2>2. CASE Hangs(i) /\ Ends(i, "failure")
    BY <1>10, <2>2, EndsTypes, HangsTypes DEF Welcomed
  <2>3. CASE Says(i, "message") /\ Goto(i, "wait") /\ UNCHANGED <<outcome, conn, handler, broken>>
    <3>1. up' \in [Invocations -> Upward \cup {None}] /\ down' \in [Invocations -> Downward \cup {None}]
      BY <1>10, <2>3 DEF Welcomed, Takes, Says
    <3>2. QED
      BY <1>10, <2>3, <3>1 DEF Welcomed
  <2>4. QED
    BY <1>10, <2>1, <2>2, <2>3 DEF Welcomed
<1>11. ASSUME Replied(i) PROVE TypeOK'
  BY <1>11 DEF Replied, Takes, Hangs, Ends
<1>12. ASSUME NoError(i) PROVE TypeOK'
  BY <1>12 DEF NoError, Takes, Hangs, Ends, Sends
<1>13. ASSUME StatusTimesOut(i) PROVE TypeOK'
  BY <1>13 DEF StatusTimesOut, Takes, Hangs, Ends
<1>14. ASSUME ConnectionLost(i) PROVE TypeOK'
  BY <1>14 DEF ConnectionLost, Ends, Failure
<1>15. ASSUME ServeHello(i) PROVE TypeOK'
  <2>1. PICK f \in Downward, h \in {"auth", "gone"} : Answers(i, f) /\ Waits(i, h)
    BY <1>15 DEF ServeHello
  <2>2. QED
    BY <1>15, <2>1, AnswerTypes DEF ServeHello, ServerRest
<1>16. ASSUME ServeProof(i) PROVE TypeOK'
  <2>1. PICK f \in Downward, h \in {"ready", "gone"} : Answers(i, f) /\ Waits(i, h)
    BY <1>16 DEF ServeProof
  <2>2. QED
    BY <1>16, <2>1, AnswerTypes DEF ServeProof, ServerRest
<1>17. ASSUME ServeMessage(i) PROVE TypeOK'
  BY <1>17 DEF ServeMessage, Answers, Waits, ServerRest, Sends
<1>18. ASSUME Lose(i) PROVE TypeOK'
  BY <1>18, SMTT(30) DEF Lose
<1>19. QED
  BY <1>1, <1>2, <1>3, <1>4, <1>5, <1>6, <1>7, <1>8, <1>9, <1>10, <1>11, <1>12, <1>13, <1>14, <1>15, <1>16, <1>17, <1>18 DEF Acts, Local, Client, Peer

\* Type correctness.
THEOREM TypeCorrect == Spec => []TypeOK
<1>1. TypeOK /\ [Next]_vars => TypeOK'
  <2> SUFFICES ASSUME TypeOK, [Next]_vars PROVE TypeOK'
    OBVIOUS
  <2>1. CASE Tick
    BY <2>1, SendBoundsAssumption DEF Tick, TypeOK, file, wire, chosen
  <2>2. ASSUME NEW i \in Invocations, Acts(i) PROVE TypeOK'
    BY <2>2, TypeStep
  <2>3. CASE UNCHANGED vars
    BY <2>3 DEF vars, TypeOK
  <2>4. QED
    BY <2>1, <2>2, <2>3 DEF Next, Acts
<1>2. QED
  BY TypeInit, <1>1, PTL DEF Spec

-----------------------------------------------------------------------------
(* The lock. *)

\* Only Lock makes a holder, out of none, and only Release and Crash of the
\* holder end its tenure.
LEMMA LockStep == ASSUME TypeOK, LockInv, NEW i \in Invocations, Acts(i) PROVE LockInv'
<1> USE NoneAssumption DEF Commands, Outcomes, Upward, Downward, TypeOK, LockInv, LockIsLocal, Critical, Goto, file, wire, chosen
<1>1. ASSUME Begin(i) PROVE LockInv'
  BY <1>1 DEF Begin
<1>2. ASSUME Require(i) PROVE LockInv'
  BY <1>2 DEF Require, Ends
<1>3. ASSUME Lock(i) PROVE LockInv'
  BY <1>3 DEF Lock
<1>4. ASSUME Look(i) PROVE LockInv'
  BY <1>4 DEF Look, Within, Message
<1>5. ASSUME Record(i) PROVE LockInv'
  BY <1>5 DEF Record, Prune, Within, Message
<1>6. ASSUME Release(i) PROVE LockInv'
  BY <1>6 DEF Release
<1>7. ASSUME Crash(i) PROVE LockInv'
  BY <1>7 DEF Crash
<1>8. ASSUME Connect(i) PROVE LockInv'
  BY <1>8 DEF Connect, Ends, Says, Failure
<1>9. ASSUME Challenged(i) PROVE LockInv'
  BY <1>9 DEF Challenged, Takes, Says, Hangs, Ends, Failure
<1>10. ASSUME Welcomed(i) PROVE LockInv'
  BY <1>10 DEF Welcomed, Takes, Says, Hangs, Ends, Sends
<1>11. ASSUME Replied(i) PROVE LockInv'
  BY <1>11 DEF Replied, Takes, Hangs, Ends
<1>12. ASSUME NoError(i) PROVE LockInv'
  BY <1>12 DEF NoError, Takes, Hangs, Ends, Sends
<1>13. ASSUME StatusTimesOut(i) PROVE LockInv'
  BY <1>13 DEF StatusTimesOut, Takes, Hangs, Ends
<1>14. ASSUME ConnectionLost(i) PROVE LockInv'
  BY <1>14 DEF ConnectionLost, Ends, Failure
<1>15. ASSUME ServeHello(i) PROVE LockInv'
  BY <1>15 DEF ServeHello, Answers, Waits, ServerRest
<1>16. ASSUME ServeProof(i) PROVE LockInv'
  BY <1>16 DEF ServeProof, Answers, Waits, ServerRest
<1>17. ASSUME ServeMessage(i) PROVE LockInv'
  BY <1>17 DEF ServeMessage, Answers, Waits, ServerRest, Sends
<1>18. ASSUME Lose(i) PROVE LockInv'
  BY <1>18 DEF Lose
<1>19. QED
  BY <1>1, <1>2, <1>3, <1>4, <1>5, <1>6, <1>7, <1>8, <1>9, <1>10, <1>11, <1>12, <1>13, <1>14, <1>15, <1>16, <1>17, <1>18 DEF Acts, Local, Client, Peer

-----------------------------------------------------------------------------
(* The cache. *)

\* What a command is about to record stays right until it does: another one
\* can change the cache only as the holder.
LEMMA DedupStep == ASSUME TypeOK, LockInv, DedupInv, WireInv, NEW i \in Invocations, Acts(i) PROVE DedupInv'
<1> USE NoneAssumption, SendBoundsAssumption, KindsAssumption DEF Commands, Outcomes, Upward, Downward, TypeOK, LockInv, DedupInv, Critical, Goto, file, wire, chosen, Within, Message
<1>1. ASSUME Begin(i) PROVE DedupInv'
  <2>1. PICK k \in Kinds[i], m \in Messages :
          /\ kind' = [kind EXCEPT ![i] = k]
          /\ began' = IF k = "claude" THEN [began EXCEPT ![i] = [at |-> now, message |-> m]] ELSE began
          /\ Goto(i, IF k = "claude" THEN "check" ELSE "resolve")
    BY <1>1 DEF Begin
  <2>2. k \in Commands /\ pc[i] = "off" /\ kind[i] = None /\ conn[i] = "none"
    BY <1>1 DEF Begin, WireInv, WireAt, Early
  <2>3. kind'[i] = k /\ pc'[i] \in {"check", "resolve"} /\ (k # "claude" => pc'[i] = "resolve")
    BY <2>1, <2>2
  <2>4. k = "claude" => began'[i].message = m /\ began'[i].at = now /\ pc'[i] = "check"
    BY <2>1
  <2>5. \A j \in Invocations \ {i} : kind'[j] = kind[j] /\ pc'[j] = pc[j] /\ began'[j] = began[j]
    BY <2>1
  <2>6. UNCHANGED <<now, file, outcome, wire>>
    BY <1>1 DEF Begin
  <2>7. QED
    BY <2>2, <2>3, <2>4, <2>5, <2>6
<1>2. ASSUME Require(i) PROVE DedupInv'
  BY <1>2 DEF Require, Ends
<1>3. ASSUME Lock(i) PROVE DedupInv'
  BY <1>3 DEF Lock
<1>4. ASSUME Look(i) PROVE DedupInv'
  BY <1>4 DEF Look, Within, Message
<1>5. ASSUME Record(i) PROVE DedupInv'
  BY <1>5 DEF Record, Prune, Within, Message
<1>6. ASSUME Release(i) PROVE DedupInv'
  BY <1>6 DEF Release
<1>7. ASSUME Crash(i) PROVE DedupInv'
  BY <1>7 DEF Crash
<1>8. ASSUME Connect(i) PROVE DedupInv'
  BY <1>8 DEF Connect, Ends, Says, Failure
<1>9. ASSUME Challenged(i) PROVE DedupInv'
  BY <1>9 DEF Challenged, Takes, Says, Hangs, Ends, Failure
<1>10. ASSUME Welcomed(i) PROVE DedupInv'
  BY <1>10 DEF Welcomed, Takes, Says, Hangs, Ends, Sends
<1>11. ASSUME Replied(i) PROVE DedupInv'
  BY <1>11 DEF Replied, Takes, Hangs, Ends
<1>12. ASSUME NoError(i) PROVE DedupInv'
  BY <1>12 DEF NoError, Takes, Hangs, Ends, Sends
<1>13. ASSUME StatusTimesOut(i) PROVE DedupInv'
  BY <1>13 DEF StatusTimesOut, Takes, Hangs, Ends
<1>14. ASSUME ConnectionLost(i) PROVE DedupInv'
  BY <1>14 DEF ConnectionLost, Ends, Failure
<1>15. ASSUME ServeHello(i) PROVE DedupInv'
  BY <1>15 DEF ServeHello, Answers, Waits, ServerRest
<1>16. ASSUME ServeProof(i) PROVE DedupInv'
  BY <1>16 DEF ServeProof, Answers, Waits, ServerRest
<1>17. ASSUME ServeMessage(i) PROVE DedupInv'
  BY <1>17 DEF ServeMessage, Answers, Waits, ServerRest, Sends
<1>18. ASSUME Lose(i) PROVE DedupInv'
  BY <1>18, SMTT(30) DEF Lose
<1>19. QED
  BY <1>1, <1>2, <1>3, <1>4, <1>5, <1>6, <1>7, <1>8, <1>9, <1>10, <1>11, <1>12, <1>13, <1>14, <1>15, <1>16, <1>17, <1>18 DEF Acts, Local, Client, Peer

-----------------------------------------------------------------------------
(* The connections. *)

\* A step of one command leaves the connections of the others alone.
LEMMA WireStep == ASSUME TypeOK, DedupInv, WireInv, NEW i \in Invocations, Acts(i) PROVE WireInv'
<1> USE NoneAssumption DEF Commands, Outcomes, Upward, Downward, TypeOK, DedupInv, WireInv, WireAt, Early, Critical, Goto, file, wire, chosen, Sends
<1>1. ASSUME Begin(i) PROVE WireInv'
  BY <1>1 DEF Begin
<1>2. ASSUME Require(i) PROVE WireInv'
  BY <1>2 DEF Require, Ends
<1>3. ASSUME Lock(i) PROVE WireInv'
  BY <1>3 DEF Lock
<1>4. ASSUME Look(i) PROVE WireInv'
  BY <1>4 DEF Look, Within, Message
<1>5. ASSUME Record(i) PROVE WireInv'
  BY <1>5 DEF Record, Prune, Within, Message
<1>6. ASSUME Release(i) PROVE WireInv'
  BY <1>6 DEF Release
<1>7. ASSUME Crash(i) PROVE WireInv'
  BY <1>7 DEF Crash
<1>8. ASSUME Connect(i) PROVE WireInv'
  <2>1. \A j \in Invocations \ {i} : WireAt(j)'
    BY <1>8 DEF Connect, Ends, Says
  <2>2. pc[i] = "resolve" /\ i \notin suppressed /\ outcome[i] = None /\ UNCHANGED <<kind, handler, down, accepted, broken, suppressed>>
    BY <1>8 DEF Connect
  <2>3. CASE conn' = [conn EXCEPT ![i] = "open"] /\ Says(i, "hello") /\ Goto(i, "hello") /\ UNCHANGED outcome
    <3>1. conn'[i] = "open" /\ up'[i] = "hello" /\ pc'[i] = "hello" /\ outcome'[i] = None
      BY <2>2, <2>3 DEF Says
    <3>2. handler[i] = "hello" /\ down[i] = None /\ i \notin accepted /\ kind[i] # None
      BY <2>2
    <3>3. WireAt(i)'
      BY <2>2, <3>1, <3>2
    <3>4. QED
      BY <2>1, <3>3
  <2>4. ASSUME NEW s \in {"unavailable", "protocol_mismatch"}, Ends(i, Failure(i, s)), UNCHANGED <<conn, up>>
        PROVE  WireInv'
    <3>1. pc'[i] = "exited" /\ outcome'[i] \in {s, "failure"}
      BY <2>4 DEF Ends, Failure
    <3>2. QED
      BY <2>1, <2>2, <2>4, <3>1
  <2>5. QED
    BY <1>8, <2>3, <2>4 DEF Connect
<1>9. ASSUME Challenged(i) PROVE WireInv'
  BY <1>9 DEF Challenged, Takes, Says, Hangs, Ends, Failure
<1>10. ASSUME Welcomed(i) PROVE WireInv'
  BY <1>10 DEF Welcomed, Takes, Says, Hangs, Ends, Sends
<1>11. ASSUME Replied(i) PROVE WireInv'
  BY <1>11 DEF Replied, Takes, Hangs, Ends
<1>12. ASSUME NoError(i) PROVE WireInv'
  BY <1>12 DEF NoError, Takes, Hangs, Ends, Sends
<1>13. ASSUME StatusTimesOut(i) PROVE WireInv'
  BY <1>13 DEF StatusTimesOut, Takes, Hangs, Ends
<1>14. ASSUME ConnectionLost(i) PROVE WireInv'
  BY <1>14 DEF ConnectionLost, Ends, Failure
<1>15. ASSUME ServeHello(i) PROVE WireInv'
  BY <1>15 DEF ServeHello, Answers, Waits, ServerRest
<1>16. ASSUME ServeProof(i) PROVE WireInv'
  BY <1>16 DEF ServeProof, Answers, Waits, ServerRest
<1>17. ASSUME ServeMessage(i) PROVE WireInv'
  BY <1>17 DEF ServeMessage, Answers, Waits, ServerRest, Sends
<1>18. ASSUME Lose(i) PROVE WireInv'
  BY <1>18 DEF Lose
<1>19. QED
  BY <1>1, <1>2, <1>3, <1>4, <1>5, <1>6, <1>7, <1>8, <1>9, <1>10, <1>11, <1>12, <1>13, <1>14, <1>15, <1>16, <1>17, <1>18 DEF Acts, Local, Client, Peer

-----------------------------------------------------------------------------
(* The invariant. *)

\* The inductive invariant.
LEMMA SendInvariant == Spec => []SendInv
<1>1. Init => SendInv
  <2> SUFFICES ASSUME Init PROVE SendInv
    OBVIOUS
  <2>1. TypeOK
    BY TypeInit
  <2>2. LockInv
    BY NoneAssumption DEF Init, LockInv, LockIsLocal, Critical
  <2>3. DedupInv /\ WireInv
    BY NoneAssumption DEF Commands, Outcomes, Upward, Downward, Init, DedupInv, WireInv, WireAt, Early, Critical
  <2>4. QED
    BY <2>1, <2>2, <2>3 DEF SendInv
<1>2. SendInv /\ [Next]_vars => SendInv'
  <2> SUFFICES ASSUME SendInv, [Next]_vars PROVE SendInv'
    OBVIOUS
  <2>1. CASE Tick
    BY <2>1, SendBoundsAssumption
       DEF Tick, SendInv, TypeOK, LockInv, LockIsLocal, DedupInv, WireInv, WireAt, Within, Message, file, wire, chosen
  <2>2. ASSUME NEW i \in Invocations, Acts(i) PROVE SendInv'
    BY <2>2, TypeStep, LockStep, DedupStep, WireStep DEF SendInv
  <2>3. CASE UNCHANGED vars
    BY <2>3 DEF vars, SendInv, TypeOK, LockInv, LockIsLocal, DedupInv, WireInv, WireAt, Within, Message
  <2>4. QED
    BY <2>1, <2>2, <2>3 DEF Next, Acts
<1>3. QED
  BY <1>1, <1>2, PTL DEF Spec

\* Nobody waits for the lock while its holder is on the network
\* (_cache_lock).
THEOREM LockSafe == Spec => []LockIsLocal
  BY SendInvariant, PTL DEF SendInv, LockInv

\* Success is never reported without a welcome, nor for a request that was
\* not acted on (_send_result_code, kick, shutdown).
THEOREM SuccessSafe == Spec => []SuccessWasWelcomed
<1>1. SendInv => SuccessWasWelcomed
  <2> SUFFICES ASSUME SendInv, NEW i \in Invocations \ suppressed
               PROVE  /\ outcome[i] \in {"success", "available"} => handler[i] = "ready"
                      /\ kind[i] = "request" /\ outcome[i] = "success" => i \in accepted
    BY DEF SuccessWasWelcomed
  <2>1. pc[i] # "exited" => outcome[i] \in {None, "failure"}
    BY DEF SendInv, TypeOK, DedupInv, WireInv, WireAt, Pcs, Critical
  <2>2. CASE pc[i] = "exited"
    BY <2>2 DEF SendInv, WireInv, WireAt
  <2>3. CASE pc[i] # "exited"
    BY <2>1, <2>3, NoneAssumption DEF Outcomes
  <2>4. QED
    BY <2>2, <2>3
<1>2. QED
  BY SendInvariant, <1>1, PTL

\* A failed send may be repeated unless its connection broke.
THEOREM FailureSafe == Spec => []FailureHadNoEffect
<1>1. SendInv => FailureHadNoEffect
  BY NoneAssumption DEF Commands, Outcomes, Upward, Downward, SendInv, TypeOK, DedupInv, WireInv, WireAt, FailureHadNoEffect, Early, Critical, Pcs, Sends
<1>2. QED
  BY SendInvariant, <1>1, PTL

-----------------------------------------------------------------------------
(* The refinement of SendOnce. *)

\* What an invocation is to SendOnce depends on these alone.
LEMMA StageFrame ==
  ASSUME NEW j \in Invocations,
         kind'[j] = kind[j], j \in suppressed' <=> j \in suppressed, j \in recorded' <=> j \in recorded,
         j \in accepted' <=> j \in accepted, pc'[j] = pc[j]
  PROVE  Stage(j)' = Stage(j)
BY DEF Stage

\* A step of one invocation leaves the stage of the others.
LEMMA OthersStay ==
  ASSUME TypeOK, NEW i \in Invocations, Acts(i), NEW j \in Invocations \ {i}
  PROVE  Stage(j)' = Stage(j)
<1>1. pc'[j] = pc[j] /\ kind'[j] = kind[j]
  <2> USE DEF TypeOK, Goto, chosen
  <2>1. CASE Local(i)
    BY <2>1 DEF Local, Begin, Require, Ends, Lock, Look, Record, Release
  <2>2. CASE Crash(i)
    BY <2>2 DEF Crash
  <2>3. CASE Client(i)
    BY <2>3 DEF Client, Connect, Challenged, Welcomed, Replied, NoError, StatusTimesOut, ConnectionLost, Ends
  <2>4. CASE Peer(i)
    BY <2>4 DEF Peer, ServeHello, ServeProof, ServeMessage, Lose, ServerRest
  <2>5. QED
    BY <2>1, <2>2, <2>3, <2>4 DEF Acts
<1>2. (j \in suppressed' <=> j \in suppressed) /\ (j \in recorded' <=> j \in recorded) /\ (j \in accepted' <=> j \in accepted)
  <2> USE DEF TypeOK, file
  <2>1. CASE Local(i)
    BY <2>1 DEF Local, Begin, Require, Lock, Look, Record, Release
  <2>2. CASE Crash(i)
    BY <2>2 DEF Crash
  <2>3. CASE Client(i)
    BY <2>3 DEF Client, Connect, Challenged, Welcomed, Replied, NoError, StatusTimesOut, ConnectionLost
  <2>4. CASE Peer(i)
    BY <2>4 DEF Peer, ServeHello, ServeProof, ServeMessage, Lose, ServerRest
  <2>5. QED
    BY <2>1, <2>2, <2>3, <2>4 DEF Acts
<1>3. QED
  BY <1>1, <1>2, StageFrame

\* Then either nothing changes for SendOnce, or one stage does.
LEMMA Stays ==
  ASSUME TypeOK, NEW i \in Invocations, Acts(i), UNCHANGED <<now, cache, began>>, Stage(i)' = Stage(i)
  PROVE  UNCHANGED Once!onceVars
<1>1. \A j \in Invocations : Stage(j)' = Stage(j)
  BY OthersStay
<1>2. QED
  BY <1>1 DEF Once!onceVars

LEMMA Moves ==
  ASSUME TypeOK, NEW i \in Invocations, Acts(i), NEW s, Stage(i)' = s
  PROVE  Once!Becomes(i, s)
<1>1. \A j \in Invocations : Stage(j)' = IF j = i THEN s ELSE Stage(j)
  BY OthersStay
<1>2. QED
  BY <1>1 DEF Once!Becomes

\* A local step of a command is a step of SendOnce or none.
LEMMA LocalRefines ==
  ASSUME SendInv, NEW i \in Invocations, Local(i) \/ Crash(i)
  PROVE  UNCHANGED Once!onceVars \/ Once!OnceNext
<1> USE NoneAssumption, KindsAssumption DEF SendInv, TypeOK, LockInv, DedupInv, Critical, Commands, Goto, file, wire, chosen
<1>a. Acts(i)
  BY DEF Acts
<1>1. CASE Begin(i)
  <2>1. PICK k \in Kinds[i], m \in Messages :
          /\ kind' = [kind EXCEPT ![i] = k]
          /\ began' = IF k = "claude" THEN [began EXCEPT ![i] = [at |-> now, message |-> m]] ELSE began
          /\ Goto(i, IF k = "claude" THEN "check" ELSE "resolve")
    BY <1>1 DEF Begin
  <2>2. Stage(i) = "idle" /\ UNCHANGED <<now, cache>> /\ i \notin suppressed' \cup recorded'
    BY <1>1 DEF Begin, Stage
  <2>3. CASE k = "claude"
    <3>1. Stage(i)' = "asked"
      BY <2>1, <2>2, <2>3 DEF Stage
    <3>2. Once!Asked(i)
      BY <1>a, <2>1, <2>2, <2>3, <3>1, Moves DEF Once!Asked
    <3>3. QED
      BY <3>2 DEF Once!OnceNext
  <2>4. CASE k # "claude"
    <3>1. Stage(i)' = "idle"
      BY <2>1, <2>4 DEF Stage
    <3>2. QED
      BY <1>a, <2>1, <2>2, <2>4, <3>1, Stays
  <2>5. QED
    BY <2>3, <2>4
<1>2. CASE Require(i)
  <2>1. Stage(i) = "asked" /\ UNCHANGED <<now, cache, began>>
    BY <1>2 DEF Require, Stage
  <2>2. CASE Goto(i, "lock")
    <3>1. Stage(i)' = "asked"
      BY <1>2, <2>2 DEF Require, Stage
    <3>2. QED
      BY <1>a, <2>1, <3>1, Stays
  <2>3. CASE Ends(i, "failure")
    <3>1. Stage(i)' = "failed"
      BY <1>2, <2>3 DEF Require, Stage, Ends
    <3>2. Once!Failed(i)
      BY <1>a, <2>1, <3>1, Moves DEF Once!Failed
    <3>3. QED
      BY <3>2 DEF Once!OnceNext
  <2>4. QED
    BY <1>2, <2>2, <2>3 DEF Require
<1>3. CASE Lock(i)
  <2>1. Stage(i)' = Stage(i) /\ UNCHANGED <<now, cache, began>>
    BY <1>3 DEF Lock, Stage
  <2>2. QED
    BY <1>a, <2>1, Stays
<1>4. CASE Look(i)
  <2>1. Stage(i) = "asked" /\ UNCHANGED <<now, cache, began>> /\ Message(i) \in Messages
    BY <1>4 DEF Look, Stage
  <2>2. CASE Within(cache, Message(i), now)
    <3>1. Stage(i)' = "suppressed"
      BY <1>4, <2>2 DEF Look, Stage
    <3>2. now \in began[i].at .. now /\ Once!Recent(began[i].message, now)
      BY <1>4, <2>2 DEF Look, Once!Recent, Within, Message
    <3>3. Once!Suppressed(i)
      BY <1>a, <2>1, <3>1, <3>2, Moves DEF Once!Suppressed
    <3>4. QED
      BY <3>3 DEF Once!OnceNext
  <2>3. CASE ~Within(cache, Message(i), now)
    <3>1. Stage(i)' = "asked"
      BY <1>4, <2>3 DEF Look, Stage
    <3>2. QED
      BY <1>a, <2>1, <3>1, Stays
  <2>4. QED
    BY <2>2, <2>3
<1>5. CASE Record(i)
  <2>1. Stage(i) = "asked" /\ UNCHANGED <<now, began>> /\ Message(i) \in Messages
    BY <1>5 DEF Record, Stage
  <2>2. CASE cache' = [Prune(cache, stamp[i]) EXCEPT ![Message(i)] = stamp[i]] /\ recorded' = recorded \cup {i}
    <3>1. Stage(i)' = "taken"
      BY <1>5, <2>2 DEF Record, Stage, WireInv, WireAt, Early
    <3>2. stamp[i] \in began[i].at .. now /\ ~Once!Recent(began[i].message, stamp[i])
      BY <1>5 DEF Record, Once!Recent, Within, Message
    <3>3. cache' = [m \in Messages |->
                      IF m = began[i].message THEN stamp[i]
                      ELSE IF Once!Recent(m, stamp[i]) THEN cache[m] ELSE None]
      BY <2>1, <2>2 DEF Prune, Within, Message, Once!Recent
    <3>4. Once!Taken(i)
      BY <1>a, <2>1, <3>1, <3>2, <3>3, Moves DEF Once!Taken
    <3>5. QED
      BY <3>4 DEF Once!OnceNext
  <2>3. CASE UNCHANGED <<cache, recorded>>
    <3>1. Stage(i)' = "failed"
      BY <1>5, <2>3 DEF Record, Stage
    <3>2. Once!Failed(i)
      BY <1>a, <2>1, <2>3, <3>1, Moves DEF Once!Failed
    <3>3. QED
      BY <3>2 DEF Once!OnceNext
  <2>4. QED
    BY <1>5, <2>2, <2>3 DEF Record
<1>6. CASE Release(i)
  <2>1. Stage(i)' = Stage(i) /\ UNCHANGED <<now, cache, began>>
    BY <1>6 DEF Release, Stage
  <2>2. QED
    BY <1>a, <2>1, Stays
<1>7. CASE Crash(i)
  <2>1. UNCHANGED <<now, cache, began, suppressed, recorded, accepted, kind>> /\ pc'[i] = "crashed" /\ kind[i] = "claude"
    BY <1>7 DEF Crash
  <2>2. CASE pc[i] = "release"
    <3>1. Stage(i)' = Stage(i)
      BY <2>1, <2>2 DEF Stage
    <3>2. QED
      BY <1>a, <2>1, <3>1, Stays
  <2>3. CASE pc[i] # "release"
    <3>1. Stage(i) = "asked" /\ Stage(i)' = "failed"
      BY <1>7, <2>1, <2>3 DEF Crash, Stage
    <3>2. Once!Failed(i)
      BY <1>a, <2>1, <3>1, Moves DEF Once!Failed
    <3>3. QED
      BY <3>2 DEF Once!OnceNext
  <2>4. QED
    BY <2>2, <2>3
<1>8. QED
  BY <1>1, <1>2, <1>3, <1>4, <1>5, <1>6, <1>7 DEF Local

\* On the network only the server's acceptance is a step of SendOnce, and
\* only of a message that was taken.
LEMMA WireRefines ==
  ASSUME SendInv, NEW i \in Invocations, Client(i) \/ Peer(i)
  PROVE  UNCHANGED Once!onceVars \/ Once!OnceNext
<1> USE NoneAssumption DEF SendInv, TypeOK, DedupInv, WireInv, WireAt, Early, Critical, Goto, file, chosen
<1>a. Acts(i)
  BY DEF Acts
<1>1. UNCHANGED <<now, cache, began, kind, suppressed, recorded>>
  BY DEF Client, Connect, Challenged, Welcomed, Replied, NoError, StatusTimesOut, ConnectionLost,
         Peer, ServeHello, ServeProof, ServeMessage, Lose, ServerRest
<1>2. kind[i] = "claude" /\ i \notin suppressed => i \in recorded \/ UNCHANGED <<pc, accepted>>
  <2>1. CASE Client(i)
    <3>1. pc[i] \in {"resolve", "hello", "proof", "wait"}
      BY <2>1 DEF Client, Connect, Challenged, Welcomed, Replied, NoError, StatusTimesOut, ConnectionLost
    <3>2. QED
      BY <3>1
  <2>2. CASE ServeMessage(i)
    BY <2>2 DEF ServeMessage, Upward
  <2>3. CASE ServeHello(i) \/ ServeProof(i) \/ Lose(i)
    BY <2>3 DEF ServeHello, ServeProof, Lose, ServerRest
  <2>4. QED
    BY <2>1, <2>2, <2>3 DEF Peer
<1>3. CASE UNCHANGED accepted
  <2>1. Stage(i)' = Stage(i)
    BY <1>1, <1>2, <1>3 DEF Stage
  <2>2. QED
    BY <1>a, <1>1, <2>1, Stays
<1>4. CASE accepted' = accepted \cup {i}
  <2>1. CASE Stage(i)' = Stage(i)
    BY <1>a, <1>1, <2>1, Stays
  <2>2. CASE Stage(i)' # Stage(i)
    <3>1. Stage(i) = "taken" /\ Stage(i)' = "reached"
      BY <1>1, <1>2, <1>4, <2>2 DEF Stage
    <3>2. Once!Reached(i)
      BY <1>a, <1>1, <3>1, Moves DEF Once!Reached
    <3>3. QED
      BY <3>2 DEF Once!OnceNext
  <2>3. QED
    BY <2>1, <2>2
<1>5. UNCHANGED accepted \/ accepted' = accepted \cup {i}
  BY DEF Client, Connect, Challenged, Welcomed, Replied, NoError, StatusTimesOut, ConnectionLost,
         Peer, ServeHello, ServeProof, ServeMessage, Lose, ServerRest
<1>6. QED
  BY <1>3, <1>4, <1>5

\* The commands implement SendOnce: across processes, crashes and failing
\* writes a message is decided as if at one instant, and reaches the bus at
\* most once if it was taken (is_duplicate_send).
THEOREM Refinement == Spec => DecidedOnce
<1>1. Init => Once!OnceInit
  BY NoneAssumption DEF Init, Once!OnceInit, Stage, NotYet, Commands
<1>2. SendInv /\ [Next]_vars => [Once!OnceNext]_(Once!onceVars)
  <2> SUFFICES ASSUME SendInv, [Next]_vars PROVE UNCHANGED Once!onceVars \/ Once!OnceNext
    OBVIOUS
  <2>1. CASE Tick
    <3>1. \A j \in Invocations : Stage(j)' = Stage(j)
      BY <2>1, StageFrame DEF Tick, file, wire, chosen
    <3>2. Once!Tick
      BY <2>1, <3>1 DEF Tick, Once!Tick, file, wire, chosen
    <3>3. QED
      BY <3>2 DEF Once!OnceNext
  <2>2. ASSUME NEW i \in Invocations, Acts(i) PROVE UNCHANGED Once!onceVars \/ Once!OnceNext
    BY <2>2, LocalRefines, WireRefines DEF Acts
  <2>3. CASE UNCHANGED vars
    <3>1. \A j \in Invocations : Stage(j)' = Stage(j)
      BY <2>3, StageFrame DEF vars
    <3>2. QED
      BY <2>3, <3>1 DEF vars, Once!onceVars
  <2>4. QED
    BY <2>1, <2>2, <2>3 DEF Next, Acts
<1>3. QED
  BY <1>1, <1>2, SendInvariant, PTL DEF Spec, DecidedOnce, Once!OnceSpec
=============================================================================
