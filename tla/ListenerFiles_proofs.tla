------------------------- MODULE ListenerFiles_proofs -------------------------
(***************************************************************************)
(* The flock protects the state file of a host session, and nobody leaves  *)
(* or loses a control socket: TypeOK, StateFileStays, AbsentIsTrue,        *)
(* LeftoversDoNotBlock and CleanExit of ListenerFiles, for any number of   *)
(* listeners, helpers, host sessions, inodes and crashes.                  *)
(*                                                                         *)
(* The strengthening is LockOwned: who is past AcquireLock or TestLock     *)
(* holds the lock of its key, and a listener's state file is written only  *)
(* while it does.  flock is a function, so a key has one holder.           *)
(* SocketInv: a listener that is not disturbed is alone at the socket.     *)
(* LeftInv: what is there has somebody who will remove it, or was left by  *)
(* a start that was cancelled behind its bind.                             *)
(***************************************************************************)
EXTENDS ListenerFiles, TLAPS

Acts(p) ==
  \/ AcquireLock(p) \/ Session(p) \/ Ends(p) \/ DeleteState(p) \/ ReleaseLock(p) \/ Quit(p) \/ Crash(p)
  \/ Start(p) \/ WriteState(p) \/ StopServer(p) \/ Compare(p) \/ UnlinkOwned(p)
Helps(h) ==
  \/ Check(h) \/ Disconnect(h) \/ Scan(h) \/ TestLock(h) \/ ReleaseTest(h)
  \/ Kill(h) \/ MatchLock(h) \/ MatchRead(h) \/ MatchUnlink(h)

LockOwned ==
  /\ \A p \in Procs : pc[p] \notin Gone \cup {"ending"} => flock[KeyOf[p]] = p
  /\ \A h \in Helpers : pc[h] \in {"free", "compare", "remove"} => flock[target[h]] = h
  /\ \A p \in written : pc[p] \notin Gone \cup {"release", "ending"}

FilesInv == TypeOK /\ LockOwned /\ StateFileStays

\* How far a listener that nobody disturbed is with its socket.
Alone(p) ==
  /\ \A q \in Busy : q = p
  /\ pc[p] \notin {"aborted", "undo"}
  /\ pc[p] \in {"probe", "unlink"} => path # None
  /\ pc[p] = "bind" => path = None
  /\ pc[p] \in {"bound", "stat", "chmod", "confirm", "welcomed", "serving"} => path # None /\ listens[p] = path
  /\ pc[p] \in {"chmod", "confirm"} => inode[p] = path

SocketInv ==
  /\ \A p \in Procs :
       pc[p] \in {"off", "exited", "crashed", "locked", "exists", "probe", "unlink",
                 "remove", "bind", "aborted", "undo", "stopped", "drop"} => listens[p] = None
  /\ \A p \in Procs \ disturbed : p \in Busy => Alone(p)

\* Who will remove what is at the socket's path.
Claims(p) ==
  \/ pc[p] \in {"bound", "stat"} /\ listens[p] = path
  \/ pc[p] \in {"chmod", "confirm", "welcomed", "serving", "aborted", "undo", "stopped", "drop"} /\ inode[p] = path

LeftInv ==
  /\ \A k \in Keys : flock[k] \in Procs => pc[flock[k]] \notin Gone \cup {"ending"} /\ KeyOf[flock[k]] = k
  /\ crashes = 0 =>
       /\ \A k \in Keys : session[k] # None => session[k] \in written /\ KeyOf[session[k]] = k
       /\ path # None => left \/ \E p \in Procs : Claims(p)
  /\ left => path # None
  /\ \A p \in Procs : pc[p] = "bound" => listens[p] # None

-----------------------------------------------------------------------------
(* Types. *)

\* Init gives every variable a value of its type.
LEMMA TypeInit == Init => TypeOK
<1> SUFFICES ASSUME Init PROVE TypeOK
  OBVIOUS
<1>1. pc \in [Procs \cup Helpers -> ListenerPcs \cup HelperPcs] /\ \A h \in Helpers : pc[h] = "off"
  BY DEF Init, ListenerPcs, HelperPcs
<1>2. /\ flock \in [Keys -> Procs \cup Helpers \cup {None}] /\ session \in [Keys -> Procs \cup {None}]
      /\ listens \in [Procs -> Inodes \cup {None}] /\ inode \in [Procs -> Inodes \cup {None}]
  BY DEF Init
<1>3. /\ found \in [Helpers -> Procs \cup {None}] /\ target \in [Helpers -> Keys]
      /\ unseen \in [Helpers -> SUBSET Keys] /\ signals \subseteq Helpers \X Procs
  BY KeysAssumption DEF Init
<1>4. path \in Inodes \cup {None} /\ left \in BOOLEAN /\ written \subseteq Procs /\ disturbed \subseteq Procs
  BY DEF Init
<1>5. number = 0 /\ crashes = 0
  BY DEF Init
<1>6. number \in 0..SessionBound /\ crashes \in 0..CrashBound
  BY <1>5, FileBoundsAssumption
<1>7. QED
  BY <1>1, <1>2, <1>3, <1>4, <1>6 DEF TypeOK

\* No step of a listener takes a variable out of its type.
LEMMA TypeListener == ASSUME TypeOK, NEW p \in Procs, Acts(p) PROVE TypeOK'
<1> USE KeysAssumption, ProcsAssumption, FileBoundsAssumption DEF TypeOK, ListenerPcs, Goto, files, socket, asked, rest, Gone
<1>1. ASSUME AcquireLock(p) PROVE TypeOK'
  BY <1>1 DEF AcquireLock
<1>2. ASSUME Session(p) PROVE TypeOK'
  BY <1>2 DEF Session, Busy
<1>3. ASSUME Ends(p) PROVE TypeOK'
  BY <1>3 DEF Ends
<1>4. ASSUME DeleteState(p) PROVE TypeOK'
  BY <1>4 DEF DeleteState
<1>5. ASSUME ReleaseLock(p) PROVE TypeOK'
  BY <1>5 DEF ReleaseLock
<1>6. ASSUME Crash(p) PROVE TypeOK'
  BY <1>6 DEF Crash
<1>7. ASSUME PathExists(p) PROVE TypeOK'
  BY <1>7 DEF PathExists
<1>8. ASSUME Probe(p) PROVE TypeOK'
  BY <1>8 DEF Probe, Unavailable
<1>9. ASSUME UnlinkDead(p) PROVE TypeOK'
  <2>1. CASE path = None
    BY <1>9, <2>1 DEF UnlinkDead, Unavailable
  <2>2. CASE path # None
    BY <1>9, <2>2, ZenonT(30) DEF UnlinkDead, Unlinked
  <2>3. QED
    BY <2>1, <2>2
<1>10. ASSUME Remove(p) PROVE TypeOK'
  BY <1>10 DEF Remove, Unlinked
<1>11. ASSUME Bind(p) PROVE TypeOK'
  BY <1>11 DEF Bind, Unavailable, FreeInodes
<1>12. ASSUME Stat(p) PROVE TypeOK'
  BY <1>12 DEF Stat, Unavailable
<1>13. ASSUME Chmod(p) PROVE TypeOK'
  BY <1>13 DEF Chmod
<1>14. ASSUME Confirm(p) PROVE TypeOK'
  BY <1>14 DEF Confirm, Unavailable
<1>15. ASSUME WriteState(p) PROVE TypeOK'
  BY <1>15 DEF WriteState
<1>16. ASSUME StopServer(p) PROVE TypeOK'
  BY <1>16 DEF StopServer
<1>17. ASSUME Compare(p) PROVE TypeOK'
  <2>1. pc' \in [Procs \cup Helpers -> ListenerPcs \cup HelperPcs] /\ \A h \in Helpers : pc'[h] = pc[h]
    BY <1>17 DEF Compare, AfterUnlink
  <2>2. inode' \in [Procs -> Inodes \cup {None}]
    BY <1>17 DEF Compare
  <2>3. UNCHANGED <<files, path, listens, left, rest>>
    BY <1>17 DEF Compare
  <2>4. QED
    BY <2>1, <2>2, <2>3
<1>18. ASSUME UnlinkOwned(p) PROVE TypeOK'
  <2>1. pc' \in [Procs \cup Helpers -> ListenerPcs \cup HelperPcs] /\ \A h \in Helpers : pc'[h] = pc[h]
    BY <1>18 DEF UnlinkOwned, AfterUnlink
  <2>2. path' = None /\ left' = FALSE /\ inode' \in [Procs -> Inodes \cup {None}]
    BY <1>18 DEF UnlinkOwned, Unlinked
  <2>3. UNCHANGED <<files, listens, rest>>
    BY <1>18 DEF UnlinkOwned
  <2>4. QED
    BY <2>1, <2>2, <2>3
<1>19. ASSUME Bound(p) PROVE TypeOK'
  BY <1>19 DEF Bound
<1>20. ASSUME Cancelled(p) PROVE TypeOK'
  BY <1>20 DEF Cancelled
<1>21. ASSUME Quit(p) PROVE TypeOK'
  BY <1>21 DEF Quit
<1>22. QED
  BY <1>1, <1>2, <1>3, <1>4, <1>5, <1>6, <1>7, <1>8, <1>9, <1>10, <1>11, <1>12, <1>13, <1>14, <1>15, <1>16, <1>17, <1>18,
     <1>19, <1>20, <1>21 DEF Acts, Start

\* No step of a helper does.
LEMMA TypeHelper == ASSUME TypeOK, NEW h \in Helpers, Helps(h) PROVE TypeOK'
<1> USE KeysAssumption, ProcsAssumption DEF TypeOK, HelperPcs, Goto, files, socket, asked, HelperRest
<1>1. ASSUME Check(h) PROVE TypeOK'
  BY <1>1 DEF Check
<1>2. ASSUME Disconnect(h) PROVE TypeOK'
  BY <1>2 DEF Disconnect
<1>3. ASSUME Scan(h) PROVE TypeOK'
  BY <1>3 DEF Scan
<1>4. ASSUME TestLock(h) PROVE TypeOK'
  BY <1>4 DEF TestLock, Holds
<1>5. ASSUME ReleaseTest(h) PROVE TypeOK'
  BY <1>5 DEF ReleaseTest, Drops
<1>6. ASSUME Kill(h) PROVE TypeOK'
  BY <1>6 DEF Kill
<1>7. ASSUME MatchLock(h) PROVE TypeOK'
  BY <1>7 DEF MatchLock, NoMatch, Holds
<1>8. ASSUME MatchRead(h) PROVE TypeOK'
  BY <1>8 DEF MatchRead, NoMatch, Drops
<1>9. ASSUME MatchUnlink(h) PROVE TypeOK'
  BY <1>9 DEF MatchUnlink, Drops
<1>10. QED
  BY <1>1, <1>2, <1>3, <1>4, <1>5, <1>6, <1>7, <1>8, <1>9 DEF Helps

\* A step is one of a listener or of a helper.
LEMMA NextCases == ASSUME Next PROVE (\E p \in Procs : Acts(p)) \/ (\E h \in Helpers : Helps(h))
  BY DEF Next, Acts, Helps

\* Type correctness: every variable keeps its type, and a helper that goes
\* for a listener has found one, whatever helpers and listeners do meanwhile.
THEOREM TypeCorrect == Spec => []TypeOK
<1>1. TypeOK /\ [Next]_vars => TypeOK'
  <2> SUFFICES ASSUME TypeOK, [Next]_vars PROVE TypeOK'
    OBVIOUS
  <2>1. CASE Next
    BY <2>1, NextCases, TypeListener, TypeHelper
  <2>2. CASE UNCHANGED vars
    BY <2>2 DEF vars, TypeOK
  <2>3. QED
    BY <2>1, <2>2
<1>2. QED
  BY TypeInit, <1>1, PTL DEF Spec

-----------------------------------------------------------------------------
(* The lock and the state file. *)

\* A listener's step keeps the lock's owners and every written state file:
\* to write or delete a file it holds the lock that its owner would hold.
LEMMA LockListener == ASSUME FilesInv, NEW p \in Procs, Acts(p) PROVE LockOwned' /\ StateFileStays'
<1> USE KeysAssumption, ProcsAssumption DEF FilesInv, TypeOK, LockOwned, StateFileStays, Goto, files, socket, asked, rest, Gone
<1>1. ASSUME AcquireLock(p) PROVE LockOwned' /\ StateFileStays'
  BY <1>1 DEF AcquireLock
<1>2. ASSUME Session(p) PROVE LockOwned' /\ StateFileStays'
  BY <1>2 DEF Session, Busy
<1>3. ASSUME Ends(p) PROVE LockOwned' /\ StateFileStays'
  BY <1>3 DEF Ends
<1>4. ASSUME DeleteState(p) PROVE LockOwned' /\ StateFileStays'
  BY <1>4 DEF DeleteState
<1>5. ASSUME ReleaseLock(p) PROVE LockOwned' /\ StateFileStays'
  BY <1>5 DEF ReleaseLock
<1>6. ASSUME Crash(p) PROVE LockOwned' /\ StateFileStays'
  BY <1>6 DEF Crash
<1>7. ASSUME PathExists(p) PROVE LockOwned' /\ StateFileStays'
  BY <1>7 DEF PathExists
<1>8. ASSUME Probe(p) PROVE LockOwned' /\ StateFileStays'
  BY <1>8 DEF Probe, Unavailable
<1>9. ASSUME UnlinkDead(p) PROVE LockOwned' /\ StateFileStays'
  BY <1>9 DEF UnlinkDead, Unlinked, Unavailable
<1>10. ASSUME Remove(p) PROVE LockOwned' /\ StateFileStays'
  BY <1>10 DEF Remove, Unlinked
<1>11. ASSUME Bind(p) PROVE LockOwned' /\ StateFileStays'
  BY <1>11 DEF Bind, Unavailable, FreeInodes
<1>12. ASSUME Stat(p) PROVE LockOwned' /\ StateFileStays'
  BY <1>12 DEF Stat, Unavailable
<1>13. ASSUME Chmod(p) PROVE LockOwned' /\ StateFileStays'
  BY <1>13 DEF Chmod
<1>14. ASSUME Confirm(p) PROVE LockOwned' /\ StateFileStays'
  BY <1>14 DEF Confirm, Unavailable
<1>15. ASSUME WriteState(p) PROVE LockOwned' /\ StateFileStays'
  BY <1>15 DEF WriteState
<1>16. ASSUME StopServer(p) PROVE LockOwned' /\ StateFileStays'
  BY <1>16 DEF StopServer
<1>17. ASSUME Compare(p) PROVE LockOwned' /\ StateFileStays'
  BY <1>17 DEF Compare, AfterUnlink
<1>18. ASSUME UnlinkOwned(p) PROVE LockOwned' /\ StateFileStays'
  BY <1>18 DEF UnlinkOwned, Unlinked, AfterUnlink
<1>19. ASSUME Bound(p) PROVE LockOwned' /\ StateFileStays'
  BY <1>19 DEF Bound
<1>20. ASSUME Cancelled(p) PROVE LockOwned' /\ StateFileStays'
  BY <1>20 DEF Cancelled
<1>21. ASSUME Quit(p) PROVE LockOwned' /\ StateFileStays'
  BY <1>21 DEF Quit
<1>22. QED
  BY <1>1, <1>2, <1>3, <1>4, <1>5, <1>6, <1>7, <1>8, <1>9, <1>10, <1>11, <1>12, <1>13, <1>14, <1>15, <1>16, <1>17, <1>18,
     <1>19, <1>20, <1>21 DEF Acts, Start

\* A helper removes a file only while it holds the lock of its key, which no
\* listener that wrote one can then hold.
LEMMA LockHelper == ASSUME FilesInv, NEW h \in Helpers, Helps(h) PROVE LockOwned' /\ StateFileStays'
<1> USE KeysAssumption, ProcsAssumption DEF FilesInv, TypeOK, LockOwned, StateFileStays, Goto, files, socket, asked, HelperRest, Gone
<1>1. ASSUME Check(h) PROVE LockOwned' /\ StateFileStays'
  BY <1>1 DEF Check
<1>2. ASSUME Disconnect(h) PROVE LockOwned' /\ StateFileStays'
  BY <1>2 DEF Disconnect
<1>3. ASSUME Scan(h) PROVE LockOwned' /\ StateFileStays'
  BY <1>3 DEF Scan
<1>4. ASSUME TestLock(h) PROVE LockOwned' /\ StateFileStays'
  BY <1>4 DEF TestLock, Holds
<1>5. ASSUME ReleaseTest(h) PROVE LockOwned' /\ StateFileStays'
  BY <1>5 DEF ReleaseTest, Drops
<1>6. ASSUME Kill(h) PROVE LockOwned' /\ StateFileStays'
  BY <1>6 DEF Kill
<1>7. ASSUME MatchLock(h) PROVE LockOwned' /\ StateFileStays'
  BY <1>7 DEF MatchLock, NoMatch, Holds
<1>8. ASSUME MatchRead(h) PROVE LockOwned' /\ StateFileStays'
  BY <1>8 DEF MatchRead, NoMatch, Drops
<1>9. ASSUME MatchUnlink(h) PROVE LockOwned' /\ StateFileStays'
  BY <1>9 DEF MatchUnlink, Drops
<1>10. QED
  BY <1>1, <1>2, <1>3, <1>4, <1>5, <1>6, <1>7, <1>8, <1>9 DEF Helps

\* The inductive invariant.
LEMMA FilesInvariant == Spec => []FilesInv
<1>1. Init => FilesInv
  BY TypeInit DEF Init, FilesInv, LockOwned, StateFileStays, Gone
<1>2. FilesInv /\ [Next]_vars => FilesInv'
  <2> SUFFICES ASSUME FilesInv, [Next]_vars PROVE FilesInv'
    OBVIOUS
  <2>1. CASE Next
    <3>1. TypeOK'
      BY <2>1, NextCases, TypeListener, TypeHelper DEF FilesInv
    <3>2. LockOwned' /\ StateFileStays'
      BY <2>1, NextCases, LockListener, LockHelper
    <3>3. QED
      BY <3>1, <3>2 DEF FilesInv
  <2>2. CASE UNCHANGED vars
    BY <2>2 DEF vars, FilesInv, TypeOK, LockOwned, StateFileStays, Gone
  <2>3. QED
    BY <2>1, <2>2
<1>3. QED
  BY <1>1, <1>2, PTL DEF Spec

\* The state file of a listener that reported ready is its own until it
\* deletes it: no helper with an older state, and no other listener, removes
\* or replaces it (unlink_if_matches, Listener.run).
THEOREM StateFileSafe == Spec => []StateFileStays
  BY FilesInvariant, PTL DEF FilesInv

\* A helper that decides under the lock that nobody is connected is right.
THEOREM AbsentSafe == Spec => []AbsentIsTrue
<1>1. FilesInv => AbsentIsTrue
  BY ProcsAssumption DEF FilesInv, TypeOK, LockOwned, AbsentIsTrue, Gone
<1>2. QED
  BY FilesInvariant, <1>1, PTL

-----------------------------------------------------------------------------
(* The control socket. *)

\* A listener's step keeps those that nobody disturbed alone at the socket:
\* whoever else gets there disturbs both.
LEMMA SocketListener == ASSUME TypeOK, SocketInv, NEW p \in Procs, Acts(p) PROVE SocketInv'
<1> USE KeysAssumption, ProcsAssumption, FileBoundsAssumption, InodesAssumption DEF TypeOK, Goto, files, socket, asked, rest, Gone, SocketInv
<1>1. ASSUME AcquireLock(p) PROVE SocketInv'
  BY <1>1 DEF AcquireLock, Busy, Alone
<1>2. ASSUME Session(p) PROVE SocketInv'
  BY <1>2 DEF Session, Busy, Alone
<1>3. ASSUME Ends(p) PROVE SocketInv'
  BY <1>3 DEF Ends, Busy, Alone
<1>4. ASSUME DeleteState(p) PROVE SocketInv'
  BY <1>4 DEF DeleteState, Busy, Alone
<1>5. ASSUME ReleaseLock(p) PROVE SocketInv'
  BY <1>5 DEF ReleaseLock, Busy, Alone
<1>6. ASSUME Crash(p) PROVE SocketInv'
  BY <1>6 DEF Crash, Busy, Alone
<1>7. ASSUME PathExists(p) PROVE SocketInv'
  BY <1>7 DEF PathExists, Busy, Alone
<1>8. ASSUME Probe(p) PROVE SocketInv'
  <2>1. CASE path # None /\ Alive(path)
    <3>1. PICK q \in Procs : listens[q] = path
      BY <2>1 DEF Alive
    <3>2. q # p /\ q \in Busy
      BY <1>8, <2>1, <3>1 DEF Probe, Busy
    <3>3. p \in disturbed
      BY <1>8, <3>2 DEF Probe, Busy, Alone
    <3>4. QED
      BY <1>8, <2>1, <3>3 DEF Probe, Unavailable, Busy, Alone
  <2>2. CASE ~(path # None /\ Alive(path))
    BY <1>8, <2>2 DEF Probe, Busy, Alone
  <2>3. QED
    BY <2>1, <2>2
<1>9. ASSUME UnlinkDead(p) PROVE SocketInv'
  BY <1>9 DEF UnlinkDead, Unlinked, Unavailable, Busy, Alone
<1>10. ASSUME Remove(p) PROVE SocketInv'
  BY <1>10 DEF Remove, Unlinked, Busy, Alone
<1>11. ASSUME Bind(p) PROVE SocketInv'
  BY <1>11 DEF Bind, Unavailable, FreeInodes, Busy, Alone
<1>12. ASSUME Stat(p) PROVE SocketInv'
  BY <1>12 DEF Stat, Unavailable, Busy, Alone
<1>13. ASSUME Chmod(p) PROVE SocketInv'
  BY <1>13 DEF Chmod, Busy, Alone
<1>14. ASSUME Confirm(p) PROVE SocketInv'
  BY <1>14 DEF Confirm, Unavailable, Busy, Alone
<1>15. ASSUME WriteState(p) PROVE SocketInv'
  BY <1>15 DEF WriteState, Busy, Alone
<1>16. ASSUME StopServer(p) PROVE SocketInv'
  BY <1>16 DEF StopServer, Busy, Alone
<1>17. ASSUME Compare(p) PROVE SocketInv'
  BY <1>17 DEF Compare, AfterUnlink, Busy, Alone
<1>18. ASSUME UnlinkOwned(p) PROVE SocketInv'
  BY <1>18 DEF UnlinkOwned, Unlinked, AfterUnlink, Busy, Alone
<1>19. ASSUME Bound(p) PROVE SocketInv'
  BY <1>19 DEF Bound, Busy, Alone
<1>20. ASSUME Cancelled(p) PROVE SocketInv'
  BY <1>20 DEF Cancelled, Busy, Alone
<1>21. ASSUME Quit(p) PROVE SocketInv'
  BY <1>21 DEF Quit, Busy, Alone
<1>22. QED
  BY <1>1, <1>2, <1>3, <1>4, <1>5, <1>6, <1>7, <1>8, <1>9, <1>10, <1>11, <1>12, <1>13, <1>14, <1>15, <1>16, <1>17, <1>18,
     <1>19, <1>20, <1>21
     DEF Acts, Start

\* A helper does not touch the socket.
LEMMA SocketHelper == ASSUME TypeOK, SocketInv, NEW h \in Helpers, Helps(h) PROVE SocketInv'
<1>1. UNCHANGED <<socket, disturbed>> /\ \A p \in Procs : pc'[p] = pc[p]
  BY ProcsAssumption DEF Helps, Check, Disconnect, Scan, TestLock, ReleaseTest, Kill, MatchLock, MatchRead,
     NoMatch, MatchUnlink, HelperRest, Goto, TypeOK
<1>2. Busy' = Busy
  BY <1>1 DEF Busy, socket
<1>3. QED
  BY <1>1, <1>2 DEF SocketInv, Alone, socket

\* A listener's step leaves nothing behind without somebody to remove it.
LEMMA LeftListener == ASSUME FilesInv, LeftInv, NEW p \in Procs, Acts(p) PROVE LeftInv'
<1> USE KeysAssumption, ProcsAssumption, FileBoundsAssumption, InodesAssumption DEF TypeOK, Goto, files, socket, asked, rest, Gone, FilesInv, LockOwned, StateFileStays, LeftInv, Claims
<1>1. ASSUME AcquireLock(p) PROVE LeftInv'
  BY <1>1 DEF AcquireLock
<1>2. ASSUME Session(p) PROVE LeftInv'
  BY <1>2 DEF Session, Busy
<1>3. ASSUME Ends(p) PROVE LeftInv'
  BY <1>3 DEF Ends
<1>4. ASSUME DeleteState(p) PROVE LeftInv'
  BY <1>4 DEF DeleteState
<1>5. ASSUME ReleaseLock(p) PROVE LeftInv'
  BY <1>5 DEF ReleaseLock
<1>6. ASSUME Crash(p) PROVE LeftInv'
  BY <1>6 DEF Crash
<1>7. ASSUME PathExists(p) PROVE LeftInv'
  BY <1>7 DEF PathExists
<1>8. ASSUME Probe(p) PROVE LeftInv'
  BY <1>8 DEF Probe, Unavailable
<1>9. ASSUME UnlinkDead(p) PROVE LeftInv'
  BY <1>9 DEF UnlinkDead, Unlinked, Unavailable
<1>10. ASSUME Remove(p) PROVE LeftInv'
  BY <1>10 DEF Remove, Unlinked
<1>11. ASSUME Bind(p) PROVE LeftInv'
  BY <1>11 DEF Bind, Unavailable, FreeInodes
<1>12. ASSUME Stat(p) PROVE LeftInv'
  BY <1>12 DEF Stat, Unavailable
<1>13. ASSUME Chmod(p) PROVE LeftInv'
  BY <1>13 DEF Chmod
<1>14. ASSUME Confirm(p) PROVE LeftInv'
  BY <1>14 DEF Confirm, Unavailable
<1>15. ASSUME WriteState(p) PROVE LeftInv'
  BY <1>15 DEF WriteState
<1>16. ASSUME StopServer(p) PROVE LeftInv'
  BY <1>16 DEF StopServer
<1>17. ASSUME Compare(p) PROVE LeftInv'
  BY <1>17 DEF Compare, AfterUnlink
<1>18. ASSUME UnlinkOwned(p) PROVE LeftInv'
  BY <1>18 DEF UnlinkOwned, Unlinked, AfterUnlink
<1>19. ASSUME Bound(p) PROVE LeftInv'
  BY <1>19 DEF Bound
<1>20. ASSUME Cancelled(p) PROVE LeftInv'
  <2>1. UNCHANGED <<files, path, listens, inode, rest>> /\ \A q \in Procs \ {p} : pc'[q] = pc[q]
    BY <1>20 DEF Cancelled
  <2>2. pc[p] \in {"probe", "bound"} /\ pc'[p] = "delete"
    BY <1>20 DEF Cancelled
  <2>3. left' => path # None
    BY <1>20 DEF Cancelled
  <2>4. \A q \in Procs \ {p} : Claims(q) => Claims(q)'
    BY <2>1
  <2>5. Claims(p) => left'
    BY <1>20 DEF Cancelled
  <2>6. left => left'
    BY <1>20 DEF Cancelled
  <2>7. path' # None /\ crashes' = 0 => left' \/ \E q \in Procs : Claims(q)'
    BY <2>1, <2>4, <2>5, <2>6
  <2>8. QED
    BY <2>1, <2>2, <2>3, <2>7
<1>21. ASSUME Quit(p) PROVE LeftInv'
  <2>1. UNCHANGED <<files, path, inode, left, rest>> /\ \A q \in Procs \ {p} : pc'[q] = pc[q] /\ listens'[q] = listens[q]
    BY <1>21 DEF Quit
  <2>2. pc[p] = "ending" /\ pc'[p] = "exited"
    BY <1>21 DEF Quit
  <2>3. \A k \in Keys : flock[k] # p
    BY <2>2
  <2>4. ~Claims(p) /\ \A q \in Procs \ {p} : Claims(q) => Claims(q)'
    BY <2>1, <2>2
  <2>5. path' # None /\ crashes' = 0 => left' \/ \E q \in Procs : Claims(q)'
    BY <2>1, <2>4
  <2>6. QED
    BY <2>1, <2>2, <2>3, <2>5
<1>22. QED
  BY <1>1, <1>2, <1>3, <1>4, <1>5, <1>6, <1>7, <1>8, <1>9, <1>10, <1>11, <1>12, <1>13, <1>14, <1>15, <1>16, <1>17, <1>18,
     <1>19, <1>20, <1>21
     DEF Acts, Start

\* Nor does a helper's.
LEMMA LeftHelper == ASSUME FilesInv, LeftInv, NEW h \in Helpers, Helps(h) PROVE LeftInv'
<1> USE KeysAssumption, ProcsAssumption DEF FilesInv, TypeOK, LockOwned, LeftInv, Claims, Goto, files, socket, asked, HelperRest, Gone
<1>1. ASSUME Check(h) PROVE LeftInv'
  BY <1>1 DEF Check
<1>2. ASSUME Disconnect(h) PROVE LeftInv'
  BY <1>2 DEF Disconnect
<1>3. ASSUME Scan(h) PROVE LeftInv'
  BY <1>3 DEF Scan
<1>4. ASSUME TestLock(h) PROVE LeftInv'
  BY <1>4 DEF TestLock, Holds
<1>5. ASSUME ReleaseTest(h) PROVE LeftInv'
  BY <1>5 DEF ReleaseTest, Drops
<1>6. ASSUME Kill(h) PROVE LeftInv'
  BY <1>6 DEF Kill
<1>7. ASSUME MatchLock(h) PROVE LeftInv'
  BY <1>7 DEF MatchLock, NoMatch, Holds
<1>8. ASSUME MatchRead(h) PROVE LeftInv'
  BY <1>8 DEF MatchRead, NoMatch, Drops
<1>9. ASSUME MatchUnlink(h) PROVE LeftInv'
  BY <1>9 DEF MatchUnlink, Drops
<1>10. QED
  BY <1>1, <1>2, <1>3, <1>4, <1>5, <1>6, <1>7, <1>8, <1>9
     DEF Helps

\* The invariant of the socket holds in every state.
LEMMA SocketInvariant == Spec => []SocketInv
<1>1. Init => SocketInv
  BY ProcsAssumption DEF Init, SocketInv, Busy, Gone
<1>2. TypeOK /\ SocketInv /\ [Next]_vars => SocketInv'
  <2> SUFFICES ASSUME TypeOK, SocketInv, [Next]_vars PROVE SocketInv'
    OBVIOUS
  <2>1. CASE Next
    BY <2>1, NextCases, SocketListener, SocketHelper
  <2>2. CASE UNCHANGED vars
    BY <2>2 DEF vars, SocketInv, Alone, Busy
  <2>3. QED
    BY <2>1, <2>2
<1>3. QED
  BY <1>1, <1>2, TypeCorrect, PTL DEF Spec

\* What a crash left at the socket's path does not cost a later listener its
\* control socket, unless another listener is at work there or chmod fails
\* (ControlServer.start).
THEOREM LeftoversSafe == Spec => []LeftoversDoNotBlock
<1>1. SocketInv => LeftoversDoNotBlock
  BY DEF SocketInv, Alone, Busy, Gone, LeftoversDoNotBlock
<1>2. QED
  BY SocketInvariant, <1>1, PTL

\* The invariant of what is left behind holds in every state.
LEMMA LeftInvariant == Spec => []LeftInv
<1>1. Init => LeftInv
  BY ProcsAssumption DEF Init, LeftInv
<1>2. FilesInv /\ LeftInv /\ [Next]_vars => LeftInv'
  <2> SUFFICES ASSUME FilesInv, LeftInv, [Next]_vars PROVE LeftInv'
    OBVIOUS
  <2>1. CASE Next
    BY <2>1, NextCases, LeftListener, LeftHelper
  <2>2. CASE UNCHANGED vars
    BY <2>2 DEF vars, LeftInv, Claims, Gone
  <2>3. QED
    BY <2>1, <2>2
<1>3. QED
  BY <1>1, <1>2, FilesInvariant, PTL DEF Spec

\* Listeners that all went without a crash leave no state file, no lock and
\* no socket behind, whatever they raced for, unless the socket is that of a
\* start which was cancelled behind its bind (ControlServer.stop,
\* Listener.run).
THEOREM NothingLeft == Spec => []CleanExit
<1>1. FilesInv /\ LeftInv => CleanExit
  <2> SUFFICES ASSUME FilesInv, LeftInv, crashes = 0, \A p \in Procs : pc[p] \in {"off", "exited"}
               PROVE  (path = None \/ left) /\ \A k \in Keys : session[k] = None /\ flock[k] \in Helpers \cup {None}
    BY DEF CleanExit, Over
  <2>1. path = None \/ left
    BY DEF LeftInv, Claims
  <2>2. \A k \in Keys : session[k] = None
    BY DEF LeftInv, FilesInv, TypeOK, LockOwned, Gone
  <2>3. \A k \in Keys : flock[k] \in Helpers \cup {None}
    BY DEF LeftInv, FilesInv, TypeOK, Gone
  <2>4. QED
    BY <2>1, <2>2, <2>3
<1>2. QED
  BY FilesInvariant, LeftInvariant, <1>1, PTL
=============================================================================
