---------------------------- MODULE ListenerFiles ----------------------------
(***************************************************************************)
(* What Claude listeners and helper commands share on disk: the flock and  *)
(* the state file of a host session (adapters/claude/state.py), and the    *)
(* control socket of a routing name (class ControlServer of                *)
(* adapters/control.py).  Several processes run at once, and each file     *)
(* operation is a step; a process may crash between any two, and the       *)
(* kernel then drops its lock and its listening socket, not its files.     *)
(*                                                                         *)
(* All listeners here have the same routing name and endpoint, so they     *)
(* derive the same socket path; listeners of one host session also share   *)
(* the key of the lock and of the state file.                              *)
(***************************************************************************)
EXTENDS Naturals, FiniteSets

CONSTANTS
  Procs,          \* listener processes
  Helpers,        \* helper commands (send, subscribe, status, disconnect, ...)
  Keys,           \* host sessions
  KeyOf,          \* the host session of each process
  Inodes,         \* inode numbers; the file system may use a free one again
  SessionBound,   \* bound: bus sessions of all listeners together
  CrashBound,     \* bound: processes that crash
  None

ASSUME ProcsAssumption == Procs \cap Helpers = {} /\ None \notin Procs \cup Helpers
ASSUME KeysAssumption == None \notin Keys /\ \A p \in Procs \cup Helpers : KeyOf[p] \in Keys
ASSUME InodesAssumption == None \notin Inodes /\ Cardinality(Inodes) > Cardinality(Procs)
ASSUME FileBoundsAssumption == {SessionBound, CrashBound} \subseteq Nat

VARIABLES
  flock,          \* who holds the flock of each key
  session,        \* whose state each key's state file has
  path,           \* the inode at the control socket's path
  listens,        \* the inode a process's control server listens on
  pc,             \* where each process is
  inode,          \* ControlServer._inode, or bound_inode during start
  left,           \* history: what is at the path is of a start cancelled behind its bind
  written,        \* the process wrote its state file and did not delete it
  number,         \* bus sessions so far
  found, target,  \* the state a helper found, and of which key
  unseen,         \* the state files disconnect has still to look at
  signals,        \* history: the SIGTERMs helpers sent
  crashes,
  disturbed       \* history: another listener was at work while it started, or chmod failed

vars == <<flock, session, path, listens, pc, inode, left, written, number, found, target, unseen,
          signals, crashes, disturbed>>
files == <<flock, session>>
socket == <<path, listens, inode, left>>
asked == <<found, target, unseen, signals>>
rest == <<written, number, asked, crashes, disturbed>>

ListenerPcs ==
  {"off", "locked", "exists", "probe", "unlink", "remove", "bind", "bound", "stat", "chmod", "confirm",
   "aborted", "undo", "welcomed", "serving", "stopped", "drop", "delete", "release", "ending",
   "exited", "crashed"}
HelperPcs == {"off", "check", "scan", "orphan", "free", "kill", "match", "compare", "remove",
              "done", "absent", "connected"}

Init ==
  /\ flock = [k \in Keys |-> None] /\ session = [k \in Keys |-> None]
  /\ path = None /\ left = FALSE
  /\ listens = [p \in Procs |-> None] /\ inode = [p \in Procs |-> None]
  /\ pc = [p \in Procs \cup Helpers |-> "off"]
  /\ written = {} /\ disturbed = {}
  /\ number = 0
  /\ found = [h \in Helpers |-> None] /\ target = [h \in Helpers |-> KeyOf[h]]
  /\ unseen = [h \in Helpers |-> {}]
  /\ signals = {}
  /\ crashes = 0

Goto(p, l) == pc' = [pc EXCEPT ![p] = l]
Gone == {"off", "exited", "crashed"}
Alive(i) == \E q \in Procs : listens[q] = i
FreeInodes == Inodes \ ({path} \cup {listens[q] : q \in Procs})
\* Listeners that may touch the control socket.
Busy == {q \in Procs : listens[q] # None \/ pc[q] \notin Gone \cup {"locked", "delete", "release", "ending"}}

-----------------------------------------------------------------------------
(* Listener.run, outside the sessions. *)

\* acquire_lock, or "already running": the process is done.
AcquireLock_Anyway(p) ==       \* mutant: the result is not looked at
  /\ pc[p] = "off"
  /\ flock' = IF flock[KeyOf[p]] = None THEN [flock EXCEPT ![KeyOf[p]] = p] ELSE flock
  /\ Goto(p, "locked")
  /\ UNCHANGED <<session, socket, rest>>
AcquireLock(p) ==
  /\ pc[p] = "off"
  /\ IF flock[KeyOf[p]] = None
       THEN flock' = [flock EXCEPT ![KeyOf[p]] = p] /\ Goto(p, "locked")
       ELSE Goto(p, "exited") /\ UNCHANGED flock
  /\ UNCHANGED <<session, socket, rest>>

\* A session of the bus begins: its welcome starts a ControlServer.
Session(p) ==
  /\ pc[p] = "locked" /\ number < SessionBound
  /\ number' = number + 1
  /\ disturbed' = IF Busy = {} THEN disturbed \ {p} ELSE disturbed \cup {p} \cup Busy
  /\ Goto(p, "exists")
  /\ UNCHANGED <<files, socket, written, asked, crashes>>

\* The loop ends: SIGTERM, a permanent error or the deadline.
Ends_KeepsState(p) ==       \* mutant: the state file is left behind
  /\ pc[p] = "locked" /\ Goto(p, "release")
  /\ UNCHANGED <<files, socket, rest>>
Ends(p) ==
  /\ pc[p] = "locked"
  /\ Goto(p, "delete")
  /\ UNCHANGED <<files, socket, rest>>

\* The finally block of run: the state file first, then the lock.
DeleteState(p) ==
  /\ pc[p] = "delete"
  /\ session' = [session EXCEPT ![KeyOf[p]] = None]
  /\ written' = written \ {p}
  /\ Goto(p, "release")
  /\ UNCHANGED <<flock, socket, number, asked, crashes, disturbed>>

ReleaseLock(p) ==
  /\ pc[p] = "release"
  /\ flock' = [flock EXCEPT ![KeyOf[p]] = None]
  /\ Goto(p, "ending")
  /\ UNCHANGED <<session, socket, rest>>

\* The process ends, and with it a server that nobody closed.
Quit(p) ==
  /\ pc[p] = "ending"
  /\ listens' = [listens EXCEPT ![p] = None]
  /\ Goto(p, "exited")
  /\ UNCHANGED <<files, path, inode, left, rest>>

\* SIGKILL or power: the kernel closes the descriptors.
Crash(p) ==
  /\ pc[p] \notin Gone /\ crashes < CrashBound
  /\ crashes' = crashes + 1
  /\ flock' = [k \in Keys |-> IF flock[k] = p THEN None ELSE flock[k]]
  /\ listens' = [listens EXCEPT ![p] = None]
  /\ written' = written \ {p}
  /\ Goto(p, "crashed")
  /\ UNCHANGED <<session, path, inode, left, number, asked, disturbed>>

-----------------------------------------------------------------------------
(* ControlServer.start *)

\* Control is unavailable; the listener goes on without it.
Unavailable(p) == Goto(p, "welcomed") /\ inode' = [inode EXCEPT ![p] = None]
Unlinked == path' = None /\ left' = FALSE

PathExists_Refuses(p) ==       \* mutant: whatever is there is taken for a live endpoint
  /\ pc[p] = "exists"
  /\ IF path = None THEN Goto(p, "remove") /\ UNCHANGED inode ELSE Unavailable(p)
  /\ UNCHANGED <<files, path, listens, left, rest>>
PathExists(p) ==
  /\ pc[p] = "exists"
  /\ Goto(p, IF path = None THEN "remove" ELSE "probe")
  /\ UNCHANGED <<files, socket, rest>>

\* probe_alive: somebody accepts connections at the path.
Probe(p) ==
  /\ pc[p] = "probe"
  /\ IF path # None /\ Alive(path)
       THEN Unavailable(p)
       ELSE Goto(p, "unlink") /\ UNCHANGED inode
  /\ UNCHANGED <<files, path, listens, left, rest>>

UnlinkDead(p) ==
  /\ pc[p] = "unlink"
  /\ IF path = None
       THEN Unavailable(p) /\ UNCHANGED <<path, left>>
       ELSE Unlinked /\ Goto(p, "remove") /\ UNCHANGED inode
  /\ UNCHANGED <<files, listens, rest>>

\* asyncio.start_unix_server removes a socket at its path by itself ...
Remove(p) ==
  /\ pc[p] = "remove"
  /\ Unlinked
  /\ Goto(p, "bind")
  /\ UNCHANGED <<files, listens, inode, rest>>

\* ... and binds a new one, on which it listens.
Bind(p) ==
  /\ pc[p] = "bind"
  /\ IF path # None
       THEN Unavailable(p) /\ UNCHANGED <<path, listens>>
       ELSE /\ \E i \in FreeInodes : path' = i /\ listens' = [listens EXCEPT ![p] = i]
            /\ Goto(p, "bound")
            /\ UNCHANGED inode
  /\ UNCHANGED <<files, left, rest>>

\* It returns on the next turn of the event loop.
Bound(p) ==
  /\ pc[p] = "bound" /\ Goto(p, "stat")
  /\ UNCHANGED <<files, socket, rest>>

\* SIGTERM, while start waits for its probe or for start_unix_server: stop
\* finds no server and nothing to unlink, and the loop of run ends.  A socket
\* that is bound already stays, and accepts until the process ends.
Cancelled(p) ==
  /\ pc[p] \in {"probe", "bound"}
  /\ left' = (left \/ (pc[p] = "bound" /\ path = listens[p]))
  /\ Goto(p, "delete")
  /\ UNCHANGED <<files, path, listens, inode, rest>>

\* The identity of what is at the path now; nothing is, and control is off.
Stat(p) ==
  /\ pc[p] = "stat"
  /\ IF path = None
       THEN Unavailable(p) /\ listens' = [listens EXCEPT ![p] = None]
       ELSE Goto(p, "chmod") /\ inode' = [inode EXCEPT ![p] = path] /\ UNCHANGED listens
  /\ UNCHANGED <<files, path, left, rest>>

\* chmod may fail for other reasons than a missing file.
Chmod(p) ==
  /\ pc[p] = "chmod"
  /\ \/ path # None /\ Goto(p, "confirm") /\ UNCHANGED <<listens, disturbed>>
     \/ /\ listens' = [listens EXCEPT ![p] = None] /\ Goto(p, "aborted")
        /\ disturbed' = disturbed \cup {p}
  /\ UNCHANGED <<files, path, inode, left, written, number, asked, crashes>>

\* Still the same inode: the server owns its endpoint.
Confirm(p) ==
  /\ pc[p] = "confirm"
  /\ \/ path = inode[p] /\ Goto(p, "welcomed") /\ UNCHANGED <<listens, inode>>
     \/ /\ path \notin {None, inode[p]}
        /\ Unavailable(p) /\ listens' = [listens EXCEPT ![p] = None]
     \/ /\ path = None
        /\ listens' = [listens EXCEPT ![p] = None] /\ Goto(p, "aborted")
        /\ UNCHANGED inode
  /\ UNCHANGED <<files, path, left, rest>>

-----------------------------------------------------------------------------
(* The state file, and ControlServer.stop. *)

WriteState(p) ==
  /\ pc[p] = "welcomed"
  /\ session' = [session EXCEPT ![KeyOf[p]] = p]
  /\ written' = written \cup {p}
  /\ Goto(p, "serving")
  /\ UNCHANGED <<flock, socket, number, asked, crashes, disturbed>>

\* The session is over, or the state file could not be written: the server
\* stops listening, and waits for requests.
StopServer(p) ==
  /\ pc[p] \in {"welcomed", "serving"}
  /\ listens' = [listens EXCEPT ![p] = None]
  /\ Goto(p, "stopped")
  /\ UNCHANGED <<files, path, inode, left, rest>>

\* _unlink_owned, of a stop or of a setup that failed: compare the identity
\* of what is at the path, and then unlink whatever is there.
AfterUnlink(p) ==
  IF pc[p] \in {"stopped", "drop"} THEN Goto(p, "locked") ELSE Goto(p, "welcomed")

Compare(p) ==
  /\ pc[p] \in {"stopped", "aborted"}
  /\ IF inode[p] # None /\ path = inode[p]
       THEN Goto(p, IF pc[p] = "stopped" THEN "drop" ELSE "undo") /\ UNCHANGED inode
       ELSE AfterUnlink(p) /\ inode' = [inode EXCEPT ![p] = None]
  /\ UNCHANGED <<files, path, listens, left, rest>>

UnlinkOwned(p) ==
  /\ pc[p] \in {"drop", "undo"}
  /\ Unlinked
  /\ AfterUnlink(p) /\ inode' = [inode EXCEPT ![p] = None]
  /\ UNCHANGED <<files, listens, rest>>

-----------------------------------------------------------------------------
(* Helper commands. *)

Holds(h, k) == flock' = [flock EXCEPT ![k] = h]
Drops(k) == flock' = [flock EXCEPT ![k] = None]
HelperRest == <<socket, written, number, crashes, disturbed>>

\* _connected_from_name: the state file, and then whether its lock is taken.
Check(h) ==
  /\ pc[h] = "off"
  /\ found' = [found EXCEPT ![h] = session[KeyOf[h]]]
  /\ target' = [target EXCEPT ![h] = KeyOf[h]]
  /\ Goto(h, IF session[KeyOf[h]] = None THEN "absent" ELSE "check")
  /\ UNCHANGED <<files, unseen, signals, HelperRest>>

\* disconnect: the listener of this host session, ...
Disconnect(h) ==
  /\ pc[h] = "off"
  /\ found' = [found EXCEPT ![h] = session[KeyOf[h]]]
  /\ target' = [target EXCEPT ![h] = KeyOf[h]]
  /\ IF session[KeyOf[h]] = None
       THEN Goto(h, "scan") /\ unseen' = [unseen EXCEPT ![h] = Keys]
       ELSE Goto(h, "kill") /\ UNCHANGED unseen
  /\ UNCHANGED <<files, signals, HelperRest>>

\* ... or that of any other whose state file is there: one after the other,
\* in the order of the directory; what appears meanwhile may be passed over.
Scan_Unread(h) ==       \* mutant: a file that could not be read is not skipped
  /\ pc[h] = "scan"
  /\ \E k \in unseen[h] :
       /\ found' = [found EXCEPT ![h] = session[k]] /\ target' = [target EXCEPT ![h] = k]
       /\ unseen' = [unseen EXCEPT ![h] = @ \ {k}]
  /\ Goto(h, "orphan")
  /\ UNCHANGED <<files, signals, HelperRest>>
Scan(h) ==
  /\ pc[h] = "scan"
  /\ \/ \E k \in unseen[h] :
          /\ session[k] # None
          /\ found' = [found EXCEPT ![h] = session[k]]
          /\ target' = [target EXCEPT ![h] = k]
          /\ unseen' = [unseen EXCEPT ![h] = @ \ {k}]
          /\ Goto(h, "orphan")
     \/ Goto(h, "absent") /\ UNCHANGED <<found, target, unseen>>
  /\ UNCHANGED <<files, signals, HelperRest>>

\* acquire_lock as a test: it fails when a listener runs, or when another
\* helper is looking; the lock is held until the next step.
TestLock(h) ==
  /\ pc[h] \in {"check", "orphan"}
  /\ IF flock[target[h]] = None
       THEN Holds(h, target[h]) /\ Goto(h, "free")
       ELSE Goto(h, IF pc[h] = "check" THEN "connected" ELSE "kill") /\ UNCHANGED flock
  /\ UNCHANGED <<session, asked, HelperRest>>

ReleaseTest(h) ==
  /\ pc[h] = "free"
  /\ Drops(target[h]) /\ Goto(h, "match")
  /\ UNCHANGED <<session, asked, HelperRest>>

\* _stop_listener: SIGTERM to the process the state file names; when it is
\* gone, its file is the last one to look at.
Kill(h) ==
  /\ pc[h] = "kill"
  /\ IF pc[found[h]] \notin {"exited", "crashed"}
       THEN signals' = signals \cup {<<h, found[h]>>} /\ Goto(h, "done") /\ UNCHANGED unseen
       ELSE Goto(h, "match") /\ unseen' = [unseen EXCEPT ![h] = {}] /\ UNCHANGED signals
  /\ UNCHANGED <<files, found, target, HelperRest>>

\* unlink_if_matches: only under the lock, and only the state that was found;
\* when nothing was unlinked, disconnect goes on with its scan.
NoMatch(h) == Goto(h, IF unseen[h] = {} THEN "absent" ELSE "scan")

MatchLock_Unlocked(h) ==       \* mutant: compare and unlink without the lock
  /\ pc[h] = "match" /\ Goto(h, "compare")
  /\ UNCHANGED <<flock, session, asked, HelperRest>>
MatchLock(h) ==
  /\ pc[h] = "match"
  /\ IF flock[target[h]] = None
       THEN Holds(h, target[h]) /\ Goto(h, "compare")
       ELSE NoMatch(h) /\ UNCHANGED flock
  /\ UNCHANGED <<session, asked, HelperRest>>

MatchRead(h) ==
  /\ pc[h] = "compare"
  /\ IF session[target[h]] = found[h]
       THEN Goto(h, "remove") /\ UNCHANGED flock
       ELSE NoMatch(h) /\ Drops(target[h])
  /\ UNCHANGED <<session, asked, HelperRest>>

MatchUnlink(h) ==
  /\ pc[h] = "remove"
  /\ session' = [session EXCEPT ![target[h]] = None]
  /\ Drops(target[h]) /\ Goto(h, "absent")
  /\ UNCHANGED <<asked, HelperRest>>

-----------------------------------------------------------------------------
Start(p) ==
  PathExists(p) \/ Probe(p) \/ UnlinkDead(p) \/ Remove(p) \/ Bind(p) \/ Bound(p)
  \/ Cancelled(p) \/ Stat(p) \/ Chmod(p) \/ Confirm(p)

Next ==
  \/ \E p \in Procs :
       \/ AcquireLock(p) \/ Session(p) \/ Ends(p) \/ DeleteState(p) \/ ReleaseLock(p)
       \/ Quit(p) \/ Crash(p)
       \/ Start(p) \/ WriteState(p) \/ StopServer(p) \/ Compare(p) \/ UnlinkOwned(p)
  \/ \E h \in Helpers :
       \/ Check(h) \/ Disconnect(h) \/ Scan(h) \/ TestLock(h) \/ ReleaseTest(h)
       \/ Kill(h) \/ MatchLock(h) \/ MatchRead(h) \/ MatchUnlink(h)

Spec == Init /\ [][Next]_vars

-----------------------------------------------------------------------------
(* Properties. *)

\* Every variable has its type, and a helper that goes for a listener has
\* found one.
TypeOK ==
  /\ flock \in [Keys -> Procs \cup Helpers \cup {None}]
  /\ session \in [Keys -> Procs \cup {None}]
  /\ path \in Inodes \cup {None} /\ left \in BOOLEAN
  /\ listens \in [Procs -> Inodes \cup {None}] /\ inode \in [Procs -> Inodes \cup {None}]
  /\ pc \in [Procs \cup Helpers -> ListenerPcs \cup HelperPcs]
  /\ written \subseteq Procs /\ disturbed \subseteq Procs
  /\ number \in 0..SessionBound
  /\ found \in [Helpers -> Procs \cup {None}] /\ target \in [Helpers -> Keys]
  /\ unseen \in [Helpers -> SUBSET Keys]
  /\ \A h \in Helpers : pc[h] \in {"check", "orphan", "free", "kill", "match", "compare", "remove"} => found[h] \in Procs
  /\ signals \subseteq Helpers \X Procs
  /\ crashes \in 0..CrashBound

\* The state file of a listener that reported ready is its own until it
\* deletes it: no helper that found an older state, and no listener on its
\* way out, removes or replaces it (unlink_if_matches, Listener.run).
StateFileStays == \A p \in written : session[KeyOf[p]] = p

\* What a helper calls disconnected is: when it decides so under the lock,
\* no listener of that host session is up (_connected_from_name).
AbsentIsTrue == \A h \in Helpers : pc[h] \in {"free", "compare", "remove"} => \A p \in written : KeyOf[p] # target[h]

\* Processes that all went without a crash leave no state file, no lock and
\* no socket behind, whatever they raced for; but for the socket of a start
\* that SIGTERM cancelled behind its bind (Listener.run, ControlServer).
Over == crashes = 0 /\ \A p \in Procs : pc[p] \in {"off", "exited"}
CleanExit ==
  Over =>
    /\ path = None \/ left
    /\ \A k \in Keys : session[k] = None /\ flock[k] \in Helpers \cup {None}

\* "Explicit listener shutdown removes the owned socket".
ShutdownRemovesSocket == Over => path = None

\* What a crash left at the socket's path never costs a later listener its
\* control socket, unless chmod fails or another listener is at work there
\* (ControlServer.start).
LeftoversDoNotBlock == \A p \in Procs \ disturbed : pc[p] # "serving" \/ (listens[p] # None /\ listens[p] = path)

\* "Stop the running listener for this Claude Code session."
DisconnectIsLocal == \A s \in signals : KeyOf[s[1]] = KeyOf[s[2]]
=============================================================================
