---------------------------- MODULE BusServerMC ----------------------------
(* Small instances of BusServer for TLC. *)
EXTENDS BusServerPromise, TLC

CONSTANTS c1, c2, c3, s1, s2, s3, na, nb, nc, x, y

\* Targets are names; the prefix "p" matches both agents' names.
NamesHere == {na, nb, nc}
TargetsHere == NamesHere \cup {"p"}
PrefixedHere == [t \in TargetsHere |-> IF t = "p" THEN {na, nb} ELSE {t}]

Agent(s, n) == [sid |-> s, role |-> "agent", name |-> n]
Control(s, n) == [sid |-> s, role |-> "control", name |-> n]

ChannelHellos == {Agent(s1, na), Agent(s2, nb), Control(s3, nc)}
ChannelRequests ==
  [op : {"subscribe"}, channel : {x, y}] \cup [op : {"unsubscribe", "publish"}, channel : {x}]
    \cup [op : {"send"}, to : {"p"}] \cup [op : {"broadcast"}]

KickHellos == {Agent(s1, na), Control(s2, nc), Agent(s2, na)}
KickRequests ==
  [op : {"kick"}, who : {s1, na, nc}] \cup [op : {"subscribe"}, channel : {x}]
    \cup [op : {"channels"}]

LivenessHellos == {Agent(s1, na), Control(s2, nc), Agent(s1, BadName)}
LivenessRequests ==
  [op : {"kick"}, who : {s1}] \cup [op : {"subscribe", "publish"}, channel : {x}]
    \cup [op : {"send"}, to : {na}] \cup [op : {"custom"}, to : {None}]
    \cup [op : {"shutdown", "broadcast", "bye", "ping", "malformed"}]

ConnSymmetry == Permutations(Conns)
=============================================================================
