------------------------------ MODULE SendOnce ------------------------------
(***************************************************************************)
(* What the duplicate suppression of adapters/claude/dedup.py promises to  *)
(* the commands that use it, without its file, its lock and its processes: *)
(* each command is decided as if at one instant t between its start and    *)
(* its end.  It is suppressed if the same message was taken within the     *)
(* window before t; otherwise it is taken, and reaches the bus at most     *)
(* once.                                                                   *)
(***************************************************************************)
EXTENDS Integers

CONSTANTS
  Invocations,
  Messages,       \* sender, target or channel, and text
  Window,         \* DEDUP_WINDOW_S, in the units of Tick
  None            \* no integer

VARIABLES
  now,
  last,           \* when each message was last taken, None if too long ago
  stage,          \* what became of each invocation
  began           \* when it started, and with which message

onceVars == <<now, last, stage, began>>

Stages == {"idle", "asked", "taken", "suppressed", "failed", "reached"}

Recent(m, t) == last[m] # None /\ last[m] >= t - Window

OnceInit ==
  /\ now = 0
  /\ last = [m \in Messages |-> None]
  /\ stage = [i \in Invocations |-> "idle"]
  /\ began = [i \in Invocations |-> [at |-> 0, message |-> None]]

Becomes(i, s) == stage' = [stage EXCEPT ![i] = s]

Tick == now' = now + 1 /\ UNCHANGED <<last, stage, began>>

Asked(i) ==
  /\ stage[i] = "idle" /\ Becomes(i, "asked")
  /\ \E m \in Messages : began' = [began EXCEPT ![i] = [at |-> now, message |-> m]]
  /\ UNCHANGED <<now, last>>

Suppressed(i) ==
  /\ stage[i] = "asked" /\ Becomes(i, "suppressed")
  /\ \E t \in began[i].at .. now : Recent(began[i].message, t)
  /\ UNCHANGED <<now, last, began>>

Taken(i) ==
  /\ stage[i] = "asked" /\ Becomes(i, "taken")
  /\ \E t \in began[i].at .. now :
       /\ ~Recent(began[i].message, t)
       /\ last' = [m \in Messages |-> IF m = began[i].message THEN t ELSE IF Recent(m, t) THEN last[m] ELSE None]
  /\ UNCHANGED <<now, began>>

Failed(i) == stage[i] = "asked" /\ Becomes(i, "failed") /\ UNCHANGED <<now, last, began>>

Reached(i) == stage[i] = "taken" /\ Becomes(i, "reached") /\ UNCHANGED <<now, last, began>>

OnceNext ==
  \/ Tick
  \/ \E i \in Invocations : Asked(i) \/ Suppressed(i) \/ Taken(i) \/ Failed(i) \/ Reached(i)

OnceSpec == OnceInit /\ [][OnceNext]_onceVars
=============================================================================
