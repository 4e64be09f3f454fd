------------------------------- MODULE Startup -------------------------------
(***************************************************************************)
(* Listeners that find no server and start one: endpoint_available and     *)
(* _start_server of both adapters, main and run_server of core/server.py,  *)
(* the token file of core/shared.py, and the certificate of core/tls.py.   *)
(*                                                                         *)
(* Every process reads and writes the files of one data directory without  *)
(* a lock, each file operation is a step, and a process may crash between  *)
(* any two.  A file's content is the process that wrote it.                *)
(***************************************************************************)
EXTENDS Config, Naturals

CONSTANTS
  Listeners,
  Servers,        \* the servers they start, one each
  ServerOf,
  Clients,        \* other commands, that only need the secret
  Settings,       \* the settings of the host, one of which is in force
  Old,            \* content from an earlier time
  Configured,     \* the secret and the certificate of explicit settings
  StopBound       \* bound: servers and processes that stop or crash

Procs == Listeners \cup Servers \cup Clients
Contents == Procs \cup {Old, None}

ASSUME ProcsAssumption ==
  /\ Listeners \cap Servers = {} /\ (Listeners \cup Servers) \cap Clients = {}
  /\ ServerOf \in [Listeners -> Servers] /\ \A l, k \in Listeners : ServerOf[l] = ServerOf[k] => l = k
  /\ {None, Old, Configured} \cap Procs = {} /\ None # Old /\ Configured \notin {None, Old}
ASSUME StopAssumption == StopBound \in Nat
ASSUME SettingsTypes ==
  \A s \in Settings : {s.cli, s.env, s.config} \subseteq Sources /\ s.cli.tls \in BOOLEAN \cup {None}

VARIABLES
  settings,       \* [cli, env, config, secret]: those of the listeners
  token, cert, key,   \* the three files
  port,           \* the server that is bound
  pc,
  endpoint,       \* what each process resolved
  secret,         \* the secret each process has
  loaded,         \* the certificate a server presents
  stops,
  raced           \* history: two processes created a file at once

vars == <<settings, token, cert, key, port, pc, endpoint, secret, loaded, stops, raced>>
files == <<token, cert, key>>

Pcs == {"off", "probe", "secret", "generate", "tls", "cert", "key", "load", "bind", "bound",
        "poll", "connect", "connected", "done", "exited", "denied"}

Init ==
  /\ settings \in Settings
  /\ token \in {None, Old}
  /\ cert \in {None, Old}
  /\ key = cert \/ key = None
  /\ port = None
  /\ pc = [p \in Procs |-> "off"]
  /\ endpoint = [p \in Procs |-> Error]
  /\ secret = [p \in Procs |-> None]
  /\ loaded = [p \in Servers |-> None]
  /\ stops = 0 /\ raced = FALSE

Goto(p, l) == pc' = [pc EXCEPT ![p] = l]
In(p, places) == \E q \in Procs \ {p} : pc[q] \in places

-----------------------------------------------------------------------------
(* Every process: the endpoint and the secret. *)

Begin(p) ==
  /\ pc[p] = "off" /\ p \in Listeners \cup Clients
  /\ endpoint' = [endpoint EXCEPT ![p] = Resolve(settings)]
  /\ Goto(p, IF Resolve(settings) = Error THEN "exited" ELSE IF p \in Listeners THEN "probe" ELSE "secret")
  /\ UNCHANGED <<settings, files, port, secret, loaded, stops, raced>>

\* Where a process that has its secret goes on.
Knows(p, s) ==
  /\ secret' = [secret EXCEPT ![p] = s]
  /\ Goto(p, IF p \in Servers THEN "tls" ELSE IF p \in Listeners THEN "connect" ELSE "done")

\* resolve_shared_secret, load_or_create_token: the settings, the file, or a
\* new token.
ReadSecret_Ignored(p) ==       \* mutant: the token file is not looked at
  /\ pc[p] = "secret"
  /\ \/ Secret(settings.secret) = Invalid /\ Goto(p, "exited") /\ UNCHANGED <<secret, raced>>
     \/ Secret(settings.secret) \notin {None, Invalid} /\ Knows(p, Configured) /\ UNCHANGED raced
     \/ /\ Secret(settings.secret) = None
        /\ Goto(p, "generate") /\ raced' = (raced \/ In(p, {"generate"}))
        /\ UNCHANGED secret
  /\ UNCHANGED <<settings, files, port, endpoint, loaded, stops>>
ReadSecret(p) ==
  /\ pc[p] = "secret"
  /\ \/ Secret(settings.secret) = Invalid /\ Goto(p, "exited") /\ UNCHANGED <<secret, raced>>
     \/ Secret(settings.secret) \notin {None, Invalid} /\ Knows(p, Configured) /\ UNCHANGED raced
     \/ Secret(settings.secret) = None /\ token # None /\ Knows(p, token) /\ UNCHANGED raced
     \/ /\ Secret(settings.secret) = None /\ token = None
        /\ Goto(p, "generate") /\ raced' = (raced \/ In(p, {"generate"}))
        /\ UNCHANGED secret
  /\ UNCHANGED <<settings, files, port, endpoint, loaded, stops>>

\* The new token replaces the file, and the process keeps its own.
WriteToken(p) ==
  /\ pc[p] = "generate"
  /\ token' = p /\ Knows(p, p)
  /\ UNCHANGED <<settings, cert, key, port, endpoint, loaded, stops, raced>>

-----------------------------------------------------------------------------
(* Servers. *)

\* ensure_tls_material: configured files, both default files, or new ones.
FindCertificate_Either(s) ==       \* mutant: one of the two files is enough
  /\ pc[s] = "tls"
  /\ \/ ~endpoint[s].tls /\ Goto(s, "bind") /\ UNCHANGED <<loaded, raced>>
     \/ endpoint[s].tls /\ HalfConfigured(endpoint[s]) /\ Goto(s, "exited") /\ UNCHANGED <<loaded, raced>>
     \/ /\ endpoint[s].tls /\ None \notin {endpoint[s].cert, endpoint[s].key}
        /\ loaded' = [loaded EXCEPT ![s] = Configured] /\ Goto(s, "bind") /\ UNCHANGED raced
     \/ /\ endpoint[s].tls /\ endpoint[s].cert = None /\ endpoint[s].key = None
        /\ IF {cert, key} # {None}
             THEN Goto(s, "load") /\ UNCHANGED <<loaded, raced>>
             ELSE Goto(s, "cert") /\ raced' = (raced \/ In(s, {"cert", "key"})) /\ UNCHANGED loaded
  /\ UNCHANGED <<settings, files, port, endpoint, secret, stops>>
FindCertificate(s) ==
  /\ pc[s] = "tls"
  /\ \/ ~endpoint[s].tls /\ Goto(s, "bind") /\ UNCHANGED <<loaded, raced>>
     \/ endpoint[s].tls /\ HalfConfigured(endpoint[s]) /\ Goto(s, "exited") /\ UNCHANGED <<loaded, raced>>
     \/ /\ endpoint[s].tls /\ None \notin {endpoint[s].cert, endpoint[s].key}
        /\ loaded' = [loaded EXCEPT ![s] = Configured] /\ Goto(s, "bind") /\ UNCHANGED raced
     \/ /\ endpoint[s].tls /\ endpoint[s].cert = None /\ endpoint[s].key = None
        /\ IF None \notin {cert, key}
             THEN Goto(s, "load") /\ UNCHANGED <<loaded, raced>>
             ELSE Goto(s, "cert") /\ raced' = (raced \/ In(s, {"cert", "key"})) /\ UNCHANGED loaded
  /\ UNCHANGED <<settings, files, port, endpoint, secret, stops>>

\* _generate_self_signed_cert: one file after the other.
WriteCertificate(s) ==
  /\ pc[s] = "cert"
  /\ cert' = s /\ Goto(s, "key")
  /\ UNCHANGED <<settings, token, key, port, endpoint, secret, loaded, stops, raced>>
WriteKey(s) ==
  /\ pc[s] = "key"
  /\ key' = s /\ Goto(s, "load")
  /\ UNCHANGED <<settings, token, cert, port, endpoint, secret, loaded, stops, raced>>

\* load_cert_chain: a key of another certificate is refused.
Load(s) ==
  /\ pc[s] = "load"
  /\ IF cert = key
       THEN loaded' = [loaded EXCEPT ![s] = cert] /\ Goto(s, "bind")
       ELSE Goto(s, "exited") /\ UNCHANGED loaded
  /\ UNCHANGED <<settings, files, port, endpoint, secret, stops, raced>>

\* websockets.serve
Bind(s) ==
  /\ pc[s] = "bind"
  /\ IF port = None THEN port' = s /\ Goto(s, "bound") ELSE Goto(s, "exited") /\ UNCHANGED port
  /\ UNCHANGED <<settings, files, endpoint, secret, loaded, stops, raced>>

\* A server stops, or any process crashes.
Stop(p) ==
  /\ pc[p] \notin {"off", "done", "exited", "denied"} /\ stops < StopBound
  /\ stops' = stops + 1
  /\ Goto(p, "exited")
  /\ port' = IF port = p THEN None ELSE port
  /\ UNCHANGED <<settings, files, endpoint, secret, loaded, raced>>

-----------------------------------------------------------------------------
(* Listeners. *)

\* The endpoint does not accept connections: start a server and wait, or
\* give up because its process cannot be started.
Probe(l) ==
  /\ pc[l] = "probe"
  /\ \/ port # None /\ Goto(l, "secret") /\ UNCHANGED endpoint
     \/ /\ port = None
        /\ LET child == Inherits(settings, endpoint[l]) IN
             /\ endpoint' = [endpoint EXCEPT ![ServerOf[l]] = child]
             /\ pc' = [pc EXCEPT ![l] = "poll", ![ServerOf[l]] = IF child = Error THEN "exited" ELSE "secret"]
     \/ port = None /\ Goto(l, "exited") /\ UNCHANGED endpoint
  /\ UNCHANGED <<settings, files, port, secret, loaded, stops, raced>>

\* 15 s of polling: it accepts connections, whoever's server it is, or the
\* listener gives up.
Poll(l) ==
  /\ pc[l] = "poll"
  /\ \/ port # None /\ Goto(l, "secret")
     \/ port = None /\ Goto(l, "exited")
  /\ UNCHANGED <<settings, files, port, endpoint, secret, loaded, stops, raced>>

\* The connection is refused or lost.  Claude Code's listener connects again;
\* pi's looks for the server first, and starts one if it has not done so yet.
\* Either gives up at its deadline.
Again(l) ==
  {"secret", "exited"} \cup (IF pc[ServerOf[l]] = "off" THEN {"probe"} ELSE {"poll"})

\* AgentSession.__aenter__: the client's certificate, TLS, and the secret.
\* An SSL error counts as a refused connection; a missing certificate and a
\* wrong secret end the listener.
Trusted(l) == IF endpoint[l].cert = None THEN cert ELSE Configured
Connect(l) ==
  /\ pc[l] = "connect"
  /\ \/ endpoint[l].tls /\ Trusted(l) = None /\ Goto(l, "denied")
     \/ /\ endpoint[l].tls => Trusted(l) # None
        /\ port # None => endpoint[l].tls /\ Trusted(l) # loaded[port]
        /\ \E again \in Again(l) : Goto(l, again)
     \/ /\ port # None
        /\ endpoint[l].tls => Trusted(l) = loaded[port]
        /\ Goto(l, IF secret[l] = secret[port] THEN "connected" ELSE "denied")
  /\ UNCHANGED <<settings, files, port, endpoint, secret, loaded, stops, raced>>

\* The connection is lost, and __aenter__ runs again.
Reconnect(l) ==
  /\ pc[l] = "connected" /\ port = None
  /\ \E again \in Again(l) : Goto(l, again)
  /\ UNCHANGED <<settings, files, port, endpoint, secret, loaded, stops, raced>>

-----------------------------------------------------------------------------
Next ==
  \/ \E p \in Procs : Begin(p) \/ ReadSecret(p) \/ WriteToken(p) \/ Stop(p)
  \/ \E s \in Servers : FindCertificate(s) \/ WriteCertificate(s) \/ WriteKey(s) \/ Load(s) \/ Bind(s)
  \/ \E l \in Listeners : Probe(l) \/ Poll(l) \/ Connect(l) \/ Reconnect(l)

Spec == Init /\ [][Next]_vars

-----------------------------------------------------------------------------
(* Properties. *)

\* Every variable has its type.
TypeOK ==
  /\ settings \in Settings
  /\ {token, cert, key} \subseteq Contents
  /\ port \in Servers \cup {None}
  /\ pc \in [Procs -> Pcs]
  /\ endpoint \in [Procs -> Endpoints \cup {Error}]
  /\ secret \in [Procs -> Contents \cup {Configured}]
  /\ loaded \in [Servers -> Contents \cup {Configured}]
  /\ stops \in 0..StopBound /\ raced \in BOOLEAN

\* The server a listener starts is where the listener looks for it: its
\* settings resolve to the listener's endpoint, whatever the environment and
\* the config file say (_start_server, resolve_endpoint_config).
ChildAgrees == \A l \in Listeners : pc[ServerOf[l]] # "off" => endpoint[ServerOf[l]] = endpoint[l]

\* "Clients trust the generated/default certificate from the same data
\* directory", and share the token file: a server that is bound has what
\* the files say now.
ServerMatchesFiles ==
  port # None =>
    /\ secret[port] \in {token, Configured}
    /\ endpoint[port].tls => loaded[port] \in {cert, Configured}

\* This much is true: it does unless two processes created one of the files
\* at once, after crashes at any point of an earlier start too.
SoleCreatorMatches == ~raced => ServerMatchesFiles

\* Then no listener is turned away by its own server, for a secret or a
\* certificate.
NobodyDenied == ~raced => \A l \in Listeners : pc[l] # "denied"

\* And a server that reads a certificate finds its key beside it.
PairsMatch == ~raced => \A s \in Servers : pc[s] = "load" => cert = key
=============================================================================
