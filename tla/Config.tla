------------------------------- MODULE Config -------------------------------
(***************************************************************************)
(* How a process finds its endpoint and its secret: core/config.py, and    *)
(* the command line with which a listener starts a server (_start_server   *)
(* of both adapters).  A source of settings (the command line, the         *)
(* environment, the config file) is a record; a setting is None when it is *)
(* absent, Empty when it is an empty string, Invalid when it cannot be     *)
(* parsed.                                                                 *)
(***************************************************************************)

CONSTANTS
  Hosts, Ports, Paths,    \* the values of settings
  Loopback,       \* the hosts that resolve to the local machine
  DefaultHost, DefaultPort,
  None, Empty, Invalid

ASSUME LoopbackAssumption == Loopback \subseteq Hosts /\ DefaultHost \in Loopback /\ DefaultPort \in Ports
ASSUME SettingsAssumption ==
  /\ {None, Empty, Invalid} \cap (Hosts \cup Ports \cup Paths \cup BOOLEAN) = {}
  /\ None # Empty /\ None # Invalid

Sources == [host : Hosts \cup {None, Empty}, port : Ports \cup {None, Empty, Invalid},
            tls : BOOLEAN \cup {None, Empty, Invalid},
            cert : Paths \cup {None, Empty}, key : Paths \cup {None, Empty}]
Unset == [host |-> None, port |-> None, tls |-> None, cert |-> None, key |-> None]

\* What resolve_endpoint returns, or the ConfigError it raises.
Endpoints == [host : Hosts, port : Ports, tls : BOOLEAN, cert : Paths \cup {None}, key : Paths \cup {None}]
Error == [Unset EXCEPT !.host = Invalid]

\* "if cli: ... elif env: ... elif config: ... else default"
Pick(cli, env, config, default) ==
  IF cli \notin {None, Empty} THEN cli
  ELSE IF env \notin {None, Empty} THEN env
  ELSE IF config \notin {None, Empty} THEN config
  ELSE default

\* Ports and booleans are parsed wherever they stand, also when a source of
\* higher precedence wins; the environment may have them empty.
Unparsable_NotConfig(s) ==       \* mutant: the config file is not validated
  s.cli.port \in {Empty, Invalid} \/ s.env.port = Invalid \/ s.env.tls = Invalid
Unparsable(s) ==
  \/ s.cli.port \in {Empty, Invalid}
  \/ s.env.port = Invalid \/ s.env.tls = Invalid
  \/ s.config.port \in {Empty, Invalid} \/ s.config.tls \in {Empty, Invalid}

Host(s) == Pick(s.cli.host, s.env.host, s.config.host, DefaultHost)

\* Without a setting, TLS is for hosts that are not local.
Resolve(s) ==
  IF Unparsable(s) THEN Error
  ELSE [host |-> Host(s),
        port |-> Pick(s.cli.port, s.env.port, s.config.port, DefaultPort),
        tls |-> Pick(s.cli.tls, s.env.tls, s.config.tls, Host(s) \notin Loopback),
        cert |-> Pick(s.cli.cert, s.env.cert, s.config.cert, None),
        key |-> Pick(s.cli.key, s.env.key, s.config.key, None)]

\* The explicit secret: where it is set it must not be empty, and Invalid
\* stands for the error; None is the token file.
Secret(s) ==
  LET given == IF s.env # None THEN s.env ELSE s.config
  IN IF given = Empty THEN Invalid ELSE given

\* The settings of the server a listener starts: its arguments give the
\* endpoint the listener resolved, and the rest is inherited.
ServerArguments_NoTlsLeftOut(e) == [e EXCEPT !.tls = IF @ THEN TRUE ELSE None]    \* mutant: only --tls is passed
ServerArguments(e) == [host |-> e.host, port |-> e.port, tls |-> e.tls, cert |-> e.cert, key |-> e.key]
ServerSettings(s, e) == [cli |-> ServerArguments(e), env |-> s.env, config |-> s.config]

\* _start_server of pi, whose arguments are the same unless a path is "".
Inherits(s, e) == Resolve(ServerSettings(s, e))

\* A server needs both files or neither (resolved_tls_paths).
HalfConfigured(e) == (e.cert = None) # (e.key = None)
=============================================================================
