---------------------------- MODULE Startup_proofs ----------------------------
(***************************************************************************)
(* Startup for any number of listeners, servers and clients, any settings  *)
(* and any crashes: types, the settings a started server gets, and what    *)
(* the files of the data directory say as long as no two processes create  *)
(* one of them at once.                                                    *)
(*                                                                         *)
(* Only the first two parts of the inductive invariant hold without that   *)
(* condition: SettingsInv, that every process resolved the same endpoint,  *)
(* and ProgressInv, what a process that has come so far knows.  FilesInv   *)
(* is the rest: a file is created by one process, out of nothing, so no    *)
(* one can have read another version of it.                                *)
(***************************************************************************)
EXTENDS Startup, TLAPS

Here == Resolve(settings)
Running == {"secret", "generate", "connect", "connected"}
Creating == {"cert", "key"}
HasSecret == {"tls", "cert", "key", "load", "bind", "bound"}

SettingsInv ==
  /\ \A p \in Procs : pc[p] # "off" => endpoint[p] = Here
  /\ \A p \in Procs : pc[p] \notin {"off", "exited"} => Here # Error
  /\ \A l \in Listeners : pc[l] \in {"off", "probe"} => pc[ServerOf[l]] = "off"
  /\ port # None => pc[port] = "bound"
  /\ \A l \in Listeners : pc[l] \notin HasSecret
  /\ \A s \in Servers : pc[s] \notin {"probe", "poll", "connect", "connected", "denied", "done"}

ProgressInv ==
  /\ \A p \in Procs : pc[p] = "generate" => Secret(settings.secret) = None
  /\ \A p \in Procs : pc[p] \in HasSecret \cup {"connect", "connected"} => secret[p] # None
  /\ \A p \in Procs : secret[p] # None => (secret[p] = Configured <=> Secret(settings.secret) # None)
  /\ \A s \in Servers : pc[s] \in {"cert", "key", "load"} => Here.tls /\ Here.cert = None
  /\ \A s \in Servers : pc[s] = "key" => cert # None
  /\ \A s \in Servers : pc[s] = "load" => cert # None /\ key # None
  /\ \A s \in Servers : pc[s] \in {"bind", "bound"} /\ Here.tls => loaded[s] # None
  /\ \A s \in Servers : loaded[s] # None => (loaded[s] = Configured <=> Here.cert # None)
  /\ \A s \in Servers : loaded[s] \notin {None, Configured} => cert # None
  /\ \A l \in Listeners : pc[l] \in Running /\ Here.tls /\ Here.cert = None => cert # None

FilesInv ==
  /\ \A p, q \in Procs : pc[p] = "generate" /\ pc[q] = "generate" => p = q
  /\ \A p, q \in Servers : pc[p] \in Creating /\ pc[q] \in Creating => p = q
  /\ \A p \in Procs : pc[p] = "generate" => token = None
  /\ \A p \in Procs : secret[p] \in {None, Configured, token}
  /\ key \in {None, cert}
  /\ \A s \in Servers : pc[s] \in Creating => key = None
  /\ \A s \in Servers : pc[s] = "key" => cert = s
  /\ \A s \in Servers : pc[s] = "load" => key # None
  /\ \A s \in Servers : loaded[s] \in {None, Configured} \/ (loaded[s] = cert /\ key # None)
  /\ \A l \in Listeners : pc[l] # "denied"

StartInv == TypeOK /\ SettingsInv /\ ProgressInv /\ (~raced => FilesInv)

-----------------------------------------------------------------------------
(* Settings. *)

\* Settings resolve to an endpoint or to an error.
LEMMA ResolveType == ASSUME NEW s \in Settings PROVE Resolve(s) \in Endpoints \cup {Error}
  BY SettingsTypes, SettingsAssumption, LoopbackAssumption, ZenonT(30)
     DEF Resolve, Unparsable, Endpoints, Error, Host, Pick, Sources, Unset

\* A setting that was picked is picked again from the command line, and one
\* that was absent stays absent.
LEMMA PickAgain ==
  ASSUME NEW c, NEW e, NEW g, NEW d, d # Empty
  PROVE  Pick(Pick(c, e, g, d), e, g, d) = Pick(c, e, g, d)
  BY DEF Pick

\* The settings of the server a listener starts resolve to the listener's
\* endpoint.
LEMMA ChildResolves ==
  ASSUME NEW s \in Settings, Resolve(s) # Error
  PROVE  Inherits(s, Resolve(s)) = Resolve(s)
<1> DEFINE e == Resolve(s)
           t == ServerSettings(s, e)
<1>1. ~Unparsable(s) /\ e \in Endpoints
  BY ResolveType DEF Resolve
<1>2. t.cli.host = e.host /\ t.cli.port = e.port /\ t.cli.tls = e.tls /\ t.cli.cert = e.cert /\ t.cli.key = e.key
  BY DEF ServerSettings, ServerArguments
<1>3. t.env = s.env /\ t.config = s.config
  BY DEF ServerSettings
<1>4. ~Unparsable(t)
  BY <1>1, <1>2, <1>3, SettingsAssumption DEF Unparsable, Endpoints
<1>5. Host(t) = e.host /\ Host(s) = e.host
  <2>1. e.host = Host(s)
    BY <1>1 DEF Resolve
  <2>2. QED
    BY <2>1, <1>2, <1>3, PickAgain, SettingsAssumption, LoopbackAssumption DEF Host
<1>6. Pick(t.cli.port, t.env.port, t.config.port, DefaultPort) = e.port
  BY <1>1, <1>2, SettingsAssumption DEF Pick, Endpoints
<1>7. Pick(t.cli.tls, t.env.tls, t.config.tls, Host(t) \notin Loopback) = e.tls
  BY <1>1, <1>2, SettingsAssumption DEF Pick, Endpoints
<1>8. Pick(t.cli.cert, t.env.cert, t.config.cert, None) = e.cert /\ Pick(t.cli.key, t.env.key, t.config.key, None) = e.key
  <2>1. e.cert = Pick(s.cli.cert, s.env.cert, s.config.cert, None) /\ e.key = Pick(s.cli.key, s.env.key, s.config.key, None)
    BY <1>1 DEF Resolve
  <2>2. QED
    BY <2>1, <1>2, <1>3, PickAgain, SettingsAssumption
<1>9. e = [host |-> e.host, port |-> e.port, tls |-> e.tls, cert |-> e.cert, key |-> e.key]
  BY <1>1 DEF Endpoints
<1>10. QED
  BY <1>4, <1>5, <1>6, <1>7, <1>8, <1>9 DEF Inherits, Resolve

-----------------------------------------------------------------------------
(* Types. *)

LEMMA TypeInit == Init => TypeOK
<1> SUFFICES ASSUME Init PROVE TypeOK
  OBVIOUS
<1>1. pc \in [Procs -> Pcs]
  BY DEF Init, Pcs
<1>2. endpoint \in [Procs -> Endpoints \cup {Error}] /\ secret \in [Procs -> Contents \cup {Configured}] /\ loaded \in [Servers -> Contents \cup {Configured}]
  BY DEF Init, Contents
<1>3. {token, cert, key} \subseteq Contents /\ port = None /\ settings \in Settings
  BY DEF Init, Contents
<1>4. stops \in 0..StopBound
  BY StopAssumption DEF Init
<1>5. raced \in BOOLEAN
  BY DEF Init
<1>6. QED
  BY <1>1, <1>2, <1>3, <1>4, <1>5 DEF TypeOK

\* Where a process that learns the secret goes.
LEMMA KnowsGoes ==
  ASSUME NEW p \in Procs, NEW x, Knows(p, x)
  PROVE  /\ secret' = [secret EXCEPT ![p] = x]
         /\ \E a \in {"tls", "connect", "done"} :
              pc' = [pc EXCEPT ![p] = a] /\ (a = "tls" <=> p \in Servers) /\ (a = "connect" => p \in Listeners)
  BY ProcsAssumption DEF Knows, Goto

\* A step keeps the types.
LEMMA TypeStep == ASSUME TypeOK, SettingsInv, Next PROVE TypeOK'
<1> USE ProcsAssumption, StopAssumption DEF TypeOK, Pcs, Procs, Contents, Goto, files
<1>1. ASSUME NEW p \in Procs, Begin(p) PROVE TypeOK'
  BY <1>1, ResolveType DEF Begin
<1>2. ASSUME NEW p \in Procs, ReadSecret(p) PROVE TypeOK'
  <2>1. CASE Secret(settings.secret) = Invalid /\ Goto(p, "exited") /\ UNCHANGED <<secret, raced>>
    BY <1>2, <2>1 DEF ReadSecret
  <2>2. ASSUME NEW x \in {token, Configured}, Knows(p, x), UNCHANGED raced, Secret(settings.secret) # None <=> x = Configured, x # None
        PROVE TypeOK'
    <3>1. PICK a \in {"tls", "connect", "done"} :
            pc' = [pc EXCEPT ![p] = a] /\ (a = "tls" <=> p \in Servers) /\ (a = "connect" => p \in Listeners)
      BY <2>2, KnowsGoes
    <3>2. secret' = [secret EXCEPT ![p] = x]
      BY <2>2, KnowsGoes
    <3>3. QED
      BY <1>2, <2>2, <3>1, <3>2 DEF ReadSecret
  <2>3. CASE Secret(settings.secret) = None /\ token = None /\ Goto(p, "generate") /\ raced' = (raced \/ In(p, {"generate"})) /\ UNCHANGED secret
    BY <1>2, <2>3 DEF ReadSecret, In
  <2>4. Configured \notin Contents /\ None # Configured
    OBVIOUS
  <2>5. CASE Secret(settings.secret) \notin {None, Invalid} /\ Knows(p, Configured) /\ UNCHANGED raced
    BY <2>2, <2>4, <2>5
  <2>6. CASE Secret(settings.secret) = None /\ token # None /\ Knows(p, token) /\ UNCHANGED raced
    BY <2>2, <2>4, <2>6
  <2>7. QED
    BY <1>2, <2>1, <2>3, <2>5, <2>6 DEF ReadSecret
<1>3. ASSUME NEW p \in Procs, WriteToken(p) PROVE TypeOK'
  BY <1>3 DEF WriteToken, Knows
<1>4. ASSUME NEW p \in Procs, Stop(p) PROVE TypeOK'
  BY <1>4 DEF Stop
<1>5. ASSUME NEW s \in Servers, FindCertificate(s) PROVE TypeOK'
  BY <1>5, ZenonT(30) DEF FindCertificate, In
<1>6. ASSUME NEW s \in Servers, WriteCertificate(s) PROVE TypeOK'
  BY <1>6 DEF WriteCertificate
<1>7. ASSUME NEW s \in Servers, WriteKey(s) PROVE TypeOK'
  BY <1>7 DEF WriteKey
<1>8. ASSUME NEW s \in Servers, Load(s) PROVE TypeOK'
  BY <1>8 DEF Load
<1>9. ASSUME NEW s \in Servers, Bind(s) PROVE TypeOK'
  BY <1>9 DEF Bind
<1>10. ASSUME NEW l \in Listeners, Probe(l) PROVE TypeOK'
  <2>1. Inherits(settings, endpoint[l]) \in Endpoints \cup {Error}
    BY <1>10, ChildResolves, ResolveType DEF Probe, SettingsInv, Here
  <2>2. ServerOf[l] \in Procs
    OBVIOUS
  <2>3. QED
    BY <1>10, <2>1, <2>2 DEF Probe
<1>11. ASSUME NEW l \in Listeners, Poll(l) PROVE TypeOK'
  BY <1>11 DEF Poll
<1>12. ASSUME NEW l \in Listeners, Connect(l) PROVE TypeOK'
  BY <1>12 DEF Connect, Again
<1>13. ASSUME NEW l \in Listeners, Reconnect(l) PROVE TypeOK'
  BY <1>13 DEF Reconnect, Again
<1>14. QED
  BY <1>1, <1>2, <1>3, <1>4, <1>5, <1>6, <1>7, <1>8, <1>9, <1>10, <1>11, <1>12, <1>13 DEF Next

-----------------------------------------------------------------------------
(* The endpoint. *)

\* A server starts with its listener's endpoint, and a listener starts only
\* its own server, once.
LEMMA SettingsStep == ASSUME TypeOK, SettingsInv, Next PROVE SettingsInv'
<1> USE ProcsAssumption DEF TypeOK, SettingsInv, Here, HasSecret, Procs, Goto, files
<1>1. ASSUME NEW p \in Procs, Begin(p) PROVE SettingsInv'
  BY <1>1 DEF Begin
<1>2. ASSUME NEW p \in Procs, ReadSecret(p) PROVE SettingsInv'
  BY <1>2 DEF ReadSecret, Knows, In
<1>3. ASSUME NEW p \in Procs, WriteToken(p) PROVE SettingsInv'
  BY <1>3 DEF WriteToken, Knows
<1>4. ASSUME NEW p \in Procs, Stop(p) PROVE SettingsInv'
  BY <1>4 DEF Stop
<1>5. ASSUME NEW s \in Servers, FindCertificate(s) PROVE SettingsInv'
  BY <1>5 DEF FindCertificate, In
<1>6. ASSUME NEW s \in Servers, WriteCertificate(s) PROVE SettingsInv'
  BY <1>6 DEF WriteCertificate
<1>7. ASSUME NEW s \in Servers, WriteKey(s) PROVE SettingsInv'
  BY <1>7 DEF WriteKey
<1>8. ASSUME NEW s \in Servers, Load(s) PROVE SettingsInv'
  BY <1>8 DEF Load
<1>9. ASSUME NEW s \in Servers, Bind(s) PROVE SettingsInv'
  BY <1>9 DEF Bind
<1>10. ASSUME NEW l \in Listeners, Probe(l) PROVE SettingsInv'
  <2>1. endpoint[l] = Here /\ Here # Error /\ pc[ServerOf[l]] = "off" /\ ServerOf[l] # l
    BY <1>10 DEF Probe
  <2>2. Inherits(settings, endpoint[l]) = Here
    BY <2>1, ChildResolves
  <2>3. CASE port = None /\ pc' = [pc EXCEPT ![l] = "poll", ![ServerOf[l]] = "secret"] /\ endpoint' = [endpoint EXCEPT ![ServerOf[l]] = Here]
    BY <1>10, <2>1, <2>3 DEF Probe
  <2>4. CASE UNCHANGED endpoint /\ \E a \in {"secret", "exited"} : Goto(l, a)
    BY <1>10, <2>1, <2>4 DEF Probe
  <2>5. QED
    BY <1>10, <2>1, <2>2, <2>3, <2>4 DEF Probe
<1>11. ASSUME NEW l \in Listeners, Poll(l) PROVE SettingsInv'
  BY <1>11 DEF Poll
<1>12. ASSUME NEW l \in Listeners, Connect(l) PROVE SettingsInv'
  BY <1>12 DEF Connect, Again
<1>13. ASSUME NEW l \in Listeners, Reconnect(l) PROVE SettingsInv'
  BY <1>13 DEF Reconnect, Again
<1>14. QED
  BY <1>1, <1>2, <1>3, <1>4, <1>5, <1>6, <1>7, <1>8, <1>9, <1>10, <1>11, <1>12, <1>13 DEF Next

-----------------------------------------------------------------------------
(* What a process knows. *)

\* No file is ever removed, so what was once there is there.
LEMMA ProgressStep == ASSUME TypeOK, SettingsInv, ProgressInv, Next PROVE ProgressInv'
<1> USE ProcsAssumption DEF TypeOK, SettingsInv, ProgressInv, Here, HasSecret, Running, Creating, Procs, Contents, Goto, files
<1>1. ASSUME NEW p \in Procs, Begin(p) PROVE ProgressInv'
  BY <1>1 DEF Begin
<1>2. ASSUME NEW p \in Procs, ReadSecret(p) PROVE ProgressInv'
  <2>1. CASE Secret(settings.secret) = Invalid /\ Goto(p, "exited") /\ UNCHANGED <<secret, raced>>
    BY <1>2, <2>1 DEF ReadSecret
  <2>2. ASSUME NEW x \in {token, Configured}, Knows(p, x), UNCHANGED raced, Secret(settings.secret) # None <=> x = Configured, x # None
        PROVE ProgressInv'
    <3>1. PICK a \in {"tls", "connect", "done"} :
            pc' = [pc EXCEPT ![p] = a] /\ (a = "tls" <=> p \in Servers) /\ (a = "connect" => p \in Listeners)
      BY <2>2, KnowsGoes
    <3>2. secret' = [secret EXCEPT ![p] = x]
      BY <2>2, KnowsGoes
    <3>3. QED
      BY <1>2, <2>2, <3>1, <3>2 DEF ReadSecret
  <2>3. CASE Secret(settings.secret) = None /\ token = None /\ Goto(p, "generate") /\ raced' = (raced \/ In(p, {"generate"})) /\ UNCHANGED secret
    BY <1>2, <2>3 DEF ReadSecret, In
  <2>4. Configured \notin Contents /\ None # Configured
    OBVIOUS
  <2>5. CASE Secret(settings.secret) \notin {None, Invalid} /\ Knows(p, Configured) /\ UNCHANGED raced
    BY <2>2, <2>4, <2>5
  <2>6. CASE Secret(settings.secret) = None /\ token # None /\ Knows(p, token) /\ UNCHANGED raced
    BY <2>2, <2>4, <2>6
  <2>7. QED
    BY <1>2, <2>1, <2>3, <2>5, <2>6 DEF ReadSecret
<1>3. ASSUME NEW p \in Procs, WriteToken(p) PROVE ProgressInv'
  <2>1. PICK a \in {"tls", "connect", "done"} :
          pc' = [pc EXCEPT ![p] = a] /\ (a = "tls" <=> p \in Servers) /\ (a = "connect" => p \in Listeners)
    BY <1>3, KnowsGoes DEF WriteToken
  <2>2. secret' = [secret EXCEPT ![p] = p]
    BY <1>3, KnowsGoes DEF WriteToken
  <2>3. p # None /\ p # Configured
    OBVIOUS
  <2>4. QED
    BY <1>3, <2>1, <2>2, <2>3 DEF WriteToken
<1>4. ASSUME NEW p \in Procs, Stop(p) PROVE ProgressInv'
  BY <1>4 DEF Stop
<1>5. ASSUME NEW s \in Servers, FindCertificate(s) PROVE ProgressInv'
  <2>1. endpoint[s] = Here
    BY <1>5 DEF FindCertificate
  <2>2. CASE ~Here.tls /\ Goto(s, "bind") /\ UNCHANGED <<loaded, raced>>
    BY <1>5, <2>2 DEF FindCertificate
  <2>3. CASE Goto(s, "exited") /\ UNCHANGED <<loaded, raced>>
    BY <1>5, <2>3 DEF FindCertificate
  <2>4. CASE Here.tls /\ None # Here.cert /\ loaded' = [loaded EXCEPT ![s] = Configured] /\ Goto(s, "bind") /\ UNCHANGED raced
    BY <1>5, <2>4 DEF FindCertificate
  <2>5. CASE Here.tls /\ Here.cert = None /\ None # cert /\ None # key /\ Goto(s, "load") /\ UNCHANGED <<loaded, raced>>
    BY <1>5, <2>5 DEF FindCertificate
  <2>6. CASE /\ Here.tls /\ Here.cert = None /\ None \in {cert, key}
             /\ Goto(s, "cert") /\ raced' = (raced \/ In(s, {"cert", "key"})) /\ UNCHANGED loaded
    BY <1>5, <2>6 DEF FindCertificate, In
  <2>7. QED
    BY <1>5, <2>1, <2>2, <2>3, <2>4, <2>5, <2>6 DEF FindCertificate
<1>6. ASSUME NEW s \in Servers, WriteCertificate(s) PROVE ProgressInv'
  BY <1>6 DEF WriteCertificate
<1>7. ASSUME NEW s \in Servers, WriteKey(s) PROVE ProgressInv'
  BY <1>7 DEF WriteKey
<1>8. ASSUME NEW s \in Servers, Load(s) PROVE ProgressInv'
  <2>1. CASE cert = key /\ loaded' = [loaded EXCEPT ![s] = cert] /\ Goto(s, "bind")
    BY <1>8, <2>1 DEF Load
  <2>2. CASE Goto(s, "exited") /\ UNCHANGED loaded
    BY <1>8, <2>2 DEF Load
  <2>3. QED
    BY <1>8, <2>1, <2>2 DEF Load
<1>9. ASSUME NEW s \in Servers, Bind(s) PROVE ProgressInv'
  BY <1>9 DEF Bind
<1>10. ASSUME NEW l \in Listeners, Probe(l) PROVE ProgressInv'
  BY <1>10 DEF Probe
<1>11. ASSUME NEW l \in Listeners, Poll(l) PROVE ProgressInv'
  BY <1>11 DEF Poll
<1>12. ASSUME NEW l \in Listeners, Connect(l) PROVE ProgressInv'
  BY <1>12 DEF Connect, Again
<1>13. ASSUME NEW l \in Listeners, Reconnect(l) PROVE ProgressInv'
  BY <1>13 DEF Reconnect, Again
<1>14. QED
  BY <1>1, <1>2, <1>3, <1>4, <1>5, <1>6, <1>7, <1>8, <1>9, <1>10, <1>11, <1>12, <1>13 DEF Next

-----------------------------------------------------------------------------
(* The files. *)

\* Without a race a file is created once, out of nothing.
LEMMA FilesStep == ASSUME TypeOK, SettingsInv, ProgressInv, FilesInv, Next, ~raced' PROVE FilesInv'
<1> USE ProcsAssumption DEF TypeOK, SettingsInv, ProgressInv, FilesInv, Here, HasSecret, Running, Creating, Procs, Contents, Goto, files
<1>1. ASSUME NEW p \in Procs, Begin(p) PROVE FilesInv'
  BY <1>1 DEF Begin
<1>2. ASSUME NEW p \in Procs, ReadSecret(p) PROVE FilesInv'
  <2>1. CASE Secret(settings.secret) = Invalid /\ Goto(p, "exited") /\ UNCHANGED <<secret, raced>>
    BY <1>2, <2>1 DEF ReadSecret
  <2>2. ASSUME NEW x \in {token, Configured}, Knows(p, x), UNCHANGED raced, Secret(settings.secret) # None <=> x = Configured, x # None
        PROVE FilesInv'
    <3>1. PICK a \in {"tls", "connect", "done"} :
            pc' = [pc EXCEPT ![p] = a] /\ (a = "tls" <=> p \in Servers) /\ (a = "connect" => p \in Listeners)
      BY <2>2, KnowsGoes
    <3>2. secret' = [secret EXCEPT ![p] = x]
      BY <2>2, KnowsGoes
    <3>3. QED
      BY <1>2, <2>2, <3>1, <3>2 DEF ReadSecret
  <2>3. CASE Secret(settings.secret) = None /\ token = None /\ Goto(p, "generate") /\ raced' = (raced \/ In(p, {"generate"})) /\ UNCHANGED secret
    BY <1>2, <2>3 DEF ReadSecret, In
  <2>4. Configured \notin Contents /\ None # Configured
    OBVIOUS
  <2>5. CASE Secret(settings.secret) \notin {None, Invalid} /\ Knows(p, Configured) /\ UNCHANGED raced
    BY <2>2, <2>4, <2>5
  <2>6. CASE Secret(settings.secret) = None /\ token # None /\ Knows(p, token) /\ UNCHANGED raced
    BY <2>2, <2>4, <2>6
  <2>7. QED
    BY <1>2, <2>1, <2>3, <2>5, <2>6 DEF ReadSecret
<1>3. ASSUME NEW p \in Procs, WriteToken(p) PROVE FilesInv'
  <2>1. PICK a \in {"tls", "connect", "done"} :
          pc' = [pc EXCEPT ![p] = a] /\ (a = "tls" <=> p \in Servers) /\ (a = "connect" => p \in Listeners)
    BY <1>3, KnowsGoes DEF WriteToken
  <2>2. secret' = [secret EXCEPT ![p] = p]
    BY <1>3, KnowsGoes DEF WriteToken
  <2>3. p # None /\ p # Configured
    OBVIOUS
  <2>4. QED
    BY <1>3, <2>1, <2>2, <2>3 DEF WriteToken
<1>4. ASSUME NEW p \in Procs, Stop(p) PROVE FilesInv'
  BY <1>4 DEF Stop
<1>5. ASSUME NEW s \in Servers, FindCertificate(s) PROVE FilesInv'
  <2>1. endpoint[s] = Here
    BY <1>5 DEF FindCertificate
  <2>2. CASE ~Here.tls /\ Goto(s, "bind") /\ UNCHANGED <<loaded, raced>>
    BY <1>5, <2>2 DEF FindCertificate
  <2>3. CASE Goto(s, "exited") /\ UNCHANGED <<loaded, raced>>
    BY <1>5, <2>3 DEF FindCertificate
  <2>4. CASE Here.tls /\ None # Here.cert /\ loaded' = [loaded EXCEPT ![s] = Configured] /\ Goto(s, "bind") /\ UNCHANGED raced
    BY <1>5, <2>4 DEF FindCertificate
  <2>5. CASE Here.tls /\ Here.cert = None /\ None # cert /\ None # key /\ Goto(s, "load") /\ UNCHANGED <<loaded, raced>>
    BY <1>5, <2>5 DEF FindCertificate
  <2>6. CASE /\ Here.tls /\ Here.cert = None /\ None \in {cert, key}
             /\ Goto(s, "cert") /\ raced' = (raced \/ In(s, {"cert", "key"})) /\ UNCHANGED loaded
    <3>1. key = None
      BY <2>6
    <3>2. ~raced /\ \A q \in Servers \ {s} : pc[q] \notin Creating
      BY <1>5, <2>6 DEF In
    <3>3. pc' = [pc EXCEPT ![s] = "cert"]
      BY <2>6
    <3>4. QED
      BY <1>5, <2>6, <3>1, <3>2, <3>3 DEF FindCertificate
  <2>7. QED
    BY <1>5, <2>1, <2>2, <2>3, <2>4, <2>5, <2>6 DEF FindCertificate
<1>6. ASSUME NEW s \in Servers, WriteCertificate(s) PROVE FilesInv'
  BY <1>6 DEF WriteCertificate
<1>7. ASSUME NEW s \in Servers, WriteKey(s) PROVE FilesInv'
  BY <1>7 DEF WriteKey
<1>8. ASSUME NEW s \in Servers, Load(s) PROVE FilesInv'
  <2>1. CASE cert = key /\ loaded' = [loaded EXCEPT ![s] = cert] /\ Goto(s, "bind")
    BY <1>8, <2>1 DEF Load
  <2>2. CASE Goto(s, "exited") /\ UNCHANGED loaded
    BY <1>8, <2>2 DEF Load
  <2>3. QED
    BY <1>8, <2>1, <2>2 DEF Load
<1>9. ASSUME NEW s \in Servers, Bind(s) PROVE FilesInv'
  BY <1>9 DEF Bind
<1>10. ASSUME NEW l \in Listeners, Probe(l) PROVE FilesInv'
  BY <1>10 DEF Probe
<1>11. ASSUME NEW l \in Listeners, Poll(l) PROVE FilesInv'
  BY <1>11 DEF Poll
<1>12. ASSUME NEW l \in Listeners, Connect(l) PROVE FilesInv'
  <2>1. endpoint[l] = Here /\ (port # None => endpoint[port] = Here /\ pc[port] = "bound" /\ port \in Servers)
    BY <1>12 DEF Connect
  <2>2. Here.tls => Trusted(l) # None
    BY <1>12, <2>1 DEF Connect, Trusted
  <2>3. port # None => secret[l] = secret[port]
    BY <1>12, <2>1 DEF Connect
  <2>4. CASE \E again \in Again(l) : Goto(l, again)
    BY <1>12, <2>4 DEF Connect, Again
  <2>5. CASE Goto(l, "connected")
    BY <1>12, <2>5 DEF Connect
  <2>6. QED
    BY <1>12, <2>1, <2>2, <2>3, <2>4, <2>5 DEF Connect
<1>13. ASSUME NEW l \in Listeners, Reconnect(l) PROVE FilesInv'
  BY <1>13 DEF Reconnect, Again
<1>14. QED
  BY <1>1, <1>2, <1>3, <1>4, <1>5, <1>6, <1>7, <1>8, <1>9, <1>10, <1>11, <1>12, <1>13 DEF Next

-----------------------------------------------------------------------------
(* The invariant. *)

\* The inductive invariant.
LEMMA StartInvariant == Spec => []StartInv
<1>1. Init => StartInv
  <2> SUFFICES ASSUME Init PROVE StartInv
    OBVIOUS
  <2>1. SettingsInv /\ ProgressInv /\ FilesInv
    BY ProcsAssumption DEF Init, SettingsInv, ProgressInv, FilesInv, HasSecret, Running, Creating, Procs
  <2>2. QED
    BY <2>1, TypeInit DEF StartInv
<1>2. StartInv /\ [Next]_vars => StartInv'
  <2> SUFFICES ASSUME StartInv, [Next]_vars PROVE StartInv'
    OBVIOUS
  <2>1. CASE Next
    <3>1. TypeOK' /\ SettingsInv' /\ ProgressInv'
      BY <2>1, TypeStep, SettingsStep, ProgressStep DEF StartInv
    <3>2. raced => raced'
      BY <2>1 DEF Next, Begin, ReadSecret, WriteToken, Stop, FindCertificate, WriteCertificate, WriteKey, Load, Bind,
                  Probe, Poll, Connect, Reconnect
    <3>3. ~raced' => FilesInv'
      BY <2>1, <3>2, FilesStep DEF StartInv
    <3>4. QED
      BY <3>1, <3>3 DEF StartInv
  <2>2. CASE UNCHANGED vars
    BY <2>2 DEF vars, files, StartInv, TypeOK, SettingsInv, ProgressInv, FilesInv, Here
  <2>3. QED
    BY <2>1, <2>2
<1>3. QED
  BY <1>1, <1>2, PTL DEF Spec

\* Type correctness; every endpoint is one that the settings resolve to.
THEOREM TypeCorrect == Spec => []TypeOK
  BY StartInvariant, PTL DEF StartInv

\* Whatever the environment and the config file say, a started server is
\* where its listener looks for it (_start_server, resolve_endpoint_config).
THEOREM ChildAgreement == Spec => []ChildAgrees
<1>1. StartInv => ChildAgrees
  BY ProcsAssumption DEF StartInv, SettingsInv, ChildAgrees, Procs, Here
<1>2. QED
  BY StartInvariant, <1>1, PTL

\* Without a race a bound server has the token and the certificate that are
\* in the data directory, after crashes at any point of earlier starts.
THEOREM FilesMatch == Spec => []SoleCreatorMatches
<1>1. StartInv => SoleCreatorMatches
  BY ProcsAssumption DEF StartInv, TypeOK, SettingsInv, ProgressInv, FilesInv, SoleCreatorMatches, ServerMatchesFiles, Procs, HasSecret, Here
<1>2. QED
  BY StartInvariant, <1>1, PTL

\* Without a race no listener is turned away by a server of its host.
THEOREM Admission == Spec => []NobodyDenied
<1>1. StartInv => NobodyDenied
  BY DEF StartInv, FilesInv, NobodyDenied
<1>2. QED
  BY StartInvariant, <1>1, PTL

\* Without a race a certificate is loaded with its own key.
THEOREM Pairs == Spec => []PairsMatch
<1>1. StartInv => PairsMatch
  BY DEF StartInv, FilesInv, PairsMatch
<1>2. QED
  BY StartInvariant, <1>1, PTL
=============================================================================
