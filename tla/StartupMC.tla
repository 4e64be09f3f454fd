------------------------------ MODULE StartupMC ------------------------------
(* Small instances of Startup for TLC. *)
EXTENDS Startup, TLC

CONSTANTS l1, l2, s1, s2, c1, here, there, p1, p2, f, g

ServerOfHere == (l1 :> s1) @@ (l2 :> s2)

\* The command line, the environment and the config file of one host, and
\* the explicit secrets of the last two.
Case(cli, env, config, secretOf) ==
  [cli |-> cli, env |-> env, config |-> config, secret |-> secretOf]
NoSecret == [env |-> None, config |-> None]
Tls(b) == [Unset EXCEPT !.tls = b]

SettingsHere ==
  {Case(cli, env, config, NoSecret) :
     cli \in {Unset, Tls(FALSE)},
     env \in {Unset, [Tls(TRUE) EXCEPT !.port = Empty]},
     config \in {Unset, [Unset EXCEPT !.host = there]}}
  \cup {Case([Unset EXCEPT !.port = p2], [Unset EXCEPT !.cert = f], Tls(TRUE), NoSecret),
        Case(Tls(TRUE), [Unset EXCEPT !.cert = f, !.key = g], [Unset EXCEPT !.port = Invalid], NoSecret),
        Case(Tls(TRUE), [Unset EXCEPT !.cert = f, !.key = g], Unset, [env |-> f, config |-> None]),
        Case(Unset, Unset, Unset, [env |-> Empty, config |-> g])}
=============================================================================
