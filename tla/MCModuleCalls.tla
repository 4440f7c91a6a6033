---------------------------- MODULE MCModuleCalls ----------------------------
(* Instances of ModuleCalls for TLC. *)
EXTENDS ModuleCalls

\* Credentials of an app, per account (brokers); a refresh token (a messenger),
\* in the slot without an account and in that of one.
Broker    == [single |-> TRUE, refresh |-> FALSE, account |-> TRUE]
Messenger == [single |-> FALSE, refresh |-> TRUE, account |-> FALSE]
Another   == [Messenger EXCEPT !.account = TRUE]

Issuers == {Broker, Messenger, Another}
=============================================================================
