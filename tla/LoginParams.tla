----------------------------- MODULE LoginParams ------------------------------
(***************************************************************************)
(* The parameters of ClientLogin: what a login may meet.                   *)
(***************************************************************************)
EXTENDS Integers, Sequences

CONSTANTS
    Configs,     \* the configurations considered
    Users, Databases, Addrs, Passwords,
    Lookups,     \* the message sequences PostgreSQL answers an auth_query with
    NoPassword

\* What PostgreSQL sends in answer to a lookup, message by message.
Messages ==
    [type : {"R"}, ok : BOOLEAN]
    \union [type : {"D"}, columns : Seq(Passwords \union {NoPassword})]
    \union [type : {"E", "S", "K", "N", "Z", "T", "C"}]

(* type      client_auth.type as the file spells it                        *)
(* rules     client_auth.hba_rules                                         *)
(* local     client_auth.password, or NoPassword                           *)
(* query     client_auth.auth_query is set                                 *)
(* ldap      client_auth.ldap is set                                       *)
(* tls       tls.enabled                                                   *)
(* clientCa  client_auth.client_ca is set                                  *)
ASSUME LoginAssumption ==
    /\ NoPassword \notin Passwords
    /\ \A s \in Lookups : s \in Seq(Messages)
    /\ \A c \in Configs :
         /\ c.type \in STRING /\ c.rules \in Seq([conn : STRING, database : SUBSET STRING,
                user : SUBSET STRING, address : SUBSET Addrs, auth : STRING])
         /\ c.local \in Passwords \union {NoPassword}
         /\ c.query \in BOOLEAN /\ c.ldap \in BOOLEAN
         /\ c.tls \in BOOLEAN /\ c.clientCa \in BOOLEAN

=============================================================================
