----------------------------- MODULE ClientLogin -----------------------------
(***************************************************************************)
(* proxy/mod.rs: handle_client from the first message to the verdict of    *)
(* authenticate_client, with the methods of auth/ it calls.                *)
(*                                                                         *)
(* One client, one handler.  The configuration, the client and what the    *)
(* services answer (PostgreSQL for auth_query, PAM, the directory) are     *)
(* chosen freely.  Names of users and databases are compared, so both are  *)
(* strings; an address of a rule is the set of client addresses it holds.  *)
(***************************************************************************)
EXTENDS FiniteSetsExt, SequencesExt, LoginParams

VARIABLES
    cfg,       \* the configuration
    who,       \* the client: what it asks for and the credentials it shows
    pc,        \* where the handler is
    tls,       \* the stream is a TLS session
    method,    \* the method in force
    told,      \* the last authentication message sent to the client
    lookup,    \* lookup_password: the messages to come, the next of them, what was found
    evidence   \* what the credential was checked against, once it was

vars == <<cfg, who, pc, tls, method, told, lookup, evidence>>

\* wants "cancel": the client is one that sends a cancel request.
WhoSet == [user : Users, database : Databases, addr : Addrs, wants : {"session", "cancel"},
           cert : {"none", "valid", "foreign"}, password : Passwords]

Reading == {"initial", "rejected", "handshake", "startup", "password"}
Over    == {"admitted", "closed", "forwarded", "panicked", "unloadable", "gone"}

Init ==
    /\ cfg \in Configs /\ who \in WhoSet
    /\ pc = "boot" /\ tls = FALSE
    /\ method = "none" /\ told = "nothing" /\ evidence = <<>>
    /\ lookup = [reply |-> <<>>, next |-> 1, phase |-> "none", password |-> NoPassword]

-----------------------------------------------------------------------------
(* Start of the program *)

\* The names serde accepts, the variants of ClientAuthType in lower case.
ClientAuthTypes == {"trust", "password", "scramsha256", "cert", "pam", "ldap", "hba", "authquery"}

Load ==
    /\ pc = "boot"
    /\ pc' = IF cfg.type \in ClientAuthTypes THEN "initial" ELSE "unloadable"
    /\ UNCHANGED <<cfg, who, tls, method, told, lookup, evidence>>

-----------------------------------------------------------------------------
(* The first messages, and TLS *)

Goto(place) == pc' = place /\ UNCHANGED <<cfg, who, tls, method, told, lookup, evidence>>

\* Answered S when TLS is enabled; else N, and the client may try again.
SslRequest ==
    /\ pc \in {"initial", "rejected"}
    /\ Goto(IF cfg.tls THEN "handshake" ELSE "rejected")

\* With a client CA the handshake demands a certificate the CA has signed.
Handshake ==
    /\ pc = "handshake"
    /\ IF cfg.clientCa => who.cert = "valid"
       THEN pc' = "startup" /\ tls' = TRUE
       ELSE pc' = "closed" /\ UNCHANGED tls
    /\ UNCHANGED <<cfg, who, method, told, lookup, evidence>>

StartupMessage ==
    /\ pc \in {"initial", "rejected", "startup"} /\ who.wants = "session"
    /\ Goto("auth")

\* A cancel request says its length, 16, so that it is read as a startup
\* message of an unsupported version.
CancelRequest ==
    /\ pc \in {"initial", "rejected", "startup"} /\ who.wants = "cancel"
    /\ Goto("closed")

\* The form read_initial_message knows, of length 8; on the first read only.
ShortCancel ==
    /\ pc \in {"initial", "rejected", "startup"} /\ who.wants = "cancel"
    /\ Goto(IF pc = "initial" THEN "forwarded" ELSE "closed")

\* Anything else that is read ends the handler, as a broken connection does.
Nonsense == pc \in Reading /\ Goto("closed")
Leave    == pc \in Reading /\ Goto("gone")

\* client_cert_was_present
CertPresent == tls /\ cfg.clientCa /\ who.cert # "none"

-----------------------------------------------------------------------------
(* HBA *)

\* Mutant: rules for the other kind of connection are not passed over.
AnyConn(r) ==
    /\ r.database \intersect {"all", "sameuser", who.user} # {}
    /\ r.user \intersect {"all", who.user} # {}
    /\ r.address # {} => who.addr \in r.address

\* The test in the loop of authenticate_client.  An address that cannot be
\* parsed, {}, is not compared.
Applies(r) ==
    /\ r.conn \in (IF tls THEN {"hostssl", "host"} ELSE {"hostnossl", "host"})
    /\ r.database \intersect {"all", "sameuser", who.user} # {}
    /\ r.user \intersect {"all", who.user} # {}
    /\ r.address # {} => who.addr \in r.address

\* match_rule of auth/hba.rs, which nothing calls, for a client on TCP.
MatchRule(r) ==
    /\ \/ r.conn = "host"
       \/ r.conn = "hostssl" /\ tls
       \/ r.conn = "hostnossl" /\ ~tls
    /\ \/ r.database \intersect {"all", who.database} # {}
       \/ "sameuser" \in r.database /\ who.database = who.user
    /\ r.user \intersect {"all", who.user} # {}
    /\ who.addr \in r.address

\* The method of the first of the rules that fit, those at I.
RuleMethod(I) == IF I = {} THEN "reject" ELSE cfg.rules[Min(I)].auth

\* SCRAM is spelled one way in the file's type and another in its rules.
Spelled(type) == IF type = "scramsha256" THEN "scram-sha-256" ELSE type

Method ==
    IF cfg.rules # <<>> THEN RuleMethod({i \in DOMAIN cfg.rules : Applies(cfg.rules[i])})
    ELSE Spelled(cfg.type)

-----------------------------------------------------------------------------
(* auth_query *)

(* lookup_password logs in (trust only), waits for ReadyForQuery, asks and  *)
(* keeps the last column that is not NULL of the rows.                     *)

\* The connection is made and PostgreSQL will send one of Lookups.
StartLookup ==
    /\ pc' = "lookup"
    /\ \E reply \in Lookups : lookup' = [lookup EXCEPT !.reply = reply, !.phase = "login"]

\* The columns are gone through and the last that is set stays.
LastColumn(columns) ==
    LET set == {c \in DOMAIN columns : columns[c] # NoPassword}
    IN  IF set = {} THEN lookup.password ELSE columns[Max(set)]

ReadReply ==
    /\ pc = "lookup" /\ lookup.phase \in {"login", "startup", "rows"}
    /\ lookup.next <= Len(lookup.reply)
    /\ LET m == lookup.reply[lookup.next]
           phase ==
               CASE lookup.phase = "login" /\ m.type = "R" -> IF m.ok THEN "startup" ELSE "failed"
                 [] lookup.phase \in {"login", "rows"} /\ m.type = "E" -> "failed"
                 [] lookup.phase = "startup" /\ m.type = "Z" -> "rows"
                 [] lookup.phase = "rows" /\ m.type = "Z" -> "done"
                 [] OTHER -> lookup.phase
           password ==
               IF lookup.phase = "rows" /\ m.type = "D" THEN LastColumn(m.columns) ELSE lookup.password
       IN  lookup' = [lookup EXCEPT !.next = @ + 1, !.phase = phase, !.password = password]
    /\ UNCHANGED <<cfg, who, pc, tls, method, told, evidence>>

\* It returns: by an error, at ReadyForQuery, or at the end of the stream, which
\* does no harm among the rows.
LookupReturns == lookup.phase \in {"failed", "done"} \/ lookup.next > Len(lookup.reply)

LookedUp == IF lookup.phase \in {"rows", "done"} THEN lookup.password ELSE NoPassword

-----------------------------------------------------------------------------
(* authenticate_client *)

Admit == pc' = "admitted" /\ told' = "ok"

\* Mutant: the error is returned and not written.
TellNothing == pc' = "closed" /\ UNCHANGED told

Tell == pc' = "closed" /\ told' = "error"

Bail == pc' = "closed" /\ UNCHANGED told

\* do_scram_server_auth, which copies the name of the mechanism to an array one
\* byte short.
ServeScram(password) ==
    IF password = NoPassword THEN Bail ELSE pc' = "panicked" /\ UNCHANGED told

\* The methods that need no answer of the client, up to the verdict, and the
\* request for a password.
Authenticate ==
    /\ pc = "auth"
    /\ method' = Method
    /\ \/ Method = "trust" /\ Admit
       \/ Method = "cert" /\ (IF CertPresent THEN Admit ELSE Tell)
       \/ Method \in {"password", "pam", "ldap"} /\ pc' = "password" /\ told' = "cleartext"
       \/ cfg.rules = <<>> /\ Method \in {"hba", "authquery"} /\ Bail
       \/ /\ cfg.rules # <<>>
          /\ Method \notin {"trust", "password", "scram-sha-256", "cert", "pam", "ldap"}
          /\ Tell
    /\ UNCHANGED <<cfg, who, tls, lookup, evidence>>

\* SCRAM takes the password from the configuration or looks it up.
AuthenticateScram ==
    /\ pc = "auth" /\ Method = "scram-sha-256"
    /\ method' = Method
    /\ IF cfg.local = NoPassword /\ cfg.query
       THEN StartLookup /\ UNCHANGED told
       ELSE ServeScram(cfg.local) /\ UNCHANGED lookup
    /\ UNCHANGED <<cfg, who, tls, evidence>>

\* The password is there; check_password asks PostgreSQL when it is to.
PasswordMessage ==
    /\ pc = "password"
    /\ CASE method = "ldap" /\ ~cfg.ldap -> pc' = "closed" /\ UNCHANGED lookup
         [] method = "password" /\ cfg.local = NoPassword /\ cfg.query -> StartLookup
         [] OTHER -> pc' = "checking" /\ UNCHANGED lookup
    /\ UNCHANGED <<cfg, who, tls, method, told, evidence>>

\* The answers of PAM and of the directory, call by call.
PamReplies  == [start : BOOLEAN, authenticate : BOOLEAN, end : BOOLEAN]
LdapReplies == [up : BOOLEAN, bind : BOOLEAN, found : BOOLEAN, again : BOOLEAN, rebind : BOOLEAN]
Replies ==
    CASE method = "pam"  -> PamReplies
      [] method = "ldap" -> LdapReplies
      [] OTHER -> {"local"}

\* auth/pam_ffi.rs, authenticate
PamAccepts(r) == r.start /\ r.end /\ r.authenticate

\* auth/ldap.rs, authenticate
LdapAccepts(r) == r.up /\ r.bind /\ r.found /\ r.again /\ r.rebind

\* The methods whose check is a call; without a source no password is right.
Check ==
    /\ pc = "checking"
    /\ \E r \in Replies :
         /\ evidence' = <<r>>
         /\ IF \/ method = "pam" /\ PamAccepts(r)
               \/ method = "ldap" /\ LdapAccepts(r)
               \/ method = "password" /\ who.password = cfg.local
            THEN Admit
            ELSE Tell
    /\ UNCHANGED <<cfg, who, tls, method, lookup>>

\* Mutant: with no password to compare with, none is needed.
PasswordOrNone == LookedUp \in {who.password, NoPassword}

PasswordFound == LookedUp = who.password

\* What the password was looked up for goes on.
UseLookup ==
    /\ pc = "lookup" /\ LookupReturns
    /\ \/ method = "scram-sha-256" /\ ServeScram(LookedUp) /\ UNCHANGED evidence
       \/ /\ method = "password"
          /\ evidence' = <<lookup.reply>>
          /\ IF PasswordFound THEN Admit ELSE Tell
    /\ UNCHANGED <<cfg, who, tls, method, lookup>>

-----------------------------------------------------------------------------
(* Specification *)

Next ==
    \/ Load \/ SslRequest \/ Handshake \/ StartupMessage \/ CancelRequest \/ ShortCancel
    \/ Nonsense \/ Leave \/ Authenticate \/ AuthenticateScram
    \/ PasswordMessage \/ Check \/ ReadReply \/ UseLookup

Spec == Init /\ [][Next]_vars

-----------------------------------------------------------------------------
(* Properties *)

\* Somebody was asked for a password exactly when it has been read and checked,
\* and the verdict is the last word.
TypeOK ==
    /\ cfg \in Configs /\ who \in WhoSet
    /\ pc \in Reading \union Over \union {"boot", "auth", "checking", "lookup"}
    /\ tls \in BOOLEAN /\ method \in {"none", Method}
    /\ told \in {"nothing", "cleartext", "ok", "error"}
    /\ lookup \in [reply : Lookups \union {<<>>}, next : Nat,
                  phase : {"none", "login", "startup", "rows", "failed", "done"},
                  password : Passwords \union {NoPassword}]
    /\ lookup.next \in 1..Len(lookup.reply) + 1
    /\ tls => cfg.tls
    /\ pc = "admitted" <=> told = "ok"
    /\ pc \in {"password", "checking"} => told = "cleartext" /\ method \in {"password", "pam", "ldap"}
    /\ pc = "lookup" => cfg.query /\ method \in {"password", "scram-sha-256"}
    /\ evidence # <<>> => pc \in {"admitted", "closed"}

\* The password is the last column that is not NULL, in the last row that has
\* one, of a reply as far as it was read.
LastSet(reply, next, password) ==
    \E i \in 1..next - 1 :
        /\ reply[i].type = "D"
        /\ \E c \in DOMAIN reply[i].columns :
             /\ reply[i].columns[c] = password
             /\ \A d \in c + 1..Len(reply[i].columns) : reply[i].columns[d] = NoPassword
        /\ \A j \in i + 1..next - 1 :
             reply[j].type = "D" => Range(reply[j].columns) \subseteq {NoPassword}

\* A client is admitted only by the method the configuration puts in force for
\* it, and with what that method demands: the certificate the TLS handshake
\* checked, the password configured or the last of those the query returned, the
\* word of PAM, a bind of the directory under the user's own name.
AdmittedRightly ==
    pc = "admitted" =>
        /\ method \in {"trust", "cert", "pam", "ldap", "password"}
        /\ method = "cert" => tls /\ who.cert = "valid"
        /\ method = "pam"  => evidence[1].authenticate
        /\ method = "ldap" => evidence[1].found /\ evidence[1].rebind
        /\ method = "password" =>
             IF cfg.local # NoPassword
             THEN who.password = cfg.local
             ELSE cfg.query /\ LastSet(evidence[1], lookup.next, who.password)

\* The verdict is told, the method stays in force, an admission has its evidence.
LoginInv == TypeOK /\ AdmittedRightly

\* Rules that hold for every database and whose address can be read.
PlainRule(r) == "all" \in r.database /\ r.address # {}

\* Where the test written out in authenticate_client is not known to differ from
\* match_rule, the first rule that match_rule accepts decides, and the type of
\* client_auth only without rules.
FirstMatchDecides ==
    method # "none" /\ (\A i \in DOMAIN cfg.rules : PlainRule(cfg.rules[i])) =>
        method = IF cfg.rules = <<>> THEN Spelled(cfg.type)
                 ELSE RuleMethod({i \in DOMAIN cfg.rules : MatchRule(cfg.rules[i])})

\* A client that a rule or its credential kept out has been told so.
RefusalIsTold ==
    pc = "closed" /\ (evidence # <<>> \/ method = "reject") => told = "error"

=============================================================================
