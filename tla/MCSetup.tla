------------------------------- MODULE MCSetup --------------------------------
(* Setup for TLC, with two users, one database, two addresses and two          *)
(* passwords: a behaviour moves one of Program, StartupCodec and ClientLogin   *)
(* and leaves the others in an initial state.                                  *)
EXTENDS Setup

CONSTANTS inside, outside, right, wrong

-----------------------------------------------------------------------------
(* Configurations, clients and lookups *)

MCUsers == {"ann", "app"}
MCAddrs == {inside, outside}

Rule(conn, auth) == [conn |-> conn, database |-> {"all"}, user |-> {"all"},
                     address |-> MCAddrs, auth |-> auth]

\* Rules that differ in what they match, and rules for every method.
PlainRules ==
    {<<[Rule("hostssl", "cert") EXCEPT !.user = {"ann"}],
       [Rule("hostnossl", "password") EXCEPT !.address = {inside}], Rule("host", m)>> :
        m \in {"trust", "reject", "password", "scram-sha-256", "pam", "ldap", "md5"}}
    \union {<<[Rule("hostssl", "pam") EXCEPT !.address = {outside}], Rule("hostssl", "trust")>>}

Types == {"trust", "password", "scramsha256", "cert", "pam", "ldap", "hba", "authquery"}

Base == [type |-> "hba", rules |-> <<>>, local |-> right, query |-> FALSE, ldap |-> TRUE,
         tls |-> TRUE, clientCa |-> TRUE]

Sources == {<<right, FALSE>>, <<right, TRUE>>, <<NoPassword, TRUE>>, <<NoPassword, FALSE>>}

\* One configuration in each way that counts.
MCConfigs ==
    {[Base EXCEPT !.type = t, !.local = s[1], !.query = s[2], !.ldap = l, !.tls = x, !.clientCa = c] :
        t \in Types, s \in Sources, l \in BOOLEAN, x \in BOOLEAN, c \in BOOLEAN}
    \union {[Base EXCEPT !.rules = r, !.local = s[1], !.query = s[2], !.clientCa = c] :
        r \in PlainRules, s \in Sources, c \in BOOLEAN}

M(type)    == [type |-> type]
Row(p, q)  == [type |-> "D", columns |-> <<p, q>>]
Login(ok)  == [type |-> "R", ok |-> ok]

MCLookups ==
    {<<>>, <<Login(FALSE)>>, <<M("E")>>, <<Login(TRUE), M("S")>>,
     <<Login(TRUE), M("S"), M("Z"), M("T"), Row(NoPassword, NoPassword), M("C"), M("Z")>>,
     <<Login(TRUE), M("Z"), M("T"), Row(wrong, right), M("C"), M("Z")>>,
     <<Login(TRUE), M("Z"), M("T"), Row(right, NoPassword), Row(wrong, NoPassword), M("Z")>>,
     <<Login(TRUE), M("Z"), Row(right, NoPassword), M("E")>>,
     <<Login(TRUE), M("Z"), Row(NoPassword, right)>>}

-----------------------------------------------------------------------------

ProgramRests ==
    /\ cfg = [readable |-> TRUE, log |-> TRUE, iam |-> TRUE, health |-> "on",
              metrics |-> "on", admin |-> "on", taken |-> {}]
    /\ pc = "load" /\ tasks = {} /\ up = TRUE /\ downFor = 0
    /\ checker = [at |-> "sleep", age |-> 0]
    /\ status = [healthy |-> TRUE, error |-> "none", age |-> 0]

CodecRests ==
    /\ len = 8 /\ code = "SSLRequest" /\ buf = <<>>
    /\ codecPc = "length" /\ offset = 1 /\ params = <<>>
    /\ first = <<>> /\ next = 1 /\ sent = <<>>

LoginRests ==
    /\ loginPc = "boot" /\ tls = FALSE /\ method = "none" /\ told = "nothing"
    /\ evidence = <<>>
    /\ lookup = [reply |-> <<>>, next |-> 1, phase |-> "none", password |-> NoPassword]
    /\ loginCfg = [Base EXCEPT !.type = "trust"]
    /\ who = [user |-> "ann", database |-> "app", addr |-> inside, wants |-> "session",
              cert |-> "none", password |-> right]

codecVars == <<len, code, buf, codecPc, offset, params, first, next, sent>>
loginVars == <<loginCfg, who, loginPc, tls, method, told, lookup, evidence>>
MCVars    == <<vars, codecVars, loginVars>>

MCInit ==
    \/ Init /\ CodecRests /\ LoginRests
    \/ ProgramRests /\ Codec!Init /\ LoginRests
    \/ ProgramRests /\ CodecRests /\ Front!Init

ProgramAlone == CodecRests /\ LoginRests /\ UNCHANGED <<codecVars, loginVars>>

MCNext ==
    \/ ProgramAlone /\ Next
    \/ ProgramRests /\ LoginRests /\ UNCHANGED <<vars, loginVars>> /\ Codec!Next
    \/ ProgramRests /\ CodecRests /\ UNCHANGED <<vars, codecVars>> /\ Front!Next

\* Fairness is Program's.
MCSpec ==
    /\ MCInit /\ [][MCNext]_MCVars
    /\ WF_MCVars(Run /\ ProgramAlone)

=============================================================================
