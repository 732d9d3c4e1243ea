----------------------------- MODULE LoginProofs -----------------------------
(***************************************************************************)
(* Theorems about ClientLogin, for any configurations, clients and answers *)
(* of PostgreSQL.                                                          *)
(***************************************************************************)
EXTENDS ClientLogin, SequenceTheorems, NaturalsInduction, WellFoundedInduction, TLAPS

-----------------------------------------------------------------------------
(* The first and the last of the indices that pass a test *)

LEMMA HasLeast ==
    ASSUME NEW I, I \subseteq Nat, I # {}
    PROVE  \E i \in I : \A j \in I : i <= j
PROOF
<1>1. PICK i \in I : \A j \in I : <<j, i>> \notin OpToRel(<, Nat)
      BY NatLessThanWellFounded, WFMin
<1>2. \A j \in I : <<j, i>> \notin {ss \in Nat \X Nat : ss[1] < ss[2]}
      BY <1>1, Zenon DEF OpToRel
<1>3. ASSUME NEW j \in I PROVE ~(j < i)
  <2> DEFINE ji == <<j, i>>
  <2>1. ji \in Nat \X Nat /\ (j < i => ji[1] < ji[2])
        OBVIOUS
  <2> HIDE DEF ji
  <2>2. ji \notin {ss \in Nat \X Nat : ss[1] < ss[2]}
        BY <1>2 DEF ji
  <2> QED BY <2>1, <2>2
<1> QED BY <1>3

LEMMA MinIsLeast ==
    ASSUME NEW I, I \subseteq Nat, I # {}
    PROVE  Min(I) \in I /\ \A j \in I : Min(I) <= j
PROOF
BY HasLeast DEF Min

LEMMA MaxIsGreatest ==
    ASSUME NEW n \in Nat, NEW I, I \subseteq 1..n, I # {}
    PROVE  Max(I) \in I /\ \A j \in I : Max(I) >= j
PROOF
<1> DEFINE J == {n - i : i \in I}
<1>0. J \subseteq Nat /\ J # {}
  <2>1. \A i \in I : n - i \in Nat
        OBVIOUS
  <2>2. PICK i \in I : TRUE
        OBVIOUS
  <2>3. n - i \in J
        BY <2>2
  <2> QED BY <2>1, <2>3
<1>1. PICK k \in J : \A j \in J : k <= j
      BY <1>0, HasLeast
<1>2. PICK i \in I : k = n - i
      OBVIOUS
<1>3. ASSUME NEW j \in I PROVE i >= j
  <2>1. n - j \in J
        OBVIOUS
  <2>2. k <= n - j
        BY <1>1, <2>1
  <2> QED BY <1>2, <2>2
<1> QED BY <1>2, <1>3 DEF Max

-----------------------------------------------------------------------------
(* The inductive invariant *)

\* The handler is still reading the first messages.
Before == {"boot", "initial", "rejected", "handshake", "startup", "auth"}

\* The lookup has found nothing yet, or what is the last so far.
LookupOK ==
    /\ lookup.phase \in {"none", "login", "startup"} => lookup.password = NoPassword
    /\ lookup.password # NoPassword => LastSet(lookup.reply, lookup.next, lookup.password)
    /\ pc \in Before \union {"password"} => lookup.next = 1 /\ lookup.password = NoPassword

LoginIInv ==
    /\ LoginInv /\ RefusalIsTold
    /\ LookupOK
    /\ pc \in Before => method = "none"
    /\ pc = "handshake" => cfg.tls
    /\ pc = "lookup" => cfg.local = NoPassword
    /\ tls /\ cfg.clientCa => who.cert = "valid"

USE DEF Before, Reading, Over

LEMMA LoginInit ==
    ASSUME Init
    PROVE  LoginIInv
PROOF
<1>1. lookup = [reply |-> <<>>, next |-> 1, phase |-> "none", password |-> NoPassword]
      BY DEF Init
<1>2. /\ lookup \in [reply : Lookups \union {<<>>}, next : Nat,
                     phase : {"none", "login", "startup", "rows", "failed", "done"},
                     password : Passwords \union {NoPassword}]
      /\ lookup.next \in 1..Len(lookup.reply) + 1
      BY <1>1
<1>3. TypeOK
  <2>1. /\ cfg \in Configs /\ who \in WhoSet /\ pc = "boot" /\ tls = FALSE
        /\ method = "none" /\ told = "nothing" /\ evidence = <<>>
        BY DEF Init
  <2> QED BY <1>2, <2>1 DEF TypeOK
<1>4. LookupOK
      BY <1>1 DEF LookupOK
<1> QED BY <1>3, <1>4 DEF Init, LoginIInv, LoginInv, AdmittedRightly, RefusalIsTold

-----------------------------------------------------------------------------
(* What a step leaves alone *)

\* Who asks, of which configuration, over which stream: these settle the method.
Asks == <<cfg, who, tls>>

LEMMA MethodKept ==
    ASSUME UNCHANGED Asks
    PROVE  Method' = Method
PROOF
<1>1. cfg' = cfg /\ who' = who /\ tls' = tls
      BY DEF Asks
<1> QED BY <1>1 DEF Method, RuleMethod, Applies, Spelled

\* A method that is in force is the one the first match gives.
LEMMA MethodIsFirstMatch ==
    ASSUME \A i \in DOMAIN cfg.rules : PlainRule(cfg.rules[i]), tls \in BOOLEAN
    PROVE  Method = IF cfg.rules = <<>> THEN Spelled(cfg.type)
                    ELSE RuleMethod({i \in DOMAIN cfg.rules : MatchRule(cfg.rules[i])})
PROOF
<1>1. ASSUME NEW i \in DOMAIN cfg.rules
      PROVE  Applies(cfg.rules[i]) <=> MatchRule(cfg.rules[i])
      BY DEF PlainRule, Applies, MatchRule
<1>2. {i \in DOMAIN cfg.rules : Applies(cfg.rules[i])}
        = {i \in DOMAIN cfg.rules : MatchRule(cfg.rules[i])}
      BY <1>1
<1> QED BY <1>2 DEF Method

LEMMA FirstMatch ==
    ASSUME tls \in BOOLEAN, method \in {"none", Method}
    PROVE  FirstMatchDecides
PROOF
BY MethodIsFirstMatch DEF FirstMatchDecides

-----------------------------------------------------------------------------
(* The steps *)

\* The steps before authentication but for the handshake, and those that give up.
FirstSteps == Load \/ SslRequest \/ StartupMessage \/ CancelRequest \/ ShortCancel \/ Nonsense \/ Leave

LEMMA FirstStepsKeep ==
    ASSUME LoginIInv, FirstSteps
    PROVE  LoginIInv'
PROOF
<1>1. /\ UNCHANGED <<cfg, who, tls, method, told, lookup, evidence>>
      /\ pc \in {"boot", "initial", "rejected", "handshake", "startup", "password"}
      /\ pc' \in {"initial", "rejected", "handshake", "auth", "closed", "forwarded", "gone", "unloadable"}
      /\ pc = "password" => pc' \in {"closed", "gone"}
      /\ pc' = "handshake" => cfg.tls
  <2> USE DEF Goto
  <2>1. CASE Load          BY <2>1 DEF Load
  <2>2. CASE SslRequest    BY <2>2 DEF SslRequest
  <2>3. CASE StartupMessage BY <2>3 DEF StartupMessage
  <2>4. CASE CancelRequest BY <2>4 DEF CancelRequest
  <2>5. CASE ShortCancel   BY <2>5 DEF ShortCancel
  <2>6. CASE Nonsense      BY <2>6 DEF Nonsense
  <2>7. CASE Leave         BY <2>7 DEF Leave
  <2> QED BY <2>1, <2>2, <2>3, <2>4, <2>5, <2>6, <2>7 DEF FirstSteps
<1>2. Method' = Method
      BY <1>1, MethodKept DEF Asks
<1>3. TypeOK /\ told # "ok" /\ evidence = <<>> /\ method # "reject"
      BY <1>1 DEF LoginIInv, LoginInv, TypeOK
<1>4. TypeOK'
      BY <1>1, <1>2, <1>3 DEF TypeOK, WhoSet
<1>5. LookupOK'
      BY <1>1 DEF LoginIInv, LookupOK, LastSet
<1> QED BY <1>1, <1>3, <1>4, <1>5 DEF LoginIInv, LoginInv, AdmittedRightly, RefusalIsTold

LEMMA HandshakeKeeps ==
    ASSUME LoginIInv, Handshake
    PROVE  LoginIInv'
PROOF
<1>1. /\ UNCHANGED <<cfg, who, method, told, lookup, evidence>>
      /\ pc = "handshake" /\ pc' \in {"startup", "closed"}
      /\ tls' \in {tls, TRUE}
      /\ tls' # tls /\ cfg.clientCa => who.cert = "valid"
      BY DEF Handshake
<1>2. TypeOK /\ told # "ok" /\ evidence = <<>> /\ method = "none" /\ cfg.tls
      BY <1>1 DEF LoginIInv, LoginInv, TypeOK
<1>3. TypeOK'
  <2>1. /\ pc' \in {"startup", "closed"} /\ tls' \in BOOLEAN
        /\ pc' \in Reading \union Over
        BY <1>1, <1>2 DEF TypeOK, Reading, Over
  <2> QED BY <1>1, <1>2, <2>1 DEF TypeOK
<1>4. LookupOK'
      BY <1>1 DEF LoginIInv, LookupOK, LastSet
<1> QED BY <1>1, <1>2, <1>3, <1>4 DEF LoginIInv, LoginInv, AdmittedRightly, RefusalIsTold

\* Whoever authenticates has got past the handshake.
LEMMA AuthenticateKeeps ==
    ASSUME LoginIInv, Authenticate
    PROVE  LoginIInv'
PROOF
<1>1. UNCHANGED <<cfg, who, tls, lookup, evidence>> /\ pc = "auth" /\ method' = Method
      BY DEF Authenticate
<1>2. /\ pc' \in {"admitted", "closed", "password"}
      /\ pc' = "admitted" => told' = "ok" /\ Method \in {"trust", "cert"}
      /\ pc' = "admitted" /\ Method = "cert" => CertPresent
      /\ pc' = "closed" => told' \in {told, "error"}
      /\ pc' = "closed" /\ Method = "reject" => told' = "error"
      /\ pc' = "password" => told' = "cleartext" /\ Method \in {"password", "pam", "ldap"}
      BY DEF Authenticate, Admit, Tell, Bail
<1>3. Method' = Method
      BY <1>1, MethodKept DEF Asks
<1>4. TypeOK /\ told # "ok" /\ evidence = <<>>
      BY <1>1 DEF LoginIInv, LoginInv, TypeOK
<1>5. TypeOK'
      BY <1>1, <1>2, <1>3, <1>4 DEF TypeOK, WhoSet
<1>6. AdmittedRightly'
      BY <1>1, <1>2 DEF AdmittedRightly, LoginIInv, CertPresent
<1>7. LookupOK'
      BY <1>1, <1>2 DEF LoginIInv, LookupOK, LastSet
<1> QED BY <1>1, <1>2, <1>4, <1>5, <1>6, <1>7 DEF LoginIInv, LoginInv, RefusalIsTold

\* A lookup begins.
LEMMA StartsWell ==
    ASSUME TypeOK, LookupOK, StartLookup, lookup.next = 1, lookup.password = NoPassword
    PROVE  /\ pc' = "lookup"
           /\ lookup' \in [reply : Lookups \union {<<>>}, next : Nat,
                           phase : {"none", "login", "startup", "rows", "failed", "done"},
                           password : Passwords \union {NoPassword}]
           /\ lookup'.next \in 1..Len(lookup'.reply) + 1
           /\ lookup'.password = NoPassword
PROOF
<1>1. PICK reply \in Lookups : lookup' = [lookup EXCEPT !.reply = reply, !.phase = "login"]
      BY DEF StartLookup
<1>2. reply \in Seq(Messages)
      BY LoginAssumption
<1>3. Len(reply) \in Nat
      BY <1>2
<1> DEFINE Lookup == [reply : Lookups \union {<<>>}, next : Nat,
                      phase : {"none", "login", "startup", "rows", "failed", "done"},
                      password : Passwords \union {NoPassword}]
<1>4. lookup \in Lookup
      BY DEF TypeOK
<1>5. lookup' \in Lookup
      BY <1>1, <1>4
<1>6. lookup'.reply = reply /\ lookup'.next = 1 /\ lookup'.password = NoPassword
      BY <1>1, <1>4
<1>7. lookup'.next \in 1..Len(lookup'.reply) + 1
      BY <1>3, <1>6
<1> QED BY <1>5, <1>6, <1>7 DEF StartLookup

LEMMA AuthenticateScramKeeps ==
    ASSUME LoginIInv, AuthenticateScram
    PROVE  LoginIInv'
PROOF
<1>1. /\ UNCHANGED <<cfg, who, tls, told, evidence>> /\ pc = "auth"
      /\ Method = "scram-sha-256" /\ method' = Method
      BY DEF AuthenticateScram, ServeScram, Bail
<1>2. TypeOK /\ told # "ok" /\ evidence = <<>> /\ LookupOK
      /\ lookup.next = 1 /\ lookup.password = NoPassword
      BY <1>1 DEF LoginIInv, LoginInv, TypeOK, LookupOK
<1>3. Method' = Method
      BY <1>1, MethodKept DEF Asks
<1>4. CASE cfg.local = NoPassword /\ cfg.query
  <2>1. StartLookup
        BY <1>4 DEF AuthenticateScram
  <2>2. TypeOK'
        BY <1>1, <1>2, <1>3, <1>4, <2>1, StartsWell DEF TypeOK, WhoSet
  <2>3. LookupOK'
        BY <1>2, <2>1, StartsWell DEF LookupOK
  <2> QED BY <1>1, <1>2, <1>4, <2>1, <2>2, <2>3, StartsWell
          DEF LoginIInv, LoginInv, RefusalIsTold, AdmittedRightly
<1>5. CASE ~(cfg.local = NoPassword /\ cfg.query)
  <2>1. UNCHANGED lookup /\ pc' \in {"closed", "panicked"}
        BY <1>5 DEF AuthenticateScram, ServeScram, Bail
  <2>2. TypeOK'
        BY <1>1, <1>2, <1>3, <2>1 DEF TypeOK, WhoSet
  <2>3. LookupOK'
        BY <1>2, <2>1 DEF LookupOK, LastSet
  <2> QED BY <1>1, <1>2, <2>1, <2>2, <2>3 DEF LoginIInv, LoginInv, RefusalIsTold, AdmittedRightly
<1> QED BY <1>4, <1>5

LEMMA PasswordMessageKeeps ==
    ASSUME LoginIInv, PasswordMessage
    PROVE  LoginIInv'
PROOF
<1>1. /\ UNCHANGED <<cfg, who, tls, told, method, evidence>> /\ pc = "password"
      BY DEF PasswordMessage
<1>2. TypeOK /\ told = "cleartext" /\ evidence = <<>> /\ LookupOK
      /\ lookup.next = 1 /\ lookup.password = NoPassword
      /\ method \in {"password", "pam", "ldap"}
      BY <1>1 DEF LoginIInv, LoginInv, TypeOK, LookupOK
<1>3. Method' = Method
      BY <1>1, MethodKept DEF Asks
<1>4. CASE method = "password" /\ cfg.local = NoPassword /\ cfg.query
  <2>1. StartLookup
        BY <1>4 DEF PasswordMessage
  <2>2. TypeOK'
        BY <1>1, <1>2, <1>3, <1>4, <2>1, StartsWell DEF TypeOK, WhoSet
  <2>3. LookupOK'
        BY <1>2, <2>1, StartsWell DEF LookupOK
  <2> QED BY <1>1, <1>2, <1>4, <2>1, <2>2, <2>3, StartsWell
          DEF LoginIInv, LoginInv, RefusalIsTold, AdmittedRightly
<1>5. CASE ~(method = "password" /\ cfg.local = NoPassword /\ cfg.query)
  <2>1. UNCHANGED lookup /\ pc' \in {"closed", "checking"}
        BY <1>5 DEF PasswordMessage
  <2>2. TypeOK'
        BY <1>1, <1>2, <1>3, <2>1 DEF TypeOK, WhoSet
  <2>3. LookupOK'
        BY <1>2, <2>1 DEF LookupOK, LastSet
  <2> QED BY <1>1, <1>2, <2>1, <2>2, <2>3 DEF LoginIInv, LoginInv, RefusalIsTold, AdmittedRightly
<1> QED BY <1>4, <1>5

LEMMA CheckKeeps ==
    ASSUME LoginIInv, Check
    PROVE  LoginIInv'
PROOF
<1>1. PICK r \in Replies :
          /\ evidence' = <<r>>
          /\ IF \/ method = "pam" /\ PamAccepts(r)
                \/ method = "ldap" /\ LdapAccepts(r)
                \/ method = "password" /\ who.password = cfg.local
             THEN Admit
             ELSE Tell
      BY DEF Check
<1>2. UNCHANGED <<cfg, who, tls, method, lookup>> /\ pc = "checking"
      BY DEF Check
<1>3. \/ pc' = "admitted" /\ told' = "ok"
      \/ pc' = "closed" /\ told' = "error"
      BY <1>1 DEF Admit, Tell
<1>4. TypeOK /\ LookupOK /\ method \in {"password", "pam", "ldap"}
      BY <1>2 DEF LoginIInv, LoginInv, TypeOK
<1>5. Method' = Method
      BY <1>2, MethodKept DEF Asks
<1>6. TypeOK'
      BY <1>2, <1>3, <1>4, <1>5 DEF TypeOK, WhoSet
<1>7. AdmittedRightly'
  <2> SUFFICES ASSUME pc' = "admitted" PROVE AdmittedRightly'
      BY DEF AdmittedRightly
  <2>1. \/ method = "pam" /\ PamAccepts(r)
        \/ method = "ldap" /\ LdapAccepts(r)
        \/ method = "password" /\ who.password = cfg.local
        BY <1>1 DEF Tell
  <2>2. evidence'[1] = r
        BY <1>1
  <2>3. method = "password" => cfg.local # NoPassword
        BY <1>4, <2>1, LoginAssumption DEF TypeOK, WhoSet
  <2> QED BY <1>2, <1>4, <2>1, <2>2, <2>3 DEF AdmittedRightly, PamAccepts, LdapAccepts
<1>8. LookupOK'
      BY <1>2, <1>3, <1>4 DEF LookupOK, LastSet
<1> QED BY <1>2, <1>3, <1>4, <1>6, <1>7, <1>8 DEF LoginIInv, LoginInv, RefusalIsTold

LEMMA UseLookupKeeps ==
    ASSUME LoginIInv, UseLookup
    PROVE  LoginIInv'
PROOF
<1>1. UNCHANGED <<cfg, who, tls, method, lookup>> /\ pc = "lookup"
      BY DEF UseLookup
<1>2. TypeOK /\ LookupOK /\ cfg.query /\ evidence = <<>> /\ told # "ok"
      BY <1>1 DEF LoginIInv, LoginInv, TypeOK
<1>3. Method' = Method
      BY <1>1, MethodKept DEF Asks
<1>4. LookupOK'
  <2>1. pc' \in {"closed", "panicked", "admitted"}
        BY DEF UseLookup, ServeScram, Bail, Admit, Tell
  <2> QED BY <1>1, <1>2, <2>1 DEF LookupOK, LastSet
<1>5. CASE method = "scram-sha-256"
  <2>1. UNCHANGED <<told, evidence>> /\ pc' \in {"closed", "panicked"}
        BY <1>5 DEF UseLookup, ServeScram, Bail
  <2>2. TypeOK'
        BY <1>1, <1>2, <1>3, <2>1 DEF TypeOK, WhoSet
  <2> QED BY <1>1, <1>2, <1>4, <1>5, <2>1, <2>2
          DEF LoginIInv, LoginInv, RefusalIsTold, AdmittedRightly
<1>6. CASE method = "password"
  <2>1. /\ evidence' = <<lookup.reply>>
        /\ \/ PasswordFound /\ pc' = "admitted" /\ told' = "ok"
           \/ pc' = "closed" /\ told' = "error"
        BY <1>6 DEF UseLookup, Admit, Tell
  <2>2. TypeOK'
        BY <1>1, <1>2, <1>3, <2>1 DEF TypeOK, WhoSet
  <2>3. AdmittedRightly'
    <3> SUFFICES ASSUME pc' = "admitted"
                 PROVE  AdmittedRightly'
        BY DEF AdmittedRightly
    <3>0. cfg.local = NoPassword
          BY <1>1 DEF LoginIInv
    <3>1. LookedUp = who.password
          BY <2>1 DEF PasswordFound
    <3>2. who.password # NoPassword
          BY <1>2, LoginAssumption DEF TypeOK, WhoSet
    <3>3. lookup.password = who.password
          BY <3>1, <3>2 DEF LookedUp
    <3>4. LastSet(lookup.reply, lookup.next, who.password)
          BY <1>2, <3>2, <3>3 DEF LookupOK
    <3>5. evidence'[1] = lookup.reply
          BY <2>1
    <3> QED BY <1>1, <1>2, <1>6, <3>0, <3>4, <3>5 DEF AdmittedRightly
  <2> QED BY <1>1, <1>2, <1>4, <1>6, <2>1, <2>2, <2>3 DEF LoginIInv, LoginInv, RefusalIsTold
<1> QED BY <1>5, <1>6 DEF UseLookup

-----------------------------------------------------------------------------
(* The rows of a lookup *)

\* The last column of a row is the last that is set.
LEMMA RowIsRead ==
    ASSUME NEW columns \in Seq(Passwords \union {NoPassword}),
           NEW set, set = {c \in DOMAIN columns : columns[c] # NoPassword}, set # {}
    PROVE  /\ Max(set) \in DOMAIN columns /\ LastColumn(columns) = columns[Max(set)]
           /\ columns[Max(set)] \in Passwords
           /\ \A d \in Max(set) + 1..Len(columns) : columns[d] = NoPassword
PROOF
<1>1. DOMAIN columns = 1..Len(columns) /\ Len(columns) \in Nat /\ set \subseteq 1..Len(columns)
      OBVIOUS
<1>2. Max(set) \in set /\ \A c \in set : Max(set) >= c
      BY <1>1, MaxIsGreatest
<1>3. columns[Max(set)] \in Passwords
      BY <1>1, <1>2, ElementOfSeq
<1>4. ASSUME NEW d \in Max(set) + 1..Len(columns) PROVE columns[d] = NoPassword
  <2>1. d \in 1..Len(columns) /\ d > Max(set)
        BY <1>1, <1>2
  <2>2. Max(set) \in Nat /\ d \in Nat
        BY <1>1, <1>2
  <2>3. d \notin set
    <3>1. ~(Max(set) >= d)
          BY <2>1, <2>2
    <3> QED BY <1>2, <3>1, Zenon
  <2> QED BY <1>1, <2>1, <2>3
<1> QED BY <1>1, <1>2, <1>3, <1>4 DEF LastColumn

LEMMA EmptyRow ==
    ASSUME NEW columns \in Seq(Passwords \union {NoPassword}),
           {c \in DOMAIN columns : columns[c] # NoPassword} = {}
    PROVE  LastColumn(columns) = lookup.password /\ Range(columns) \subseteq {NoPassword}
PROOF
BY DEF LastColumn, Range

LEMMA ReadReplyKeeps ==
    ASSUME LoginIInv, ReadReply
    PROVE  LoginIInv'
PROOF
<1> DEFINE m == lookup.reply[lookup.next]
           Lookup == [reply : Lookups \union {<<>>}, next : Nat,
                      phase : {"none", "login", "startup", "rows", "failed", "done"},
                      password : Passwords \union {NoPassword}]
<1>1. UNCHANGED <<cfg, who, pc, tls, method, told, evidence>> /\ pc = "lookup"
      BY DEF ReadReply
<1>2. TypeOK /\ LookupOK /\ lookup \in Lookup /\ lookup.next <= Len(lookup.reply)
      BY DEF LoginIInv, LoginInv, TypeOK, ReadReply
<1>3. Method' = Method
      BY <1>1, MethodKept DEF Asks
<1>4. lookup.reply \in Seq(Messages) /\ m \in Messages /\ Len(lookup.reply) \in Nat
  <2>1. lookup.reply \in Seq(Messages)
    <3>1. <<>> \in Seq(Messages)
          OBVIOUS
    <3>2. lookup.reply \in Lookups \union {<<>>}
          BY <1>2
    <3> QED BY <3>1, <3>2, LoginAssumption
  <2>2. lookup.next \in 1..Len(lookup.reply)
        BY <1>2, <2>1 DEF TypeOK
  <2> QED BY <2>1, <2>2, ElementOfSeq
<1> DEFINE isRow == lookup.phase = "rows" /\ m.type = "D"
<1>5. PICK phase \in {"login", "startup", "rows", "failed", "done"} :
          /\ lookup' = [lookup EXCEPT !.next = @ + 1, !.phase = phase,
                          !.password = IF isRow THEN LastColumn(m.columns) ELSE lookup.password]
          /\ phase \in {"login", "startup"} => lookup.phase \in {"login", "startup"}
      BY DEF ReadReply
<1>6. isRow => m.columns \in Seq(Passwords \union {NoPassword})
      BY <1>4 DEF Messages
<1>7. isRow => LastColumn(m.columns) \in Passwords \union {NoPassword}
  <2> DEFINE set == {c \in DOMAIN m.columns : m.columns[c] # NoPassword}
  <2>1. CASE isRow /\ set = {}
        BY <1>2, <1>6, <2>1, EmptyRow
  <2>2. CASE isRow /\ set # {}
        BY <1>6, <2>2, RowIsRead
  <2> QED BY <2>1, <2>2
<1>8. /\ lookup' \in Lookup
      /\ lookup'.reply = lookup.reply /\ lookup'.next = lookup.next + 1
      /\ lookup'.phase = phase
      /\ lookup'.password = IF isRow THEN LastColumn(m.columns) ELSE lookup.password
  <2> DEFINE password == IF isRow THEN LastColumn(m.columns) ELSE lookup.password
  <2>1. password \in Passwords \union {NoPassword}
        BY <1>2, <1>7
  <2>2. lookup' = [lookup EXCEPT !.next = @ + 1, !.phase = phase, !.password = password]
        BY <1>5
  <2> HIDE DEF password
  <2>3. /\ lookup' \in Lookup
        /\ lookup'.reply = lookup.reply /\ lookup'.next = lookup.next + 1
        /\ lookup'.phase = phase /\ lookup'.password = password
    <3> HIDE DEF m, isRow
    <3>1. lookup \in Lookup /\ lookup.next + 1 \in Nat
          BY <1>2
    <3> QED BY <2>1, <2>2, <3>1
  <2> QED BY <2>3 DEF password
<1>9. TypeOK'
  <2>1. lookup'.next \in 1..Len(lookup'.reply) + 1
        BY <1>2, <1>4, <1>8
  <2> QED BY <1>1, <1>2, <1>3, <1>8, <2>1 DEF TypeOK, WhoSet
<1>10. lookup'.password # NoPassword => LastSet(lookup'.reply, lookup'.next, lookup'.password)
  <2> DEFINE set == {c \in DOMAIN m.columns : m.columns[c] # NoPassword}
  <2> SUFFICES ASSUME lookup'.password # NoPassword
               PROVE  LastSet(lookup.reply, lookup.next + 1, lookup'.password)
      BY <1>8
  <2>0. lookup.next \in 1..Len(lookup.reply)
        BY <1>2, <1>4 DEF TypeOK
  <2>1. CASE isRow /\ set # {}
    <3>1. /\ Max(set) \in DOMAIN m.columns /\ lookup'.password = m.columns[Max(set)]
          /\ \A d \in Max(set) + 1..Len(m.columns) : m.columns[d] = NoPassword
          BY <1>6, <1>8, <2>1, RowIsRead
    <3>2. /\ lookup.next \in 1..(lookup.next + 1) - 1
          /\ \A j \in lookup.next + 1..(lookup.next + 1) - 1 : FALSE
          BY <2>0
    <3> HIDE DEF set
    <3> QED BY <2>1, <3>1, <3>2 DEF LastSet
  <2>2. CASE ~(isRow /\ set # {})
    <3>1. lookup'.password = lookup.password
          BY <1>6, <1>8, <2>2, EmptyRow
    <3>2. lookup.phase \notin {"login", "startup"}
          BY <1>2, <3>1 DEF LookupOK
    <3>3. lookup.phase = "rows"
          BY <3>2 DEF ReadReply
    <3>4. m.type = "D" => Range(m.columns) \subseteq {NoPassword}
          BY <1>6, <2>2, <3>3, EmptyRow
    <3>5. PICK i \in 1..lookup.next - 1 :
              /\ lookup.reply[i].type = "D"
              /\ \E c \in DOMAIN lookup.reply[i].columns :
                    /\ lookup.reply[i].columns[c] = lookup.password
                    /\ \A d \in c + 1..Len(lookup.reply[i].columns) :
                          lookup.reply[i].columns[d] = NoPassword
              /\ \A j \in i + 1..lookup.next - 1 : lookup.reply[j].type = "D" =>
                    Range(lookup.reply[j].columns) \subseteq {NoPassword}
          BY <1>2, <3>1 DEF LookupOK, LastSet
    <3>6. ASSUME NEW j \in i + 1..(lookup.next + 1) - 1, lookup.reply[j].type = "D"
          PROVE  Range(lookup.reply[j].columns) \subseteq {NoPassword}
      <4>1. j \in i + 1..lookup.next - 1 \/ j = lookup.next
            BY <2>0
      <4> QED BY <3>4, <3>5, <3>6, <4>1
    <3>7. i \in 1..(lookup.next + 1) - 1
          BY <2>0
    <3> QED BY <3>1, <3>5, <3>6, <3>7 DEF LastSet
  <2> QED BY <2>1, <2>2
<1>11. LookupOK'
  <2>1. phase \in {"login", "startup"} => lookup'.password = NoPassword
        BY <1>2, <1>5, <1>8 DEF LookupOK
  <2> QED BY <1>1, <1>5, <1>8, <1>10, <2>1 DEF LookupOK
<1> QED BY <1>1, <1>9, <1>11 DEF LoginIInv, LoginInv, RefusalIsTold, AdmittedRightly

-----------------------------------------------------------------------------
(* Theorems *)

LEMMA LoginNext ==
    ASSUME LoginIInv, [Next]_vars
    PROVE  LoginIInv'
PROOF
<1>1. CASE UNCHANGED vars
  <2>1. Method' = Method
        BY <1>1, MethodKept DEF Asks, vars
  <2>2. TypeOK'
        BY <1>1, <2>1 DEF vars, LoginIInv, LoginInv, TypeOK, WhoSet
  <2>3. LookupOK'
        BY <1>1 DEF vars, LoginIInv, LookupOK, LastSet
  <2> QED BY <1>1, <2>2, <2>3 DEF vars, LoginIInv, LoginInv, AdmittedRightly, RefusalIsTold
<1>2. CASE FirstSteps
      BY <1>2, FirstStepsKeep
<1> QED BY <1>1, <1>2, HandshakeKeeps, AuthenticateKeeps, AuthenticateScramKeeps,
           PasswordMessageKeeps, CheckKeeps, ReadReplyKeeps, UseLookupKeeps DEF Next, FirstSteps

LEMMA LoginInvariant == Spec => []LoginIInv
PROOF
<1>1. Init => LoginIInv
      BY LoginInit
<1>2. LoginIInv /\ [Next]_vars => LoginIInv'
      BY LoginNext
<1> QED BY <1>1, <1>2, PTL DEF Spec

\* Nobody is admitted but by the method in force and with what it demands.
THEOREM AdmissionIsEarned == Spec => []LoginInv
PROOF
<1>1. LoginIInv => LoginInv
      BY DEF LoginIInv
<1> QED BY <1>1, LoginInvariant, PTL

\* Where the two tests of a rule agree, the first that matches decides.
THEOREM TheFirstMatchDecides == Spec => []FirstMatchDecides
PROOF
<1>1. LoginIInv => FirstMatchDecides
      BY FirstMatch DEF LoginIInv, LoginInv, TypeOK
<1> QED BY <1>1, LoginInvariant, PTL

\* Whoever a rule or a credential kept out was told.
THEOREM RefusalsAreTold == Spec => []RefusalIsTold
PROOF
<1>1. LoginIInv => RefusalIsTold
      BY DEF LoginIInv
<1> QED BY <1>1, LoginInvariant, PTL

=============================================================================
