------------------------------ MODULE TlsSetup -------------------------------
(***************************************************************************)
(* tls/mod.rs: how a TLS configuration is built anew, from the files and   *)
(* names of the program's configuration, for every connection the proxy    *)
(* accepts from a client or makes to a backend, and what the handshake     *)
(* with the other end comes to.                                            *)
(***************************************************************************)
EXTENDS Integers, FiniteSetsExt, SequencesExt

CONSTANTS
    Suites12, Suites13,  \* the names of parse_cipher_suite, by version
    Lists,               \* tls.ciphers: sequences of names, some of them unknown
    Ends,                \* the other ends considered: versions, suites and certificate
    Absent

Suites == Suites12 \union Suites13
Version(suite) == IF suite \in Suites12 THEN 12 ELSE 13

VARIABLES
    cfg,     \* ciphers, min_protocol_version, and whether a CA is configured
    files,   \* what is in the files now: "good", "unfit" or "missing"
    role,    \* the proxy accepts or connects
    end,     \* the other end
    pc,      \* "new", "built", "session", "failed", "panicked"
    built,   \* the configuration built: versions, suites, whether the CA is trusted
    session  \* version and suite of the session

vars == <<cfg, files, role, end, pc, built, session>>

\* A CA file is unfit when it is PEM, but no certificate rustls can use.
Files == [certificate : {"good", "missing"}, ca : {"good", "unfit", "missing"}]

Nothing == [versions |-> {}, suites |-> {}, ca |-> FALSE]

Init ==
    /\ cfg \in [ciphers : Lists \union {Absent}, min : {Absent, "TLSv1.2", "TLSv1.3", "SSLv3"},
                ca : BOOLEAN]
    /\ files \in Files
    /\ role \in {"accept", "connect"} /\ end \in Ends
    /\ pc = "new" /\ built = Nothing /\ session = <<>>

-----------------------------------------------------------------------------
(* Building the configuration *)

\* build_provider_with_ciphers: one unknown name spoils the list.
AllKnown(list) == Range(list) \subseteq Suites

ListedSuites == IF cfg.ciphers = Absent THEN Suites ELSE Range(cfg.ciphers)

\* parse_protocol_version; the minimum becomes the one version there is.
EnabledVersions ==
    CASE cfg.min = Absent    -> {12, 13}
      [] cfg.min = "TLSv1.2" -> {12}
      [] cfg.min = "TLSv1.3" -> {13}
      [] OTHER               -> {}

\* with_protocol_versions wants a suite for one of the versions.
Compatible == \E s \in ListedSuites : Version(s) \in EnabledVersions

\* A builder that is not given a provider looks for the one installed, and
\* rustls has two to choose from (Cargo.lock) and none installed.
NoProvider == cfg.ciphers = Absent

Parses == cfg.ciphers = Absent \/ AllKnown(cfg.ciphers)

\* load_server_config: every error ends it, and a client verifier takes no
\* provider either.
Accepting ==
    IF files.certificate = "missing" \/ ~Parses \/ EnabledVersions = {} THEN "failed"
    ELSE IF NoProvider THEN "panicked"
    ELSE IF ~Compatible \/ (cfg.ca /\ files.ca # "good") THEN "failed"
    ELSE IF cfg.ca THEN "panicked" ELSE "built"

\* load_client_config: certificates that cannot be added are left out.
Connecting ==
    IF (cfg.ca /\ files.ca = "missing") \/ ~Parses \/ EnabledVersions = {} THEN "failed"
    ELSE IF NoProvider THEN "panicked"
    ELSE IF Compatible THEN "built" ELSE "failed"

Build ==
    /\ pc = "new"
    /\ pc' = IF role = "accept" THEN Accepting ELSE Connecting
    /\ built' = IF pc' # "built" THEN Nothing
                ELSE [versions |-> EnabledVersions, suites |-> ListedSuites,
                      ca |-> cfg.ca /\ files.ca = "good"]
    /\ UNCHANGED <<cfg, files, role, end, session>>

-----------------------------------------------------------------------------
(* The handshake *)

\* A backend must show a certificate of one of the native roots or of the CA.
CertificateAccepted ==
    role = "connect" => \/ end.certificate = "public"
                        \/ end.certificate = "private" /\ built.ca

\* The versions an end enables and has a suite for.
Offered(versions, suites) == versions \intersect {Version(s) : s \in suites}

\* The suites to choose from if the proxy enables these versions: those that
\* both ends have for the highest version of both.
Usable(versions) ==
    LET common == Offered(versions, built.suites) \intersect Offered(end.versions, end.suites)
    IN  {s \in built.suites \intersect end.suites : common # {} /\ Version(s) = Max(common)}

Handshake ==
    /\ pc = "built"
    /\ LET usable == Usable(built.versions)
       IN  IF usable # {} /\ CertificateAccepted
           THEN pc' = "session" /\ \E s \in usable : session' = <<Version(s), s>>
           ELSE pc' = "failed" /\ UNCHANGED session
    /\ UNCHANGED <<cfg, files, role, end, built>>

\* Files are exchanged, and another connection is made.
Again ==
    /\ pc \in {"session", "failed", "panicked"}
    /\ pc' = "new" /\ built' = Nothing /\ session' = <<>>
    /\ files' \in Files
    /\ role' \in {"accept", "connect"} /\ end' \in Ends
    /\ UNCHANGED cfg

Next == Build \/ Handshake \/ Again
Spec == Init /\ [][Next]_vars

-----------------------------------------------------------------------------
(* Properties *)

\* "minimum TLS version" (README.md:435): an end whose certificate is accepted
\* and that has a listed suite for the highest version it shares with those
\* not below the minimum gets its session.
MinimumIsAMinimum ==
    cfg.min # Absent /\ pc = "failed" /\ built # Nothing /\ CertificateAccepted
        => Usable({v \in {12, 13} : \A m \in EnabledVersions : v >= m}) = {}

=============================================================================
