---------------------------- MODULE BackendLogin -----------------------------
(***************************************************************************)
(* proxy/mod.rs, create_backend and do_scram_client_auth: how the proxy    *)
(* opens a backend connection and logs in with an IAM token, against a     *)
(* PostgreSQL server as those functions expect one.                        *)
(*                                                                         *)
(* Only TcpStream::connect is under a timeout.  Time is the age of the     *)
(* attempt, born_at.elapsed(); no tick passes a timer that is due.         *)
(***************************************************************************)
EXTENDS ScramTerms

CONSTANTS
    ConnectTimeout,  \* server_connect_timeout_secs
    DefaultTimeout,  \* 15 in the code
    MaxAge,          \* bound on the age, which stays there
    Fresh, Stale,    \* a token the server accepts, and one that has expired
    Styles           \* how servers conduct SCRAM, see below

BackendAssumption ==
    /\ ConnectTimeout \in Nat /\ DefaultTimeout \in Nat \ {0} /\ MaxAge \in Nat
    /\ ConnectTimeout < MaxAge /\ DefaultTimeout < MaxAge
    /\ Fresh # Stale
    /\ Styles \subseteq {"final", "continue", "terse", "padded"}

VARIABLES
    cfg,     \* connect_with_tls, and whether IAM applies to the pool's user
    pc,      \* where create_backend is
    age,     \* seconds since born_at
    secure,  \* the stream is a TLS session
    scram,   \* the ScramClient
    spent,   \* how the token went out, in the clear or not
    peer,    \* the server: what it asks for, its style, phase and ScramServer
    up,      \* what the server has yet to read
    down     \* what the proxy has yet to read

proxyVars == <<pc, secure, scram, spent>>
vars      == <<cfg, proxyVars, age, peer, up, down>>

Ended == {"done", "failed"}

(* A server ends SCRAM with AuthenticationSASLFinal, as do_scram_server_auth *)
(* does ("final"), with another SASLContinue ("continue"), or with nothing   *)
(* but AuthenticationOk ("terse"); one that is "padded" writes base64 with   *)
(* padding and wants its own nonce back.                                     *)
Asks == {"nothing", "cleartext", "md5", "sasl", "other mechanism", "gss"}

Init ==
    /\ cfg \in [tls : BOOLEAN, iam : BOOLEAN]
    /\ pc = "connecting" /\ age = 0 /\ secure = FALSE
    /\ scram = NoText /\ spent = "not"
    /\ peer \in [asks : Asks, style : Styles, tls : BOOLEAN, phase : {"start"},
                 scram : {NewServer(Fresh, <<"server">>, {<<"salt">>})}]
    /\ up = <<>> /\ down = <<>>

-----------------------------------------------------------------------------
(* Messages: <<type, what it carries>> *)

Auth(code) == <<"R", code>>

\* parse_auth_request
AuthRequest(code) ==
    CASE code = 0  -> "Ok"
      [] code = 3  -> "CleartextPassword"
      [] code = 5  -> "MD5Password"
      [] code = 10 -> "Sasl"
      [] code = 11 -> "SaslContinue"
      [] OTHER     -> "Unknown"

Is(m, request) == m[1] = "R" /\ AuthRequest(m[2]) = request

-----------------------------------------------------------------------------
(* The server *)

PeerOnly == UNCHANGED <<cfg, proxyVars, age>>

Says(msgs) == down' = down \o msgs

\* What the server answers the startup message with, perhaps after a notice.
Question ==
    CASE peer.asks = "nothing"         -> Auth(0)
      [] peer.asks = "cleartext"       -> Auth(3)
      [] peer.asks = "md5"             -> Auth(5)
      [] peer.asks = "sasl"            -> <<"R", 10, {"SCRAM-SHA-256"}>>
      [] peer.asks = "other mechanism" -> <<"R", 10, {"OAUTHBEARER"}>>
      [] peer.asks = "gss"             -> Auth(7)

PeerAsks ==
    /\ peer.phase = "start" /\ up # <<>>
    /\ up' = <<>>
    /\ \E notice \in {<<>>, <<<<"N">>>>} : Says(notice \o <<Question>>)
    /\ peer' = [peer EXCEPT !.phase = IF peer.asks = "nothing" THEN "authed" ELSE "asked"]
    /\ PeerOnly

Refuse == Says(<<<<"E">>>>) /\ peer' = [peer EXCEPT !.phase = "closed"]

PeerJudges ==
    /\ peer.phase = "asked" /\ peer.asks # "sasl" /\ up # <<>>
    /\ up' = <<>>
    /\ IF up = <<Fresh>>
       THEN Says(<<Auth(0)>>) /\ peer' = [peer EXCEPT !.phase = "authed"]
       ELSE Refuse
    /\ PeerOnly

PeerChallenges ==
    /\ peer.phase = "asked" /\ peer.asks = "sasl" /\ up # <<>>
    /\ up' = <<>>
    /\ LET s == ServerFirst(peer.scram, up[1])
           m == IF peer.style = "padded"
                THEN [s.serverFirst EXCEPT !.salt = B64Pad(s.salt)]
                ELSE s.serverFirst
       IN  /\ Says(<<<<"R", 11, m>>>>)
           /\ peer' = [peer EXCEPT !.phase = "challenged", !.scram = s]
    /\ PeerOnly

PeerDecides ==
    /\ peer.phase = "challenged" /\ up # <<>>
    /\ up' = <<>>
    /\ LET m == up[1] IN
       IF /\ ProofHolds(peer.scram, m)
          /\ peer.style = "padded" => m.nonce = peer.scram.serverFirst.nonce
       THEN /\ LET signed == <<"R", IF peer.style = "continue" THEN 11 ELSE 12,
                               Signature(peer.scram, m)>>
               IN  Says(IF peer.style = "terse" THEN <<Auth(0)>> ELSE <<signed, Auth(0)>>)
            /\ peer' = [peer EXCEPT !.phase = "authed"]
       ELSE Refuse
    /\ PeerOnly

\* ParameterStatus, BackendKeyData, ReadyForQuery.
PeerReady ==
    /\ peer.phase = "authed"
    /\ Says(<<<<"S">>, <<"K">>, <<"Z">>>>)
    /\ peer' = [peer EXCEPT !.phase = "idle"]
    /\ UNCHANGED up /\ PeerOnly

PeerCloses ==
    /\ peer.phase \notin {"closed", "idle"}
    /\ peer' = [peer EXCEPT !.phase = "closed"]
    /\ UNCHANGED <<up, down>> /\ PeerOnly

-----------------------------------------------------------------------------
(* create_backend, up to the startup message *)

\* A timeout of 0 stands for the default.
Limit == IF ConnectTimeout > 0 THEN ConnectTimeout ELSE DefaultTimeout

Unheard == UNCHANGED <<cfg, age, peer>>

Fail ==
    /\ pc' = "failed"
    /\ UNCHANGED <<secure, scram, spent, up, down>> /\ Unheard

\* write_startup_message
SendStartup ==
    /\ pc' = "auth" /\ up' = <<"startup">>
    /\ UNCHANGED <<scram, spent, down>> /\ Unheard

Connect ==
    /\ pc = "connecting"
    /\ \/ cfg.tls /\ pc' = "ssl" /\ UNCHANGED <<secure, scram, spent, up, down>> /\ Unheard
       \/ ~cfg.tls /\ UNCHANGED secure /\ SendStartup
       \/ Fail

ConnectDue == pc = "connecting" /\ age >= Limit

TimeOut == ConnectDue /\ Fail

\* ssl_request, and tls_connect, which may fail.
Ssl ==
    /\ pc = "ssl"
    /\ \/ peer.tls /\ secure' = TRUE /\ SendStartup
       \/ Fail

-----------------------------------------------------------------------------
(* The auth loop *)

\* read_pg_message takes the message at the head.
Take(place) ==
    /\ pc' = place /\ down' = Tail(down)
    /\ UNCHANGED <<secure, scram, spent, up>> /\ Unheard

\* Mutant: the token is sent to whoever asks for a password.
SendAnyway(body) ==
    /\ up' = <<body>>
    /\ spent' = IF secure THEN "secure" ELSE "clear"
    /\ UNCHANGED <<cfg, age, peer, secure>>

Send(body) ==
    /\ cfg.iam
    /\ up' = <<body>>
    /\ spent' = IF secure THEN "secure" ELSE "clear"
    /\ UNCHANGED <<cfg, age, peer, secure>>

\* A token from the cache or the provider, which may be stale, or fail.
Token == {Fresh, Stale}

Skipped(m) == m[1] \notin {"R", "E"}

AuthLoop ==
    /\ pc = "auth" /\ down # <<>>
    /\ LET m == Head(down) IN
       \/ Is(m, "Ok") /\ Take("startup")
       \/ Skipped(m) /\ Take("auth")
       \/ /\ \/ Is(m, "CleartextPassword") \/ Is(m, "MD5Password")
          /\ \E token \in Token : Send(token)
          /\ pc' = "auth" /\ down' = Tail(down) /\ UNCHANGED scram
       \/ /\ Is(m, "Sasl") /\ "SCRAM-SHA-256" \in m[3]
          /\ \E token \in Token :
               LET c == ClientFirst(NewClient("iam", token, <<"client">>))
               IN  scram' = c /\ Send(c.bare)
          /\ pc' = "challenge" /\ down' = Tail(down)
       \/ /\ \/ m[1] = "E" \/ Is(m, "SaslContinue") \/ Is(m, "Unknown")
             \* no IAM user, no common mechanism, or no token to be had
             \/ Is(m, "CleartextPassword") \/ Is(m, "MD5Password") \/ Is(m, "Sasl")
          /\ Take("failed")

\* do_scram_client_auth: the challenge.
Challenged ==
    /\ pc = "challenge" /\ down # <<>>
    /\ LET m == Head(down) IN
       IF Is(m, "SaslContinue") /\ ServerFirstValid(scram, m[3])
       THEN /\ scram' = Prepared(ParseServerFirst(scram, m[3]))
            /\ Send(ClientFinal(scram'))
            /\ pc' = "final" /\ down' = Tail(down)
       ELSE Take("failed")

\* Until AuthenticationOk; what is not 'R' is passed over, an ErrorResponse too.
FinalLoop ==
    /\ pc = "final" /\ down # <<>>
    /\ LET m == Head(down) IN
       Take(CASE m[1] # "R" -> "final"
              [] Is(m, "Ok") -> "startup"
              [] Is(m, "SaslContinue") ->
                   IF ServerVerified(scram, m[3]) THEN "final" ELSE "failed"
              [] OTHER -> "failed")

\* Mutant: the connection is handed out as soon as the login is through.
StartupUnread ==
    /\ pc = "startup" /\ down # <<>>
    /\ Take("done")

\* Everything up to ReadyForQuery is dropped.
Startup ==
    /\ pc = "startup" /\ down # <<>>
    /\ Take(IF Head(down) = <<"Z">> THEN "done" ELSE "startup")

\* Mutant: the loop after the client's final message goes on reading.
EofBeforeFinal ==
    /\ pc \in {"auth", "challenge", "startup"}
    /\ peer.phase = "closed" /\ down = <<>>
    /\ Fail

\* The end of the stream.
Eof ==
    /\ pc \in {"auth", "challenge", "final", "startup"}
    /\ peer.phase = "closed" /\ down = <<>>
    /\ Fail

-----------------------------------------------------------------------------
(* Specification *)

Tick ==
    /\ pc \notin Ended /\ ~ConnectDue
    /\ age' = IF age < MaxAge THEN age + 1 ELSE age
    /\ UNCHANGED <<cfg, proxyVars, peer, up, down>>

\* What the handler does without the network's help; a TLS handshake ends when
\* the stream does.
Reading ==
    \/ AuthLoop \/ Challenged \/ FinalLoop \/ Startup \/ Eof
    \/ Ssl /\ peer.phase = "closed"

Proxy == Connect \/ TimeOut \/ Ssl \/ AuthLoop \/ Challenged \/ FinalLoop \/ Startup \/ Eof
Peer  == PeerAsks \/ PeerJudges \/ PeerChallenges \/ PeerDecides \/ PeerReady \/ PeerCloses

Next == Proxy \/ Peer \/ Tick

Spec == Init /\ [][Next]_vars

\* Timers and the proxy's task run; the network and the server owe nothing, but
\* a stream that was closed says so.
FairSpec == Spec /\ WF_vars(Tick) /\ WF_vars(TimeOut) /\ WF_vars(Reading)

-----------------------------------------------------------------------------
(* Properties *)

TypeOK ==
    /\ pc \in {"connecting", "ssl", "auth", "challenge", "final", "startup"} \union Ended
    /\ age \in 0..MaxAge /\ secure \in BOOLEAN /\ spent \in {"not", "clear", "secure"}
    /\ peer.phase \in {"start", "asked", "challenged", "authed", "idle", "closed"}
    /\ Len(up) <= 1
    /\ pc = "connecting" => up = <<>> /\ down = <<>>
    /\ pc = "connecting" => age <= Limit

\* A backend that is handed out has logged the proxy in, waits for a query, and
\* nothing it said before is left to be taken for an answer.
HandedOutReady ==
    pc = "done" => peer.phase = "idle" /\ up = <<>> /\ down = <<>>

\* The attempt is within its limits, and what it hands out is ready.
LoginInv == TypeOK /\ HandedOutReady

\* The token leaves only for the IAM user, and only in a TLS session when the
\* configuration asks for TLS to the backend.
TokenKept ==
    spent # "not" => cfg.iam /\ (cfg.tls => spent = "secure")

\* An attempt that has waited a second for its connection does not wait for
\* ever, because of the timer; and whatever a server has said before it closes,
\* and however much of it nobody expects, the attempt comes to an end after it.
AttemptEnds ==
    /\ pc = "connecting" /\ age > 0 ~> pc # "connecting"
    /\ peer.phase = "closed" ~> pc \in Ended

=============================================================================
