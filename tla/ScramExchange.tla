---------------------------- MODULE ScramExchange ----------------------------
(***************************************************************************)
(* auth/scram.rs: the two ends in exchanges with each other.  Several      *)
(* exchanges run at once over one network that may lose a message, deliver *)
(* it late or twice, or to an exchange it was not meant for; one password  *)
(* is right, and each client has its own idea of it.                       *)
(*                                                                         *)
(* A message reaches the other object as it was made, or as proxy/mod.rs   *)
(* frames it, which neither of them understands: a client that is held to  *)
(* that framing is refused, whatever its password.                         *)
(***************************************************************************)
EXTENDS ScramTerms

CONSTANTS
    Exchanges,  \* one client and one server each
    Passwords,
    Right       \* the one the servers know

\* A first message is not taken for the lack of one.
ASSUME ExchangeAssumption ==
    /\ Right \in Passwords
    /\ \A x \in Exchanges : NoText \notin {<<"user", <<x, "client">>>>,
                                        <<"user", <<x, "client">>, "length">>}

VARIABLES
    client,    \* the ScramClient of each exchange
    server,    \* the ScramServer of each exchange
    step,      \* how far each client got
    verdict,   \* what each server decided
    network    \* for each kind of message, those ever sent

vars == <<client, server, step, verdict, network>>

Init ==
    /\ client \in {[x \in Exchanges |-> NewClient("user", p[x], <<x, "client">>)] :
                     p \in [Exchanges -> Passwords]}
    /\ server = [x \in Exchanges |-> NewServer(Right, <<x, "server">>, {<<"salt", x>>})]
    /\ step = [x \in Exchanges |-> "new"]
    /\ verdict = [x \in Exchanges |-> "none"]
    /\ network = [kind \in {"client-first", "server-first", "client-final", "server-final"} |-> {}]

Send(kind, m) == network' = [network EXCEPT ![kind] = @ \union {m}]

Begin(x) ==
    /\ step[x] = "new"
    /\ client' = [client EXCEPT ![x] = ClientFirst(@)]
    /\ step' = [step EXCEPT ![x] = "first"]
    /\ Send("client-first", client'[x].bare)
    /\ UNCHANGED <<server, verdict>>

\* A ScramServer is used for one exchange.
Challenge(x, bare) ==
    /\ bare \in network["client-first"] /\ server[x].bare = NoText
    /\ server' = [server EXCEPT ![x] = ServerFirst(@, bare)]
    /\ Send("server-first", server'[x].serverFirst)
    /\ UNCHANGED <<client, step, verdict>>

\* do_scram_server_auth cuts off the mechanism of a SASLInitialResponse and not
\* the length behind it, so that the server signs both ...
WithLength(bare) == <<bare[1], bare[2], "length">>

\* ... and it puts a NUL behind the challenge, so that its last part, the number
\* of iterations, is none.
WithNul(m) == [m EXCEPT !.iterations = 0]

ChallengeFramed(x, bare) ==
    /\ bare \in network["client-first"] /\ server[x].bare = NoText
    /\ server' = [server EXCEPT ![x] = ServerFirst(@, WithLength(bare))]
    /\ Send("server-first", WithNul(server'[x].serverFirst))
    /\ UNCHANGED <<client, step, verdict>>

\* The client answers the challenge or gives up.
Answer(x, m) ==
    /\ m \in network["server-first"] /\ step[x] = "first"
    /\ IF ServerFirstValid(client[x], m)
       THEN /\ client' = [client EXCEPT ![x] = Prepared(ParseServerFirst(@, m))]
            /\ step' = [step EXCEPT ![x] = "final"]
            /\ Send("client-final", ClientFinal(client'[x]))
       ELSE step' = [step EXCEPT ![x] = "failed"] /\ UNCHANGED <<client, network>>
    /\ UNCHANGED <<server, verdict>>

Decide(x, m) ==
    /\ m \in network["client-final"]
    /\ server[x].bare # NoText /\ verdict[x] = "none"
    /\ IF ProofHolds(server[x], m)
       THEN /\ verdict' = [verdict EXCEPT ![x] = "accepted"]
            /\ Send("server-final", Signature(server[x], m))
       ELSE verdict' = [verdict EXCEPT ![x] = "refused"] /\ UNCHANGED network
    /\ UNCHANGED <<client, server, step>>

Verify(x, signature) ==
    /\ signature \in network["server-final"] /\ step[x] = "final"
    /\ step' = [step EXCEPT ![x] = IF ServerVerified(client[x], signature)
                                   THEN "verified" ELSE "failed"]
    /\ UNCHANGED <<client, server, verdict, network>>

Next ==
    \E x \in Exchanges :
        \/ Begin(x)
        \/ \E m \in network["client-first"] : Challenge(x, m) \/ ChallengeFramed(x, m)
        \/ \E m \in network["server-first"] : Answer(x, m)
        \/ \E m \in network["client-final"] : Decide(x, m)
        \/ \E m \in network["server-final"] : Verify(x, m)

Spec == Init /\ [][Next]_vars

-----------------------------------------------------------------------------
(* Properties *)

\* The client whose first message server x answers.
Partner(x, y) == server[x].bare = client[y].bare

\* ScramServer accepts only when the client it challenged has answered that very
\* challenge, read as it was sent, and knows the password.
OnlyTheRight ==
    \A x \in Exchanges : verdict[x] = "accepted" =>
        \E y \in Exchanges : /\ Partner(x, y)
                             /\ client[y].password = Right
                             /\ client[y].serverFirst = server[x].serverFirst

\* A client that has verified the signature has been accepted by the server
\* whose challenge it answered.
VerifiedMeansAccepted ==
    \A y \in Exchanges : step[y] = "verified" =>
        \E x \in Exchanges : /\ verdict[x] = "accepted" /\ Partner(x, y)
                             /\ server[x].serverFirst = client[y].serverFirst

=============================================================================
