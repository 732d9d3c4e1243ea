---------------------------- MODULE BackendProofs ----------------------------
(***************************************************************************)
(* Theorems about ScramExchange, for any number of exchanges and any       *)
(* passwords, over the same network that loses, repeats and misdelivers;   *)
(* and about BackendLogin, for any limits and tokens.                      *)
(*                                                                         *)
(* Hashes and MACs are equal only when what went into them is.  From the   *)
(* proof a server accepts follow thereby the keys and the signed message   *)
(* of the client that made it, and from the signature those of the server. *)
(*                                                                         *)
(* Proxy and backend take turns until one of them gives up: what the       *)
(* backend has said is the question of its phase, and once it has let the  *)
(* proxy in nothing is left that the proxy would answer.                   *)
(*                                                                         *)
(* The cache of tokens has its proofs in TokenProofs.                      *)
(***************************************************************************)
EXTENDS BackendAuth, SequenceTheorems, TLAPS

-----------------------------------------------------------------------------
(* Terms *)

LEMMA HmacInjective ==
    ASSUME NEW k1, NEW d1, NEW k2, NEW d2, Hmac(k1, d1) = Hmac(k2, d2)
    PROVE  k1 = k2 /\ d1 = d2
PROOF
<1>1. <<"hmac", k1, d1>> \in Hmac(k2, d2)
      BY DEF Hmac
<1>2. <<"hmac", k1, d1>> = <<"hmac", k2, d2>>
      BY <1>1 DEF Hmac
<1> QED BY <1>2

LEMMA ShaInjective ==
    ASSUME NEW a, NEW b, Sha256(a) = Sha256(b)
    PROVE  a = b
PROOF
<1>1. <<"sha256", a>> \in Sha256(b)
      BY DEF Sha256
<1>2. <<"sha256", a>> = <<"sha256", b>>
      BY <1>1 DEF Sha256
<1> QED BY <1>2

LEMMA SaltedInjective ==
    ASSUME NEW p, NEW s, NEW i, NEW q, NEW t, NEW j, Salted(p, s, i) = Salted(q, t, j)
    PROVE  p = q /\ s = t /\ i = j
PROOF
<1>1. <<"pbkdf2", p, s, i>> \in Salted(q, t, j)
      BY DEF Salted
<1>2. <<"pbkdf2", p, s, i>> = <<"pbkdf2", q, t, j>>
      BY <1>1 DEF Salted
<1> QED BY <1>2

LEMMA MessageInjective ==
    ASSUME NEW b1, NEW f1, NEW n1, NEW b2, NEW f2, NEW n2,
           AuthMessage(b1, f1, n1) = AuthMessage(b2, f2, n2)
    PROVE  b1 = b2 /\ f1 = f2 /\ n1 = n2
PROOF
BY DEF AuthMessage

\* A key and the MAC of a message are never the same term.
LEMMA KeyIsNoMac ==
    ASSUME NEW salted, NEW k, NEW b, NEW f, NEW n
    PROVE  ClientKey(salted) # Hmac(k, AuthMessage(b, f, n))
PROOF
<1>1. <<"Client Key">> # <<b, f, n>>
      OBVIOUS
<1> QED BY <1>1, HmacInjective DEF ClientKey, AuthMessage

\* Each is one term.
LEMMA OneTerm ==
    ASSUME NEW k, NEW d
    PROVE  \E e : Hmac(k, d) = {e}
PROOF
BY DEF Hmac

\* Only the operand put in comes off a xor.
LEMMA XorReveals ==
    ASSUME NEW c, NEW h, NEW c2, NEW h2, c2 # h2, c2 # h,
           XorBytes(XorBytes({c2}, {h2}), {h}) = {c}
    PROVE  c = c2 /\ h = h2
PROOF
<1>1. XorBytes({c2}, {h2}) = {c2, h2}
      BY DEF XorBytes
<1>2. XorBytes({c2, h2}, {h}) = ({c2, h2} \ {h}) \union ({h} \ {c2, h2})
      BY DEF XorBytes
<1>3. c2 \in {c} /\ (h2 # h => h2 \in {c})
      BY <1>1, <1>2
<1> QED BY <1>1, <1>2, <1>3

\* A proof that holds was made with the server's keys, of its own message.
LEMMA ProofReveals ==
    ASSUME NEW s, NEW c, "message" \in DOMAIN c, ProofHolds(s, ClientFinal(c))
    PROVE  /\ c.salted = s.salted
           /\ AuthMessage(c.bare, c.serverFirst, c.nonce)
                = AuthMessage(s.bare, s.serverFirst, c.nonce)
PROOF
<1> DEFINE cm == AuthMessage(c.bare, c.serverFirst, c.nonce)
           sm == AuthMessage(s.bare, s.serverFirst, c.nonce)
<1>1. PICK ck : ClientKey(c.salted) = {ck}
      BY OneTerm DEF ClientKey
<1>2. PICK sk : ClientKey(s.salted) = {sk}
      BY OneTerm DEF ClientKey
<1>3. PICK ch : Hmac(StoredKey(c.salted), cm) = {ch}
      BY OneTerm
<1>4. PICK sh : Hmac(StoredKey(s.salted), sm) = {sh}
      BY OneTerm
<1>5. ck # ch /\ ck # sh
      BY <1>1, <1>3, <1>4, KeyIsNoMac
<1>6. /\ ClientFinal(c).nonce = c.nonce
      /\ Unb64(ClientFinal(c).proof) = XorBytes({ck}, {ch})
      BY <1>1, <1>3 DEF ClientFinal, Prepared, B64, Unb64
<1>7. Sha256(XorBytes(XorBytes({ck}, {ch}), {sh})) = Sha256({sk})
      BY <1>2, <1>4, <1>6 DEF ProofHolds, StoredKey
<1>8. XorBytes(XorBytes({ck}, {ch}), {sh}) = {sk}
      BY <1>7, ShaInjective
<1>9. sk = ck /\ sh = ch
      BY <1>5, <1>8, XorReveals
<1>10. c.salted = s.salted
  <2>1. Hmac(c.salted, <<"Client Key">>) = Hmac(s.salted, <<"Client Key">>)
        BY <1>1, <1>2, <1>9 DEF ClientKey
  <2> QED BY <2>1, HmacInjective
<1>11. cm = sm
       BY <1>3, <1>4, <1>9, HmacInjective
<1> QED BY <1>10, <1>11

\* A signature was made with the keys that check it, of the same message.
LEMMA SignatureReveals ==
    ASSUME NEW salted1, NEW message1, NEW salted2, NEW message2,
           B64(Hmac(ServerKey(salted1), message1)) = B64(Hmac(ServerKey(salted2), message2))
    PROVE  message1 = message2
PROOF
<1>1. Hmac(ServerKey(salted1), message1) = Hmac(ServerKey(salted2), message2)
      BY DEF B64
<1> QED BY <1>1, HmacInjective

-----------------------------------------------------------------------------
(* The inductive invariant *)

First(y) == <<"user", <<y, "client">>>>

\* y has answered a challenge, which it keeps.
Answered(y) ==
    /\ step[y] \notin {"new", "first"}
    /\ client[y].salted = Salted(client[y].password, Unb64(client[y].serverFirst.salt),
                                 client[y].serverFirst.iterations)
    /\ client[y].message
         = AuthMessage(client[y].bare, client[y].serverFirst, client[y].nonce)

ClientOK(y) ==
    /\ DOMAIN client[y] = {"user", "password", "nonce", "bare", "serverFirst", "salted", "message"}
    /\ client[y].user = "user" /\ client[y].nonce = <<y, "client">>
    /\ step[y] # "new" => client[y].bare = First(y)
    /\ client[y].message = NoText \/ Answered(y)
    /\ step[y] = "final" => Answered(y)

\* x has challenged whoever sent it a first message, and keeps to that.
ServerOK(x) ==
    /\ DOMAIN server[x] = {"password", "nonce", "salt", "bare", "serverFirst", "salted"}
    /\ server[x].password = Right
    /\ server[x].bare # NoText =>
          /\ server[x].serverFirst = ServerFirstMessage(server[x], server[x].bare)
          /\ server[x].salted = Salted(Right, server[x].salt, 4096)

\* x has accepted the proof of y.
Accepted(x, y) ==
    /\ verdict[x] = "accepted" /\ server[x].bare # NoText
    /\ step[y] \notin {"new", "first"}
    /\ Partner(x, y) /\ client[y].password = Right
    /\ client[y].serverFirst = server[x].serverFirst

NetworkOK ==
    /\ DOMAIN network = {"client-first", "server-first", "client-final", "server-final"}
    /\ \A m \in network["client-first"] : \E y \in Exchanges : m = First(y)
    /\ \A m \in network["client-final"] :
          \E y \in Exchanges : Answered(y) /\ m = ClientFinal(client[y])
    /\ \A m \in network["server-final"] :
          \E x \in Exchanges :
             /\ verdict[x] = "accepted" /\ server[x].bare # NoText
             /\ \E n : m = B64(Hmac(ServerKey(server[x].salted),
                                    AuthMessage(server[x].bare, server[x].serverFirst, n)))

ExchangeInv ==
    /\ DOMAIN client = Exchanges /\ DOMAIN server = Exchanges
    /\ DOMAIN step = Exchanges /\ DOMAIN verdict = Exchanges
    /\ \A x \in Exchanges : ClientOK(x) /\ ServerOK(x)
    /\ NetworkOK
    /\ \A x \in Exchanges : verdict[x] = "accepted" => \E y \in Exchanges : Accepted(x, y)
    /\ VerifiedMeansAccepted

LEMMA ExchangeInit ==
    ASSUME Init
    PROVE  ExchangeInv
PROOF
<1>1. PICK p \in [Exchanges -> Passwords] :
          client = [x \in Exchanges |-> NewClient("user", p[x], <<x, "client">>)]
      BY DEF Init
<1>2. ASSUME NEW x \in Exchanges PROVE ClientOK(x) /\ ServerOK(x)
      BY <1>1 DEF Init, ClientOK, ServerOK, NewClient, NewServer
<1>3. NetworkOK
      BY DEF Init, NetworkOK
<1> QED BY <1>1, <1>2, <1>3 DEF Init, ExchangeInv, VerifiedMeansAccepted

-----------------------------------------------------------------------------
(* What is settled stays so *)

\* A client that has answered, a server that has challenged and a verdict do
\* not change any more.
Settles ==
    /\ \A y \in Exchanges : step[y] \notin {"new", "first"} =>
          client'[y] = client[y] /\ step'[y] \notin {"new", "first"}
    /\ \A x \in Exchanges : server[x].bare # NoText => server'[x] = server[x]
    /\ \A x \in Exchanges : verdict[x] = "accepted" => verdict'[x] = "accepted"

LEMMA SettledStays ==
    ASSUME Settles, NEW x \in Exchanges, NEW y \in Exchanges
    PROVE  /\ Answered(y) => Answered(y)' /\ ClientFinal(client'[y]) = ClientFinal(client[y])
           /\ Accepted(x, y) => Accepted(x, y)'
PROOF
BY DEF Settles, Answered, Accepted, Partner

\* The step is one of exchange x.
OnlyMoves(x) ==
    /\ DOMAIN client' = Exchanges /\ DOMAIN server' = Exchanges
    /\ DOMAIN step' = Exchanges /\ DOMAIN verdict' = Exchanges
    /\ DOMAIN network' = DOMAIN network
    /\ \A y \in Exchanges : y # x =>
          /\ client'[y] = client[y] /\ server'[y] = server[y]
          /\ step'[y] = step[y] /\ verdict'[y] = verdict[y]

\* What it adds to the network is as it should be.
SendsWell(x) ==
    /\ \A m \in network'["client-first"] : m \in network["client-first"] \/ m = First(x)
    /\ \A m \in network'["client-final"] :
          \/ m \in network["client-final"]
          \/ Answered(x)' /\ m = ClientFinal(client'[x])
    /\ \A m \in network'["server-final"] :
          \/ m \in network["server-final"]
          \/ /\ verdict'[x] = "accepted" /\ server'[x].bare # NoText
             /\ \E n : m = B64(Hmac(ServerKey(server'[x].salted),
                               AuthMessage(server'[x].bare, server'[x].serverFirst, n)))

\* A new verdict is as it should be, on either side.
DecidesWell(x) ==
    /\ verdict'[x] = "accepted" /\ verdict[x] # "accepted" =>
          \E y \in Exchanges : Accepted(x, y)'
    /\ step'[x] = "verified" /\ step[x] # "verified" =>
          \E y \in Exchanges : /\ verdict'[y] = "accepted" /\ Partner(y, x)'
                               /\ server'[y].serverFirst = client'[x].serverFirst

\* So the whole invariant stays but for what a step adds.
LEMMA InvStays ==
    ASSUME ExchangeInv, Settles, NEW x \in Exchanges,
           OnlyMoves(x), SendsWell(x), DecidesWell(x), ClientOK(x)', ServerOK(x)'
    PROVE  ExchangeInv'
PROOF
<1> USE DEF OnlyMoves
<1>1. ASSUME NEW y \in Exchanges PROVE ClientOK(y)' /\ ServerOK(y)'
  <2>1. CASE y = x
        BY <2>1
  <2>2. CASE y # x
        BY <2>2 DEF ExchangeInv, ClientOK, ServerOK, Answered
  <2> QED BY <2>1, <2>2
<1>2. ASSUME NEW m \in network'["client-first"]
      PROVE  \E y \in Exchanges : m = First(y)
      BY DEF ExchangeInv, NetworkOK, SendsWell
<1>3. ASSUME NEW m \in network'["client-final"]
      PROVE  \E y \in Exchanges : Answered(y)' /\ m = ClientFinal(client'[y])
  <2>1. CASE m \in network["client-final"]
    <3>1. PICK y \in Exchanges : Answered(y) /\ m = ClientFinal(client[y])
          BY <2>1 DEF ExchangeInv, NetworkOK
    <3> QED BY <3>1, SettledStays
  <2> QED BY <1>3, <2>1 DEF SendsWell
<1>4. ASSUME NEW m \in network'["server-final"]
      PROVE  \E y \in Exchanges :
                /\ verdict'[y] = "accepted" /\ server'[y].bare # NoText
                /\ \E n : m = B64(Hmac(ServerKey(server'[y].salted),
                                AuthMessage(server'[y].bare, server'[y].serverFirst, n)))
  <2>1. CASE m \in network["server-final"]
    <3>1. PICK y \in Exchanges :
              /\ verdict[y] = "accepted" /\ server[y].bare # NoText
              /\ \E n : m = B64(Hmac(ServerKey(server[y].salted),
                                AuthMessage(server[y].bare, server[y].serverFirst, n)))
          BY <2>1 DEF ExchangeInv, NetworkOK
    <3>2. verdict'[y] = "accepted" /\ server'[y] = server[y]
          BY <3>1 DEF Settles
    <3> QED BY <3>1, <3>2
  <2> QED BY <1>4, <2>1 DEF SendsWell
<1>5. NetworkOK'
  <2>1. DOMAIN network' = {"client-first", "server-first", "client-final", "server-final"}
        BY DEF ExchangeInv, NetworkOK
  <2> QED BY <1>2, <1>3, <1>4, <2>1 DEF NetworkOK
<1>6. ASSUME NEW z \in Exchanges, verdict'[z] = "accepted"
      PROVE  \E y \in Exchanges : Accepted(z, y)'
  <2>1. CASE verdict[z] = "accepted"
    <3>1. PICK y \in Exchanges : Accepted(z, y)
          BY <2>1 DEF ExchangeInv
    <3> QED BY <3>1, SettledStays
  <2>2. CASE verdict[z] # "accepted"
        BY <1>6, <2>2 DEF DecidesWell
  <2> QED BY <2>1, <2>2
<1>7. ASSUME NEW z \in Exchanges, step'[z] = "verified"
      PROVE  \E y \in Exchanges : /\ verdict'[y] = "accepted" /\ Partner(y, z)'
                                  /\ server'[y].serverFirst = client'[z].serverFirst
  <2>1. CASE step[z] = "verified"
    <3>1. PICK y \in Exchanges : /\ verdict[y] = "accepted" /\ Partner(y, z)
                                 /\ server[y].serverFirst = client[z].serverFirst
          BY <2>1 DEF ExchangeInv, VerifiedMeansAccepted
    <3>2. server[y].bare # NoText
          BY <3>1 DEF ExchangeInv, Accepted
    <3> QED BY <2>1, <3>1, <3>2 DEF Settles, Partner
  <2>2. CASE step[z] # "verified"
        BY <1>7, <2>2 DEF DecidesWell
  <2> QED BY <2>1, <2>2
<1>8. VerifiedMeansAccepted'
      BY <1>7 DEF VerifiedMeansAccepted
<1> QED BY <1>1, <1>5, <1>6, <1>8 DEF ExchangeInv

-----------------------------------------------------------------------------
(* The steps *)

LEMMA BeginKeeps ==
    ASSUME ExchangeInv, NEW x \in Exchanges, Begin(x)
    PROVE  ExchangeInv'
PROOF
<1> USE DEF Begin, ExchangeInv
<1>1. /\ DOMAIN client' = Exchanges /\ DOMAIN step' = Exchanges
      /\ DOMAIN network' = DOMAIN network
      /\ step'[x] = "first" /\ client'[x] = ClientFirst(client[x])
      /\ UNCHANGED <<server, verdict>>
      /\ \A y \in Exchanges : y # x => client'[y] = client[y] /\ step'[y] = step[y]
      BY DEF Send
<1>2. Settles
      BY <1>1 DEF Settles
<1>3. ClientOK(x) /\ ~Answered(x)
      BY DEF Answered
<1>4. client'[x].bare = First(x) /\ ClientOK(x)'
      BY <1>1, <1>3 DEF ClientOK, ClientFirst, First
<1>5. ServerOK(x)'
      BY <1>1 DEF ServerOK
<1>6. network' = [network EXCEPT !["client-first"] = @ \union {First(x)}]
      BY <1>4 DEF Send
<1>7. /\ network'["client-first"] = network["client-first"] \union {First(x)}
      /\ network'["client-final"] = network["client-final"]
      /\ network'["server-final"] = network["server-final"]
      BY <1>6 DEF NetworkOK
<1>8. OnlyMoves(x) /\ SendsWell(x) /\ DecidesWell(x)
      BY <1>1, <1>7 DEF OnlyMoves, SendsWell, DecidesWell
<1> HIDE DEF ExchangeInv
<1> QED BY <1>2, <1>4, <1>5, <1>8, InvStays

\* Whatever the server read and however its answer is framed.
LEMMA ChallengeKeeps ==
    ASSUME ExchangeInv, NEW x \in Exchanges,
           NEW first \in network["client-first"],
           Challenge(x, first) \/ ChallengeFramed(x, first)
    PROVE  ExchangeInv'
PROOF
<1>0. PICK bare, m :
          /\ server[x].bare = NoText
          /\ server' = [server EXCEPT ![x] = ServerFirst(@, bare)]
          /\ Send("server-first", m)
          /\ UNCHANGED <<client, step, verdict>>
      BY Zenon DEF Challenge, ChallengeFramed
<1> USE <1>0 DEF ExchangeInv
<1>1. /\ DOMAIN server' = Exchanges /\ DOMAIN network' = DOMAIN network
      /\ server'[x] = ServerFirst(server[x], bare)
      /\ UNCHANGED <<client, step, verdict>>
      /\ \A y \in Exchanges : y # x => server'[y] = server[y]
      BY DEF Send
<1>2. Settles
      BY <1>1 DEF Settles
<1>3. ClientOK(x)'
      BY <1>1 DEF ClientOK, Answered
<1>4. ServerOK(x)'
  <2>1. ServerOK(x)
        OBVIOUS
  <2>2. /\ DOMAIN server'[x] = DOMAIN server[x]
        /\ server'[x].password = Right /\ server'[x].bare = bare
        /\ server'[x].nonce = server[x].nonce /\ server'[x].salt = server[x].salt
        /\ server'[x].serverFirst = ServerFirstMessage(server[x], bare)
        /\ server'[x].salted = Salted(Right, server[x].salt, 4096)
        BY <1>1, <2>1 DEF ServerOK, ServerFirst
  <2>3. ServerFirstMessage(server'[x], bare) = ServerFirstMessage(server[x], bare)
    <3>1. server'[x].nonce = server[x].nonce /\ server'[x].salt = server[x].salt
          BY <2>2
    <3> QED BY <3>1, Zenon DEF ServerFirstMessage
  <2> QED BY <2>1, <2>2, <2>3 DEF ServerOK
<1>5. network' = [network EXCEPT !["server-first"] = @ \union {m}]
      BY DEF Send
<1>6. /\ network'["client-first"] = network["client-first"]
      /\ network'["client-final"] = network["client-final"]
      /\ network'["server-final"] = network["server-final"]
      BY <1>5 DEF NetworkOK
<1>7. OnlyMoves(x) /\ SendsWell(x) /\ DecidesWell(x)
      BY <1>1, <1>6 DEF OnlyMoves, SendsWell, DecidesWell
<1> HIDE DEF ExchangeInv
<1> QED BY <1>2, <1>3, <1>4, <1>7, InvStays

LEMMA AnswerKeeps ==
    ASSUME ExchangeInv, NEW x \in Exchanges, NEW m \in network["server-first"], Answer(x, m)
    PROVE  ExchangeInv'
PROOF
<1> USE DEF Answer, ExchangeInv
<1>0. ClientOK(x) /\ ~Answered(x) /\ step[x] = "first" /\ client[x].bare = First(x)
      BY DEF ClientOK, Answered
<1>1. CASE ServerFirstValid(client[x], m)
  <2>1. /\ DOMAIN client' = Exchanges /\ DOMAIN step' = Exchanges
        /\ DOMAIN network' = DOMAIN network
        /\ step'[x] = "final" /\ client'[x] = Prepared(ParseServerFirst(client[x], m))
        /\ UNCHANGED <<server, verdict>>
        /\ \A y \in Exchanges : y # x => client'[y] = client[y] /\ step'[y] = step[y]
        BY <1>1 DEF Send
  <2>2. Settles
        BY <1>0, <2>1 DEF Settles
  <2>3. Answered(x)' /\ ClientOK(x)'
        BY <1>0, <2>1 DEF ClientOK, Answered, Prepared, ParseServerFirst, AuthMessage, First
  <2>4. ServerOK(x)'
        BY <2>1 DEF ServerOK
  <2>5. network' = [network EXCEPT !["client-final"] = @ \union {ClientFinal(client'[x])}]
        BY <1>1 DEF Send
  <2>6. /\ network'["client-first"] = network["client-first"]
        /\ network'["client-final"] = network["client-final"] \union {ClientFinal(client'[x])}
        /\ network'["server-final"] = network["server-final"]
        BY <2>5 DEF NetworkOK
  <2>7. OnlyMoves(x) /\ SendsWell(x) /\ DecidesWell(x)
        BY <2>1, <2>3, <2>6 DEF OnlyMoves, SendsWell, DecidesWell
  <2> HIDE DEF ExchangeInv
  <2> QED BY <2>2, <2>3, <2>4, <2>7, InvStays
<1>2. CASE ~ServerFirstValid(client[x], m)
  <2>1. /\ DOMAIN step' = Exchanges /\ step'[x] = "failed"
        /\ UNCHANGED <<client, server, verdict, network>>
        /\ \A y \in Exchanges : y # x => step'[y] = step[y]
        BY <1>2
  <2>2. Settles
        BY <2>1 DEF Settles
  <2>3. ClientOK(x)' /\ ServerOK(x)'
        BY <1>0, <2>1 DEF ClientOK, ServerOK
  <2>4. OnlyMoves(x) /\ SendsWell(x) /\ DecidesWell(x)
        BY <2>1 DEF OnlyMoves, SendsWell, DecidesWell
  <2> HIDE DEF ExchangeInv
  <2> QED BY <2>2, <2>3, <2>4, InvStays
<1> QED BY <1>1, <1>2

\* A proof that holds comes from the client that was challenged, with the right
\* password.
LEMMA DecideAccepts ==
    ASSUME ExchangeInv, NEW x \in Exchanges, server[x].bare # NoText,
           NEW m \in network["client-final"], ProofHolds(server[x], m)
    PROVE  \E y \in Exchanges : /\ step[y] \notin {"new", "first"}
                                /\ Partner(x, y) /\ client[y].password = Right
                                /\ client[y].serverFirst = server[x].serverFirst
PROOF
<1>1. PICK y \in Exchanges : Answered(y) /\ m = ClientFinal(client[y])
      BY DEF ExchangeInv, NetworkOK
<1>2. ClientOK(y) /\ ServerOK(x)
      BY DEF ExchangeInv
<1>3. /\ client[y].salted = server[x].salted
      /\ AuthMessage(client[y].bare, client[y].serverFirst, client[y].nonce)
           = AuthMessage(server[x].bare, server[x].serverFirst, client[y].nonce)
      BY <1>1, <1>2, ProofReveals DEF ClientOK
<1>4. Partner(x, y) /\ client[y].serverFirst = server[x].serverFirst
      BY <1>3, MessageInjective DEF Partner
<1>5. client[y].password = Right
  <2>1. Salted(client[y].password, Unb64(client[y].serverFirst.salt),
               client[y].serverFirst.iterations)
          = Salted(Right, server[x].salt, 4096)
        BY <1>1, <1>2, <1>3 DEF Answered, ServerOK
  <2> QED BY <2>1, SaltedInjective
<1> QED BY <1>1, <1>4, <1>5 DEF Answered

LEMMA DecideKeeps ==
    ASSUME ExchangeInv, NEW x \in Exchanges, NEW m \in network["client-final"], Decide(x, m)
    PROVE  ExchangeInv'
PROOF
<1> USE DEF Decide, ExchangeInv
<1>1. /\ DOMAIN verdict' = Exchanges /\ DOMAIN network' = DOMAIN network
      /\ UNCHANGED <<client, server, step>>
      /\ \A y \in Exchanges : y # x => verdict'[y] = verdict[y]
      /\ server[x].bare # NoText /\ verdict[x] = "none"
      BY DEF Send
<1>2. Settles
      BY <1>1 DEF Settles
<1>3. ClientOK(x)' /\ ServerOK(x)'
      BY <1>1 DEF ClientOK, ServerOK, Answered
<1>4. CASE ProofHolds(server[x], m)
  <2>1. verdict'[x] = "accepted"
        BY <1>4
  <2>2. \E y \in Exchanges : Accepted(x, y)'
    <3>1. PICK y \in Exchanges : /\ step[y] \notin {"new", "first"}
                                 /\ Partner(x, y) /\ client[y].password = Right
                                 /\ client[y].serverFirst = server[x].serverFirst
          BY <1>1, <1>4, DecideAccepts
    <3>2. Accepted(x, y)'
          BY <1>1, <2>1, <3>1 DEF Accepted, Partner
    <3> QED BY <3>2
  <2>3. network' = [network EXCEPT !["server-final"] = @ \union {Signature(server[x], m)}]
        BY <1>4 DEF Send
  <2>4. \E n : Signature(server[x], m) = B64(Hmac(ServerKey(server'[x].salted),
                    AuthMessage(server'[x].bare, server'[x].serverFirst, n)))
        BY <1>1 DEF Signature
  <2>5. /\ network'["client-first"] = network["client-first"]
        /\ network'["client-final"] = network["client-final"]
        /\ network'["server-final"] = network["server-final"] \union {Signature(server[x], m)}
        BY <2>3 DEF NetworkOK
  <2>6. OnlyMoves(x) /\ SendsWell(x) /\ DecidesWell(x)
        BY <1>1, <2>1, <2>2, <2>4, <2>5 DEF OnlyMoves, SendsWell, DecidesWell
  <2> HIDE DEF ExchangeInv
  <2> QED BY <1>2, <1>3, <2>6, InvStays
<1>5. CASE ~ProofHolds(server[x], m)
  <2>1. verdict'[x] = "refused" /\ network' = network
        BY <1>5
  <2>2. OnlyMoves(x) /\ SendsWell(x) /\ DecidesWell(x)
        BY <1>1, <2>1 DEF OnlyMoves, SendsWell, DecidesWell
  <2> HIDE DEF ExchangeInv
  <2> QED BY <1>2, <1>3, <2>2, InvStays
<1> QED BY <1>4, <1>5

LEMMA VerifyKeeps ==
    ASSUME ExchangeInv, NEW x \in Exchanges, NEW signature \in network["server-final"],
           Verify(x, signature)
    PROVE  ExchangeInv'
PROOF
<1> USE DEF Verify, ExchangeInv
<1>1. /\ DOMAIN step' = Exchanges /\ step[x] = "final" /\ step'[x] \in {"verified", "failed"}
      /\ UNCHANGED <<client, server, verdict, network>>
      /\ \A y \in Exchanges : y # x => step'[y] = step[y]
      OBVIOUS
<1>2. Settles
      BY <1>1 DEF Settles
<1>3. Answered(x)
      BY <1>1 DEF ClientOK
<1>4. ClientOK(x)' /\ ServerOK(x)'
      BY <1>1, <1>3 DEF ClientOK, ServerOK, Answered
<1>5. ASSUME step'[x] = "verified"
      PROVE  \E y \in Exchanges : /\ verdict'[y] = "accepted" /\ Partner(y, x)'
                                  /\ server'[y].serverFirst = client'[x].serverFirst
  <2>1. signature = B64(Hmac(ServerKey(client[x].salted), client[x].message))
        BY <1>1, <1>5 DEF ServerVerified
  <2>2. PICK y \in Exchanges :
            /\ verdict[y] = "accepted"
            /\ \E n : signature = B64(Hmac(ServerKey(server[y].salted),
                                AuthMessage(server[y].bare, server[y].serverFirst, n)))
        BY DEF NetworkOK
  <2>3. PICK n : signature = B64(Hmac(ServerKey(server[y].salted),
                                AuthMessage(server[y].bare, server[y].serverFirst, n)))
        BY <2>2
  <2>4. client[x].message = AuthMessage(server[y].bare, server[y].serverFirst, n)
        BY <2>1, <2>3, SignatureReveals
  <2>5. /\ client[x].bare = server[y].bare
        /\ client[x].serverFirst = server[y].serverFirst
    <3>1. AuthMessage(client[x].bare, client[x].serverFirst, client[x].nonce)
            = AuthMessage(server[y].bare, server[y].serverFirst, n)
          BY <1>3, <2>4 DEF Answered
    <3> QED BY <3>1, MessageInjective
  <2> QED BY <1>1, <2>2, <2>5 DEF Partner
<1>6. OnlyMoves(x) /\ SendsWell(x) /\ DecidesWell(x)
      BY <1>1, <1>5 DEF OnlyMoves, SendsWell, DecidesWell
<1> HIDE DEF ExchangeInv
<1> QED BY <1>2, <1>4, <1>6, InvStays

LEMMA ExchangeNext ==
    ASSUME ExchangeInv, [Next]_vars
    PROVE  ExchangeInv'
PROOF
<1>1. CASE UNCHANGED vars
      BY <1>1 DEF vars, ExchangeInv, ClientOK, ServerOK, NetworkOK, Answered, Accepted, Partner,
                  VerifiedMeansAccepted
<1> QED BY <1>1, BeginKeeps, ChallengeKeeps, AnswerKeeps, DecideKeeps, VerifyKeeps DEF Next

-----------------------------------------------------------------------------
(* Theorems *)

LEMMA ExchangeInvariant == Spec => []ExchangeInv
PROOF
<1>1. Init => ExchangeInv
      BY ExchangeInit
<1>2. ExchangeInv /\ [Next]_vars => ExchangeInv'
      BY ExchangeNext
<1> QED BY <1>1, <1>2, PTL DEF Spec

\* A client that has verified a signature has been accepted, by the server whose
\* challenge it answered.
THEOREM VerifiedIsAccepted == Spec => []VerifiedMeansAccepted
PROOF
<1>1. ExchangeInv => VerifiedMeansAccepted
      BY DEF ExchangeInv
<1> QED BY <1>1, ExchangeInvariant, PTL

\* A server accepts no client but the one it challenged, and that one only with
\* the right password.
THEOREM OnlyTheRightAccepted == Spec => []OnlyTheRight
PROOF
<1>1. ExchangeInv => OnlyTheRight
      BY DEF ExchangeInv, OnlyTheRight, Accepted
<1> QED BY <1>1, ExchangeInvariant, PTL

-----------------------------------------------------------------------------
(* BackendLogin: the inductive invariant *)

\* What the proxy answers in the auth loop.
Wants(m) ==
    \/ Login!Is(m, "CleartextPassword") \/ Login!Is(m, "MD5Password")
    \/ Login!Is(m, "Sasl") /\ "SCRAM-SHA-256" \in m[3]

\* Nothing is said before the question.
Starting ==
    peer.phase = "start" => down = <<>> /\ pc \in {"connecting", "ssl", "auth", "failed"}

\* The question is the last thing said, and not answered before it is read.
Asking ==
    peer.phase = "asked" =>
        /\ \A i \in 1..Len(down) :
             down[i] = <<"N">> \/ (i = Len(down) /\ down[i] = Login!Question)
        /\ up # <<>> => down = <<>> /\ (pc = "auth" => peer.asks # "sasl")
        /\ pc \in {"auth", "challenge", "failed"} /\ peer.asks # "nothing"
        /\ pc = "challenge" => down = <<>> /\ peer.asks = "sasl"

\* The same of the challenge.
Challenging ==
    peer.phase = "challenged" =>
        /\ Len(down) <= 1 /\ \A i \in 1..Len(down) : Login!Is(down[i], "SaslContinue")
        /\ up # <<>> => pc \in {"final", "failed"}
        /\ pc \in {"challenge", "final", "failed"}
        /\ pc = "final" => down = <<>>

\* Once the proxy is let in, nothing it would answer is left.
LetIn ==
    peer.phase \in {"authed", "idle"} =>
        /\ up = <<>> /\ pc \in {"auth", "final", "startup", "done", "failed"}
        /\ pc = "auth" => \A i \in 1..Len(down) : ~Wants(down[i])

\* ReadyForQuery is the last word.
ReadyLast ==
    \A i \in 1..Len(down) : down[i] = <<"Z">> => peer.phase = "idle" /\ i = Len(down)

\* With TLS configured, nothing but the SSL request goes in the clear.
Secured ==
    cfg.tls /\ pc \notin {"connecting", "ssl", "failed"} => secure

BackendInv ==
    /\ LoginInv /\ TokenKept
    /\ \E S : down \in Seq(S)
    /\ peer.asks \in Login!Asks
    /\ DOMAIN peer = {"asks", "style", "tls", "phase", "scram"}
    /\ pc \in {"connecting", "ssl"} => up = <<>> /\ down = <<>> /\ peer.phase \in {"start", "closed"}
    /\ Starting /\ Asking /\ Challenging /\ LetIn /\ ReadyLast /\ Secured

USE DEF LoginInv, TokenKept, Login!LoginInv, Login!Ended

LEMMA BackendInit ==
    ASSUME Login!Init
    PROVE  BackendInv
PROOF
<1>1. down \in Seq({})
      BY DEF Login!Init
<1>2. peer \in [asks : Login!Asks, style : Styles, tls : BOOLEAN, phase : {"start"},
                scram : {Login!NewServer(Fresh, <<"server">>, {<<"salt">>})}]
      BY DEF Login!Init
<1>3. /\ peer.asks \in Login!Asks /\ peer.phase = "start"
      /\ DOMAIN peer = {"asks", "style", "tls", "phase", "scram"}
      BY <1>2
<1>4. Login!TypeOK
  <2>1. Login!Limit \in Nat /\ MaxAge \in Nat
        BY BackendAssumption DEF Login!BackendAssumption, Login!Limit
  <2>2. /\ pc = "connecting" /\ age = 0 /\ secure = FALSE /\ spent = "not"
        /\ up = <<>> /\ down = <<>> /\ Len(up) = 0
        BY DEF Login!Init
  <2>3. age \in 0..MaxAge /\ age <= Login!Limit /\ Len(up) <= 1
        BY <2>1, <2>2
  <2>4. secure \in BOOLEAN
        BY <2>2
  <2> QED BY <1>3, <2>2, <2>3, <2>4, Zenon DEF Login!TypeOK, Login!Ended
<1>5. /\ Login!HandedOutReady /\ Login!TokenKept
      /\ Starting /\ Asking /\ Challenging /\ LetIn /\ ReadyLast /\ Secured
      BY <1>3 DEF Login!Init, Login!HandedOutReady, Login!TokenKept, Starting, Asking, Challenging, LetIn,
                  ReadyLast, Secured
<1> QED BY <1>1, <1>3, <1>4, <1>5 DEF BackendInv, Login!Init

-----------------------------------------------------------------------------
(* BackendLogin: the steps of the proxy *)

\* What follows the message at the head.
LEMMA TailOf ==
    ASSUME NEW S, NEW s \in Seq(S), s # <<>>
    PROVE  /\ Tail(s) \in Seq(S) /\ Len(s) \in Nat /\ Len(s) >= 1
           /\ Head(s) = s[1] /\ Len(Tail(s)) = Len(s) - 1
           /\ \A i \in 1..Len(s) - 1 : Tail(s)[i] = s[i + 1]
           /\ Len(s) = 1 => Tail(s) = <<>>
PROOF
<1>1. Len(s) \in Nat /\ Len(s) >= 1
      BY EmptySeq, LenProperties
<1>2. Tail(s) \in Seq(S) /\ Len(Tail(s)) = Len(s) - 1
      BY HeadTailProperties
<1>3. \A i \in 1..Len(s) - 1 : Tail(s)[i] = s[i + 1]
      BY <1>1, <1>2, HeadTailProperties
<1>4. Len(s) = 1 => Tail(s) = <<>>
  <2> SUFFICES ASSUME Len(s) = 1 PROVE Tail(s) = <<>>
      OBVIOUS
  <2>1. Len(Tail(s)) = 0
        BY <1>2
  <2> QED BY <1>2, <2>1, EmptySeq
<1> QED BY <1>1, <1>2, <1>3, <1>4, HeadTailProperties

LEMMA RequestCodes ==
    /\ Login!AuthRequest(0) = "Ok" /\ Login!AuthRequest(3) = "CleartextPassword"
    /\ Login!AuthRequest(5) = "MD5Password" /\ Login!AuthRequest(10) = "Sasl"
    /\ Login!AuthRequest(11) = "SaslContinue"
    /\ Login!AuthRequest(7) = "Unknown" /\ Login!AuthRequest(12) = "Unknown"
PROOF BY DEF Login!AuthRequest

LEMMA QuestionCode ==
    ASSUME peer.asks \in Login!Asks
    PROVE  /\ Login!Question[1] = "R"
           /\ peer.asks = "nothing" => Login!Question = <<"R", 0>>
           /\ peer.asks = "sasl" => Login!Question = <<"R", 10, {"SCRAM-SHA-256"}>>
           /\ peer.asks = "other mechanism" => Login!Question = <<"R", 10, {"OAUTHBEARER"}>>
           /\ peer.asks \in {"cleartext", "md5", "gss"} => Login!Question[2] \in {3, 5, 7}
           /\ peer.asks # "nothing" => ~Login!Is(Login!Question, "Ok")
PROOF
<1>1. CASE peer.asks = "nothing"
      BY <1>1 DEF Login!Question, Login!Auth, Login!Is
<1>2. CASE peer.asks = "cleartext"
      BY RequestCodes, <1>2 DEF Login!Question, Login!Auth, Login!Is
<1>3. CASE peer.asks = "md5"
      BY RequestCodes, <1>3 DEF Login!Question, Login!Auth, Login!Is
<1>4. CASE peer.asks = "sasl"
      BY RequestCodes, <1>4 DEF Login!Question, Login!Auth, Login!Is
<1>5. CASE peer.asks = "other mechanism"
      BY RequestCodes, <1>5 DEF Login!Question, Login!Auth, Login!Is
<1>6. CASE peer.asks = "gss"
      BY RequestCodes, <1>6 DEF Login!Question, Login!Auth, Login!Is
<1> QED BY <1>1, <1>2, <1>3, <1>4, <1>5, <1>6 DEF Login!Asks

LEMMA FailKeeps ==
    ASSUME BackendInv, Login!Fail
    PROVE  BackendInv'
PROOF
BY DEF BackendInv, Login!Fail, Login!Unheard, Login!TypeOK, Login!HandedOutReady, Login!TokenKept,
       Starting, Asking, Challenging, LetIn, ReadyLast, Secured, Login!Question

LEMMA SendStartupKeeps ==
    ASSUME BackendInv, pc \in {"connecting", "ssl"}, Login!SendStartup,
           secure' \in BOOLEAN, cfg.tls => secure'
    PROVE  BackendInv'
PROOF
BY DEF BackendInv, Login!SendStartup, Login!Unheard, Login!TypeOK, Login!HandedOutReady,
       Login!TokenKept, Starting, Asking, Challenging, LetIn, ReadyLast, Secured

LEMMA ConnectKeeps ==
    ASSUME BackendInv, Login!Connect \/ Login!TimeOut \/ Login!Ssl \/ Login!Eof
    PROVE  BackendInv'
PROOF
<1>1. CASE Login!Fail
      BY <1>1, FailKeeps
<1>2. CASE pc = "connecting" /\ ~cfg.tls /\ UNCHANGED secure /\ Login!SendStartup
      BY <1>2, SendStartupKeeps DEF BackendInv, Login!TypeOK
<1>3. CASE pc = "ssl" /\ secure' = TRUE /\ Login!SendStartup
      BY <1>3, SendStartupKeeps
<1>4. CASE /\ pc = "connecting" /\ pc' = "ssl"
           /\ UNCHANGED <<secure, scram, spent, up, down>> /\ Login!Unheard
      BY <1>4 DEF BackendInv, Login!Unheard, Login!TypeOK, Login!HandedOutReady, Login!TokenKept,
                  Starting, Asking, Challenging, LetIn, ReadyLast, Secured
<1> QED BY <1>1, <1>2, <1>3, <1>4 DEF Login!Connect, Login!TimeOut, Login!Ssl, Login!Eof

\* A message is taken and nothing sent.
LEMMA TakeKeeps ==
    ASSUME BackendInv, NEW place, Login!Take(place), down # <<>>,
           pc \in {"auth", "challenge", "final", "startup"},
           \/ place = "failed"
           \/ place = pc
           \/ place = "startup" /\ Login!Is(Head(down), "Ok")
           \/ place = "done" /\ Head(down) = <<"Z">> /\ pc = "startup"
    PROVE  BackendInv'
PROOF
<1>1. PICK S : down \in Seq(S)
      BY DEF BackendInv
<1>2. /\ down' = Tail(down) /\ pc' = place
      /\ UNCHANGED <<cfg, age, peer, secure, scram, spent, up>>
      BY DEF Login!Take, Login!Unheard
<1>3. /\ down' \in Seq(S) /\ Len(down) \in Nat /\ Len(down) >= 1
      /\ Head(down) = down[1] /\ Len(down') = Len(down) - 1
      /\ \A i \in 1..Len(down') : down'[i] = down[i + 1] /\ i + 1 \in 1..Len(down)
      /\ Len(down) = 1 => down' = <<>>
      BY <1>1, <1>2, TailOf
<1>4. place \in {"failed", "auth", "challenge", "final", "startup", "done"}
      OBVIOUS
<1>5. Login!TypeOK'
      BY <1>2, <1>4 DEF BackendInv, Login!TypeOK
<1>6. Login!HandedOutReady'
  <2> SUFFICES ASSUME place = "done" PROVE peer.phase = "idle" /\ up = <<>> /\ down' = <<>>
      BY <1>2 DEF Login!HandedOutReady
  <2>1. down[1] = <<"Z">>
        BY <1>3 DEF Login!Is
  <2>2. peer.phase = "idle" /\ Len(down) = 1
        BY <1>3, <2>1 DEF BackendInv, ReadyLast
  <2> QED BY <1>3, <2>2 DEF BackendInv, LetIn
<1>7. up # <<>> => peer.phase \notin {"start", "asked", "authed", "idle"}
      BY DEF BackendInv, Starting, Asking, LetIn
<1>8. Login!Question' = Login!Question
      BY <1>2 DEF Login!Question
<1>9. peer.phase = "asked" => ~Login!Is(Login!Question, "Ok")
  <2> SUFFICES ASSUME peer.phase = "asked" PROVE ~Login!Is(Login!Question, "Ok")
      OBVIOUS
  <2>1. peer.asks # "nothing" /\ peer.asks \in Login!Asks
        BY DEF BackendInv, Asking
  <2> QED BY <2>1, QuestionCode
<1>10. Asking'
  <2> SUFFICES ASSUME peer.phase = "asked" PROVE Asking'
      BY <1>2 DEF Asking
  <2>1. /\ \A i \in 1..Len(down) :
             down[i] = <<"N">> \/ (i = Len(down) /\ down[i] = Login!Question)
        /\ pc \in {"auth", "failed"} /\ peer.asks # "nothing"
        BY DEF BackendInv, Asking
  <2>2. Head(down) = <<"N">> \/ Head(down) = Login!Question
        BY <1>3, <2>1
  <2>3. place \in {"auth", "failed"}
        BY <1>9, <2>1, <2>2 DEF Login!Is
  <2>4. \A i \in 1..Len(down') :
             down'[i] = <<"N">> \/ (i = Len(down') /\ down'[i] = Login!Question)
        BY <1>3, <2>1
  <2> QED BY <1>2, <1>7, <1>8, <2>1, <2>3, <2>4 DEF Asking
<1>11. Challenging'
  <2> SUFFICES ASSUME peer.phase = "challenged" PROVE Challenging'
      BY <1>2 DEF Challenging
  <2>1. /\ Len(down) <= 1 /\ \A i \in 1..Len(down) : Login!Is(down[i], "SaslContinue")
        /\ up # <<>> => pc \in {"final", "failed"}
        /\ pc \in {"challenge", "failed"}
        BY DEF BackendInv, Challenging
  <2>2. Login!Is(Head(down), "SaslContinue")
        BY <1>3, <2>1
  <2>3. place \in {"challenge", "failed"}
        BY <2>1, <2>2 DEF Login!Is
  <2> QED BY <1>2, <1>3, <2>1, <2>3 DEF Challenging
<1>12. Starting' /\ LetIn'
  <2>1. peer.phase # "start"
        BY DEF BackendInv, Starting
  <2>2. peer.phase \in {"authed", "idle"} => LetIn'
    <3> SUFFICES ASSUME peer.phase \in {"authed", "idle"} PROVE LetIn'
        OBVIOUS
    <3>1. /\ up = <<>> /\ pc \in {"auth", "final", "startup"}
          /\ pc = "auth" => \A i \in 1..Len(down) : ~Wants(down[i])
          BY DEF BackendInv, LetIn
    <3>2. place = "auth" => pc = "auth"
          OBVIOUS
    <3>3. place = "auth" => \A i \in 1..Len(down') : ~Wants(down'[i])
          BY <1>3, <3>1, <3>2
    <3> QED BY <1>2, <3>1, <3>3 DEF LetIn, Wants
  <2> QED BY <1>2, <2>1, <2>2 DEF Starting, LetIn
<1>13. ReadyLast'
  <2> SUFFICES ASSUME NEW i \in 1..Len(down'), down'[i] = <<"Z">>
               PROVE  peer.phase = "idle" /\ i = Len(down')
      BY <1>2 DEF ReadyLast
  <2>1. down[i + 1] = <<"Z">> /\ i + 1 \in 1..Len(down)
        BY <1>3
  <2>2. peer.phase = "idle" /\ i + 1 = Len(down)
        BY <2>1 DEF BackendInv, ReadyLast
  <2> QED BY <1>3, <2>2
<1>14. Secured' /\ Login!TokenKept'
      BY <1>2 DEF BackendInv, Secured, Login!TokenKept
<1>15. /\ peer'.asks \in Login!Asks /\ DOMAIN peer' = {"asks", "style", "tls", "phase", "scram"}
       /\ pc' \notin {"connecting", "ssl"} /\ \E T : down' \in Seq(T)
       BY <1>2, <1>3, <1>4 DEF BackendInv
<1> QED BY <1>5, <1>6, <1>10, <1>11, <1>12, <1>13, <1>14, <1>15 DEF BackendInv

\* A message is taken, and answered with the token or a message of SCRAM.
LEMMA AnsweringKeeps ==
    ASSUME BackendInv, down # <<>>, down' = Tail(down),
           NEW body, Login!Send(body),
           \/ /\ pc = "auth" /\ Wants(Head(down))
              /\ pc' = IF Login!Is(Head(down), "Sasl") THEN "challenge" ELSE "auth"
           \/ pc = "challenge" /\ Login!Is(Head(down), "SaslContinue") /\ pc' = "final"
    PROVE  BackendInv'
PROOF
<1>1. PICK S : down \in Seq(S)
      BY DEF BackendInv
<1>2. /\ cfg.iam /\ up' = <<body>> /\ spent' = (IF secure THEN "secure" ELSE "clear")
      /\ UNCHANGED <<cfg, age, peer, secure>>
      BY DEF Login!Send
<1>3. /\ down' \in Seq(S) /\ Len(down) \in Nat /\ Len(down) >= 1
      /\ Head(down) = down[1] /\ Len(down') = Len(down) - 1 /\ 1 \in 1..Len(down)
      /\ \A i \in 1..Len(down') : down'[i] = down[i + 1] /\ i + 1 \in 1..Len(down)
      /\ Len(down) = 1 => down' = <<>>
      BY <1>1, TailOf
<1>4. pc \in {"auth", "challenge"} /\ pc' \in {"auth", "challenge", "final"}
      OBVIOUS
<1>5. Login!TypeOK' /\ Login!HandedOutReady'
      BY <1>2, <1>4 DEF BackendInv, Login!TypeOK, Login!HandedOutReady
<1>6. Secured' /\ Login!TokenKept'
      BY <1>2, <1>4 DEF BackendInv, Secured, Login!TokenKept, Login!TypeOK
<1>7. peer.phase \in {"asked", "challenged", "closed"}
  <2>1. peer.phase # "start"
        BY DEF BackendInv, Starting
  <2>2. peer.phase \notin {"authed", "idle"}
        BY <1>3 DEF BackendInv, LetIn
  <2> QED BY <2>1, <2>2 DEF BackendInv, Login!TypeOK
<1>8. Login!Question' = Login!Question
      BY <1>2 DEF Login!Question
<1>9. Asking'
  <2> SUFFICES ASSUME peer.phase = "asked" PROVE Asking'
      BY <1>2 DEF Asking
  <2>1. /\ pc = "auth" /\ peer.asks # "nothing" /\ peer.asks \in Login!Asks
        /\ down[1] = <<"N">> \/ (Len(down) = 1 /\ down[1] = Login!Question)
        BY <1>3 DEF BackendInv, Asking
  <2>2. Wants(down[1]) /\ pc' = IF Login!Is(down[1], "Sasl") THEN "challenge" ELSE "auth"
        BY <1>3, <2>1
  <2>3. Len(down) = 1 /\ down[1] = Login!Question
        BY <2>1, <2>2 DEF Wants, Login!Is
  <2>4. down' = <<>> /\ Len(down') = 0
        BY <1>3, <2>3
  <2>5. peer.asks = "sasl" => Login!Is(down[1], "Sasl")
        BY <2>1, <2>3, QuestionCode, RequestCodes DEF Login!Is
  <2>6. Login!Is(down[1], "Sasl") => peer.asks = "sasl"
    <3>1. CASE peer.asks \in {"cleartext", "md5", "gss"}
          BY <2>1, <2>3, <3>1, QuestionCode, RequestCodes DEF Login!Is
    <3>2. CASE peer.asks = "other mechanism"
      <4>0. Login!Question = <<"R", 10, {"OAUTHBEARER"}>>
            BY <2>1, <3>2, QuestionCode
      <4>1. Login!Question[2] = 10 /\ Login!Question[3] = {"OAUTHBEARER"}
            BY <4>0
      <4>2. ~Login!Is(down[1], "CleartextPassword") /\ ~Login!Is(down[1], "MD5Password")
            BY <2>3, <4>1, RequestCodes DEF Login!Is
      <4>3. "SCRAM-SHA-256" \notin down[1][3]
            BY <2>3, <4>1
      <4> QED BY <2>2, <4>2, <4>3 DEF Wants
    <3> QED BY <2>1, <3>1, <3>2 DEF Login!Asks
  <2>7. pc' \in {"auth", "challenge"} /\ (pc' = "auth" <=> peer.asks # "sasl")
        BY <2>2, <2>5, <2>6
  <2> QED BY <1>2, <1>8, <2>1, <2>4, <2>7 DEF Asking
<1>10. Challenging'
  <2> SUFFICES ASSUME peer.phase = "challenged" PROVE Challenging'
      BY <1>2 DEF Challenging
  <2>1. Len(down) <= 1 /\ pc = "challenge"
        BY <1>4 DEF BackendInv, Challenging
  <2>2. pc' = "final" /\ down' = <<>> /\ Len(down') = 0
        BY <1>3, <2>1
  <2>3. 1..Len(down') = {}
        BY <2>2
  <2> QED BY <1>2, <2>2, <2>3 DEF Challenging
<1>11. Starting' /\ LetIn'
      BY <1>2, <1>7 DEF Starting, LetIn
<1>12. ReadyLast'
  <2> SUFFICES ASSUME NEW i \in 1..Len(down'), down'[i] = <<"Z">>
               PROVE  peer.phase = "idle" /\ i = Len(down')
      BY <1>2 DEF ReadyLast
  <2>1. down[i + 1] = <<"Z">> /\ i + 1 \in 1..Len(down)
        BY <1>3
  <2>2. peer.phase = "idle" /\ i + 1 = Len(down)
        BY <2>1 DEF BackendInv, ReadyLast
  <2>3. Len(down') = Len(down) - 1 /\ Len(down) \in Nat /\ i \in Int
        BY <1>3
  <2> QED BY <2>2, <2>3
<1>13. /\ peer'.asks \in Login!Asks /\ DOMAIN peer' = {"asks", "style", "tls", "phase", "scram"}
       /\ \E T : down' \in Seq(T)
       BY <1>2, <1>3 DEF BackendInv
<1> QED BY <1>4, <1>5, <1>6, <1>9, <1>10, <1>11, <1>12, <1>13 DEF BackendInv

LEMMA AuthLoopKeeps ==
    ASSUME BackendInv, Login!AuthLoop
    PROVE  BackendInv'
PROOF
<1> DEFINE m == Head(down)
<1>0. pc = "auth" /\ down # <<>>
      BY DEF Login!AuthLoop
<1>1. CASE Login!Is(m, "Ok") /\ Login!Take("startup")
      BY <1>0, <1>1, TakeKeeps
<1>2. CASE Login!Take("auth")
      BY <1>0, <1>2, TakeKeeps
<1>3. CASE Login!Take("failed")
      BY <1>0, <1>3, TakeKeeps
<1>4. ASSUME Login!Is(m, "CleartextPassword") \/ Login!Is(m, "MD5Password"),
             NEW token, Login!Send(token), pc' = "auth", down' = Tail(down)
      PROVE  BackendInv'
  <2>1. Wants(m) /\ ~Login!Is(m, "Sasl")
        BY <1>4 DEF Wants, Login!Is
  <2> QED BY <1>0, <1>4, <2>1, AnsweringKeeps
<1>5. ASSUME Login!Is(m, "Sasl"), "SCRAM-SHA-256" \in m[3],
             NEW body, Login!Send(body), pc' = "challenge", down' = Tail(down)
      PROVE  BackendInv'
  <2>1. Wants(m)
        BY <1>5 DEF Wants
  <2> QED BY <1>0, <1>5, <2>1, AnsweringKeeps
<1> HIDE DEF BackendInv
<1> QED BY <1>1, <1>2, <1>3, <1>4, <1>5 DEF Login!AuthLoop

LEMMA ScramKeeps ==
    ASSUME BackendInv, Login!Challenged \/ Login!FinalLoop \/ Login!Startup
    PROVE  BackendInv'
PROOF
<1> DEFINE m == Head(down)
<1>1. CASE Login!Challenged
  <2>1. CASE Login!Is(m, "SaslContinue") /\ Login!ServerFirstValid(scram, m[3])
        BY <1>1, <2>1, AnsweringKeeps DEF Login!Challenged
  <2>2. CASE ~(Login!Is(m, "SaslContinue") /\ Login!ServerFirstValid(scram, m[3]))
        BY <1>1, <2>2, TakeKeeps DEF Login!Challenged
  <2> QED BY <2>1, <2>2
<1>2. CASE Login!FinalLoop
  <2>1. pc = "final" /\ down # <<>>
        BY <1>2 DEF Login!FinalLoop
  <2>2. \/ Login!Take("final") \/ Login!Take("failed")
        \/ Login!Take("startup") /\ Login!Is(m, "Ok")
    <3>1. CASE m[1] # "R"
          BY <1>2, <3>1 DEF Login!FinalLoop, Login!Is
    <3>2. CASE m[1] = "R" /\ Login!Is(m, "Ok")
          BY <1>2, <3>2 DEF Login!FinalLoop, Login!Is
    <3>3. CASE m[1] = "R" /\ ~Login!Is(m, "Ok") /\ Login!Is(m, "SaslContinue")
          BY <1>2, <3>3 DEF Login!FinalLoop
    <3>4. CASE m[1] = "R" /\ ~Login!Is(m, "Ok") /\ ~Login!Is(m, "SaslContinue")
          BY <1>2, <3>4 DEF Login!FinalLoop
    <3> QED BY <3>1, <3>2, <3>3, <3>4
  <2> QED BY <2>1, <2>2, TakeKeeps
<1>3. CASE Login!Startup
      BY <1>3, TakeKeeps DEF Login!Startup
<1> QED BY <1>1, <1>2, <1>3

-----------------------------------------------------------------------------
(* BackendLogin: the steps of the server *)

\* What the server adds comes after what was there.
LEMMA SaidIs ==
    ASSUME NEW S, NEW s \in Seq(S), NEW T, NEW t \in Seq(T)
    PROVE  /\ s \o t \in Seq(S \union T)
           /\ Len(s \o t) = Len(s) + Len(t) /\ Len(s) \in Nat /\ Len(t) \in Nat
           /\ \A i \in 1..Len(s \o t) :
                \/ i \in 1..Len(s) /\ (s \o t)[i] = s[i]
                \/ i - Len(s) \in 1..Len(t) /\ (s \o t)[i] = t[i - Len(s)]
           /\ s = <<>> => s \o t = t
PROOF
<1>1. s \in Seq(S \union T) /\ t \in Seq(S \union T)
      OBVIOUS
<1>2. Len(s) \in Nat /\ Len(t) \in Nat
      BY LenProperties
<1>3. /\ s \o t \in Seq(S \union T) /\ Len(s \o t) = Len(s) + Len(t)
      /\ \A i \in 1..Len(s) : (s \o t)[i] = s[i]
      /\ \A i \in 1..Len(t) : (s \o t)[Len(s) + i] = t[i]
      BY <1>1, ConcatProperties
<1>4. ASSUME NEW i \in 1..Len(s \o t), i \notin 1..Len(s)
      PROVE  i - Len(s) \in 1..Len(t) /\ (s \o t)[i] = t[i - Len(s)]
  <2>1. i - Len(s) \in 1..Len(t) /\ Len(s) + (i - Len(s)) = i
        BY <1>2, <1>3, <1>4
  <2> QED BY <1>3, <2>1
<1>5. s = <<>> => s \o t = t
      BY ConcatEmptySeq
<1> QED BY <1>2, <1>3, <1>4, <1>5

LEMMA OneSaid ==
    ASSUME NEW a
    PROVE  /\ <<>> \o <<a>> = <<a>> /\ <<a>> \in Seq({a}) /\ Len(<<a>>) = 1
           /\ \A i \in 1..Len(<<a>>) : <<a>>[i] = a
PROOF OBVIOUS

LEMMA OneAndOne ==
    ASSUME NEW B, NEW s \in Seq(B), NEW t \in Seq(B), Len(s) = 1, Len(t) = 1
    PROVE  s \o t \in Seq(B) /\ Len(s \o t) = 2 /\ (s \o t)[1] = s[1] /\ (s \o t)[2] = t[1]
PROOF
<1>1. /\ s \o t \in Seq(B) /\ Len(s \o t) = Len(s) + Len(t)
      /\ \A i \in 1..Len(s) + Len(t) : (s \o t)[i] = IF i <= Len(s) THEN s[i] ELSE t[i - Len(s)]
      BY ConcatProperties
<1>2. 1 \in 1..1 + 1 /\ 2 \in 1..1 + 1 /\ 1 <= 1 /\ ~(2 <= 1) /\ 2 - 1 = 1
      OBVIOUS
<1> QED BY <1>1, <1>2

LEMMA TwoSaid ==
    ASSUME NEW a, NEW b
    PROVE  /\ <<>> \o <<a, b>> = <<a, b>> /\ <<a>> \o <<b>> = <<a, b>>
           /\ <<a, b>> \in Seq({a, b}) /\ Len(<<a, b>>) = 2
           /\ \A i \in 1..Len(<<a, b>>) : <<a, b>>[i] = a \/ (i = 2 /\ <<a, b>>[i] = b)
PROOF
<1>1. <<a, b>> \in Seq({a, b}) /\ Len(<<a, b>>) = 2
      OBVIOUS
<1>2. <<>> \o <<a, b>> = <<a, b>>
      BY <1>1, ConcatEmptySeq
<1>3. <<a>> \o <<b>> = <<a, b>>
  <2>1. /\ <<a>> \in Seq({a, b}) /\ <<b>> \in Seq({a, b})
        /\ Len(<<a>>) = 1 /\ Len(<<b>>) = 1 /\ <<a>>[1] = a /\ <<b>>[1] = b
        OBVIOUS
  <2> DEFINE s == <<a>>
             t == <<b>>
             u == <<a, b>>
  <2>2. u \in Seq({a, b}) /\ Len(u) = 2 /\ u[1] = a /\ u[2] = b
        OBVIOUS
  <2> HIDE DEF s, t, u
  <2>3. /\ s \in Seq({a, b}) /\ t \in Seq({a, b})
        /\ Len(s) = 1 /\ Len(t) = 1 /\ s[1] = a /\ t[1] = b
        BY <2>1 DEF s, t
  <2>4. /\ s \o t \in Seq({a, b}) /\ Len(s \o t) = 2
        /\ (s \o t)[1] = a /\ (s \o t)[2] = b
    <3>1. /\ s \o t \in Seq({a, b}) /\ Len(s \o t) = 2
          /\ (s \o t)[1] = s[1] /\ (s \o t)[2] = t[1]
      <4> DEFINE B == {a, b}
      <4>1. s \in Seq(B) /\ t \in Seq(B) /\ Len(s) = 1 /\ Len(t) = 1
            BY <2>3
      <4> HIDE DEF B
      <4>2. /\ s \o t \in Seq(B) /\ Len(s \o t) = 2
            /\ (s \o t)[1] = s[1] /\ (s \o t)[2] = t[1]
            BY <4>1, OneAndOne
      <4> QED BY <4>2 DEF B
    <3> QED BY <2>3, <3>1
  <2>5. \A i \in 1..2 : (s \o t)[i] = u[i]
    <3>1. \A i \in 1..2 : i = 1 \/ i = 2
          OBVIOUS
    <3> QED BY <2>2, <2>4, <3>1, Zenon
  <2>6. s \o t = u
        BY <2>2, <2>4, <2>5, SeqEqual
  <2> QED BY <2>6 DEF s, t, u
<1>4. \A i \in 1..Len(<<a, b>>) : <<a, b>>[i] = a \/ (i = 2 /\ <<a, b>>[i] = b)
  <2>1. <<a, b>>[1] = a /\ <<a, b>>[2] = b
        OBVIOUS
  <2>2. \A i \in 1..Len(<<a, b>>) : i = 1 \/ i = 2
        BY <1>1
  <2> QED BY <2>1, <2>2, Zenon
<1> QED BY <1>1, <1>2, <1>3, <1>4

\* A server that is not idle has said nothing yet of being ready.
LEMMA NoReady ==
    ASSUME BackendInv, peer.phase # "idle"
    PROVE  pc # "done" /\ \A i \in 1..Len(down) : down[i] # <<"Z">>
PROOF BY DEF BackendInv, Login!HandedOutReady, ReadyLast

\* What the server's steps have in common.
LEMMA PeerKeeps ==
    ASSUME BackendInv, Login!PeerOnly, peer.phase # "idle",
           peer'.asks = peer.asks, DOMAIN peer' = DOMAIN peer,
           peer'.phase \in {"asked", "challenged", "authed", "idle", "closed"},
           up' \in {up, <<>>}, \E T : down' \in Seq(T),
           pc \in {"connecting", "ssl"} => UNCHANGED <<up, down>> /\ peer'.phase = "closed",
           Asking', Challenging', LetIn', ReadyLast'
    PROVE  BackendInv'
PROOF
<1>1. UNCHANGED <<cfg, pc, secure, scram, spent, age>> /\ pc # "done"
      BY NoReady DEF Login!PeerOnly, Login!proxyVars
<1>2. Len(<<>>) = 0
      OBVIOUS
<1>3. Login!TypeOK'
      BY <1>1, <1>2 DEF BackendInv, Login!TypeOK
<1>4. Login!HandedOutReady' /\ Login!TokenKept' /\ Secured' /\ Starting'
      BY <1>1 DEF BackendInv, Login!HandedOutReady, Login!TokenKept, Secured, Starting
<1> QED BY <1>1, <1>3, <1>4 DEF BackendInv

LEMMA PeerAsksKeeps ==
    ASSUME BackendInv, Login!PeerAsks
    PROVE  BackendInv'
PROOF
<1> DEFINE q == Login!Question
<1>1. /\ down = <<>> /\ pc \in {"auth", "failed"}
      /\ peer.asks \in Login!Asks /\ DOMAIN peer = {"asks", "style", "tls", "phase", "scram"}
      BY DEF BackendInv, Starting, Login!PeerAsks
<1>2. /\ up' = <<>> /\ Login!PeerOnly /\ peer.phase = "start"
      /\ peer' = [peer EXCEPT !.phase = IF peer.asks = "nothing" THEN "authed" ELSE "asked"]
      BY DEF Login!PeerAsks
<1>3. /\ peer'.asks = peer.asks /\ DOMAIN peer' = DOMAIN peer
      /\ peer'.phase = IF peer.asks = "nothing" THEN "authed" ELSE "asked"
      BY <1>1, <1>2
<1>4. UNCHANGED <<cfg, pc, secure, scram, spent, age>>
      BY <1>2 DEF Login!PeerOnly, Login!proxyVars
<1>5. down' = <<q>> \/ down' = <<<<"N">>, q>>
  <2>1. PICK notice \in {<<>>, <<<<"N">>>>} : down' = down \o (notice \o <<q>>)
        BY DEF Login!PeerAsks, Login!Says
  <2>2. CASE notice = <<>>
    <3>1. <<>> \o <<q>> = <<q>> /\ <<>> \o (<<>> \o <<q>>) = <<q>>
          BY OneSaid
    <3> QED BY <1>1, <2>1, <2>2, <3>1
  <2>3. CASE notice = <<<<"N">>>>
    <3>1. <<<<"N">>>> \o <<q>> = <<<<"N">>, q>> /\ <<>> \o <<<<"N">>, q>> = <<<<"N">>, q>>
          BY TwoSaid
    <3> QED BY <1>1, <2>1, <2>3, <3>1
  <2> QED BY <2>1, <2>2, <2>3
<1>6. q[1] = "R" /\ (peer.asks = "nothing" => q = <<"R", 0>>)
      BY <1>1, QuestionCode
<1>7. /\ \E T : down' \in Seq(T)
      /\ \A i \in 1..Len(down') : down'[i] = <<"N">> \/ (i = Len(down') /\ down'[i] = q)
  <2> HIDE DEF q
  <2>1. CASE down' = <<q>>
    <3>1. down' \in Seq({q}) /\ Len(down') = 1
          BY <2>1, OneSaid
    <3>2. \A i \in 1..Len(down') : down'[i] = q /\ i = Len(down')
          BY <2>1, <3>1
    <3> QED BY <3>1, <3>2
  <2>2. CASE down' = <<<<"N">>, q>>
    <3> DEFINE n == <<"N">>
    <3> HIDE DEF n
    <3>1. down' = <<n, q>>
          BY <2>2 DEF n
    <3>2. /\ down' \in Seq({n, q})
          /\ \A i \in 1..Len(down') : down'[i] = n \/ (i = Len(down') /\ down'[i] = q)
          BY <3>1, TwoSaid
    <3> QED BY <3>2 DEF n
  <2> QED BY <1>5, <2>1, <2>2
<1>8. q' = q
      BY <1>3 DEF Login!Question
<1>9. Asking' /\ Challenging'
  <2> HIDE DEF q
  <2>1. Login!Question = q /\ Login!Question' = q
        BY <1>8 DEF q
  <2> QED BY <1>1, <1>2, <1>3, <1>4, <1>7, <2>1 DEF Asking, Challenging
<1>10. \A i \in 1..Len(down') : down'[i] # <<"Z">>
  <2> HIDE DEF q
  <2>1. q # <<"Z">> /\ <<"N">> # <<"Z">>
        BY <1>6
  <2> QED BY <1>7, <2>1
<1>11. LetIn'
  <2> SUFFICES ASSUME peer.asks = "nothing" PROVE LetIn'
      BY <1>3 DEF LetIn
  <2>1. ~Wants(<<"N">>) /\ ~Wants(<<"R", 0>>)
        BY RequestCodes DEF Wants, Login!Is
  <2>2. \A i \in 1..Len(down') : ~Wants(down'[i])
        BY <1>6, <1>7, <2>1
  <2> QED BY <1>1, <1>2, <1>4, <2>2 DEF LetIn, Wants
<1>12. ReadyLast'
      BY <1>10 DEF ReadyLast
<1> QED BY <1>1, <1>2, <1>3, <1>7, <1>9, <1>11, <1>12, PeerKeeps

LEMMA PeerJudgesKeeps ==
    ASSUME BackendInv, Login!PeerJudges
    PROVE  BackendInv'
PROOF
<1>1. /\ down = <<>> /\ pc \in {"auth", "failed"}
      /\ DOMAIN peer = {"asks", "style", "tls", "phase", "scram"}
      BY DEF BackendInv, Asking, Login!PeerJudges
<1>2. /\ up' = <<>> /\ Login!PeerOnly /\ peer.phase = "asked"
      BY DEF Login!PeerJudges
<1>3. UNCHANGED <<cfg, pc, secure, scram, spent, age>>
      BY <1>2 DEF Login!PeerOnly, Login!proxyVars
<1>4. <<>> \o <<<<"R", 0>>>> = <<<<"R", 0>>>> /\ <<>> \o <<<<"E">>>> = <<<<"E">>>>
      OBVIOUS
<1>5. \/ down' = <<<<"R", 0>>>> /\ peer' = [peer EXCEPT !.phase = "authed"]
      \/ down' = <<<<"E">>>> /\ peer' = [peer EXCEPT !.phase = "closed"]
      BY <1>1, <1>4 DEF Login!PeerJudges, Login!Refuse, Login!Says, Login!Auth
<1>6. /\ peer'.asks = peer.asks /\ DOMAIN peer' = DOMAIN peer
      /\ peer'.phase \in {"authed", "closed"}
      BY <1>1, <1>5
<1>7. /\ \E T : down' \in Seq(T)
      /\ \A i \in 1..Len(down') : down'[i] \in {<<"R", 0>>, <<"E">>}
  <2>1. PICK said : down' = <<said>> /\ said \in {<<"R", 0>>, <<"E">>}
        BY <1>5
  <2> QED BY <2>1, OneSaid
<1>8. ~Wants(<<"R", 0>>) /\ ~Wants(<<"E">>) /\ <<"R", 0>> # <<"Z">> /\ <<"E">> # <<"Z">>
      BY RequestCodes DEF Wants, Login!Is
<1>9. \A i \in 1..Len(down') : ~Wants(down'[i]) /\ down'[i] # <<"Z">>
      BY <1>7, <1>8
<1>10. Asking' /\ Challenging' /\ LetIn' /\ ReadyLast'
      BY <1>1, <1>2, <1>3, <1>6, <1>9 DEF Asking, Challenging, LetIn, ReadyLast, Wants
<1> QED BY <1>1, <1>2, <1>6, <1>7, <1>10, PeerKeeps

LEMMA PeerChallengesKeeps ==
    ASSUME BackendInv, Login!PeerChallenges
    PROVE  BackendInv'
PROOF
<1>1. /\ down = <<>> /\ pc \in {"challenge", "failed"}
      /\ DOMAIN peer = {"asks", "style", "tls", "phase", "scram"}
      BY DEF BackendInv, Asking, Login!PeerChallenges
<1>2. /\ up' = <<>> /\ Login!PeerOnly /\ peer.phase = "asked"
      BY DEF Login!PeerChallenges
<1>3. UNCHANGED <<cfg, pc, secure, scram, spent, age>>
      BY <1>2 DEF Login!PeerOnly, Login!proxyVars
<1>4. PICK m, s : /\ down' = down \o <<<<"R", 11, m>>>>
                  /\ peer' = [peer EXCEPT !.phase = "challenged", !.scram = s]
      BY DEF Login!PeerChallenges, Login!Says
<1>5. down' = <<<<"R", 11, m>>>>
  <2>1. <<>> \o <<<<"R", 11, m>>>> = <<<<"R", 11, m>>>>
        OBVIOUS
  <2> QED BY <1>1, <1>4, <2>1
<1>6. /\ peer'.asks = peer.asks /\ DOMAIN peer' = DOMAIN peer /\ peer'.phase = "challenged"
      BY <1>1, <1>4
<1>7. /\ down' \in Seq({<<"R", 11, m>>}) /\ Len(down') = 1
      /\ \A i \in 1..Len(down') : down'[i] = <<"R", 11, m>>
      BY <1>5
<1>8. Login!Is(<<"R", 11, m>>, "SaslContinue") /\ <<"R", 11, m>> # <<"Z">>
      BY RequestCodes DEF Login!Is
<1>9. \A i \in 1..Len(down') : Login!Is(down'[i], "SaslContinue") /\ down'[i] # <<"Z">>
      BY <1>7, <1>8
<1>10. Asking' /\ Challenging' /\ LetIn' /\ ReadyLast'
      BY <1>1, <1>2, <1>3, <1>6, <1>7, <1>9
      DEF Asking, Challenging, LetIn, ReadyLast, Login!Is
<1> QED BY <1>1, <1>2, <1>6, <1>7, <1>10, PeerKeeps

LEMMA PeerDecidesKeeps ==
    ASSUME BackendInv, Login!PeerDecides
    PROVE  BackendInv'
PROOF
<1>1. /\ pc \in {"final", "failed"} /\ peer.phase = "challenged"
      /\ DOMAIN peer = {"asks", "style", "tls", "phase", "scram"}
      BY DEF BackendInv, Challenging, Login!PeerDecides
<1>2. up' = <<>> /\ Login!PeerOnly
      BY DEF Login!PeerDecides
<1>3. UNCHANGED <<cfg, pc, secure, scram, spent, age>>
      BY <1>2 DEF Login!PeerOnly, Login!proxyVars
<1>4. \E msgs, a : /\ down' = down \o msgs /\ msgs \in {<<<<"R", 0>>>>, <<a, <<"R", 0>>>>, <<<<"E">>>>}
                   /\ a[1] = "R"
                   /\ peer' = [peer EXCEPT !.phase = "authed"] \/ peer' = [peer EXCEPT !.phase = "closed"]
  <2> DEFINE m == up[1]
             signed == <<"R", IF peer.style = "continue" THEN 11 ELSE 12,
                         Login!Signature(peer.scram, m)>>
  <2>1. \/ /\ down' = down \o (IF peer.style = "terse" THEN <<<<"R", 0>>>>
                                                      ELSE <<signed, <<"R", 0>>>>)
           /\ peer' = [peer EXCEPT !.phase = "authed"]
        \/ down' = down \o <<<<"E">>>> /\ peer' = [peer EXCEPT !.phase = "closed"]
        BY DEF Login!PeerDecides, Login!Refuse, Login!Says, Login!Auth
  <2>2. signed[1] = "R"
        OBVIOUS
  <2> HIDE DEF signed
  <2> QED BY <2>1, <2>2
<1>5. PICK msgs, a : /\ down' = down \o msgs
                     /\ msgs \in {<<<<"R", 0>>>>, <<a, <<"R", 0>>>>, <<<<"E">>>>}
                     /\ a[1] = "R"
      BY <1>4
<1>6. /\ peer'.asks = peer.asks /\ DOMAIN peer' = DOMAIN peer
      /\ peer'.phase \in {"authed", "closed"}
      BY <1>1, <1>4
<1>7. /\ msgs \in Seq({a, <<"R", 0>>, <<"E">>})
      /\ \A i \in 1..Len(msgs) : msgs[i] \in {a, <<"R", 0>>, <<"E">>}
      BY <1>5
<1>8. PICK S : down \in Seq(S)
      BY DEF BackendInv
<1>9. \E T : down' \in Seq(T)
      BY <1>5, <1>7, <1>8, SaidIs
<1>10. a # <<"Z">> /\ <<"R", 0>> # <<"Z">> /\ <<"E">> # <<"Z">>
      BY <1>5
<1>11. \A i \in 1..Len(down') : down'[i] # <<"Z">>
  <2> TAKE i \in 1..Len(down')
  <2>1. \/ i \in 1..Len(down) /\ down'[i] = down[i]
        \/ i - Len(down) \in 1..Len(msgs) /\ down'[i] = msgs[i - Len(down)]
        BY <1>5, <1>7, <1>8, SaidIs
  <2>2. \A j \in 1..Len(down) : down[j] # <<"Z">>
        BY <1>1, NoReady
  <2> QED BY <1>7, <1>10, <2>1, <2>2
<1>12. Asking' /\ Challenging' /\ LetIn' /\ ReadyLast'
      BY <1>1, <1>2, <1>3, <1>6, <1>11 DEF Asking, Challenging, LetIn, ReadyLast
<1> QED BY <1>1, <1>2, <1>6, <1>9, <1>12, PeerKeeps

LEMMA PeerReadyKeeps ==
    ASSUME BackendInv, Login!PeerReady
    PROVE  BackendInv'
PROOF
<1> DEFINE msgs == <<<<"S">>, <<"K">>, <<"Z">>>>
<1>1. /\ peer.phase = "authed" /\ up' = up /\ Login!PeerOnly
      /\ down' = down \o msgs /\ peer' = [peer EXCEPT !.phase = "idle"]
      BY DEF Login!PeerReady, Login!Says
<1>2. UNCHANGED <<cfg, pc, secure, scram, spent, age>>
      BY <1>1 DEF Login!PeerOnly, Login!proxyVars
<1>3. /\ up = <<>> /\ pc \in {"auth", "final", "startup", "done", "failed"}
      /\ pc = "auth" => \A i \in 1..Len(down) : ~Wants(down[i])
      /\ DOMAIN peer = {"asks", "style", "tls", "phase", "scram"}
      BY <1>1 DEF BackendInv, LetIn
<1>4. /\ peer'.asks = peer.asks /\ DOMAIN peer' = DOMAIN peer /\ peer'.phase = "idle"
      BY <1>1, <1>3
<1>5. PICK S : down \in Seq(S)
      BY DEF BackendInv
<1>6. /\ msgs \in Seq({<<"S">>, <<"K">>, <<"Z">>}) /\ Len(msgs) = 3
      /\ msgs[1] = <<"S">> /\ msgs[2] = <<"K">> /\ msgs[3] = <<"Z">>
      OBVIOUS
<1>7. /\ \A i \in 1..3 : ~Wants(msgs[i])
      /\ \A i \in 1..3 : msgs[i] = <<"Z">> => i = 3
  <2>1. ~Wants(<<"S">>) /\ ~Wants(<<"K">>) /\ ~Wants(<<"Z">>)
        BY DEF Wants, Login!Is
  <2>2. <<"S">> # <<"Z">> /\ <<"K">> # <<"Z">>
        OBVIOUS
  <2>3. \A i \in 1..3 : i = 1 \/ i = 2 \/ i = 3
        OBVIOUS
  <2> HIDE DEF msgs
  <2> QED BY <1>6, <2>1, <2>2, <2>3
<1> HIDE DEF msgs
<1>8. /\ \E T : down' \in Seq(T)
      /\ Len(down') = Len(down) + 3 /\ Len(down) \in Nat
      /\ \A i \in 1..Len(down') :
            \/ i \in 1..Len(down) /\ down'[i] = down[i]
            \/ i - Len(down) \in 1..3 /\ down'[i] = msgs[i - Len(down)]
  <2> DEFINE T == {<<"S">>, <<"K">>, <<"Z">>}
  <2>1. /\ down \o msgs \in Seq(S \union T)
        /\ Len(down \o msgs) = Len(down) + Len(msgs) /\ Len(down) \in Nat
        /\ \A i \in 1..Len(down \o msgs) :
             \/ i \in 1..Len(down) /\ (down \o msgs)[i] = down[i]
             \/ i - Len(down) \in 1..Len(msgs) /\ (down \o msgs)[i] = msgs[i - Len(down)]
    <3>1. msgs \in Seq(T)
          BY <1>6
    <3> HIDE DEF T
    <3> QED BY <1>5, <3>1, SaidIs
  <2> QED BY <1>1, <1>6, <2>1
<1>9. \A i \in 1..Len(down) : down[i] # <<"Z">>
      BY <1>1, NoReady
<1>10. ReadyLast'
  <2> SUFFICES ASSUME NEW i \in 1..Len(down'), down'[i] = <<"Z">>
               PROVE  i = Len(down')
      BY <1>4 DEF ReadyLast
  <2>1. i - Len(down) \in 1..3 /\ down'[i] = msgs[i - Len(down)]
        BY <1>8, <1>9
  <2>2. i - Len(down) = 3
        BY <1>7, <2>1
  <2>3. i \in Int
        BY <1>8
  <2> QED BY <1>8, <2>2, <2>3
<1>11. pc = "auth" => \A i \in 1..Len(down') : ~Wants(down'[i])
  <2> SUFFICES ASSUME pc = "auth", NEW i \in 1..Len(down') PROVE ~Wants(down'[i])
      OBVIOUS
  <2> QED BY <1>3, <1>7, <1>8
<1>12. Asking' /\ Challenging' /\ LetIn'
      BY <1>1, <1>2, <1>3, <1>4, <1>11 DEF Asking, Challenging, LetIn, Wants
<1> QED BY <1>1, <1>3, <1>4, <1>8, <1>10, <1>12, PeerKeeps

LEMMA PeerClosesKeeps ==
    ASSUME BackendInv, Login!PeerCloses
    PROVE  BackendInv'
PROOF
<1>1. /\ peer.phase # "idle" /\ UNCHANGED <<up, down>> /\ Login!PeerOnly
      /\ peer' = [peer EXCEPT !.phase = "closed"]
      BY DEF Login!PeerCloses
<1>2. /\ peer'.asks = peer.asks /\ DOMAIN peer' = DOMAIN peer /\ peer'.phase = "closed"
      BY <1>1 DEF BackendInv
<1>3. Asking' /\ Challenging' /\ LetIn' /\ ReadyLast'
      BY <1>1, <1>2, NoReady DEF Asking, Challenging, LetIn, ReadyLast
<1>4. \E T : down' \in Seq(T)
      BY <1>1 DEF BackendInv
<1> QED BY <1>1, <1>2, <1>3, <1>4, PeerKeeps

-----------------------------------------------------------------------------
(* BackendLogin: the theorems *)

LEMMA BackendNext ==
    ASSUME BackendInv, [Login!Next]_Login!vars
    PROVE  BackendInv'
PROOF
<1>1. CASE Login!Tick
  <2>1. /\ UNCHANGED <<cfg, pc, secure, scram, spent, peer, up, down>>
        /\ age' = (IF age < MaxAge THEN age + 1 ELSE age)
        /\ pc = "connecting" => ~(age >= Login!Limit)
        BY <1>1 DEF Login!Tick, Login!proxyVars, Login!ConnectDue
  <2>2. Login!Limit \in Nat /\ MaxAge \in Nat
        BY BackendAssumption DEF Login!BackendAssumption, Login!Limit
  <2>3. Login!TypeOK'
        BY <2>1, <2>2 DEF BackendInv, Login!TypeOK
  <2> QED BY <2>1, <2>3 DEF BackendInv, Login!HandedOutReady, Login!TokenKept, Login!Question,
             Starting, Asking, Challenging, LetIn, ReadyLast, Secured, Wants
<1>2. CASE UNCHANGED Login!vars
  <2>1. UNCHANGED <<cfg, pc, age, secure, scram, spent, peer, up, down>>
        BY <1>2 DEF Login!vars, Login!proxyVars
  <2>2. Login!TypeOK' /\ Login!HandedOutReady' /\ Login!TokenKept'
        BY <2>1 DEF BackendInv, Login!TypeOK, Login!HandedOutReady, Login!TokenKept
  <2>3. Login!Question' = Login!Question
        BY <2>1 DEF Login!Question
  <2> QED BY <2>1, <2>2, <2>3 DEF BackendInv, Starting, Asking, Challenging, LetIn, ReadyLast,
             Secured, Wants
<1> HIDE DEF BackendInv
<1> QED BY <1>1, <1>2, ConnectKeeps, AuthLoopKeeps, ScramKeeps, PeerAsksKeeps, PeerJudgesKeeps,
           PeerChallengesKeeps, PeerDecidesKeeps, PeerReadyKeeps, PeerClosesKeeps
    DEF Login!Next, Login!Proxy, Login!Peer

LEMMA BackendInvariant == Login!Spec => []BackendInv
PROOF
<1>1. Login!Init => BackendInv
      BY BackendInit
<1>2. BackendInv /\ [Login!Next]_Login!vars => BackendInv'
      BY BackendNext
<1> QED BY <1>1, <1>2, PTL DEF Login!Spec

\* The attempt to connect is over when its timer is due, and a backend that
\* create_backend hands out has let the proxy in, has read all the proxy wrote,
\* and has nothing of the login left to be read.
THEOREM HandedOutIsReady == Login!Spec => []LoginInv
PROOF
<1>1. BackendInv => LoginInv
      BY DEF BackendInv
<1> QED BY <1>1, BackendInvariant, PTL

\* The IAM token leaves for the IAM user alone, and in a TLS session wherever
\* the configuration asks for one.
THEOREM TokenIsKept == Login!Spec => []TokenKept
PROOF
<1>1. BackendInv => TokenKept
      BY DEF BackendInv
<1> QED BY <1>1, BackendInvariant, PTL

-----------------------------------------------------------------------------
(* TokenCache, as its theorems are about it: TokenProofs for the cache of      *)
(* BackendAuth, whose Spec and properties it names once more.                  *)

Tokens == INSTANCE TokenProofs

\* Whatever get() serves from the cache of AWS tokens is still accepted, however
\* long the fetch before it took, however many failed and however many wait.
THEOREM ServedTokensAreValid == Tokens!Spec => []TokenInv
<1>1. Tokens!Spec => []Tokens!TokenInv
  BY TokenAssumption, Tokens!TokensAreValid DEF Tokens!Tasks, Tasks
<1>2. Tokens!TokenInv => TokenInv
  BY DEF TokenInv, Tokens!TokenInv, Cache!TokenInv, Tokens!TypeOK, Cache!TypeOK,
         Tokens!ServedWhileValid, Cache!ServedWhileValid, Tokens!Unexpired, Cache!Unexpired,
         Tokens!Tasks, Cache!Tasks, Tokens!States, Cache!States, Tokens!Tokens, Cache!Tokens
<1> QED BY <1>1, <1>2, PTL

=============================================================================
