----------------------------- MODULE ScramTerms ------------------------------
(***************************************************************************)
(* auth/scram.rs: ScramClient and ScramServer, with symbolic cryptography. *)
(*                                                                         *)
(* A string of bytes is a set of terms, so that xor is the symmetric       *)
(* difference; a hash, a MAC or a derived key is one term, equal only to   *)
(* itself.  Text in base64 keeps whether it is padded: the code encodes    *)
(* without padding and decodes nothing that has any.                       *)
(***************************************************************************)
EXTENDS Integers, SequencesExt

CONSTANT NoText  \* an Option that is None

Salted(password, salt, iterations) == {<<"pbkdf2", password, salt, iterations>>}
Hmac(key, data)                    == {<<"hmac", key, data>>}
Sha256(bytes)                      == {<<"sha256", bytes>>}

\* Stops at the end of the shorter string.
XorBytes(a, b) == IF {} \in {a, b} THEN {} ELSE (a \ b) \union (b \ a)

\* bytes, whose number is no multiple of three, in base64
B64(bytes)    == [bytes |-> bytes, padded |-> FALSE]
B64Pad(bytes) == [bytes |-> bytes, padded |-> TRUE]
Unb64(text)   == IF text.padded THEN {} ELSE text.bytes

ClientKey(salted) == Hmac(salted, <<"Client Key">>)
ServerKey(salted) == Hmac(salted, <<"Server Key">>)
StoredKey(salted) == Sha256(ClientKey(salted))

-----------------------------------------------------------------------------
(* ScramClient.  Nonces are sequences: the server's is the client's and its *)
(* own joined.  A step that returns an error leaves the object as it was.   *)

NewClient(user, password, nonce) ==
    [user |-> user, password |-> password, nonce |-> nonce, bare |-> NoText,
     serverFirst |-> NoText, salted |-> NoText, message |-> NoText]

\* build_client_first; the message it returns is the bare one.
ClientFirst(c) == [c EXCEPT !.bare = <<c.user, c.nonce>>]

ServerFirstValid(c, m) ==
    /\ IsPrefix(c.nonce, m.nonce)
    /\ m.nonce # <<>> /\ Unb64(m.salt) # {} /\ m.iterations # 0

\* parse_server_first, for a message that is valid
ParseServerFirst(c, m) ==
    [c EXCEPT !.serverFirst = m,
              !.salted = Salted(c.password, Unb64(m.salt), m.iterations)]

\* What both ends sign.
AuthMessage(bare, first, nonce) == <<bare, first, nonce>>

\* build_client_final keeps the message signed and returns nonce and proof.
Prepared(c) == [c EXCEPT !.message = AuthMessage(c.bare, c.serverFirst, c.nonce)]
ClientFinal(c) ==
    [nonce |-> c.nonce,
     proof |-> B64(XorBytes(ClientKey(c.salted), Hmac(StoredKey(c.salted), Prepared(c).message)))]

\* Mutant: the client takes any signature.
AnySignature(c, signature) == c.message # NoText

\* verify_server_final
ServerVerified(c, signature) == signature = B64(Hmac(ServerKey(c.salted), c.message))

-----------------------------------------------------------------------------
(* ScramServer *)

NewServer(password, nonce, salt) ==
    [password |-> password, nonce |-> nonce, salt |-> salt, bare |-> NoText,
     serverFirst |-> NoText, salted |-> NoText]

\* build_server_first
ServerFirstMessage(s, bare) ==
    [nonce |-> bare[2] \o s.nonce, salt |-> B64(s.salt), iterations |-> 4096]
ServerFirst(s, bare) ==
    [s EXCEPT !.bare = bare,
              !.serverFirst = ServerFirstMessage(s, bare),
              !.salted = Salted(s.password, s.salt, 4096)]

\* Mutant: a proof is asked for and not checked.
AnyProof(s, m) == Unb64(m.proof) # {}

\* handle_client_final: whether the proof holds, and the signature returned.
ProofHolds(s, m) ==
    LET message == AuthMessage(s.bare, s.serverFirst, m.nonce)
        key     == XorBytes(Unb64(m.proof), Hmac(StoredKey(s.salted), message))
    IN  Sha256(key) = StoredKey(s.salted)

Signature(s, m) ==
    B64(Hmac(ServerKey(s.salted), AuthMessage(s.bare, s.serverFirst, m.nonce)))

=============================================================================
