----------------------------- MODULE BackendAuth -----------------------------
(***************************************************************************)
(* The proxy's end of logging in to a backend: SCRAM exchanges on a        *)
(* network that disturbs them (ScramExchange), create_backend's login      *)
(* (BackendLogin) and the cache it takes tokens from (TokenCache).  The    *)
(* first two use ScramTerms; they share no state.                          *)
(***************************************************************************)
EXTENDS ScramExchange, TokenParams

CONSTANTS ConnectTimeout, DefaultTimeout, MaxAge, Fresh, Stale, Styles

VARIABLES cfg, pc, age, secure, scram, spent, peer, up, down

VARIABLES provider, now, cached, writer, queue, st, since, fetched, failures

Login == INSTANCE BackendLogin
Cache == INSTANCE TokenCache

ASSUME BackendAssumption == Login!BackendAssumption

-----------------------------------------------------------------------------
(* The properties of BackendLogin, stated there *)

\* An attempt is within its limits, and what it hands out is ready.
LoginInv == Login!LoginInv

\* The token goes where it may.
TokenKept == Login!TokenKept

\* The attempt comes to an end.
AttemptEnds == Login!AttemptEnds

-----------------------------------------------------------------------------
(* The properties of TokenCache, stated there *)

\* The token that is served is valid.
TokenInv == Cache!TokenInv

\* Every get() returns.
GetReturns == Cache!GetReturns

=============================================================================
