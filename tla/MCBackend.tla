------------------------------ MODULE MCBackend ------------------------------
(* BackendAuth for TLC: a behaviour moves the exchanges, the login or the     *)
(* cache of tokens and leaves the others in an initial state.  A unit of the  *)
(* cache's clock is 100 seconds.                                              *)
EXTENDS BackendAuth

CONSTANTS g1, g2

loginVars == <<cfg, pc, age, secure, scram, spent, peer, up, down>>
cacheVars == <<provider, now, cached, writer, queue, st, since, fetched, failures>>
MCVars    == <<vars, loginVars, cacheVars>>

ExchangeRests ==
    /\ client = [x \in Exchanges |-> NewClient("user", Right, <<x, "client">>)]
    /\ server = [x \in Exchanges |-> NewServer(Right, <<x, "server">>, {<<"salt", x>>})]
    /\ step = [x \in Exchanges |-> "new"] /\ verdict = [x \in Exchanges |-> "none"]
    /\ network = [k \in {"client-first", "server-first", "client-final", "server-final"} |-> {}]

LoginRests ==
    /\ cfg = [tls |-> TRUE, iam |-> TRUE]
    /\ pc = "connecting" /\ age = 0 /\ secure = FALSE
    /\ scram = NoText /\ spent = "not" /\ up = <<>> /\ down = <<>>
    /\ peer = [asks |-> "nothing", style |-> "final", tls |-> TRUE, phase |-> "start",
               scram |-> NewServer(Fresh, <<"server">>, {<<"salt">>})]

CacheRests ==
    /\ provider = "aws" /\ now = 0 /\ cached = NoToken /\ writer = NoTask /\ queue = <<>>
    /\ st = [t \in Tasks |-> "out"] /\ since = [t \in Tasks |-> 0]
    /\ fetched = 0 /\ failures = 0

ExchangesAlone == LoginRests /\ CacheRests /\ UNCHANGED <<loginVars, cacheVars>>
LoginAlone     == ExchangeRests /\ CacheRests /\ UNCHANGED <<vars, cacheVars>>
CacheAlone     == ExchangeRests /\ LoginRests /\ UNCHANGED <<vars, loginVars>>

MCInit ==
    \/ Init /\ LoginRests /\ CacheRests
    \/ ExchangeRests /\ Login!Init /\ CacheRests
    \/ ExchangeRests /\ LoginRests /\ Cache!Init

MCNext ==
    \/ ExchangesAlone /\ Next
    \/ LoginAlone /\ Login!Next
    \/ CacheAlone /\ Cache!Next

\* Fairness is that of BackendLogin and TokenCache.
MCSpec ==
    /\ MCInit /\ [][MCNext]_MCVars
    /\ WF_MCVars(LoginAlone /\ Login!Tick)
    /\ WF_MCVars(LoginAlone /\ Login!TimeOut)
    /\ WF_MCVars(LoginAlone /\ Login!Reading)
    /\ \A g \in Getters : WF_MCVars(CacheAlone /\ Cache!GetStep(g))
    /\ WF_MCVars(CacheAlone /\ Cache!Check)
    /\ WF_MCVars(CacheAlone /\ (Cache!RefreshFetched \/ Cache!RefreshFails))
    /\ WF_MCVars(CacheAlone /\ Cache!RefreshStore)

=============================================================================
