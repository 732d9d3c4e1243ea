------------------------------ MODULE TokenParams ------------------------------
(* The parameters of auth/cache.rs (TokenCache). *)
EXTENDS Integers

CONSTANTS
    Getters,      \* tasks that call get(): create_backend's in their auth loop
    Refresher,    \* the task spawn_refresh_task
    Ttl,          \* 600 s after the store a token is no longer served
    CheckEvery,   \* the refresh task sleeps 300 s
    Validity,     \* how long the provider accepts a token ("~15 min")
    MaxDelay,     \* a fetch takes at most this long
    MaxFailures,  \* bound on the fetches that fail
    MaxTime,      \* bound on the clock
    NoTask, NoToken

Tasks == Getters \union {Refresher}

\* The cushion between the TTL and the provider's limit: it has to cover the
\* fetch of the refresh task, the fetch it may then queue behind, and every
\* fetch that fails in that queue.
ASSUME TokenAssumption ==
    /\ Refresher \notin Getters /\ NoTask \notin Tasks
    /\ Ttl \in Nat \ {0} /\ CheckEvery \in Nat \ {0} /\ MaxDelay \in Nat
    /\ MaxFailures \in Nat /\ MaxTime \in Nat /\ Validity \in Nat
    /\ Ttl + (2 + MaxFailures) * MaxDelay <= Validity
    /\ NoToken \notin [issued : Nat, expires : Nat]

=============================================================================
