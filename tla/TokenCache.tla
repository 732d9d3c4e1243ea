------------------------------ MODULE TokenCache ------------------------------
(***************************************************************************)
(* auth/cache.rs: the IAM token shared by all handlers that open backends. *)
(*                                                                         *)
(* get() looks under the read lock, and again under the write lock, which  *)
(* it keeps while it fetches.  The refresh task looks under the read lock, *)
(* fetches without a lock and takes the write lock to store, so its token  *)
(* may replace one that a get() has fetched later.  tokio's RwLock is a    *)
(* queue, of readers and writers alike; what is done under its read lock   *)
(* awaits nothing and is one step.                                         *)
(***************************************************************************)
EXTENDS TokenParams, SequencesExt

VARIABLES
    provider,  \* of the tokens: aws or gcp
    now,       \* the clock
    cached,    \* inner: NoToken or a token
    writer,    \* the task that keeps the write lock across an await, or NoTask
    queue,     \* tasks waiting for the lock, in either mode
    st,        \* where each task is
    since,     \* when each task began its fetch (else 0), or the refresher its sleep
    fetched,   \* when the token was issued that the refresher has in hand (else 0)
    failures

vars == <<provider, now, cached, writer, queue, st, since, fetched, failures>>

(* out       no get() under way; the refresher asleep                      *)
(* looking   waiting for the read lock                                     *)
(* missed    get() has read an expired token or none                       *)
(* queued    waiting for the write lock                                    *)
(* fetching  in get_token                                                  *)
States == {"out", "looking", "missed", "queued", "fetching"}

Tokens == [issued : 0..MaxTime, expires : Nat]

Init ==
    /\ provider \in {"aws", "gcp"}
    /\ now = 0
    /\ cached = NoToken
    /\ writer = NoTask
    /\ queue = <<>>
    /\ st = [t \in Tasks |-> "out"]
    /\ since = [t \in Tasks |-> 0]
    /\ fetched = 0
    /\ failures = 0

-----------------------------------------------------------------------------

Unexpired == cached # NoToken /\ now < cached.expires

Move(t, next) == st' = [st EXCEPT ![t] = next]

BeginFetch(t) == Move(t, "fetching") /\ since' = [since EXCEPT ![t] = now]

\* get() returns a token or an error.
EndFetch(g) == Move(g, "out") /\ since' = [since EXCEPT ![g] = 0]

\* The task asks for the lock ...
Queue(t, mode) == Move(t, mode) /\ queue' = Append(queue, t)

\* ... and has it, alone or for one step.
Granted(t, mode) ==
    /\ st[t] = mode /\ writer = NoTask
    /\ queue # <<>> /\ Head(queue) = t /\ queue' = Tail(queue)

\* Mutant: the provider's limit is taken for the TTL.
StoreForValidity(issued) == cached' = [issued |-> issued, expires |-> now + Validity]

Store(issued) == cached' = [issued |-> issued, expires |-> now + Ttl]

\* An AWS token is signed at some moment of the fetch.  One of GCP comes from the
\* environment or the metadata server's cache, and may be as old as those.
IssueTimes(t) == IF provider = "aws" THEN since[t]..now ELSE {0}

-----------------------------------------------------------------------------
(* get *)

Get(g) ==
    /\ st[g] = "out" /\ Queue(g, "looking")
    /\ UNCHANGED <<provider, now, cached, writer, since, fetched, failures>>

\* Under the read lock: a token that has not expired is returned.
GetHit(g) ==
    /\ Granted(g, "looking") /\ Unexpired
    /\ Move(g, "out")
    /\ UNCHANGED <<provider, now, cached, writer, since, fetched, failures>>

\* Mutant: the block around the first look is left out, and its guard kept.
GetMissKeepsGuard(g) ==
    /\ Granted(g, "looking") /\ ~Unexpired
    /\ Move(g, "missed") /\ writer' = g
    /\ UNCHANGED <<provider, now, cached, since, fetched, failures>>

GetMiss(g) ==
    /\ Granted(g, "looking") /\ ~Unexpired
    /\ Move(g, "missed")
    /\ UNCHANGED <<provider, now, cached, writer, since, fetched, failures>>

\* Other threads read and write between the two locks.
GetUpgrade(g) ==
    /\ st[g] = "missed" /\ Queue(g, "queued")
    /\ UNCHANGED <<provider, now, cached, writer, since, fetched, failures>>

\* Under the write lock: another get() or the refresher may have been faster.
RecheckHit(g) ==
    /\ Granted(g, "queued") /\ Unexpired
    /\ Move(g, "out")
    /\ UNCHANGED <<provider, now, cached, writer, since, fetched, failures>>

RecheckMiss(g) ==
    /\ Granted(g, "queued") /\ ~Unexpired
    /\ BeginFetch(g) /\ writer' = g
    /\ UNCHANGED <<provider, now, cached, fetched, failures>>

GetFetched(g) ==
    /\ st[g] = "fetching"
    /\ \E issued \in IssueTimes(g) : Store(issued)
    /\ EndFetch(g)
    /\ writer' = NoTask
    /\ UNCHANGED <<provider, now, queue, fetched, failures>>

\* `?' returns the error and drops the guard.
GetFails(g) ==
    /\ st[g] = "fetching"
    /\ failures < MaxFailures /\ failures' = failures + 1
    /\ EndFetch(g)
    /\ writer' = NoTask
    /\ UNCHANGED <<provider, now, cached, queue, fetched>>

-----------------------------------------------------------------------------
(* spawn_refresh_task *)

Asleep == st[Refresher] = "out" /\ now - since[Refresher] < CheckEvery
Sleep  == Move(Refresher, "out") /\ since' = [since EXCEPT ![Refresher] = now]

Wake ==
    /\ st[Refresher] = "out" /\ ~Asleep /\ Queue(Refresher, "looking")
    /\ UNCHANGED <<provider, now, cached, writer, since, fetched, failures>>

\* The check, which finds the token still good or begins to fetch.
Check ==
    /\ Granted(Refresher, "looking")
    /\ IF Unexpired THEN Sleep ELSE BeginFetch(Refresher)
    /\ UNCHANGED <<provider, now, cached, writer, fetched, failures>>

RefreshFetched ==
    /\ st[Refresher] = "fetching"
    /\ \E issued \in IssueTimes(Refresher) : fetched' = issued
    /\ Queue(Refresher, "queued")
    /\ UNCHANGED <<provider, now, cached, writer, since, failures>>

RefreshStore ==
    /\ Granted(Refresher, "queued")
    /\ Store(fetched) /\ Sleep /\ fetched' = 0
    /\ UNCHANGED <<provider, now, writer, failures>>

RefreshFails ==
    /\ st[Refresher] = "fetching"
    /\ failures < MaxFailures /\ failures' = failures + 1
    /\ Sleep
    /\ UNCHANGED <<provider, now, cached, writer, queue, fetched>>

-----------------------------------------------------------------------------
(* Specification *)

\* Time passes while a fetch is short of MaxDelay and no task that could have
\* the lock is kept waiting by the runtime.
Tick ==
    /\ now < MaxTime
    /\ \A t \in Tasks : st[t] = "fetching" => now - since[t] < MaxDelay
    /\ \A t \in Tasks : st[t] # "missed"
    /\ writer = NoTask => queue = <<>>
    /\ now' = now + 1
    /\ UNCHANGED <<provider, cached, writer, queue, st, since, fetched, failures>>

GetStep(g) ==
    \/ GetHit(g) \/ GetMiss(g) \/ GetUpgrade(g) \/ RecheckHit(g) \/ RecheckMiss(g)
    \/ GetFetched(g) \/ GetFails(g)

Refresh == Wake \/ Check \/ RefreshFetched \/ RefreshStore \/ RefreshFails

Next ==
    \/ Tick
    \/ \E g \in Getters : Get(g) \/ GetStep(g)
    \/ Refresh

Spec == Init /\ [][Next]_vars

\* get_token answers or fails, and the runtime runs what can run.
FairSpec ==
    /\ Spec
    /\ \A g \in Getters : WF_vars(GetStep(g))
    /\ WF_vars(Check) /\ WF_vars(RefreshFetched \/ RefreshFails) /\ WF_vars(RefreshStore)

-----------------------------------------------------------------------------
(* Properties *)

TypeOK ==
    /\ provider \in {"aws", "gcp"}
    /\ now \in 0..MaxTime
    /\ cached \in Tokens \union {NoToken}
    /\ writer \in Getters \union {NoTask}
    /\ queue \in Seq(Tasks)
    /\ st \in [Tasks -> States]
    /\ since \in [Tasks -> 0..MaxTime]
    /\ fetched \in 0..MaxTime
    /\ failures \in 0..MaxFailures

\* "AWS tokens expire in ~15 min; refresh after 10 min" (auth/cache.rs:45): what
\* get() returns of the cache is never a token AWS has stopped accepting, though
\* the TTL runs from the store and not from the issue, and the refresher may
\* store a token that is older than the one it replaces.
ServedWhileValid == provider = "aws" /\ Unexpired => now - cached.issued < Validity

\* Variables keep their types, and the token that is served is valid.
TokenInv == TypeOK /\ ServedWhileValid

\* Every get() returns, whoever has the lock before it and whatever fetches fail.
GetReturns == \A g \in Getters : st[g] # "out" ~> st[g] = "out"

=============================================================================
