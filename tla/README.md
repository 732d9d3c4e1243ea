# A TLA+ model of pgb-iam

pgb-iam is a PostgreSQL connection pooler that logs in to the backend with IAM
tokens. This directory holds TLA+ modules of its parts, TLC configurations that
check them on small instances, and TLAPS proofs for instances of any size. Paths
such as `proxy/mod.rs` are relative to `src/` of the repository.

## 1. The system

One process on the multi-threaded tokio runtime. `lib.rs` builds one
`PoolManager`, starts the token cache's refresh task, the health checker, the
metrics and admin servers, and then runs the accept loop, which spawns one
handler per client. Handlers, warm-up tasks and the HTTP servers share the
`PoolManager`; handlers that create backends share the `TokenCache`.

| Component | State | Operations | Interacts with |
|---|---|---|---|
| Pool (`pool/mod.rs`) | per key: semaphore (map under an RwLock), deque of parked connections (map under one Mutex); limits; `client_count` | `acquire`, `release`, `cancel`, `needs_warmup`, `stats_for`, `global_stats` | handlers, warm-up tasks, admin, metrics |
| Handler (`proxy/mod.rs`) | its stage; the backend it owns | `handle_client`, session relay, first acquire, warm-up | pool, `create_backend`, client socket |
| Transaction loop (`proxy/mod.rs`) | `server`, `in_transaction`, `prepared`, `tx_start`; three timers | `transaction_loop`, `acquire_backend`, `run_reset_query` | pool, client and backend streams |
| Client login (`proxy/mod.rs`, `auth/*`) | the stage of the dialogue, TLS or not, the method in force | initial message, TLS, HBA rules, eight login methods | client socket, LDAP, PAM, an auth database |
| `create_backend` (`proxy/mod.rs`) | the stage of the dialogue, the `ScramClient` | connect, TLS, startup, authentication, SCRAM | backend socket, token cache |
| SCRAM (`auth/scram.rs`) | client and server of one exchange | four messages and their checks | both logins |
| Token cache (`auth/cache.rs`) | one optional token under an RwLock | `get`, `spawn_refresh_task` | `auth::get_token` (`aws.rs`, `gcp.rs`) |
| Codecs (`pgproto`) | none | read and write messages | all streams |
| TLS (`tls/mod.rs`) | none: built anew per connection | configuration, accept, connect | certificate files, both sockets |
| Health, admin, metrics | a health status | `check`, `/stats`, `/health`, `/metrics` | pool statistics |
| Program (`lib.rs`, `config`, `log`, `main`) | configuration | `run`: the order of the start | all |

What is hard, and what makes each part correct:

* **Pool.** A permit is counted in three places: free in the semaphore, with a
  parked connection, or with a task. The semaphore map, the deque and the
  semaphore have three different locks, and `acquire` and `release` pass through
  them in several steps. Correct: no permit is lost or invented, the reserve is
  never parked, an expired connection is never handed out, nobody waits for a
  lock that is never released, and a task that waits is served.
* **Statistics.** Reports are put together from permits and deques read at
  different moments, under a lock whose waiting writers hold up readers. Correct:
  what is added up belongs to one moment, and the locks stop nobody for good.
* **Handlers.** A backend is taken in four places and given back in a dozen, many
  of them error paths; a length no message has panics the task. Correct: each path
  returns the permit once, and no backend is parked before it was reset.
* **Transaction loop.** The backend answers in order, and the loop has no record of
  the answers outstanding; timers are armed anew at each message; the read that
  loses a `select!` is dropped. Correct: each client gets the answers to its own
  statements, in its own session, a parked backend has nothing pending, no
  transaction outlasts its timer, and no message is torn while the sides speak in turns.
* **Logins.** Which method is in force depends on TLS, on the order of the rules
  and on the type; services fail or answer in part; servers differ in how they end
  a login. Correct: each method demands its own evidence, a refusal is told, the
  token leaves only as configured, a backend is handed out with nothing unread, an
  attempt ends, and SCRAM accepts only the client that knows the password.
* **Token cache.** The refresh task and the handlers fetch at the same time, one
  without and one with the lock, and a token may be old when it is fetched. Correct:
  no token is served after the provider has stopped accepting it, and every `get`
  returns.
* **Set-up.** A check that hangs makes the status old; a server whose address is
  taken fails in its own task; offsets of the startup message are computed from
  what it says. Correct: an outage is told in time, the proxy comes up, what is
  written is read back, and TLS is as it was configured.

`PROJECT.json` lists these hazards one by one at the lines where they bite.

## 2. The modules

| Module | Models | Built on |
|---|---|---|
| `SlotLedger` | what the pool promises: each slot free, parked or in use | |
| `LossyLedger` | what its callers make of that promise: a slot may get lost | extends `SlotLedger` |
| `PoolManager` | `pool/mod.rs`, one action per stretch of code between two awaits | refines `SlotLedger` |
| `PoolStats` | `stats_for` and `global_stats` beside the tasks | extends `PoolManager` |
| `Proxy` | handlers of both modes and warm-up tasks as callers of the pool | extends `PoolManager`, refines `LossyLedger` |
| `PgSession` | what a statement does to a PostgreSQL session, and its answer | |
| `PrivateSessions` | what transaction mode promises a client: a backend of its own for each transaction | extends `PgSession` |
| `TxnWire` | `transaction_loop` and `run_reset_query` message by message, on a backend that may fail | extends `PgSession`, refines `PrivateSessions` |
| `LoopParams` | the timeouts, and what the two sides say | |
| `TxnTimers` | the same loop with its clock and three timers | extends `LoopParams` |
| `Frames` | its `select!`: messages that arrive in fragments | extends `LoopParams` |
| `Relay` | both, for one theorem module | extends `TxnTimers`, instance of `Frames` |
| `Loop` | the three views of the transaction loop side by side | extends `TxnWire`, instances of `TxnTimers`, `Frames` |
| `LoginParams` | configurations, users, answers to a lookup | |
| `ClientLogin` | `handle_client` to the verdict of `authenticate_client` | extends `LoginParams` |
| `ScramTerms` | `ScramClient` and `ScramServer` with symbolic cryptography | |
| `ScramExchange` | exchanges of the two over a bad network | extends `ScramTerms` |
| `BackendLogin` | `create_backend`, `do_scram_client_auth` against servers of every kind | extends `ScramTerms` |
| `TokenParams` | the cache's limits and what they assume | |
| `TokenCache` | `auth/cache.rs` | extends `TokenParams` |
| `BackendAuth` | the exchanges, the login and the cache side by side | extends `ScramExchange`, instances of `BackendLogin`, `TokenCache` |
| `StartupCodec` | `read_initial_message`, `write_startup_message` | |
| `TlsSetup` | `tls/mod.rs`, for one connection after another | |
| `Program` | `run` of `lib.rs`, the health checker, `GET /health` | |
| `Setup` | program, startup message and client login side by side | extends `Program`, instances of `StartupCodec`, `ClientLogin` |
| `PoolProofs` | theorems about `PoolManager` and `PoolStats` | |
| `ProxyProofs`, `RelayProofs`, `TokenProofs`, `LoginProofs` | theorems about `Proxy`, `Relay`, `TokenCache`, `ClientLogin` | |
| `WireProofs`, `BackendProofs`, `SetupProofs` | theorems about `Loop`, `BackendAuth`, `Setup` and their parts | instances of `RelayProofs`, `TokenProofs`, `LoginProofs` |
| `MCPool`, `MCStats`, `MCProxy`, `MCWire`, `MCTls`, `MCLoop`, `MCBackend`, `MCSetup` | constants for TLC | one module each |

`Loop`, `BackendAuth` and `Setup` put modules side by side that share no state. In
their runs a behaviour moves one part and leaves the others in an initial state, so that TLC visits the sum of their
states and not the product, and each property is checked in all behaviours of its
own part.

Definitions called *Mutant* in a comment are plausible bugs in the definition
that follows. They belong to no specification; each shows that some property
would notice.

### PoolManager

`Tasks` are tokio tasks between a call of `acquire` and the `release` or `cancel`
that ends it. `st[t]` is where a task is, `key[t]` the pool it asked for,
`conn[t]` its connection with its `born_at`. `sems` and `pools` are the keys of
the two maps, `permits` and `waiters` the state of each semaphore, `idle` the
deques, `lock` the task that keeps the pools mutex from one step to the next.

| Code | Actions |
|---|---|
| `get_or_create_semaphore`, read lock | `Acquire` |
| same, write lock | `InsertSemaphore` |
| `acquire`, one turn of the idle loop | `ScanHit`, `ScanExpired`, `ScanEmpty` |
| `acquire`, `sem.acquire()` | `TakePermit`, `Enqueue`; a queued task goes on inside `AddPermit` |
| `create_backend` | `StartCreate`, `CreateOk` |
| `cancel` | `Cancel` |
| `release`, up to the mutex | `Release` |
| `release`, under the mutex | `Park` |
| `release`, after the drop | `ReturnPermit` |

The loop keeps the mutex while it drops expired connections, so `ScanExpired`
leaves `lock` set and only that task goes on. `add_permits` hands the permit to
the task queued longest (tokio's semaphore is fair), which is why `AddPermit`
moves two tasks. The semaphore map's insertion inside `release` and `cancel` is
one step with the `add_permits`: their tasks have been through `acquire`, so the
entry exists.

Time is a clock that `Tick` advances up to `MaxTime`; both timeouts are compared
as the code does, with `>=`.

### Proxy

`pc[t]` is the stage of a handler or a warm-up task, and `mode` the pooling mode.
A call into the pool is an action of `PoolManager` conjoined with a change of
`pc`; the handler goes on when `st` shows that the call has returned. `leaked` is a
history variable: it counts the permits whose owner ended without giving them back.
Things that go wrong outside (`Fail`) are bounded by `MaxFailures`. A stream is

| `ready` | as `create_backend` or a reset that returned true left it |
|---|---|
| `used` | a client's messages went to it |
| `torn` | used, and read from the middle of a message on |
| `mute` | used, and its server neither answers nor closes |
| `failed` | used, and broken before it was reset |
| `dead` | closed |

* `LoginEnds`, `LogStats`: the dialogue up to authentication is one step. The
  reading of the statistics is left out, the semaphore that `stats_for` inserts is
  not.
* `CreateFails` is the `?` after `create_backend` in `acquire_session_backend` and
  `acquire_and_release_initial`; `DemandFails` the failure in `acquire_backend`.
* `Panics`: `read_pg_message` subtracts 4 from a length and allocates the rest
  (`pgproto/mod.rs:77`), so that a length below 4 ends the handler; what the
  connection is set up with may panic too (section 4, TLS). `ClientTracker` counts
  the client out, the backend is dropped, and its permit is gone (`LosesSlot`),
  since `acquire` has made the semaphore forget it. `WarmPanics` is the same in a
  warm-up task.
* `RelayEnds`: `copy_bidirectional` returns without an error only after it has
  shut down both directions, so the backend is dead unless it was the client's
  side that failed. The server may then have been in the middle of a message, and
  the reset reads its rest: the stream is torn.
* `Tears` is the read that `select!` drops (see `Frames`).
* `run_reset_query` returns true (`ResetAndRelease`), returns false (`Drop`), panics,
  or does not return: on a silent server it waits without a limit, and on a torn
  stream it may take anything for a ReadyForQuery, or wait.
* `Settle` releases even when the reset failed, `ErrorReset` and `Close` then
  cancel.
* `SpawnWarmup` reads the deque's length and spawns; the warm-up tasks then run
  by themselves.

### TxnWire

One backend connection and the handlers that use it in turn. `requests` and
`answers` are the two directions of the stream. The backend (`Execute`) answers
every statement with CommandComplete or ErrorResponse, then ReadyForQuery with
the transaction status. `by` says whose statement a message belongs to; the code
does not know it, only the properties look at it. `habits` is what the clients of
a behaviour do beyond sending one statement at a time to its end: `fails`,
`prepares`, `pipelines`, `breaks off`.

`Forward` and `ServerEnds` are the `ServerMsg` branch, `Send` the `ClientMsg`
branch, `BeginReset`, `ReadReset` and `ResetFails` are `run_reset_query` with what
follows it, `ReadDeallocate` is the loop that reads one message per DEALLOCATE, and
`Leave` the exits of the loop, Terminate among them.
Statements of the extended protocol are modelled as one exchange each; that they
are not recognised as BEGIN is (`mentionsBegin`).

`Fails` closes the connection at any moment: what was not executed is lost, and any
part of the answers that were on their way. The handler learns of it by a write that
fails, which it may or may not do, or at the end of the stream. After 'I' it parks
the backend although the reset failed, and its own flag stays as it was; on any other
occasion it drops the backend, and a new one takes its place (`ResetFails`).

`PrivateSessions` has no pool: each client asks, is answered by a session of its
own, and loses that session at ReadyForQuery 'I' or when it or its backend comes to
an end. `Transparent` says that for orderly clients `TxnWire` implements it: what
the owner's handler has under way is the owner's (`ownRequest`, `ownReplies`), the
session is the owner's while its loop runs (`ownSession`), and everybody else has a
new one. Resets map to stutters.

### TokenCache

`writer` is the task that keeps the write lock across an await (only `get` does),
`queue` the tasks waiting for the lock, readers and writers in one line, as in
tokio's fair RwLock; a look under the read lock awaits nothing and is one step.
`since` is when a fetch began. `provider` decides how old a token may be
(`IssueTimes`): AWS's is signed at some moment of the fetch; a GCP token comes from
the environment or from the metadata server's cache and may have any age, which
nothing in the program looks at. `ServedWhileValid` is therefore about AWS.
`TokenAssumption` names what the code relies on and does not check: AWS's limit
has room for the TTL and for the delays between the issue of a token and its store.

### PoolStats

A reader is a handler about to log or an HTTP request. `rpc[r]` is where it is,
`todo[r]` the entries it has yet to visit, `report[r]` what it has added up,
`reader` the one that has the pools mutex. `StatsPermits` and `StatsReturn` are
the two halves of `stats_for`, on either side of `pools.lock().await`, with
`StatsInsert` for a semaphore that is missing; `GlobalStart`, `GlobalLock`,
`GlobalVisit` and `GlobalReturn` are `global_stats`, which keeps the read lock of the
semaphores map while it waits for the mutex. `line` is the queue of that lock. It is
tokio's, which prefers writers: who looks a semaphore up waits behind every writer
that asked before, and a writer behind everybody (`MayRead`, `MayWrite`). `Joins` is
a request that has to wait. `TaskStep` is a step of `PoolManager` held up by these
locks. A permit is an atomic that tasks go on changing while a reader has the mutex,
so `GlobalVisit` reads them one entry at a time.

### TxnTimers

One client's loop. `where` is `select`, or one of the two places outside the
`select!` in which no timer runs: `acquiring` and `resetting`. Times are ages:
`sinceArmed` that of the sleeps, `sinceTx` is `tx_start.elapsed()`, `txAge` the
age of the backend's transaction, which the code does not know, and `stepAge` that of the statement or pause it is
in. `Arm` is the turn
of the loop, at the end of every action that reads a message. `expired` is the case
in which no time remains when the loop turns: then it does not listen. The backend
runs one statement after another; `mention` is a query with the word BEGIN in it,
`parsed` one that opens a transaction unnoticed. `carried` is a history variable:
the flag stems from a backend given back after a reset that failed.

### Frames

Each stream is counted in pieces, the first of a message with its type and length.
`plan` says where the messages of both sides end, how many messages of the other
each of them waits for (`after`), and who speaks in pieces (`split`). `arrived`
is how far a stream can be read, `taken` how far it has been, `from` where the read
of this turn began, `passed` what went to the other side, as places of the stream.
`Poll` lets one read go as far as it can; when it completes a message (`Pass`),
both reads begin anew where their streams are, as `tokio::select!` drops the future
that loses: what that one had taken is gone. A read that begins in the middle of a
message finds any length there. `dropped` is a history variable: that has happened.

### ClientLogin

The configuration, the client and the answers of PostgreSQL, PAM and the directory
are chosen freely. `Load` is the start of the program as far as the type's name
goes. `SslRequest`, `Handshake`, `StartupMessage`, `CancelRequest`, `ShortCancel`
are the first messages in any order; `Authenticate` chooses the method and settles
those that need no answer; `PasswordMessage` and `Check` are the rest of the others.
`Applies` is the test in `authenticate_client` and `MatchRule` that of
`auth/hba.rs`, which nothing calls. An auth query is read message by message, with
how far it has come in `lookup`: `StartLookup`, `ReadReply`, and `UseLookup` with
what it found, or `AuthenticateScram`. `evidence` is what a credential was checked
against.

### ScramTerms, ScramExchange

A string of bytes is a set of terms: xor is then the symmetric difference, and a
hash or MAC is a term equal only to itself. Base64 text keeps whether it is padded.
Each exchange has a `ScramClient`, which knows some password, and a `ScramServer`,
which knows the right one. `network` has all messages ever sent, and an action may
take any of its kind: a message may be lost, late, repeated, or come from another
exchange. `Begin`, `Challenge`, `Answer`, `Decide`, `Verify` are one call each, with
the objects' messages as they make them. `ChallengeFramed` is the challenge as
`do_scram_server_auth` passes it: it keeps the length in front of the client's first
message and puts a NUL behind its own, so that no client can read the iterations.

### BackendLogin

`peer` is a server that asks for nothing, a password, MD5, SCRAM or something the
proxy does not know (`Question`), in one of four styles of SCRAM; `up` and `down` are
the two directions. `Connect`, `TimeOut`, `Ssl`, `AuthLoop`, `Challenged`, `FinalLoop`,
`Startup` are `create_backend` from one read to the next, `Eof` the end of the
stream at any of them. `spent` is a history variable: how the token went out. The
token may be stale, and fetching it may fail; what makes it stale is `TokenCache`'s
subject.

### StartupCodec

The loop that reads takes one step per pair (`Parameter`), with offsets as in the
code; the words "user" and "database" stand for one byte each. `ReadLength`
subtracts modulo `Word`. `Rewrite` begins a new message from what was read,
`WriteParameter` is one turn of the loop that writes, with `next` and `sent`, and
`WriteEnd` sends the message, which is then read again. It must fit `MaxLen`, as no
message that can be sent is longer than an i32 says.

### TlsSetup

`Build` is `load_server_config` (`Accepting`) or `load_client_config` (`Connecting`)
with `build_provider_with_ciphers`: a configuration, an error or a panic.
`Handshake` is what rustls makes of a configuration and the other end, `Again` the
next connection, with files that may have changed.

### Program

`pc` goes through `run`: `Load`, `InitLogging`, `StartToken`, `StartHealth`,
`StartMetrics`, `StartAdmin`, `Listen`. `ServerFails` ends a task whose address is
taken. `CheckBegins`, `CheckEnds` are the health checker, `HealthAnswer` what
`GET /health` says. A check of a backend that is down may fail at once or hang up to
its timeout.

## 3. The runs

| Run | Checks | Shows |
|---|---|---|
| `pool` | `TypeOK`, `SlotConservation`, `QueuedOnlyWhenFull`, `ReserveIsNotParked`, `HandsOutFresh`, `LedgerSpec` | the pool keeps its books in every interleaving, and implements `SlotLedger` |
| `pool_starve` | `WaitersAreServed`, violated | a queued task is not woken by a release |
| `stats` | `GlobalExact`, `EveryoneGetsThrough` | what `global_stats` adds up; readers and tasks do not block each other for good |
| `proxy` | `ProxyInv`, `UsedNeverParked`, `LossyLedgerSpec`, `GivesBack` | all paths but a failed first creation and a panic return the permit once; no working backend is parked without its reset; what is over is given back unless the reset waits for ever |
| `proxy_leak` | `SlotConservation`, violated | a failed first creation loses its permit |
| `proxy_unreset` | `ParkedWereReset`, violated | a backend whose reset failed is parked |
| `wire` | `WireInv`, `OrderlyParked`, `Transparent`, `ResetEnds`, `Answered`, `StepsAreTimed`, `TimerNotAhead`, `FramesInv`, `AllPassed` | orderly clients cannot tell the shared backend from one of their own, also when it fails; the reset ends for all; no step of a transaction outlasts its timer; messages are passed on whole unless a read is dropped that had begun, and none is while the sides speak in turns |
| `wire_drain` | `ParkedIsQuiet`, violated | a DEALLOCATE leaves its ReadyForQuery behind |
| `relay_tx` | `TransactionBounded`, violated | a transaction of several statements outlasts `transaction_timeout` |
| `backend` | `LoginInv`, `TokenKept`, `OnlyTheRight`, `VerifiedMeansAccepted`, `AttemptEnds`, `TokenInv`, `GetReturns` | a backend is handed out logged in and read empty; SCRAM accepts nobody but the right client; AWS tokens are served while valid, and every `get` returns |
| `setup` | `TypeOK`, `OutageTold`, `RoundTrip`, `PanicsOnlyMalformed`, `ProxyComesUp`, `LoginInv`, `FirstMatchDecides`, `RefusalIsTold` | start, health status and startup message; a client is admitted by the method in force, on the evidence it demands |
| `tls_min` | `MinimumIsAMinimum`, violated | with a minimum of 1.2 an end that speaks only 1.3 gets no session |

**Bounds.**

* `pool`: three tasks, so that one can hold the lock, one be queued and one
  release; two pools, one of which is a user's override without reserve; limits 2+1
  and 1+0, so that the deque, the reserve and the semaphore all run out; the idle
  timeout 1 and the lifetime 2 within 3 ticks, so that a connection can expire
  either way, also between `Release` and `Park`. The tasks are symmetric.
  `pool_starve`: two tasks, one slot, fifo; two tasks suffice, one to hold and one
  to wait.
* `stats`: two tasks and one reader on a pool of 1+1 slots and one of 1; both tasks
  can move permits between two steps of the reader, and, since there are two
  semaphores to insert, a writer can ask while the reader has the map and a
  look-up come after the writer.
* `proxy`: two clients and a warm-up task on 1+1 slots, one tick and a lifetime of
  one, so that what is parked may be expired when the third task finds it. One
  failure, panic or silence, of whichever kind, at any moment; torn streams are not
  counted. `proxy_leak` and `proxy_unreset` need one failure as well, and no time.
* `wire`, messages: two clients, five statements when orderly (a transaction with an
  error in it and a statement of the other client fit), three when clients have every
  habit; one failure, at any moment, so that the failed backend is met by its owner,
  by its reset and, once parked, by the other client. Timers: `transaction_timeout`
  2, `client_idle` 3, `query_wait` 4, ages up to 5: three different timers, each of
  which can be the next to go off. Fragments: three or four messages a side, whole and
  at once, and in pieces and in turns; and two plans in which the sides speak at once
  and one of them or both in pieces, so that reads are dropped. All ways to cut the
  streams are tried. `wire_drain`: three statements of clients that name them, and no
  failure. `relay_tx`: as the timers of `wire`.
* `backend`: timeouts 2 (configured) and 1 (default), four styles of server, six
  things it may ask for; two exchanges at once, which is what it takes to deliver a
  message to the wrong one, and two passwords. The cache: units of 100 s, TTL 6, check
  every 3, limit 9, two handlers, one failure, 12 units: the first fetch, its
  expiry, and the refresh that races with the handlers after it. The limit is tight:
  with 8 the property fails.
* `setup`: interval 2, timeout 1, ages to 4; up to seven bytes after the code: room for
  two pairs, in any order, and for all that can be missing at their end. `Word` is
  64 and `MaxLen` 31, so that lengths from -1 wrap, and those beyond isize::MAX
  cannot be had. The login: 320 configurations (each type with each source of
  passwords, and lists of up to three rules that differ in connection type, user,
  address and method), two users, addresses and passwords, one database, nine
  sequences of answers to the query, among them errors, NULL columns, two rows and a
  stream that ends early.
* `tls_min`: suites, lists and other ends in each way that counts, two suites per
  version.

**Deadlock** is checked in `pool`, `pool_starve` and `stats`. It is not in the runs
of `MCProxy`: a leaked permit or a starved task does leave everybody waiting, which
is what `proxy_leak` and `pool_starve` are about. The others end: at their bounds, or
because the dialogue is over.

**Fairness.** The runtime runs every task that can run: weak fairness on the steps
inside calls. tokio's Mutex is fair: strong fairness on the steps that need the
pools mutex, and in `stats` on readers and on the head of `line` as well. Callers
need not call again. `EagerSpec` (`pool_starve`) adds that callers give back what
they hold, so the starvation is not the callers' doing. Of the reset query `proxy`
assumes only that it comes to an end on a stream that is neither torn nor silent;
`GivesBack` says so. The messages of `wire` assume that the backend answers the reset
query or closes. `backend` assumes that time passes, that the proxy's task runs and
that a stream that was closed says so; the server owes nothing, which is why
`AttemptEnds` promises an end of the attempt only after a timeout or a close. Of the
cache it assumes that a fetch comes to an end within `MaxDelay`, and that the runtime
is prompt compared with the unit of the clock. `AllPassed` assumes that streams
deliver and that the loop polls both. `setup` assumes that `run` goes on; the
checker's promptness is in the guards of `Tick`.

## 4. What the runs found

Six runs violate what the documentation says; each is a `findings` entry with the
line it contradicts.

1. `release` parks a connection with its permit and does not wake the tasks
   queued in `acquire`. Such a task waits until some permit is returned.
2. `acquire_session_backend` and `acquire_and_release_initial` return the error of
   `create_backend` without `cancel`. After capacity many failures the pool is
   full of nothing.
3. The loop under "Drain until ReadyForQuery" reads one message. The next client
   of the backend reads the ReadyForQuery left behind as its own; its statement's
   answer is then taken for the reset's.
4. After ReadyForQuery 'I' a backend is released whether or not its reset worked
   (`proxy/mod.rs:952`, README:331): the next client that sends is the one to lose its
   connection. Such a backend is broken, so that nothing of the last client's session
   is seen through it; `UsedNeverParked` says that all others are reset, and
   `ParkedIsReset` is stated for backends that are alive. In `PrivateSessions`
   a client may be ended by a backend that failed before it had it.
5. `tx_start` is set at every ReadyForQuery 'T' (`proxy/mod.rs:958`, README:325), so
   that a transaction of short statements is never too long. `StepsAreTimed` says
   what is bounded.
6. `min_protocol_version` is the one version enabled (`tls/mod.rs:72`, README:435).

The models show more places where the code and its `README.md` (or a comment) part.
They are in the modules as the code has them; no run is about them, and where a
property would stumble over one, it is stated for the rest, as its comment says.

*Pool and statistics*

* A warm-up task calls `acquire`, gets the parked connection and puts it back
  (`proxy/mod.rs:1087`): `min_size` above one is not reached (README:319).
* `client_max` is logged and exported, and compared with nothing (README:332).
* An `idle_timeout_secs` of 0 makes every parked connection expired
  (`pool/mod.rs:236`), where 0 is to disable a timeout (README:334).
* `stats_for` reads permits before it waits for the mutex (`pool/mod.rs:319`): the
  difference can fall below 0. A build with overflow checks panics, which ends a
  handler that has no slot yet; any other logs a number near 2^64. No property is
  about this value, on which nothing depends.
* `global_stats` visits pools that have parked something once (`pool/mod.rs:355`);
  slots in use of others are not among "active" (`metrics/mod.rs:30`).

*Handlers*

* `read_pg_message` takes any length (`pgproto/mod.rs:77`). One below 4 panics the
  handler, be it from a client, from a server, or read in the middle of a message;
  with a backend assigned its permit is lost, as in item 2. `LossyLedgerSpec` and
  `ProxyInv` count these.
* A session relay that ends in the middle of a server's message, and a read that was
  dropped (below), leave a torn stream to `run_reset_query`, which reads on from
  there: it may panic, wait for ever, or take what it finds for ReadyForQuery, and
  the backend is then parked torn. `GivesBack` promises nothing for it.
* `run_reset_query` has no timeout (`proxy/mod.rs:1031`): a server that does not
  answer keeps the handler and its slot.

*Transaction loop*

* `run_reset_query` accepts the first ReadyForQuery, of any status and after any
  error (`proxy/mod.rs:1034`). A client that leaves in a transaction leaves a failed
  transaction to the next one (README:331). `Transparent`, `OwnSession`,
  `OrderlyParked`, `FlagFollowsBackend` and `Answered` are stated for orderly clients
  for this reason: an error outside a transaction, pipelining and leaving early all
  lead to this or to item 3.
* After a reset that failed `in_transaction` stays set with its old `tx_start`
  (`proxy/mod.rs:949`): the next transaction is cut short. This is `carried` in
  `TxnTimers`; `FlagFollowsBackend` says that the flag is right until a backend fails.
* `client_idle` is armed in transactions and while a statement runs
  (`proxy/mod.rs:840`, README:324), and `query_wait` is not armed while the handler
  waits for a backend (`proxy/mod.rs:874`, README:326).
* A message that completes while one of the other side is half read drops that half
  (`proxy/mod.rs:837`), and the rest is read as a header. It takes two sides that
  speak at once: a client that sends its next message before it has been answered
  (pipelining, COPY, Sync after a Flush) and one side's message in pieces.
  `NothingDropped` says when it does not happen, and `AllPassed` is stated for that.

*Logins*

* `type` is spelled `scramsha256` and `authquery` (`config/mod.rs:123`), not as in
  README:364.
* The name of the mechanism, 14 bytes, is copied to 13 (`proxy/mod.rs:511`): every
  SCRAM login of a client panics its handler. Were it not for that, the framing
  behind it would refuse every client, the right one too: the length in front of
  client-first is taken for a part of it (`proxy/mod.rs:522`), and a NUL is sent
  behind server-first (`proxy/mod.rs:527`), where `auth/scram.rs:94` and other clients
  look for a number. Towards a backend no length is sent (`proxy/mod.rs:740`).
  `OnlyTheRight` says that nobody is accepted by mistake; that the right client is
  accepted is said nowhere, because it is not.
* A cancel request is looked for among messages of length 8 (`pgproto/mod.rs:95`)
  and has 16: it is refused as a startup message (README:147).
* The database of an HBA rule is compared with the user's name, `sameuser` always
  holds, and an address that cannot be parsed is not compared (`proxy/mod.rs:312`,
  README:402; `auth/hba.rs:36` has it otherwise). `FirstMatchDecides` covers the
  rules that hold for all databases and have an address.
* With TLS enabled a client may still start without it (`proxy/mod.rs:118`,
  README:437).
* Only the TCP connect is under `server_connect_timeout` (`proxy/mod.rs:608`,
  README:323): a server that accepts and says nothing keeps the attempt and its slot
  for good; and 0 stands for 15 s (`proxy/mod.rs:605`, README:334).
* SASLFinal is unknown to the client side (`proxy/mod.rs:776`), which fails after
  the server has accepted it; the server side of the file sends one (line 544).
* A padded salt cannot be read (`auth/scram.rs:45`).
* A refusal is told after a check (`RefusalIsTold`); where the check could not be made
  it may end in silence (`proxy/mod.rs:405` and `441`).
* A GCP token is cached for ten minutes whatever its age: one of the environment
  (`auth/gcp.rs:4`) may have been issued at any time, and `expires_in` of one of the
  metadata server (`auth/gcp.rs:38`) is not looked at.

*Set-up*

* `/health` without a checker answers with doubled braces, which is no JSON
  (`proxy/admin.rs:55`, README:464); `health_check` has no default
  (`lib.rs:135`, README:472).
* TLS without `ciphers` (README:434: optional) panics on every connection
  (`tls/mod.rs:84`, `87`, `162`, `168`): rustls is compiled with two providers
  (`Cargo.lock`) and none is installed. So does a `client_ca` (`tls/mod.rs:51`), whose
  verifier is built without a provider. The panic of a connection to a backend is one
  of those that lose a permit.
* A certificate of the CA file that cannot be used is an error for clients
  (`tls/mod.rs:41`) and passed over for backends (`tls/mod.rs:135`).

## 5. What is proved

Each theorem holds for all values of the constants that satisfy the ASSUMEs of its
module. Each module's first part is its inductive invariant, then come lemmas, one
per action, and last the theorems.

| Module | Theorem | States |
|---|---|---|
| `PoolProofs` | `PoolInvariant` | `Spec => []PoolInv` |
| | `TypeCorrect` | `Spec => []TypeOK` |
| | `SlotsConserved` | `Spec => []SlotConservation` |
| | `ReserveNotParked` | `Spec => []ReserveIsNotParked` |
| | `QueuedWhenFull` | `Spec => []QueuedOnlyWhenFull` |
| | `FreshHandedOut` | `Spec => HandsOutFresh` |
| | `ImplementsLedger` | `Spec => LedgerSpec` |
| | `GlobalIsExact` | `StatsSpec => GlobalExact` |
| `ProxyProofs` | `HandlersInvariant` | `ProxySpec => []HandlersInv` |
| | `UsedIsNeverParked` | `ProxySpec => []UsedNeverParked` |
| | `SlotsAreKept` | `ProxySpec => []SlotsOrLeaked` |
| | `ImplementsLossyLedger` | `ProxySpec => LossyLedgerSpec` |
| | `HandlersOwnWhatTheyUse` | `ProxySpec => []ProxyInv` |
| `WireProofs` | `WireTypes` | `Spec => []Typed` |
| | `StagesAreKept` | `Spec => []OrderlyInv` |
| | `OwnSessions` | `Spec => []WireInv` |
| | `ParkedInOrder` | `Spec => []OrderlyParked` |
| | `AnswersAreMatched` | `Spec => AnswersMatch` |
| | `PoolingIsTransparent` | `Spec => Transparent` |
| | `NoStepOutlastsTheTimer` | `Relay!Spec => []StepsAreTimed` |
| | `NoTransactionIsCutShort` | `Relay!Spec => []TimerNotAhead` |
| | `MessagesStayWhole` | `Relay!Streams!Spec => []FramesInv` |
| `RelayProofs` | `TypesAreKept` | `Spec => []TypeOK` |
| `BackendProofs` | `VerifiedIsAccepted` | `Spec => []VerifiedMeansAccepted` |
| | `OnlyTheRightAccepted` | `Spec => []OnlyTheRight` |
| | `HandedOutIsReady` | `Login!Spec => []LoginInv` |
| | `TokenIsKept` | `Login!Spec => []TokenKept` |
| | `ServedTokensAreValid` | `Tokens!Spec => []TokenInv` |
| `SetupProofs` | `ProgramTypes` | `Spec => []TypeOK` |
| | `OutageIsTold` | `Spec => []OutageTold` |
| | `OnlyMalformedPanics` | `Codec!Spec => []PanicsOnlyMalformed` |
| | `WrittenIsReadBack` | `Codec!Spec => []RoundTrip` |
| | `ClientsEarnAdmission` | `Login!Spec => []LoginInv` |
| | `FirstMatchIsInForce` | `Login!Spec => []FirstMatchDecides` |
| | `TheRefusedAreTold` | `Login!Spec => []RefusalIsTold` |

The theorems about `Relay!Spec`, `Tokens!Spec` and, in `SetupProofs`, `Login!Spec` are
those of `RelayProofs` (`StepsOfTransactionsAreTimed`, `OnlyLeftoversCutShort`,
`MessagesAreWhole`), `TokenProofs` (`TokensAreValid`) and `LoginProofs`
(`AdmissionIsEarned`, `TheFirstMatchDecides`, `RefusalsAreTold`), where the argument is,
stated for the parts of `Loop`, `BackendAuth` and `Setup` that the runs check.
`Relay`, `Tokens` and `Login` are instances of these proof modules, so their `Spec` is
that of `TxnTimers`, `TokenCache` and `ClientLogin`.

**Pool.** The inductive invariant is `PoolInv == TypeOK /\ TasksOK /\ QueuesOK /\
SemsOK`. `TypeOK` alone is not inductive: `AddPermit` moves the head of a queue to
`granted`, and for the books to balance that task must have been `waiting`, for
this key, and in the queue once (`QueuesOK`); a task in a call must have a key
and a connection (`TasksOK`). `SemsOK` says that a task past the lookup finds
its semaphore in the map, so `InsertSemaphore` cannot give a pool new permits
while some are out, and that a semaphore with a queue has no permit, which is
what makes a queue mean that the pool is full. `SlotConservation` is inductive
together with `PoolInv`: each action is shown to change `freeSlots`, `parkedSlots`
and `usedSlots` of one pool by one in opposite directions or not at all;
`usedSlots` is a cardinality, and the lemmas at the head of the module say how the
set of owners changes when a task moves. The same steps give the refinement: every
action is a step of `SlotLedger` or a stutter.

**Statistics.** Tasks' steps are the pool's, and readers' look-ups move no slot,
so `PoolInv` and `SlotConservation` carry over (`BooksInv`). `StatsInv` adds that a
reader that visits the entries has the mutex and no task has. Since the slots of a
pool add up, consumed permits minus parked connections are the slots in use,
which is never negative.

**Handlers.** `HandlersInv` adds to `PoolInv` what each place allows a task to have
under way in the pool (`PlaceOK`) and where its stream cannot be one a client used
and nobody reset (`CleanOK`). That no such stream is in a deque then follows from
`Park` and `CleanOK`; `failed` is what `Settle` makes of a broken one before it
parks it. For the slots, the lemma `Kinds` sorts the steps: each is a step of the pool,
or one that leaves the pool's books alone, or one of `LosesSlot`, which adds to
`leaked` what it takes from `usedSlots`. This gives `SlotsOrLeaked`, a part of
`ProxyInv`, and the refinement: the pool's steps are those of `SlotLedger` as before,
the failed first creation and the panics are `Lose`, and the rest stutter. It needs
`OneKey`, since `leaked` is counted for the one pool that handlers use. `Counted` is by
cardinality.

**Wire.** Types and counters need no assumption about clients. For orderly clients
the connection is `Parked`, or one client is its owner and is at one of four stages:
`Between` statements, `Asked`, `Replied`, `Resetting`; each says exactly what is in
either direction of the stream and what session the backend has. A backend that
fails leaves the owner with an answer whose end may be missing (`Broken`), with a
reset `InVain`, or with nothing, and then `Closing`. That one of these holds is
`OrderlyInv`. It needs `OthersRest`: who is not the owner waits for nothing, and has
its flag set only if a reset has failed. `AnswersMatch`, `OwnSession` and the rest
are read off the stages.

**Transparency.** The refinement of `PrivateSessions` takes from the stages what each
action finds: `Send` finds a session as new after a release, or as the client left
it; `Execute` and `Forward` find one statement or one answer, and they are the
owner's. `Fails` and `Leave` end one client and change no other's part (`EndOf`). A
client that sends on a backend that has failed is ended there, or was already.
What belongs to the resets is a stutter, since nobody is served during one
(`NobodyServed`).

**Timers.** `TypeOK` is inductive with `LoopOK`. While the loop listens `tx_start` is
no older than the timeout (`TimerRunsOn`): the loop looks at what remains each time it
turns, and no tick passes a timer that is due. That a step of a transaction is no
older than `tx_start`, and that the handler knows of the transaction, is `Timed`; the
two give `StepsAreTimed`. `TimerNotAhead` needs two facts about places outside the `select!` (`Behind`).

**Fragments.** `StreamsInv` is inductive, for every plan. `AlignedAt` says of a side
that the read under way began where a message does, so that the length it finds is
that message's, and that what was passed are the messages before; it holds until a
read is dropped that had taken something. `Turned` says that a message has begun to
arrive only after what it waits for was passed on. If a read was dropped in a
dialogue in turns, both sides would have a message under way, and by `Turned` each of
the two would have waited for the other: `OtherReadIsIdle`. When messages arrive
whole, a read that is not complete has taken nothing.

**Token.** What is bounded is the age of an AWS token when it is stored. A `get` stores
at once. The refresher may queue behind fetches that fail, at most `MaxFailures`,
and behind one that succeeds, since whoever looks after that finds a fresh token:
`Waited`, which needs that the refresher does not leave the queue before its turn.
With the TTL this gives `StoredInTime`, and `TokenAssumption` the rest.

**Client login.** `LoginIInv` strengthens the checked properties by what a place in
the dialogue allows: before the method is chosen there is none; a lookup has a
reply of which so many messages were read, and a password it has found is that of
the last row that set one (`LookupOK`, `LastSet`); TLS with a client CA means a valid
certificate. Then `Authenticate`, `Check` and `UseLookup` are sorted by method: each
that admits has the evidence, each that does not tells.

**SCRAM.** The terms are injective, and xor with the right signature gives a client
key back only from the proof made of it (`XorReveals`). `ExchangeInv` says what
each object and each message on the network is made of, framed or not, and that
acceptance and verification have a partner; `Settles` that what a partner is judged by
does not change afterwards, so that each action need be looked at for one exchange only.

**Backend login.** The server is free in what it asks and how it ends, so that the
invariant is about both streams: what may be in `down` at each place of the proxy
(`Starting`, `Asking`, `Challenging`, `LetIn`), that a ReadyForQuery is the last
message of a login (`ReadyLast`), and that with TLS configured nothing but the request
for it goes out before it is there (`Secured`). That nothing is left unread when the
backend is handed out is then `ReadyLast` at the step that reads it.

**Program.** `HealthInv` bounds the age of the status by the sleep and the check
before it, and the outage by the age of a status that says healthy.

**Startup message.** `RoundTrip` relates the pairs of one message to those of the
next, through a buffer of bytes. `Layout(buf, pairs, at)` says that the pairs stand
one after the other at the places `at`. `Writing`: the loop that writes has laid out
`sent`, and `sent` are the pairs read before that it should copy (`Chosen`), by an
increasing function. `ReadingBack`: the loop that reads has found a prefix of `sent` and
is at the place of the next. At the end of the buffer the prefix is all of it. This
needs no induction over the bytes, since each turn of a loop is a step; that a turn
finds the NUL of its pair and no earlier one is a lemma (`Joined` and those after it).

**Only model-checked.** All liveness (`WaitersAreServed`, `EveryoneGetsThrough`,
`GivesBack`, `ResetEnds`, `Answered`, `AllPassed`, `GetReturns`, `AttemptEnds`,
`ProxyComesUp`): TLAPS proves no fairness argument and no `ENABLED`. Every invariant
and every action property of the runs has a theorem.

## 6. What is not modelled

* Session mode after the acquire: tokio's `copy_bidirectional`, an outcome in `Proxy`.
* Writers of messages other than the startup message, the text of `/metrics` and
  `/stats`, `log.rs` and its macros: layout.
* Parsing of TOML and arguments (serde, clap); what it accepts as a type's name is
  in `ClientLogin`, missing sections in `Program`, limits in `PoolManager`.
* Credential chains and request signing of `aws.rs` and `gcp.rs`: calls into SDKs;
  a fetch takes time and gives a token or fails. PAM's conversation callback, the
  LDAP filter, and the SQL of an auth query: texts.
* The parsing of SCRAM's attribute lists, and cryptography beyond the equations
  of its terms.
* The three views of `transaction_loop` are not composed: a product of messages,
  clock and fragments says nothing more about any of their properties, and is out of
  TLC's reach. `TxnWire` has one connection; how many there are and which one
  a client gets is `Proxy`'s.
* Handlers that wait before login: the code has no time limit there, so there is no
  timer to model; `accept` failing ends `run` (`AcceptFails`).

## 7. Plan

Done: the pool, its refinement and statistics; handlers; the transaction loop on
the wire, with its timers and in fragments; both logins and SCRAM; the token cache;
codec, TLS set-up and start; a theorem for every safety property of the passing runs,
and three refinements. What would come next:

1. `TxnWire` with several connections, each as in `Proxy`, and `PrivateSessions`
   still its abstraction: the handlers meet only in the pool.
2. `Proxy` as an implementation of `SlotLedger` itself, once the code returns the
   permit of a failed first creation (item 2 in section 4) and keeps it in a guard
   that a panic drops: `Lose` then never happens.
