-------------------------------- MODULE Proxy ---------------------------------
(***************************************************************************)
(* proxy/mod.rs: the client handlers and warm-up tasks that use the pool.  *)
(*                                                                         *)
(* Every task of PoolManager is a client's handler (handle_client) or a    *)
(* warm-up task (spawn_warmup).  A handler calls into PoolManager and goes *)
(* on when the call has returned, which shows as st: "holding" or          *)
(* "granted" after acquire, "out" after release and cancel.                *)
(*                                                                         *)
(* A backend stream is "ready" when create_backend set it up or            *)
(* run_reset_query returned true on it, "used" once a client's messages    *)
(* went to it, and "dead" when reads and writes on it fail.  A used one is *)
(* "torn" when it is read from the middle of a message on, "mute" when its *)
(* server neither answers nor closes, and "failed" when it broke before it *)
(* was reset.                                                              *)
(*                                                                         *)
(* A handler is a task of its own, so that the panic of read_pg_message on *)
(* a length no message has ends that handler and nothing else.  What it    *)
(* owns is dropped, client_count among it, but acquire forgot the permit.  *)
(***************************************************************************)
EXTENDS PoolManager

CONSTANTS
    Clients,      \* handlers; a client that left may connect again
    Warmers,      \* warm-up tasks; a bound on those running at a time
    PoolKey,      \* the one key handle_client builds, from the configuration
    Modes,        \* the values of config.pool.mode considered
    MaxFailures   \* bound on how often the network or a server fails

ASSUME ProxyAssumption ==
    /\ Tasks = Clients \union Warmers
    /\ Clients \intersect Warmers = {}
    /\ PoolKey \in Keys
    /\ Modes \subseteq {"session", "transaction"}
    /\ Streams = {"ready", "used", "torn", "mute", "failed", "dead"}
    /\ FreshStream = "ready"
    /\ MaxFailures \in Nat

VARIABLES
    mode,         \* config.pool.mode, fixed at startup
    pc,           \* where each handler and warm-up task is
    clientCount,  \* PoolManager::client_count
    failures,     \* how often something outside has gone wrong
    leaked        \* permits whose owner ended without giving them back

proxyVars == <<mode, pc, clientCount, failures, leaked>>
allVars == <<vars, proxyVars>>

(* gone      no handler, or no warm-up task                                *)
(* login     connected: initial message, TLS, startup, authentication      *)
(* authed    pool utilization is logged, about to acquire                  *)
(* first     in the acquire every handler starts with                      *)
(* created   as first, in or after create_backend                          *)
(* relay     session mode: in copy_bidirectional                           *)
(* greet     transaction mode: the first backend released, send_fake_ready *)
(* loop      transaction_loop without a server                             *)
(* demand    transaction_loop: in acquire_backend                          *)
(* busy      transaction_loop with a server                                *)
(* settle    the server said ReadyForQuery 'I': in run_reset_query         *)
(* error     the server said ErrorResponse outside a transaction: likewise *)
(* closing   the session or the loop is over: in run_reset_query           *)
(* leaving   about to call spawn_warmup                                    *)
(* failing   returning an error                                            *)
(* spawned   a warm-up task that has not started                           *)
(* warming   a warm-up task after its call of acquire                      *)
Pcs == {"gone", "login", "authed", "first", "created", "relay", "greet", "loop",
        "demand", "busy", "settle", "error", "closing", "leaving", "failing",
        "spawned", "warming"}

ProxyInit ==
    /\ Init
    /\ mode \in Modes
    /\ pc = [t \in Tasks |-> "gone"]
    /\ clientCount = 0
    /\ failures = 0
    /\ leaked = 0

Goto(t, next) == pc' = [pc EXCEPT ![t] = next]

\* Something outside the proxy goes wrong, MaxFailures times at most.
Fail == failures < MaxFailures /\ failures' = failures + 1

\* A task's stream becomes s.
Stream(t, s) == conn' = [conn EXCEPT ![t].stream = s]

\* A handler that has a backend and no call under way.
Has(c) == st[c] = "holding"

\* Reads and writes on the backend fail.
Broken(c) == conn[c].stream \in {"failed", "dead"}

\* The backend neither fails nor answers as it should: whoever reads from it
\* finds nothing, or takes what is in the middle of a message for a message.
Unreadable(c) == Has(c) /\ conn[c].stream \in {"torn", "mute"}

\* The handler of a client ends.
Leaves(c) == Goto(c, "gone") /\ clientCount' = clientCount - 1

\* The task ends and its backend, if it has one, is dropped, but nobody calls
\* cancel: the permit acquire took is gone.
LosesSlot(t) ==
    /\ st[t] \in {"creating", "holding"}
    /\ leaked' = leaked + 1
    /\ Move(t, "out") /\ Forget(t)
    /\ UNCHANGED <<now, semVars, idleVars>>

-----------------------------------------------------------------------------
(* Connecting *)

\* run() accepts and spawns handle_client, which counts the client.
\* client_max is not looked at.
Connect(c) ==
    /\ pc[c] = "gone"
    /\ clientCount' = clientCount + 1
    /\ Goto(c, "login")
    /\ UNCHANGED <<vars, mode, failures, leaked>>

\* A cancel request, or any error or panic up to the end of authentication.
LoginEnds(c) ==
    /\ pc[c] = "login"
    /\ Leaves(c)
    /\ UNCHANGED <<vars, mode, failures, leaked>>

\* Authenticated; stats_for looks the semaphore up, and creates it.
LogStats(c) ==
    /\ pc[c] = "login"
    /\ sems' = sems \union {PoolKey}
    /\ permits' = [permits EXCEPT ![PoolKey] = Available(PoolKey)]
    /\ Goto(c, "authed")
    /\ UNCHANGED <<now, waiters, idleVars, taskVars, mode, clientCount, failures, leaked>>

AcquireFirst(c) ==
    /\ pc[c] = "authed"
    /\ Acquire(c, PoolKey)
    /\ Goto(c, "first")
    /\ UNCHANGED <<mode, clientCount, failures, leaked>>

\* acquire returned None: create_backend begins.
BeginCreate(t) ==
    /\ StartCreate(t)
    /\ Goto(t, IF pc[t] = "first" THEN "created" ELSE pc[t])
    /\ UNCHANGED <<mode, clientCount, failures, leaked>>

Created(t) == CreateOk(t) /\ UNCHANGED proxyVars

\* create_backend(...).await? in acquire_session_backend and in
\* acquire_and_release_initial: the handler returns the error, and the permit
\* acquire took is not returned.
CreateFails(c) ==
    /\ pc[c] = "created"
    /\ Fail
    /\ LosesSlot(c)
    /\ Leaves(c)
    /\ UNCHANGED mode

\* A handler whose error path has given its backend back returns the error.
Failed(c) ==
    /\ pc[c] = "failing" /\ st[c] = "out"
    /\ Leaves(c)
    /\ UNCHANGED <<vars, mode, failures, leaked>>

\* A handler panics: in read_pg_message, on what the client or the server sent
\* or on what is left of a message, in create_backend, or where stats_for
\* subtracts.  Up to the end of the login that is LoginEnds, and in the first
\* create_backend CreateFails.
Panics(c) ==
    /\ Fail
    /\ Leaves(c)
    /\ \/ pc[c] \in {"authed", "loop"} /\ st[c] = "out" /\ UNCHANGED <<vars, leaked>>
       \/ pc[c] = "demand" /\ st[c] = "creating" /\ LosesSlot(c)
       \/ pc[c] \in {"busy", "settle", "error", "closing"} /\ LosesSlot(c)
    /\ UNCHANGED mode

-----------------------------------------------------------------------------
(* Session mode *)

SessionReady(c) ==
    /\ mode = "session" /\ pc[c] \in {"first", "created"} /\ Has(c)
    /\ Goto(c, "relay")
    /\ UNCHANGED <<vars, mode, clientCount, failures, leaked>>

\* send_fake_ready fails: a parked backend is released, a new one cancelled.
SessionReadyFails(c) ==
    /\ mode = "session" /\ Has(c)
    /\ \/ pc[c] = "first" /\ Release(c, conn[c].stream)
       \/ pc[c] = "created" /\ Cancel(c)
    /\ Fail
    /\ Goto(c, "failing")
    /\ UNCHANGED <<mode, clientCount, leaked>>

\* What becomes of the backend when the client's socket fails: the server may
\* have been in the middle of a message, the rest of which is still to come.
Abandoned(c) == IF conn[c].stream = "ready" THEN {"used", "torn"} ELSE {conn[c].stream}

\* copy_bidirectional returns.  When both directions reached their end it has
\* shut the server's side down; when the client's socket failed the server is
\* still there.
RelayEnds(c) ==
    /\ pc[c] = "relay"
    /\ \/ Stream(c, "dead") /\ UNCHANGED failures
       \/ (\E s \in Abandoned(c) : Stream(c, s)) /\ Fail
    /\ Goto(c, "closing")
    /\ UNCHANGED <<now, semVars, idleVars, st, key, mode, clientCount, leaked>>

-----------------------------------------------------------------------------
(* Transaction mode *)

\* Mutant: the backend is kept for the loop.
KeepFirst(c) ==
    /\ mode = "transaction" /\ pc[c] \in {"first", "created"} /\ Has(c)
    /\ Goto(c, "greet")
    /\ UNCHANGED <<vars, mode, clientCount, failures, leaked>>

\* acquire_and_release_initial
ReleaseFirst(c) ==
    /\ mode = "transaction" /\ pc[c] \in {"first", "created"} /\ Has(c)
    /\ Release(c, conn[c].stream)
    /\ Goto(c, "greet")
    /\ UNCHANGED <<mode, clientCount, failures, leaked>>

Greet(c) ==
    /\ pc[c] = "greet" /\ st[c] = "out"
    /\ \/ Goto(c, "loop") /\ UNCHANGED <<failures, clientCount>>
       \/ Leaves(c) /\ Fail
    /\ UNCHANGED <<vars, mode, leaked>>

\* A client message, and no server assigned.
Demand(c) ==
    /\ pc[c] = "loop"
    /\ Acquire(c, PoolKey)
    /\ Goto(c, "demand")
    /\ UNCHANGED <<mode, clientCount, failures, leaked>>

\* Mutant: the error is returned without cancel.
DemandFailsNoCancel(c) ==
    /\ pc[c] = "demand" /\ st[c] = "creating"
    /\ Fail
    /\ Move(c, "out") /\ Forget(c)
    /\ Goto(c, "leaving")
    /\ UNCHANGED <<now, semVars, idleVars, mode, clientCount, leaked>>

\* acquire_backend cancels, and transaction_loop breaks.
DemandFails(c) ==
    /\ pc[c] = "demand" /\ st[c] = "creating"
    /\ Fail
    /\ Cancel(c)
    /\ Goto(c, "leaving")
    /\ UNCHANGED <<mode, clientCount, leaked>>

\* A backend a message is written to.
WrittenTo(c) == IF conn[c].stream = "ready" THEN "used" ELSE conn[c].stream

\* The message is written to the server; a write that fails breaks the loop.
Forward(c) ==
    /\ pc[c] = "demand" /\ Has(c)
    /\ \/ ~Broken(c) /\ Stream(c, WrittenTo(c)) /\ Goto(c, "busy")
       \/ Broken(c) /\ Goto(c, "closing") /\ UNCHANGED conn
    /\ UNCHANGED <<now, semVars, idleVars, st, key, mode, clientCount, failures, leaked>>

\* select! drops the read of a message of which a part has come.
Tears(c) ==
    /\ pc[c] = "busy" /\ conn[c].stream = "used"
    /\ Stream(c, "torn")
    /\ UNCHANGED <<now, semVars, idleVars, st, key, proxyVars>>

\* ReadyForQuery with status 'I', or what is taken for it.
TransactionEnds(c) ==
    /\ pc[c] = "busy"
    /\ Goto(c, "settle")
    /\ UNCHANGED <<vars, mode, clientCount, failures, leaked>>

\* ErrorResponse while in_transaction is false.
ErrorOutside(c) ==
    /\ pc[c] = "busy"
    /\ Goto(c, "error")
    /\ UNCHANGED <<vars, mode, clientCount, failures, leaked>>

\* The loop breaks: a timeout or the client's end of stream leaves the server
\* as it is, Terminate is passed on to it, and it may be the server that ended.
LoopEnds(c) ==
    /\ \/ /\ pc[c] = "loop" /\ st[c] = "out"
          /\ Goto(c, "leaving")
          /\ UNCHANGED conn
       \/ /\ pc[c] = "busy"
          /\ Goto(c, "closing")
          /\ UNCHANGED conn \/ Stream(c, "dead")
    /\ UNCHANGED <<now, semVars, idleVars, st, key, mode, clientCount, failures, leaked>>

-----------------------------------------------------------------------------
(* Giving a backend back *)

\* The server neither answers the reset query nor closes.  Silence before that
\* is a matter of copy_bidirectional and of transaction_loop's timers, and lasts.
FallsSilent(c) ==
    /\ pc[c] \in {"settle", "error", "closing"} /\ conn[c].stream = "used"
    /\ Stream(c, "mute")
    /\ Fail
    /\ UNCHANGED <<now, semVars, idleVars, st, key, mode, pc, clientCount, leaked>>

\* run_reset_query has returned false: the backend is dropped, its permit
\* returned.
Drop(c) ==
    /\ \/ Broken(c) /\ UNCHANGED failures
       \/ ~Broken(c) /\ Fail
    /\ Cancel(c)

\* run_reset_query has returned true.  On a torn backend what it took for
\* ReadyForQuery was a part of another message.  It does not return while the
\* server is silent.
ResetAndRelease(c) ==
    /\ ~Broken(c) /\ conn[c].stream # "mute"
    /\ Release(c, IF conn[c].stream = "torn" THEN "torn" ELSE "ready")
    /\ UNCHANGED failures

\* Mutant: the backend is released without the reset query.
SettleNoReset(c) ==
    /\ pc[c] = "settle" /\ Has(c)
    /\ Release(c, conn[c].stream)
    /\ Goto(c, "loop")
    /\ UNCHANGED <<mode, clientCount, failures, leaked>>

\* After ReadyForQuery the server is released whether or not the reset worked.
Settle(c) ==
    /\ pc[c] = "settle" /\ Has(c)
    /\ ResetAndRelease(c) \/ (Fail /\ Release(c, "failed"))
    /\ Goto(c, "loop")
    /\ UNCHANGED <<mode, clientCount, leaked>>

\* After an error it is released only if the reset worked.
ErrorReset(c) ==
    /\ pc[c] = "error" /\ Has(c)
    /\ ResetAndRelease(c) \/ Drop(c)
    /\ Goto(c, "loop")
    /\ UNCHANGED <<mode, clientCount, leaked>>

\* Mutant: a dead backend is left for its destructor.
CloseForgets(c) ==
    /\ pc[c] = "closing" /\ Has(c)
    /\ ResetAndRelease(c)
    /\ Goto(c, "leaving")
    /\ UNCHANGED <<mode, clientCount, leaked>>

\* The end of relay_and_release and of transaction_loop.
Close(c) ==
    /\ pc[c] = "closing" /\ Has(c)
    /\ ResetAndRelease(c) \/ Drop(c)
    /\ Goto(c, "leaving")
    /\ UNCHANGED <<mode, clientCount, leaked>>

-----------------------------------------------------------------------------
(* Warm-up *)

Resting == {w \in Warmers : pc[w] = "gone" /\ st[w] = "out"}

\* spawn_warmup reads the deque's length under the mutex and spawns a task for
\* every connection missing; then the handler returns.  It is held up while
\* Warmers has too few tasks left.
SpawnWarmup(c) ==
    /\ pc[c] = "leaving" /\ st[c] = "out"
    /\ lock = NoTask
    /\ \E W \in SUBSET Resting :
          /\ Cardinality(W) = NeedsWarmup(PoolKey)
          /\ pc' = [t \in Tasks |-> IF t \in W THEN "spawned"
                                    ELSE IF t = c THEN "gone" ELSE pc[t]]
    /\ clientCount' = clientCount - 1
    /\ UNCHANGED <<vars, mode, failures, leaked>>

WarmAcquire(w) ==
    /\ pc[w] = "spawned"
    /\ Acquire(w, PoolKey)
    /\ Goto(w, "warming")
    /\ UNCHANGED <<mode, clientCount, failures, leaked>>

\* A parked connection is put back, a new one parked.
WarmRelease(w) ==
    /\ pc[w] = "warming" /\ Has(w)
    /\ Release(w, conn[w].stream)
    /\ Goto(w, "gone")
    /\ UNCHANGED <<mode, clientCount, failures, leaked>>

WarmFails(w) ==
    /\ pc[w] = "warming" /\ st[w] = "creating"
    /\ Fail
    /\ Cancel(w)
    /\ Goto(w, "gone")
    /\ UNCHANGED <<mode, clientCount, leaked>>

\* create_backend panics in a warm-up task.
WarmPanics(w) ==
    /\ pc[w] = "warming" /\ st[w] = "creating"
    /\ Fail
    /\ LosesSlot(w)
    /\ Goto(w, "gone")
    /\ UNCHANGED <<mode, clientCount>>

-----------------------------------------------------------------------------
(* Specification *)

\* A server closes a parked connection; nothing in the proxy notices.
ParkedDies ==
    /\ Fail
    /\ \E k \in Keys : \E i \in DOMAIN idle[k] :
          /\ idle[k][i].stream = "ready"
          /\ idle' = [idle EXCEPT ![k][i].stream = "dead"]
    /\ UNCHANGED <<now, semVars, pools, lock, taskVars, mode, pc, clientCount, leaked>>

\* What happens inside a call into the pool.
PoolStep(t) == Internal(t) /\ UNCHANGED proxyVars

Time == Tick /\ UNCHANGED proxyVars

Backend(t) == BeginCreate(t) \/ Created(t)

LoginStep(c) ==
    \/ Connect(c) \/ LoginEnds(c) \/ LogStats(c) \/ AcquireFirst(c)
    \/ CreateFails(c) \/ Failed(c) \/ Panics(c)

SessionStep(c) == SessionReady(c) \/ SessionReadyFails(c) \/ RelayEnds(c)

TransactionStep(c) ==
    \/ ReleaseFirst(c) \/ Greet(c) \/ Demand(c) \/ DemandFails(c) \/ Forward(c)
    \/ Tears(c) \/ TransactionEnds(c) \/ ErrorOutside(c) \/ LoopEnds(c)

ResetStep(c) == Settle(c) \/ ErrorReset(c) \/ Close(c)

WarmStep(w) == WarmAcquire(w) \/ WarmRelease(w) \/ WarmFails(w) \/ WarmPanics(w)

ProxyNext ==
    \/ Time
    \/ ParkedDies
    \/ \E t \in Tasks : PoolStep(t) \/ Backend(t)
    \/ \E c \in Clients :
          \/ LoginStep(c) \/ SessionStep(c) \/ TransactionStep(c)
          \/ FallsSilent(c) \/ ResetStep(c) \/ SpawnWarmup(c)
    \/ \E w \in Warmers : WarmStep(w)

ProxySpec == ProxyInit /\ [][ProxyNext]_allVars

\* The runtime runs every task that can run, the pools mutex is fair, and a
\* server that is not silent answers the reset query or closes.  Nothing is
\* assumed of a reset on a silent server or in the middle of a message:
\* run_reset_query has no timeout.
ProxyFairness ==
    /\ \A t \in Tasks :
          /\ WF_allVars(PoolStep(t) /\ st[t] \in {"insert", "sem", "dropping"})
          /\ SF_allVars(PoolStep(t) /\ st[t] \in {"scan", "parking"})
    /\ \A c \in Clients : WF_allVars(ResetStep(c) /\ ~Unreadable(c))

FairProxySpec == ProxySpec /\ ProxyFairness

-----------------------------------------------------------------------------
(* Properties *)

ProxyTypeOK ==
    /\ TypeOK
    /\ mode \in Modes
    /\ pc \in [Tasks -> Pcs]
    /\ clientCount \in Nat
    /\ failures \in 0..MaxFailures
    /\ leaked \in Nat

lostSlots == [k \in Keys |-> IF k = PoolKey THEN leaked ELSE 0]

\* Nobody has a slot twice, and no slot is missing but those that leaked.
SlotsOrLeaked ==
    \A k \in Keys :
        freeSlots[k] + parkedSlots[k] + usedSlots[k] + lostSlots[k] = Capacity(k)

\* The only ways a slot leaves the books are the failed create_backend of a
\* handler's first acquire and a panic: on every other path, handlers and
\* warm-up tasks move slots one at a time as SlotLedger allows, so that they
\* return exactly the permit they took, once.
Books ==
    INSTANCE LossyLedger WITH
        Slots    <- [k \in Keys |-> Capacity(k)],
        Parkable <- [k \in Keys |-> ResolveLimits(k).max_size],
        free     <- freeSlots,
        parked   <- parkedSlots,
        inUse    <- usedSlots,
        lost     <- lostSlots

LossyLedgerSpec == Books!LossySpec

\* "server_reset_query -- SQL sent to reset backend before returning to pool"
\* (README.md:331): every backend that is parked was sent the reset query, and
\* an answer to it was read, since a client used it.  The code parks others.
Unreset == {"used", "mute", "failed"}
ParkedWereReset ==
    \A k \in Keys : \A i \in DOMAIN idle[k] : idle[k][i].stream \notin Unreset

\* The only backends parked without having been reset since a client used them
\* are broken ones, whose reset has failed (proxy/mod.rs:952): one on which the
\* next client's messages would be answered is reset first, whatever way its use
\* ended.  What the answer to the reset is worth is TxnWire's subject, and on a
\* torn backend it is worth nothing.
UsedNeverParked ==
    \A k \in Keys : \A i \in DOMAIN idle[k] :
        idle[k][i].stream \in Unreset => idle[k][i].stream = "failed"

\* A handler owns a backend exactly while it needs one: from the first message
\* to the end of the reset, and never while it waits for a client that is idle
\* between transactions (proxy/mod.rs:258-260, 872) or after it has returned.
OwnsWhatItUses ==
    \A c \in Clients :
        /\ pc[c] \in {"relay", "busy", "settle", "error", "closing"} => st[c] = "holding"
        /\ pc[c] \in {"gone", "login", "authed"} => st[c] = "out"
        /\ pc[c] \in {"greet", "loop", "leaving", "failing"} =>
               st[c] \in {"out", "parking", "dropping"}

\* client_count, which stats_log and GET /metrics show, is the number of clients
\* whose handlers run, whichever of its many ends a handler takes.
Connected == {c \in Clients : pc[c] # "gone"}
Counted == clientCount = Cardinality(Connected)

\* Variables keep their types, handlers own what they use and no more and are
\* counted, the slots add up, and it takes a failure to lose one.
ProxyInv ==
    /\ ProxyTypeOK /\ OwnsWhatItUses /\ Counted
    /\ SlotsOrLeaked /\ leaked <= failures

\* A backend whose transaction, session or statement is over comes back to the
\* pool or is dropped, and its handler ends up owning nothing, unless its server
\* is silent or it is read in the middle of a message.
GivesBack ==
    \A c \in Clients :
        pc[c] \in {"settle", "error", "closing"} ~> st[c] = "out" \/ Unreadable(c)

=============================================================================
