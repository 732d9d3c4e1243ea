----------------------------- MODULE PoolManager -----------------------------
(***************************************************************************)
(* pool/mod.rs: the pools of backend connections.                  *)
(*                                                                         *)
(* A pool is keyed by (host, port, db_user, dbname).  It has a tokio       *)
(* Semaphore with one permit per connection the pool may have, and a deque *)
(* of parked connections.  A permit is taken when a connection is created, *)
(* stays with the connection while it is parked, and goes back when the    *)
(* connection is dropped.                                                  *)
(*                                                                         *)
(* A task is a tokio task between its call of acquire() and the release()  *)
(* or cancel() that ends it: a client handler or a warm-up task.  Actions  *)
(* are the stretches of code between two awaits, so every interleaving the *)
(* runtime can produce is a behaviour.                                     *)
(***************************************************************************)
EXTENDS Integers, SequencesExt

CONSTANTS
    Tasks,           \* the tasks that use the pools
    Keys,            \* PoolKey: records with at least db_user and dbname
    GlobalLimits,    \* PoolLimits of the [pool] block
    DatabaseLimits,  \* dbname  -> the fields [pool.database_limits] sets
    UserLimits,      \* db_user -> the fields [pool.user_limits] sets
    Strategy,        \* "lifo" or "fifo"
    IdleTimeout,     \* idle_timeout_secs
    ServerLifetime,  \* server_lifetime_secs
    Streams,         \* what can be told apart of a ServerStream
    FreshStream,     \* a stream create_backend has just set up
    MaxTime,         \* bound on the clock
    NoTask,          \* the pools mutex is free
    NoKey, NoConn    \* a task outside acquire..release has neither

LimitFields == {"max_size", "min_size", "reserve_size"}

ASSUME LimitsAssumption ==
    /\ GlobalLimits \in [LimitFields -> Nat]
    /\ \A d \in DOMAIN DatabaseLimits :
          \A f \in DOMAIN DatabaseLimits[d] : DatabaseLimits[d][f] \in Nat
    /\ \A u \in DOMAIN UserLimits :
          \A f \in DOMAIN UserLimits[u] : UserLimits[u][f] \in Nat

ASSUME PoolAssumption ==
    /\ IsFiniteSet(Tasks)
    /\ Strategy \in {"lifo", "fifo"}
    /\ IdleTimeout \in Nat /\ ServerLifetime \in Nat /\ MaxTime \in Nat
    /\ FreshStream \in Streams
    /\ NoConn \notin [stream : Streams, born : Nat]
    /\ NoTask \notin Tasks
    /\ NoKey \notin Keys

-----------------------------------------------------------------------------
(* Limits *)

\* PoolManager::new: a field the override leaves out is the global one.
Override(v) ==
    [f \in LimitFields |-> IF f \in DOMAIN v THEN v[f] ELSE GlobalLimits[f]]

\* A user's override hides the database's.
ResolveLimits(k) ==
    IF k.db_user \in DOMAIN UserLimits
    THEN Override(UserLimits[k.db_user])
    ELSE IF k.dbname \in DOMAIN DatabaseLimits
         THEN Override(DatabaseLimits[k.dbname])
         ELSE GlobalLimits

Capacity(k) == ResolveLimits(k).max_size + ResolveLimits(k).reserve_size

-----------------------------------------------------------------------------
(* State *)

VARIABLES
    now,      \* the clock Instant::now() reads, in seconds
    sems,     \* keys the semaphores map has an entry for
    permits,  \* available permits of each semaphore in sems
    waiters,  \* tasks queued in each semaphore's acquire(), first come first
    pools,    \* keys the pools map has an entry for
    idle,     \* the parked connections of each pool
    lock,     \* the task inside the pools mutex across a step, or NoTask
    st,       \* where each task is
    key,      \* the key each task passed to acquire, or NoKey
    conn      \* the connection each task owns or is creating, or NoConn

semVars  == <<sems, permits, waiters>>
idleVars == <<pools, idle, lock>>
taskVars == <<st, key, conn>>
vars     == <<now, semVars, idleVars, taskVars>>

(* out       not using the pools                                           *)
(* insert    get_or_create_semaphore missed under the read lock            *)
(* scan      acquire: has the semaphore, at or in the idle scan            *)
(* sem       acquire: no idle connection, about to call sem.acquire()      *)
(* waiting   queued in the semaphore                                       *)
(* granted   acquire has a permit and returns None                         *)
(* creating  in create_backend, which reads the clock first                *)
(* holding   owns a connection                                             *)
(* parking   release: lifetime checked, waiting for the pools mutex        *)
(* dropping  release: the stream is dropped, its permit not yet returned   *)
States == {"out", "insert", "scan", "sem", "waiting", "granted", "creating",
           "holding", "parking", "dropping"}

\* Tasks in these states own one permit.
Owning == {"granted", "creating", "holding", "parking", "dropping"}

Conns     == [stream : Streams, born : Nat]
IdleConns == [stream : Streams, born : Nat, parked : Nat]

Init ==
    /\ now = 0
    /\ sems = {}
    /\ permits = [k \in Keys |-> 0]
    /\ waiters = [k \in Keys |-> <<>>]
    /\ pools = {}
    /\ idle = [k \in Keys |-> <<>>]
    /\ lock = NoTask
    /\ st = [t \in Tasks |-> "out"]
    /\ key = [t \in Tasks |-> NoKey]
    /\ conn = [t \in Tasks |-> NoConn]

-----------------------------------------------------------------------------
(* Helpers *)

\* A semaphore not yet in the map will start with its full capacity.
Available(k) == IF k \in sems THEN permits[k] ELSE Capacity(k)

\* get_or_create_semaphore(k), then add_permits(1), by a task that goes on in
\* state next.  tokio's semaphore is fair: the permit goes to the task queued
\* longest, which thereby leaves acquire() with None.
AddPermit(k, t, next) ==
    /\ sems' = sems \union {k}
    /\ \/ /\ waiters[k] # <<>>
          /\ waiters' = [waiters EXCEPT ![k] = Tail(@)]
          /\ st' = [st EXCEPT ![t] = next, ![Head(waiters[k])] = "granted"]
          /\ UNCHANGED permits
       \/ /\ waiters[k] = <<>>
          /\ permits' = [permits EXCEPT ![k] = Available(k) + 1]
          /\ st' = [st EXCEPT ![t] = next]
          /\ UNCHANGED waiters

\* The end of the deque acquire pops, and what is left of it.
Popped(q) == IF Strategy = "lifo" THEN Last(q) ELSE Head(q)
Rest(q)   == IF Strategy = "lifo" THEN Front(q) ELSE Tail(q)

TooOld(born)  == now - born >= ServerLifetime
Expired(ic)   == now - ic.parked >= IdleTimeout \/ TooOld(ic.born)

LockFor(t) == lock \in {NoTask, t}

Move(t, next) == st' = [st EXCEPT ![t] = next]

Forget(t) ==
    /\ key' = [key EXCEPT ![t] = NoKey]
    /\ conn' = [conn EXCEPT ![t] = NoConn]

-----------------------------------------------------------------------------
(* acquire *)

\* acquire(k), up to the lookup of the semaphore under the read lock.
Acquire(t, k) ==
    /\ st[t] = "out"
    /\ key' = [key EXCEPT ![t] = k]
    /\ Move(t, IF k \in sems THEN "scan" ELSE "insert")
    /\ UNCHANGED <<now, semVars, idleVars, conn>>

\* Mutant: the writer does not look again and replaces what it finds.
InsertSemaphoreBlind(t) ==
    /\ st[t] = "insert"
    /\ sems' = sems \union {key[t]}
    /\ permits' = [permits EXCEPT ![key[t]] = Capacity(key[t])]
    /\ Move(t, "scan")
    /\ UNCHANGED <<now, waiters, idleVars, key, conn>>

\* The write lock is a second critical section: entry().or_insert_with keeps
\* the semaphore another task has inserted since.
InsertSemaphore(t) ==
    /\ st[t] = "insert"
    /\ sems' = sems \union {key[t]}
    /\ permits' = [permits EXCEPT ![key[t]] = Available(key[t])]
    /\ Move(t, "scan")
    /\ UNCHANGED <<now, waiters, idleVars, key, conn>>

\* Mutant: only the idle timeout is checked, release having checked the age.
ScanHitUnchecked(t) ==
    LET k == key[t]
        ic == Popped(idle[k])
    IN  /\ st[t] = "scan"
        /\ LockFor(t)
        /\ idle[k] # <<>>
        /\ now - ic.parked < IdleTimeout
        /\ idle' = [idle EXCEPT ![k] = Rest(@)]
        /\ conn' = [conn EXCEPT ![t] = [stream |-> ic.stream, born |-> ic.born]]
        /\ lock' = NoTask
        /\ Move(t, "holding")
        /\ UNCHANGED <<now, semVars, pools, key>>

\* The popped connection is good: acquire returns it, with its permit.
ScanHit(t) ==
    LET k == key[t]
        ic == Popped(idle[k])
    IN  /\ st[t] = "scan"
        /\ LockFor(t)
        /\ idle[k] # <<>>
        /\ ~Expired(ic)
        /\ idle' = [idle EXCEPT ![k] = Rest(@)]
        /\ conn' = [conn EXCEPT ![t] = [stream |-> ic.stream, born |-> ic.born]]
        /\ lock' = NoTask
        /\ Move(t, "holding")
        /\ UNCHANGED <<now, semVars, pools, key>>

\* Mutant: the expired connection is dropped and its permit with it.
ScanExpiredNoPermit(t) ==
    LET k == key[t]
    IN  /\ st[t] = "scan"
        /\ LockFor(t)
        /\ idle[k] # <<>>
        /\ Expired(Popped(idle[k]))
        /\ idle' = [idle EXCEPT ![k] = Rest(@)]
        /\ lock' = t
        /\ UNCHANGED <<now, semVars, pools, taskVars>>

\* The popped connection has expired: it is dropped and its permit returned,
\* with the mutex still held, and the loop goes on.
ScanExpired(t) ==
    LET k == key[t]
    IN  /\ st[t] = "scan"
        /\ LockFor(t)
        /\ idle[k] # <<>>
        /\ Expired(Popped(idle[k]))
        /\ idle' = [idle EXCEPT ![k] = Rest(@)]
        /\ lock' = t
        /\ AddPermit(k, t, "scan")
        /\ UNCHANGED <<now, pools, key, conn>>

\* No parked connection is left: the mutex is released.
ScanEmpty(t) ==
    /\ st[t] = "scan"
    /\ LockFor(t)
    /\ idle[key[t]] = <<>>
    /\ lock' = NoTask
    /\ Move(t, "sem")
    /\ UNCHANGED <<now, semVars, pools, idle, key, conn>>

\* Mutant: a permit is taken whether or not there is one.
TakePermitUnchecked(t) ==
    LET k == key[t]
    IN  /\ st[t] = "sem"
        /\ permits' = [permits EXCEPT ![k] = @ - 1]
        /\ Move(t, "granted")
        /\ UNCHANGED <<now, sems, waiters, idleVars, key, conn>>

\* sem.acquire() finds a permit, which is forgotten; acquire returns None.
TakePermit(t) ==
    LET k == key[t]
    IN  /\ st[t] = "sem"
        /\ permits[k] > 0
        /\ permits' = [permits EXCEPT ![k] = @ - 1]
        /\ Move(t, "granted")
        /\ UNCHANGED <<now, sems, waiters, idleVars, key, conn>>

\* sem.acquire() finds none and queues.
Enqueue(t) ==
    LET k == key[t]
    IN  /\ st[t] = "sem"
        /\ permits[k] = 0
        /\ waiters' = [waiters EXCEPT ![k] = Append(@, t)]
        /\ Move(t, "waiting")
        /\ UNCHANGED <<now, sems, permits, idleVars, key, conn>>

-----------------------------------------------------------------------------
(* create_backend, as far as the pool sees it *)

StartCreate(t) ==
    /\ st[t] = "granted"
    /\ conn' = [conn EXCEPT ![t] = [stream |-> FreshStream, born |-> now]]
    /\ Move(t, "creating")
    /\ UNCHANGED <<now, semVars, idleVars, key>>

CreateOk(t) ==
    /\ st[t] = "creating"
    /\ Move(t, "holding")
    /\ UNCHANGED <<now, semVars, idleVars, key, conn>>

-----------------------------------------------------------------------------
(* cancel and release *)

\* cancel(key): creation failed, or the connection is broken and dropped.
Cancel(t) ==
    /\ st[t] \in {"creating", "holding"}
    /\ AddPermit(key[t], t, "out")
    /\ Forget(t)
    /\ UNCHANGED <<now, idleVars>>

\* release(key, stream, born_at), up to the wait for the mutex: the age is
\* read here, not under the lock.
Release(t, stream) ==
    /\ st[t] = "holding"
    /\ conn' = [conn EXCEPT ![t].stream = stream]
    /\ Move(t, IF TooOld(conn[t].born) THEN "dropping" ELSE "parking")
    /\ UNCHANGED <<now, semVars, idleVars, key>>

\* Mutant: one connection too many is parked.
ParkOneMore(t) ==
    LET k == key[t]
    IN  /\ st[t] = "parking"
        /\ lock = NoTask
        /\ pools' = pools \union {k}
        /\ \/ /\ Len(idle[k]) <= ResolveLimits(k).max_size
              /\ idle' = [idle EXCEPT ![k] = Append(@,
                             [stream |-> conn[t].stream, born |-> conn[t].born,
                              parked |-> now])]
              /\ Move(t, "out")
              /\ Forget(t)
           \/ /\ Len(idle[k]) > ResolveLimits(k).max_size
              /\ Move(t, "dropping")
              /\ UNCHANGED <<idle, key, conn>>
        /\ UNCHANGED <<now, semVars, lock>>

\* Mutant: the early return is missing, the permit is returned as well.
ParkAndReturn(t) ==
    LET k == key[t]
    IN  /\ st[t] = "parking"
        /\ lock = NoTask
        /\ pools' = pools \union {k}
        /\ idle' = IF Len(idle[k]) < ResolveLimits(k).max_size
                   THEN [idle EXCEPT ![k] = Append(@,
                             [stream |-> conn[t].stream, born |-> conn[t].born,
                              parked |-> now])]
                   ELSE idle
        /\ Move(t, "dropping")
        /\ UNCHANGED <<now, semVars, lock, key, conn>>

\* release under the mutex: the connection is parked with its permit, or, the
\* deque being full, dropped.
Park(t) ==
    LET k == key[t]
    IN  /\ st[t] = "parking"
        /\ lock = NoTask
        /\ pools' = pools \union {k}
        /\ \/ /\ Len(idle[k]) < ResolveLimits(k).max_size
              /\ idle' = [idle EXCEPT ![k] = Append(@,
                             [stream |-> conn[t].stream, born |-> conn[t].born,
                              parked |-> now])]
              /\ Move(t, "out")
              /\ Forget(t)
           \/ /\ Len(idle[k]) >= ResolveLimits(k).max_size
              /\ Move(t, "dropping")
              /\ UNCHANGED <<idle, key, conn>>
        /\ UNCHANGED <<now, semVars, lock>>

\* release after the drop of the stream.
ReturnPermit(t) ==
    /\ st[t] = "dropping"
    /\ AddPermit(key[t], t, "out")
    /\ Forget(t)
    /\ UNCHANGED <<now, idleVars>>

\* needs_warmup(k).
NeedsWarmup(k) ==
    LET missing == ResolveLimits(k).min_size - Len(idle[k])
    IN  IF k \in pools
        THEN IF missing > 0 THEN missing ELSE 0
        ELSE ResolveLimits(k).min_size

-----------------------------------------------------------------------------
(* Specification *)

Tick ==
    /\ now < MaxTime
    /\ now' = now + 1
    /\ UNCHANGED <<semVars, idleVars, taskVars>>

Scan(t) == ScanHit(t) \/ ScanExpired(t) \/ ScanEmpty(t)

\* The steps the pool takes by itself inside acquire, release and cancel.
Internal(t) ==
    \/ InsertSemaphore(t)
    \/ Scan(t)
    \/ TakePermit(t)
    \/ Enqueue(t)
    \/ Park(t)
    \/ ReturnPermit(t)

\* The calls its callers make, and create_backend.
Call(t) ==
    \/ \E k \in Keys : Acquire(t, k)
    \/ StartCreate(t)
    \/ CreateOk(t)
    \/ Cancel(t)
    \/ \E stream \in Streams : Release(t, stream)

Next == Tick \/ \E t \in Tasks : Internal(t) \/ Call(t)

Spec == Init /\ [][Next]_vars

\* tokio runs every task that can run, and its Mutex queues fairly, so a task
\* waiting for the pools mutex gets it: strong fairness where the mutex is
\* taken, weak fairness elsewhere.  Nothing makes a caller call.
PoolFairness ==
    \A t \in Tasks :
        /\ WF_vars(InsertSemaphore(t))
        /\ SF_vars(Scan(t))
        /\ WF_vars(TakePermit(t) \/ Enqueue(t))
        /\ SF_vars(Park(t))
        /\ WF_vars(ReturnPermit(t))

FairSpec == Spec /\ PoolFairness

\* Callers that do not sit on what they were given: a backend is created or
\* its creation cancelled, and a connection is released or cancelled.
EagerSpec ==
    /\ FairSpec
    /\ \A t \in Tasks :
          /\ WF_vars(StartCreate(t))
          /\ WF_vars(CreateOk(t) \/ Cancel(t))
          /\ WF_vars(Cancel(t) \/ \E stream \in Streams : Release(t, stream))

-----------------------------------------------------------------------------
(* Properties *)

Owners(k) == {t \in Tasks : st[t] \in Owning /\ key[t] = k}

\* Type correctness.
TypeOK ==
    /\ now \in 0..MaxTime
    /\ sems \subseteq Keys
    /\ permits \in [Keys -> Nat]
    /\ waiters \in [Keys -> Seq(Tasks)]
    /\ pools \subseteq Keys
    /\ idle \in [Keys -> Seq(IdleConns)]
    /\ lock \in Tasks \union {NoTask}
    /\ st \in [Tasks -> States]
    /\ key \in [Tasks -> Keys \union {NoKey}]
    /\ conn \in [Tasks -> Conns \union {NoConn}]

\* What a task in the middle of a call has.
TasksOK ==
    \A t \in Tasks :
        /\ st[t] # "out" => key[t] \in Keys
        /\ st[t] \in {"creating", "holding", "parking", "dropping"} =>
               conn[t] \in Conns

\* A semaphore's queue holds tasks waiting for that semaphore, each once.
QueuesOK ==
    \A k \in Keys :
        \A i \in 1..Len(waiters[k]) :
            /\ st[waiters[k][i]] = "waiting"
            /\ key[waiters[k][i]] = k
            /\ \A j \in 1..Len(waiters[k]) :
                  waiters[k][i] = waiters[k][j] => i = j

\* A task past the lookup finds the semaphore in the map, and one that has
\* permits has no queue.
SemsOK ==
    /\ \A t \in Tasks : st[t] \notin {"out", "insert"} => key[t] \in sems
    /\ \A k \in Keys : waiters[k] # <<>> => k \in sems /\ permits[k] = 0

\* The inductive invariant of the proofs.
PoolInv == TypeOK /\ TasksOK /\ QueuesOK /\ SemsOK

\* The slots of each pool: free, parked and owned.
freeSlots   == [k \in Keys |-> Available(k)]
parkedSlots == [k \in Keys |-> Len(idle[k])]
usedSlots   == [k \in Keys |-> Cardinality(Owners(k))]

\* "Exactly one permit" (pool/mod.rs:217): permits, parked connections and
\* tasks that own a slot always add up to max_size + reserve_size, however
\* acquire, release, cancel and the creation of the semaphore interleave.
SlotConservation ==
    \A k \in Keys : freeSlots[k] + parkedSlots[k] + usedSlots[k] = Capacity(k)

\* A task is queued only while every slot of its pool is parked or owned: no
\* permit is free, and none was lost by a task that dropped a connection.
QueuedOnlyWhenFull ==
    \A k \in Keys :
        waiters[k] # <<>> =>
            /\ k \in sems
            /\ parkedSlots[k] + usedSlots[k] = Capacity(k)

\* The reserve is for bursts: it never stays around as parked connections,
\* even when several tasks release at once.
ReserveIsNotParked ==
    \A k \in Keys : Len(idle[k]) <= ResolveLimits(k).max_size

\* release reads the age before it waits for the mutex, so a connection may
\* be parked past its lifetime; acquire must still never hand one out that
\* is too old or was parked too long.
HandsOutFresh ==
    [][\A t \in Tasks :
          st[t] = "scan" /\ st'[t] = "holding" =>
              \E i \in DOMAIN idle[key[t]] :
                  LET ic == idle[key[t]][i]
                  IN  /\ ic.born = conn'[t].born
                      /\ now - ic.parked < IdleTimeout
                      /\ now - ic.born < ServerLifetime]_vars

\* Every acquire gets an answer or is queued, and every release comes to an
\* end, whatever the other tasks do with the mutex meanwhile.
CallsSettle ==
    \A t \in Tasks :
        st[t] \in {"insert", "scan", "sem", "parking", "dropping"}
            ~> st[t] \in {"out", "waiting", "granted", "holding"}

\* "Acquire a backend connection slot -- waits until one is available"
\* (pool/mod.rs:213): a queued task does not wait for ever while every other
\* task gives its connection back.
WaitersAreServed ==
    \A t \in Tasks : st[t] = "waiting" ~> st[t] # "waiting"

\* The slots of each pool move as SlotLedger allows and in no other way.
Ledger ==
    INSTANCE SlotLedger WITH
        Slots    <- [k \in Keys |-> Capacity(k)],
        Parkable <- [k \in Keys |-> ResolveLimits(k).max_size],
        free     <- freeSlots,
        parked   <- parkedSlots,
        inUse    <- usedSlots

LedgerSpec == Ledger!Spec

=============================================================================
