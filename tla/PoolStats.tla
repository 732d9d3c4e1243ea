------------------------------ MODULE PoolStats -------------------------------
(***************************************************************************)
(* pool/mod.rs: stats_for and global_stats, read while tasks use the       *)
(* pools.                                                                  *)
(*                                                                         *)
(* The log line of handle_client asks stats_for; /metrics and /stats ask   *)
(* global_stats.  Permits are atomics that any task changes at any time,   *)
(* so a report is put together from values of different moments.  The      *)
(* tasks' steps are PoolManager's, held up by the locks a reader has.      *)
(***************************************************************************)
EXTENDS PoolManager

CONSTANTS
    Readers,    \* handlers about to log, and HTTP requests
    NoReader    \* no reader has the pools mutex

VARIABLES
    rpc,        \* where each reader is
    todo,       \* the keys a reader has still to look at
    report,     \* global_stats: the PoolStats under construction
    reader,     \* the reader that has the pools mutex, or NoReader
    line        \* who waits for the lock of the semaphores map, first come first

readVars  == <<rpc, todo, report, reader>>
statsVars == <<vars, readVars, line>>

ASSUME StatsAssumption ==
    /\ NoReader \notin Readers
    /\ Readers \intersect Tasks = {}

(* out       not asking                                                    *)
(* missing   stats_for: found no semaphore, asks for the write lock        *)
(* permits   stats_for: has read the permits, waits for the pools mutex    *)
(* sems      global_stats: reads the semaphores map, waits for the mutex   *)
(* pools     global_stats: has both, visiting the entries                  *)
ReaderStates == {"out", "missing", "permits", "sems", "pools"}

Blank == [idle |-> 0, active |-> 0]

StatsInit ==
    /\ Init
    /\ rpc = [r \in Readers |-> "out"]
    /\ todo = [r \in Readers |-> {}]
    /\ report = [r \in Readers |-> Blank]
    /\ reader = NoReader
    /\ line = <<>>

MutexFree == lock = NoTask /\ reader = NoReader

ToState(r, next) == rpc' = [rpc EXCEPT ![r] = next]

-----------------------------------------------------------------------------
(* The lock of the semaphores map *)

\* tokio's RwLock serves a queue: a reader waits for every writer that asked
\* before it, even while other readers have the lock, and a writer for all that
\* asked before it.  A look-up has the lock within one step; only global_stats
\* keeps it longer.
Queued(x) == \E i \in DOMAIN line : line[i] = x

Ahead(x) == {line[i] : i \in {j \in DOMAIN line : \A m \in 1..j : line[m] # x}}

Writes(x) == IF x \in Readers THEN rpc[x] = "missing" ELSE st[x] = "insert"

SemsUnread == \A r \in Readers : rpc[r] \notin {"sems", "pools"}

MayRead(x)  == \A y \in Ahead(x) : ~Writes(y)
MayWrite(x) == Ahead(x) = {} /\ SemsUnread

Leave(x) == line' = Remove(line, x)

\* A task or reader that asks for the lock and does not get it at once.
Joins(x) ==
    /\ ~Queued(x)
    /\ IF Writes(x) THEN ~MayWrite(x) ELSE ~MayRead(x)
    /\ line' = Append(line, x)
    /\ UNCHANGED <<vars, readVars>>

-----------------------------------------------------------------------------
(* stats_for *)

\* The semaphore is looked up; its permits are read before the mutex is asked
\* for.
StatsPermits(r, k) ==
    /\ rpc[r] = "out"
    /\ MayRead(r) /\ Leave(r)
    /\ todo' = [todo EXCEPT ![r] = {k}]
    /\ ToState(r, IF k \in sems THEN "permits" ELSE "missing")
    /\ UNCHANGED <<vars, report, reader>>

\* It is created under the write lock, unless another has done so since.
StatsInsert(r, k) ==
    /\ rpc[r] = "missing" /\ todo[r] = {k}
    /\ MayWrite(r) /\ Leave(r)
    /\ sems' = sems \union {k}
    /\ permits' = [permits EXCEPT ![k] = Available(k)]
    /\ ToState(r, "permits")
    /\ UNCHANGED <<now, waiters, idleVars, taskVars, todo, report, reader>>

\* The parked connections are counted under the mutex, and total - available -
\* idle taken in usize, though the permits are those of an earlier moment.  It
\* may be below 0: a build with overflow checks panics, which ends a handler
\* that has no slot yet, any other logs what it wraps to.  Either way the reader
\* is done, and no variable depends on the value.
StatsReturn(r, k) ==
    /\ rpc[r] = "permits" /\ todo[r] = {k}
    /\ MutexFree
    /\ todo' = [todo EXCEPT ![r] = {}]
    /\ ToState(r, "out")
    /\ UNCHANGED <<vars, report, reader, line>>

-----------------------------------------------------------------------------
(* global_stats *)

GlobalStart(r) ==
    /\ rpc[r] = "out"
    /\ MayRead(r) /\ Leave(r)
    /\ ToState(r, "sems")
    /\ UNCHANGED <<vars, todo, report, reader>>

GlobalLock(r) ==
    /\ rpc[r] = "sems"
    /\ MutexFree
    /\ reader' = r
    /\ todo' = [todo EXCEPT ![r] = pools]
    /\ ToState(r, "pools")
    /\ UNCHANGED <<vars, report, line>>

\* consumed.saturating_sub(idle), consumed being cap.saturating_sub(available).
Consumed(k) == Max({Capacity(k) - Available(k), 0})

\* Mutant: parked connections count as active.
ActiveOrParked(k) == Consumed(k)

Active(k) == Max({Consumed(k) - Len(idle[k]), 0})

\* One entry of the pools map, its permits read while tasks go on.
GlobalVisit(r, k) ==
    /\ rpc[r] = "pools" /\ k \in todo[r]
    /\ report' = [report EXCEPT ![r] =
          [idle   |-> @.idle + Len(idle[k]),
           active |-> @.active + Active(k)]]
    /\ todo' = [todo EXCEPT ![r] = @ \ {k}]
    /\ UNCHANGED <<vars, rpc, reader, line>>

GlobalReturn(r) ==
    /\ rpc[r] = "pools" /\ todo[r] = {}
    /\ reader' = NoReader
    /\ report' = [report EXCEPT ![r] = Blank]
    /\ ToState(r, "out")
    /\ UNCHANGED <<vars, todo, line>>

-----------------------------------------------------------------------------
(* Specification *)

Reading(r) ==
    \/ \E k \in Keys : StatsInsert(r, k) \/ StatsReturn(r, k) \/ GlobalVisit(r, k)
    \/ GlobalLock(r) \/ GlobalReturn(r)

Ask(r) == GlobalStart(r) \/ \E k \in Keys : StatsPermits(r, k)

\* acquire, cancel and the end of release look a semaphore up.  That of a task
\* that owns a slot is there.
LooksUp(t) ==
    \/ st[t] = "out" /\ \E k \in Keys : Acquire(t, k)
    \/ Cancel(t) \/ ReturnPermit(t)

Asks(t) ==
    /\ st[t] \in {"out", "insert", "creating", "holding", "dropping"}
    /\ Joins(t)

\* Mutant: release looks the semaphore up with the pools mutex still locked.
TaskStepInMutex(t) ==
    \/ /\ MayRead(t) /\ Leave(t)
       /\ \/ LooksUp(t) /\ lock # t
          \/ /\ st[t] = "dropping" /\ lock = t
             /\ AddPermit(key[t], t, "out") /\ Forget(t)
             /\ lock' = NoTask
             /\ UNCHANGED <<now, pools, idle>>
       /\ UNCHANGED readVars
    \/ InsertSemaphore(t) /\ MayWrite(t) /\ Leave(t) /\ UNCHANGED readVars
    \/ /\ ~Queued(t)
       /\ \/ (Scan(t) \/ (Park(t) /\ st'[t] = "out")) /\ reader = NoReader
          \/ /\ st[t] = "parking" /\ MutexFree
             /\ Len(idle[key[t]]) >= ResolveLimits(key[t]).max_size
             /\ lock' = t
             /\ Move(t, "dropping")
             /\ UNCHANGED <<now, semVars, pools, idle, key, conn>>
          \/ TakePermit(t) \/ Enqueue(t) \/ StartCreate(t) \/ CreateOk(t)
          \/ \E stream \in Streams : Release(t, stream)
       /\ UNCHANGED <<readVars, line>>
    \/ Asks(t)

\* A task's steps are PoolManager's, where it gets the locks they need.
TaskStep(t) ==
    \/ LooksUp(t) /\ MayRead(t) /\ Leave(t) /\ UNCHANGED readVars
    \/ InsertSemaphore(t) /\ MayWrite(t) /\ Leave(t) /\ UNCHANGED readVars
    \/ /\ ~Queued(t)
       /\ \/ (Scan(t) \/ Park(t)) /\ reader = NoReader
          \/ TakePermit(t) \/ Enqueue(t) \/ StartCreate(t) \/ CreateOk(t)
          \/ \E stream \in Streams : Release(t, stream)
       /\ UNCHANGED <<readVars, line>>
    \/ Asks(t)

AsksForReport(r) == rpc[r] \in {"out", "missing"} /\ Joins(r)

StatsNext ==
    \/ Tick /\ UNCHANGED <<readVars, line>>
    \/ \E t \in Tasks : TaskStep(t)
    \/ \E r \in Readers : Reading(r) \/ Ask(r) \/ AsksForReport(r)

StatsSpec == StatsInit /\ [][StatsNext]_statsVars

\* The runtime runs every task inside a call, and the mutex queues fairly, for
\* readers as for tasks.  The map's lock is served in the order of line.
Inside(t) == Queued(t) \/ st[t] \in {"insert", "scan", "sem", "parking", "dropping"}
Asking(r) == Queued(r) \/ rpc[r] # "out"

FairStatsSpec ==
    /\ StatsSpec
    /\ \A r \in Readers :
          SF_statsVars(Asking(r) /\ (Reading(r) \/ Ask(r) \/ AsksForReport(r)))
    /\ \A t \in Tasks : SF_statsVars(Inside(t) /\ TaskStep(t))

-----------------------------------------------------------------------------
(* Properties *)

\* Permits come and go while global_stats runs, but parked connections do
\* not: what it adds for an entry is exactly the number of tasks that own a
\* slot of it at that moment, and saturating_sub never hides a difference.
GlobalExact ==
    [][\A r \in Readers : \A k \in Keys :
          rpc[r] = "pools" /\ k \in todo[r] \ todo'[r] =>
              /\ report'[r].active = report[r].active + usedSlots[k]
              /\ report'[r].idle = report[r].idle + parkedSlots[k]]_statsVars

\* global_stats has the map's read lock while it waits for the mutex, a task may
\* have the mutex while it scans, a writer of the map waits for all that asked
\* before it, and look-ups wait for the writer: nobody is in anybody's way for
\* ever.  Every report is made, every look-up done, and calls into the pool
\* return or wait for a permit.
EveryoneGetsThrough ==
    /\ \A r \in Readers : Asking(r) ~> ~Asking(r)
    /\ \A t \in Tasks : Inside(t) ~> ~Inside(t)

=============================================================================
