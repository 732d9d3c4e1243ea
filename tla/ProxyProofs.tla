----------------------------- MODULE ProxyProofs -----------------------------
(***************************************************************************)
(* Theorems about Proxy, for any clients, warm-up tasks, limits and        *)
(* failures, and with any number of pools.                                 *)
(*                                                                         *)
(* Handlers do little but call the pool, so that PoolInv is kept as in     *)
(* PoolProofs; Kinds sorts out what they do besides.  What a handler may   *)
(* do follows from where it is: PlaceOK ties its place to the state of its *)
(* call, and CleanOK says where its stream may not be a used one.          *)
(***************************************************************************)
EXTENDS Proxy, PoolProofs

Away  == {"out", "parking", "dropping"}
Using == {"relay", "busy", "settle", "error", "closing"}

\* A backend that answers, or would if its server did, and was not reset.
Held == {"used", "mute"}

\* What a task at each place may have under way in the pool.
PlaceOK(t) ==
    /\ pc[t] \in Using => st[t] = "holding"
    /\ pc[t] \in {"login", "authed", "spawned"} => st[t] = "out"
    /\ pc[t] \in {"gone", "greet", "loop", "leaving", "failing"} => st[t] \in Away
    /\ pc[t] = "created" => st[t] \in {"creating", "holding"}
    /\ pc[t] \in {"first", "demand", "warming"} => st[t] \notin Away
    /\ pc[t] = "first" => st[t] # "creating"
    /\ t \in Clients => /\ pc[t] \notin {"spawned", "warming"}
                        /\ pc[t] = "gone" => st[t] = "out"
    /\ t \in Warmers => pc[t] \in {"gone", "spawned", "warming"}

\* A stream that is not in use, or on its way into the deque, is not a used one.
CleanOK(t) ==
    st[t] \in {"creating", "holding", "parking"} /\ pc[t] \notin Using =>
        conn[t].stream \notin Held

HandlerTypes ==
    /\ mode \in Modes
    /\ pc \in [Tasks -> Pcs]
    /\ failures \in 0..MaxFailures
    /\ leaked \in Nat /\ leaked <= failures

HandlersInv ==
    /\ PoolInv
    /\ HandlerTypes
    /\ \A t \in Tasks : PlaceOK(t) /\ CleanOK(t)
    /\ UsedNeverParked

-----------------------------------------------------------------------------
(* Lemmas about the pool's operations *)

\* What is left of a deque was in it.
LEMMA RestElements ==
    ASSUME NEW C, NEW q \in Seq(C), q # <<>>
    PROVE  \A i \in DOMAIN Rest(q) : \E j \in DOMAIN q : Rest(q)[i] = q[j]
<1>1. Len(q) \in Nat /\ Len(q) > 0 /\ DOMAIN q = 1..Len(q)
  BY EmptySeq, LenProperties
<1>2. CASE Strategy = "lifo"
  <2>1. Rest(q) = SubSeq(q, 1, Len(q) - 1)
    BY <1>2 DEF Rest, Front
  <2>2. /\ DOMAIN Rest(q) = 1..(Len(q) - 1)
        /\ \A i \in 1..(Len(q) - 1) : Rest(q)[i] = q[i]
    BY <1>1, <2>1, SubSeqProperties
  <2>3. QED
    BY <1>1, <2>2
<1>3. CASE Strategy # "lifo"
  <2>1. Rest(q) = Tail(q)
    BY <1>3 DEF Rest
  <2>2. /\ DOMAIN Rest(q) = 1..(Len(q) - 1)
        /\ \A i \in 1..(Len(q) - 1) : Rest(q)[i] = q[i + 1] /\ i + 1 \in 1..Len(q)
    BY <1>1, <2>1, HeadTailProperties, LenProperties
  <2>3. QED
    BY <1>1, <2>2
<1>4. QED
  BY <1>2, <1>3

\* A task that steps leaves the others where they are, except that a permit it
\* returns may go to one that waits.
OthersStay(t) ==
    \A w \in Tasks : w # t =>
        /\ conn'[w] = conn[w]
        /\ st'[w] = st[w] \/ (st[w] = "waiting" /\ st'[w] = "granted")

LEMMA GivingBack ==
    ASSUME PoolInv, NEW t \in Tasks, NEW next \in {"out", "scan"},
           st[t] # "waiting", key[t] \in Keys, AddPermit(key[t], t, next)
    PROVE  /\ st' \in [Tasks -> States] /\ st'[t] = next
           /\ \A w \in Tasks : w # t =>
                  st'[w] = st[w] \/ (st[w] = "waiting" /\ st'[w] = "granted")
<1>1. next \in States /\ next # "waiting"
  BY DEF States
<1>2. QED
  BY <1>1, AddPermitKeeps

\* What the pool does inside a call.
LEMMA InternalEffect ==
    ASSUME PoolInv, NEW t \in Tasks, Internal(t)
    PROVE  /\ OthersStay(t)
           /\ \/ st[t] = "insert" /\ st'[t] = "scan"
              \/ st[t] = "scan" /\ st'[t] \in {"scan", "sem", "holding"}
              \/ st[t] = "sem" /\ st'[t] \in {"granted", "waiting"}
              \/ st[t] = "parking" /\ st'[t] \in {"out", "dropping"}
              \/ st[t] = "dropping" /\ st'[t] = "out"
<1> USE DEF PoolInv, TypeOK, OthersStay
<1>1. st[t] # "out" => key[t] \in Keys
  BY DEF TasksOK
<1>2. CASE InsertSemaphore(t)
  BY <1>2 DEF InsertSemaphore, Move
<1>3. CASE ScanHit(t)
  BY <1>3 DEF ScanHit, Move
<1>4. CASE ScanExpired(t)
  <2>1. st[t] = "scan" /\ AddPermit(key[t], t, "scan") /\ conn' = conn
    BY <1>4 DEF ScanExpired
  <2>2. QED
    BY <1>1, <2>1, GivingBack
<1>5. CASE ScanEmpty(t)
  BY <1>5 DEF ScanEmpty, Move
<1>6. CASE TakePermit(t) \/ Enqueue(t)
  BY <1>6 DEF TakePermit, Enqueue, Move
<1>7. CASE Park(t)
  BY <1>7 DEF Park, Move, Forget
<1>8. CASE ReturnPermit(t)
  <2>1. st[t] = "dropping" /\ AddPermit(key[t], t, "out") /\ Forget(t)
    BY <1>8 DEF ReturnPermit
  <2>2. \A w \in Tasks : w # t => conn'[w] = conn[w]
    BY <2>1 DEF Forget
  <2>3. QED
    BY <1>1, <2>1, <2>2, GivingBack
<1>9. QED
  BY <1>2, <1>3, <1>4, <1>5, <1>6, <1>7, <1>8 DEF Internal, Scan

\* Nor do the streams in the deques become used ones by it.
LEMMA InternalClean ==
    ASSUME PoolInv, NEW t \in Tasks, Internal(t), UsedNeverParked,
           st[t] = "parking" => conn[t].stream \notin Held
    PROVE  /\ UsedNeverParked'
           /\ st[t] = "scan" /\ st'[t] = "holding" => conn'[t].stream \notin Held
<1> USE DEF PoolInv
<1>1. /\ \A k \in Keys : idle[k] \in Seq(IdleConns)
      /\ idle \in [Keys -> Seq(IdleConns)]
  BY DEF TypeOK
<1>2. st[t] # "out" => key[t] \in Keys
  BY DEF TasksOK
<1>3. ASSUME UNCHANGED idle PROVE UsedNeverParked'
  BY <1>3 DEF UsedNeverParked, Unreset, Held
<1>4. ASSUME key[t] \in Keys, idle[key[t]] # <<>>,
             idle' = [idle EXCEPT ![key[t]] = Rest(@)]
      PROVE  UsedNeverParked'
  <2>1. SUFFICES ASSUME NEW k \in Keys, NEW i \in DOMAIN idle'[k]
                 PROVE  idle'[k][i].stream \notin Held
    BY DEF UsedNeverParked, Unreset, Held
  <2>2. CASE k = key[t]
    <3>1. idle'[k] = Rest(idle[k])
      BY <1>1, <1>4, <2>2
    <3>2. PICK j \in DOMAIN idle[k] : Rest(idle[k])[i] = idle[k][j]
      BY <1>1, <1>4, <2>2, <3>1, RestElements
    <3>3. QED
      BY <3>1, <3>2 DEF UsedNeverParked, Unreset, Held
  <2>3. CASE k # key[t]
    <3>1. idle'[k] = idle[k]
      BY <1>1, <1>4, <2>3
    <3>2. QED
      BY <3>1 DEF UsedNeverParked, Unreset, Held
  <2>4. QED
    BY <2>2, <2>3
<1>5. CASE InsertSemaphore(t) \/ TakePermit(t) \/ Enqueue(t) \/ ReturnPermit(t)
  BY <1>3, <1>5 DEF InsertSemaphore, TakePermit, Enqueue, ReturnPermit, idleVars
<1>6. CASE ScanHit(t)
  <2>1. /\ key[t] \in Keys /\ idle[key[t]] # <<>>
        /\ idle' = [idle EXCEPT ![key[t]] = Rest(@)]
    BY <1>2, <1>6 DEF ScanHit
  <2>2. PICK i \in DOMAIN idle[key[t]] : Popped(idle[key[t]]) = idle[key[t]][i]
    BY <1>1, <2>1, PopShortens
  <2>3. conn'[t].stream = Popped(idle[key[t]]).stream
    BY <1>6 DEF ScanHit, TypeOK
  <2>4. conn'[t].stream \notin Held
    BY <2>1, <2>2, <2>3 DEF UsedNeverParked, Unreset, Held
  <2>5. QED
    BY <1>4, <2>1, <2>4
<1>7. CASE ScanExpired(t)
  <2>1. /\ key[t] \in Keys /\ idle[key[t]] # <<>>
        /\ idle' = [idle EXCEPT ![key[t]] = Rest(@)]
    BY <1>2, <1>7 DEF ScanExpired
  <2>2. st'[t] = "scan"
    BY <1>2, <1>7, GivingBack DEF ScanExpired
  <2>3. QED
    BY <1>4, <2>1, <2>2
<1>8. CASE ScanEmpty(t)
  BY <1>3, <1>8 DEF ScanEmpty, Move, TypeOK
<1>9. CASE Park(t)
  <2>1. st[t] = "parking" /\ key[t] \in Keys
    BY <1>2, <1>9 DEF Park
  <2>2. CASE UNCHANGED idle
    BY <1>3, <2>1, <2>2
  <2>3. CASE idle' = [idle EXCEPT ![key[t]] =
                        Append(@, [stream |-> conn[t].stream, born |-> conn[t].born,
                                   parked |-> now])]
    <3>1. SUFFICES ASSUME NEW k \in Keys, NEW i \in DOMAIN idle'[k]
                   PROVE  idle'[k][i].stream \notin Held
      BY <2>1 DEF UsedNeverParked, Unreset, Held
    <3>2. CASE k # key[t]
      <4>1. idle'[k] = idle[k]
        BY <1>1, <2>3, <3>2
      <4>2. QED
        BY <4>1 DEF UsedNeverParked, Unreset, Held
    <3>3. CASE k = key[t]
      <4> DEFINE new == [stream |-> conn[t].stream, born |-> conn[t].born, parked |-> now]
      <4>1. new \in IdleConns
        BY <2>1 DEF TasksOK, TypeOK, Conns, IdleConns
      <4>2. idle'[k] = Append(idle[k], new)
        BY <1>1, <2>3, <3>3
      <4>3. /\ i \in 1..(Len(idle[k]) + 1) /\ Len(idle[k]) \in Nat
            /\ DOMAIN idle[k] = 1..Len(idle[k])
            /\ Append(idle[k], new)[i] = IF i <= Len(idle[k]) THEN idle[k][i] ELSE new
        <5>1. Len(idle[k]) \in Nat /\ DOMAIN idle[k] = 1..Len(idle[k])
          BY <1>1, LenProperties
        <5>2. DOMAIN Append(idle[k], new) = 1..(Len(idle[k]) + 1)
          BY <1>1, <4>1, AppendProperties, LenProperties
        <5>3. QED
          BY <1>1, <4>1, <4>2, <5>1, <5>2, AppendProperties
      <4>4. new.stream \notin Held
        BY <2>1
      <4>5. QED
        BY <4>2, <4>3, <4>4 DEF UsedNeverParked, Unreset, Held
    <3>4. QED
      BY <3>2, <3>3
  <2>4. QED
    BY <1>9, <2>2, <2>3 DEF Park
<1>10. QED
  BY <1>5, <1>6, <1>7, <1>8, <1>9 DEF Internal, Scan

-----------------------------------------------------------------------------
(* What steps do to the pool *)

\* The stream of a client's backend turns into another kind.
Marks(c, s) ==
    /\ st[c] = "holding"
    /\ conn' = [conn EXCEPT ![c].stream = s]
    /\ UNCHANGED <<now, semVars, idleVars, st, key, leaked>>

LEMMA StreamInUse ==
    ASSUME HandlersInv, NEW t \in Tasks, st[t] \in {"holding", "creating"}
    PROVE  conn[t].stream \in Streams
BY DEF HandlersInv, PoolInv, TasksOK, Conns

\* A step is one of the pool's or leaves the pool alone, with five exceptions.
LEMMA Kinds ==
    ASSUME HandlersInv, [ProxyNext]_allVars
    PROVE  \/ [Next]_vars /\ leaked' = leaked
           \/ \E t \in Tasks : LosesSlot(t)
           \/ \E c \in Clients : LogStats(c)
           \/ \E c \in Clients, s \in Streams : Marks(c, s)
           \/ ParkedDies
<1> DEFINE Goal ==
           \/ [Next]_vars /\ leaked' = leaked
           \/ \E t \in Tasks : LosesSlot(t)
           \/ \E c \in Clients : LogStats(c)
           \/ \E c \in Clients, s \in Streams : Marks(c, s)
           \/ ParkedDies
<1>1. ASSUME UNCHANGED <<vars, leaked>> PROVE Goal
  BY <1>1
<1>2. ASSUME NEW t \in Tasks, Internal(t) \/ Call(t), leaked' = leaked PROVE Goal
  BY <1>2 DEF Next
<1>3. CASE UNCHANGED allVars
  BY <1>1, <1>3 DEF allVars, proxyVars
<1>4. CASE Time
  BY <1>4 DEF Time, proxyVars, Next
<1>5. ASSUME NEW t \in Tasks, PoolStep(t) \/ Backend(t) PROVE Goal
  BY <1>2, <1>5 DEF PoolStep, Backend, BeginCreate, Created, proxyVars, Call
<1>6. ASSUME NEW c \in Clients, LoginStep(c) PROVE Goal
  <2>1. c \in Tasks /\ PoolKey \in Keys
    BY ProxyAssumption
  <2>2. CASE Connect(c) \/ LoginEnds(c) \/ Failed(c)
    BY <1>1, <2>2 DEF Connect, LoginEnds, Failed
  <2>3. CASE AcquireFirst(c)
    BY <1>2, <2>1, <2>3 DEF AcquireFirst, Call
  <2>4. CASE CreateFails(c) \/ Panics(c)
    BY <1>1, <2>1, <2>4 DEF CreateFails, Panics
  <2>5. QED
    BY <1>6, <2>2, <2>3, <2>4 DEF LoginStep
<1>7. ASSUME NEW c \in Clients, SessionStep(c) PROVE Goal
  <2>1. c \in Tasks
    BY ProxyAssumption
  <2>2. CASE SessionReady(c)
    BY <1>1, <2>2 DEF SessionReady
  <2>3. CASE SessionReadyFails(c)
    <3>1. CASE Release(c, conn[c].stream)
      <4>1. conn[c].stream \in Streams
        BY <2>1, <3>1 DEF HandlersInv, PoolInv, TasksOK, Release, Conns
      <4>2. QED
        BY <1>2, <2>1, <2>3, <3>1, <4>1 DEF SessionReadyFails, Call
    <3>2. CASE Cancel(c)
      BY <1>2, <2>1, <2>3, <3>2 DEF SessionReadyFails, Call
    <3>3. QED
      BY <2>3, <3>1, <3>2 DEF SessionReadyFails
  <2>4. CASE RelayEnds(c)
    <3>1. st[c] = "holding"
      BY <2>1, <2>4 DEF RelayEnds, HandlersInv, PlaceOK, Using
    <3>2. Abandoned(c) \subseteq Streams
      BY <2>1, <3>1, StreamInUse, ProxyAssumption DEF Abandoned
    <3>3. QED
      BY <2>4, <3>1, <3>2, ProxyAssumption DEF RelayEnds, Stream, Marks
  <2>5. QED
    BY <1>7, <2>2, <2>3, <2>4 DEF SessionStep
<1>8. ASSUME NEW c \in Clients, TransactionStep(c) PROVE Goal
  <2>1. c \in Tasks /\ PoolKey \in Keys
    BY ProxyAssumption
  <2>2. CASE Greet(c) \/ TransactionEnds(c) \/ ErrorOutside(c)
    BY <1>1, <2>2 DEF Greet, TransactionEnds, ErrorOutside
  <2>3. CASE ReleaseFirst(c)
    <3>1. conn[c].stream \in Streams
      BY <2>1, <2>3 DEF ReleaseFirst, HandlersInv, PoolInv, TasksOK, Release, Conns
    <3>2. QED
      BY <1>2, <2>1, <2>3, <3>1 DEF ReleaseFirst, Call
  <2>4. CASE Demand(c) \/ DemandFails(c)
    BY <1>2, <2>1, <2>4 DEF Demand, DemandFails, Call
  <2>5. CASE Forward(c)
    <3>1. st[c] = "holding" /\ WrittenTo(c) \in Streams
      BY <2>1, <2>5, StreamInUse, ProxyAssumption DEF Forward, Has, WrittenTo
    <3>2. QED
      BY <1>1, <2>5, <3>1 DEF Forward, Stream, Marks, vars, taskVars
  <2>6. CASE LoopEnds(c)
    <3>1. pc[c] = "busy" => st[c] = "holding"
      BY <2>1 DEF HandlersInv, PlaceOK, Using
    <3>2. QED
      BY <1>1, <2>6, <3>1, ProxyAssumption
      DEF LoopEnds, Stream, Marks, vars, taskVars
  <2>7. CASE Tears(c)
    <3>1. st[c] = "holding"
      BY <2>1, <2>7 DEF Tears, HandlersInv, PlaceOK, Using
    <3>2. QED
      BY <2>7, <3>1, ProxyAssumption DEF Tears, Stream, Marks, proxyVars
  <2>8. QED
    BY <1>8, <2>2, <2>3, <2>4, <2>5, <2>6, <2>7 DEF TransactionStep
<1>9. ASSUME NEW c \in Clients, ResetStep(c) PROVE Goal
  <2>1. c \in Tasks /\ {"ready", "torn", "failed"} \subseteq Streams
    BY ProxyAssumption
  <2>2. leaked' = leaked
    BY <1>9 DEF ResetStep, Settle, ErrorReset, Close
  <2>3. (\E s \in {"ready", "torn", "failed"} : Release(c, s)) \/ Cancel(c)
    BY <1>9 DEF ResetStep, Settle, ErrorReset, Close, ResetAndRelease, Drop
  <2>4. QED
    BY <1>2, <2>1, <2>2, <2>3 DEF Call
<1>10. ASSUME NEW c \in Clients, SpawnWarmup(c) \/ FallsSilent(c) PROVE Goal
  <2>1. CASE SpawnWarmup(c)
    BY <1>1, <2>1 DEF SpawnWarmup
  <2>2. CASE FallsSilent(c)
    <3>1. st[c] = "holding"
      BY <2>2, ProxyAssumption DEF FallsSilent, HandlersInv, PlaceOK, Using
    <3>2. QED
      BY <2>2, <3>1, ProxyAssumption DEF FallsSilent, Stream, Marks
  <2>3. QED
    BY <1>10, <2>1, <2>2
<1>11. ASSUME NEW w \in Warmers, WarmStep(w) PROVE Goal
  <2>1. w \in Tasks /\ PoolKey \in Keys
    BY ProxyAssumption
  <2>2. CASE WarmAcquire(w) \/ WarmFails(w)
    BY <1>2, <2>1, <2>2 DEF WarmAcquire, WarmFails, Call
  <2>3. CASE WarmRelease(w)
    <3>1. conn[w].stream \in Streams
      BY <2>1, <2>3 DEF WarmRelease, HandlersInv, PoolInv, TasksOK, Release, Conns
    <3>2. QED
      BY <1>2, <2>1, <2>3, <3>1 DEF WarmRelease, Call
  <2>4. CASE WarmPanics(w)
    BY <2>1, <2>4 DEF WarmPanics
  <2>5. QED
    BY <1>11, <2>2, <2>3, <2>4 DEF WarmStep
<1>12. QED
  BY <1>3, <1>4, <1>5, <1>6, <1>7, <1>8, <1>9, <1>10, <1>11 DEF ProxyNext

\* A parked connection that has died is parked all the same.
LEMMA DeadIsParked ==
    ASSUME idle \in [Keys -> Seq(IdleConns)], NEW k \in Keys, NEW i \in DOMAIN idle[k],
           idle' = [idle EXCEPT ![k][i].stream = "dead"]
    PROVE  /\ idle' \in [Keys -> Seq(IdleConns)]
           /\ \A j \in Keys : Len(idle'[j]) = Len(idle[j])
           /\ \A j \in Keys : \A m \in DOMAIN idle'[j] :
                  /\ m \in DOMAIN idle[j]
                  /\ idle'[j][m] = idle[j][m] \/ idle'[j][m].stream = "dead"
<1> DEFINE q == idle[k]
           r == [q EXCEPT ![i].stream = "dead"]
<1>1. /\ q \in Seq(IdleConns) /\ Len(q) \in Nat /\ DOMAIN q = 1..Len(q)
      /\ \A m \in 1..Len(q) : q[m] \in IdleConns
  BY LenProperties, ElementOfSeq
<1>2. "dead" \in Streams
  BY ProxyAssumption
<1>3. [q[i] EXCEPT !.stream = "dead"] \in IdleConns
  BY <1>1, <1>2 DEF IdleConns
<1>4. r \in [1..Len(q) -> IdleConns]
  BY <1>1, <1>3
<1>5. r \in Seq(IdleConns) /\ Len(r) = Len(q) /\ DOMAIN r = DOMAIN q
  BY <1>1, <1>4, IsASeq, LenProperties
<1>6. idle' = [idle EXCEPT ![k] = r]
  OBVIOUS
<1>7. \A m \in DOMAIN r : r[m] = q[m] \/ r[m].stream = "dead"
  BY <1>1, <1>3 DEF IdleConns
<1>8. QED
  BY <1>5, <1>6, <1>7

\* The pool's own invariant survives what handlers do besides calling it.
LEMMA PoolInvKept == HandlersInv /\ [ProxyNext]_allVars => PoolInv'
<1>1. SUFFICES ASSUME HandlersInv, [ProxyNext]_allVars PROVE PoolInv'
  OBVIOUS
<1> USE DEF PoolInv
<1>2. PoolInv
  BY <1>1 DEF HandlersInv
<1>3. CASE [Next]_vars
  BY <1>2, <1>3, PoolInvNext
<1>4. ASSUME NEW c \in Tasks, LosesSlot(c) PROVE PoolInv'
  <2>1. c \in Tasks
    OBVIOUS
  <2>2. /\ st[c] \in {"creating", "holding"} /\ st' = [st EXCEPT ![c] = "out"]
        /\ key' = [key EXCEPT ![c] = NoKey] /\ conn' = [conn EXCEPT ![c] = NoConn]
        /\ UNCHANGED <<now, sems, permits, waiters, pools, idle, lock>>
    BY <1>4 DEF LosesSlot, Move, Forget, semVars, idleVars
  <2>3. TypeOK'
    BY <1>2, <2>1, <2>2 DEF TypeOK, States
  <2>4. QueuesOK'
    BY <1>2, <2>1, <2>2, QueuesStay DEF TypeOK
  <2>5. TasksOK' /\ SemsOK'
    BY <1>2, <2>1, <2>2 DEF TypeOK, TasksOK, SemsOK
  <2>6. QED
    BY <2>3, <2>4, <2>5
<1>5. ASSUME NEW c \in Clients, LogStats(c) PROVE PoolInv'
  <2>1. /\ PoolKey \in Keys /\ sems' = sems \union {PoolKey}
        /\ permits' = [permits EXCEPT ![PoolKey] = Available(PoolKey)]
        /\ UNCHANGED <<now, waiters, pools, idle, lock, st, key, conn>>
    BY <1>5, ProxyAssumption DEF LogStats, idleVars, taskVars
  <2>2. QED
    BY <1>2, <2>1, LookUpKeeps
<1>6. ASSUME NEW c \in Clients, NEW s \in Streams, Marks(c, s) PROVE PoolInv'
  <2>1. /\ c \in Tasks /\ st[c] = "holding" /\ conn' = [conn EXCEPT ![c].stream = s]
        /\ UNCHANGED <<now, sems, permits, waiters, pools, idle, lock, st, key>>
    BY <1>6, ProxyAssumption DEF Marks, semVars, idleVars
  <2>2. conn[c] \in Conns
    BY <1>2, <2>1 DEF TasksOK
  <2>3. [conn[c] EXCEPT !.stream = s] \in Conns
    BY <2>2 DEF Conns
  <2>4. TypeOK'
    BY <1>2, <2>1, <2>3 DEF TypeOK
  <2>5. QueuesOK' /\ SemsOK'
    BY <1>2, <2>1, QueuesStay DEF SemsOK
  <2>6. TasksOK'
    BY <1>2, <2>1, <2>3 DEF TasksOK, TypeOK
  <2>7. QED
    BY <2>4, <2>5, <2>6
<1>7. CASE ParkedDies
  <2>1. PICK k \in Keys : \E i \in DOMAIN idle[k] :
            idle' = [idle EXCEPT ![k][i].stream = "dead"]
    BY <1>7 DEF ParkedDies
  <2>2. UNCHANGED <<now, sems, permits, waiters, pools, lock, st, key, conn>>
    BY <1>7 DEF ParkedDies, semVars, taskVars
  <2>3. idle' \in [Keys -> Seq(IdleConns)]
    BY <1>2, <2>1, DeadIsParked DEF TypeOK
  <2>4. QED
    BY <1>2, <2>2, <2>3, QueuesStay DEF TypeOK, TasksOK, SemsOK
<1>8. QED
  BY <1>1, <1>3, <1>4, <1>5, <1>6, <1>7, Kinds

-----------------------------------------------------------------------------
(* Where tasks are, and what they may hold there *)

\* A task that only sees a permit come keeps its place.
LEMMA OnlyOneMoves ==
    ASSUME HandlersInv, NEW t \in Tasks, OthersStay(t),
           \A w \in Tasks : w # t => pc'[w] = pc[w],
           PlaceOK(t)', CleanOK(t)'
    PROVE  \A w \in Tasks : PlaceOK(w)' /\ CleanOK(w)'
<1> SUFFICES ASSUME NEW w \in Tasks, w # t PROVE PlaceOK(w)' /\ CleanOK(w)'
  OBVIOUS
<1>1. /\ pc'[w] = pc[w] /\ conn'[w] = conn[w]
      /\ st'[w] = st[w] \/ (st[w] = "waiting" /\ st'[w] = "granted")
  BY DEF OthersStay
<1>2. PlaceOK(w) /\ CleanOK(w)
  BY DEF HandlersInv
<1>3. PlaceOK(w)'
  BY <1>1, <1>2 DEF PlaceOK, Using, Away
<1>4. CleanOK(w)'
  BY <1>1, <1>2 DEF CleanOK
<1>5. QED
  BY <1>3, <1>4

\* cancel: the task is out of the pool, and has no stream.
LEMMA CancelEffect ==
    ASSUME PoolInv, NEW t \in Tasks, Cancel(t)
    PROVE  OthersStay(t) /\ st'[t] = "out"
<1>1. key[t] \in Keys /\ st[t] # "waiting" /\ AddPermit(key[t], t, "out")
  BY DEF Cancel, PoolInv, TasksOK
<1>2. \A w \in Tasks : w # t => conn'[w] = conn[w]
  BY DEF Cancel, Forget, PoolInv, TypeOK
<1>3. QED
  BY <1>1, <1>2, GivingBack DEF OthersStay

\* release: the task's stream is what it was released with.
LEMMA ReleaseEffect ==
    ASSUME PoolInv, NEW t \in Tasks, NEW s, Release(t, s)
    PROVE  /\ OthersStay(t)
           /\ st'[t] \in {"parking", "dropping"}
           /\ conn'[t].stream = s
<1>1. conn[t] \in Conns /\ st[t] = "holding"
  BY DEF Release, PoolInv, TasksOK
<1>2. conn'[t] = [conn[t] EXCEPT !.stream = s]
  BY DEF Release, PoolInv, TypeOK
<1>3. conn'[t].stream = s
  BY <1>1, <1>2 DEF Conns
<1>4. st'[t] \in {"parking", "dropping"}
  BY DEF Release, Move, PoolInv, TypeOK
<1>5. OthersStay(t)
  BY DEF Release, Move, PoolInv, TypeOK, OthersStay
<1>6. QED
  BY <1>3, <1>4, <1>5

\* A task that loses its slot is out of the pool, and has no stream.
LEMMA LosingEffect ==
    ASSUME PoolInv, NEW t \in Tasks, LosesSlot(t)
    PROVE  OthersStay(t) /\ st'[t] = "out" /\ UNCHANGED idle
BY DEF LosesSlot, Move, Forget, OthersStay, PoolInv, TypeOK, idleVars

\* acquire: it is under way.
LEMMA AcquireEffect ==
    ASSUME PoolInv, NEW t \in Tasks, NEW k \in Keys, Acquire(t, k)
    PROVE  OthersStay(t) /\ st'[t] \in {"insert", "scan"}
BY DEF Acquire, Move, PoolInv, TypeOK, OthersStay

\* One task moves, to a place that suits it, and parks nothing by it.
Takes(t, place) ==
    /\ Goto(t, place) /\ place \in Pcs
    /\ OthersStay(t)
    /\ PlaceOK(t)' /\ CleanOK(t)'

LEMMA TakesKeeps ==
    ASSUME HandlersInv, NEW t \in Tasks, NEW place, Takes(t, place)
    PROVE  /\ pc' \in [Tasks -> Pcs]
           /\ \A w \in Tasks : PlaceOK(w)' /\ CleanOK(w)'
<1>1. /\ pc' \in [Tasks -> Pcs]
      /\ \A w \in Tasks : w # t => pc'[w] = pc[w]
  BY DEF Takes, Goto, HandlersInv, HandlerTypes
<1>2. QED
  BY <1>1, OnlyOneMoves DEF Takes

\* What the handler of a client is allowed at a place, seen from the place.
LEMMA ClientAt ==
    ASSUME NEW c \in Clients, NEW place \in Pcs \ {"spawned", "warming"},
           pc'[c] = place,
           \/ place \in Using /\ st'[c] = "holding"
           \/ place \in {"gone", "login", "authed"} /\ st'[c] = "out"
           \/ /\ place \in {"greet", "loop", "leaving", "failing"} /\ st'[c] \in Away
              /\ st'[c] = "parking" => conn'[c].stream \notin Held
           \/ place \in {"first", "demand"} /\ st'[c] \in {"insert", "scan"}
           \/ /\ place = "created" /\ st'[c] \in {"creating", "holding"}
              /\ conn'[c].stream \notin Held
    PROVE  PlaceOK(c)' /\ CleanOK(c)'
<1>1. c \notin Warmers
  BY ProxyAssumption
<1>2. PlaceOK(c)'
  BY <1>1 DEF PlaceOK, Using, Away
<1>3. CleanOK(c)'
  BY DEF CleanOK, Using, Away
<1>4. QED
  BY <1>2, <1>3

LEMMA LoginTakes ==
    ASSUME HandlersInv, NEW c \in Clients, LoginStep(c)
    PROVE  (\E place : Takes(c, place)) /\ UNCHANGED idle
<1>1. /\ c \in Tasks /\ PoolKey \in Keys /\ PlaceOK(c) /\ PoolInv
      /\ pc \in [Tasks -> Pcs] /\ st \in [Tasks -> States]
      /\ {"login", "gone", "authed", "first"} \subseteq Pcs \ {"spawned", "warming"}
  BY ProxyAssumption DEF HandlersInv, HandlerTypes, PoolInv, TypeOK, Pcs
<1>2. ASSUME NEW place, Goto(c, place), place \in {"login", "gone", "authed"},
             st' = st, conn' = conn, st[c] = "out"
      PROVE  Takes(c, place)
  <2>1. OthersStay(c)
    BY <1>2 DEF OthersStay
  <2>2. pc'[c] = place
    BY <1>1, <1>2 DEF Goto
  <2>3. PlaceOK(c)' /\ CleanOK(c)'
    BY <1>1, <1>2, <2>2, ClientAt
  <2>4. QED
    BY <1>1, <1>2, <2>1, <2>3 DEF Takes
<1>3. CASE Connect(c)
  BY <1>1, <1>2, <1>3 DEF Connect, PlaceOK, vars, taskVars, idleVars
<1>4. CASE LoginEnds(c)
  BY <1>1, <1>2, <1>4 DEF LoginEnds, Leaves, PlaceOK, vars, taskVars, idleVars
<1>5. CASE LogStats(c)
  BY <1>1, <1>2, <1>5 DEF LogStats, PlaceOK, taskVars, idleVars
<1>6. CASE Failed(c)
  BY <1>1, <1>2, <1>6 DEF Failed, Leaves, vars, taskVars, idleVars
<1>7. CASE AcquireFirst(c)
  <2>1. OthersStay(c) /\ st'[c] \in {"insert", "scan"}
    BY <1>1, <1>7, AcquireEffect DEF AcquireFirst
  <2>2. Goto(c, "first") /\ pc'[c] = "first"
    BY <1>1, <1>7 DEF AcquireFirst, Goto
  <2>3. PlaceOK(c)' /\ CleanOK(c)'
    BY <1>1, <2>1, <2>2, ClientAt
  <2>4. UNCHANGED idle
    BY <1>7 DEF AcquireFirst, Acquire, idleVars
  <2>5. QED
    BY <1>1, <2>1, <2>2, <2>3, <2>4 DEF Takes
<1>8. ASSUME Goto(c, "gone"), LosesSlot(c)
      PROVE  (\E place : Takes(c, place)) /\ UNCHANGED idle
  <2>1. pc'[c] = "gone" /\ st'[c] = "out"
    BY <1>1, <1>8, LosingEffect DEF Goto
  <2>2. PlaceOK(c)' /\ CleanOK(c)'
    BY <1>1, <2>1, ClientAt
  <2>3. QED
    BY <1>1, <1>8, <2>2, LosingEffect DEF Takes
<1>9. CASE CreateFails(c)
  BY <1>8, <1>9 DEF CreateFails, Leaves
<1>10. CASE Panics(c)
  <2>1. Goto(c, "gone") /\ (LosesSlot(c) \/ (st[c] = "out" /\ UNCHANGED vars))
    BY <1>10 DEF Panics, Leaves
  <2>2. QED
    BY <1>1, <1>2, <1>8, <2>1 DEF vars, taskVars, idleVars
<1>11. QED
  BY <1>3, <1>4, <1>5, <1>6, <1>7, <1>9, <1>10 DEF LoginStep

\* A handler whose backend changes kind, or not, and who goes on holding it.
LEMMA KeepsHolding ==
    ASSUME HandlersInv, NEW c \in Clients, NEW place \in Using, Goto(c, place),
           st[c] = "holding", st' = st,
           conn' = conn \/ \E s \in Streams : Stream(c, s)
    PROVE  Takes(c, place)
<1>1. /\ c \in Tasks /\ pc \in [Tasks -> Pcs] /\ place \in Pcs \ {"spawned", "warming"}
      /\ conn \in [Tasks -> Conns \union {NoConn}]
  BY ProxyAssumption DEF HandlersInv, HandlerTypes, PoolInv, TypeOK, Pcs, Using
<1>2. OthersStay(c)
  BY <1>1 DEF OthersStay, Stream
<1>3. pc'[c] = place /\ st'[c] = "holding"
  BY <1>1 DEF Goto
<1>4. QED
  BY <1>1, <1>2, <1>3, ClientAt DEF Takes

\* A handler that gives its backend back.
LEMMA GivesUp ==
    ASSUME HandlersInv, NEW c \in Clients, Goto(c, "loop") \/ Goto(c, "leaving")
                                           \/ Goto(c, "failing") \/ Goto(c, "greet"),
           \/ Cancel(c)
           \/ \E s \in Streams \ Held : Release(c, s)
    PROVE  (\E place : Takes(c, place)) /\ UNCHANGED idle
<1>1. /\ c \in Tasks /\ pc \in [Tasks -> Pcs] /\ PoolInv
      /\ {"loop", "leaving", "failing", "greet"} \subseteq Pcs \ {"spawned", "warming"}
  BY ProxyAssumption DEF HandlersInv, HandlerTypes, Pcs
<1>2. PICK place \in {"loop", "leaving", "failing", "greet"} : Goto(c, place)
  OBVIOUS
<1>3. pc'[c] = place
  BY <1>1, <1>2 DEF Goto
<1>4. /\ OthersStay(c) /\ st'[c] \in Away
      /\ st'[c] = "parking" => conn'[c].stream \notin Held
  BY <1>1, CancelEffect, ReleaseEffect DEF Away
<1>5. PlaceOK(c)' /\ CleanOK(c)'
  BY <1>1, <1>3, <1>4, ClientAt
<1>6. UNCHANGED idle
  BY DEF Cancel, Release, idleVars
<1>7. QED
  BY <1>1, <1>2, <1>4, <1>5, <1>6 DEF Takes

\* A backend that is not in use is not a used one.
LEMMA CleanOutside ==
    ASSUME HandlersInv, NEW t \in Tasks, st[t] \in {"holding", "creating"},
           pc[t] \notin Using
    PROVE  conn[t].stream \in Streams \ Held
<1>1. conn[t] \in Conns
  BY DEF HandlersInv, PoolInv, TasksOK
<1>2. QED
  BY <1>1 DEF HandlersInv, CleanOK, Conns

LEMMA SessionTakes ==
    ASSUME HandlersInv, NEW c \in Clients, SessionStep(c)
    PROVE  (\E place : Takes(c, place)) /\ UNCHANGED idle
<1>1. c \in Tasks /\ PlaceOK(c) /\ {"used", "torn", "dead"} \subseteq Streams
  BY ProxyAssumption DEF HandlersInv
<1>2. CASE SessionReady(c)
  BY <1>2, KeepsHolding DEF SessionReady, Has, Using, vars, taskVars, idleVars
<1>3. CASE SessionReadyFails(c)
  <2>1. conn[c].stream \in Streams \ Held
    BY <1>1, <1>3, CleanOutside DEF SessionReadyFails, Has, Using
  <2>2. QED
    BY <1>3, <2>1, GivesUp DEF SessionReadyFails
<1>4. CASE RelayEnds(c)
  <2>1. st[c] = "holding"
    BY <1>1, <1>4 DEF RelayEnds, PlaceOK, Using
  <2>2. Abandoned(c) \subseteq Streams
    BY <1>1, <2>1, StreamInUse DEF Abandoned
  <2>3. QED
    BY <1>1, <1>4, <2>1, <2>2, KeepsHolding DEF RelayEnds, Using, idleVars
<1>5. QED
  BY <1>2, <1>3, <1>4 DEF SessionStep

LEMMA TransactionTakes ==
    ASSUME HandlersInv, NEW c \in Clients, TransactionStep(c)
    PROVE  (\E place : Takes(c, place)) /\ UNCHANGED idle
<1>1. /\ c \in Tasks /\ PoolKey \in Keys /\ PlaceOK(c) /\ PoolInv
      /\ {"used", "torn", "dead"} \subseteq Streams
      /\ pc \in [Tasks -> Pcs] /\ st \in [Tasks -> States]
      /\ {"loop", "gone", "leaving", "demand"} \subseteq Pcs \ {"spawned", "warming"}
  BY ProxyAssumption DEF HandlersInv, HandlerTypes, PoolInv, TypeOK, Pcs
<1>2. CASE ReleaseFirst(c)
  <2>1. conn[c].stream \in Streams \ Held
    BY <1>1, <1>2, CleanOutside DEF ReleaseFirst, Has, Using
  <2>2. QED
    BY <1>2, <2>1, GivesUp DEF ReleaseFirst
<1>3. ASSUME NEW place \in {"loop", "gone", "leaving"}, Goto(c, place),
             st' = st, conn' = conn, st[c] = "out"
      PROVE  Takes(c, place)
  <2>1. OthersStay(c)
    BY <1>3 DEF OthersStay
  <2>2. pc'[c] = place
    BY <1>1, <1>3 DEF Goto
  <2>3. PlaceOK(c)' /\ CleanOK(c)'
    BY <1>1, <1>3, <2>2, ClientAt DEF Away
  <2>4. QED
    BY <1>1, <1>3, <2>1, <2>3 DEF Takes
<1>4. CASE Greet(c)
  BY <1>3, <1>4 DEF Greet, Leaves, vars, taskVars, idleVars
<1>5. CASE Demand(c)
  <2>1. OthersStay(c) /\ st'[c] \in {"insert", "scan"}
    BY <1>1, <1>5, AcquireEffect DEF Demand
  <2>2. Goto(c, "demand") /\ pc'[c] = "demand"
    BY <1>1, <1>5 DEF Demand, Goto
  <2>3. PlaceOK(c)' /\ CleanOK(c)'
    BY <1>1, <2>1, <2>2, ClientAt
  <2>4. UNCHANGED idle
    BY <1>5 DEF Demand, Acquire, idleVars
  <2>5. QED
    BY <1>1, <2>1, <2>2, <2>3, <2>4 DEF Takes
<1>6. CASE DemandFails(c)
  BY <1>6, GivesUp DEF DemandFails
<1>7. CASE Forward(c)
  <2>1. st[c] = "holding" /\ WrittenTo(c) \in Streams
    BY <1>1, <1>7, StreamInUse DEF Forward, Has, WrittenTo
  <2>2. QED
    BY <1>1, <1>7, <2>1, KeepsHolding DEF Forward, Using, idleVars
<1>8. ASSUME pc[c] = "busy" PROVE st[c] = "holding"
  BY <1>1, <1>8 DEF PlaceOK, Using
<1>9. CASE TransactionEnds(c) \/ ErrorOutside(c)
  BY <1>8, <1>9, KeepsHolding
  DEF TransactionEnds, ErrorOutside, Using, vars, taskVars, idleVars
<1>10. CASE LoopEnds(c)
  BY <1>1, <1>3, <1>8, <1>10, KeepsHolding DEF LoopEnds, Using, idleVars
<1>11. CASE Tears(c)
  <2>1. pc' = pc /\ Goto(c, "busy")
    BY <1>1, <1>11 DEF Tears, Goto, proxyVars
  <2>2. QED
    BY <1>1, <1>8, <1>11, <2>1, KeepsHolding DEF Tears, Using, idleVars
<1>12. QED
  BY <1>2, <1>4, <1>5, <1>6, <1>7, <1>9, <1>10, <1>11 DEF TransactionStep

LEMMA ResetTakes ==
    ASSUME HandlersInv, NEW c \in Clients, ResetStep(c)
    PROVE  (\E place : Takes(c, place)) /\ UNCHANGED idle
<1>1. {"ready", "torn", "failed"} \subseteq Streams \ Held
  BY ProxyAssumption DEF Held
<1>2. (\E s \in {"ready", "torn", "failed"} : Release(c, s)) \/ Cancel(c)
  BY DEF ResetStep, Settle, ErrorReset, Close, ResetAndRelease, Drop
<1>3. Goto(c, "loop") \/ Goto(c, "leaving")
  BY DEF ResetStep, Settle, ErrorReset, Close
<1>4. QED
  BY <1>1, <1>2, <1>3, GivesUp

LEMMA SilentTakes ==
    ASSUME HandlersInv, NEW c \in Clients, FallsSilent(c)
    PROVE  (\E place : Takes(c, place)) /\ UNCHANGED idle
<1>1. /\ c \in Tasks /\ PlaceOK(c) /\ "mute" \in Streams /\ pc \in [Tasks -> Pcs]
      /\ pc[c] \in Using
  BY ProxyAssumption DEF HandlersInv, HandlerTypes, FallsSilent, Using
<1>2. Goto(c, pc[c])
  BY <1>1 DEF FallsSilent, Goto
<1>3. st[c] = "holding"
  BY <1>1 DEF PlaceOK
<1>4. QED
  BY <1>1, <1>2, <1>3, KeepsHolding DEF FallsSilent, idleVars

LEMMA WarmTakes ==
    ASSUME HandlersInv, NEW w \in Warmers, WarmStep(w)
    PROVE  (\E place : Takes(w, place)) /\ UNCHANGED idle
<1>1. /\ w \in Tasks /\ w \notin Clients /\ PoolKey \in Keys /\ PoolInv
      /\ pc \in [Tasks -> Pcs] /\ {"gone", "warming"} \subseteq Pcs
  BY ProxyAssumption DEF HandlersInv, HandlerTypes, Pcs
<1>2. ASSUME Goto(w, "gone"), OthersStay(w), st'[w] \in Away,
             st'[w] = "parking" => conn'[w].stream \notin Held
      PROVE  Takes(w, "gone")
  <2>1. pc'[w] = "gone"
    BY <1>1, <1>2 DEF Goto
  <2>2. PlaceOK(w)' /\ CleanOK(w)'
    BY <1>1, <1>2, <2>1 DEF PlaceOK, CleanOK, Using, Away
  <2>3. QED
    BY <1>1, <1>2, <2>2 DEF Takes
<1>3. CASE WarmAcquire(w)
  <2>1. OthersStay(w) /\ st'[w] \in {"insert", "scan"}
    BY <1>1, <1>3, AcquireEffect DEF WarmAcquire
  <2>2. Goto(w, "warming") /\ pc'[w] = "warming"
    BY <1>1, <1>3 DEF WarmAcquire, Goto
  <2>3. PlaceOK(w)' /\ CleanOK(w)'
    BY <1>1, <2>1, <2>2 DEF PlaceOK, CleanOK, Using, Away
  <2>4. UNCHANGED idle
    BY <1>3 DEF WarmAcquire, Acquire, idleVars
  <2>5. QED
    BY <1>1, <2>1, <2>2, <2>3, <2>4 DEF Takes
<1>4. CASE WarmRelease(w)
  <2>1. conn[w].stream \notin Held
    BY <1>1, <1>4, CleanOutside DEF WarmRelease, Has, Using
  <2>2. UNCHANGED idle
    BY <1>4 DEF WarmRelease, Release, idleVars
  <2>3. QED
    BY <1>1, <1>2, <1>4, <2>1, <2>2, ReleaseEffect DEF WarmRelease, Away
<1>5. CASE WarmFails(w)
  <2>1. UNCHANGED idle
    BY <1>5 DEF WarmFails, Cancel, idleVars
  <2>2. QED
    BY <1>1, <1>2, <1>5, <2>1, CancelEffect DEF WarmFails, Away
<1>6. CASE WarmPanics(w)
  <2>1. Goto(w, "gone") /\ LosesSlot(w)
    BY <1>6 DEF WarmPanics
  <2>2. QED
    BY <1>1, <1>2, <2>1, LosingEffect DEF Away
<1>7. QED
  BY <1>3, <1>4, <1>5, <1>6 DEF WarmStep

\* A new backend is a fresh one, which is not a used one.
LEMMA BackendTakes ==
    ASSUME HandlersInv, NEW t \in Tasks, Backend(t)
    PROVE  (\E place : Takes(t, place)) /\ UNCHANGED idle
<1>1. /\ PlaceOK(t) /\ CleanOK(t) /\ PoolInv /\ FreshStream = "ready"
      /\ pc \in [Tasks -> Pcs] /\ "created" \in Pcs /\ pc[t] \in Pcs
      /\ st \in [Tasks -> States] /\ conn \in [Tasks -> Conns \union {NoConn}]
  BY ProxyAssumption DEF HandlersInv, HandlerTypes, PoolInv, TypeOK, Pcs
<1>2. CASE BeginCreate(t)
  <2> DEFINE place == IF pc[t] = "first" THEN "created" ELSE pc[t]
  <2>1. /\ st[t] = "granted" /\ st'[t] = "creating" /\ OthersStay(t)
        /\ conn'[t].stream = "ready"
    BY <1>1, <1>2 DEF BeginCreate, StartCreate, Move, OthersStay
  <2>2. Goto(t, place) /\ pc'[t] = place /\ place \in Pcs
    BY <1>1, <1>2 DEF BeginCreate, Goto
  <2>3. PlaceOK(t)'
    BY <1>1, <2>1, <2>2 DEF PlaceOK, Using, Away
  <2>4. CleanOK(t)'
    BY <2>1 DEF CleanOK, Held
  <2>5. UNCHANGED idle
    BY <1>2 DEF BeginCreate, StartCreate, idleVars
  <2>6. QED
    BY <2>1, <2>2, <2>3, <2>4, <2>5 DEF Takes
<1>3. CASE Created(t)
  <2>1. /\ st[t] = "creating" /\ st'[t] = "holding" /\ OthersStay(t)
        /\ conn' = conn /\ UNCHANGED idle
    BY <1>1, <1>3 DEF Created, CreateOk, Move, OthersStay, idleVars
  <2>2. pc' = pc /\ Goto(t, pc[t])
    BY <1>1, <1>3 DEF Created, proxyVars, Goto
  <2>3. PlaceOK(t)'
    BY <1>1, <2>1, <2>2 DEF PlaceOK, Using, Away
  <2>4. CleanOK(t)'
    BY <1>1, <2>1, <2>2 DEF CleanOK
  <2>5. QED
    BY <1>1, <2>1, <2>2, <2>3, <2>4 DEF Takes
<1>4. QED
  BY <1>2, <1>3 DEF Backend

\* Inside the pool a backend is parked only on its way back, by then clean.
LEMMA PoolStepTakes ==
    ASSUME HandlersInv, NEW t \in Tasks, PoolStep(t)
    PROVE  (\E place : Takes(t, place)) /\ UsedNeverParked'
<1>1. /\ PlaceOK(t) /\ CleanOK(t) /\ PoolInv /\ UsedNeverParked
      /\ pc \in [Tasks -> Pcs] /\ pc[t] \in Pcs
  BY DEF HandlersInv, HandlerTypes
<1>2. Internal(t) /\ pc' = pc
  BY DEF PoolStep, proxyVars
<1>3. st[t] = "parking" => conn[t].stream \notin Held
  BY <1>1 DEF PlaceOK, CleanOK
<1>4. /\ UsedNeverParked'
      /\ st[t] = "scan" /\ st'[t] = "holding" => conn'[t].stream \notin Held
  BY <1>1, <1>2, <1>3, InternalClean
<1>5. Goto(t, pc[t])
  BY <1>1, <1>2 DEF Goto
<1>6. PlaceOK(t)'
  BY <1>1, <1>2, InternalEffect DEF PlaceOK, Using, Away
<1>7. CleanOK(t)'
  BY <1>1, <1>2, <1>4, InternalEffect DEF CleanOK
<1>8. QED
  BY <1>1, <1>2, <1>4, <1>5, <1>6, <1>7, InternalEffect DEF Takes

LEMMA HandlersInit == ProxyInit => HandlersInv
<1> SUFFICES ASSUME ProxyInit PROVE HandlersInv
  OBVIOUS
<1>1. PoolInv
  BY PoolInvInit DEF ProxyInit
<1>2. HandlerTypes
  BY ProxyAssumption DEF ProxyInit, HandlerTypes, Pcs
<1>3. \A t \in Tasks : PlaceOK(t) /\ CleanOK(t)
  BY DEF ProxyInit, Init, PlaceOK, CleanOK, Using, Away
<1>4. UsedNeverParked
  BY EmptySeq, LenProperties DEF ProxyInit, Init, UsedNeverParked, Unreset, Held
<1>5. QED
  BY <1>1, <1>2, <1>3, <1>4 DEF HandlersInv

\* Every step is taken by one task, but for the clock's, a server's, and
\* spawn_warmup, which starts others.
LEMMA PlacesNext ==
    ASSUME HandlersInv, [ProxyNext]_allVars
    PROVE  /\ pc' \in [Tasks -> Pcs]
           /\ \A t \in Tasks : PlaceOK(t)' /\ CleanOK(t)'
           /\ UsedNeverParked'
<1> DEFINE Goal ==
           /\ pc' \in [Tasks -> Pcs]
           /\ \A t \in Tasks : PlaceOK(t)' /\ CleanOK(t)'
           /\ UsedNeverParked'
<1>1. ASSUME UNCHANGED idle PROVE UsedNeverParked'
  BY <1>1 DEF UsedNeverParked, Unreset, Held, HandlersInv
<1>2. ASSUME NEW t \in Tasks, \E place : Takes(t, place), UsedNeverParked' PROVE Goal
  BY <1>2, TakesKeeps
<1>3. ASSUME UNCHANGED <<pc, st, conn>>, UsedNeverParked' PROVE Goal
  <2>1. \A t \in Tasks : PlaceOK(t)' /\ CleanOK(t)'
    BY <1>3 DEF PlaceOK, CleanOK, HandlersInv
  <2>2. QED
    BY <1>3, <2>1 DEF HandlersInv, HandlerTypes
<1>4. CASE Time \/ UNCHANGED allVars
  BY <1>1, <1>3, <1>4 DEF Time, Tick, allVars, vars, idleVars, taskVars, proxyVars
<1>5. CASE ParkedDies
  <2>1. PICK k \in Keys : \E i \in DOMAIN idle[k] :
            idle' = [idle EXCEPT ![k][i].stream = "dead"]
    BY <1>5 DEF ParkedDies
  <2>2. UsedNeverParked'
    BY <2>1, DeadIsParked DEF UsedNeverParked, Unreset, Held, HandlersInv, PoolInv, TypeOK
  <2>3. QED
    BY <1>3, <1>5, <2>2 DEF ParkedDies, taskVars
<1>6. ASSUME NEW t \in Tasks, PoolStep(t) \/ Backend(t) PROVE Goal
  BY <1>1, <1>2, <1>6, PoolStepTakes, BackendTakes
<1>7. ASSUME NEW c \in Clients,
             \/ LoginStep(c) \/ SessionStep(c) \/ TransactionStep(c)
             \/ FallsSilent(c) \/ ResetStep(c)
      PROVE  Goal
  <2>1. c \in Tasks
    BY ProxyAssumption
  <2>2. QED
    BY <1>1, <1>2, <1>7, <2>1, LoginTakes, SessionTakes, TransactionTakes, SilentTakes,
       ResetTakes
<1>8. ASSUME NEW c \in Clients, SpawnWarmup(c) PROVE Goal
  <2>1. PICK W \in SUBSET Resting :
            pc' = [t \in Tasks |-> IF t \in W THEN "spawned"
                                   ELSE IF t = c THEN "gone" ELSE pc[t]]
    BY <1>8 DEF SpawnWarmup
  <2>2. st[c] = "out" /\ UNCHANGED <<st, conn, idle>>
    BY <1>8 DEF SpawnWarmup, vars, taskVars, idleVars
  <2>3. pc' \in [Tasks -> Pcs]
    BY <2>1 DEF HandlersInv, HandlerTypes, Pcs
  <2>4. ASSUME NEW t \in Tasks PROVE PlaceOK(t)' /\ CleanOK(t)'
    <3>1. PlaceOK(t) /\ CleanOK(t)
      BY DEF HandlersInv
    <3>2. CASE t \in W
      <4>1. pc'[t] = "spawned" /\ st'[t] = "out" /\ t \notin Clients /\ t \in Warmers
        BY <2>1, <2>2, <3>2, ProxyAssumption DEF Resting
      <4>2. QED
        BY <4>1 DEF PlaceOK, CleanOK, Using, Away
    <3>3. CASE t \notin W /\ t = c
      <4>1. pc'[t] = "gone" /\ st'[t] = "out" /\ t \notin Warmers
        BY <2>1, <2>2, <3>3, ProxyAssumption
      <4>2. QED
        BY <4>1 DEF PlaceOK, CleanOK, Using, Away
    <3>4. CASE t \notin W /\ t # c
      <4>1. pc'[t] = pc[t] /\ st'[t] = st[t] /\ conn'[t] = conn[t]
        BY <2>1, <2>2, <3>4
      <4>2. QED
        BY <3>1, <4>1 DEF PlaceOK, CleanOK
    <3>5. QED
      BY <3>2, <3>3, <3>4
  <2>5. QED
    BY <1>1, <2>2, <2>3, <2>4
<1>9. ASSUME NEW w \in Warmers, WarmStep(w) PROVE Goal
  <2>1. w \in Tasks
    BY ProxyAssumption
  <2>2. QED
    BY <1>1, <1>2, <1>9, <2>1, WarmTakes
<1>10. QED
  BY <1>4, <1>5, <1>6, <1>7, <1>8, <1>9 DEF ProxyNext

\* The mode is fixed, and failures and leaks are counted up.
LEMMA CountersNext ==
    ASSUME HandlersInv, [ProxyNext]_allVars
    PROVE  /\ mode' \in Modes
           /\ failures' \in 0..MaxFailures /\ leaked' \in Nat /\ leaked' <= failures'
<1>1. /\ mode \in Modes /\ failures \in 0..MaxFailures /\ MaxFailures \in Nat
      /\ leaked \in Nat /\ leaked <= failures
  BY ProxyAssumption DEF HandlersInv, HandlerTypes
<1>2. Fail => failures' \in 0..MaxFailures
  BY <1>1 DEF Fail
<1>3. mode' = mode
  BY DEF ProxyNext, Time, ParkedDies, PoolStep, Backend, BeginCreate, Created,
         LoginStep, Connect, LoginEnds, LogStats, AcquireFirst, CreateFails, Failed, Panics,
         SessionStep, SessionReady, SessionReadyFails, RelayEnds,
         TransactionStep, ReleaseFirst, Greet, Demand, DemandFails, Forward,
         Tears, TransactionEnds, ErrorOutside, LoopEnds, FallsSilent, ResetStep, Settle,
         ErrorReset, Close,
         SpawnWarmup, WarmStep, WarmAcquire, WarmRelease, WarmFails, WarmPanics,
         allVars, proxyVars
<1>4. \/ leaked' = leaked /\ (failures' = failures \/ Fail)
      \/ leaked' = leaked + 1 /\ Fail
  BY DEF ProxyNext, Time, ParkedDies, PoolStep, Backend, BeginCreate, Created,
         LoginStep, Connect, LoginEnds, LogStats, AcquireFirst, CreateFails, Failed, Panics,
         SessionStep, SessionReady, SessionReadyFails, RelayEnds,
         TransactionStep, ReleaseFirst, Greet, Demand, DemandFails, Forward,
         Tears, TransactionEnds, ErrorOutside, LoopEnds, FallsSilent, ResetStep, Settle,
         ErrorReset, Close,
         ResetAndRelease, Drop, LosesSlot,
         SpawnWarmup, WarmStep, WarmAcquire, WarmRelease, WarmFails, WarmPanics,
         allVars, proxyVars
<1>5. Fail => failures' = failures + 1
  BY DEF Fail
<1>6. QED
  BY <1>1, <1>2, <1>3, <1>4, <1>5

LEMMA HandlersNext == HandlersInv /\ [ProxyNext]_allVars => HandlersInv'
<1> SUFFICES ASSUME HandlersInv, [ProxyNext]_allVars PROVE HandlersInv'
  OBVIOUS
<1>1. PoolInv'
  BY PoolInvKept
<1>2. HandlerTypes'
  BY CountersNext, PlacesNext DEF HandlerTypes
<1>3. QED
  BY <1>1, <1>2, PlacesNext DEF HandlersInv

THEOREM HandlersInvariant == ProxySpec => []HandlersInv
BY HandlersInit, HandlersNext, PTL DEF ProxySpec

\* A backend a client has used is not parked before it was reset, whatever way
\* its use ended and whatever failed on the way, unless it is a broken one.
THEOREM UsedIsNeverParked == ProxySpec => []UsedNeverParked
<1>1. HandlersInv => UsedNeverParked
  BY DEF HandlersInv
<1>2. QED
  BY <1>1, HandlersInvariant, PTL

-----------------------------------------------------------------------------
(* The slots *)

\* handle_client builds one key, and every call is made with it.
OneKey == \A t \in Tasks : st[t] # "out" => key[t] = PoolKey

\* No task comes into the pool with another key.
KeepsKey(t) ==
    \/ key'[t] = key[t] /\ (st[t] = "out" => st'[t] = "out")
    \/ st'[t] = "out"
    \/ key'[t] = PoolKey

LEMMA KeyOfOthers ==
    ASSUME PoolInv, NEW t \in Tasks, OthersStay(t), KeepsKey(t),
           \A w \in Tasks : w # t => key'[w] = key[w], OneKey
    PROVE  OneKey'
<1> SUFFICES ASSUME NEW w \in Tasks, st'[w] # "out" PROVE key'[w] = PoolKey
  BY DEF OneKey
<1>1. CASE w = t
  BY <1>1 DEF KeepsKey, OneKey
<1>2. CASE w # t
  <2>1. st[w] # "out" /\ key'[w] = key[w]
    BY <1>2 DEF OthersStay
  <2>2. QED
    BY <2>1 DEF OneKey
<1>3. QED
  BY <1>1, <1>2

LEMMA KeyInPool ==
    ASSUME PoolInv, OneKey, NEW t \in Tasks,
           \/ Internal(t) \/ Acquire(t, PoolKey) \/ Cancel(t)
           \/ \E s : Release(t, s)
    PROVE  OneKey'
<1>1. key \in [Tasks -> Keys \union {NoKey}] /\ st \in [Tasks -> States]
  BY DEF PoolInv, TypeOK
<1>2. CASE Acquire(t, PoolKey)
  <2>1. OthersStay(t)
    BY <1>2, AcquireEffect, ProxyAssumption
  <2>2. key' = [key EXCEPT ![t] = PoolKey]
    BY <1>2 DEF Acquire
  <2>3. KeepsKey(t) /\ \A w \in Tasks : w # t => key'[w] = key[w]
    BY <1>1, <2>2 DEF KeepsKey
  <2>4. QED
    BY <2>1, <2>3, KeyOfOthers
<1>3. CASE Cancel(t)
  <2>1. OthersStay(t) /\ st'[t] = "out"
    BY <1>3, CancelEffect
  <2>2. \A w \in Tasks : w # t => key'[w] = key[w]
    BY <1>1, <1>3 DEF Cancel, Forget
  <2>3. QED
    BY <2>1, <2>2, KeyOfOthers DEF KeepsKey
<1>4. CASE \E s : Release(t, s)
  <2>1. OthersStay(t)
    BY <1>4, ReleaseEffect
  <2>2. key' = key /\ st[t] = "holding"
    BY <1>4 DEF Release
  <2>3. QED
    BY <2>1, <2>2, KeyOfOthers DEF KeepsKey
<1>5. CASE Internal(t)
  <2>1. OthersStay(t) /\ st[t] # "out"
    BY <1>5, InternalEffect
  <2>2. CASE UNCHANGED key
    BY <2>1, <2>2, KeyOfOthers DEF KeepsKey
  <2>3. CASE Park(t) \/ ReturnPermit(t)
    <3>1. UNCHANGED key \/ Forget(t)
      BY <2>3 DEF Park, ReturnPermit
    <3>2. Forget(t) => st'[t] = "out" \/ UNCHANGED key
      <4>1. CASE Park(t)
        BY <1>1, <4>1 DEF Park, Move
      <4>2. CASE ReturnPermit(t)
        BY <1>5, <2>1, <4>2, InternalEffect DEF ReturnPermit
      <4>3. QED
        BY <2>3, <4>1, <4>2
    <3>3. Forget(t) => \A w \in Tasks : w # t => key'[w] = key[w]
      BY <1>1 DEF Forget
    <3>4. QED
      BY <2>1, <2>2, <3>1, <3>2, <3>3, KeyOfOthers DEF KeepsKey
  <2>4. QED
    BY <1>5, <2>2, <2>3
    DEF Internal, Scan, InsertSemaphore, ScanHit, ScanExpired, ScanEmpty, TakePermit,
        Enqueue
<1>6. QED
  BY <1>2, <1>3, <1>4, <1>5

LEMMA OneKeyNext ==
    ASSUME HandlersInv, OneKey, [ProxyNext]_allVars
    PROVE  OneKey'
<1>1. PoolInv /\ st \in [Tasks -> States] /\ key \in [Tasks -> Keys \union {NoKey}]
  BY DEF HandlersInv, PoolInv, TypeOK
<1>2. ASSUME UNCHANGED <<st, key>> PROVE OneKey'
  BY <1>2 DEF OneKey
<1>3. CASE Time \/ ParkedDies \/ UNCHANGED allVars
  BY <1>2, <1>3 DEF Time, Tick, ParkedDies, taskVars, allVars, vars
<1>4. ASSUME NEW t \in Tasks, PoolStep(t) \/ Backend(t) PROVE OneKey'
  <2>1. CASE PoolStep(t)
    BY <1>1, <2>1, KeyInPool DEF PoolStep
  <2>2. CASE Backend(t)
    BY <1>1, <2>2
    DEF Backend, BeginCreate, Created, StartCreate, CreateOk, Move, OneKey
  <2>3. QED
    BY <1>4, <2>1, <2>2
<1>5. ASSUME NEW c \in Clients, LoginStep(c) PROVE OneKey'
  <2>1. c \in Tasks
    BY ProxyAssumption
  <2>2. CASE AcquireFirst(c)
    BY <1>1, <2>1, <2>2, KeyInPool DEF AcquireFirst
  <2>3. CASE LosesSlot(c)
    BY <1>1, <2>3 DEF LosesSlot, Move, Forget, OneKey
  <2>4. CASE Connect(c) \/ LoginEnds(c) \/ LogStats(c) \/ Failed(c)
    BY <1>2, <2>4 DEF Connect, LoginEnds, LogStats, Failed, vars, taskVars
  <2>5. CASE CreateFails(c) \/ Panics(c)
    BY <1>2, <2>3, <2>5 DEF CreateFails, Panics, vars, taskVars
  <2>6. QED
    BY <1>5, <2>2, <2>4, <2>5 DEF LoginStep
<1>6. ASSUME NEW c \in Clients, SessionStep(c) \/ TransactionStep(c) PROVE OneKey'
  <2>1. c \in Tasks
    BY ProxyAssumption
  <2>2. CASE SessionReadyFails(c) \/ ReleaseFirst(c) \/ Demand(c) \/ DemandFails(c)
    BY <1>1, <2>1, <2>2, KeyInPool
    DEF SessionReadyFails, ReleaseFirst, Demand, DemandFails
  <2>3. CASE \/ SessionReady(c) \/ RelayEnds(c) \/ Greet(c) \/ Forward(c)
             \/ Tears(c) \/ TransactionEnds(c) \/ ErrorOutside(c) \/ LoopEnds(c)
    BY <1>2, <2>3
    DEF SessionReady, RelayEnds, Greet, Forward, Tears, TransactionEnds, ErrorOutside,
        LoopEnds, vars, taskVars
  <2>4. QED
    BY <1>6, <2>2, <2>3 DEF SessionStep, TransactionStep
<1>7. ASSUME NEW c \in Clients, FallsSilent(c) \/ ResetStep(c) \/ SpawnWarmup(c)
      PROVE  OneKey'
  <2>1. c \in Tasks
    BY ProxyAssumption
  <2>2. CASE FallsSilent(c) \/ SpawnWarmup(c)
    BY <1>2, <2>2 DEF FallsSilent, SpawnWarmup, vars, taskVars
  <2>3. CASE ResetStep(c)
    <3>1. (\E s : Release(c, s)) \/ Cancel(c)
      BY <2>3 DEF ResetStep, Settle, ErrorReset, Close, ResetAndRelease, Drop
    <3>2. QED
      BY <1>1, <2>1, <3>1, KeyInPool
  <2>4. QED
    BY <1>7, <2>2, <2>3
<1>8. ASSUME NEW w \in Warmers, WarmStep(w) PROVE OneKey'
  <2>1. w \in Tasks
    BY ProxyAssumption
  <2>2. CASE WarmPanics(w)
    BY <1>1, <2>2 DEF WarmPanics, LosesSlot, Move, Forget, OneKey
  <2>3. QED
    BY <1>1, <1>8, <2>1, <2>2, KeyInPool
    DEF WarmStep, WarmAcquire, WarmRelease, WarmFails
<1>9. QED
  BY <1>3, <1>4, <1>5, <1>6, <1>7, <1>8 DEF ProxyNext

\* A task that ends without calling cancel takes its slot out of the books.
LEMMA LeakMoves ==
    ASSUME PoolInv, OneKey, NEW c \in Tasks, LosesSlot(c)
    PROVE  Moves(PoolKey, 0, 0, -1) /\ leaked' = leaked + 1
<1>1. /\ c \in Tasks /\ PoolKey \in Keys /\ TypeOK /\ NoKey \notin Keys
      /\ st[c] \in {"creating", "holding"} /\ key[c] = PoolKey
  BY ProxyAssumption, PoolAssumption DEF PoolInv, LosesSlot, OneKey
<1>2. /\ st' = [st EXCEPT ![c] = "out"] /\ key' = [key EXCEPT ![c] = NoKey]
      /\ UNCHANGED <<sems, permits, idle>> /\ leaked' = leaked + 1
  BY DEF LosesSlot, Move, Forget, semVars, idleVars
<1>3. /\ st[c] \in Owning
      /\ \A j \in Keys : ~(st'[c] \in Owning /\ key'[c] = j)
      /\ \A w \in Tasks : w # c => st'[w] = st[w] /\ key'[w] = key[w]
  BY <1>1, <1>2 DEF TypeOK, Owning
<1>4. Cardinality(Owners(PoolKey))' = Cardinality(Owners(PoolKey)) + -1
  BY <1>1, <1>3, OwnersLose
<1>5. \A j \in Keys : /\ Available(j)' = Available(j)
                      /\ Len(idle[j])' = Len(idle[j])
  BY <1>2 DEF Available, Capacity, ResolveLimits
<1>6. \A j \in Keys : j # PoolKey =>
          Cardinality(Owners(j))' = Cardinality(Owners(j))
  BY <1>1, <1>3, OwnersSame
<1>7. Available(PoolKey) \in Nat /\ Len(idle[PoolKey]) \in Nat
  BY <1>1, CountsAreNat
<1>8. /\ Available(PoolKey)' = Available(PoolKey) + 0
      /\ Len(idle[PoolKey])' = Len(idle[PoolKey]) + 0
  BY <1>1, <1>5, <1>7
<1>9. TypeOK /\ PoolKey \in Keys /\ 0 \in Int /\ -1 \in Int
  BY <1>1
<1>10. Moves(PoolKey, 0, 0, -1)
  BY <1>4, <1>5, <1>6, <1>8, <1>9, MovesIntro
<1>11. QED
  BY <1>2, <1>10

\* Looking at the pool, using a backend and the death of a parked one move none.
LEMMA OthersMoveNone ==
    ASSUME HandlersInv,
           \/ \E c \in Clients : LogStats(c)
           \/ \E c \in Clients, s \in Streams : Marks(c, s)
           \/ ParkedDies
    PROVE  Stays /\ leaked' = leaked
<1>1. TypeOK /\ PoolInv /\ PoolKey \in Keys
  BY ProxyAssumption DEF HandlersInv, PoolInv
<1>2. UNCHANGED <<st, key, leaked>>
  BY DEF LogStats, Marks, ParkedDies, taskVars
<1>3. ASSUME NEW c \in Clients, LogStats(c) PROVE Stays
  <2>1. /\ sems' = sems \union {PoolKey}
        /\ permits' = [permits EXCEPT ![PoolKey] = Available(PoolKey)]
        /\ UNCHANGED <<now, waiters, pools, idle, lock, st, key, conn>>
    BY <1>3 DEF LogStats, idleVars, taskVars
  <2>2. QED
    BY <1>1, <2>1, LookUpKeeps
<1>4. ASSUME UNCHANGED <<sems, permits>>, \A j \in Keys : Len(idle[j])' = Len(idle[j])
      PROVE  Stays
  <2>1. \A j \in Keys : /\ Available(j)' = Available(j)
                        /\ Cardinality(Owners(j))' = Cardinality(Owners(j))
    BY <1>2, <1>4, OwnersSame DEF Available, Capacity, ResolveLimits
  <2>2. QED
    BY <1>4, <2>1, StaysIntro
<1>5. ASSUME NEW c \in Clients, NEW s \in Streams, Marks(c, s) PROVE Stays
  BY <1>4, <1>5 DEF Marks, semVars, idleVars
<1>6. CASE ParkedDies
  <2>1. PICK k \in Keys : \E i \in DOMAIN idle[k] :
            idle' = [idle EXCEPT ![k][i].stream = "dead"]
    BY <1>6 DEF ParkedDies
  <2>2. \A j \in Keys : Len(idle[j])' = Len(idle[j])
    BY <1>1, <2>1, DeadIsParked DEF TypeOK
  <2>3. QED
    BY <1>4, <1>6, <2>2 DEF ParkedDies, semVars
<1>7. QED
  BY <1>2, <1>3, <1>5, <1>6

LEMMA BooksNext ==
    ASSUME HandlersInv, OneKey, SlotsOrLeaked, [ProxyNext]_allVars
    PROVE  SlotsOrLeaked'
<1> SUFFICES ASSUME NEW j \in Keys
             PROVE  freeSlots'[j] + parkedSlots'[j] + usedSlots'[j] + lostSlots'[j]
                        = Capacity(j)
  BY DEF SlotsOrLeaked, lostSlots, Capacity, ResolveLimits
<1>1. /\ DOMAIN freeSlots = Keys /\ DOMAIN parkedSlots = Keys /\ DOMAIN usedSlots = Keys
      /\ freeSlots[j] \in Nat /\ parkedSlots[j] \in Nat /\ usedSlots[j] \in Nat
      /\ leaked \in Nat /\ Capacity(j) \in Nat
  BY CountsAreNat, LimitsAreNat
  DEF HandlersInv, HandlerTypes, PoolInv, freeSlots, parkedSlots, usedSlots
<1>2. freeSlots[j] + parkedSlots[j] + usedSlots[j] + lostSlots[j] = Capacity(j)
  BY DEF SlotsOrLeaked, lostSlots
<1>3. ASSUME NEW k \in Keys, NEW f \in Int, NEW p \in Int, NEW u \in Int,
             f + p + u = 0, Moves(k, f, p, u), leaked' = leaked
      PROVE  freeSlots'[j] + parkedSlots'[j] + usedSlots'[j] + lostSlots'[j] = Capacity(j)
  <2>1. lostSlots'[j] = lostSlots[j] /\ lostSlots[j] \in Nat
    BY <1>1, <1>3 DEF lostSlots
  <2>2. CASE j = k
    BY <1>1, <1>2, <1>3, <2>1, <2>2 DEF Moves
  <2>3. CASE j # k
    BY <1>1, <1>2, <1>3, <2>1, <2>3 DEF Moves
  <2>4. QED
    BY <2>2, <2>3
<1>4. CASE Stays /\ leaked' = leaked
  BY <1>2, <1>4 DEF Stays, lostSlots
<1>5. CASE [Next]_vars /\ leaked' = leaked
  <2>1. PoolInv
    BY DEF HandlersInv
  <2>2. ASSUME NEW k \in Keys,
               \/ Moves(k, -1, 0, 1) \/ Moves(k, 0, -1, 1) \/ Moves(k, 0, 1, -1)
               \/ Moves(k, 1, -1, 0) \/ Moves(k, 1, 0, -1)
        PROVE  freeSlots'[j] + parkedSlots'[j] + usedSlots'[j] + lostSlots'[j] = Capacity(j)
    <3>1. CASE Moves(k, -1, 0, 1)
      BY <1>3, <1>5, <3>1
    <3>2. CASE Moves(k, 0, -1, 1)
      BY <1>3, <1>5, <3>2
    <3>3. CASE Moves(k, 0, 1, -1)
      BY <1>3, <1>5, <3>3
    <3>4. CASE Moves(k, 1, -1, 0)
      BY <1>3, <1>5, <3>4
    <3>5. CASE Moves(k, 1, 0, -1)
      BY <1>3, <1>5, <3>5
    <3>6. QED
      BY <2>2, <3>1, <3>2, <3>3, <3>4, <3>5
  <2>3. QED
    BY <1>4, <1>5, <2>1, <2>2, StepMoves
<1>6. ASSUME NEW c \in Tasks, LosesSlot(c)
      PROVE  freeSlots'[j] + parkedSlots'[j] + usedSlots'[j] + lostSlots'[j] = Capacity(j)
  <2>1. Moves(PoolKey, 0, 0, -1) /\ leaked' = leaked + 1
    BY <1>6, LeakMoves DEF HandlersInv
  <2>2. CASE j = PoolKey
    <3>1. /\ freeSlots'[j] = freeSlots[j] + 0 /\ parkedSlots'[j] = parkedSlots[j] + 0
          /\ usedSlots'[j] = usedSlots[j] + -1
      BY <1>1, <2>1, <2>2 DEF Moves
    <3>2. lostSlots[j] = leaked /\ lostSlots'[j] = leaked + 1
      BY <2>1, <2>2 DEF lostSlots
    <3>3. QED
      BY <1>1, <1>2, <3>1, <3>2
  <2>3. CASE j # PoolKey
    <3>1. /\ freeSlots'[j] = freeSlots[j] /\ parkedSlots'[j] = parkedSlots[j]
          /\ usedSlots'[j] = usedSlots[j]
      BY <1>1, <2>1, <2>3 DEF Moves
    <3>2. lostSlots[j] = 0 /\ lostSlots'[j] = 0
      BY <2>3 DEF lostSlots
    <3>3. QED
      BY <1>1, <1>2, <3>1, <3>2
  <2>4. QED
    BY <2>2, <2>3
<1>7. QED
  BY <1>4, <1>5, <1>6, Kinds, OthersMoveNone

LEMMA BooksInit == ProxyInit => OneKey /\ SlotsOrLeaked
<1> SUFFICES ASSUME ProxyInit PROVE OneKey /\ SlotsOrLeaked
  OBVIOUS
<1>1. OneKey
  BY DEF ProxyInit, Init, OneKey
<1>2. ASSUME NEW k \in Keys
      PROVE  freeSlots[k] + parkedSlots[k] + usedSlots[k] + lostSlots[k] = Capacity(k)
  <2>1. freeSlots[k] + parkedSlots[k] + usedSlots[k] = Capacity(k)
    BY SlotsInit DEF ProxyInit, SlotConservation
  <2>2. lostSlots[k] = 0 /\ Capacity(k) \in Nat
    BY LimitsAreNat DEF ProxyInit, lostSlots
  <2>3. QED
    BY <2>1, <2>2
<1>3. QED
  BY <1>1, <1>2 DEF SlotsOrLeaked, lostSlots

\* Every path through the handlers and the warm-up tasks returns exactly the
\* permit it took, once, but for the create_backend that fails at the start and
\* the panics of a task that has a backend or creates one: what those lose is
\* leaked, and nothing else is missing.
THEOREM SlotsAreKept == ProxySpec => []SlotsOrLeaked
<1>1. HandlersInv /\ OneKey /\ SlotsOrLeaked /\ [ProxyNext]_allVars
          => (OneKey /\ SlotsOrLeaked)'
  BY OneKeyNext, BooksNext
<1>2. QED
  BY <1>1, BooksInit, HandlersInvariant, PTL DEF ProxySpec

-----------------------------------------------------------------------------
(* Handlers and warm-up tasks implement LossyLedger *)

LEMMA KeyIsOne == ProxySpec => []OneKey
<1>1. HandlersInv /\ OneKey /\ [ProxyNext]_allVars => OneKey'
  BY OneKeyNext
<1>2. QED
  BY <1>1, BooksInit, HandlersInvariant, PTL DEF ProxySpec

LEMMA LossyInit == ProxyInit => Books!LossyInit
<1> SUFFICES ASSUME ProxyInit PROVE Books!LossyInit
  OBVIOUS
<1>1. Ledger!Init
  BY LedgerInit DEF ProxyInit
<1>2. lostSlots = [k \in Keys |-> 0]
  BY DEF ProxyInit, lostSlots
<1>3. QED
  BY <1>1, <1>2 DEF Books!LossyInit, Books!Init, Ledger!Init

\* A task that ends without calling cancel loses the slot it has.
LEMMA LeakLoses ==
    ASSUME HandlersInv, OneKey, NEW c \in Tasks, LosesSlot(c)
    PROVE  Books!Lose(PoolKey)
<1>1. /\ PoolKey \in Keys /\ PoolInv /\ TypeOK /\ leaked \in Nat
      /\ c \in Tasks /\ st[c] \in {"creating", "holding"} /\ key[c] = PoolKey
  BY ProxyAssumption DEF HandlersInv, HandlerTypes, PoolInv, LosesSlot, OneKey
<1>2. Moves(PoolKey, 0, 0, -1) /\ leaked' = leaked + 1
  BY <1>1, LeakMoves
<1>3. freeSlots[PoolKey] \in Nat /\ parkedSlots[PoolKey] \in Nat
      /\ usedSlots[PoolKey] \in Nat
  BY <1>1, CountsAreNat, SlotsOf
<1>4. usedSlots[PoolKey] > 0
  <2>1. c \in Owners(PoolKey) /\ IsFiniteSet(Owners(PoolKey))
    BY <1>1, CountsAreNat DEF Owners, Owning
  <2>2. Cardinality(Owners(PoolKey)) # 0
    BY <2>1, FS_EmptySet
  <2>3. QED
    BY <1>1, <1>3, <2>2, SlotsOf
<1>5. usedSlots' = [usedSlots EXCEPT ![PoolKey] = @ - 1]
  BY <1>2, <1>3 DEF Moves
<1>6. freeSlots' = freeSlots /\ parkedSlots' = parkedSlots
  <2>1. /\ freeSlots[PoolKey] + 0 = freeSlots[PoolKey]
        /\ parkedSlots[PoolKey] + 0 = parkedSlots[PoolKey]
    BY <1>3
  <2>2. /\ freeSlots = [k \in Keys |-> freeSlots[k]]
        /\ parkedSlots = [k \in Keys |-> parkedSlots[k]]
    BY DEF freeSlots, parkedSlots
  <2>3. QED
    BY <1>2, <2>1, <2>2 DEF Moves
<1>7. lostSlots' = [lostSlots EXCEPT ![PoolKey] = @ + 1]
  BY <1>1, <1>2 DEF lostSlots
<1>8. QED
  BY <1>4, <1>5, <1>6, <1>7 DEF Books!Lose

LEMMA LossyNext ==
    ASSUME HandlersInv, OneKey, [ProxyNext]_allVars
    PROVE  [Books!LossyNext]_(Books!lossyLedger)
<1>1. CASE [Next]_vars /\ leaked' = leaked
  <2>1. Ledger!Next \/ UNCHANGED Ledger!ledger
    BY <1>1, LedgerNext DEF HandlersInv
  <2>2. UNCHANGED lostSlots
    BY <1>1 DEF lostSlots
  <2>3. Ledger!Next => Books!Next
    BY DEF Ledger!Next, Ledger!Claim, Ledger!Reclaim, Ledger!Park, Ledger!Evict,
           Ledger!Free, Books!Next, Books!Claim, Books!Reclaim, Books!Park,
           Books!Evict, Books!Free
  <2>4. QED
    BY <2>1, <2>2, <2>3
    DEF Ledger!ledger, Books!LossyNext, Books!lossyLedger, Books!ledger
<1>2. CASE Stays /\ leaked' = leaked
  BY <1>2 DEF Stays, lostSlots, Books!lossyLedger, Books!ledger
<1>3. ASSUME NEW c \in Tasks, LosesSlot(c)
      PROVE  Books!LossyNext
  BY <1>3, LeakLoses, ProxyAssumption DEF Books!LossyNext
<1>4. QED
  BY <1>1, <1>2, <1>3, Kinds, OthersMoveNone

\* Whatever handlers and warm-up tasks do with a pool moves one slot as
\* SlotLedger allows, or none, but for the create_backend that fails at the
\* start and the panics, each of which loses the one slot its task had.
THEOREM ImplementsLossyLedger == ProxySpec => LossyLedgerSpec
BY LossyInit, LossyNext, KeyIsOne, HandlersInvariant, PTL
DEF ProxySpec, LossyLedgerSpec, Books!LossySpec

-----------------------------------------------------------------------------
(* The clients *)

LEMMA ConnectedFinite ==
    IsFiniteSet(Connected) /\ Cardinality(Connected) \in Nat
<1>1. Connected \subseteq Tasks
  BY ProxyAssumption DEF Connected
<1>2. QED
  BY <1>1, PoolAssumption, FS_Subset, FS_CardinalityType

LEMMA CountStays ==
    ASSUME Counted, clientCount' = clientCount,
           \A c \in Clients : pc'[c] = "gone" <=> pc[c] = "gone"
    PROVE  Counted'
<1>1. Connected' = Connected
  BY DEF Connected
<1>2. QED
  BY <1>1 DEF Counted

LEMMA CountUp ==
    ASSUME Counted, NEW c \in Clients, clientCount' = clientCount + 1,
           pc[c] = "gone", pc'[c] # "gone",
           \A d \in Clients : d # c => pc'[d] = pc[d]
    PROVE  Counted'
<1>1. Connected' = Connected \union {c} /\ c \notin Connected
  BY DEF Connected
<1>2. QED
  BY <1>1, ConnectedFinite, FS_AddElement DEF Counted

LEMMA CountDown ==
    ASSUME Counted, NEW c \in Clients, clientCount' = clientCount - 1,
           pc[c] # "gone", pc'[c] = "gone",
           \A d \in Clients : d # c => (pc'[d] = "gone" <=> pc[d] = "gone")
    PROVE  Counted'
<1>1. Connected' = Connected \ {c} /\ c \in Connected
  BY DEF Connected
<1>2. QED
  BY <1>1, ConnectedFinite, FS_RemoveElement DEF Counted

LEMMA CountNext ==
    ASSUME HandlersInv, Counted, [ProxyNext]_allVars
    PROVE  Counted'
<1>1. pc \in [Tasks -> Pcs] /\ Clients \subseteq Tasks
  BY ProxyAssumption DEF HandlersInv, HandlerTypes
<1>2. CASE Time \/ ParkedDies \/ UNCHANGED allVars
  BY <1>2, CountStays DEF Time, ParkedDies, allVars, proxyVars
<1>3. ASSUME NEW t \in Tasks, PoolStep(t) \/ Backend(t) PROVE Counted'
  <2>1. CASE PoolStep(t) \/ Created(t)
    BY <2>1, CountStays DEF PoolStep, Created, proxyVars
  <2>2. CASE BeginCreate(t)
    BY <1>1, <2>2, CountStays DEF BeginCreate, Goto
  <2>3. QED
    BY <1>3, <2>1, <2>2 DEF Backend
<1>4. ASSUME NEW c \in Clients, LoginStep(c) PROVE Counted'
  <2>1. CASE Connect(c)
    BY <1>1, <2>1, CountUp DEF Connect, Goto
  <2>2. CASE LoginEnds(c) \/ CreateFails(c) \/ Failed(c) \/ Panics(c)
    BY <1>1, <2>2, CountDown DEF LoginEnds, CreateFails, Failed, Panics, Leaves, Goto
  <2>3. CASE LogStats(c) \/ AcquireFirst(c)
    BY <1>1, <2>3, CountStays DEF LogStats, AcquireFirst, Goto
  <2>4. QED
    BY <1>4, <2>1, <2>2, <2>3 DEF LoginStep
<1>5. ASSUME NEW c \in Clients, SessionStep(c) \/ FallsSilent(c) \/ ResetStep(c)
      PROVE  Counted'
  BY <1>1, <1>5, CountStays
  DEF SessionStep, SessionReady, SessionReadyFails, RelayEnds, FallsSilent, ResetStep,
      Settle, ErrorReset, Close, Goto
<1>6. ASSUME NEW c \in Clients, TransactionStep(c) PROVE Counted'
  <2>1. CASE Greet(c)
    <3>1. CASE Goto(c, "loop") /\ UNCHANGED clientCount
      BY <1>1, <2>1, <3>1, CountStays DEF Greet, Goto
    <3>2. CASE Goto(c, "gone") /\ clientCount' = clientCount - 1
      BY <1>1, <2>1, <3>2, CountDown DEF Greet, Goto
    <3>3. QED
      BY <2>1, <3>1, <3>2 DEF Greet, Leaves
  <2>2. CASE \/ ReleaseFirst(c) \/ Demand(c) \/ DemandFails(c) \/ Forward(c)
             \/ Tears(c) \/ TransactionEnds(c) \/ ErrorOutside(c) \/ LoopEnds(c)
    BY <1>1, <2>2, CountStays
    DEF ReleaseFirst, Demand, DemandFails, Forward, Tears, TransactionEnds,
        ErrorOutside, LoopEnds, Goto, proxyVars
  <2>3. QED
    BY <1>6, <2>1, <2>2 DEF TransactionStep
<1>7. ASSUME NEW c \in Clients, SpawnWarmup(c) PROVE Counted'
  <2>1. PICK W \in SUBSET Resting :
            pc' = [t \in Tasks |-> IF t \in W THEN "spawned"
                                   ELSE IF t = c THEN "gone" ELSE pc[t]]
    BY <1>7 DEF SpawnWarmup
  <2>2. W \intersect Clients = {}
    BY ProxyAssumption DEF Resting
  <2>3. /\ pc[c] = "leaving" /\ pc'[c] = "gone"
        /\ \A d \in Clients : d # c => pc'[d] = pc[d]
    BY <1>1, <1>7, <2>1, <2>2 DEF SpawnWarmup
  <2>4. QED
    BY <1>7, <2>3, CountDown DEF SpawnWarmup
<1>8. ASSUME NEW w \in Warmers, WarmStep(w) PROVE Counted'
  BY <1>1, <1>8, CountStays, ProxyAssumption
  DEF WarmStep, WarmAcquire, WarmRelease, WarmFails, WarmPanics, Goto
<1>9. QED
  BY <1>2, <1>3, <1>4, <1>5, <1>6, <1>7, <1>8 DEF ProxyNext

\* Variables keep their types, a handler owns a backend exactly while it needs
\* one and lives, client_count is the number of the clients connected, the slots
\* of each pool add up to its capacity but for those that leaked, and no more
\* leaked than failures and panics there were.
THEOREM HandlersOwnWhatTheyUse == ProxySpec => []ProxyInv
<1>1. ProxyInit => Counted
  <2>1. ProxyInit => Connected = {}
    BY ProxyAssumption DEF ProxyInit, Connected
  <2>2. QED
    BY <2>1, FS_EmptySet DEF ProxyInit, Counted
<1>2. HandlersInv /\ Counted /\ [ProxyNext]_allVars => Counted'
  BY CountNext
<1>3. HandlersInv /\ Counted /\ SlotsOrLeaked => ProxyInv
  <2> SUFFICES ASSUME HandlersInv, Counted, SlotsOrLeaked PROVE ProxyInv
    OBVIOUS
  <2>1. ProxyTypeOK
    BY ConnectedFinite DEF ProxyTypeOK, HandlersInv, HandlerTypes, PoolInv, Counted
  <2>2. OwnsWhatItUses
    <3>1. \A c \in Clients : PlaceOK(c) /\ c \in Tasks
      BY ProxyAssumption DEF HandlersInv
    <3>2. QED
      BY <3>1 DEF OwnsWhatItUses, PlaceOK, Using, Away
  <2>3. QED
    BY <2>1, <2>2 DEF ProxyInv, HandlersInv, HandlerTypes
<1>4. QED
  BY <1>1, <1>2, <1>3, HandlersInvariant, SlotsAreKept, PTL DEF ProxySpec

=============================================================================
