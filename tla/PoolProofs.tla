------------------------------ MODULE PoolProofs ------------------------------
(***************************************************************************)
(* Proofs about PoolManager: its inductive invariant PoolInv, that it      *)
(* implements SlotLedger, and through SlotLedger that no slot of a pool is *)
(* ever lost or made up; and about PoolStats, what its reports say.        *)
(***************************************************************************)
EXTENDS PoolStats, SequenceTheorems, FiniteSetTheorems, TLAPS

-----------------------------------------------------------------------------
(* Lemmas about the helpers *)

\* Popping the deque takes one connection out of it, from either end.
LEMMA PopShortens ==
    ASSUME NEW C, NEW q \in Seq(C), q # <<>>
    PROVE  /\ Popped(q) \in C
           /\ Rest(q) \in Seq(C)
           /\ Len(Rest(q)) = Len(q) - 1
           /\ \E i \in DOMAIN q : Popped(q) = q[i]
PROOF
<1>1. Len(q) \in Nat /\ Len(q) > 0
      BY EmptySeq, LenProperties
<1>2. CASE Strategy = "lifo"
  <2>1. Popped(q) = q[Len(q)] /\ Rest(q) = SubSeq(q, 1, Len(q) - 1)
        BY <1>2 DEF Popped, Rest, Last, Front
  <2>2. q[Len(q)] \in C /\ Len(q) \in DOMAIN q
        BY <1>1, ElementOfSeq, LenProperties
  <2>3. /\ SubSeq(q, 1, Len(q) - 1) \in Seq(C)
        /\ Len(SubSeq(q, 1, Len(q) - 1)) = Len(q) - 1
        BY <1>1, SubSeqProperties
  <2> QED BY <2>1, <2>2, <2>3
<1>3. CASE Strategy # "lifo"
  <2>1. Popped(q) = q[1] /\ Rest(q) = Tail(q)
        BY <1>1, <1>3 DEF Popped, Rest
  <2> QED BY <1>1, <2>1, HeadTailProperties, ElementOfSeq, LenProperties
<1> QED BY <1>2, <1>3

\* The limits of a pool are numbers whichever override applies.
LEMMA LimitsAreNat ==
    ASSUME NEW k \in Keys
    PROVE  /\ ResolveLimits(k).max_size \in Nat
           /\ Capacity(k) \in Nat
PROOF
<1>1. GlobalLimits \in [LimitFields -> Nat]
      BY LimitsAssumption
<1>2. \A v : (\A f \in DOMAIN v : v[f] \in Nat) => Override(v) \in [LimitFields -> Nat]
      BY <1>1 DEF Override
<1>3. ResolveLimits(k) \in [LimitFields -> Nat]
      BY <1>1, <1>2, LimitsAssumption DEF ResolveLimits
<1> QED BY <1>3 DEF Capacity, LimitFields

\* The number of free permits of a pool is a number.
LEMMA AvailableIsNat ==
    ASSUME TypeOK, NEW k \in Keys
    PROVE  Available(k) \in Nat
PROOF
BY LimitsAreNat DEF TypeOK, Available

-----------------------------------------------------------------------------
(* The inductive invariant *)

\* add_permits keeps every part of the invariant it touches: the task at the
\* head of a queue waits for this very semaphore and is in no queue afterwards.
LEMMA AddPermitKeeps ==
    ASSUME PoolInv, NEW k \in Keys, NEW t \in Tasks, NEW next \in States,
           st[t] # "waiting", next # "waiting", AddPermit(k, t, next)
    PROVE  /\ sems' \subseteq Keys /\ sems \subseteq sems' /\ k \in sems'
           /\ permits' \in [Keys -> Nat]
           /\ waiters' \in [Keys -> Seq(Tasks)]
           /\ st' \in [Tasks -> States]
           /\ st'[t] = next
           /\ \A w \in Tasks : w # t /\ st'[w] # st[w] =>
                  st[w] = "waiting" /\ st'[w] = "granted" /\ key[w] = k
           /\ \A j \in Keys : \A i \in 1..Len(waiters'[j]) :
                  /\ waiters'[j][i] \in Tasks
                  /\ waiters'[j][i] # t
                  /\ st'[waiters'[j][i]] = "waiting"
                  /\ key[waiters'[j][i]] = j
                  /\ \A m \in 1..Len(waiters'[j]) :
                        waiters'[j][i] = waiters'[j][m] => i = m
           /\ \A j \in Keys : waiters'[j] # <<>> => j \in sems' /\ permits'[j] = 0
PROOF
<1> USE DEF PoolInv, TypeOK
<1>1. CASE /\ waiters[k] # <<>>
           /\ waiters' = [waiters EXCEPT ![k] = Tail(@)]
           /\ st' = [st EXCEPT ![t] = next, ![Head(waiters[k])] = "granted"]
           /\ UNCHANGED permits
  <2> DEFINE h == Head(waiters[k])
  <2>1. /\ Len(waiters[k]) \in Nat /\ Len(waiters[k]) > 0
        /\ Tail(waiters[k]) \in Seq(Tasks)
        /\ Len(Tail(waiters[k])) = Len(waiters[k]) - 1
        /\ \A i \in 1..Len(Tail(waiters[k])) : Tail(waiters[k])[i] = waiters[k][i + 1]
        BY <1>1, HeadTailProperties, EmptySeq, LenProperties
  <2>2. h = waiters[k][1] /\ h \in Tasks /\ st[h] = "waiting" /\ key[h] = k /\ h # t
        BY <1>1, <2>1, ElementOfSeq DEF QueuesOK
  <2>3. /\ st' \in [Tasks -> States] /\ st'[t] = next /\ st'[h] = "granted"
        /\ \A w \in Tasks : w \notin {t, h} => st'[w] = st[w]
        BY <1>1, <2>2 DEF States
  <2>4. /\ waiters' \in [Keys -> Seq(Tasks)]
        /\ waiters'[k] = Tail(waiters[k])
        /\ \A j \in Keys : j # k => waiters'[j] = waiters[j]
        BY <1>1, <2>1
  <2>5. ASSUME NEW j \in Keys, NEW i \in 1..Len(waiters'[j])
        PROVE  /\ waiters'[j][i] \in Tasks
               /\ waiters'[j][i] \notin {t, h}
               /\ st[waiters'[j][i]] = "waiting"
               /\ key[waiters'[j][i]] = j
               /\ \A m \in 1..Len(waiters'[j]) :
                     waiters'[j][i] = waiters'[j][m] => i = m
    <3>1. CASE j = k
      <4>0. Len(waiters'[j]) = Len(waiters[k]) - 1 /\ waiters'[j] = Tail(waiters[k])
            BY <2>1, <2>4, <3>1
      <4>1. /\ i + 1 \in 1..Len(waiters[k]) /\ i + 1 # 1 /\ 1 \in 1..Len(waiters[k])
            /\ waiters'[j][i] = waiters[k][i + 1]
            /\ \A m \in 1..Len(waiters'[j]) :
                  m + 1 \in 1..Len(waiters[k]) /\ waiters'[j][m] = waiters[k][m + 1]
            BY <2>1, <4>0
      <4>2. waiters[k][i + 1] \in Tasks
            BY <4>1, ElementOfSeq
      <4>3. \A a, b \in 1..Len(waiters[k]) :
               /\ st[waiters[k][a]] = "waiting" /\ key[waiters[k][a]] = k
               /\ waiters[k][a] = waiters[k][b] => a = b
            BY DEF QueuesOK
      <4>4. waiters[k][i + 1] # h
            BY <2>2, <4>1, <4>3
      <4>5. ASSUME NEW m \in 1..Len(waiters'[j]), waiters'[j][i] = waiters'[j][m]
            PROVE  i = m
        <5>1. i + 1 = m + 1
              BY <4>1, <4>3, <4>5
        <5>2. i \in Nat /\ m \in Nat
              BY <2>1, <4>0
        <5> QED BY <5>1, <5>2
      <4> QED BY <3>1, <4>1, <4>2, <4>3, <4>4, <4>5
    <3>2. CASE j # k
      <4>1. waiters'[j] = waiters[j]
            BY <2>4, <3>2
      <4>2. waiters[j][i] \in Tasks
            BY <4>1, ElementOfSeq
      <4> QED BY <2>2, <3>2, <4>1, <4>2 DEF QueuesOK
    <3> QED BY <3>1, <3>2
  <2>6. \A j \in Keys : waiters'[j] # <<>> => j \in sems' /\ permits'[j] = 0
        BY <1>1, <2>4 DEF SemsOK, AddPermit
  <2>7. sems' \subseteq Keys /\ sems \subseteq sems' /\ k \in sems'
        BY DEF AddPermit
  <2>8. \A j \in Keys : \A i \in 1..Len(waiters'[j]) :
                  /\ waiters'[j][i] \in Tasks
                  /\ waiters'[j][i] # t
                  /\ st'[waiters'[j][i]] = "waiting"
                  /\ key[waiters'[j][i]] = j
                  /\ \A m \in 1..Len(waiters'[j]) :
                        waiters'[j][i] = waiters'[j][m] => i = m
        BY <2>3, <2>5
  <2>9. permits' \in [Keys -> Nat]
        BY <1>1
  <2>10. ASSUME NEW w \in Tasks, w # t, st'[w] # st[w]
         PROVE  st[w] = "waiting" /\ st'[w] = "granted" /\ key[w] = k
    <3>1. w = h
          BY <2>3, <2>10
    <3> QED BY <2>2, <2>3, <3>1
  <2> HIDE DEF h
  <2> QED BY <2>3, <2>4, <2>6, <2>7, <2>8, <2>9, <2>10
<1>2. CASE /\ waiters[k] = <<>>
           /\ permits' = [permits EXCEPT ![k] = Available(k) + 1]
           /\ st' = [st EXCEPT ![t] = next]
           /\ UNCHANGED waiters
  <2>1. permits' \in [Keys -> Nat]
        BY <1>2, AvailableIsNat
  <2>2. st' \in [Tasks -> States] /\ st'[t] = next
        /\ \A w \in Tasks : w # t => st'[w] = st[w]
        BY <1>2
  <2>3. \A j \in Keys : \A i \in 1..Len(waiters[j]) : waiters[j][i] \in Tasks
        BY ElementOfSeq
  <2>4. \A j \in Keys : \A i \in 1..Len(waiters'[j]) :
                  /\ waiters'[j][i] \in Tasks
                  /\ waiters'[j][i] # t
                  /\ st'[waiters'[j][i]] = "waiting"
                  /\ key[waiters'[j][i]] = j
                  /\ \A m \in 1..Len(waiters'[j]) :
                        waiters'[j][i] = waiters'[j][m] => i = m
        BY <1>2, <2>2, <2>3 DEF QueuesOK
  <2>5. \A j \in Keys : waiters'[j] # <<>> => j \in sems' /\ permits'[j] = 0
        BY <1>2 DEF SemsOK, AddPermit
  <2>6. sems' \subseteq Keys /\ sems \subseteq sems' /\ k \in sems'
        BY DEF AddPermit
  <2> QED BY <1>2, <2>1, <2>2, <2>4, <2>5, <2>6
<1> QED BY <1>1, <1>2 DEF AddPermit

\* A queue stays a queue while its members neither move nor change key.
LEMMA QueuesStay ==
    ASSUME PoolInv, UNCHANGED waiters,
           \A w \in Tasks : st[w] = "waiting" => st'[w] = "waiting" /\ key'[w] = key[w]
    PROVE  QueuesOK'
PROOF
<1>1. \A k \in Keys : \A i \in 1..Len(waiters[k]) : waiters[k][i] \in Tasks
      BY ElementOfSeq DEF PoolInv, TypeOK
<1> QED BY <1>1 DEF PoolInv, QueuesOK

LEMMA PoolInvInit == Init => PoolInv
PROOF
<1> SUFFICES ASSUME Init PROVE PoolInv
    OBVIOUS
<1> USE DEF Init
<1>1. \A k \in Keys : waiters[k] = <<>> /\ Len(waiters[k]) = 0
      OBVIOUS
<1>2. TypeOK
      BY PoolAssumption, EmptySeq DEF TypeOK, States
<1>3. TasksOK /\ QueuesOK /\ SemsOK
      BY <1>1 DEF TasksOK, QueuesOK, SemsOK
<1> QED BY <1>2, <1>3 DEF PoolInv

LEMMA PoolInvNext == PoolInv /\ [Next]_vars => PoolInv'
PROOF
<1> SUFFICES ASSUME PoolInv, [Next]_vars PROVE PoolInv'
    OBVIOUS
<1> USE DEF PoolInv
<1>0. \A t \in Tasks : st[t] \in States /\ key[t] \in Keys \union {NoKey}
      BY DEF TypeOK
<1>1. CASE UNCHANGED vars
      BY <1>1 DEF vars, semVars, idleVars, taskVars, TypeOK, TasksOK, QueuesOK, SemsOK
<1>2. CASE Tick
  <2> USE <1>2 DEF Tick, semVars, idleVars, taskVars
  <2>1. TypeOK'
        BY PoolAssumption DEF TypeOK
  <2>2. QueuesOK'
        BY QueuesStay
  <2> QED BY <2>1, <2>2 DEF TasksOK, SemsOK
<1>3. ASSUME NEW t \in Tasks, NEW k \in Keys, Acquire(t, k) PROVE PoolInv'
  <2> USE <1>3 DEF Acquire, Move, semVars, idleVars
  <2>1. TypeOK'
        BY DEF TypeOK, States
  <2>2. QueuesOK'
        BY QueuesStay DEF TypeOK
  <2>3. TasksOK' /\ SemsOK'
        BY DEF TypeOK, TasksOK, SemsOK
  <2> QED BY <2>1, <2>2, <2>3
<1>4. ASSUME NEW t \in Tasks, InsertSemaphore(t) PROVE PoolInv'
  <2> USE <1>4 DEF InsertSemaphore, Move, idleVars
  <2>0. key[t] \in Keys
        BY DEF TasksOK
  <2>1. TypeOK'
        BY <2>0, AvailableIsNat DEF TypeOK, States
  <2>2. QueuesOK'
        BY QueuesStay DEF TypeOK
  <2>3. TasksOK' /\ SemsOK'
        BY <2>0 DEF TypeOK, TasksOK, SemsOK, Available
  <2> QED BY <2>1, <2>2, <2>3
<1>5. ASSUME NEW t \in Tasks, ScanHit(t) PROVE PoolInv'
  <2> USE <1>5 DEF ScanHit, Move, semVars
  <2>0. key[t] \in Keys /\ idle[key[t]] \in Seq(IdleConns)
        BY DEF TasksOK, TypeOK
  <2>1. /\ Popped(idle[key[t]]) \in IdleConns
        /\ Rest(idle[key[t]]) \in Seq(IdleConns)
        BY <2>0, PopShortens
  <2>2. TypeOK'
        BY <2>0, <2>1 DEF TypeOK, States, IdleConns, Conns
  <2>3. QueuesOK'
        BY QueuesStay DEF TypeOK
  <2>4. conn'[t] \in Conns
        BY <2>0, <2>1 DEF TypeOK, IdleConns, Conns
  <2>5. TasksOK' /\ SemsOK'
        BY <2>0, <2>4 DEF TypeOK, TasksOK, SemsOK
  <2> QED BY <2>2, <2>3, <2>5
<1>6. ASSUME NEW t \in Tasks, ScanExpired(t) PROVE PoolInv'
  <2> USE <1>6 DEF ScanExpired
  <2>0. key[t] \in Keys /\ idle[key[t]] \in Seq(IdleConns)
        BY DEF TasksOK, TypeOK
  <2>1. Rest(idle[key[t]]) \in Seq(IdleConns)
        BY <2>0, PopShortens
  <2>2. "scan" \in States /\ st[t] # "waiting" /\ AddPermit(key[t], t, "scan")
        BY DEF States
  <2>3. TypeOK'
        BY <2>0, <2>1, <2>2, AddPermitKeeps DEF TypeOK
  <2>4. QueuesOK'
        BY <2>0, <2>2, AddPermitKeeps DEF QueuesOK
  <2>8. /\ sems \subseteq sems' /\ key[t] \in sems'
        /\ st' \in [Tasks -> States] /\ st'[t] = "scan"
        /\ \A w \in Tasks : w # t /\ st'[w] # st[w] =>
               st[w] = "waiting" /\ st'[w] = "granted" /\ key[w] = key[t]
        /\ \A j \in Keys : waiters'[j] # <<>> => j \in sems' /\ permits'[j] = 0
        BY <2>0, <2>2, AddPermitKeeps
  <2>5. TasksOK'
        BY <2>0, <2>8 DEF TasksOK
  <2>6. SemsOK'
    <3>1. ASSUME NEW w \in Tasks, st'[w] \notin {"out", "insert"}
          PROVE  key'[w] \in sems'
          BY <2>0, <2>8, <3>1 DEF SemsOK
    <3> QED BY <2>8, <3>1 DEF SemsOK
  <2> QED BY <2>3, <2>4, <2>5, <2>6
<1>7. ASSUME NEW t \in Tasks, ScanEmpty(t) PROVE PoolInv'
  <2> USE <1>7 DEF ScanEmpty, Move, semVars
  <2>1. TypeOK'
        BY DEF TypeOK, States
  <2>2. QueuesOK'
        BY QueuesStay DEF TypeOK
  <2>3. TasksOK' /\ SemsOK'
        BY DEF TypeOK, TasksOK, SemsOK
  <2> QED BY <2>1, <2>2, <2>3
<1>8. ASSUME NEW t \in Tasks, TakePermit(t) PROVE PoolInv'
  <2> USE <1>8 DEF TakePermit, Move, idleVars
  <2>0. key[t] \in Keys
        BY DEF TasksOK
  <2>1. TypeOK'
        BY <2>0 DEF TypeOK, States
  <2>2. QueuesOK'
        BY QueuesStay DEF TypeOK
  <2>3. TasksOK' /\ SemsOK'
        BY <2>0 DEF TypeOK, TasksOK, SemsOK
  <2> QED BY <2>1, <2>2, <2>3
<1>9. ASSUME NEW t \in Tasks, Enqueue(t) PROVE PoolInv'
  <2> USE <1>9 DEF Enqueue, Move, idleVars
  <2>0. key[t] \in Keys /\ key[t] \in sems
        BY DEF TasksOK, SemsOK
  <2>1. TypeOK'
        BY <2>0, AppendProperties DEF TypeOK, States
  <2>2. QueuesOK'
    <3>1. \A k \in Keys : \A i \in 1..Len(waiters[k]) :
             waiters[k][i] \in Tasks /\ waiters[k][i] # t
          BY ElementOfSeq DEF TypeOK, QueuesOK
    <3>2. /\ Len(waiters[key[t]]) \in Nat
          /\ Len(waiters'[key[t]]) = Len(waiters[key[t]]) + 1
          /\ \A i \in 1..Len(waiters[key[t]]) : waiters'[key[t]][i] = waiters[key[t]][i]
          /\ waiters'[key[t]][Len(waiters[key[t]]) + 1] = t
          BY <2>0, AppendProperties, LenProperties DEF TypeOK
    <3>3. /\ st'[t] = "waiting" /\ key'[t] = key[t]
          /\ \A w \in Tasks : w # t => st'[w] = st[w] /\ key'[w] = key[w]
          BY DEF TypeOK
    <3>4. ASSUME NEW k \in Keys, NEW i \in 1..Len(waiters'[k])
          PROVE  /\ st'[waiters'[k][i]] = "waiting"
                 /\ key'[waiters'[k][i]] = k
                 /\ \A j \in 1..Len(waiters'[k]) :
                       waiters'[k][i] = waiters'[k][j] => i = j
      <4>1. CASE k = key[t]
        <5>1. \A j \in 1..Len(waiters'[k]) :
                 j \in 1..Len(waiters[k]) \/ j = Len(waiters[k]) + 1
              BY <4>1, <3>2
        <5> QED BY <4>1, <5>1, <3>1, <3>2, <3>3 DEF QueuesOK
      <4>2. CASE k # key[t]
            BY <4>2, <3>1, <3>3 DEF QueuesOK, TypeOK
      <4> QED BY <4>1, <4>2
    <3> QED BY <3>4 DEF QueuesOK
  <2>3. TasksOK' /\ SemsOK'
        BY <2>0 DEF TypeOK, TasksOK, SemsOK
  <2> QED BY <2>1, <2>2, <2>3
<1>10. ASSUME NEW t \in Tasks, StartCreate(t) PROVE PoolInv'
  <2> USE <1>10 DEF StartCreate, Move, semVars, idleVars
  <2>1. [stream |-> FreshStream, born |-> now] \in Conns
        BY PoolAssumption DEF TypeOK, Conns
  <2>2. TypeOK'
        BY <2>1 DEF TypeOK, States
  <2>3. QueuesOK'
        BY QueuesStay DEF TypeOK
  <2>4. TasksOK' /\ SemsOK'
        BY <2>1 DEF TypeOK, TasksOK, SemsOK
  <2> QED BY <2>2, <2>3, <2>4
<1>11. ASSUME NEW t \in Tasks, CreateOk(t) PROVE PoolInv'
  <2> USE <1>11 DEF CreateOk, Move, semVars, idleVars
  <2>1. TypeOK'
        BY DEF TypeOK, States
  <2>2. QueuesOK'
        BY QueuesStay DEF TypeOK
  <2>3. TasksOK' /\ SemsOK'
        BY DEF TypeOK, TasksOK, SemsOK
  <2> QED BY <2>1, <2>2, <2>3
<1>12. ASSUME NEW t \in Tasks, NEW stream \in Streams, Release(t, stream) PROVE PoolInv'
  <2> USE <1>12 DEF Release, Move, semVars, idleVars
  <2>1. /\ conn' \in [Tasks -> Conns \union {NoConn}] /\ conn'[t] \in Conns
        /\ \A w \in Tasks : w # t => conn'[w] = conn[w]
        BY DEF TypeOK, TasksOK, Conns
  <2>2. TypeOK'
        BY <2>1 DEF TypeOK, States
  <2>3. QueuesOK'
        BY QueuesStay DEF TypeOK
  <2>4. TasksOK' /\ SemsOK'
        BY <2>1 DEF TypeOK, TasksOK, SemsOK
  <2> QED BY <2>2, <2>3, <2>4
<1>13. ASSUME NEW t \in Tasks, Cancel(t) \/ ReturnPermit(t) PROVE PoolInv'
  <2>0. key[t] \in Keys
        BY <1>13 DEF TasksOK, Cancel, ReturnPermit
  <2>1. /\ "out" \in States /\ st[t] \notin {"out", "waiting"}
        /\ AddPermit(key[t], t, "out")
        BY <1>13 DEF States, Cancel, ReturnPermit
  <2>8. /\ sems \subseteq sems' /\ key[t] \in sems'
        /\ st' \in [Tasks -> States] /\ st'[t] = "out"
        /\ \A w \in Tasks : w # t /\ st'[w] # st[w] =>
               st[w] = "waiting" /\ st'[w] = "granted" /\ key[w] = key[t]
        /\ \A j \in Keys : waiters'[j] # <<>> => j \in sems' /\ permits'[j] = 0
        BY <2>0, <2>1, AddPermitKeeps
  <2>3. /\ key' \in [Tasks -> Keys \union {NoKey}]
        /\ conn' \in [Tasks -> Conns \union {NoConn}]
        /\ \A w \in Tasks : w # t => key'[w] = key[w] /\ conn'[w] = conn[w]
        /\ UNCHANGED <<now, pools, idle, lock>>
        BY <1>13 DEF Cancel, ReturnPermit, Forget, TypeOK, idleVars
  <2>4. TypeOK'
        BY <2>0, <2>1, <2>3, AddPermitKeeps DEF TypeOK
  <2>5. QueuesOK'
        BY <2>0, <2>1, <2>3, AddPermitKeeps DEF QueuesOK
  <2>6. TasksOK'
        BY <2>0, <2>8, <2>3 DEF TasksOK
  <2>7. SemsOK'
    <3>1. ASSUME NEW w \in Tasks, st'[w] \notin {"out", "insert"}
          PROVE  key'[w] \in sems'
          BY <2>0, <2>3, <2>8, <3>1 DEF SemsOK
    <3> QED BY <2>8, <3>1 DEF SemsOK
  <2> QED BY <2>4, <2>5, <2>6, <2>7
<1>14. ASSUME NEW t \in Tasks, Park(t) PROVE PoolInv'
  <2> USE <1>14 DEF Park, Move, Forget, semVars
  <2>0. key[t] \in Keys /\ idle[key[t]] \in Seq(IdleConns)
        BY DEF TasksOK, TypeOK
  <2>1. [stream |-> conn[t].stream, born |-> conn[t].born, parked |-> now] \in IdleConns
        BY DEF TasksOK, TypeOK, Conns, IdleConns
  <2>2. idle' \in [Keys -> Seq(IdleConns)]
    <3>1. Append(idle[key[t]], [stream |-> conn[t].stream, born |-> conn[t].born,
                                parked |-> now]) \in Seq(IdleConns)
          BY <2>0, <2>1, AppendProperties
    <3> QED BY <2>0, <3>1 DEF TypeOK
  <2>3. st' \in [Tasks -> States] /\ pools' \subseteq Keys
        BY <2>0 DEF TypeOK, States
  <2>4. /\ key' \in [Tasks -> Keys \union {NoKey}]
        /\ conn' \in [Tasks -> Conns \union {NoConn}]
        BY DEF TypeOK
  <2>5. TypeOK'
        BY <2>2, <2>3, <2>4 DEF TypeOK
  <2>6. QueuesOK'
        BY QueuesStay DEF TypeOK
  <2>7. TasksOK'
        BY <2>0 DEF TypeOK, TasksOK
  <2>8. SemsOK'
    <3>1. \A k \in Keys : waiters'[k] # <<>> => k \in sems' /\ permits'[k] = 0
          BY DEF SemsOK
    <3>2. ASSUME NEW w \in Tasks, st'[w] \notin {"out", "insert"}
          PROVE  st[w] \notin {"out", "insert"} /\ key'[w] = key[w]
          BY <2>0, <3>2 DEF TypeOK
    <3> QED BY <3>1, <3>2 DEF SemsOK
  <2> QED BY <2>5, <2>6, <2>7, <2>8
<1> QED BY <1>1, <1>2, <1>3, <1>4, <1>5, <1>6, <1>7, <1>8, <1>9, <1>10,
           <1>11, <1>12, <1>13, <1>14 DEF Next, Internal, Call, Scan

\* Every reachable state of every pool satisfies the inductive invariant.
THEOREM PoolInvariant == Spec => []PoolInv
PROOF
BY PoolInvInit, PoolInvNext, PTL DEF Spec

\* Type correctness.
THEOREM TypeCorrect == Spec => []TypeOK
PROOF
<1>1. PoolInv => TypeOK
      BY DEF PoolInv
<1> QED BY <1>1, PoolInvariant, PTL

-----------------------------------------------------------------------------
(* How a step moves slots *)

\* Pool k's free, parked and owned slots change by f, p and u; no other pool's
\* do.
Moves(k, f, p, u) ==
    /\ freeSlots' = [freeSlots EXCEPT ![k] = @ + f]
    /\ parkedSlots' = [parkedSlots EXCEPT ![k] = @ + p]
    /\ usedSlots' = [usedSlots EXCEPT ![k] = @ + u]

\* No pool's slots change.
Stays == UNCHANGED <<freeSlots, parkedSlots, usedSlots>>

LEMMA SlotsOf ==
    ASSUME NEW k \in Keys
    PROVE  /\ freeSlots[k] = Available(k) /\ freeSlots'[k] = Available(k)'
           /\ parkedSlots[k] = Len(idle[k]) /\ parkedSlots'[k] = Len(idle[k])'
           /\ usedSlots[k] = Cardinality(Owners(k))
           /\ usedSlots'[k] = Cardinality(Owners(k))'
PROOF
BY DEF freeSlots, parkedSlots, usedSlots, Available, Owners, Capacity, ResolveLimits

LEMMA CountsAreNat ==
    ASSUME TypeOK, NEW k \in Keys
    PROVE  /\ Available(k) \in Nat
           /\ Len(idle[k]) \in Nat
           /\ IsFiniteSet(Owners(k))
           /\ Cardinality(Owners(k)) \in Nat
PROOF
<1>1. IsFiniteSet(Owners(k))
      BY PoolAssumption, FS_Subset DEF Owners
<1>2. idle[k] \in Seq(IdleConns)
      BY DEF TypeOK
<1> QED BY <1>1, <1>2, AvailableIsNat, FS_CardinalityType, LenProperties

\* A step moves slots of one pool if it changes that pool's counts only.
LEMMA MovesIntro ==
    ASSUME TypeOK, NEW k \in Keys, NEW f \in Int, NEW p \in Int, NEW u \in Int,
           Available(k)' = Available(k) + f,
           Len(idle[k])' = Len(idle[k]) + p,
           Cardinality(Owners(k))' = Cardinality(Owners(k)) + u,
           \A j \in Keys : j # k =>
               /\ Available(j)' = Available(j)
               /\ Len(idle[j])' = Len(idle[j])
               /\ Cardinality(Owners(j))' = Cardinality(Owners(j))
    PROVE  Moves(k, f, p, u)
PROOF
<1>1. /\ freeSlots'[k] = freeSlots[k] + f
      /\ parkedSlots'[k] = parkedSlots[k] + p
      /\ usedSlots'[k] = usedSlots[k] + u
      BY SlotsOf
<1>2. \A j \in Keys : j # k => /\ freeSlots'[j] = freeSlots[j]
                               /\ parkedSlots'[j] = parkedSlots[j]
                               /\ usedSlots'[j] = usedSlots[j]
      BY SlotsOf
<1>3. /\ DOMAIN freeSlots = Keys /\ freeSlots' = [j \in Keys |-> freeSlots'[j]]
      /\ DOMAIN parkedSlots = Keys /\ parkedSlots' = [j \in Keys |-> parkedSlots'[j]]
      /\ DOMAIN usedSlots = Keys /\ usedSlots' = [j \in Keys |-> usedSlots'[j]]
      /\ freeSlots = [j \in Keys |-> freeSlots[j]]
      /\ parkedSlots = [j \in Keys |-> parkedSlots[j]]
      /\ usedSlots = [j \in Keys |-> usedSlots[j]]
      BY DEF freeSlots, parkedSlots, usedSlots
<1> QED BY <1>1, <1>2, <1>3 DEF Moves

LEMMA StaysIntro ==
    ASSUME \A j \in Keys :
               /\ Available(j)' = Available(j)
               /\ Len(idle[j])' = Len(idle[j])
               /\ Cardinality(Owners(j))' = Cardinality(Owners(j))
    PROVE  Stays
PROOF
<1>1. \A j \in Keys : /\ freeSlots'[j] = freeSlots[j]
                      /\ parkedSlots'[j] = parkedSlots[j]
                      /\ usedSlots'[j] = usedSlots[j]
      BY SlotsOf
<1>2. /\ freeSlots' = [j \in Keys |-> freeSlots'[j]]
      /\ parkedSlots' = [j \in Keys |-> parkedSlots'[j]]
      /\ usedSlots' = [j \in Keys |-> usedSlots'[j]]
      /\ freeSlots = [j \in Keys |-> freeSlots[j]]
      /\ parkedSlots = [j \in Keys |-> parkedSlots[j]]
      /\ usedSlots = [j \in Keys |-> usedSlots[j]]
      BY DEF freeSlots, parkedSlots, usedSlots
<1> QED BY <1>1, <1>2 DEF Stays

\* A pool's owners are the same if every task owns what it owned.
LEMMA OwnersSame ==
    ASSUME NEW j \in Keys,
           \A w \in Tasks : st'[w] \in Owning /\ key'[w] = j
                                <=> st[w] \in Owning /\ key[w] = j
    PROVE  Cardinality(Owners(j))' = Cardinality(Owners(j))
PROOF
<1>1. Owners(j)' = Owners(j)
      BY DEF Owners
<1> QED BY <1>1

\* One owner more.
LEMMA OwnersGain ==
    ASSUME TypeOK, NEW j \in Keys, NEW t \in Tasks,
           ~(st[t] \in Owning /\ key[t] = j), st'[t] \in Owning, key'[t] = j,
           \A w \in Tasks : w # t =>
               (st'[w] \in Owning /\ key'[w] = j <=> st[w] \in Owning /\ key[w] = j)
    PROVE  Cardinality(Owners(j))' = Cardinality(Owners(j)) + 1
PROOF
<1>1. Owners(j)' = Owners(j) \union {t} /\ t \notin Owners(j)
      BY DEF Owners
<1> QED BY <1>1, CountsAreNat, FS_AddElement

\* One owner less.
LEMMA OwnersLose ==
    ASSUME TypeOK, NEW j \in Keys, NEW t \in Tasks,
           st[t] \in Owning, key[t] = j, ~(st'[t] \in Owning /\ key'[t] = j),
           \A w \in Tasks : w # t =>
               (st'[w] \in Owning /\ key'[w] = j <=> st[w] \in Owning /\ key[w] = j)
    PROVE  /\ Cardinality(Owners(j))' = Cardinality(Owners(j)) + -1
           /\ Cardinality(Owners(j)) > 0
PROOF
<1>1. Owners(j)' = Owners(j) \ {t} /\ t \in Owners(j)
      BY DEF Owners
<1>2. IsFiniteSet(Owners(j)) /\ Cardinality(Owners(j)) \in Nat
      BY CountsAreNat
<1>3. Cardinality(Owners(j)) # 0
      BY <1>1, <1>2, FS_EmptySet
<1>4. Cardinality(Owners(j) \ {t}) = Cardinality(Owners(j)) - 1
      BY <1>1, <1>2, FS_RemoveElement
<1> QED BY <1>1, <1>2, <1>3, <1>4

\* Steps that leave the counts of every pool alone.
LEMMA QuietSteps ==
    ASSUME PoolInv, NEW t \in Tasks,
           \/ \E k \in Keys : Acquire(t, k)
           \/ InsertSemaphore(t) \/ ScanEmpty(t) \/ Enqueue(t)
           \/ StartCreate(t) \/ CreateOk(t)
           \/ \E stream \in Streams : Release(t, stream)
    PROVE  Stays
PROOF
<1> USE DEF Acquire, InsertSemaphore, ScanEmpty, Enqueue, StartCreate,
            CreateOk, Release, Move, semVars, idleVars
<1>1. \A j \in Keys : idle'[j] = idle[j]
      OBVIOUS
<1>2. ASSUME NEW j \in Keys PROVE Available(j)' = Available(j)
      BY DEF Available, PoolInv, TypeOK, TasksOK
<1>3. ASSUME NEW j \in Keys, NEW w \in Tasks
      PROVE  st'[w] \in Owning /\ key'[w] = j <=> st[w] \in Owning /\ key[w] = j
      BY DEF Owning, PoolInv, TypeOK
<1>4. \A j \in Keys : Cardinality(Owners(j))' = Cardinality(Owners(j))
      BY <1>3, OwnersSame
<1> QED BY <1>1, <1>2, <1>4, StaysIntro

\* Taking a permit moves a slot from the free ones to the task.
LEMMA TakePermitMoves ==
    ASSUME PoolInv, NEW t \in Tasks, TakePermit(t)
    PROVE  Available(key[t]) > 0 /\ Moves(key[t], -1, 0, 1)
PROOF
<1>0. PICK k \in Keys : k = key[t]
      BY DEF TakePermit, PoolInv, TasksOK
<1> USE DEF TakePermit, Move, idleVars
<1>1. k \in sems
      BY <1>0 DEF PoolInv, SemsOK
<1>2. Available(k) > 0 /\ Available(k)' = Available(k) + -1
      BY <1>0, <1>1 DEF Available, PoolInv, TypeOK
<1>3. Cardinality(Owners(k))' = Cardinality(Owners(k)) + 1
      BY <1>0, OwnersGain DEF PoolInv, TypeOK, Owning
<1>4. \A j \in Keys : j # k =>
          /\ Available(j)' = Available(j)
          /\ Cardinality(Owners(j))' = Cardinality(Owners(j))
      BY <1>0, OwnersSame DEF Available, PoolInv, TypeOK, Owning
<1>5. \A j \in Keys : Len(idle[j])' = Len(idle[j]) /\ Len(idle[j]) \in Nat
      BY CountsAreNat DEF PoolInv
<1>6. Moves(k, -1, 0, 1)
      BY <1>2, <1>3, <1>4, <1>5, MovesIntro DEF PoolInv
<1> QED BY <1>0, <1>2, <1>6

\* A hit moves the slot of a parked connection to the task.
LEMMA ScanHitMoves ==
    ASSUME PoolInv, NEW t \in Tasks, ScanHit(t)
    PROVE  Len(idle[key[t]]) > 0 /\ Moves(key[t], 0, -1, 1)
PROOF
<1>0. PICK k \in Keys : k = key[t]
      BY DEF ScanHit, PoolInv, TasksOK
<1> USE DEF ScanHit, Move, semVars
<1>1. idle[k] \in Seq(IdleConns) /\ idle[k] # <<>>
      BY <1>0 DEF PoolInv, TypeOK
<1>2. Len(idle[k]) \in Nat /\ Len(idle[k]) > 0
      BY <1>1, EmptySeq, LenProperties
<1>3. Len(Rest(idle[k])) = Len(idle[k]) - 1
      BY <1>1, PopShortens
<1>4. Len(idle[k])' = Len(idle[k]) + -1
      BY <1>0, <1>2, <1>3 DEF PoolInv, TypeOK
<1>5. Cardinality(Owners(k))' = Cardinality(Owners(k)) + 1
      BY <1>0, OwnersGain DEF PoolInv, TypeOK, Owning
<1>6. \A j \in Keys : j # k =>
          /\ Len(idle[j])' = Len(idle[j])
          /\ Cardinality(Owners(j))' = Cardinality(Owners(j))
      BY <1>0, OwnersSame DEF PoolInv, TypeOK, Owning
<1>7. \A j \in Keys : Available(j)' = Available(j) /\ Available(j) \in Nat
      BY CountsAreNat DEF Available, PoolInv
<1>8. Moves(k, 0, -1, 1)
      BY <1>4, <1>5, <1>6, <1>7, MovesIntro DEF PoolInv
<1> QED BY <1>0, <1>2, <1>8

\* Parking moves the task's slot to the deque, or nothing if it is full.
LEMMA ParkMoves ==
    ASSUME PoolInv, NEW t \in Tasks, Park(t)
    PROVE  \/ Stays
           \/ /\ Cardinality(Owners(key[t])) > 0
              /\ Len(idle[key[t]]) < ResolveLimits(key[t]).max_size
              /\ Moves(key[t], 0, 1, -1)
PROOF
<1>0. PICK k \in Keys : k = key[t]
      BY DEF Park, PoolInv, TasksOK
<1>5. PICK ic \in IdleConns :
         ic = [stream |-> conn[t].stream, born |-> conn[t].born, parked |-> now]
  <2>1. conn[t] \in [stream : Streams, born : Nat] /\ now \in Nat
        BY DEF Park, PoolInv, TasksOK, TypeOK, Conns
  <2> QED BY <2>1 DEF IdleConns
<1>1. idle[k] \in Seq(IdleConns) /\ Len(idle[k]) \in Nat
      BY LenProperties DEF PoolInv, TypeOK
<1>2. \A j \in Keys : Available(j)' = Available(j)
      BY DEF Park, semVars, Available
<1>3. CASE Move(t, "dropping") /\ UNCHANGED <<idle, key, conn>>
  <2>1. \A j \in Keys : Cardinality(Owners(j))' = Cardinality(Owners(j))
        BY <1>3, OwnersSame DEF Park, Move, PoolInv, TypeOK, Owning
  <2> QED BY <1>2, <1>3, <2>1, StaysIntro
<1>4. CASE /\ Len(idle[k]) < ResolveLimits(k).max_size
           /\ idle' = [idle EXCEPT ![k] = Append(@, ic)]
           /\ Move(t, "out")
           /\ Forget(t)
  <2>1. st[t] = "parking" /\ st \in [Tasks -> States] /\ key \in [Tasks -> Keys \union {NoKey}]
        BY DEF Park, PoolInv, TypeOK
  <2>2. Len(Append(idle[k], ic)) = Len(idle[k]) + 1
        BY <1>1, AppendProperties
  <2>3. Len(idle[k])' = Len(idle[k]) + 1
        BY <1>1, <1>4, <2>2 DEF PoolInv, TypeOK
  <2>4. \A j \in Keys : j # k => Len(idle[j])' = Len(idle[j])
        BY <1>1, <1>4 DEF PoolInv, TypeOK
  <2>5. /\ st[t] \in Owning /\ st'[t] \notin Owning
        /\ \A w \in Tasks : w # t => st'[w] = st[w] /\ key'[w] = key[w]
        BY <1>4, <2>1 DEF Move, Forget, Owning
  <2>6. /\ Cardinality(Owners(k))' = Cardinality(Owners(k)) + -1
        /\ Cardinality(Owners(k)) > 0
        BY <1>0, <2>1, <2>5, OwnersLose DEF PoolInv
  <2>7. \A j \in Keys : j # k => Cardinality(Owners(j))' = Cardinality(Owners(j))
        BY <1>0, <2>1, <2>5, OwnersSame
  <2>8. \A j \in Keys : /\ Available(j) \in Nat /\ Len(idle[j]) \in Nat
                         /\ Cardinality(Owners(j)) \in Nat
        BY CountsAreNat DEF PoolInv
  <2>9. Moves(k, 0, 1, -1)
        BY <1>2, <2>3, <2>4, <2>6, <2>7, <2>8, MovesIntro DEF PoolInv
  <2> QED BY <1>0, <1>4, <2>6, <2>9
<1> QED BY <1>0, <1>5, <1>3, <1>4 DEF Park

\* add_permits by a task that owns no slot: the permit is free afterwards, or
\* the head of the queue owns it.
LEMMA AddPermitCounts ==
    ASSUME PoolInv, NEW k \in Keys, NEW t \in Tasks, NEW next \in States,
           st[t] # "waiting", next # "waiting", AddPermit(k, t, next)
    PROVE  \/ /\ \A j \in Keys : Available(j)' = Available(j) + (IF j = k THEN 1 ELSE 0)
              /\ \A w \in Tasks : w # t => st'[w] = st[w]
           \/ /\ \A j \in Keys : Available(j)' = Available(j)
              /\ \E h \in Tasks :
                    /\ h # t /\ st[h] = "waiting" /\ st'[h] = "granted" /\ key[h] = k
                    /\ \A w \in Tasks : w \notin {t, h} => st'[w] = st[w]
PROOF
<1> USE DEF PoolInv, TypeOK
<1>1. CASE /\ waiters[k] # <<>>
           /\ st' = [st EXCEPT ![t] = next, ![Head(waiters[k])] = "granted"]
           /\ UNCHANGED permits
  <2>1. Len(waiters[k]) \in Nat /\ Len(waiters[k]) > 0 /\ Head(waiters[k]) = waiters[k][1]
        BY <1>1, HeadTailProperties, EmptySeq, LenProperties
  <2>2. PICK h \in Tasks : h = Head(waiters[k])
        BY <1>1, HeadTailProperties
  <2>3. st[h] = "waiting" /\ key[h] = k /\ h # t
        BY <2>1, <2>2 DEF QueuesOK
  <2>4. st'[h] = "granted" /\ \A w \in Tasks : w \notin {t, h} => st'[w] = st[w]
        BY <1>1, <2>2, <2>3
  <2>5. k \in sems
        BY <1>1 DEF SemsOK
  <2>6. \A j \in Keys : Available(j)' = Available(j)
        BY <1>1, <2>5 DEF Available, AddPermit
  <2> QED BY <2>3, <2>4, <2>6
<1>2. CASE /\ permits' = [permits EXCEPT ![k] = Available(k) + 1]
           /\ st' = [st EXCEPT ![t] = next]
  <2>1. \A j \in Keys : Available(j)' = Available(j) + (IF j = k THEN 1 ELSE 0)
    <3>1. Available(k)' = Available(k) + 1
          BY <1>2 DEF Available, AddPermit
    <3>2. \A j \in Keys : j # k => Available(j)' = Available(j)
          BY <1>2 DEF Available, AddPermit
    <3> QED BY <3>1, <3>2, CountsAreNat
  <2> QED BY <1>2, <2>1
<1> QED BY <1>1, <1>2 DEF AddPermit

\* cancel, and release when it drops: the slot is free again, or it goes from
\* the task to the head of the queue.
LEMMA GiveBackMoves ==
    ASSUME PoolInv, NEW t \in Tasks, Cancel(t) \/ ReturnPermit(t)
    PROVE  \/ Stays
           \/ Cardinality(Owners(key[t])) > 0 /\ Moves(key[t], 1, 0, -1)
PROOF
<1>0. PICK k \in Keys : k = key[t]
      BY DEF Cancel, ReturnPermit, PoolInv, TasksOK
<1>1. /\ st[t] \in Owning /\ st[t] # "waiting" /\ "out" \in States
      /\ AddPermit(k, t, "out")
      BY <1>0 DEF Cancel, ReturnPermit, Owning, States
<1>2. st'[t] = "out" /\ \A w \in Tasks : w # t => key'[w] = key[w]
  <2>1. st'[t] = "out"
        BY <1>1, AddPermitKeeps
  <2>2. \A w \in Tasks : w # t => key'[w] = key[w]
        BY DEF Cancel, ReturnPermit, Forget, PoolInv, TypeOK
  <2> QED BY <2>1, <2>2
<1>3. \A j \in Keys : Len(idle[j])' = Len(idle[j]) /\ Len(idle[j]) \in Nat
      BY CountsAreNat DEF Cancel, ReturnPermit, idleVars, PoolInv
<1>4. CASE /\ \A j \in Keys : Available(j)' = Available(j) + (IF j = k THEN 1 ELSE 0)
           /\ \A w \in Tasks : w # t => st'[w] = st[w]
  <2>1. /\ Cardinality(Owners(k))' = Cardinality(Owners(k)) + -1
        /\ Cardinality(Owners(k)) > 0
        BY <1>0, <1>1, <1>2, <1>4, OwnersLose DEF PoolInv, Owning
  <2>2. \A j \in Keys : j # k => Cardinality(Owners(j))' = Cardinality(Owners(j))
        BY <1>0, <1>1, <1>2, <1>4, OwnersSame DEF Owning
  <2>3. Available(k)' = Available(k) + 1
        /\ \A j \in Keys : j # k => Available(j)' = Available(j)
        BY <1>4, CountsAreNat DEF PoolInv
  <2>4. Moves(k, 1, 0, -1)
        BY <1>3, <2>1, <2>2, <2>3, MovesIntro DEF PoolInv
  <2> QED BY <1>0, <2>1, <2>4
<1>5. CASE /\ \A j \in Keys : Available(j)' = Available(j)
           /\ \E h \in Tasks :
                 /\ h # t /\ st[h] = "waiting" /\ st'[h] = "granted" /\ key[h] = k
                 /\ \A w \in Tasks : w \notin {t, h} => st'[w] = st[w]
  <2>1. PICK h \in Tasks :
           /\ h # t /\ st[h] = "waiting" /\ st'[h] = "granted" /\ key[h] = k
           /\ \A w \in Tasks : w \notin {t, h} => st'[w] = st[w]
        BY <1>5
  <2>2. \A j \in Keys : j # k => Cardinality(Owners(j))' = Cardinality(Owners(j))
        BY <1>0, <1>1, <1>2, <2>1, OwnersSame DEF Owning
  <2>3. /\ Owners(k)' = (Owners(k) \ {t}) \union {h}
        /\ t \in Owners(k) /\ h \notin Owners(k)
        BY <1>0, <1>1, <1>2, <2>1 DEF Owners, Owning
  <2>4. IsFiniteSet(Owners(k)) /\ Cardinality(Owners(k)) \in Nat
        BY CountsAreNat DEF PoolInv
  <2>5. /\ IsFiniteSet(Owners(k) \ {t})
        /\ Cardinality(Owners(k) \ {t}) = Cardinality(Owners(k)) - 1
        BY <2>3, <2>4, FS_RemoveElement
  <2>6. Cardinality((Owners(k) \ {t}) \union {h}) = Cardinality(Owners(k) \ {t}) + 1
        BY <2>3, <2>5, FS_AddElement
  <2>7. Cardinality(Owners(k))' = Cardinality(Owners(k))
        BY <2>3, <2>4, <2>5, <2>6
  <2> QED BY <1>0, <1>3, <1>5, <2>2, <2>7, StaysIntro
<1> QED BY <1>1, <1>4, <1>5, AddPermitCounts

\* An expired connection's slot becomes free, or goes to the head of the queue.
LEMMA ScanExpiredMoves ==
    ASSUME PoolInv, NEW t \in Tasks, ScanExpired(t)
    PROVE  /\ Len(idle[key[t]]) > 0
           /\ Moves(key[t], 1, -1, 0) \/ Moves(key[t], 0, -1, 1)
PROOF
<1>0. PICK k \in Keys : k = key[t]
      BY DEF ScanExpired, PoolInv, TasksOK
<1>1. /\ st[t] \notin Owning /\ st[t] # "waiting" /\ "scan" \in States
      /\ AddPermit(k, t, "scan") /\ UNCHANGED key
      BY <1>0 DEF ScanExpired, Owning, States
<1>2. st'[t] = "scan"
      BY <1>1, AddPermitKeeps
<1>3. idle[k] \in Seq(IdleConns) /\ idle[k] # <<>>
      BY <1>0 DEF ScanExpired, PoolInv, TypeOK
<1>4. Len(idle[k]) \in Nat /\ Len(idle[k]) > 0
      BY <1>3, EmptySeq, LenProperties
<1>5. Len(Rest(idle[k])) = Len(idle[k]) - 1
      BY <1>3, PopShortens
<1>6. /\ Len(idle[k])' = Len(idle[k]) + -1
      /\ \A j \in Keys : j # k => Len(idle[j])' = Len(idle[j])
      BY <1>0, <1>4, <1>5 DEF ScanExpired, PoolInv, TypeOK
<1>7. CASE /\ \A j \in Keys : Available(j)' = Available(j) + (IF j = k THEN 1 ELSE 0)
           /\ \A w \in Tasks : w # t => st'[w] = st[w]
  <2>1. \A j \in Keys : Cardinality(Owners(j))' = Cardinality(Owners(j))
        BY <1>1, <1>2, <1>7, OwnersSame DEF Owning
  <2>2. Cardinality(Owners(k))' = Cardinality(Owners(k)) + 0
        BY <2>1, CountsAreNat DEF PoolInv
  <2>3. Available(k)' = Available(k) + 1
        /\ \A j \in Keys : j # k => Available(j)' = Available(j)
        BY <1>7, CountsAreNat DEF PoolInv
  <2>4. Moves(k, 1, -1, 0)
        BY <1>6, <2>1, <2>2, <2>3, MovesIntro DEF PoolInv
  <2> QED BY <1>0, <1>4, <2>4
<1>8. CASE /\ \A j \in Keys : Available(j)' = Available(j)
           /\ \E h \in Tasks :
                 /\ h # t /\ st[h] = "waiting" /\ st'[h] = "granted" /\ key[h] = k
                 /\ \A w \in Tasks : w \notin {t, h} => st'[w] = st[w]
  <2>1. PICK h \in Tasks :
           /\ h # t /\ st[h] = "waiting" /\ st'[h] = "granted" /\ key[h] = k
           /\ \A w \in Tasks : w \notin {t, h} => st'[w] = st[w]
        BY <1>8
  <2>2. \A w \in Tasks : w # h => (st'[w] \in Owning <=> st[w] \in Owning)
        BY <1>1, <1>2, <2>1 DEF Owning
  <2>3. Cardinality(Owners(k))' = Cardinality(Owners(k)) + 1
        BY <1>1, <2>1, <2>2, OwnersGain DEF PoolInv, Owning
  <2>4. \A j \in Keys : j # k => Cardinality(Owners(j))' = Cardinality(Owners(j))
        BY <1>1, <2>1, <2>2, OwnersSame DEF Owning
  <2>5. Available(k)' = Available(k) + 0
        BY <1>8, CountsAreNat DEF PoolInv
  <2>6. Moves(k, 0, -1, 1)
        BY <1>6, <1>8, <2>3, <2>4, <2>5, MovesIntro DEF PoolInv
  <2> QED BY <1>0, <1>4, <2>6
<1> QED BY <1>1, <1>7, <1>8, AddPermitCounts

\* Every step of the pools moves at most one slot, and in one of the ways
\* SlotLedger has an action for.
LEMMA StepMoves ==
    ASSUME PoolInv, [Next]_vars
    PROVE  \/ Stays
           \/ \E k \in Keys :
                 \/ freeSlots[k] > 0 /\ Moves(k, -1, 0, 1)
                 \/ parkedSlots[k] > 0 /\ Moves(k, 0, -1, 1)
                 \/ /\ usedSlots[k] > 0
                    /\ parkedSlots[k] < ResolveLimits(k).max_size
                    /\ Moves(k, 0, 1, -1)
                 \/ parkedSlots[k] > 0 /\ Moves(k, 1, -1, 0)
                 \/ usedSlots[k] > 0 /\ Moves(k, 1, 0, -1)
PROOF
<1> DEFINE Goal ==
           \/ Stays
           \/ \E k \in Keys :
                 \/ freeSlots[k] > 0 /\ Moves(k, -1, 0, 1)
                 \/ parkedSlots[k] > 0 /\ Moves(k, 0, -1, 1)
                 \/ /\ usedSlots[k] > 0
                    /\ parkedSlots[k] < ResolveLimits(k).max_size
                    /\ Moves(k, 0, 1, -1)
                 \/ parkedSlots[k] > 0 /\ Moves(k, 1, -1, 0)
                 \/ usedSlots[k] > 0 /\ Moves(k, 1, 0, -1)
<1>1. CASE Tick \/ UNCHANGED vars
      BY <1>1 DEF Tick, vars, semVars, idleVars, taskVars, Stays, freeSlots,
                  parkedSlots, usedSlots, Available, Owners
<1>2. ASSUME NEW t \in Tasks, Internal(t) \/ Call(t) PROVE Goal
  <2>1. CASE \/ \E k \in Keys : Acquire(t, k)
             \/ InsertSemaphore(t) \/ ScanEmpty(t) \/ Enqueue(t)
             \/ StartCreate(t) \/ CreateOk(t)
             \/ \E stream \in Streams : Release(t, stream)
        BY <2>1, QuietSteps
  <2>2. key[t] \in Keys \/ st[t] = "out"
        BY DEF PoolInv, TasksOK
  <2>3. CASE TakePermit(t)
        BY <2>2, <2>3, TakePermitMoves, SlotsOf DEF TakePermit
  <2>4. CASE ScanHit(t)
        BY <2>2, <2>4, ScanHitMoves, SlotsOf DEF ScanHit
  <2>5. CASE ScanExpired(t)
        BY <2>2, <2>5, ScanExpiredMoves, SlotsOf DEF ScanExpired
  <2>6. CASE Park(t)
        BY <2>2, <2>6, ParkMoves, SlotsOf DEF Park
  <2>7. CASE Cancel(t) \/ ReturnPermit(t)
        BY <2>2, <2>7, GiveBackMoves, SlotsOf DEF Cancel, ReturnPermit
  <2> QED BY <1>2, <2>1, <2>3, <2>4, <2>5, <2>6, <2>7 DEF Internal, Call, Scan
<1> QED BY <1>1, <1>2 DEF Next

-----------------------------------------------------------------------------
(* What follows for the slots *)

\* SlotConservation and the bound on parked connections, from how steps move
\* slots.
LEMMA SlotsInit == Init => SlotConservation /\ ReserveIsNotParked
PROOF
<1> SUFFICES ASSUME Init, NEW k \in Keys
             PROVE  /\ freeSlots[k] + parkedSlots[k] + usedSlots[k] = Capacity(k)
                    /\ Len(idle[k]) <= ResolveLimits(k).max_size
    BY DEF SlotConservation, ReserveIsNotParked
<1>1. Available(k) = Capacity(k) /\ Len(idle[k]) = 0
      BY DEF Init, Available
<1>2. Owners(k) = {}
      BY DEF Init, Owners, Owning
<1>3. Cardinality(Owners(k)) = 0
      BY <1>2, FS_EmptySet
<1> QED BY <1>1, <1>3, LimitsAreNat, SlotsOf

LEMMA SlotsNext ==
    PoolInv /\ SlotConservation /\ ReserveIsNotParked /\ [Next]_vars
        => (SlotConservation /\ ReserveIsNotParked)'
PROOF
<1> SUFFICES ASSUME PoolInv, SlotConservation, ReserveIsNotParked, [Next]_vars,
                    NEW j \in Keys
             PROVE  /\ freeSlots'[j] + parkedSlots'[j] + usedSlots'[j] = Capacity(j)
                    /\ parkedSlots'[j] <= ResolveLimits(j).max_size
    BY SlotsOf DEF SlotConservation, ReserveIsNotParked, Capacity, ResolveLimits
<1>1. /\ DOMAIN freeSlots = Keys /\ DOMAIN parkedSlots = Keys /\ DOMAIN usedSlots = Keys
      /\ freeSlots[j] \in Nat /\ parkedSlots[j] \in Nat /\ usedSlots[j] \in Nat
      /\ Capacity(j) \in Nat /\ ResolveLimits(j).max_size \in Nat
      BY CountsAreNat, LimitsAreNat DEF PoolInv, freeSlots, parkedSlots, usedSlots
<1>2. /\ freeSlots[j] + parkedSlots[j] + usedSlots[j] = Capacity(j)
      /\ parkedSlots[j] <= ResolveLimits(j).max_size
      BY SlotsOf DEF SlotConservation, ReserveIsNotParked
<1>3. CASE Stays
      BY <1>2, <1>3 DEF Stays
<1>4. ASSUME NEW k \in Keys, NEW f \in Int, NEW p \in Int, NEW u \in Int,
             f + p + u = 0,
             p > 0 => parkedSlots[k] + p <= ResolveLimits(k).max_size,
             Moves(k, f, p, u)
      PROVE  /\ freeSlots'[j] + parkedSlots'[j] + usedSlots'[j] = Capacity(j)
             /\ parkedSlots'[j] <= ResolveLimits(j).max_size
  <2>1. CASE j = k
        BY <1>1, <1>2, <1>4, <2>1 DEF Moves
  <2>2. CASE j # k
        BY <1>1, <1>2, <1>4, <2>2 DEF Moves
  <2> QED BY <2>1, <2>2
<1>5. ASSUME NEW k \in Keys,
             \/ Moves(k, -1, 0, 1) \/ Moves(k, 0, -1, 1)
             \/ Moves(k, 1, -1, 0) \/ Moves(k, 1, 0, -1)
             \/ parkedSlots[k] < ResolveLimits(k).max_size /\ Moves(k, 0, 1, -1)
      PROVE  /\ freeSlots'[j] + parkedSlots'[j] + usedSlots'[j] = Capacity(j)
             /\ parkedSlots'[j] <= ResolveLimits(j).max_size
  <2>1. CASE Moves(k, -1, 0, 1)
        BY <1>4, <2>1
  <2>2. CASE Moves(k, 0, -1, 1)
        BY <1>4, <2>2
  <2>3. CASE Moves(k, 1, -1, 0)
        BY <1>4, <2>3
  <2>4. CASE Moves(k, 1, 0, -1)
        BY <1>4, <2>4
  <2>5. CASE parkedSlots[k] < ResolveLimits(k).max_size /\ Moves(k, 0, 1, -1)
    <3>1. parkedSlots[k] \in Nat /\ ResolveLimits(k).max_size \in Nat
          BY CountsAreNat, SlotsOf, LimitsAreNat DEF PoolInv
    <3> QED BY <1>4, <2>5, <3>1
  <2> QED BY <1>5, <2>1, <2>2, <2>3, <2>4, <2>5
<1> QED BY <1>3, <1>5, StepMoves

\* No slot of any pool is ever lost or made up: "exactly one permit".
THEOREM SlotsConserved == Spec => []SlotConservation
PROOF
BY SlotsInit, SlotsNext, PoolInvariant, PTL DEF Spec

\* The reserve never stays around as parked connections.
THEOREM ReserveNotParked == Spec => []ReserveIsNotParked
PROOF
BY SlotsInit, SlotsNext, PoolInvariant, PTL DEF Spec

\* A task queues only while every slot of its pool is parked or owned.
THEOREM QueuedWhenFull == Spec => []QueuedOnlyWhenFull
PROOF
<1>1. PoolInv /\ SlotConservation => QueuedOnlyWhenFull
  <2> SUFFICES ASSUME PoolInv, SlotConservation, NEW k \in Keys, waiters[k] # <<>>
               PROVE  /\ k \in sems
                      /\ parkedSlots[k] + usedSlots[k] = Capacity(k)
      BY DEF QueuedOnlyWhenFull
  <2>1. k \in sems /\ Available(k) = 0
        BY DEF PoolInv, SemsOK, Available
  <2> QED BY <2>1, CountsAreNat, LimitsAreNat, SlotsOf DEF PoolInv, SlotConservation
<1> QED BY <1>1, PoolInvariant, SlotsConserved, PTL

\* acquire hands out a parked connection only if it is neither too old nor
\* parked too long at that moment.
THEOREM FreshHandedOut == Spec => HandsOutFresh
PROOF
<1>1. ASSUME PoolInv, [Next]_vars
      PROVE  [\A t \in Tasks :
                st[t] = "scan" /\ st'[t] = "holding" =>
                  \E i \in DOMAIN idle[key[t]] :
                      LET ic == idle[key[t]][i]
                      IN  /\ ic.born = conn'[t].born
                          /\ now - ic.parked < IdleTimeout
                          /\ now - ic.born < ServerLifetime]_vars
  <2> SUFFICES ASSUME Next, NEW t \in Tasks, st[t] = "scan", st'[t] = "holding"
               PROVE  \E i \in DOMAIN idle[key[t]] :
                          LET ic == idle[key[t]][i]
                          IN  /\ ic.born = conn'[t].born
                              /\ now - ic.parked < IdleTimeout
                              /\ now - ic.born < ServerLifetime
      BY <1>1
  <2>1. st \in [Tasks -> States] /\ conn \in [Tasks -> Conns \union {NoConn}]
        BY <1>1 DEF PoolInv, TypeOK
  <2>2. key[t] \in Keys /\ idle[key[t]] \in Seq(IdleConns)
        BY <1>1 DEF PoolInv, TasksOK, TypeOK
  <2>3. CASE ScanHit(t)
    <3>1. PICK i \in DOMAIN idle[key[t]] : Popped(idle[key[t]]) = idle[key[t]][i]
          BY <2>2, <2>3, PopShortens DEF ScanHit
    <3>2. idle[key[t]][i] \in IdleConns
          BY <2>2, <3>1, LenProperties, ElementOfSeq
    <3>3. conn'[t].born = idle[key[t]][i].born
          BY <2>1, <2>3, <3>1 DEF ScanHit
    <3>4. /\ now - idle[key[t]][i].parked < IdleTimeout
          /\ now - idle[key[t]][i].born < ServerLifetime
          BY <1>1, <2>3, <3>1, <3>2, PoolAssumption
          DEF ScanHit, Expired, TooOld, IdleConns, PoolInv, TypeOK
    <3> QED BY <3>3, <3>4
  <2>4. ASSUME NEW w \in Tasks, AddPermit(key[w], w, "out") \/ AddPermit(key[w], w, "scan"),
               key[w] \in Keys, st[w] # "waiting"
        PROVE  FALSE
    <3>1. "out" \in States /\ "scan" \in States
          BY DEF States
    <3>2. CASE AddPermit(key[w], w, "out")
      <4>1. /\ st'[w] = "out"
            /\ w # t /\ st'[t] # st[t] => st[t] = "waiting"
            BY <1>1, <2>4, <3>1, <3>2, AddPermitKeeps
      <4> QED BY <4>1
    <3>3. CASE AddPermit(key[w], w, "scan")
      <4>1. /\ st'[w] = "scan"
            /\ w # t /\ st'[t] # st[t] => st[t] = "waiting"
            BY <1>1, <2>4, <3>1, <3>3, AddPermitKeeps
      <4> QED BY <4>1
    <3> QED BY <2>4, <3>2, <3>3
  <2>5. ScanHit(t)
    <3>1. PICK w \in Tasks : Internal(w) \/ Call(w)
          BY <2>1 DEF Next, Tick, taskVars
    <3>2. key[w] \in Keys \/ st[w] = "out"
          BY <1>1 DEF PoolInv, TasksOK
    <3>3. ~(Cancel(w) \/ ReturnPermit(w) \/ ScanExpired(w))
          BY <2>4, <3>2 DEF Cancel, ReturnPermit, ScanExpired
    <3>4. ~(\E k \in Keys : Acquire(w, k)) /\ ~CreateOk(w) /\ ~StartCreate(w)
          /\ ~(\E stream \in Streams : Release(w, stream))
          BY <2>1 DEF Acquire, CreateOk, StartCreate, Release, Move
    <3>5. ~(InsertSemaphore(w) \/ ScanEmpty(w) \/ TakePermit(w) \/ Enqueue(w) \/ Park(w))
          BY <2>1 DEF InsertSemaphore, ScanEmpty, TakePermit, Enqueue, Park, Move
    <3>6. ScanHit(w)
          BY <3>1, <3>3, <3>4, <3>5 DEF Internal, Call, Scan
    <3> QED BY <2>1, <3>6 DEF ScanHit, Move
  <2> QED BY <2>3, <2>5
<1> QED BY <1>1, PoolInvariant, PTL DEF Spec, HandsOutFresh

-----------------------------------------------------------------------------
(* PoolManager implements SlotLedger *)

LEMMA LedgerInit == Init => Ledger!Init
PROOF
<1> SUFFICES ASSUME Init PROVE Ledger!Init
    OBVIOUS
<1>1. \A k \in Keys : Available(k) = Capacity(k) /\ Len(idle[k]) = 0
      BY DEF Init, Available
<1>2. \A k \in Keys : Owners(k) = {}
      BY DEF Init, Owners, Owning
<1>3. \A k \in Keys : Cardinality(Owners(k)) = 0
      BY <1>2, FS_EmptySet
<1> QED BY <1>1, <1>3 DEF Ledger!Init, freeSlots, parkedSlots, usedSlots

LEMMA LedgerNext == PoolInv /\ [Next]_vars => [Ledger!Next]_(Ledger!ledger)
PROOF
<1> SUFFICES ASSUME PoolInv, [Next]_vars
             PROVE  Ledger!Next \/ UNCHANGED Ledger!ledger
    OBVIOUS
<1>1. CASE Stays
      BY <1>1 DEF Stays, Ledger!ledger
<1>2. ASSUME NEW k \in Keys
      PROVE  /\ freeSlots[k] \in Nat /\ parkedSlots[k] \in Nat /\ usedSlots[k] \in Nat
             /\ freeSlots = [freeSlots EXCEPT ![k] = @ + 0]
             /\ parkedSlots = [parkedSlots EXCEPT ![k] = @ + 0]
             /\ usedSlots = [usedSlots EXCEPT ![k] = @ + 0]
  <2>1. freeSlots[k] \in Nat /\ parkedSlots[k] \in Nat /\ usedSlots[k] \in Nat
        BY CountsAreNat, SlotsOf DEF PoolInv
  <2>2. /\ freeSlots[k] + 0 = freeSlots[k] /\ parkedSlots[k] + 0 = parkedSlots[k]
        /\ usedSlots[k] + 0 = usedSlots[k]
        BY <2>1
  <2>3. /\ freeSlots = [j \in Keys |-> freeSlots[j]]
        /\ parkedSlots = [j \in Keys |-> parkedSlots[j]]
        /\ usedSlots = [j \in Keys |-> usedSlots[j]]
        BY DEF freeSlots, parkedSlots, usedSlots
  <2> QED BY <2>1, <2>2, <2>3
<1>3. ASSUME NEW k \in Keys, freeSlots[k] > 0, Moves(k, -1, 0, 1) PROVE Ledger!Claim(k)
      BY <1>2, <1>3 DEF Moves, Ledger!Claim
<1>4. ASSUME NEW k \in Keys, parkedSlots[k] > 0, Moves(k, 0, -1, 1) PROVE Ledger!Reclaim(k)
      BY <1>2, <1>4 DEF Moves, Ledger!Reclaim
<1>5. ASSUME NEW k \in Keys, usedSlots[k] > 0,
             parkedSlots[k] < ResolveLimits(k).max_size, Moves(k, 0, 1, -1)
      PROVE  Ledger!Park(k)
      BY <1>2, <1>5 DEF Moves, Ledger!Park
<1>6. ASSUME NEW k \in Keys, parkedSlots[k] > 0, Moves(k, 1, -1, 0) PROVE Ledger!Evict(k)
      BY <1>2, <1>6 DEF Moves, Ledger!Evict
<1>7. ASSUME NEW k \in Keys, usedSlots[k] > 0, Moves(k, 1, 0, -1) PROVE Ledger!Free(k)
      BY <1>2, <1>7 DEF Moves, Ledger!Free
<1> QED BY <1>1, <1>3, <1>4, <1>5, <1>6, <1>7, StepMoves DEF Ledger!Next

\* The pools implement SlotLedger: every step is one of its five moves, or
\* changes no count.
THEOREM ImplementsLedger == Spec => LedgerSpec
PROOF
BY LedgerInit, LedgerNext, PoolInvariant, PTL DEF Spec, LedgerSpec, Ledger!Spec

-----------------------------------------------------------------------------
(* Looking at a pool from outside, for the modules that extend PoolManager *)

\* get_or_create_semaphore by itself neither disturbs a pool nor moves a slot.
LEMMA LookUpKeeps ==
    ASSUME PoolInv, NEW k \in Keys,
           sems' = sems \union {k},
           permits' = [permits EXCEPT ![k] = Available(k)],
           UNCHANGED <<now, waiters, pools, idle, lock, st, key, conn>>
    PROVE  PoolInv' /\ Stays
PROOF
<1> USE DEF PoolInv
<1>1. Available(k) \in Nat
      BY AvailableIsNat
<1>2. TypeOK'
      BY <1>1 DEF TypeOK
<1>3. QueuesOK' /\ TasksOK'
      BY QueuesStay DEF TasksOK
<1>4. SemsOK'
      BY DEF SemsOK, Available, TypeOK
<1>5. \A j \in Keys : Available(j)' = Available(j)
      BY DEF Available, TypeOK, Capacity, ResolveLimits
<1>6. \A j \in Keys : Cardinality(Owners(j))' = Cardinality(Owners(j))
      BY OwnersSame
<1>7. Stays
      BY <1>5, <1>6, StaysIntro
<1> QED BY <1>2, <1>3, <1>4, <1>7

-----------------------------------------------------------------------------
(* PoolStats.  The tasks' steps are PoolManager's and the readers' look-ups *)
(* move no slot, so that PoolInv and SlotConservation hold beside readers   *)
(* too; what a report contains then follows from the slots adding up.       *)

\* The books of the pool.
BooksInv == PoolInv /\ SlotConservation /\ ReserveIsNotParked

\* saturating_sub: not below 0, and exact where nothing is hidden.
LEMMA Saturates ==
    ASSUME NEW x \in Int
    PROVE  /\ Max({x, 0}) \in Nat
           /\ x >= 0 => Max({x, 0}) = x
PROOF
<1> DEFINE m == IF x >= 0 THEN x ELSE 0
<1>1. m \in {x, 0} /\ \A y \in {x, 0} : m >= y
      OBVIOUS
<1>2. \A n \in {x, 0} : (\A y \in {x, 0} : n >= y) => n = m
      OBVIOUS
<1>3. Max({x, 0}) \in {x, 0} /\ \A y \in {x, 0} : Max({x, 0}) >= y
      BY <1>1 DEF Max
<1>4. Max({x, 0}) = m
      BY <1>2, <1>3
<1> QED BY <1>4

\* The slots of a pool, as a reader counts them.
LEMMA SlotsAddUp ==
    ASSUME PoolInv, SlotConservation, NEW k \in Keys
    PROVE  /\ Available(k) \in Nat /\ Len(idle[k]) \in Nat /\ Capacity(k) \in Nat
           /\ usedSlots[k] \in Nat
           /\ freeSlots[k] = Available(k) /\ parkedSlots[k] = Len(idle[k])
           /\ Capacity(k) - Available(k) = Len(idle[k]) + usedSlots[k]
PROOF
<1>1. /\ Available(k) \in Nat /\ Len(idle[k]) \in Nat /\ Capacity(k) \in Nat
      /\ Cardinality(Owners(k)) \in Nat
      BY CountsAreNat, LimitsAreNat DEF PoolInv
<1>2. freeSlots[k] + parkedSlots[k] + usedSlots[k] = Capacity(k)
      BY DEF SlotConservation
<1> QED BY <1>1, <1>2, SlotsOf

\* What global_stats adds for an entry is what tasks own of it.
LEMMA ActiveIsUsed ==
    ASSUME PoolInv, SlotConservation, NEW k \in Keys
    PROVE  Active(k) = usedSlots[k]
PROOF
<1> DEFINE free   == Available(k)
           parked == Len(idle[k])
           used   == usedSlots[k]
<1>1. /\ free \in Nat /\ parked \in Nat /\ used \in Nat /\ Capacity(k) \in Nat
      /\ Capacity(k) - free = parked + used
      BY SlotsAddUp
<1>2. Consumed(k) = parked + used
  <2> HIDE DEF free, parked, used
  <2>1. Max({parked + used, 0}) = parked + used
        BY <1>1, Saturates
  <2> QED BY <1>1, <2>1 DEF Consumed, free
<1>3. Active(k) = Max({used, 0})
  <2>1. Consumed(k) - parked = used
        BY <1>1, <1>2
  <2> QED BY <2>1 DEF Active
<1>4. Max({used, 0}) = used
  <2> HIDE DEF used
  <2> QED BY <1>1, Saturates
<1> QED BY <1>3, <1>4

-----------------------------------------------------------------------------
(* The books are kept beside readers *)

LEMMA TaskStepIsNext ==
    ASSUME NEW t \in Tasks, TaskStep(t)
    PROVE  [Next]_vars
PROOF
BY DEF TaskStep, LooksUp, Asks, Joins, Next, Internal, Call

LEMMA BooksStepKept == BooksInv /\ [StatsNext]_statsVars => BooksInv'
PROOF
<1> SUFFICES ASSUME BooksInv, [StatsNext]_statsVars PROVE BooksInv'
    OBVIOUS
<1> USE DEF BooksInv
<1>1. ASSUME [Next]_vars PROVE BooksInv'
      BY <1>1, PoolInvNext, SlotsNext
<1>2. CASE UNCHANGED statsVars
      BY <1>1, <1>2 DEF statsVars
<1>3. CASE Tick /\ UNCHANGED <<readVars, line>>
      BY <1>1, <1>3 DEF Next
<1>4. ASSUME NEW t \in Tasks, TaskStep(t) PROVE BooksInv'
      BY <1>1, <1>4, TaskStepIsNext
<1>5. ASSUME NEW r \in Readers, NEW k \in Keys, StatsInsert(r, k) PROVE BooksInv'
  <2>1. PoolInv' /\ Stays
        BY <1>5, LookUpKeeps DEF StatsInsert, idleVars, taskVars
  <2>2. ASSUME NEW j \in Keys
        PROVE  /\ freeSlots'[j] + parkedSlots'[j] + usedSlots'[j] = Capacity(j)
               /\ Len(idle[j])' <= ResolveLimits(j).max_size
        BY <1>5, <2>1 DEF Stays, SlotConservation, ReserveIsNotParked, StatsInsert, idleVars
  <2> QED BY <2>1, <2>2 DEF SlotConservation, ReserveIsNotParked, Capacity, ResolveLimits
<1>6. ASSUME NEW r \in Readers, Reading(r) \/ Ask(r) \/ AsksForReport(r) PROVE BooksInv'
  <2>1. UNCHANGED vars \/ \E k \in Keys : StatsInsert(r, k)
        BY <1>6 DEF Reading, Ask, AsksForReport, Joins, GlobalStart, StatsPermits, StatsReturn,
                    GlobalVisit, GlobalLock, GlobalReturn
  <2> QED BY <1>1, <1>5, <2>1
<1> QED BY <1>2, <1>3, <1>4, <1>6 DEF StatsNext

\* The books of PoolProofs are kept while reports are read.
LEMMA BooksKept == StatsSpec => []BooksInv
PROOF
<1>1. StatsInit => BooksInv
      BY PoolInvInit, SlotsInit DEF StatsInit, BooksInv
<1> QED BY <1>1, BooksStepKept, PTL DEF StatsSpec

-----------------------------------------------------------------------------
(* The locks *)

\* Whoever visits the entries has the mutex, and no task has.
StatsInv ==
    /\ rpc \in [Readers -> ReaderStates]
    /\ todo \in [Readers -> SUBSET Keys]
    /\ report \in [Readers -> [idle : Nat, active : Nat]]
    /\ reader \in Readers \union {NoReader}
    /\ \A r \in Readers : rpc[r] = "pools" <=> reader = r
    /\ reader # NoReader => lock = NoTask

\* A task that neither scans nor parks leaves the mutex alone, and one that
\* does finds it with no reader.
LEMMA TaskKeepsLocks ==
    ASSUME StatsInv, NEW t \in Tasks, TaskStep(t)
    PROVE  StatsInv'
PROOF
<1>1. reader # NoReader => lock' = lock
      BY DEF TaskStep, LooksUp, Asks, Joins, InsertSemaphore, TakePermit, Enqueue,
             ReturnPermit, Acquire, StartCreate, CreateOk, Cancel, Release, idleVars, vars
<1>2. UNCHANGED readVars
      BY DEF TaskStep, Asks, Joins
<1> QED BY <1>1, <1>2 DEF readVars, StatsInv

LEMMA StatsNextKeeps == BooksInv /\ StatsInv /\ [StatsNext]_statsVars => StatsInv'
PROOF
<1> SUFFICES ASSUME BooksInv, StatsInv, [StatsNext]_statsVars PROVE StatsInv'
    OBVIOUS
<1> USE StatsAssumption DEF ReaderStates
<1>1. ASSUME NEW k \in Keys
      PROVE  /\ Available(k) \in Nat /\ Len(idle[k]) \in Nat /\ Capacity(k) \in Nat
             /\ Active(k) \in Nat
      BY <1>1, SlotsAddUp, ActiveIsUsed DEF BooksInv
<1>2. CASE UNCHANGED statsVars
      BY <1>2 DEF statsVars, readVars, vars, idleVars, StatsInv
<1>3. CASE Tick /\ UNCHANGED <<readVars, line>>
      BY <1>3 DEF Tick, readVars, idleVars, StatsInv
<1>4. ASSUME NEW t \in Tasks, TaskStep(t) PROVE StatsInv'
      BY <1>4, TaskKeepsLocks
<1>5. ASSUME NEW r \in Readers, NEW k \in Keys, StatsPermits(r, k) PROVE StatsInv'
      BY <1>1, <1>5 DEF StatsPermits, ToState, vars, idleVars, StatsInv
<1>6. ASSUME NEW r \in Readers, NEW k \in Keys, StatsInsert(r, k) \/ StatsReturn(r, k)
      PROVE  StatsInv'
      BY <1>6 DEF StatsInsert, StatsReturn, ToState, vars, idleVars, StatsInv
<1>7. ASSUME NEW r \in Readers, GlobalStart(r) PROVE StatsInv'
      BY <1>7 DEF GlobalStart, ToState, vars, idleVars, StatsInv
<1>8. ASSUME NEW r \in Readers, GlobalLock(r) PROVE StatsInv'
  <2>1. pools \subseteq Keys
        BY DEF BooksInv, PoolInv, TypeOK
  <2> QED BY <1>8, <2>1 DEF GlobalLock, MutexFree, ToState, vars, idleVars, StatsInv
<1>9. ASSUME NEW r \in Readers, NEW k \in Keys, GlobalVisit(r, k) PROVE StatsInv'
  <2>1. /\ Len(idle[k]) \in Nat /\ Active(k) \in Nat
        /\ report[r] \in [idle : Nat, active : Nat]
        BY <1>1 DEF StatsInv
  <2> DEFINE added == [idle   |-> report[r].idle + Len(idle[k]),
                       active |-> report[r].active + Active(k)]
  <2>2. added \in [idle : Nat, active : Nat]
    <3>1. /\ report[r].idle + Len(idle[k]) \in Nat
          /\ report[r].active + Active(k) \in Nat
      <4>1. report[r].idle \in Nat /\ report[r].active \in Nat
            BY <2>1
      <4>2. \A a, b \in Nat : a + b \in Nat
            OBVIOUS
      <4> QED BY <2>1, <4>1, <4>2, Zenon
    <3> QED BY <3>1
  <2>3. report' = [report EXCEPT ![r] = added]
        BY <1>9 DEF GlobalVisit
  <2>4. report' \in [Readers -> [idle : Nat, active : Nat]]
        BY <2>2, <2>3 DEF StatsInv
  <2> QED BY <1>9, <2>4 DEF GlobalVisit, vars, idleVars, StatsInv
<1>10. ASSUME NEW r \in Readers, GlobalReturn(r) PROVE StatsInv'
       BY <1>10 DEF GlobalReturn, Blank, ToState, vars, idleVars, StatsInv
<1>11. ASSUME NEW r \in Readers, AsksForReport(r) PROVE StatsInv'
       BY <1>11 DEF AsksForReport, Joins, readVars, vars, idleVars, StatsInv
<1> QED BY <1>2, <1>3, <1>4, <1>5, <1>6, <1>7, <1>8, <1>9, <1>10, <1>11
        DEF StatsNext, Reading, Ask

\* Whoever visits the pools has the mutex, and then no task has it.
LEMMA LocksAreKept == StatsSpec => []StatsInv
PROOF
<1>1. StatsInit => StatsInv
      BY StatsAssumption DEF StatsInit, Init, Blank, ReaderStates, StatsInv
<1> QED BY <1>1, BooksKept, StatsNextKeeps, PTL DEF StatsSpec

-----------------------------------------------------------------------------
(* What the reports say *)

\* What a reader has still to visit is touched by its own steps only.
LEMMA ToVisit ==
    ASSUME StatsInv, [StatsNext]_statsVars, NEW r \in Readers, NEW k \in Keys,
           rpc[r] = "pools", k \in todo[r] \ todo'[r]
    PROVE  GlobalVisit(r, k)
PROOF
<1> USE DEF StatsInv
<1>1. ~UNCHANGED readVars
      BY DEF readVars
<1>2. PICK s \in Readers : Reading(s) \/ Ask(s)
      BY <1>1 DEF StatsNext, statsVars, TaskStep, Asks, AsksForReport, Joins
<1>3. s = r
      BY <1>2 DEF Reading, Ask, StatsInsert, StatsReturn, GlobalVisit, GlobalLock, GlobalReturn,
                  GlobalStart, StatsPermits, ToState
<1>4. PICK j \in Keys : GlobalVisit(r, j)
      BY <1>2, <1>3 DEF Reading, Ask, StatsInsert, StatsReturn, GlobalVisit, GlobalLock,
                        GlobalReturn, GlobalStart, StatsPermits, ToState
<1> QED BY <1>4 DEF GlobalVisit

\* For every entry global_stats visits it adds exactly the slots tasks own, and
\* those parked, at that moment.
THEOREM GlobalIsExact == StatsSpec => GlobalExact
PROOF
<1>1. ASSUME BooksInv, StatsInv, [StatsNext]_statsVars, NEW r \in Readers, NEW k \in Keys,
             rpc[r] = "pools", k \in todo[r] \ todo'[r]
      PROVE  /\ report'[r].active = report[r].active + usedSlots[k]
             /\ report'[r].idle = report[r].idle + parkedSlots[k]
  <2>1. GlobalVisit(r, k)
        BY <1>1, ToVisit
  <2>2. Active(k) = usedSlots[k] /\ Len(idle[k]) = parkedSlots[k]
        BY <1>1, ActiveIsUsed, SlotsAddUp DEF BooksInv
  <2>3. report \in [Readers -> [idle : Nat, active : Nat]]
        BY <1>1 DEF StatsInv
  <2> QED BY <2>1, <2>2, <2>3 DEF GlobalVisit
<1>2. BooksInv /\ StatsInv /\ [StatsNext]_statsVars =>
          [\A r \in Readers : \A k \in Keys :
              rpc[r] = "pools" /\ k \in todo[r] \ todo'[r] =>
                  /\ report'[r].active = report[r].active + usedSlots[k]
                  /\ report'[r].idle = report[r].idle + parkedSlots[k]]_statsVars
      BY <1>1
<1> QED BY <1>2, BooksKept, LocksAreKept, PTL DEF StatsSpec, GlobalExact

=============================================================================
