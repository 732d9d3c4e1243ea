----------------------------- MODULE TokenProofs ------------------------------
(***************************************************************************)
(* Theorems about TokenCache, for any number of handlers and any limits    *)
(* that satisfy TokenAssumption.                                           *)
(*                                                                         *)
(* What has to be bounded is how old a token is when it is stored.  A get  *)
(* stores what it fetched under its lock, at most MaxDelay ago.  The       *)
(* refresher may have to queue: behind fetches that fail, of which there   *)
(* are few, and behind at most one that succeeds, because whoever looks    *)
(* afterwards finds that token fresh and does not fetch.  Waited says so.  *)
(***************************************************************************)
EXTENDS TokenCache, SequenceTheorems, TLAPS

\* n fetches take at most this long.
Long(n) == n * MaxDelay

\* The lock is kept by the handler that fetches, and by no other.
WriterFetches ==
    \A g \in Getters : writer = g <=> st[g] = "fetching"

FetchesAreShort ==
    \A t \in Tasks : since[t] <= now /\ (st[t] = "fetching" => now <= since[t] + MaxDelay)

\* What the refresher has in hand, while it waits for the lock.
Waited ==
    st[Refresher] = "queued" =>
        /\ \E i \in DOMAIN queue : queue[i] = Refresher
        /\ provider = "aws" => since[Refresher] <= fetched
        /\ fetched <= now
        /\ writer = NoTask =>
              \/ now <= since[Refresher] + Long(1 + failures)
              \/ Unexpired /\ now <= since[Refresher] + Long(2 + failures)
        /\ writer # NoTask =>
              since[writer] <= since[Refresher] + Long(1 + failures)

\* A token is served no longer than its provider accepts it.
StoredInTime ==
    cached # NoToken =>
        /\ cached.issued <= now
        /\ provider = "aws" => cached.expires <= cached.issued + Ttl + Long(2 + MaxFailures)

TokenProofInv == TypeOK /\ WriterFetches /\ FetchesAreShort /\ Waited /\ StoredInTime

-----------------------------------------------------------------------------
(* Lemmas *)

LEMMA LongGrows ==
    /\ \A n \in Nat : Long(n) \in Nat /\ Long(n + 1) = Long(n) + MaxDelay
    /\ \A m, n \in Nat : m <= n => Long(m) <= Long(n)
<1>1. MaxDelay \in Nat
  BY TokenAssumption
<1>2. ASSUME NEW n \in Nat PROVE Long(n) \in Nat /\ Long(n + 1) = Long(n) + MaxDelay
  BY <1>1 DEF Long
<1>3. ASSUME NEW m \in Nat, NEW n \in Nat, m <= n PROVE Long(m) <= Long(n)
  <2>1. PICK d \in Nat : n = m + d
    <3>1. n - m \in Nat /\ n = m + (n - m)
      BY <1>3
    <3>2. QED
      BY <3>1
  <2>2. d * MaxDelay \in Nat /\ m * MaxDelay \in Nat
    BY <1>1
  <2>3. n * MaxDelay = m * MaxDelay + d * MaxDelay
    BY <1>1, <2>1
  <2>4. QED
    BY <2>2, <2>3 DEF Long
<1>4. QED
  BY <1>2, <1>3

\* What the assumption on the limits comes to.
LEMMA Limits ==
    /\ MaxDelay \in Nat /\ Ttl \in Nat /\ Ttl > 0 /\ MaxFailures \in Nat
    /\ \A n \in 0..MaxFailures :
          /\ Long(1 + n) \in Nat /\ Long(2 + n) \in Nat
          /\ Long(2 + n) = Long(1 + n) + MaxDelay
          /\ MaxDelay <= Long(1 + n)
          /\ Long(2 + n) <= Long(2 + MaxFailures)
          /\ n + 1 <= MaxFailures => Long(1 + (n + 1)) = Long(2 + n)
    /\ Ttl + Long(2 + MaxFailures) <= Validity /\ 0 < Validity
<1>1. /\ MaxDelay \in Nat /\ Ttl \in Nat /\ Ttl > 0 /\ MaxFailures \in Nat
      /\ Ttl + Long(2 + MaxFailures) <= Validity
  BY TokenAssumption DEF Long
<1>2. Long(1) = MaxDelay
  BY <1>1 DEF Long
<1>3. ASSUME NEW n \in 0..MaxFailures
      PROVE  /\ Long(1 + n) \in Nat /\ Long(2 + n) \in Nat
             /\ Long(2 + n) = Long(1 + n) + MaxDelay
             /\ MaxDelay <= Long(1 + n)
             /\ Long(2 + n) <= Long(2 + MaxFailures)
             /\ n + 1 <= MaxFailures => Long(1 + (n + 1)) = Long(2 + n)
  <2>1. /\ 1 + n \in Nat /\ 2 + n \in Nat /\ 2 + MaxFailures \in Nat
        /\ (1 + n) + 1 = 2 + n /\ 1 + (n + 1) = 2 + n
        /\ 1 <= 1 + n /\ 2 + n <= 2 + MaxFailures
    BY <1>1
  <2>2. Long(1 + n) \in Nat /\ Long((1 + n) + 1) = Long(1 + n) + MaxDelay
    BY <2>1, LongGrows
  <2>3. Long(1) <= Long(1 + n) /\ Long(2 + n) <= Long(2 + MaxFailures)
    BY <2>1, LongGrows
  <2>4. Long(2 + n) \in Nat
    BY <2>1, LongGrows
  <2>5. QED
    BY <1>2, <2>1, <2>2, <2>3, <2>4
<1>4. 0 < Validity
  <2>1. MaxFailures \in 0..MaxFailures /\ Validity \in Nat
    BY <1>1, TokenAssumption
  <2>2. Long(2 + MaxFailures) \in Nat
    BY <1>3, <2>1
  <2>3. QED
    BY <1>1, <2>1, <2>2
<1>5. QED
  BY <1>1, <1>3, <1>4

\* The head of a queue leaves it, and all others stay.
LEMMA OthersStayQueued ==
    ASSUME queue \in Seq(Tasks), queue # <<>>, NEW t \in Tasks, Head(queue) # t,
           \E i \in DOMAIN queue : queue[i] = t
    PROVE  \E i \in DOMAIN Tail(queue) : Tail(queue)[i] = t
<1>1. Len(queue) \in Nat /\ Len(queue) > 0 /\ DOMAIN queue = 1..Len(queue)
  BY EmptySeq, LenProperties
<1>2. PICK i \in 1..Len(queue) : queue[i] = t
  BY <1>1
<1>3. /\ Tail(queue) \in Seq(Tasks) /\ Len(Tail(queue)) = Len(queue) - 1
      /\ \A j \in 1..Len(Tail(queue)) : Tail(queue)[j] = queue[j + 1]
      /\ Head(queue) = queue[1]
  BY HeadTailProperties
<1>4. DOMAIN Tail(queue) = 1..(Len(queue) - 1)
  BY <1>3, LenProperties
<1>5. i # 1
  BY <1>2, <1>3
<1>6. i - 1 \in 1..(Len(queue) - 1) /\ (i - 1) + 1 = i
  BY <1>1, <1>2, <1>5
<1>7. Tail(queue)[i - 1] = t
  BY <1>2, <1>3, <1>6
<1>8. QED
  BY <1>4, <1>6, <1>7

LEMMA OneMore ==
    ASSUME queue \in Seq(Tasks), NEW t \in Tasks
    PROVE  /\ Append(queue, t) \in Seq(Tasks)
           /\ \E i \in DOMAIN Append(queue, t) : Append(queue, t)[i] = t
           /\ \A u \in Tasks : (\E i \in DOMAIN queue : queue[i] = u) =>
                  \E i \in DOMAIN Append(queue, t) : Append(queue, t)[i] = u
<1>1. Len(queue) \in Nat /\ DOMAIN queue = 1..Len(queue)
  BY LenProperties
<1>2. /\ Append(queue, t) \in Seq(Tasks)
      /\ Len(Append(queue, t)) = Len(queue) + 1
      /\ \A i \in 1..Len(queue) : Append(queue, t)[i] = queue[i]
      /\ Append(queue, t)[Len(queue) + 1] = t
  BY AppendProperties
<1>3. DOMAIN Append(queue, t) = 1..(Len(queue) + 1)
  BY <1>2, LenProperties
<1>4. QED
  BY <1>1, <1>2, <1>3

-----------------------------------------------------------------------------
(* Steps *)

LEMMA TokenStart == Init => TokenProofInv
<1> SUFFICES ASSUME Init PROVE TokenProofInv
  OBVIOUS
<1>1. TypeOK
  BY TokenAssumption, EmptySeq DEF Init, TypeOK, States
<1>2. WriterFetches /\ FetchesAreShort
  BY TokenAssumption DEF Init, WriterFetches, FetchesAreShort, Tasks
<1>3. Waited /\ StoredInTime
  BY DEF Init, Waited, StoredInTime, Tasks
<1>4. QED
  BY <1>1, <1>2, <1>3 DEF TokenProofInv

\* What is stored in time is served in time.
LEMMA CachedIsValid ==
    ASSUME TypeOK, StoredInTime
    PROVE  ServedWhileValid
<1>1. SUFFICES ASSUME provider = "aws", Unexpired
               PROVE  now - cached.issued < Validity
  BY DEF ServedWhileValid
<1>2. /\ cached.issued \in 0..MaxTime /\ cached.expires \in Nat
      /\ now \in 0..MaxTime /\ MaxTime \in Nat /\ Validity \in Int
  <2>1. cached \in Tokens /\ now \in 0..MaxTime
    BY <1>1 DEF Unexpired, TypeOK
  <2>2. MaxTime \in Nat /\ Validity \in Int
    BY TokenAssumption
  <2>3. QED
    BY <2>1, <2>2 DEF Tokens
<1>3. /\ cached.issued <= now /\ now < cached.expires
      /\ cached.expires <= cached.issued + Ttl + Long(2 + MaxFailures)
  BY <1>1 DEF Unexpired, StoredInTime
<1>4. /\ Ttl + Long(2 + MaxFailures) <= Validity /\ Ttl \in Nat
      /\ Long(2 + MaxFailures) \in Nat
  BY Limits
<1>5. QED
  BY <1>2, <1>3, <1>4

\* What a task has fetched is of the time of its fetch, if it is AWS's.
LEMMA FetchedIsValid ==
    ASSUME TypeOK, FetchesAreShort, NEW t \in Tasks, st[t] = "fetching",
           NEW issued \in IssueTimes(t)
    PROVE  /\ issued \in 0..MaxTime /\ issued <= now
           /\ provider = "aws" =>
                 /\ since[t] <= issued
                 /\ now + Ttl <= issued + Ttl + Long(2 + MaxFailures)
<1>1. now \in 0..MaxTime /\ since[t] \in 0..MaxTime /\ MaxTime \in Nat /\ Validity \in Nat
  BY TokenAssumption DEF TypeOK
<1>2. issued \in Nat /\ (provider = "aws" => since[t] <= issued) /\ issued <= now
  BY <1>1 DEF IssueTimes
<1>3. now <= since[t] + MaxDelay
  BY DEF FetchesAreShort
<1>4. /\ MaxDelay \in Nat /\ Ttl \in Nat /\ Ttl > 0
      /\ Long(2 + MaxFailures) \in Nat /\ MaxDelay <= Long(2 + MaxFailures)
      /\ Ttl + Long(2 + MaxFailures) <= Validity
  <2>1. 0 \in 0..MaxFailures /\ MaxFailures \in 0..MaxFailures
    BY Limits
  <2>2. /\ Long(1 + MaxFailures) \in Nat /\ Long(2 + MaxFailures) \in Nat
        /\ Long(2 + MaxFailures) = Long(1 + MaxFailures) + MaxDelay
    BY <2>1, Limits
  <2>3. QED
    BY <2>2, Limits
<1>5. QED
  BY <1>1, <1>2, <1>3, <1>4

\* A step that neither the lock nor the clock nor the refresher notices.
LEMMA Unnoticed ==
    ASSUME TokenProofInv,
           UNCHANGED <<provider, now, cached, writer, since, fetched, failures>>,
           NEW g \in Getters, NEW next \in {"out", "looking", "missed", "queued"},
           Move(g, next), st[g] # "fetching",
           queue' \in Seq(Tasks),
           (\E i \in DOMAIN queue : queue[i] = Refresher) =>
               \E i \in DOMAIN queue' : queue'[i] = Refresher
    PROVE  TokenProofInv'
<1>1. /\ st' = [st EXCEPT ![g] = next] /\ st \in [Tasks -> States]
      /\ g \in Tasks /\ g # Refresher /\ next \in States /\ next # "fetching"
  BY TokenAssumption DEF Move, TokenProofInv, TypeOK, Tasks, States
<1>2. TypeOK'
  BY <1>1 DEF TokenProofInv, TypeOK
<1>3. WriterFetches'
  BY <1>1 DEF TokenProofInv, WriterFetches, Tasks
<1>4. FetchesAreShort'
  BY <1>1 DEF TokenProofInv, FetchesAreShort
<1>5. Waited'
  <2>1. Refresher \in Tasks
    BY DEF Tasks
  <2>2. st'[Refresher] = st[Refresher]
    BY <1>1, <2>1
  <2>3. QED
    BY <2>2 DEF TokenProofInv, Waited, Unexpired
<1>6. StoredInTime'
  BY DEF TokenProofInv, StoredInTime
<1>7. QED
  BY <1>2, <1>3, <1>4, <1>5, <1>6 DEF TokenProofInv

LEMMA LooksKeep ==
    ASSUME TokenProofInv, NEW g \in Getters,
           \/ Get(g) \/ GetHit(g) \/ GetMiss(g) \/ GetUpgrade(g) \/ RecheckHit(g)
    PROVE  TokenProofInv'
<1>1. /\ queue \in Seq(Tasks) /\ g \in Tasks /\ g # Refresher /\ Refresher \in Tasks
  BY TokenAssumption DEF TokenProofInv, TypeOK, Tasks
<1>2. UNCHANGED <<provider, now, cached, writer, since, fetched, failures>>
  BY DEF Get, GetHit, GetMiss, GetUpgrade, RecheckHit
<1>3. CASE Get(g) \/ GetUpgrade(g)
  <2>1. /\ queue' = Append(queue, g) /\ st[g] # "fetching"
        /\ Move(g, "looking") \/ Move(g, "queued")
    BY <1>3 DEF Get, GetUpgrade, Queue
  <2>2. /\ queue' \in Seq(Tasks)
        /\ (\E i \in DOMAIN queue : queue[i] = Refresher) =>
               \E i \in DOMAIN queue' : queue'[i] = Refresher
    BY <1>1, <2>1, OneMore
  <2>3. QED
    BY <1>2, <2>1, <2>2, Unnoticed
<1>4. CASE GetHit(g) \/ GetMiss(g) \/ RecheckHit(g)
  <2>1. /\ queue # <<>> /\ Head(queue) = g /\ queue' = Tail(queue) /\ st[g] # "fetching"
        /\ Move(g, "out") \/ Move(g, "missed")
    BY <1>4 DEF GetHit, GetMiss, RecheckHit, Granted
  <2>2. queue' \in Seq(Tasks)
    BY <1>1, <2>1, HeadTailProperties
  <2>3. (\E i \in DOMAIN queue : queue[i] = Refresher) =>
            \E i \in DOMAIN queue' : queue'[i] = Refresher
    BY <1>1, <2>1, OthersStayQueued
  <2>4. QED
    BY <1>2, <2>1, <2>2, <2>3, Unnoticed
<1>5. QED
  BY <1>3, <1>4

\* A handler that did not find a token under the write lock fetches one.
LEMMA RecheckMissKeeps ==
    ASSUME TokenProofInv, NEW g \in Getters, RecheckMiss(g)
    PROVE  TokenProofInv'
<1>1. /\ TypeOK /\ queue \in Seq(Tasks) /\ g \in Tasks /\ g # Refresher
      /\ Refresher \in Tasks /\ now \in 0..MaxTime /\ NoTask \notin Getters
      /\ st \in [Tasks -> States] /\ since \in [Tasks -> 0..MaxTime]
      /\ MaxDelay \in Nat /\ MaxTime \in Nat
  BY TokenAssumption DEF TokenProofInv, TypeOK, Tasks
<1>2. /\ st[g] = "queued" /\ writer = NoTask /\ queue # <<>> /\ Head(queue) = g /\ ~Unexpired
      /\ st' = [st EXCEPT ![g] = "fetching"] /\ since' = [since EXCEPT ![g] = now]
      /\ writer' = g /\ queue' = Tail(queue)
      /\ UNCHANGED <<provider, now, cached, fetched, failures>>
  BY DEF RecheckMiss, Granted, BeginFetch, Move
<1>3. TypeOK'
  <2>1. Tail(queue) \in Seq(Tasks)
    BY <1>1, <1>2, HeadTailProperties
  <2>2. QED
    BY <1>1, <1>2, <2>1 DEF TypeOK, States
<1>4. WriterFetches'
  BY <1>1, <1>2 DEF TokenProofInv, WriterFetches, Tasks
<1>5. FetchesAreShort'
  BY <1>1, <1>2 DEF TokenProofInv, FetchesAreShort
<1>6. Waited'
  <2>1. SUFFICES ASSUME st'[Refresher] = "queued" PROVE Waited'
    BY DEF Waited
  <2>2. st[Refresher] = "queued" /\ since'[Refresher] = since[Refresher]
    BY <1>1, <1>2, <2>1
  <2>3. /\ \E i \in DOMAIN queue : queue[i] = Refresher
        /\ provider = "aws" => since[Refresher] <= fetched
        /\ fetched <= now
        /\ now <= since[Refresher] + Long(1 + failures)
    BY <1>2, <2>2 DEF TokenProofInv, Waited
  <2>4. \E i \in DOMAIN queue' : queue'[i] = Refresher
    BY <1>1, <1>2, <2>3, OthersStayQueued
  <2>5. since'[writer'] = now
    BY <1>1, <1>2
  <2>6. QED
    BY <1>1, <1>2, <2>2, <2>3, <2>4, <2>5 DEF Waited
<1>7. StoredInTime'
  BY <1>2 DEF TokenProofInv, StoredInTime
<1>8. QED
  BY <1>3, <1>4, <1>5, <1>6, <1>7 DEF TokenProofInv

\* Its fetch succeeds: the refresher, should it wait, finds the token fresh.
LEMMA GetFetchedKeeps ==
    ASSUME TokenProofInv, NEW g \in Getters, GetFetched(g)
    PROVE  TokenProofInv'
<1>1. /\ TypeOK /\ FetchesAreShort /\ queue \in Seq(Tasks) /\ g \in Tasks
      /\ g # Refresher /\ Refresher \in Tasks /\ now \in 0..MaxTime /\ NoTask \notin Getters
      /\ st \in [Tasks -> States] /\ since \in [Tasks -> 0..MaxTime]
      /\ failures \in 0..MaxFailures /\ fetched \in 0..MaxTime
      /\ MaxTime \in Nat /\ Ttl \in Nat /\ Ttl > 0 /\ MaxDelay \in Nat
  BY TokenAssumption DEF TokenProofInv, TypeOK, Tasks
<1>2. PICK issued \in IssueTimes(g) :
          cached' = [issued |-> issued, expires |-> now + Ttl]
  BY DEF GetFetched, Store
<1>3. /\ st[g] = "fetching" /\ st' = [st EXCEPT ![g] = "out"] /\ writer' = NoTask
      /\ since' = [since EXCEPT ![g] = 0]
      /\ UNCHANGED <<provider, now, queue, fetched, failures>>
  BY DEF GetFetched, EndFetch, Move
<1>4. /\ issued \in 0..MaxTime /\ issued <= now
      /\ provider = "aws" => now + Ttl <= issued + Ttl + Long(2 + MaxFailures)
  BY <1>1, <1>3, FetchedIsValid
<1>5. cached' \in Tokens
  BY <1>1, <1>2, <1>4 DEF Tokens
<1>6. TypeOK'
  BY <1>1, <1>2, <1>3, <1>4, <1>5 DEF TypeOK, States
<1>7. writer = g
  BY <1>3 DEF TokenProofInv, WriterFetches
<1>8. WriterFetches'
  BY <1>1, <1>3, <1>7 DEF TokenProofInv, WriterFetches, Tasks
<1>9. FetchesAreShort'
  BY <1>1, <1>3 DEF FetchesAreShort
<1>10. Waited'
  <2>1. SUFFICES ASSUME st'[Refresher] = "queued" PROVE Waited'
    BY DEF Waited
  <2>2. st[Refresher] = "queued"
    BY <1>1, <1>3, <2>1
  <2>3. /\ \E i \in DOMAIN queue : queue[i] = Refresher
        /\ provider = "aws" => since[Refresher] <= fetched
        /\ fetched <= now
        /\ since[g] <= since[Refresher] + Long(1 + failures)
    BY <1>1, <1>7, <2>2 DEF TokenProofInv, Waited
  <2>4. Unexpired'
    <3>1. cached' # NoToken
      BY <1>1, <1>5, TokenAssumption DEF Tokens
    <3>2. now' < cached'.expires
      BY <1>1, <1>2, <1>3
    <3>3. QED
      BY <3>1, <3>2 DEF Unexpired
  <2>5. now <= since[Refresher] + Long(2 + failures)
    <3>1. now <= since[g] + MaxDelay
      BY <1>1, <1>3 DEF FetchesAreShort
    <3>2. /\ Long(2 + failures) = Long(1 + failures) + MaxDelay
          /\ Long(1 + failures) \in Nat /\ Long(2 + failures) \in Nat
      BY <1>1, Limits
    <3>3. since[g] \in Nat /\ since[Refresher] \in Nat /\ now \in Nat
      BY <1>1
    <3> DEFINE short == Long(1 + failures)
               long  == Long(2 + failures)
               mine  == since[Refresher]
               its   == since[g]
    <3>4. MaxDelay \in Nat
      BY TokenAssumption
    <3>5. short \in Nat /\ long = short + MaxDelay /\ mine \in Nat /\ its \in Nat
          /\ now <= its + MaxDelay /\ its <= mine + short
      BY <2>3, <3>1, <3>2, <3>3
    <3>6. SUFFICES now <= mine + long
      OBVIOUS
    <3> HIDE DEF short, long, mine, its
    <3>7. QED
      BY <3>3, <3>4, <3>5
  <2>6. QED
    BY <1>1, <1>3, <2>2, <2>3, <2>4, <2>5 DEF Waited
<1>11. StoredInTime'
  BY <1>2, <1>3, <1>4 DEF StoredInTime
<1>12. QED
  BY <1>6, <1>8, <1>9, <1>10, <1>11 DEF TokenProofInv

\* Its fetch fails: the refresher has waited for one failure more.
LEMMA GetFailsKeeps ==
    ASSUME TokenProofInv, NEW g \in Getters, GetFails(g)
    PROVE  TokenProofInv'
<1>1. /\ TypeOK /\ FetchesAreShort /\ g \in Tasks
      /\ g # Refresher /\ Refresher \in Tasks /\ now \in 0..MaxTime /\ NoTask \notin Getters
      /\ st \in [Tasks -> States] /\ since \in [Tasks -> 0..MaxTime]
      /\ failures \in 0..MaxFailures
      /\ MaxTime \in Nat /\ MaxFailures \in Nat /\ MaxDelay \in Nat
  BY TokenAssumption DEF TokenProofInv, TypeOK, Tasks
<1>2. /\ st[g] = "fetching" /\ st' = [st EXCEPT ![g] = "out"] /\ writer' = NoTask
      /\ since' = [since EXCEPT ![g] = 0]
      /\ failures < MaxFailures /\ failures' = failures + 1
      /\ UNCHANGED <<provider, now, cached, queue, fetched>>
  BY DEF GetFails, EndFetch, Move
<1>3. TypeOK'
  BY <1>1, <1>2 DEF TypeOK, States
<1>4. writer = g
  BY <1>2 DEF TokenProofInv, WriterFetches
<1>5. WriterFetches'
  BY <1>1, <1>2, <1>4 DEF TokenProofInv, WriterFetches, Tasks
<1>6. FetchesAreShort'
  BY <1>1, <1>2 DEF FetchesAreShort
<1>7. Waited'
  <2>1. SUFFICES ASSUME st'[Refresher] = "queued" PROVE Waited'
    BY DEF Waited
  <2>2. st[Refresher] = "queued"
    BY <1>1, <1>2, <2>1
  <2>3. /\ \E i \in DOMAIN queue : queue[i] = Refresher
        /\ provider = "aws" => since[Refresher] <= fetched
        /\ fetched <= now
        /\ since[g] <= since[Refresher] + Long(1 + failures)
    BY <1>1, <1>4, <2>2 DEF TokenProofInv, Waited
  <2>4. now <= since[Refresher] + Long(1 + failures')
    <3>1. now <= since[g] + MaxDelay
      BY <1>1, <1>2 DEF FetchesAreShort
    <3>2. /\ Long(2 + failures) = Long(1 + failures) + MaxDelay
          /\ Long(1 + failures) \in Nat /\ Long(2 + failures) \in Nat
          /\ Long(1 + failures') = Long(2 + failures)
      BY <1>1, <1>2, Limits
    <3>3. since[g] \in Nat /\ since[Refresher] \in Nat /\ now \in Nat
      BY <1>1
    <3>4. QED
      BY <1>1, <2>3, <3>1, <3>2, <3>3
  <2>5. QED
    BY <1>1, <1>2, <2>3, <2>4 DEF Waited, Long
<1>8. StoredInTime'
  BY <1>2 DEF TokenProofInv, StoredInTime
<1>9. QED
  BY <1>3, <1>5, <1>6, <1>7, <1>8 DEF TokenProofInv

LEMMA TickKeeps ==
    ASSUME TokenProofInv, Tick PROVE TokenProofInv'
<1>1. /\ TypeOK /\ Refresher \in Tasks /\ now \in 0..MaxTime
      /\ since \in [Tasks -> 0..MaxTime] /\ writer \in Getters \union {NoTask}
      /\ failures \in 0..MaxFailures /\ MaxTime \in Nat /\ MaxDelay \in Nat
      /\ queue \in Seq(Tasks) /\ fetched \in 0..MaxTime
  BY TokenAssumption DEF TokenProofInv, TypeOK, Tasks
<1>2. /\ now < MaxTime /\ now' = now + 1
      /\ \A t \in Tasks : st[t] = "fetching" => now - since[t] < MaxDelay
      /\ writer = NoTask => queue = <<>>
      /\ UNCHANGED <<provider, cached, writer, queue, st, since, fetched, failures>>
  BY DEF Tick
<1>3. TypeOK'
  BY <1>1, <1>2 DEF TypeOK
<1>4. WriterFetches'
  BY <1>2 DEF TokenProofInv, WriterFetches
<1>5. FetchesAreShort'
  BY <1>1, <1>2 DEF TokenProofInv, FetchesAreShort
<1>6. Waited'
  <2>1. SUFFICES ASSUME st[Refresher] = "queued" PROVE Waited'
    BY <1>2 DEF Waited
  <2>2. /\ \E i \in DOMAIN queue : queue[i] = Refresher
        /\ provider = "aws" => since[Refresher] <= fetched
        /\ fetched <= now
        /\ writer # NoTask => since[writer] <= since[Refresher] + Long(1 + failures)
    BY <2>1 DEF TokenProofInv, Waited
  <2>3. queue # <<>>
    BY <2>2, EmptySeq, LenProperties
  <2>4. writer # NoTask /\ fetched <= now'
    BY <1>1, <1>2, <2>2, <2>3
  <2>5. QED
    BY <1>2, <2>2, <2>4 DEF Waited, Long
<1>7. StoredInTime'
  BY <1>1, <1>2 DEF TokenProofInv, StoredInTime, TypeOK, Tokens
<1>8. QED
  BY <1>3, <1>4, <1>5, <1>6, <1>7 DEF TokenProofInv

\* The refresher wakes, begins to fetch, goes back to sleep, or queues to store.
LEMMA RefresherMoves ==
    ASSUME TokenProofInv, Wake \/ Check \/ RefreshFetched \/ RefreshFails
    PROVE  TokenProofInv'
<1>1. /\ TypeOK /\ Refresher \in Tasks /\ Refresher \notin Getters /\ now \in 0..MaxTime
      /\ st \in [Tasks -> States] /\ since \in [Tasks -> 0..MaxTime]
      /\ failures \in 0..MaxFailures /\ MaxTime \in Nat /\ MaxDelay \in Nat
      /\ queue \in Seq(Tasks) /\ fetched \in 0..MaxTime /\ MaxFailures \in Nat
      /\ Getters \subseteq Tasks /\ writer \in Getters \union {NoTask}
  BY TokenAssumption DEF TokenProofInv, TypeOK, Tasks
<1>2. UNCHANGED <<provider, now, cached, writer>>
  BY DEF Wake, Check, RefreshFetched, RefreshFails
<1>3. StoredInTime'
  BY <1>2 DEF TokenProofInv, StoredInTime
<1>4. ASSUME NEW next \in States, Move(Refresher, next) PROVE WriterFetches'
  BY <1>1, <1>2, <1>4 DEF TokenProofInv, WriterFetches, Move
<1>5. CASE Wake \/ Check \/ RefreshFails
  <2>1. /\ \/ Move(Refresher, "looking") /\ since' = since
           \/ /\ Move(Refresher, "out") \/ Move(Refresher, "fetching")
              /\ since' = [since EXCEPT ![Refresher] = now]
        /\ failures' \in 0..MaxFailures /\ UNCHANGED fetched
    BY <1>1, <1>5 DEF Wake, Check, RefreshFails, Queue, Sleep, BeginFetch
  <2>2. /\ st' \in [Tasks -> States] /\ st'[Refresher] \in {"out", "looking", "fetching"}
        /\ since' \in [Tasks -> 0..MaxTime]
        /\ \A t \in Tasks : t # Refresher => st'[t] = st[t] /\ since'[t] = since[t]
        /\ since'[Refresher] = since[Refresher] \/ since'[Refresher] = now
        /\ st'[Refresher] = "fetching" => since'[Refresher] = now
    BY <1>1, <2>1 DEF Move, States
  <2>3. TypeOK'
    <3>1. queue' \in Seq(Tasks)
      <4>1. CASE Wake
        BY <1>1, <4>1, OneMore DEF Wake, Queue
      <4>2. CASE Check
        BY <1>1, <4>2, HeadTailProperties DEF Check, Granted
      <4>3. CASE RefreshFails
        BY <1>1, <4>3 DEF RefreshFails
      <4>4. QED
        BY <1>5, <4>1, <4>2, <4>3
    <3>2. QED
      BY <1>1, <1>2, <2>1, <2>2, <3>1 DEF TypeOK
  <2>4. WriterFetches'
    BY <1>4, <2>1 DEF States
  <2>5. FetchesAreShort'
    <3>1. SUFFICES ASSUME NEW t \in Tasks
                   PROVE  /\ since'[t] <= now'
                          /\ st'[t] = "fetching" => now' <= since'[t] + MaxDelay
      BY DEF FetchesAreShort
    <3>2. CASE t = Refresher
      BY <1>1, <1>2, <2>2, <3>2 DEF TokenProofInv, FetchesAreShort
    <3>3. CASE t # Refresher
      <4>1. since'[t] = since[t] /\ st'[t] = st[t]
        BY <2>2, <3>3
      <4>2. QED
        BY <1>2, <4>1 DEF TokenProofInv, FetchesAreShort
    <3>4. QED
      BY <3>2, <3>3
  <2>6. Waited'
    BY <2>2 DEF Waited
  <2>7. QED
    BY <1>3, <2>3, <2>4, <2>5, <2>6 DEF TokenProofInv
<1>6. CASE RefreshFetched
  <2>1. PICK issued \in IssueTimes(Refresher) : fetched' = issued
    BY <1>6 DEF RefreshFetched
  <2>2. /\ st[Refresher] = "fetching" /\ Move(Refresher, "queued")
        /\ queue' = Append(queue, Refresher)
        /\ UNCHANGED <<since, failures>>
    BY <1>6 DEF RefreshFetched, Queue
  <2>3. /\ issued \in 0..MaxTime /\ issued <= now
        /\ provider = "aws" => since[Refresher] <= issued
    BY <1>1, <2>2, FetchedIsValid DEF TokenProofInv
  <2>4. /\ queue' \in Seq(Tasks)
        /\ \E i \in DOMAIN queue' : queue'[i] = Refresher
    BY <1>1, <2>2, OneMore
  <2>5. /\ st' \in [Tasks -> States] /\ st'[Refresher] = "queued"
        /\ \A t \in Tasks : t # Refresher => st'[t] = st[t]
    BY <1>1, <2>2 DEF Move, States
  <2>6. TypeOK'
    BY <1>1, <1>2, <2>1, <2>2, <2>3, <2>4, <2>5 DEF TypeOK
  <2>7. WriterFetches'
    BY <1>4, <2>2 DEF States
  <2>8. FetchesAreShort'
    BY <1>2, <2>2, <2>5 DEF TokenProofInv, FetchesAreShort
  <2>9. Waited'
    <3>1. now <= since[Refresher] + MaxDelay
      BY <1>1, <2>2 DEF TokenProofInv, FetchesAreShort
    <3>2. MaxDelay <= Long(1 + failures) /\ Long(1 + failures) \in Nat
      BY <1>1, Limits
    <3>3. now <= since[Refresher] + Long(1 + failures)
      BY <1>1, <3>1, <3>2
    <3>4. writer # NoTask => since[writer] <= now
      BY <1>1 DEF TokenProofInv, FetchesAreShort
    <3>5. writer # NoTask => since[writer] <= since[Refresher] + Long(1 + failures)
      BY <1>1, <3>2, <3>3, <3>4
    <3>6. QED
      BY <1>2, <2>1, <2>2, <2>3, <2>4, <3>3, <3>5 DEF Waited, Long
  <2>10. QED
    BY <1>3, <2>6, <2>7, <2>8, <2>9 DEF TokenProofInv
<1>7. QED
  BY <1>5, <1>6

\* The refresher stores a token that is as old as Waited allows.
LEMMA RefreshStoreKeeps ==
    ASSUME TokenProofInv, RefreshStore PROVE TokenProofInv'
<1>1. /\ TypeOK /\ Refresher \in Tasks /\ Refresher \notin Getters /\ now \in 0..MaxTime
      /\ st \in [Tasks -> States] /\ since \in [Tasks -> 0..MaxTime]
      /\ failures \in 0..MaxFailures /\ MaxTime \in Nat /\ MaxDelay \in Nat
      /\ queue \in Seq(Tasks) /\ fetched \in 0..MaxTime /\ MaxFailures \in Nat
      /\ Getters \subseteq Tasks /\ Ttl \in Nat
  BY TokenAssumption DEF TokenProofInv, TypeOK, Tasks
<1>2. /\ st[Refresher] = "queued" /\ writer = NoTask /\ queue # <<>>
      /\ cached' = [issued |-> fetched, expires |-> now + Ttl]
      /\ st' = [st EXCEPT ![Refresher] = "out"]
      /\ since' = [since EXCEPT ![Refresher] = now]
      /\ queue' = Tail(queue) /\ fetched' = 0
      /\ UNCHANGED <<provider, now, writer, failures>>
  BY DEF RefreshStore, Granted, Store, Sleep, Move
<1>3. Tail(queue) \in Seq(Tasks)
  BY <1>1, <1>2, HeadTailProperties
<1>4. cached' \in Tokens
  BY <1>1, <1>2 DEF Tokens
<1>5. TypeOK'
  BY <1>1, <1>2, <1>3, <1>4 DEF TypeOK, States
<1>6. WriterFetches'
  BY <1>1, <1>2 DEF TokenProofInv, WriterFetches
<1>7. FetchesAreShort'
  BY <1>1, <1>2 DEF TokenProofInv, FetchesAreShort
<1>8. Waited'
  BY <1>1, <1>2 DEF Waited
<1>9. StoredInTime'
  <2>1. /\ provider = "aws" => since[Refresher] <= fetched
        /\ fetched <= now
        /\ \/ now <= since[Refresher] + Long(1 + failures)
           \/ now <= since[Refresher] + Long(2 + failures)
    BY <1>2 DEF TokenProofInv, Waited
  <2>2. /\ Long(1 + failures) \in Nat /\ Long(2 + failures) \in Nat
        /\ Long(2 + failures) = Long(1 + failures) + MaxDelay
        /\ Long(2 + failures) <= Long(2 + MaxFailures)
    BY <1>1, Limits
  <2>3. Long(2 + MaxFailures) \in Nat
    BY <1>1, Limits
  <2>4. ASSUME provider = "aws" PROVE now <= fetched + Long(2 + MaxFailures)
    <3> DEFINE short == Long(1 + failures)
               long  == Long(2 + failures)
               top   == Long(2 + MaxFailures)
               mine  == since[Refresher]
    <3>1. mine \in Nat /\ fetched \in Nat /\ now \in Nat /\ MaxDelay \in Nat
      BY <1>1, TokenAssumption
    <3>2. /\ short \in Nat /\ long = short + MaxDelay /\ long <= top /\ top \in Nat
          /\ mine <= fetched
          /\ now <= mine + short \/ now <= mine + long
      BY <2>1, <2>2, <2>3, <2>4
    <3>3. SUFFICES now <= fetched + top
      OBVIOUS
    <3> HIDE DEF short, long, top, mine
    <3>4. QED
      BY <3>1, <3>2
  <2>5. provider = "aws" => now + Ttl <= fetched + Ttl + Long(2 + MaxFailures)
    BY <1>1, <2>3, <2>4
  <2>6. QED
    BY <1>2, <2>1, <2>5 DEF StoredInTime
<1>10. QED
  BY <1>5, <1>6, <1>7, <1>8, <1>9 DEF TokenProofInv

LEMMA TokenStep == TokenProofInv /\ [Next]_vars => TokenProofInv'
<1> SUFFICES ASSUME TokenProofInv, [Next]_vars PROVE TokenProofInv'
  OBVIOUS
<1>1. CASE UNCHANGED vars
  BY <1>1 DEF vars, TokenProofInv, TypeOK, WriterFetches, FetchesAreShort, Waited, Unexpired,
              StoredInTime
<1>2. ASSUME NEW g \in Getters, Get(g) \/ GetStep(g)
      PROVE  TokenProofInv'
  BY <1>2, LooksKeep, RecheckMissKeeps, GetFetchedKeeps, GetFailsKeeps DEF GetStep
<1>3. CASE Tick \/ Refresh
  BY <1>3, TickKeeps, RefresherMoves, RefreshStoreKeeps DEF Refresh
<1>4. QED
  BY <1>1, <1>2, <1>3 DEF Next

-----------------------------------------------------------------------------
(* Theorems *)

THEOREM TokenInvariant == Spec => []TokenProofInv
BY TokenStart, TokenStep, PTL DEF Spec

\* Variables keep their types, and no get returns a token that AWS no longer
\* accepts, however many handlers there are and whoever waited for whom.
THEOREM TokensAreValid == Spec => []TokenInv
<1>1. TokenProofInv => TokenInv
  BY CachedIsValid DEF TokenProofInv, TokenInv
<1>2. QED
  BY <1>1, TokenInvariant, PTL

=============================================================================
