----------------------------- MODULE RelayProofs -----------------------------
(***************************************************************************)
(* Theorems about TxnTimers, for every value of the timeouts, and about    *)
(* Frames, for all that the two sides may say in whatever pieces.          *)
(*                                                                         *)
(* TypeOK is inductive with its part LoopOK, which ties the place of the   *)
(* loop to the backend.  TimerRunsOn follows from it, since the loop looks *)
(* at what remains each time it turns.  StepsAreTimed needs that a timer   *)
(* runs whenever the backend is in a transaction (Timed), TimerNotAhead    *)
(* what holds at the places where no select! runs (Behind).                *)
(*                                                                         *)
(* Of the reads, Aligned says that each begins where a message does, and   *)
(* Turned that what can be read has waited for what it answers.            *)
(***************************************************************************)
EXTENDS Relay, SequenceTheorems, TLAPS

\* The handler's in_transaction is true of no backend before it has one, and
\* tx_start is no older than the transaction wherever the loop is.
Behind ==
    /\ inTxn /\ ~server => carried
    /\ server /\ inTxn /\ ~carried => sinceTx <= txAge

\* The loop listens no longer than transaction_timeout after tx_start.
TimerRunsOn ==
    Open /\ server /\ inTxn /\ TxTimeout > 0 => sinceTx <= TxTimeout

\* A transaction has its timer, and whatever sets tx_start begins a statement
\* or a pause.
Timed ==
    /\ server /\ backend.txn # "no" => inTxn
    /\ stepAge <= sinceTx

TimersInv == TypeOK /\ TimerRunsOn /\ Timed /\ Behind

-----------------------------------------------------------------------------

\* An age stays within its bound, and keeps its order with others.
LEMMA OlderFacts ==
    ASSUME NEW a \in 0..MaxAge, NEW b \in 0..MaxAge
    PROVE  /\ Older(a) \in 0..MaxAge
           /\ Older(a) <= a + 1
           /\ a <= b => Older(a) <= Older(b)
BY TimersAssumption DEF Older

\* What a statement leaves of a backend.
LEMMA BackendFacts ==
    /\ Quiet \in Backends
    /\ \A b \in Backends, q \in Statements :
           [b EXCEPT !.runs = q] \in Backends /\ [b EXCEPT !.runs = q] # Quiet
    /\ \A txn \in {"open", "failed"} :
           LET b == [txn |-> txn, runs |-> "nothing"] IN b \in Backends /\ b # Quiet
<1>1. Quiet \in Backends
  BY DEF Quiet, Backends
<1>2. ASSUME NEW b \in Backends, NEW q \in Statements
      PROVE  [b EXCEPT !.runs = q] \in Backends /\ [b EXCEPT !.runs = q] # Quiet
  <2>1. [b EXCEPT !.runs = q].runs = q /\ [b EXCEPT !.runs = q] \in Backends
    BY DEF Backends
  <2>2. Quiet.runs = "nothing" /\ q # "nothing"
    BY DEF Quiet, Statements
  <2>3. QED
    BY <2>1, <2>2
<1>3. ASSUME NEW txn \in {"open", "failed"}
      PROVE  /\ [txn |-> txn, runs |-> "nothing"] \in Backends
             /\ [txn |-> txn, runs |-> "nothing"] # Quiet
  <2>1. [txn |-> txn, runs |-> "nothing"] \in Backends
    BY DEF Backends
  <2>2. [txn |-> txn, runs |-> "nothing"].txn = txn /\ Quiet.txn = "no" /\ txn # "no"
    BY DEF Quiet
  <2>3. QED
    BY <2>1, <2>2
<1>4. QED
  BY <1>1, <1>2, <1>3

\* The loop turns.
LEMMA ArmFacts ==
    Arm => /\ where' = "select" /\ sinceArmed' = 0
           /\ expired' \in BOOLEAN /\ (expired' => TxDue')
<1>1. SUFFICES ASSUME Arm PROVE expired' \in BOOLEAN /\ (expired' => TxDue')
  BY DEF Arm
<1>2. expired' = TxDue'
  BY <1>1, Zenon DEF Arm, TxDue
<1>3. TxDue' \in BOOLEAN
  BY Zenon DEF TxDue, TxSpent
<1>4. QED
  BY <1>2, <1>3, Zenon

\* The loop sees BEGIN, or does not.
LEMMA BeginFacts ==
    ASSUME NEW q, BeginSeen(q), TypeOK
    PROVE  inTxn' \in BOOLEAN /\ carried' \in BOOLEAN /\ sinceTx' \in 0..MaxAge
<1>1. inTxn' \in BOOLEAN /\ carried' \in BOOLEAN
  BY Zenon DEF BeginSeen, TypeOK
<1>2. sinceTx' = 0 \/ sinceTx' = sinceTx
  BY Zenon DEF BeginSeen
<1>3. sinceTx \in 0..MaxAge
  BY DEF TypeOK
<1>4. QED
  BY <1>1, <1>2, <1>3, TimersAssumption

\* TypeOK holds after every step.
LEMMA TypeStep == TypeOK /\ [Next]_vars => TypeOK'
<1> SUFFICES ASSUME TypeOK, [Next]_vars PROVE TypeOK'
  OBVIOUS
<1> USE TimersAssumption DEF TypeOK, LoopOK, Places
<1>1. ASSUME NEW q \in Statements, ClientMsg(q) PROVE TypeOK'
  <2>1. backend' \in Backends /\ backend' # Quiet
    BY <1>1, BackendFacts DEF ClientMsg, Runs
  <2>2. txAge' \in 0..MaxAge /\ stepAge' \in 0..MaxAge
    BY <1>1 DEF ClientMsg, Runs
  <2>3. inTxn' \in BOOLEAN /\ carried' \in BOOLEAN /\ sinceTx' \in 0..MaxAge
    BY <1>1, BeginFacts DEF ClientMsg
  <2>4. QED
    BY <1>1, <2>1, <2>2, <2>3, ArmFacts DEF ClientMsg
<1>2. ASSUME NEW q \in Statements, ClientWaits(q) PROVE TypeOK'
  BY <1>2 DEF ClientWaits, Open, Statements
<1>3. CASE Acquired
  <2>1. pending \in Statements
    BY <1>3 DEF Acquired
  <2>2. backend' \in Backends /\ backend' # Quiet
    BY <1>3, <2>1, BackendFacts DEF Acquired, Runs
  <2>3. txAge' \in 0..MaxAge /\ stepAge' \in 0..MaxAge
    BY <1>3 DEF Acquired, Runs
  <2>4. inTxn' \in BOOLEAN /\ carried' \in BOOLEAN /\ sinceTx' \in 0..MaxAge
    BY <1>3, BeginFacts DEF Acquired
  <2>5. QED
    BY <1>3, <2>2, <2>3, <2>4, ArmFacts DEF Acquired
<1>4. CASE Leave
  BY <1>4 DEF Leave, ages
<1>5. CASE Row
  <2>1. server /\ where = "select"
    BY <1>5 DEF Row, Open, Quiet
  <2>2. QED
    BY <1>5, <2>1, ArmFacts DEF Row
<1>6. CASE ReadyInTxn
  <2>1. server
    BY <1>6 DEF ReadyInTxn, Open, Quiet
  <2>2. backend' \in Backends /\ backend' # Quiet /\ stepAge' = 0
    BY <1>6, BackendFacts DEF ReadyInTxn, Ends
  <2>3. inTxn' \in BOOLEAN /\ carried' \in BOOLEAN
    BY <1>6, Zenon DEF ReadyInTxn
  <2>4. /\ sinceTx' = 0 /\ UNCHANGED <<pending, server, fired, txAge, waited>>
        /\ Arm
    BY <1>6 DEF ReadyInTxn
  <2>5. QED
    BY <2>1, <2>2, <2>3, <2>4, ArmFacts
<1>7. CASE ReadyFailed
  <2>1. server
    BY <1>7 DEF ReadyFailed, Open, Quiet
  <2>2. backend' \in Backends /\ backend' # Quiet /\ stepAge' = 0
    BY <1>7, BackendFacts DEF ReadyFailed, Ends
  <2>3. QED
    BY <1>7, <2>1, <2>2, ArmFacts DEF ReadyFailed
<1>8. CASE ReadyIdle
  <2>1. backend' = Quiet /\ backend' \in Backends /\ stepAge' = 0
    BY <1>8, BackendFacts DEF ReadyIdle, Ends, Quiet
  <2>2. QED
    BY <1>8, <2>1 DEF ReadyIdle, ages
<1>9. CASE ResetReturns
  <2>1. server' \in BOOLEAN /\ inTxn' \in BOOLEAN /\ carried' \in BOOLEAN
    BY <1>9, Zenon DEF ResetReturns
  <2>2. /\ where = "resetting" /\ ~server' /\ Arm
        /\ UNCHANGED <<pending, fired, backend, sinceTx, txAge, stepAge, waited>>
    BY <1>9, Zenon DEF ResetReturns
  <2>3. QED
    BY <2>1, <2>2, ArmFacts
<1>10. ASSUME NEW why \in {"transaction", "idle", "wait"}, Timeout(why) PROVE TypeOK'
  BY <1>10 DEF Timeout, ages
<1>11. CASE Tick
  <2>1. sinceArmed' \in 0..MaxAge /\ sinceTx' \in 0..MaxAge
        /\ txAge' \in 0..MaxAge /\ stepAge' \in 0..MaxAge /\ waited' \in 0..MaxAge
    BY <1>11, OlderFacts DEF Tick
  <2>2. where = "select" => ~expired
    BY <1>11 DEF Tick
  <2>3. QED
    BY <1>11, <2>1, <2>2 DEF Tick, loopVars
<1>12. CASE UNCHANGED vars
  <2>1. TxDue' = TxDue
    BY <1>12, Zenon DEF vars, loopVars, ages, TxDue, TxSpent
  <2>2. QED
    BY <1>12, <2>1 DEF vars, loopVars, ages
<1>13. QED
  BY <1>1, <1>2, <1>3, <1>4, <1>5, <1>6, <1>7, <1>8, <1>9, <1>10, <1>11, <1>12 DEF Next

\* So does TimerRunsOn: only Arm makes the loop listen, and a tick passes no
\* timer that is due.
LEMMA RunsOnStep == TypeOK /\ TypeOK' /\ TimerRunsOn /\ [Next]_vars => TimerRunsOn'
<1> SUFFICES ASSUME TypeOK, TypeOK', TimerRunsOn, [Next]_vars PROVE TimerRunsOn'
  OBVIOUS
<1> USE TimersAssumption DEF TimerRunsOn, Open
<1>1. CASE Arm
  <2>1. TypeOK' => (~TxDue' /\ server' /\ inTxn' /\ TxTimeout > 0 => sinceTx' <= TxTimeout)
    BY DEF TxDue, TxSpent, TypeOK
  <2>2. ~expired' => ~TxDue'
    BY <1>1, Zenon DEF Arm, TxDue
  <2>3. QED
    BY <2>1, <2>2
<1>2. CASE where' # "select"
  BY <1>2
<1>3. CASE Tick
  <2>1. CASE Open
    <3>1. server /\ inTxn /\ TxTimeout > 0 => sinceTx < TxTimeout
      BY <1>3, <2>1 DEF Tick, TxDue, TxSpent, TypeOK
    <3>2. sinceTx' <= sinceTx + 1
      BY <1>3, OlderFacts DEF Tick, TypeOK
    <3> QED
      BY <1>3, <3>1, <3>2 DEF Tick, loopVars, TypeOK
  <2>2. CASE ~Open
    BY <1>3, <2>2 DEF Tick, loopVars
  <2> QED
    BY <2>1, <2>2
<1>4. CASE UNCHANGED vars
  BY <1>4 DEF vars, loopVars, ages
<1>5. \/ Arm \/ where' # "select" \/ Tick \/ UNCHANGED vars
  BY DEF Next, ClientMsg, ClientWaits, Acquired, Leave, Row, ReadyInTxn, ReadyFailed,
         ReadyIdle, ResetReturns, Timeout
<1>6. QED
  BY <1>1, <1>2, <1>3, <1>4, <1>5

\* And Timed: tx_start is set only where stepAge is 0.
LEMMA TimedStep == TypeOK /\ Timed /\ [Next]_vars => Timed'
<1> SUFFICES ASSUME TypeOK, Timed, [Next]_vars PROVE Timed'
  OBVIOUS
<1> USE DEF Timed, TypeOK, LoopOK, Quiet, Backends
<1>1. ASSUME NEW q \in Statements, ClientMsg(q) PROVE Timed'
  <2>1. server' = server /\ backend'.txn = backend.txn /\ stepAge' = 0
    BY <1>1 DEF ClientMsg, Runs
  <2>2. (inTxn => inTxn') /\ sinceTx' \in Nat
    BY <1>1, BeginFacts DEF ClientMsg, BeginSeen
  <2>3. QED
    BY <2>1, <2>2
<1>2. ASSUME NEW q \in Statements, ClientWaits(q) PROVE Timed'
  BY <1>2 DEF ClientWaits
<1>3. CASE Acquired
  <2>1. backend'.txn = "no" /\ stepAge' = 0
    BY <1>3 DEF Acquired, Runs
  <2>2. sinceTx' \in Nat
    BY <1>3, BeginFacts DEF Acquired
  <2>3. QED
    BY <2>1, <2>2
<1>4. CASE Leave \/ Row
  BY <1>4 DEF Leave, Row, ages
<1>5. CASE ReadyFailed
  <2>1. backend.txn # "no" /\ stepAge' = 0 /\ UNCHANGED <<server, inTxn, sinceTx>>
    BY <1>5 DEF ReadyFailed, Ends
  <2>2. QED
    BY <2>1
<1>6. CASE ReadyIdle
  BY <1>6 DEF ReadyIdle, Ends
<1>7. CASE ReadyInTxn
  BY <1>7 DEF ReadyInTxn, Ends
<1>8. CASE ResetReturns
  BY <1>8 DEF ResetReturns
<1>9. ASSUME NEW why \in {"transaction", "idle", "wait"}, Timeout(why) PROVE Timed'
  BY <1>9 DEF Timeout, ages
<1>10. CASE Tick
  BY <1>10, OlderFacts DEF Tick, loopVars
<1>11. CASE UNCHANGED vars
  BY <1>11 DEF vars, loopVars, ages
<1>12. QED
  BY <1>1, <1>2, <1>3, <1>4, <1>5, <1>6, <1>7, <1>8, <1>9, <1>10, <1>11 DEF Next

\* And Behind.
LEMMA BehindStep == TypeOK /\ Behind /\ [Next]_vars => Behind'
<1> SUFFICES ASSUME TypeOK, Behind, [Next]_vars PROVE Behind'
  OBVIOUS
<1> USE DEF Behind, TypeOK, LoopOK, Quiet, Backends
<1>1. ASSUME NEW q \in Statements, ClientMsg(q) PROVE Behind'
  <2>1. txAge' = txAge /\ server' = server
    BY <1>1 DEF ClientMsg, Open, Runs
  <2>2. QED
    BY <1>1, <2>1 DEF ClientMsg, BeginSeen
<1>2. ASSUME NEW q \in Statements, ClientWaits(q) PROVE Behind'
  BY <1>2 DEF ClientWaits
<1>3. CASE Acquired
  BY <1>3 DEF Acquired, BeginSeen, Runs
<1>4. CASE Leave \/ Row \/ ReadyIdle \/ ReadyFailed
  BY <1>4 DEF Leave, Row, ReadyIdle, ReadyFailed, ages
<1>5. CASE ReadyInTxn
  <2>1. server
    BY <1>5 DEF ReadyInTxn, Open
  <2>2. server' = server /\ sinceTx' = 0 /\ txAge' = txAge
    BY <1>5 DEF ReadyInTxn
  <2>3. QED
    BY <2>1, <2>2
<1>6. CASE ResetReturns
  BY <1>6 DEF ResetReturns
<1>7. ASSUME NEW why \in {"transaction", "idle", "wait"}, Timeout(why) PROVE Behind'
  BY <1>7 DEF Timeout, ages
<1>8. CASE Tick
  BY <1>8, OlderFacts DEF Tick, loopVars
<1>9. CASE UNCHANGED vars
  BY <1>9 DEF vars, loopVars, ages
<1>10. QED
  BY <1>1, <1>2, <1>3, <1>4, <1>5, <1>6, <1>7, <1>8, <1>9 DEF Next

-----------------------------------------------------------------------------

\* The invariant holds throughout.
LEMMA TimersInvariant == Spec => []TimersInv
<1>1. Init => TimersInv
  <2>1. SUFFICES ASSUME Init PROVE TimersInv
    OBVIOUS
  <2>2. /\ server \in BOOLEAN /\ inTxn \in BOOLEAN /\ expired \in BOOLEAN /\ carried \in BOOLEAN
        /\ ~server /\ ~inTxn /\ ~expired
    BY <2>1, Zenon DEF Init
  <2>3. /\ where = "select" /\ pending = "nothing" /\ fired = "none" /\ backend = Quiet
        /\ sinceArmed = 0 /\ sinceTx = 0 /\ txAge = 0 /\ stepAge = 0 /\ waited = 0
    BY <2>1 DEF Init
  <2>4. QED
    BY <2>2, <2>3, TimersAssumption, BackendFacts DEF TimersInv, TypeOK, LoopOK, Places, Quiet,
                                                       TimerRunsOn, Timed, Behind
<1>2. TimersInv /\ [Next]_vars => TimersInv'
  BY TypeStep, RunsOnStep, TimedStep, BehindStep DEF TimersInv
<1>3. QED
  BY <1>1, <1>2, PTL DEF Spec

\* The loop of transaction_loop is where its backend says it is.
THEOREM TypesAreKept == Spec => []TypeOK
BY TimersInvariant, PTL DEF TimersInv

\* In a transaction block no statement and no pause outlasts transaction_timeout
\* while the loop listens, whatever rows are passed on meanwhile.
THEOREM StepsOfTransactionsAreTimed == Spec => []StepsAreTimed
<1>1. TimersInv => StepsAreTimed
  BY TimersAssumption DEF TimersInv, TypeOK, TimerRunsOn, Timed, StepsAreTimed
<1>2. QED
  BY <1>1, TimersInvariant, PTL

\* tx_start is not older than the transaction unless in_transaction was left
\* over from a backend whose reset failed: that is the only way in which a
\* transaction can be cut short.
THEOREM OnlyLeftoversCutShort == Spec => []TimerNotAhead
<1>1. TimersInv => TimerNotAhead
  BY DEF TimersInv, Behind, TimerNotAhead
<1>2. QED
  BY <1>1, TimersInvariant, PTL

-----------------------------------------------------------------------------
(* Frames: the inductive invariant *)

StreamsOK ==
    /\ plan \in Plans
    /\ arrived \in [Streams!Sides -> Nat] /\ taken \in [Streams!Sides -> Nat]
    /\ from \in [Streams!Sides -> Nat] /\ length \in [Streams!Sides -> Nat]
    /\ passed \in [Streams!Sides -> Seq(Nat \X Nat)]
    /\ dropped \in BOOLEAN
    /\ \A s \in Streams!Sides :
           from[s] <= taken[s] /\ taken[s] <= arrived[s] /\ arrived[s] <= Streams!Total(s)

\* The number of messages that side s has been heard with.
Heard(s) == Len(passed[s])

\* What of s has been passed on, and the read that is under way.
AlignedAt(s) ==
    /\ Heard(s) <= Len(Streams!Ends(s))
    /\ \A m \in 1..Heard(s) : passed[s][m] = Streams!Message(s, m)
    /\ from[s] = Streams!End(s, Heard(s))
    /\ length[s] # 0 =>
          /\ Heard(s) < Len(Streams!Ends(s))
          /\ length[s] = Streams!End(s, Heard(s) + 1) - Streams!End(s, Heard(s))
    /\ s \notin plan.split => taken[s] = from[s]

Aligned == ~dropped => \A s \in Streams!Sides : AlignedAt(s)

\* A message has begun to arrive only after what it waits for was passed on;
\* and whole, if its side speaks in whole messages.
Turned ==
    \A s \in Streams!Sides :
        /\ \A m \in DOMAIN Streams!Ends(s) :
               Streams!End(s, m - 1) < arrived[s] =>
                   plan.after[s][m] <= Heard(Streams!Other(s))
        /\ s \notin plan.split =>
               \E m \in 0..Len(Streams!Ends(s)) : arrived[s] = Streams!End(s, m)

StreamsInv == StreamsOK /\ Aligned /\ Turned /\ Streams!NothingDropped


-----------------------------------------------------------------------------
(* Frames: lemmas *)

\* Where messages end, and who speaks with whom.
LEMMA EndFacts ==
    ASSUME plan \in Plans, NEW s \in Streams!Sides
    PROVE  /\ Len(Streams!Ends(s)) \in Nat
           /\ DOMAIN Streams!Ends(s) = 1..Len(Streams!Ends(s))
           /\ \A m \in 0..Len(Streams!Ends(s)) : Streams!End(s, m) \in Nat
           /\ \A m, n \in 0..Len(Streams!Ends(s)) :
                  m < n => Streams!End(s, m) < Streams!End(s, n)
           /\ \A m \in DOMAIN Streams!Ends(s) : plan.after[s][m] \in Nat
           /\ Streams!Total(s) = Streams!End(s, Len(Streams!Ends(s)))
<1> DEFINE len == Len(Streams!Ends(s))
<1>1. /\ Streams!Ends(s) \in Seq(Nat \ {0}) /\ plan.after[s] \in Seq(Nat)
      /\ DOMAIN plan.after[s] = DOMAIN Streams!Ends(s)
      /\ \A m, n \in DOMAIN Streams!Ends(s) :
             m < n => Streams!Ends(s)[m] < Streams!Ends(s)[n]
  BY FramesAssumption DEF Sides, Streams!Sides, Streams!Ends
<1>2. len \in Nat /\ DOMAIN Streams!Ends(s) = 1..len
  BY <1>1, LenProperties
<1>3. \A m \in 1..len : Streams!Ends(s)[m] \in Nat \ {0}
  BY <1>1, <1>2, ElementOfSeq
<1>4. \A m \in DOMAIN Streams!Ends(s) : plan.after[s][m] \in Nat
  BY <1>1, <1>2, ElementOfSeq, LenProperties
<1>5. \A m \in 0..len : Streams!End(s, m) = IF m = 0 THEN 0 ELSE Streams!Ends(s)[m]
  BY DEF Streams!End
<1>6. Streams!Total(s) = Streams!End(s, len)
  BY DEF Streams!Total
<1> HIDE DEF len
<1>7. \A m \in 0..len : Streams!End(s, m) \in Nat
  BY <1>2, <1>3, <1>5
<1>8. ASSUME NEW m \in 0..len, NEW n \in 0..len, m < n
      PROVE  Streams!End(s, m) < Streams!End(s, n)
  <2>1. n \in 1..len
    BY <1>2, <1>8
  <2>2. CASE m = 0
    BY <1>3, <1>5, <2>1, <2>2
  <2>3. CASE m # 0
    <3>1. m \in 1..len
      BY <1>2, <2>3
    <3>2. Streams!Ends(s)[m] < Streams!Ends(s)[n]
      BY <1>1, <1>2, <1>8, <2>1, <3>1
    <3>3. n # 0
      BY <2>1
    <3>4. Streams!End(s, m) = Streams!Ends(s)[m] /\ Streams!End(s, n) = Streams!Ends(s)[n]
      BY <1>5, <2>3, <3>3
    <3>5. QED
      BY <3>2, <3>4
  <2>4. QED
    BY <2>2, <2>3
<1>9. QED
  BY <1>2, <1>4, <1>6, <1>7, <1>8 DEF len

\* There are two sides.
LEMMA SideFacts ==
    ASSUME NEW s \in Streams!Sides
    PROVE  /\ Streams!Other(s) \in Streams!Sides /\ Streams!Other(s) # s
           /\ Streams!Other(Streams!Other(s)) = s
           /\ \A r \in Streams!Sides : r = s \/ r = Streams!Other(s)
BY DEF Streams!Sides, Streams!Other

\* What is said does not change.
LEMMA SaidFacts ==
    ASSUME plan' = plan, NEW s
    PROVE  /\ Streams!Ends(s)' = Streams!Ends(s) /\ Streams!Total(s)' = Streams!Total(s)
           /\ \A m : Streams!End(s, m)' = Streams!End(s, m)
           /\ \A m : Streams!Message(s, m)' = Streams!Message(s, m)
BY DEF Streams!Ends, Streams!Total, Streams!End, Streams!Message

\* Turns are the same seen from either side.
LEMMA InTurnsFacts ==
    ASSUME plan \in Plans, Streams!InTurns, NEW s \in Streams!Sides,
           NEW m \in DOMAIN Streams!Ends(s),
           NEW n \in DOMAIN Streams!Ends(Streams!Other(s))
    PROVE  plan.after[s][m] >= n \/ plan.after[Streams!Other(s)][n] >= m
<1>1. CASE s = "client"
  BY <1>1 DEF Streams!InTurns, Streams!Other
<1>2. CASE s = "server"
  <2>1. Streams!Other(s) = "client"
    BY <1>2 DEF Streams!Other
  <2>2. QED
    BY <1>2, <2>1 DEF Streams!InTurns
<1>3. QED
  BY <1>1, <1>2 DEF Streams!Sides

\* A read that is not at the end of its stream is in a message, whose length it
\* finds.
LEMMA LengthIsFound ==
    ASSUME StreamsInv, ~dropped, NEW s \in Streams!Sides, taken[s] < arrived[s],
           NEW n \in Streams!Lengths(s)
    PROVE  /\ Heard(s) \in Nat /\ Heard(s) + 1 \in DOMAIN Streams!Ends(s)
           /\ n \in Nat
           /\ from[s] + n = Streams!End(s, Heard(s) + 1)
           /\ from[s] < from[s] + n
           /\ n = Streams!End(s, Heard(s) + 1) - Streams!End(s, Heard(s))
<1> DEFINE h == Heard(s)
           len == Len(Streams!Ends(s))
<1>1. /\ len \in Nat /\ DOMAIN Streams!Ends(s) = 1..len
      /\ \A m \in 0..len : Streams!End(s, m) \in Nat
      /\ \A m, k \in 0..len : m < k => Streams!End(s, m) < Streams!End(s, k)
      /\ Streams!Total(s) = Streams!End(s, len)
  BY EndFacts DEF StreamsInv, StreamsOK
<1>2. /\ from[s] \in Nat /\ from[s] < Streams!Total(s) /\ h \in Nat
      /\ arrived[s] \in Nat /\ taken[s] \in Nat
  <2>1. /\ from[s] \in Nat /\ taken[s] \in Nat /\ arrived[s] \in Nat
        /\ from[s] <= taken[s] /\ arrived[s] <= Streams!Total(s)
        /\ passed[s] \in Seq(Nat \X Nat)
    BY DEF StreamsInv, StreamsOK
  <2>2. Streams!Total(s) \in Nat
    BY <1>1
  <2>3. QED
    BY <2>1, <2>2, LenProperties DEF Heard
<1>3. AlignedAt(s)
  BY DEF StreamsInv, Aligned
<1>4. h <= len /\ from[s] = Streams!End(s, h)
  BY <1>3 DEF AlignedAt
<1>5. h + 1 \in 1..len
  <2>1. h # len
    BY <1>1, <1>2, <1>4
  <2>2. QED
    BY <1>1, <1>2, <1>4, <2>1
<1>6. n = Streams!End(s, h + 1) - Streams!End(s, h)
  <2>1. CASE length[s] # 0
    BY <1>3, <2>1 DEF AlignedAt, Streams!Lengths
  <2>2. CASE length[s] = 0
    <3>1. h + 1 \in {m \in DOMAIN Streams!Ends(s) : Streams!End(s, m - 1) = from[s]}
      <4>1. (h + 1) - 1 = h
        BY <1>2
      <4>2. QED
        BY <1>1, <1>4, <1>5, <4>1
    <3>2. PICK m \in DOMAIN Streams!Ends(s) :
              /\ Streams!End(s, m - 1) = from[s]
              /\ n = Streams!End(s, m) - Streams!End(s, m - 1)
      BY <2>2, <3>1 DEF Streams!Lengths
    <3>3. m - 1 \in 0..len /\ h \in 0..len /\ m \in Nat
      BY <1>1, <1>2, <1>4
    <3>4. m - 1 = h
      BY <1>1, <1>4, <3>2, <3>3
    <3>5. m = h + 1
      BY <1>2, <3>3, <3>4
    <3>6. QED
      BY <3>2, <3>4, <3>5
  <2>3. QED
    BY <2>1, <2>2
<1> HIDE DEF h, len
<1>7. h \in 0..len /\ h + 1 \in 0..len /\ h < h + 1
  BY <1>1, <1>2, <1>4, <1>5
<1>8. Streams!End(s, h) < Streams!End(s, h + 1) /\ Streams!End(s, h + 1) \in Nat
  BY <1>1, <1>7
<1>9. /\ n \in Nat /\ from[s] + n = Streams!End(s, h + 1) /\ from[s] < from[s] + n
  BY <1>2, <1>4, <1>6, <1>8
<1>10. QED
  BY <1>1, <1>2, <1>5, <1>6, <1>9 DEF h


\* Whatever a read takes for a length is a number.
LEMMA LengthIsNat ==
    ASSUME StreamsInv, NEW s \in Streams!Sides, NEW n \in Streams!Lengths(s)
    PROVE  n \in Nat
<1>1. CASE length[s] # 0
  BY <1>1 DEF Streams!Lengths, StreamsInv, StreamsOK
<1>2. CASE length[s] = 0
  <2>1. /\ DOMAIN Streams!Ends(s) = 1..Len(Streams!Ends(s))
        /\ Len(Streams!Ends(s)) \in Nat
        /\ \A m \in 0..Len(Streams!Ends(s)) : Streams!End(s, m) \in Nat
        /\ \A m, k \in 0..Len(Streams!Ends(s)) :
               m < k => Streams!End(s, m) < Streams!End(s, k)
        /\ Streams!Total(s) \in Nat
    <3>1. plan \in Plans
      BY DEF StreamsInv, StreamsOK
    <3>2. Streams!Total(s) = Streams!End(s, Len(Streams!Ends(s)))
      BY <3>1, EndFacts
    <3>3. QED
      BY <3>1, <3>2, EndFacts
  <2>2. CASE n \in 1..(Streams!Total(s) + 1)
    BY <2>1, <2>2
  <2>3. ASSUME NEW m \in DOMAIN Streams!Ends(s), n = Streams!End(s, m) - Streams!End(s, m - 1)
        PROVE  n \in Nat
    <3>1. m - 1 \in 0..Len(Streams!Ends(s)) /\ m \in 0..Len(Streams!Ends(s)) /\ m - 1 < m
      BY <2>1
    <3>2. /\ Streams!End(s, m - 1) \in Nat /\ Streams!End(s, m) \in Nat
          /\ Streams!End(s, m - 1) < Streams!End(s, m)
      BY <2>1, <3>1
    <3>3. QED
      BY <2>3, <3>2
  <2>4. QED
    BY <1>2, <2>2, <2>3 DEF Streams!Lengths
<1>3. QED
  BY <1>1, <1>2

-----------------------------------------------------------------------------
(* Frames: the steps *)

\* More arrives.
LEMMA ArriveStep ==
    ASSUME StreamsInv, NEW s \in Streams!Sides, Streams!Arrive(s)
    PROVE  StreamsInv'
<1>1. PICK n \in (arrived[s] + 1)..Streams!Total(s) :
          /\ s \notin plan.split => \E m \in DOMAIN Streams!Ends(s) : n = Streams!End(s, m)
          /\ \A m \in DOMAIN Streams!Ends(s) :
                 Streams!End(s, m - 1) < n => plan.after[s][m] <= Heard(Streams!Other(s))
          /\ arrived' = [arrived EXCEPT ![s] = n]
  BY DEF Streams!Arrive, Heard
<1>2. UNCHANGED <<plan, taken, from, length, passed, dropped>>
  BY DEF Streams!Arrive
<1>3. \A r \in Streams!Sides : Heard(r)' = Heard(r)
  BY <1>2 DEF Heard
<1>4. /\ Len(Streams!Ends(s)) \in Nat
      /\ DOMAIN Streams!Ends(s) = 1..Len(Streams!Ends(s))
      /\ Streams!Total(s) \in Nat
  BY EndFacts DEF StreamsInv, StreamsOK
<1>5. n \in Nat /\ arrived[s] < n /\ n <= Streams!Total(s)
  BY <1>1, <1>4 DEF StreamsInv, StreamsOK
<1>6. /\ arrived' \in [Streams!Sides -> Nat] /\ arrived'[s] = n
      /\ \A r \in Streams!Sides : r # s => arrived'[r] = arrived[r]
  BY <1>1, <1>5 DEF StreamsInv, StreamsOK
<1>7. StreamsOK'
  <2>1. ASSUME NEW r \in Streams!Sides
        PROVE  from'[r] <= taken'[r] /\ taken'[r] <= arrived'[r] /\ arrived'[r] <= Streams!Total(r)'
    <3>1. /\ from[r] <= taken[r] /\ taken[r] <= arrived[r] /\ arrived[r] <= Streams!Total(r)
          /\ from[r] \in Nat /\ taken[r] \in Nat /\ arrived[r] \in Nat
      BY DEF StreamsInv, StreamsOK
    <3>2. Streams!Total(r)' = Streams!Total(r)
      BY <1>2, SaidFacts
    <3>3. CASE r = s
      BY <1>2, <1>5, <1>6, <3>1, <3>2, <3>3
    <3>4. CASE r # s
      BY <1>2, <1>6, <3>1, <3>2, <3>4
    <3>5. QED
      BY <3>3, <3>4
  <2>2. QED
    BY <1>2, <1>6, <2>1 DEF StreamsInv, StreamsOK
<1>8. Aligned'
  <2>1. ASSUME NEW r \in Streams!Sides, AlignedAt(r) PROVE AlignedAt(r)'
    BY <1>2, <1>3, <2>1, SaidFacts DEF AlignedAt
  <2>2. QED
    BY <1>2, <2>1 DEF StreamsInv, Aligned
<1>9. Turned'
  <2>1. ASSUME NEW r \in Streams!Sides, NEW m \in DOMAIN Streams!Ends(r),
               Streams!End(r, m - 1) < arrived'[r]
        PROVE  plan.after[r][m] <= Heard(Streams!Other(r))
    BY <1>1, <1>6, <2>1 DEF StreamsInv, Turned
  <2>2. ASSUME NEW r \in Streams!Sides, r \notin plan.split
        PROVE  \E m \in 0..Len(Streams!Ends(r)) : arrived'[r] = Streams!End(r, m)
    <3>1. CASE r = s
      BY <1>1, <1>4, <1>6, <2>2, <3>1
    <3>2. CASE r # s
      BY <1>6, <2>2, <3>2 DEF StreamsInv, Turned
    <3>3. QED
      BY <3>1, <3>2
  <2>3. \A r \in Streams!Sides : Heard(Streams!Other(r))' = Heard(Streams!Other(r))
    BY <1>3, SideFacts DEF Heard
  <2>4. QED
    BY <1>2, <2>1, <2>2, <2>3, SaidFacts DEF Turned
<1>10. Streams!NothingDropped'
  <2>1. Streams!InTurns' = Streams!InTurns
    BY <1>2 DEF Streams!InTurns, Streams!Ends
  <2>2. QED
    BY <1>2, <2>1 DEF StreamsInv, Streams!NothingDropped
<1>11. QED
  BY <1>7, <1>8, <1>9, <1>10 DEF StreamsInv

\* A read takes what there is, and it is not enough.
LEMMA WaitStep ==
    ASSUME StreamsInv, NEW s \in Streams!Sides, taken[s] < arrived[s],
           NEW n \in Streams!Lengths(s), from[s] + n > arrived[s],
           taken' = [taken EXCEPT ![s] = arrived[s]],
           length' = [length EXCEPT ![s] = n],
           UNCHANGED <<plan, arrived, from, passed, dropped>>
    PROVE  StreamsInv'
<1>1. /\ plan' = plan /\ arrived' = arrived /\ from' = from
      /\ passed' = passed /\ dropped' = dropped
  OBVIOUS
<1>2. n \in Nat
  BY LengthIsNat
<1>3. /\ taken' \in [Streams!Sides -> Nat] /\ length' \in [Streams!Sides -> Nat]
      /\ taken'[s] = arrived[s] /\ length'[s] = n
      /\ \A r \in Streams!Sides : r # s => taken'[r] = taken[r] /\ length'[r] = length[r]
  BY <1>2 DEF StreamsInv, StreamsOK
<1>4. \A r \in Streams!Sides : Heard(r)' = Heard(r)
  BY <1>1 DEF Heard
<1>5. StreamsOK'
  <2>1. ASSUME NEW r \in Streams!Sides
        PROVE  from'[r] <= taken'[r] /\ taken'[r] <= arrived'[r] /\ arrived'[r] <= Streams!Total(r)'
    <3>1. /\ from[r] <= taken[r] /\ taken[r] <= arrived[r] /\ arrived[r] <= Streams!Total(r)
          /\ from[r] \in Nat /\ taken[r] \in Nat /\ arrived[r] \in Nat
      BY DEF StreamsInv, StreamsOK
    <3>2. Streams!Total(r)' = Streams!Total(r)
      BY <1>1, SaidFacts
    <3>3. CASE r = s
      BY <1>1, <1>3, <3>1, <3>2, <3>3
    <3>4. CASE r # s
      BY <1>1, <1>3, <3>1, <3>2, <3>4
    <3>5. QED
      BY <3>3, <3>4
  <2>2. QED
    BY <1>1, <1>3, <2>1 DEF StreamsInv, StreamsOK
<1>6. Aligned'
  <2>1. SUFFICES ASSUME ~dropped, NEW r \in Streams!Sides PROVE AlignedAt(r)'
    BY <1>1 DEF Aligned
  <2>2. AlignedAt(r)
    BY <2>1 DEF StreamsInv, Aligned
  <2>3. CASE r # s
    BY <1>1, <1>3, <1>4, <2>2, <2>3, SaidFacts DEF AlignedAt
  <2>4. CASE r = s
    <3>1. /\ Heard(s) \in Nat /\ Heard(s) + 1 \in DOMAIN Streams!Ends(s)
          /\ from[s] + n = Streams!End(s, Heard(s) + 1)
          /\ n = Streams!End(s, Heard(s) + 1) - Streams!End(s, Heard(s))
      BY <2>1, LengthIsFound
    <3>2. /\ Len(Streams!Ends(s)) \in Nat
          /\ DOMAIN Streams!Ends(s) = 1..Len(Streams!Ends(s))
          /\ \A m \in 0..Len(Streams!Ends(s)) : Streams!End(s, m) \in Nat
          /\ \A m, k \in 0..Len(Streams!Ends(s)) :
                 m < k => Streams!End(s, m) < Streams!End(s, k)
      BY EndFacts DEF StreamsInv, StreamsOK
    <3>3. Heard(s) < Len(Streams!Ends(s))
      BY <3>1, <3>2
    <3>4. s \in plan.split
      <4>1. SUFFICES ASSUME s \notin plan.split PROVE FALSE
        OBVIOUS
      <4>2. PICK m \in 0..Len(Streams!Ends(s)) : arrived[s] = Streams!End(s, m)
        BY <4>1 DEF StreamsInv, Turned
      <4>3. /\ from[s] = Streams!End(s, Heard(s)) /\ taken[s] = from[s]
        BY <2>2, <2>4, <4>1 DEF AlignedAt
      <4>4. /\ Streams!End(s, Heard(s)) < Streams!End(s, m)
            /\ Streams!End(s, m) < Streams!End(s, Heard(s) + 1)
        BY <3>1, <4>2, <4>3
      <4>5. /\ Heard(s) \in 0..Len(Streams!Ends(s)) /\ Heard(s) + 1 \in 0..Len(Streams!Ends(s))
            /\ m \in Nat
        BY <3>1, <3>2, <3>3
      <4>6. Streams!End(s, m) \in Nat /\ Streams!End(s, Heard(s)) \in Nat
            /\ Streams!End(s, Heard(s) + 1) \in Nat
        BY <3>2, <4>5
      <4>7. ~(m < Heard(s)) /\ m # Heard(s) /\ ~(Heard(s) + 1 < m) /\ m # Heard(s) + 1
        BY <3>2, <4>4, <4>5, <4>6
      <4>8. QED
        BY <3>1, <4>5, <4>7
    <3>5. QED
      BY <1>1, <1>3, <1>4, <2>2, <2>4, <3>1, <3>3, <3>4, SaidFacts DEF AlignedAt
  <2>5. QED
    BY <2>3, <2>4
<1>7. Turned'
  <2>1. \A r \in Streams!Sides : Heard(Streams!Other(r))' = Heard(Streams!Other(r))
    BY <1>1 DEF Heard
  <2>2. QED
    BY <1>1, <2>1, SaidFacts DEF StreamsInv, Turned
<1>8. Streams!NothingDropped'
  <2>1. Streams!InTurns' = Streams!InTurns
    BY <1>1 DEF Streams!InTurns, Streams!Ends
  <2>2. QED
    BY <1>1, <2>1 DEF StreamsInv, Streams!NothingDropped
<1>9. QED
  BY <1>5, <1>6, <1>7, <1>8 DEF StreamsInv


\* When the sides speak in whole messages, or in turns, the read that is dropped
\* has taken nothing.
LEMMA OtherReadIsIdle ==
    ASSUME StreamsInv, ~dropped, plan.split = {} \/ Streams!InTurns,
           NEW s \in Streams!Sides, taken[s] < arrived[s],
           NEW n \in Streams!Lengths(s), from[s] + n <= arrived[s]
    PROVE  taken[Streams!Other(s)] = from[Streams!Other(s)]
<1> DEFINE o == Streams!Other(s)
<1>1. o \in Streams!Sides
  BY SideFacts
<1>2. CASE plan.split = {}
  BY <1>1, <1>2 DEF StreamsInv, Aligned, AlignedAt
<1>3. CASE Streams!InTurns
  <2>1. SUFFICES ASSUME taken[o] # from[o] PROVE FALSE
    OBVIOUS
  <2>2. /\ Heard(s) \in Nat /\ Heard(s) + 1 \in DOMAIN Streams!Ends(s)
        /\ from[s] + n = Streams!End(s, Heard(s) + 1)
        /\ from[s] < from[s] + n
    BY LengthIsFound
  <2>3. /\ from[o] \in Nat /\ taken[o] \in Nat /\ arrived[o] \in Nat
        /\ from[o] < arrived[o] /\ arrived[o] <= Streams!Total(o)
        /\ Heard(o) \in Nat
    <3>1. /\ from[o] \in Nat /\ taken[o] \in Nat /\ arrived[o] \in Nat
          /\ from[o] <= taken[o] /\ taken[o] <= arrived[o] /\ arrived[o] <= Streams!Total(o)
          /\ passed[o] \in Seq(Nat \X Nat)
      BY <1>1 DEF StreamsInv, StreamsOK
    <3>2. QED
      BY <2>1, <3>1, LenProperties DEF Heard
  <2>4. /\ Heard(o) <= Len(Streams!Ends(o))
        /\ from[o] = Streams!End(o, Heard(o))
        /\ from[s] = Streams!End(s, Heard(s))
    BY <1>1 DEF StreamsInv, Aligned, AlignedAt
  <2>5. Heard(o) + 1 \in DOMAIN Streams!Ends(o)
    <3>1. /\ Len(Streams!Ends(o)) \in Nat
          /\ DOMAIN Streams!Ends(o) = 1..Len(Streams!Ends(o))
          /\ Streams!Total(o) = Streams!End(o, Len(Streams!Ends(o)))
          /\ Streams!Total(o) \in Nat
      BY <1>1, EndFacts DEF StreamsInv, StreamsOK
    <3>2. Heard(o) # Len(Streams!Ends(o))
      BY <2>3, <2>4, <3>1
    <3>3. QED
      BY <2>3, <2>4, <3>1, <3>2
  <2>6. plan.after[s][Heard(s) + 1] <= Heard(o)
    <3>1. Streams!End(s, (Heard(s) + 1) - 1) < arrived[s]
      <4>1. (Heard(s) + 1) - 1 = Heard(s)
        BY <2>2
      <4>2. from[s] \in Nat /\ arrived[s] \in Nat /\ n \in Nat
        BY LengthIsNat DEF StreamsInv, StreamsOK
      <4>3. QED
        BY <2>2, <2>4, <4>1, <4>2
    <3>2. QED
      BY <2>2, <3>1 DEF StreamsInv, Turned
  <2>7. plan.after[o][Heard(o) + 1] <= Heard(s)
    <3>1. Streams!End(o, (Heard(o) + 1) - 1) < arrived[o]
      <4>1. (Heard(o) + 1) - 1 = Heard(o)
        BY <2>3
      <4>2. QED
        BY <2>3, <2>4, <4>1
    <3>2. Streams!Other(o) = s
      BY SideFacts
    <3>3. plan.after[o][Heard(o) + 1] <= Heard(Streams!Other(o))
      BY <1>1, <2>5, <3>1 DEF StreamsInv, Turned
    <3>4. QED
      BY <3>2, <3>3
  <2>8. \/ plan.after[s][Heard(s) + 1] >= Heard(o) + 1
        \/ plan.after[o][Heard(o) + 1] >= Heard(s) + 1
    BY <1>3, <2>2, <2>5, InTurnsFacts DEF StreamsInv, StreamsOK
  <2>9. plan.after[s][Heard(s) + 1] \in Nat /\ plan.after[o][Heard(o) + 1] \in Nat
    BY <1>1, <2>2, <2>5, EndFacts DEF StreamsInv, StreamsOK
  <2>10. QED
    BY <2>2, <2>3, <2>6, <2>7, <2>8, <2>9
<1>4. QED
  BY <1>2, <1>3

\* A message is complete.
LEMMA PassStep ==
    ASSUME StreamsInv, NEW s \in Streams!Sides, taken[s] < arrived[s],
           NEW n \in Streams!Lengths(s), from[s] + n <= arrived[s],
           Streams!Pass(s, from[s] + n), UNCHANGED <<plan, arrived>>
    PROVE  StreamsInv'
<1> DEFINE o    == Streams!Other(s)
           till == from[s] + n
<1>1. /\ passed' = [passed EXCEPT ![s] = Append(@, <<from[s], till>>)]
      /\ taken' = [taken EXCEPT ![s] = till]
      /\ from' = taken'
      /\ length' = [r \in Streams!Sides |-> 0]
      /\ dropped' = (dropped \/ taken[o] # from[o])
  BY DEF Streams!Pass
<1>2. /\ o \in Streams!Sides /\ o # s /\ Streams!Other(o) = s
      /\ \A r \in Streams!Sides : r = s \/ r = o
  BY SideFacts
<1>3. from[s] \in Nat /\ till \in Nat /\ arrived[s] \in Nat /\ till <= arrived[s]
  BY LengthIsNat DEF StreamsInv, StreamsOK
<1> HIDE DEF till
<1>4. /\ taken' \in [Streams!Sides -> Nat]
      /\ taken'[s] = till /\ taken'[o] = taken[o]
  BY <1>1, <1>2, <1>3 DEF StreamsInv, StreamsOK
<1>5. /\ passed[s] \in Seq(Nat \X Nat) /\ passed[o] \in Seq(Nat \X Nat)
      /\ Append(passed[s], <<from[s], till>>) \in Seq(Nat \X Nat)
      /\ Heard(s) \in Nat
  <2>1. passed[s] \in Seq(Nat \X Nat) /\ passed[o] \in Seq(Nat \X Nat)
    BY <1>2 DEF StreamsInv, StreamsOK
  <2>2. <<from[s], till>> \in Nat \X Nat
    BY <1>3
  <2>3. QED
    BY <2>1, <2>2, AppendProperties, LenProperties DEF Heard
<1>6. /\ passed' \in [Streams!Sides -> Seq(Nat \X Nat)]
      /\ passed'[s] = Append(passed[s], <<from[s], till>>)
      /\ passed'[o] = passed[o]
  BY <1>1, <1>2, <1>5 DEF StreamsInv, StreamsOK
<1>7. /\ Heard(s)' = Heard(s) + 1 /\ Heard(o)' = Heard(o)
      /\ passed'[s][Heard(s) + 1] = <<from[s], till>>
      /\ \A m \in 1..Heard(s) : passed'[s][m] = passed[s][m]
  <2>1. <<from[s], till>> \in Nat \X Nat
    BY <1>3
  <2>2. /\ Len(Append(passed[s], <<from[s], till>>)) = Len(passed[s]) + 1
        /\ Append(passed[s], <<from[s], till>>)[Len(passed[s]) + 1] = <<from[s], till>>
        /\ \A m \in 1..Len(passed[s]) : Append(passed[s], <<from[s], till>>)[m] = passed[s][m]
    BY <1>5, <2>1, AppendProperties
  <2>3. QED
    BY <1>6, <2>2 DEF Heard
<1>8. StreamsOK'
  <2>1. ASSUME NEW r \in Streams!Sides
        PROVE  from'[r] <= taken'[r] /\ taken'[r] <= arrived'[r] /\ arrived'[r] <= Streams!Total(r)'
    <3>1. /\ taken[r] <= arrived[r] /\ arrived[r] <= Streams!Total(r)
          /\ taken[r] \in Nat /\ arrived[r] \in Nat
      BY DEF StreamsInv, StreamsOK
    <3>2. Streams!Total(r)' = Streams!Total(r)
      BY SaidFacts
    <3>3. from'[r] = taken'[r] /\ taken'[r] \in Nat
      BY <1>1, <1>4
    <3>4. taken'[r] <= arrived[r]
      BY <1>2, <1>3, <1>4, <3>1
    <3>5. QED
      BY <3>1, <3>2, <3>3, <3>4
  <2>2. dropped' \in BOOLEAN
    BY <1>1, Zenon DEF StreamsInv, StreamsOK
  <2>3. from' \in [Streams!Sides -> Nat] /\ length' \in [Streams!Sides -> Nat]
    BY <1>1, <1>4
  <2>4. QED
    BY <1>4, <1>6, <2>1, <2>2, <2>3 DEF StreamsInv, StreamsOK
<1>9. Aligned'
  <2>1. SUFFICES ASSUME ~dropped' PROVE \A r \in Streams!Sides : AlignedAt(r)'
    BY DEF Aligned
  <2>2. ~dropped /\ taken[o] = from[o]
    BY <1>1, <2>1, Zenon
  <2>3. AlignedAt(s) /\ AlignedAt(o)
    BY <1>2, <2>2 DEF StreamsInv, Aligned
  <2>4. AlignedAt(o)'
    <3>1. /\ from'[o] = from[o] /\ taken'[o] = from'[o] /\ length'[o] = 0
          /\ passed'[o] = passed[o]
      BY <1>1, <1>2, <1>4, <1>6, <2>2
    <3>2. QED
      BY <1>7, <2>3, <3>1, SaidFacts DEF AlignedAt
  <2>5. AlignedAt(s)'
    <3>1. /\ Heard(s) + 1 \in DOMAIN Streams!Ends(s)
          /\ till = Streams!End(s, Heard(s) + 1)
      BY <2>2, LengthIsFound DEF till
    <3>2. Heard(s) + 1 <= Len(Streams!Ends(s))
      BY <3>1, EndFacts DEF StreamsInv, StreamsOK
    <3>3. /\ from'[s] = till /\ taken'[s] = from'[s] /\ length'[s] = 0
      BY <1>1, <1>4
    <3>4. \A m \in 1..(Heard(s) + 1) : passed'[s][m] = Streams!Message(s, m)
      <4>1. \A m \in 1..Heard(s) : passed'[s][m] = Streams!Message(s, m)
        BY <1>7, <2>3 DEF AlignedAt
      <4>2. passed'[s][Heard(s) + 1] = Streams!Message(s, Heard(s) + 1)
        <5>1. (Heard(s) + 1) - 1 = Heard(s)
          BY <1>5
        <5>2. from[s] = Streams!End(s, Heard(s))
          BY <2>3 DEF AlignedAt
        <5>3. QED
          BY <1>7, <3>1, <5>1, <5>2 DEF Streams!Message
      <4>3. QED
        BY <1>5, <4>1, <4>2
    <3>5. QED
      BY <1>7, <3>1, <3>2, <3>3, <3>4, SaidFacts DEF AlignedAt
  <2>6. QED
    BY <1>2, <2>4, <2>5
<1>10. Turned'
  <2>1. ASSUME NEW r \in Streams!Sides, NEW m \in DOMAIN Streams!Ends(r),
               Streams!End(r, m - 1) < arrived[r]
        PROVE  plan.after[r][m] <= Heard(Streams!Other(r))'
    <3>1. plan.after[r][m] <= Heard(Streams!Other(r)) /\ plan.after[r][m] \in Nat
      BY <2>1, EndFacts DEF StreamsInv, StreamsOK, Turned
    <3>2. CASE r = s
      BY <1>7, <3>1, <3>2
    <3>3. CASE r = o
      BY <1>2, <1>5, <1>7, <3>1, <3>3
    <3>4. QED
      BY <1>2, <3>2, <3>3
  <2>2. QED
    BY <2>1, SaidFacts DEF StreamsInv, Turned
<1>11. Streams!NothingDropped'
  <2>1. Streams!InTurns' = Streams!InTurns
    BY DEF Streams!InTurns, Streams!Ends
  <2>2. SUFFICES ASSUME plan.split = {} \/ Streams!InTurns PROVE ~dropped'
    BY <2>1 DEF Streams!NothingDropped
  <2>3. ~dropped
    BY <2>2 DEF StreamsInv, Streams!NothingDropped
  <2>4. taken[o] = from[o]
    BY <2>2, <2>3, OtherReadIsIdle
  <2>5. QED
    BY <1>1, <2>3, <2>4, Zenon
<1>12. QED
  BY <1>8, <1>9, <1>10, <1>11 DEF StreamsInv

-----------------------------------------------------------------------------
(* Frames: the theorem *)

\* The invariant holds throughout.
LEMMA StreamsInvariant == Streams!Spec => []StreamsInv
<1>1. Streams!Init => StreamsInv
  <2>1. SUFFICES ASSUME Streams!Init PROVE StreamsInv
    OBVIOUS
  <2>2. /\ plan \in Plans /\ dropped = FALSE
        /\ arrived = [s \in Streams!Sides |-> 0] /\ taken = [s \in Streams!Sides |-> 0]
        /\ from = [s \in Streams!Sides |-> 0] /\ length = [s \in Streams!Sides |-> 0]
        /\ passed = [s \in Streams!Sides |-> <<>>]
    BY <2>1 DEF Streams!Init
  <2>3. ASSUME NEW s \in Streams!Sides
        PROVE  /\ Streams!Total(s) \in Nat /\ Heard(s) = 0 /\ Streams!End(s, 0) = 0
               /\ 0 \in 0..Len(Streams!Ends(s))
               /\ \A m \in DOMAIN Streams!Ends(s) : ~(Streams!End(s, m - 1) < 0)
    <3>1. /\ Len(Streams!Ends(s)) \in Nat
          /\ DOMAIN Streams!Ends(s) = 1..Len(Streams!Ends(s))
          /\ \A m \in 0..Len(Streams!Ends(s)) : Streams!End(s, m) \in Nat
          /\ Streams!Total(s) = Streams!End(s, Len(Streams!Ends(s)))
      BY <2>2, EndFacts
    <3>2. Heard(s) = 0
      BY <2>2 DEF Heard
    <3>3. \A m \in DOMAIN Streams!Ends(s) : m - 1 \in 0..Len(Streams!Ends(s))
      BY <3>1
    <3>4. \A k \in Nat : ~(k < 0)
      OBVIOUS
    <3>5. QED
      BY <3>1, <3>2, <3>3, <3>4 DEF Streams!End
  <2>4. StreamsOK
    <3>1. <<>> \in Seq(Nat \X Nat)
      OBVIOUS
    <3>2. /\ arrived \in [Streams!Sides -> Nat] /\ taken \in [Streams!Sides -> Nat]
          /\ from \in [Streams!Sides -> Nat] /\ length \in [Streams!Sides -> Nat]
          /\ passed \in [Streams!Sides -> Seq(Nat \X Nat)]
      BY <2>2, <3>1
    <3>3. \A s \in Streams!Sides :
              from[s] <= taken[s] /\ taken[s] <= arrived[s] /\ arrived[s] <= Streams!Total(s)
      BY <2>2, <2>3
    <3>4. QED
      BY <2>2, <3>2, <3>3 DEF StreamsOK
  <2>5. Aligned
    <3>1. ASSUME NEW s \in Streams!Sides PROVE AlignedAt(s)
      <4>1. Len(Streams!Ends(s)) \in Nat
        BY <2>2, EndFacts
      <4>2. QED
        BY <2>2, <2>3, <4>1 DEF AlignedAt
    <3>2. QED
      BY <3>1 DEF Aligned
  <2>6. Turned
    BY <2>2, <2>3 DEF Turned
  <2>7. QED
    BY <2>2, <2>4, <2>5, <2>6 DEF StreamsInv, Streams!NothingDropped
<1>2. StreamsInv /\ [Streams!Next]_(Streams!vars) => StreamsInv'
  <2>1. SUFFICES ASSUME StreamsInv, [Streams!Next]_(Streams!vars) PROVE StreamsInv'
    OBVIOUS
  <2>2. ASSUME NEW s \in Streams!Sides, Streams!Poll(s) PROVE StreamsInv'
    <3>1. PICK n \in Streams!Lengths(s) : Streams!Read(s, n)
      BY <2>2 DEF Streams!Poll
    <3>2. taken[s] < arrived[s] /\ UNCHANGED <<plan, arrived>>
      BY <2>2 DEF Streams!Poll
    <3>3. CASE from[s] + n <= arrived[s] /\ Streams!Pass(s, from[s] + n)
      BY <2>1, <3>2, <3>3, PassStep
    <3>4. CASE /\ from[s] + n > arrived[s]
               /\ taken' = [taken EXCEPT ![s] = arrived[s]]
               /\ length' = [length EXCEPT ![s] = n]
               /\ UNCHANGED <<from, passed, dropped>>
      BY <2>1, <3>2, <3>4, WaitStep
    <3>5. QED
      BY <3>1, <3>3, <3>4 DEF Streams!Read
  <2>3. CASE UNCHANGED Streams!vars
    <3>1. /\ plan' = plan /\ arrived' = arrived /\ taken' = taken /\ from' = from
          /\ length' = length /\ passed' = passed /\ dropped' = dropped
      BY <2>3 DEF Streams!vars
    <3>2. \A s : Heard(s)' = Heard(s)
      BY <3>1 DEF Heard
    <3>3. /\ StreamsOK' /\ Streams!NothingDropped'
      BY <2>1, <3>1, SaidFacts
      DEF StreamsInv, StreamsOK, Streams!NothingDropped, Streams!InTurns, Streams!Ends
    <3>4. \A s \in Streams!Sides : AlignedAt(s) => AlignedAt(s)'
      BY <3>1, <3>2, SaidFacts DEF AlignedAt
    <3>5. Aligned'
      BY <2>1, <3>1, <3>4 DEF StreamsInv, Aligned
    <3>6. Turned'
      BY <2>1, <3>1, <3>2, SaidFacts DEF StreamsInv, Turned
    <3>7. QED
      BY <3>3, <3>5, <3>6 DEF StreamsInv
  <2>4. QED
    BY <2>1, <2>2, <2>3, ArriveStep DEF Streams!Next
<1>3. QED
  BY <1>1, <1>2, PTL DEF Streams!Spec

\* Every message reaches the other side whole and in its turn unless a read was
\* dropped in the middle of a message, and none is if the sides speak in whole
\* messages or in turns: so a client that waits for its answers loses nothing,
\* however the network cuts them.
THEOREM MessagesAreWhole == Streams!Spec => []FramesInv
<1>1. StreamsInv => FramesInv
  <2>1. SUFFICES ASSUME StreamsInv, ~dropped, NEW s \in Streams!Sides
                 PROVE  Streams!IsPrefix(passed[s], Streams!Messages(s))
    BY DEF FramesInv, Streams!FramesInv, Streams!PassedInOrder, StreamsInv
  <2> DEFINE said == Streams!Messages(s)
             h    == Len(passed[s])
  <2>2. /\ Len(Streams!Ends(s)) \in Nat
        /\ DOMAIN Streams!Ends(s) = 1..Len(Streams!Ends(s))
        /\ \A m \in 0..Len(Streams!Ends(s)) : Streams!End(s, m) \in Nat
    BY <2>1, EndFacts DEF StreamsInv, StreamsOK
  <2>3. /\ said \in Seq(Nat \X Nat) /\ Len(said) = Len(Streams!Ends(s))
        /\ \A m \in 1..Len(said) : said[m] = Streams!Message(s, m)
    <3>1. \A m \in 1..Len(Streams!Ends(s)) : Streams!Message(s, m) \in Nat \X Nat
      BY <2>2 DEF Streams!Message
    <3>2. said = [m \in 1..Len(Streams!Ends(s)) |-> Streams!Message(s, m)]
      BY <2>2 DEF Streams!Messages
    <3>3. QED
      BY <2>2, <3>1, <3>2
  <2>4. /\ passed[s] \in Seq(Nat \X Nat) /\ h \in Nat
        /\ h <= Len(said)
        /\ \A m \in 1..h : passed[s][m] = said[m]
    <3>1. passed[s] \in Seq(Nat \X Nat)
      BY <2>1 DEF StreamsInv, StreamsOK
    <3>2. h <= Len(said) /\ \A m \in 1..h : passed[s][m] = Streams!Message(s, m)
      BY <2>1, <2>3 DEF StreamsInv, Aligned, AlignedAt, Heard
    <3>3. h \in Nat
      BY <3>1, LenProperties
    <3>4. QED
      <4>1. \A m \in 1..h : m \in 1..Len(said)
        BY <2>2, <2>3, <3>2, <3>3
      <4>2. QED
        BY <2>3, <3>1, <3>2, <3>3, <4>1
  <2> HIDE DEF said
  <2>5. SubSeq(passed[s], 1, h) = SubSeq(said, 1, h)
    <3>1. SubSeq(passed[s], 1, h) = [m \in 1..h |-> passed[s][m]]
      BY <2>4
    <3>2. SubSeq(said, 1, h) = [m \in 1..h |-> said[m]]
      BY <2>3, <2>4
    <3>3. QED
      BY <2>4, <3>1, <3>2
  <2>6. QED
    BY <2>4, <2>5 DEF Streams!IsPrefix, said
<1>2. QED
  BY <1>1, StreamsInvariant, PTL


=============================================================================
