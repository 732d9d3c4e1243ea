------------------------------ MODULE TxnTimers -------------------------------
(***************************************************************************)
(* proxy/mod.rs: the timeouts of transaction_loop, for one client.         *)
(*                                                                         *)
(* Every turn of the loop waits in a select! for the client, the server    *)
(* (when one is assigned) and the timers, which are armed anew each turn.  *)
(* Waiting for a backend and running the reset query happen outside the    *)
(* select!, under no timer.  Time is kept as ages; a tick is a second, and *)
(* no tick passes a timer that is due.                                     *)
(***************************************************************************)
EXTENDS LoopParams

VARIABLES
    where,       \* the place of the loop
    pending,     \* the message that waits for a backend
    server,      \* whether a backend is assigned
    inTxn,       \* in_transaction
    expired,     \* the select! began with no time of tx_start's remaining
    fired,       \* the timer that ended the loop
    backend,     \* what the backend is doing: its transaction and statement
    carried,     \* inTxn stems from a backend that has been given back
    sinceArmed,  \* age of the select!'s sleeps
    sinceTx,     \* tx_start.elapsed()
    txAge,       \* age of the backend's transaction, explicit or implicit
    stepAge,     \* age of the statement that runs, or of the pause since the last one
    waited       \* time spent in acquire_backend

loopVars == <<where, pending, server, inTxn, expired, fired>>
ages     == <<sinceArmed, sinceTx, txAge, stepAge, waited>>
vars     == <<loopVars, backend, carried, ages>>

(* select     in the select!                                               *)
(* acquiring  in acquire_backend                                           *)
(* resetting  in run_reset_query after ReadyForQuery 'I' or ErrorResponse  *)
(* closed     the loop is over                                             *)
Places == {"select", "acquiring", "resetting", "closed"}

\* begin starts a transaction block, parsed does so by Parse and Execute, end
\* leaves it, mention is a query whose text merely contains the word BEGIN.
Statements == {"begin", "parsed", "end", "query", "mention"}

\* txn: "no", or a transaction block that is "open" or has "failed".
Backends == [txn : {"no", "open", "failed"}, runs : Statements \union {"nothing"}]
Quiet    == [txn |-> "no", runs |-> "nothing"]

Init ==
    /\ where = "select" /\ pending = "nothing"
    /\ server = FALSE /\ inTxn = FALSE /\ expired = FALSE /\ fired = "none"
    /\ backend = Quiet /\ carried = FALSE
    /\ sinceArmed = 0 /\ sinceTx = 0 /\ txAge = 0 /\ stepAge = 0 /\ waited = 0

-----------------------------------------------------------------------------
(* The timers *)

\* Mutant: every select! sleeps for the whole timeout.
TxSpentFromArmed(s, flag, elapsed) ==
    s /\ flag /\ TxTimeout > 0 /\ sinceArmed >= TxTimeout

\* Nothing remains of transaction_timeout.
TxSpent(s, flag, elapsed) == s /\ flag /\ TxTimeout > 0 /\ elapsed >= TxTimeout

TxDue   == TxSpent(server, inTxn, sinceTx)
IdleDue == ClientIdle > 0 /\ sinceArmed >= ClientIdle
WaitDue == server /\ QueryWait > 0 /\ sinceArmed >= QueryWait

\* The loop turns and arms the timers.
Arm ==
    /\ where' = "select"
    /\ sinceArmed' = 0
    /\ expired' = TxSpent(server', inTxn', sinceTx')

\* A message can be read: with no time remaining the loop does not try.
Open == where = "select" /\ ~expired

Timeout(why) ==
    /\ where = "select"
    /\ \/ why = "transaction" /\ TxDue
       \/ why = "idle" /\ IdleDue /\ ~expired
       \/ why = "wait" /\ WaitDue /\ ~expired
    /\ where' = "closed"
    /\ fired' = why
    /\ UNCHANGED <<pending, server, inTxn, expired, backend, carried, ages>>

-----------------------------------------------------------------------------
(* The client *)

\* Mutant: tx_start is left as it was.
BeginSeenLate(q) ==
    IF q \in {"begin", "mention"}
    THEN inTxn' = TRUE /\ carried' = FALSE /\ UNCHANGED sinceTx
    ELSE UNCHANGED <<inTxn, carried, sinceTx>>

\* The loop looks for BEGIN in the text of a simple query.
BeginSeen(q) ==
    IF q \in {"begin", "mention"}
    THEN inTxn' = TRUE /\ carried' = FALSE /\ sinceTx' = 0
    ELSE UNCHANGED <<inTxn, carried, sinceTx>>

\* The backend has the statement q from now on.
Runs(q) ==
    /\ backend' = [backend EXCEPT !.runs = q]
    /\ txAge' = IF backend.txn = "no" THEN 0 ELSE txAge
    /\ stepAge' = 0

ClientMsg(q) ==
    /\ Open /\ server /\ backend.runs = "nothing"
    /\ BeginSeen(q)
    /\ Runs(q)
    /\ UNCHANGED <<pending, server, fired, waited>>
    /\ Arm

\* No backend: the handler waits for one, outside the select!.
ClientWaits(q) ==
    /\ Open /\ ~server
    /\ where' = "acquiring" /\ pending' = q /\ waited' = 0
    /\ UNCHANGED <<server, inTxn, expired, fired, backend, carried, sinceArmed, sinceTx, txAge, stepAge>>

Acquired ==
    /\ where = "acquiring"
    /\ server' = TRUE /\ pending' = "nothing"
    /\ BeginSeen(pending)
    /\ Runs(pending)
    /\ UNCHANGED <<fired, waited>>
    /\ Arm

\* The client leaves or the connection breaks; creation of a backend fails.
Leave ==
    /\ Open \/ where = "acquiring"
    /\ where' = "closed" /\ pending' = "nothing"
    /\ UNCHANGED <<server, inTxn, expired, fired, backend, carried, ages>>

-----------------------------------------------------------------------------
(* The server *)

\* A row, a notice, a CommandComplete: passed on.
Row ==
    /\ Open /\ backend.runs # "nothing"
    /\ UNCHANGED <<pending, server, inTxn, fired, backend, carried, sinceTx, txAge, stepAge, waited>>
    /\ Arm

\* The statement is over and leaves the backend in txn.
Ends(txn) == backend' = [txn |-> txn, runs |-> "nothing"] /\ stepAge' = 0

\* ReadyForQuery 'T'.
ReadyInTxn ==
    /\ Open
    /\ \/ backend.runs \in {"begin", "parsed"} /\ backend.txn = "no"
       \/ backend.runs \notin {"nothing", "end"} /\ backend.txn = "open"
    /\ Ends("open")
    /\ inTxn' = TRUE /\ carried' = FALSE /\ sinceTx' = 0
    /\ UNCHANGED <<pending, server, fired, txAge, waited>>
    /\ Arm

\* ReadyForQuery 'E', which the loop ignores.
ReadyFailed ==
    /\ Open /\ backend.txn # "no" /\ backend.runs \notin {"nothing", "end"}
    /\ Ends("failed")
    /\ UNCHANGED <<pending, server, inTxn, fired, carried, sinceTx, txAge, waited>>
    /\ Arm

\* ReadyForQuery 'I', or an ErrorResponse while in_transaction is false.
ReadyIdle ==
    /\ Open /\ server
    /\ \/ backend.runs = "end"
       \/ backend.runs # "nothing" /\ backend.txn = "no"
    /\ Ends("no")
    /\ where' = "resetting"
    /\ UNCHANGED <<pending, server, inTxn, expired, fired, carried, sinceArmed, sinceTx, txAge, waited>>

\* run_reset_query returns and the backend is given back; the flag is cleared
\* when it returned true.
ResetReturns ==
    /\ where = "resetting"
    /\ server' = FALSE
    /\ \/ inTxn' = FALSE /\ carried' = FALSE
       \/ UNCHANGED inTxn /\ carried' = inTxn
    /\ UNCHANGED <<pending, fired, backend, sinceTx, txAge, stepAge, waited>>
    /\ Arm

-----------------------------------------------------------------------------
(* Specification *)

Older(age) == IF age < MaxAge THEN age + 1 ELSE age

Tick ==
    /\ where # "closed"
    /\ where = "select" => ~(TxDue \/ IdleDue \/ WaitDue)
    /\ sinceArmed' = Older(sinceArmed)
    /\ sinceTx' = Older(sinceTx)
    /\ txAge' = Older(txAge)
    /\ stepAge' = Older(stepAge)
    /\ waited' = IF where = "acquiring" THEN Older(waited) ELSE waited
    /\ UNCHANGED <<loopVars, backend, carried>>

Next ==
    \/ \E q \in Statements : ClientMsg(q) \/ ClientWaits(q)
    \/ Acquired \/ Leave
    \/ Row \/ ReadyInTxn \/ ReadyFailed \/ ReadyIdle \/ ResetReturns
    \/ \E why \in {"transaction", "idle", "wait"} : Timeout(why)
    \/ Tick

Spec == Init /\ [][Next]_vars

-----------------------------------------------------------------------------
(* Properties *)

\* A backend is assigned while it runs something or is in a transaction, and
\* nobody waits for one meanwhile.
LoopOK ==
    /\ where = "acquiring" => ~server /\ pending # "nothing"
    /\ where = "resetting" => server
    /\ where \in {"select", "acquiring"} /\ ~server => backend = Quiet
    /\ where = "resetting" => backend = Quiet
    /\ where = "select" /\ server => backend # Quiet
    /\ where = "select" /\ expired => TxDue

TypeOK ==
    /\ where \in Places /\ pending \in Statements \union {"nothing"}
    /\ server \in BOOLEAN /\ inTxn \in BOOLEAN /\ expired \in BOOLEAN
    /\ fired \in {"none", "transaction", "idle", "wait"}
    /\ backend \in Backends /\ carried \in BOOLEAN
    /\ sinceArmed \in 0..MaxAge /\ sinceTx \in 0..MaxAge
    /\ txAge \in 0..MaxAge /\ stepAge \in 0..MaxAge /\ waited \in 0..MaxAge
    /\ LoopOK

\* Inside a transaction block no statement runs, and no pause of the client
\* lasts, longer than transaction_timeout while the loop listens: however many
\* rows go by, and although the select! arms its sleeps anew for each.  Only
\* the next statement or the next ReadyForQuery 'T' begins a new term.
StepsAreTimed ==
    Open /\ server /\ backend.txn # "no" /\ TxTimeout > 0 => stepAge <= TxTimeout

\* "max duration of a single transaction" (README.md:325): the loop listens no
\* longer than transaction_timeout to a transaction block.
TransactionBounded ==
    Open /\ server /\ backend.txn # "no" /\ TxTimeout > 0 => txAge <= TxTimeout

\* tx_start is never older than the transaction it times, so that no
\* transaction is cut short, unless in_transaction was carried over from a
\* backend that is gone.
TimerNotAhead ==
    where = "select" /\ server /\ inTxn /\ ~carried => sinceTx <= txAge

=============================================================================
