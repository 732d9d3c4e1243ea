------------------------------- MODULE TxnWire --------------------------------
(***************************************************************************)
(* proxy/mod.rs, transaction_loop and run_reset_query, message by message: *)
(* one backend connection as one client's handler after another uses it.   *)
(*                                                                         *)
(* The server answers what it is sent strictly in order, each statement    *)
(* with CommandComplete or ErrorResponse and then ReadyForQuery.  The      *)
(* proxy writes statements of the client, server_reset_query (DISCARD ALL) *)
(* and DEALLOCATE, and has no record of which answers are outstanding: it  *)
(* takes the next message for the answer to what it asked last.  A backend *)
(* that is dropped is followed by a new one.                               *)
(***************************************************************************)
EXTENDS Integers, SequencesExt, PgSession

CONSTANTS
    MaxSent,     \* for the sets of habits considered, the statements sent at most
    MaxFailures  \* bound on the backends that fail

Profiles == DOMAIN MaxSent

(* What clients do beyond one statement at a time to its end:              *)
(* fails       a statement fails outside a transaction                     *)
(* prepares    a named Parse                                               *)
(* pipelines   the next statement is sent before the last one is answered  *)
(* breaks off  the client leaves, or is timed out, with a backend assigned *)
ASSUME WireAssumption ==
    /\ Profiles \subseteq SUBSET {"fails", "prepares", "pipelines", "breaks off"}
    /\ MaxSent \in [Profiles -> Nat]
    /\ MaxFailures \in Nat
    /\ NoClient \notin Clients

VARIABLES
    habits,     \* those of the clients of this behaviour
    requests,   \* written to the backend and not yet executed
    answers,    \* written by the backend and not yet read by the proxy
    session,    \* the backend's session
    alive,      \* the backend has not closed the connection
    failures,   \* backends that have failed
    owner,      \* the client whose handler has the backend, or NoClient
    pc,         \* where that handler is
    after,      \* why it resets the backend
    inTxn,      \* in_transaction of each handler
    prepared,   \* how many names are in prepared, for each handler
    left,       \* DEALLOCATEs of the loop still to be answered
    awaiting,   \* ReadyForQuery messages each client waits for
    gone,       \* clients that have left
    sent

wireVars   == <<requests, answers, session, alive, failures>>
handlerVars == <<owner, pc, after, inTxn, prepared, left>>
clientVars == <<awaiting, gone, sent>>
vars       == <<habits, wireVars, handlerVars, clientVars>>

Init ==
    /\ habits \in Profiles
    /\ requests = <<>> /\ answers = <<>>
    /\ session = NewSession
    /\ alive = TRUE /\ failures = 0
    /\ owner = NoClient /\ pc = "loop" /\ after = "settle"
    /\ inTxn = [c \in Clients |-> FALSE]
    /\ prepared = [c \in Clients |-> 0]
    /\ left = 0
    /\ awaiting = [c \in Clients |-> 0]
    /\ gone = {}
    /\ sent = 0

-----------------------------------------------------------------------------
(* The backend *)

Execute ==
    /\ requests # <<>> /\ Head(requests).sql # "terminate"
    /\ session' = Leaves(session, Head(requests))
    /\ answers' = answers \o AnswersTo(session, Head(requests))
    /\ requests' = Tail(requests)
    /\ UNCHANGED <<habits, alive, failures, handlerVars, clientVars>>

\* The backend closes the connection and reads no more.
Close == alive' = FALSE /\ requests' = <<>>

Terminated ==
    /\ requests # <<>> /\ Head(requests).sql = "terminate"
    /\ Close
    /\ UNCHANGED <<habits, answers, session, failures, handlerVars, clientVars>>

\* The backend or the network fails; answers on the way may be lost.
Fails ==
    /\ alive /\ failures < MaxFailures
    /\ failures' = failures + 1
    /\ Close
    /\ \E n \in 0..Len(answers) : answers' = SubSeq(answers, 1, n)
    /\ UNCHANGED <<habits, session, handlerVars, clientVars>>

-----------------------------------------------------------------------------
(* The handler *)

Statement(by, sql) == <<[by |-> by, sql |-> sql]>>

\* What is written to a connection that was closed is lost.
Write(messages) == requests' = IF alive THEN requests \o messages ELSE requests

\* Mutant: the query is not flushed.
BeginResetUnsent(before, why) == UNCHANGED requests /\ pc' = "reset" /\ after' = why

\* run_reset_query up to its first read, after a last message it may be; the
\* write to a connection that was closed may fail.
BeginReset(before, why) ==
    /\ \/ Write(before \o Statement(NoClient, "reset")) /\ pc' = "reset"
       \/ ~alive /\ pc' = "failed" /\ UNCHANGED requests
    /\ after' = why

\* release: the backend goes to whoever acquires next.
Park == owner' = NoClient /\ pc' = "loop"

\* The names a handler records: a Parse adds one, a Close removes one it knows.
Names(n, sql) ==
    IF sql = "parse" THEN n + 1 ELSE IF sql = "close" /\ n > 0 THEN n - 1 ELSE n

\* A client sends a statement and its handler, which acquires the backend if
\* it has none, passes it on.  in_transaction is set if it is a simple query
\* with BEGIN somewhere in its text, which one without effect may have too and
\* one sent with Parse does not.  The loop ends when the write fails.
Send(c, sql) ==
    /\ c \notin gone /\ sent < MaxSent[habits]
    /\ owner \in {c, NoClient} /\ pc = "loop"
    /\ awaiting[c] = 0 \/ "pipelines" \in habits
    /\ sql = "bad" => inTxn[c] \/ "fails" \in habits
    /\ sql \in {"parse", "close"} => "prepares" \in habits
    /\ owner' = c
    /\ \/ Write(Statement(c, sql)) /\ UNCHANGED <<pc, after, gone>>
       \/ ~alive /\ BeginReset(<<>>, "close") /\ gone' = gone \union {c}
    /\ \E mentionsBegin \in BOOLEAN :
          /\ mentionsBegin => sql \in {"begin", "select"}
          /\ inTxn' = [inTxn EXCEPT ![c] = @ \/ mentionsBegin]
    /\ prepared' = [prepared EXCEPT ![c] = Names(@, sql)]
    /\ awaiting' = [awaiting EXCEPT ![c] = @ + 1]
    /\ sent' = sent + 1
    /\ UNCHANGED <<habits, answers, session, alive, failures, left>>

\* The client has seen a message: every ReadyForQuery ends a statement.
Deliver(c, m) ==
    awaiting' = IF m.type = "Z" /\ awaiting[c] > 0
                THEN [awaiting EXCEPT ![c] = @ - 1] ELSE awaiting

\* Mutant: the status is looked at for failure only.
TransactionOverAny(m) == m.type = "Z" /\ m.status # "E"

\* ReadyForQuery with status 'I'.
TransactionOver(m) == m.type = "Z" /\ m.status = "I"

\* Mutant: every error counts.
ErrorAnywhere(c, m) == m.type = "E"

\* ErrorResponse while in_transaction is false.
ErrorOutside(c, m) == m.type = "E" /\ ~inTxn[c]

\* A message of the backend is written to the client and looked at: the two
\* above start a reset, ReadyForQuery 'T' sets in_transaction.
Forward(c) ==
    /\ owner = c /\ pc = "loop" /\ answers # <<>>
    /\ LET m == Head(answers)
       IN  /\ Deliver(c, m)
           /\ \/ /\ TransactionOver(m)
                 /\ BeginReset(<<>>, "settle")
                 /\ UNCHANGED inTxn
              \/ /\ ErrorOutside(c, m)
                 /\ BeginReset(<<>>, "error")
                 /\ UNCHANGED inTxn
              \/ /\ ~TransactionOver(m) /\ ~ErrorOutside(c, m)
                 /\ inTxn' = [inTxn EXCEPT ![c] = @ \/ (m.type = "Z" /\ m.status = "T")]
                 /\ UNCHANGED <<requests, pc, after>>
    /\ answers' = Tail(answers)
    /\ UNCHANGED <<habits, session, alive, failures, owner, prepared, left, gone, sent>>

\* End of stream.
ServerEnds(c) ==
    /\ owner = c /\ pc = "loop" /\ answers = <<>> /\ ~alive
    /\ BeginReset(<<>>, "close")
    /\ gone' = gone \union {c}
    /\ UNCHANGED <<habits, answers, session, alive, failures, owner, inTxn, prepared, left,
                   awaiting, sent>>

\* Mutant: the first message is enough.
ResetAnsweredAtOnce(m) == m.type \in {"C", "E", "Z"}

\* run_reset_query returns true at the first ReadyForQuery, whatever came
\* before it and whatever its status.
ResetAnswered(m) == m.type = "Z"

\* Mutant: in_transaction is left as it is.
ForgetNamesOnly(c) == prepared' = [prepared EXCEPT ![c] = 0] /\ UNCHANGED inTxn

\* The end of the reset that follows ReadyForQuery 'I'.
ForgetSession(c) ==
    /\ prepared' = [prepared EXCEPT ![c] = 0]
    /\ inTxn' = [inTxn EXCEPT ![c] = FALSE]

\* After 'I' the handler deallocates the names it has recorded; after an error,
\* or when the loop is over, it does not.
ReadReset(c) ==
    /\ owner = c /\ pc = "reset" /\ answers # <<>>
    /\ answers' = Tail(answers)
    /\ LET done == ResetAnswered(Head(answers))
       IN  \/ /\ ~done
              /\ UNCHANGED <<requests, handlerVars>>
           \/ /\ done /\ after = "settle" /\ prepared[c] = 0
              /\ ForgetSession(c)
              /\ Park
              /\ UNCHANGED <<requests, after, left>>
           \/ /\ done /\ after = "settle" /\ prepared[c] > 0
              /\ Write(Statement(NoClient, "deallocate"))
              /\ left' = prepared[c]
              /\ pc' = "deallocate"
              /\ UNCHANGED <<owner, after, inTxn, prepared>>
           \/ /\ done /\ after # "settle"
              /\ Park
              /\ UNCHANGED <<requests, after, inTxn, prepared, left>>
    /\ UNCHANGED <<habits, session, alive, failures, clientVars>>

\* run_reset_query returns false: the write failed, or the stream has ended.
\* After 'I' the backend is released all the same, otherwise it is dropped.
ResetFails(c) ==
    /\ owner = c
    /\ pc = "failed" \/ (pc = "reset" /\ answers = <<>> /\ ~alive)
    /\ Park
    /\ \/ after = "settle" /\ UNCHANGED wireVars
       \/ /\ after # "settle"
          /\ requests' = <<>> /\ answers' = <<>> /\ session' = NewSession /\ alive' = TRUE
          /\ UNCHANGED failures
    /\ UNCHANGED <<habits, after, inTxn, prepared, left, clientVars>>

\* "Drain until ReadyForQuery": both arms of the match break, so the loop reads
\* one message per DEALLOCATE, and goes on if there is none.
ReadDeallocate(c) ==
    /\ owner = c /\ pc = "deallocate"
    /\ \/ answers # <<>> /\ answers' = Tail(answers)
       \/ answers = <<>> /\ ~alive /\ UNCHANGED answers
    /\ left' = left - 1
    /\ \/ /\ left > 1
          /\ Write(Statement(NoClient, "deallocate"))
          /\ UNCHANGED <<owner, pc, inTxn, prepared>>
       \/ /\ left = 1
          /\ ForgetSession(c)
          /\ Park
          /\ UNCHANGED requests
    /\ UNCHANGED <<habits, session, alive, failures, after, clientVars>>

\* The loop ends: a timeout, end of stream, or Terminate, which is passed on.
Leave(c) ==
    /\ c \notin gone
    /\ \/ /\ owner = c /\ pc = "loop" /\ "breaks off" \in habits
          /\ \E last \in {<<>>, Statement(c, "terminate")} : BeginReset(last, "close")
          /\ UNCHANGED owner
       \/ /\ owner # c
          /\ UNCHANGED <<requests, owner, pc, after>>
    /\ gone' = gone \union {c}
    /\ UNCHANGED <<habits, answers, session, alive, failures, inTxn, prepared, left,
                   awaiting, sent>>

-----------------------------------------------------------------------------
(* Specification *)

Serve == Execute \/ Terminated

Handle(c) ==
    Forward(c) \/ ServerEnds(c) \/ ReadReset(c) \/ ResetFails(c) \/ ReadDeallocate(c)

Next ==
    \/ Serve
    \/ Fails
    \/ \E c \in Clients :
          Handle(c) \/ Leave(c) \/ \E sql \in ClientSql : Send(c, sql)

Spec == Init /\ [][Next]_vars

\* The backend executes what it is sent and the runtime runs the handlers.
FairSpec == Spec /\ WF_vars(Serve) /\ \A c \in Clients : WF_vars(Handle(c))

-----------------------------------------------------------------------------
(* Properties *)

WireTypeOK ==
    /\ habits \in Profiles
    /\ requests \in Seq(Requests)
    /\ answers \in Seq(Answers)
    /\ session \in Sessions
    /\ alive \in BOOLEAN
    /\ failures \in 0..MaxFailures
    /\ owner \in Clients \union {NoClient}
    /\ pc \in {"loop", "reset", "failed", "deallocate"}
    /\ after \in {"settle", "error", "close"}
    /\ inTxn \in [Clients -> BOOLEAN]
    /\ prepared \in [Clients -> 0..MaxSent[habits]]
    /\ left \in 0..MaxSent[habits]
    /\ awaiting \in [Clients -> 0..MaxSent[habits]]
    /\ gone \subseteq Clients
    /\ sent \in 0..MaxSent[habits]

\* Whatever clients do, run_reset_query and the DEALLOCATE loop come to an end:
\* they have no timeout, and however the answers they read are misaligned there
\* is always one more to read.
ResetEnds == pc # "loop" ~> pc = "loop"

\* Clients that send one statement at a time, run each transaction to its end
\* and meet no error outside one.
Orderly == habits = {}

\* What an orderly client is sent are the answers to its own statements: never
\* another client's, nor those to the proxy's own queries.
AnswersMatch ==
    [][Orderly /\ pc = "loop" /\ answers # <<>> /\ answers' = Tail(answers)
          => Head(answers).by = owner]_vars

\* What is under way for each client, in which session, and whose backend has
\* failed or who has left.
Serves(c) == owner = c /\ pc = "loop"

ownSession == [c \in Clients |-> IF Serves(c) /\ alive THEN session ELSE NewSession]
ownRequest == [c \in Clients |-> IF Serves(c) THEN requests ELSE <<>>]
ownReplies == [c \in Clients |-> IF Serves(c) THEN answers ELSE <<>>]
ownEnd     == gone \union {c \in Clients : Serves(c) /\ ~alive}

Private ==
    INSTANCE PrivateSessions WITH
        session <- ownSession,
        asked   <- ownRequest,
        replies <- ownReplies,
        ended   <- ownEnd

\* "releases it after each ReadyForQuery('I')" (README.md:316), and orderly
\* clients cannot tell: with one backend for all, each is answered as if it had
\* one of its own that forgets what was set at the end of a transaction.  If
\* a backend fails in a transaction, no other one goes on with it.
Transparent ==
    /\ Private!Init
    /\ [][Orderly => Private!Next]_(Private!privateVars)

\* A statement of an orderly client never runs in a transaction another client
\* opened, nor under another client's SETs.
OwnSession ==
    Orderly /\ requests # <<>> /\ Head(requests).by # NoClient =>
        /\ session.txn \in {NoClient, Head(requests).by}
        /\ session.settings \in {NoClient, Head(requests).by}

\* "Drain until ReadyForQuery" (proxy/mod.rs:940): a backend is parked with no
\* query and no answer outstanding.
ParkedIsQuiet == owner = NoClient => requests = <<>> /\ answers = <<>>

\* "server_reset_query -- SQL sent to reset backend before returning to pool"
\* (README.md:331): a parked backend with nothing left to execute is reset, in
\* no transaction and with no client's settings, unless it has failed.
ParkedIsReset ==
    owner = NoClient /\ requests = <<>> /\ alive => session = NewSession

\* Both hold while clients are orderly: every reset of transaction_loop is then
\* executed outside a transaction and answered before the release.
OrderlyParked == Orderly => ParkedIsQuiet /\ ParkedIsReset

\* in_transaction is what the backend says: when an orderly client has all its
\* answers the flag is set if its backend is in a transaction, failed or not,
\* although the loop guesses it from the text of the query first; and only if,
\* unless a reset has failed, which leaves the flag as it is.
FlagFollowsBackend ==
    \A c \in Clients \ gone :
        Orderly /\ awaiting[c] = 0 /\ pc = "loop" =>
            /\ owner = c /\ session.status # "I" => inTxn[c]
            /\ inTxn[c] /\ failures = 0 => owner = c /\ session.status # "I"

\* Variables keep their types; statements run in their client's own session;
\* the handlers' flags tell what the backend's sessions are.
WireInv == WireTypeOK /\ OwnSession /\ FlagFollowsBackend

\* An orderly client that waits for an answer gets it, unless a backend fails
\* and its connection is closed: the proxy never takes it for the answer to a
\* query of its own.
Answered ==
    \A c \in Clients :
        Orderly /\ awaiting[c] > 0 ~> awaiting[c] = 0 \/ (c \in gone /\ failures > 0)

=============================================================================
