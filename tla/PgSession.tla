------------------------------ MODULE PgSession -------------------------------
(***************************************************************************)
(* PostgreSQL as transaction_loop and run_reset_query expect it: what a    *)
(* statement does to a session and what is answered.                       *)
(***************************************************************************)
EXTENDS Sequences

CONSTANTS
    Clients,     \* clients, each with its handler
    NoClient

ClientSql == {"select", "set", "begin", "commit", "bad", "parse", "close"}
PoolSql   == {"reset", "deallocate"}

\* A message and the client whose statement it belongs to, or NoClient.
Requests == [by : Clients \union {NoClient},
             sql : ClientSql \union PoolSql \union {"terminate"}]
Answers  == [by : Clients \union {NoClient}, type : {"C", "E", "Z"},
             status : {"I", "T", "E"}]

\* The transaction status, who opened the transaction, whose SETs are in force.
Sessions == [status : {"I", "T", "E"}, txn : Clients \union {NoClient},
             settings : Clients \union {NoClient}]

NewSession == [status |-> "I", txn |-> NoClient, settings |-> NoClient]

\* In a failed transaction only its end succeeds, DISCARD ALL fails in any
\* transaction, and a DEALLOCATE after it finds nothing to deallocate.
Succeeds(s, r) ==
    \/ r.sql = "commit"
    \/ r.sql \in {"select", "set", "parse", "close", "begin"} /\ s.status # "E"
    \/ r.sql = "reset" /\ s.status = "I"

\* What a statement leaves of the session.
Leaves(s, r) ==
    CASE ~Succeeds(s, r) -> [s EXCEPT !.status = IF @ = "I" THEN "I" ELSE "E"]
      [] r.sql = "set" -> [s EXCEPT !.settings = r.by]
      [] r.sql = "begin" /\ s.status = "I" -> [s EXCEPT !.status = "T", !.txn = r.by]
      [] r.sql = "commit" -> [s EXCEPT !.status = "I", !.txn = NoClient]
      [] r.sql = "reset" -> [s EXCEPT !.settings = NoClient]
      [] OTHER -> s

\* CommandComplete or ErrorResponse, and ReadyForQuery.
AnswersTo(s, r) ==
    LET m(type) == [by |-> r.by, type |-> type, status |-> Leaves(s, r).status]
    IN  << m(IF Succeeds(s, r) THEN "C" ELSE "E"), m("Z") >>

=============================================================================
