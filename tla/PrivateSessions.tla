--------------------------- MODULE PrivateSessions ----------------------------
(***************************************************************************)
(* What transaction mode promises to a client that runs one statement at a *)
(* time: a backend of its own, whose settings last to the end of the       *)
(* transaction, and no other backend in the middle of one.  There is no    *)
(* pool here, no handler, and no reset; clients have nothing to do with    *)
(* each other.                                                             *)
(***************************************************************************)
EXTENDS Integers, PgSession

VARIABLES
    session,    \* each client's session
    asked,      \* its statement, if it has not been executed
    replies,    \* what was answered and not yet passed on to it
    ended       \* the clients that left or whose backend failed

privateVars == <<session, asked, replies, ended>>

Init ==
    /\ session = [c \in Clients |-> NewSession]
    /\ asked = [c \in Clients |-> <<>>]
    /\ replies = [c \in Clients |-> <<>>]
    /\ ended = {}

Over(m) == m.type = "Z" /\ m.status = "I"

\* A client that has seen all answers sends its next statement.
Ask(c, sql) ==
    /\ asked[c] = <<>> /\ replies[c] = <<>> /\ c \notin ended
    /\ asked' = [asked EXCEPT ![c] = <<[by |-> c, sql |-> sql]>>]
    /\ UNCHANGED <<session, replies, ended>>

\* The statement is executed, in the client's session and for the client.
Run(c) ==
    /\ asked[c] # <<>> /\ replies[c] = <<>>
    /\ session' = [session EXCEPT ![c] = Leaves(@, Head(asked[c]))]
    /\ replies' = [replies EXCEPT ![c] = AnswersTo(session[c], Head(asked[c]))]
    /\ asked' = [asked EXCEPT ![c] = <<>>]
    /\ UNCHANGED ended

\* The client is passed the next message.  ReadyForQuery 'I' ends the
\* transaction, and what it has set: the client goes on even if its backend
\* has failed since.
Pass(c) ==
    /\ replies[c] # <<>>
    /\ replies' = [replies EXCEPT ![c] = Tail(@)]
    /\ \/ /\ Over(Head(replies[c]))
          /\ session' = [session EXCEPT ![c] = NewSession]
          /\ ended' = ended \ {c}
       \/ ~Over(Head(replies[c])) /\ UNCHANGED <<session, ended>>
    /\ UNCHANGED asked

\* The client leaves, or its backend fails: nothing more is executed for it,
\* and of the answers some may be lost.
End(c) ==
    /\ c \notin ended
    /\ ended' = ended \union {c}
    /\ session' = [session EXCEPT ![c] = NewSession]
    /\ asked' = [asked EXCEPT ![c] = <<>>]
    /\ \E n \in 0..Len(replies[c]) :
          replies' = [replies EXCEPT ![c] = SubSeq(@, 1, n)]

Next ==
    \E c \in Clients :
        Run(c) \/ Pass(c) \/ End(c) \/ \E sql \in ClientSql : Ask(c, sql)

Spec == Init /\ [][Next]_privateVars

=============================================================================
