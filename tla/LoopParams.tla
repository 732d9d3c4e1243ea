------------------------------ MODULE LoopParams ------------------------------
(***************************************************************************)
(* The parameters of TxnTimers and of Frames.                              *)
(***************************************************************************)
EXTENDS Integers, Sequences

CONSTANTS
    ClientIdle,  \* client_idle_timeout_secs, 0 disables
    TxTimeout,   \* transaction_timeout_secs, 0 disables
    QueryWait,   \* query_wait_timeout_secs, 0 disables
    MaxAge       \* bound on the ages, which stay there

ASSUME TimersAssumption ==
    /\ ClientIdle \in Nat /\ TxTimeout \in Nat /\ QueryWait \in Nat
    /\ MaxAge \in Nat
    /\ ClientIdle < MaxAge /\ TxTimeout < MaxAge /\ QueryWait < MaxAge

\* What the two sides say: where the messages of each end in its stream, how
\* many of the other side's each of them waits for, and the sides whose
\* messages arrive piece by piece.
CONSTANT Plans

Sides == {"client", "server"}
Other(s) == IF s = "client" THEN "server" ELSE "client"

\* Streams are counted in pieces, the first of a message with its type and
\* length.  The backend says nothing before a message of the client has made
\* the proxy assign it.
ASSUME FramesAssumption ==
    \A p \in Plans :
        /\ p.ends \in [Sides -> Seq(Nat \ {0})] /\ p.after \in [Sides -> Seq(Nat)]
        /\ \A s \in Sides : \A m, n \in DOMAIN p.ends[s] :
               m < n => p.ends[s][m] < p.ends[s][n]
        /\ \A s \in Sides : DOMAIN p.after[s] = DOMAIN p.ends[s]
        /\ \A m \in DOMAIN p.after["server"] : p.after["server"][m] > 0
        /\ p.split \subseteq Sides

=============================================================================
