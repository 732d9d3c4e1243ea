------------------------------- MODULE Frames --------------------------------
(***************************************************************************)
(* proxy/mod.rs, the select! of transaction_loop, and read_pg_message of   *)
(* pgproto: messages as they arrive in fragments, while a backend is       *)
(* assigned.                                                               *)
(*                                                                         *)
(* The branch that completes a message wins; the read of the other is      *)
(* dropped, with what it has taken from its stream, and begins again in    *)
(* the next turn of the loop with what it finds then.                      *)
(***************************************************************************)
EXTENDS SequencesExt, LoopParams

VARIABLES
    plan,
    arrived,  \* up to where each stream can be read
    taken,    \* up to where it has been read
    from,     \* where the read of this turn began
    length,   \* the length it has read in the header, 0 before
    passed,   \* what has been written to the other side, message by message
    dropped   \* history: a read has been dropped that had taken something

vars == <<plan, arrived, taken, from, length, passed, dropped>>

Ends(s)       == plan.ends[s]
End(s, m)     == IF m = 0 THEN 0 ELSE Ends(s)[m]
Total(s)      == End(s, Len(Ends(s)))
Message(s, m) == <<End(s, m - 1), End(s, m)>>
Messages(s)   == [m \in DOMAIN Ends(s) |-> Message(s, m)]

Init ==
    /\ plan \in Plans
    /\ arrived = [s \in Sides |-> 0]
    /\ taken = [s \in Sides |-> 0]
    /\ from = [s \in Sides |-> 0]
    /\ length = [s \in Sides |-> 0]
    /\ passed = [s \in Sides |-> <<>>]
    /\ dropped = FALSE

\* The stream brings more of what has been said by now.
Arrive(s) ==
    /\ \E n \in (arrived[s] + 1)..Total(s) :
          /\ s \notin plan.split => \E m \in DOMAIN Ends(s) : n = End(s, m)
          /\ \A m \in DOMAIN Ends(s) :
                 End(s, m - 1) < n => plan.after[s][m] <= Len(passed[Other(s)])
          /\ arrived' = [arrived EXCEPT ![s] = n]
    /\ UNCHANGED <<plan, taken, from, length, passed, dropped>>

\* Mutant: the length counts itself, and is not corrected for that.
LengthsWithOwn(s) ==
    LET begun == {m \in DOMAIN Ends(s) : End(s, m - 1) = from[s]}
    IN  CASE length[s] # 0 -> {length[s]}
          [] length[s] = 0 /\ begun # {} -> {End(s, m) - End(s, m - 1) + 1 : m \in begun}
          [] OTHER -> 1..(Total(s) + 1)

\* The lengths a read can find: the one of the header it has begun with, or
\* any, where it began in the middle of a message.
Lengths(s) ==
    LET begun == {m \in DOMAIN Ends(s) : End(s, m - 1) = from[s]}
    IN  CASE length[s] # 0 -> {length[s]}
          [] length[s] = 0 /\ begun # {} -> {End(s, m) - End(s, m - 1) : m \in begun}
          [] OTHER -> 1..(Total(s) + 1)

\* Mutant: the read takes all there is, and what is left over goes with it.
PassAll(s, till) ==
    /\ passed' = [passed EXCEPT ![s] = Append(@, <<from[s], till>>)]
    /\ taken' = [taken EXCEPT ![s] = arrived[s]]
    /\ from' = taken'
    /\ length' = [t \in Sides |-> 0]
    /\ dropped' = (dropped \/ taken[Other(s)] # from[Other(s)])

\* The message that is complete goes to the other side.  In the next turn both
\* reads begin anew, each where its stream is then.
Pass(s, till) ==
    /\ passed' = [passed EXCEPT ![s] = Append(@, <<from[s], till>>)]
    /\ taken' = [taken EXCEPT ![s] = till]
    /\ from' = taken'
    /\ length' = [t \in Sides |-> 0]
    /\ dropped' = (dropped \/ taken[Other(s)] # from[Other(s)])

\* The read of side s goes as far as what has arrived lets it.
Read(s, n) ==
    \/ from[s] + n <= arrived[s] /\ Pass(s, from[s] + n)
    \/ /\ from[s] + n > arrived[s]
       /\ taken' = [taken EXCEPT ![s] = arrived[s]]
       /\ length' = [length EXCEPT ![s] = n]
       /\ UNCHANGED <<from, passed, dropped>>

Poll(s) ==
    /\ taken[s] < arrived[s]
    /\ \E n \in Lengths(s) : Read(s, n)
    /\ UNCHANGED <<plan, arrived>>

Next == \E s \in Sides : Arrive(s) \/ Poll(s)

Spec == Init /\ [][Next]_vars

\* The streams deliver, and the loop polls both of them.
FairSpec == Spec /\ \A s \in Sides : WF_vars(Arrive(s)) /\ WF_vars(Poll(s))

-----------------------------------------------------------------------------
(* Properties *)

\* Of two messages of different sides one waits until the other has been passed
\* on, as in a dialogue of one query and its answer after the other.
InTurns ==
    \A m \in DOMAIN Ends("client"), n \in DOMAIN Ends("server") :
        plan.after["client"][m] >= n \/ plan.after["server"][n] >= m

\* select! drops a read that has taken something only when both sides speak at
\* once, and one of them in pieces.
NothingDropped == plan.split = {} \/ InTurns => ~dropped

\* As long as no such read is dropped, what each side is passed are the messages
\* of the other: none lost, none torn, none out of order.
PassedInOrder == ~dropped => \A s \in Sides : IsPrefix(passed[s], Messages(s))

FramesInv == NothingDropped /\ PassedInOrder

\* And in the end it is all of them, once something has arrived.
AllPassed ==
    (plan.split = {} \/ InTurns) /\ (\E s \in Sides : arrived[s] # 0)
        ~> \A s \in Sides : passed[s] = Messages(s)

=============================================================================
