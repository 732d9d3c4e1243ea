-------------------------------- MODULE MCLoop --------------------------------
(* transaction_loop for TLC, with two clients on its wire: a behaviour moves  *)
(* one of TxnTimers, Frames and TxnWire and leaves the others in an initial   *)
(* state.                                                                     *)
EXTENDS Loop

CONSTANTS c1, c2

AllHabits == {"fails", "prepares", "pipelines", "breaks off"}
MCSent    == [h \in {{}, AllHabits} |-> IF h = {} THEN 5 ELSE 3]

Both(c, s) == [x \in {"client", "server"} |-> IF x = "client" THEN c ELSE s]

\* Both speak in whole messages and at once; in pieces and in turns; at once,
\* and one of them or both in pieces.
MCPlans ==
    {[ends |-> Both(<<1, 3, 5, 6>>, <<2, 3, 5>>),
      after |-> Both(<<0, 0, 0, 0>>, <<1, 1, 1>>), split |-> {}],
     [ends |-> Both(<<3, 4, 6>>, <<2, 5, 7>>),
      after |-> Both(<<0, 2, 3>>, <<1, 1, 2>>), split |-> {"client", "server"}],
     [ends |-> Both(<<1, 2>>, <<2>>),
      after |-> Both(<<0, 0>>, <<1>>), split |-> {"server"}],
     [ends |-> Both(<<2, 4>>, <<2, 3>>),
      after |-> Both(<<0, 0>>, <<1, 1>>), split |-> {"client", "server"}]}

-----------------------------------------------------------------------------

timersVars == <<where, pending, server, flag, expired, fired, backend, carried,
                sinceArmed, sinceTx, txAge, stepAge, waited>>
framesVars == <<plan, arrived, taken, from, length, passed, dropped>>
MCVars     == <<vars, timersVars, framesVars>>

WireRests  == Init /\ habits = {}
FramesRest == Streams!Init /\ plan.ends["server"] = <<2>>

WireAlone   == Timers!Init /\ FramesRest /\ UNCHANGED <<timersVars, framesVars>>
TimersAlone == WireRests /\ FramesRest /\ UNCHANGED <<vars, framesVars>>
FramesAlone == WireRests /\ Timers!Init /\ UNCHANGED <<vars, timersVars>>

MCInit ==
    \/ Init /\ Timers!Init /\ FramesRest
    \/ WireRests /\ Timers!Init /\ Streams!Init

MCNext == (WireAlone /\ Next) \/ (TimersAlone /\ Timers!Next) \/ (FramesAlone /\ Streams!Next)

\* Fairness is that of TxnWire, which at rest has nothing to do, and of Frames.
MCSpec ==
    /\ MCInit /\ [][MCNext]_MCVars
    /\ WF_vars(Serve) /\ \A c \in Clients : WF_vars(Handle(c))
    /\ \A s \in Sides : /\ WF_MCVars(FramesAlone /\ Streams!Arrive(s))
                        /\ WF_MCVars(FramesAlone /\ Streams!Poll(s))

=============================================================================
