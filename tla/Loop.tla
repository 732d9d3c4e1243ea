--------------------------------- MODULE Loop ---------------------------------
(***************************************************************************)
(* transaction_loop: the sessions on its wire (TxnWire), its timers        *)
(* (TxnTimers) and the messages its reads take from the streams (Frames).  *)
(* They share no state.                                                    *)
(***************************************************************************)
EXTENDS TxnWire, LoopParams

VARIABLES where, pending, server, flag, expired, fired, backend, carried,
          sinceArmed, sinceTx, txAge, stepAge, waited,
          plan, arrived, taken, from, length, passed, dropped

Timers  == INSTANCE TxnTimers WITH inTxn <- flag
Streams == INSTANCE Frames

-----------------------------------------------------------------------------
(* The properties of TxnTimers and Frames, stated there *)

\* Statements and pauses in a transaction are under transaction_timeout.
StepsAreTimed == Timers!StepsAreTimed

\* No transaction is cut short but after a reset that failed.
TimerNotAhead == Timers!TimerNotAhead

\* Messages are passed whole and in order, unless both sides speak at once and
\* one of them in pieces.
FramesInv == Streams!FramesInv

\* And then all of them are.
AllPassed == Streams!AllPassed

=============================================================================
