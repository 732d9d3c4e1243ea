-------------------------------- MODULE Relay ---------------------------------
(***************************************************************************)
(* The select! of transaction_loop: its timers (TxnTimers) and the         *)
(* messages its reads take from the streams (Frames).  They share no       *)
(* state.                                                                  *)
(***************************************************************************)
EXTENDS TxnTimers

VARIABLES plan, arrived, taken, from, length, passed, dropped

Streams == INSTANCE Frames

-----------------------------------------------------------------------------
(* The properties of Frames, stated there *)

\* Messages are passed whole and in order, unless both sides speak at once and
\* one of them in pieces.
FramesInv == Streams!FramesInv

\* And then all of them are.
AllPassed == Streams!AllPassed

=============================================================================
