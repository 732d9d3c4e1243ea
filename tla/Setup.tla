-------------------------------- MODULE Setup ---------------------------------
(***************************************************************************)
(* What the program does before a client has its session: its start and    *)
(* its health checker (Program), the startup message it reads from clients *)
(* and writes to backends (StartupCodec), and the login of the client      *)
(* (ClientLogin).  They share no state.                                    *)
(***************************************************************************)
EXTENDS Program, LoginParams

CONSTANTS Word, Nul, User, Database, Letters, MaxBytes, MaxLen

VARIABLES len, code, buf, codecPc, offset, params, first, next, sent

VARIABLES loginCfg, who, loginPc, tls, method, told, lookup, evidence

Codec == INSTANCE StartupCodec WITH pc <- codecPc
Front == INSTANCE ClientLogin WITH cfg <- loginCfg, pc <- loginPc

ASSUME CodecAssumption == Codec!CodecAssumption

-----------------------------------------------------------------------------
(* The properties of StartupCodec, stated there *)

\* A startup message that is written is read back.
RoundTrip == Codec!RoundTrip

\* Reading a message panics only when it is malformed.
PanicsOnlyMalformed == Codec!PanicsOnlyMalformed

-----------------------------------------------------------------------------
(* The properties of ClientLogin, stated there *)

\* A client is admitted only by its method and on what that demands.
LoginInv == Front!LoginInv

\* The first rule that matches decides.
FirstMatchDecides == Front!FirstMatchDecides

\* A refusal is told.
RefusalIsTold == Front!RefusalIsTold

=============================================================================
