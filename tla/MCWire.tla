-------------------------------- MODULE MCWire --------------------------------
(* TxnWire with two clients who send named statements.                        *)
EXTENDS TxnWire

CONSTANTS c1, c2

MCPrepares == [h \in {{"prepares"}} |-> 3]

=============================================================================
