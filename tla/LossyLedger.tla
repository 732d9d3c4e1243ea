----------------------------- MODULE LossyLedger ------------------------------
(***************************************************************************)
(* SlotLedger for a program that can lose slots: what the client handlers  *)
(* and warm-up tasks make of PoolManager's promise.  A lost slot is        *)
(* counted, and nothing brings it back.                                    *)
(***************************************************************************)
EXTENDS SlotLedger

VARIABLE lost    \* how many slots of each pool nobody has and none is left to free

lossyLedger == <<ledger, lost>>

LossyInit == Init /\ lost = [k \in Keys |-> 0]

\* The owner of a slot goes away and does not give it back.
Lose(k) ==
    /\ inUse[k] > 0
    /\ inUse' = [inUse EXCEPT ![k] = @ - 1]
    /\ lost' = [lost EXCEPT ![k] = @ + 1]
    /\ UNCHANGED <<free, parked>>

LossyNext == (Next /\ UNCHANGED lost) \/ \E k \in Keys : Lose(k)

LossySpec == LossyInit /\ [][LossyNext]_lossyLedger

=============================================================================
