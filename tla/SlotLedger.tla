----------------------------- MODULE SlotLedger ------------------------------
(***************************************************************************)
(* What PoolManager promises, with tasks, queues, clocks and locks gone:   *)
(* every slot of a pool is at any time free, carried by a parked           *)
(* connection, or in use by exactly one task, and a slot only ever changes *)
(* hands in the five ways below.  The doc comment of PoolManager::acquire  *)
(* (pool/mod.rs:213-218) states the same in words.                         *)
(***************************************************************************)
EXTENDS Naturals

CONSTANTS
    Keys,      \* the pools
    Slots,     \* Slots[k]: max_size + reserve_size of pool k
    Parkable   \* Parkable[k]: max_size of pool k

VARIABLES free, parked, inUse    \* how many slots of each pool are in each state

ledger == <<free, parked, inUse>>

Init ==
    /\ free = Slots
    /\ parked = [k \in Keys |-> 0]
    /\ inUse = [k \in Keys |-> 0]

\* A free slot is taken for a new backend.
Claim(k) ==
    /\ free[k] > 0
    /\ free' = [free EXCEPT ![k] = @ - 1]
    /\ inUse' = [inUse EXCEPT ![k] = @ + 1]
    /\ UNCHANGED parked

\* The slot of a parked connection goes to a task: with the connection, or
\* without it when the connection has expired and a task was queued.
Reclaim(k) ==
    /\ parked[k] > 0
    /\ parked' = [parked EXCEPT ![k] = @ - 1]
    /\ inUse' = [inUse EXCEPT ![k] = @ + 1]
    /\ UNCHANGED free

\* A connection is parked and keeps its slot; the reserve is never parked.
Park(k) ==
    /\ inUse[k] > 0
    /\ parked[k] < Parkable[k]
    /\ inUse' = [inUse EXCEPT ![k] = @ - 1]
    /\ parked' = [parked EXCEPT ![k] = @ + 1]
    /\ UNCHANGED free

\* An expired parked connection is dropped.
Evict(k) ==
    /\ parked[k] > 0
    /\ parked' = [parked EXCEPT ![k] = @ - 1]
    /\ free' = [free EXCEPT ![k] = @ + 1]
    /\ UNCHANGED inUse

\* A connection in use is dropped, or its creation is cancelled.
Free(k) ==
    /\ inUse[k] > 0
    /\ inUse' = [inUse EXCEPT ![k] = @ - 1]
    /\ free' = [free EXCEPT ![k] = @ + 1]
    /\ UNCHANGED parked

Next == \E k \in Keys : Claim(k) \/ Reclaim(k) \/ Park(k) \/ Evict(k) \/ Free(k)

Spec == Init /\ [][Next]_ledger

=============================================================================
