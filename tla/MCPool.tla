-------------------------------- MODULE MCPool --------------------------------
(* PoolManager on three tasks and two pools: one with the limits of the       *)
(* [pool] block, one with a user's override without reserve.                  *)
EXTENDS PoolManager

CONSTANTS t1, t2, t3, app, batch, db

AppKey   == [db_user |-> app, dbname |-> db]
BatchKey == [db_user |-> batch, dbname |-> db]

MCOneKey == {AppKey}
MCKeys   == {AppKey, BatchKey}
MCGlobal == [max_size |-> 2, min_size |-> 1, reserve_size |-> 1]
MCTight  == [max_size |-> 1, min_size |-> 1, reserve_size |-> 0]
MCUser   == [u \in {batch} |-> [max_size |-> 1, reserve_size |-> 0]]
MCDatabase == [d \in {} |-> [max_size |-> 1]]

Interchangeable == Permutations(Tasks)

=============================================================================
