------------------------------- MODULE MCStats --------------------------------
(* PoolStats on a pool of two slots, one of them reserve, and one of one.     *)
EXTENDS PoolStats

CONSTANTS t1, t2, r1, app, db, db2

MCKeys     == {[db_user |-> app, dbname |-> d] : d \in {db, db2}}
MCGlobal   == [max_size |-> 1, min_size |-> 0, reserve_size |-> 1]
MCUser     == [u \in {} |-> [reserve_size |-> 0]]
MCDatabase == [d \in {db2} |-> [max_size |-> 1, min_size |-> 0, reserve_size |-> 0]]

=============================================================================
