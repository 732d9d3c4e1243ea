------------------------------- MODULE MCProxy --------------------------------
(* Proxy on two clients and one pool.                                         *)
EXTENDS Proxy

CONSTANTS c1, c2, w1, app, db

AppKey  == [db_user |-> app, dbname |-> db]
MCKeys  == {AppKey}
MCTasks == Clients \union Warmers

MCLimits   == [max_size |-> 1, min_size |-> 1, reserve_size |-> 1]
MCDatabase == [d \in {} |-> [max_size |-> 1]]
MCUser     == [u \in {} |-> [max_size |-> 1]]

=============================================================================
