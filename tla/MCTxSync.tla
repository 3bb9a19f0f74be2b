------------------------------ MODULE MCTxSync ------------------------------
(***************************************************************************)
(* A cache of two transactions.  Transaction t1 has two short ids, and the *)
(* second is assigned while a sync may be under way.                       *)
(***************************************************************************)
EXTENDS TxSync

MCTxOf == [s1 |-> "t1", s2 |-> "t1", s3 |-> "t2"]

MCQueued == <<"s1", "s3">>

=============================================================================
