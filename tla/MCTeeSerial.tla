----------------------------- MODULE MCTeeSerial -----------------------------
(***************************************************************************)
(* The values of MCTeeCluster with batches for the serial functions: a     *)
(* transfer, and one that another transaction has come between.            *)
(***************************************************************************)
EXTENDS MCTeeCluster, TeeSerial

SetFirst == Op(1, 1, "set", t1, a1, 2)
Spend    == Op(2, 2, "sub", t1, a1, 1)
Receive  == Op(2, 2, "add", t2, a1, 1)

SomeBatches == {<<Spend, Receive>>, <<Spend, SetFirst, Receive>>}
SomeOps == {Spend}
=============================================================================
