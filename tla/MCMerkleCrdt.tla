---------------------------- MODULE MCMerkleCrdt ----------------------------
(***************************************************************************)
(* Small values for MerkleCrdt.  Two accounts share a bucket, as hash      *)
(* collisions make them; the arrays are two entries long so that four      *)
(* nodes fill them; the neighbor scan changes mode at the third node.      *)
(***************************************************************************)
EXTENDS MerkleCrdt

CONSTANTS a1, a2, t1

Op(id, tx, type, account, amount, valid) ==
  [id |-> id, tx |-> tx, type |-> type, token |-> t1,
   account |-> account, amount |-> amount, valid |-> valid]

MCSubmitted ==
  {Op(1, 1, "add", a1, 2, TRUE), Op(2, 1, "sub", a1, 1, TRUE),
   Op(3, 2, "sub", a1, 1, TRUE), Op(2, 2, "set", a2, 1, TRUE)}

MCOperations == MCSubmitted \cup {[o EXCEPT !.valid = FALSE] : o \in MCSubmitted}

\* The C code keeps 1024 buckets; one is the worst case.
MCBucket(account, token) == 0
=============================================================================
