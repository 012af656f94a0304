---------------------------- MODULE MCTeeCluster ----------------------------
(***************************************************************************)
(* Values for TeeCluster.  MCHash is what platform_sha256 of the guest     *)
(* computes for a head: it keeps the first 32 bytes of its input, which    *)
(* are the (zero) operation hash of the head node, whatever its children.  *)
(***************************************************************************)
EXTENDS TeeCluster, TLC

CONSTANTS a1, a2, t1, t2

Op(id, tx, type, token, account, amount) ==
  [id |-> id, tx |-> tx, type |-> type, token |-> token,
   account |-> account, amount |-> amount, valid |-> TRUE]

\* Two conflicting operations on one account.
ClusterOps == {Op(1, 1, "sub", t1, a1, 1), Op(2, 2, "add", t1, a1, 1)}

\* Two tokens, repeated ids, and a balance that is set before it is spent.
TokenOps ==
  {Op(1, 1, "set", t1, a1, 2), Op(2, 2, "sub", t1, a1, 1), Op(2, 2, "add", t2, a1, 1)}

WithInvalid(S) == S \cup {[o EXCEPT !.valid = FALSE] : o \in S}
ClusterOperations == WithInvalid(ClusterOps)
TokenOperations == WithInvalid(TokenOps)

MCBucket(account, token) == account
MCHash(d) == IF d.count = 0 THEN "zeros" ELSE "head"

\* Orders that contradict the transaction ids.
SwapOrders == {<<[tx |-> 1, order |-> 2], [tx |-> 2, order |-> 1]>>}
NoSorting == {}

\* At most one index entry is lost, on one of the nodes.
OneLost == Cardinality({p \in Tees \X (1..MaxDagNodes) :
                          p[2] <= dag[p[1]].count /\ p[2] \notin dag[p[1]].index}) <= 1

\* The nodes differ in nothing but their name, and no property is temporal.
AnyTee == Permutations(Tees)
=============================================================================
