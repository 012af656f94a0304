----------------------------- MODULE MerkleChain -----------------------------
(***************************************************************************)
(* MerkleCrdt as one L2 chain feeds it: the chain numbers its transactions *)
(* upwards, each operation sorts by its transaction (the default of the    *)
(* cluster, order = tx id), operation ids do not repeat, and a transaction *)
(* does not touch one balance twice.  Under these conditions, and only     *)
(* under them, the DAG keeps two promises that late or tied operations     *)
(* break: nothing is applied before what it depends on, and everything is  *)
(* applied in the end.                                                     *)
(***************************************************************************)
EXTENDS MerkleCrdt

\* The transaction ids are the orders of the operations; no malloc need fail.
ASSUME MerkleChainAssumption == (\A o \in Submitted : o.tx \in Orders) /\ "ok" \in IndexAlloc

NewestOrder == IF dag.count = 0 THEN 0 ELSE dag.nodes[dag.count].order

\* Transfer in l2_simulator: the next operation of the chain.
SubmitNext(o, tail) ==
  /\ \A e \in 1..dag.count : dag.nodes[e].op.id # o.id
  /\ o.tx >= NewestOrder
  /\ \A e \in 1..dag.count :
        dag.nodes[e].op.tx = o.tx => dag.nodes[e].op.account # o.account
  /\ Submit(o, o.tx, "ok", tail)

ChainNext ==
  \/ \E o \in Submitted, tail \in Tails : SubmitNext(o, tail)
  \/ MakeHead
  \/ \E tail \in Tails : ApplyHead(tail)

(***************************************************************************)
(* The epoch loop keeps generating outputs, that is a head and then its    *)
(* application; nothing obliges anybody to submit.                         *)
(***************************************************************************)
Fairness == WF_vars(MakeHead) /\ WF_vars(\E tail \in Tails : ApplyHead(tail))

ChainSpec == Init /\ [][ChainNext]_vars /\ Fairness

-----------------------------------------------------------------------------
(***************************************************************************)
(* An operation is applied only after every operation it was ordered after *)
(* by an edge, whichever of update_parent_states and update_state applies  *)
(* either of them.                                                         *)
(***************************************************************************)
ParentsAppliedFirst ==
  \A c \in 1..dag.count : dag.nodes[c].applied =>
     \A p \in dag.nodes[c].parents : dag.nodes[p].applied

(***************************************************************************)
(* Every accepted operation reaches the balance tree, also when there are  *)
(* more tips than the head has slots: processed tips make room.            *)
(***************************************************************************)
EveryOpApplied ==
  \A e \in 1..MaxDagNodes :
     (e \in 1..dag.count) ~> (e \in 1..dag.count /\ dag.nodes[e].applied)
=============================================================================
