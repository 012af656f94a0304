------------------------------ MODULE MerkleCrdt ------------------------------
(***************************************************************************)
(* The life of one conflict DAG and of the balance tree of one token:      *)
(* operations are submitted in any order the callers may use, and an epoch *)
(* collects the tips of the DAG and applies them.  All the operators are   *)
(* those of MerkleDag and MerkleState.                                     *)
(***************************************************************************)
EXTENDS MerkleState, MerkleLoops

CONSTANTS
  Submitted,    \* the operations callers may submit, a subset of Operations
  Orders,       \* the tx_sort_order values callers may pass
  Tails,        \* what the two unwritten key bytes may hold
  IndexAlloc    \* outcomes of the index entry's malloc: "ok", "fails"

ASSUME MerkleCrdtAssumption ==
  Submitted \subseteq Operations /\ Orders \subseteq Nat /\ IndexAlloc \subseteq {"ok", "fails"}

VARIABLES
  dag,    \* merkle_crdt_dag_t
  tree    \* the mpt_tree_t of the token

vars == <<dag, tree>>

Init == dag = EmptyDag /\ tree = EmptyTree

(***************************************************************************)
(* What the cluster does with an operation it accepts: add it to the DAG,  *)
(* look the new node up by its id, apply that node's parents.              *)
(***************************************************************************)
Submit(o, order, alloc, tail) ==
  /\ HasRoom(dag)
  /\ LET added == AddOperation(dag, o, order, alloc)
         after == UpdateParentStates(added, FirstWithId(added, o.id), tree, tail)
     IN  dag' = after.dag /\ tree' = after.tree

MakeHead == dag' = GenerateHead(dag) /\ UNCHANGED tree

ApplyHead(tail) ==
  LET after == UpdateState(dag, tree, tail)
  IN  dag' = after.dag /\ tree' = after.tree

Next ==
  \/ \E o \in Submitted, order \in Orders, alloc \in IndexAlloc, tail \in Tails :
        Submit(o, order, alloc, tail)
  \/ MakeHead
  \/ \E tail \in Tails : ApplyHead(tail)

Spec == Init /\ [][Next]_vars

-----------------------------------------------------------------------------
TypeOK == DagType(dag)

\* See MerkleDag for what each of these says of the DAG.
DagEdgesSorted    == EdgesSorted(dag)
DagEdgesMutual    == EdgesMutual(dag)
DagEdgesConflict  == EdgesConflict(dag)
DagLinked         == ConflictsLinked(dag)
DagWithinCapacity == WithinCapacity(dag)

(***************************************************************************)
(* What the epoch loop leaves out for good is known: a node with a child   *)
(* is never a tip, so it is applied through a child that arrives after it  *)
(* or not at all.  Left out are only nodes whose children all arrived      *)
(* before them, or under an id that an older node bears: the lookup by id  *)
(* then finds the older one, and the parents of that one are applied.      *)
(***************************************************************************)
OnlyLateSkipped ==
  \A e \in 1..dag.count :
     ~ dag.nodes[e].applied =>
        \A c \in dag.nodes[e].children : c < e \/ RepeatsId(dag, c)

(***************************************************************************)
(* The two formulations of add_operation agree on every reachable DAG and  *)
(* every operation that could come next, full arrays, repeated visits and  *)
(* both scan modes included.                                               *)
(***************************************************************************)
AddAsLooped ==
  HasRoom(dag) =>
    \A o \in Submitted, order \in Orders, alloc \in IndexAlloc :
       AddOperation(dag, o, order, alloc) = LoopAdd(dag, o, order, alloc)
=============================================================================
