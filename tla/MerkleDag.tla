------------------------------ MODULE MerkleDag ------------------------------
(***************************************************************************)
(* The conflict DAG of Common/merkle_crdt as a value, and the operators    *)
(* that build it.  A dag is a record: its nodes are numbered 1, 2, ... in  *)
(* the order of dag->nodes[], and every pointer of the C structures is a   *)
(* node number.  Keeping the DAG a value, not a variable, lets the         *)
(* replicas of a cluster each have one.                                    *)
(*                                                                         *)
(* The parents, children and neighbors arrays are sets here: no array ever *)
(* holds a node twice, and the one reader that cares about the order of an *)
(* array (update_parent_states) can recompute it, see MerkleCrdt.          *)
(***************************************************************************)
EXTENDS Integers, FiniteSets, Sequences

CONSTANTS
  Operations,    \* the operation_t values that callers submit
  MaxDagNodes,   \* MAX_DAG_NODES, 100000 in the code
  MaxParents,    \* MAX_PARENTS, 16
  MaxChildren,   \* MAX_CHILDREN, 32 (children, neighbors and head slots)
  NearScan,      \* 100: the size up to which every node is made a neighbor
  NearFirst,     \* 20: how many latest nodes are scanned beyond that size
  Bucket(_, _)   \* conflict_index_hash, a function of account and token

ASSUME MerkleDagAssumption ==
  /\ MaxDagNodes \in Nat /\ MaxParents \in Nat /\ MaxChildren \in Nat
  /\ NearScan \in Nat /\ NearFirst \in Nat

OpTypes == {"add", "sub", "set"}

(***************************************************************************)
(* operation_t, without the timestamp and the hash; node_id is op.id.      *)
(***************************************************************************)
ASSUME OperationsAssumption ==
  \A o \in Operations :
     /\ o = [id |-> o.id, tx |-> o.tx, type |-> o.type, token |-> o.token,
             account |-> o.account, amount |-> o.amount, valid |-> o.valid]
     /\ o.type \in OpTypes
     /\ o.valid \in BOOLEAN
     /\ [o EXCEPT !.valid = FALSE] \in Operations  \* set by the cluster

\* merkle_crdt_init: an empty DAG, no head yet.
EmptyDag ==
  [count |-> 0, nodes |-> << >>, latest |-> << >>, index |-> {}, head |-> {}]

\* merkle_crdt_is_conflict: two operations on one balance, not both additions.
IsConflict(o1, o2) ==
  /\ o1.token = o2.token /\ o1.account = o2.account
  /\ \/ o1.type = "add" /\ o2.type = "sub"
     \/ o1.type = "sub" /\ o2.type = "add"
     \/ o1.type = "sub" /\ o2.type = "sub"

(***************************************************************************)
(* The first k elements of S by increasing rank: what a loop that visits S *)
(* in that order and stops storing after k elements has stored.            *)
(***************************************************************************)
FirstBy(S, rank, k) ==
  {e \in S : Cardinality({f \in S : rank[f] < rank[e]}) < k}

\* conflict_index buckets are LIFO lists: the newest node comes first.
Newest(S, k) == FirstBy(S, [e \in S |-> -e], k)
Oldest(S, k) == FirstBy(S, [e \in S |-> e], k)

-----------------------------------------------------------------------------
(***************************************************************************)
(* merkle_crdt_add_operation, by the sets its loops end up with.  n is the *)
(* new node.  An existing conflicting node becomes its parent when the new *)
(* node sorts after it, its child otherwise, so on a tie the older node is *)
(* the child; connect_nodes drops the edge when either side is full.       *)
(***************************************************************************)
\* Mutant of Rivals: only what is not applied yet.
RivalsUnapplied(d, o) ==
  {e \in d.index : IsConflict(o, d.nodes[e].op) /\ ~ d.nodes[e].applied}

Rivals(d, o) == {e \in d.index : IsConflict(o, d.nodes[e].op)}

\* Mutant of NewParents: an older node sorts first on a tie.
NewParentsTies(d, o, order) ==
  Newest({e \in Rivals(d, o) : /\ order >= d.nodes[e].order
                               /\ Cardinality(d.nodes[e].children) < MaxChildren},
         MaxParents)

NewParents(d, o, order) ==
  Newest({e \in Rivals(d, o) : /\ order > d.nodes[e].order
                               /\ Cardinality(d.nodes[e].children) < MaxChildren},
         MaxParents)

\* Mutants of NewChildren: the child's capacity forgotten; no late parents.
NewChildrenUnbounded(d, o, order) ==
  Newest({e \in Rivals(d, o) : order <= d.nodes[e].order}, MaxChildren)
NewChildrenNever(d, o, order) == {}

NewChildren(d, o, order) ==
  Newest({e \in Rivals(d, o) : /\ order <= d.nodes[e].order
                               /\ Cardinality(d.nodes[e].parents) < MaxParents},
         MaxChildren)

\* latest_nodes takes every new node until the array is full.
NewLatest(d) ==
  IF Len(d.latest) < MaxDagNodes THEN Append(d.latest, d.count + 1) ELSE d.latest

(***************************************************************************)
(* The nodes offered to connect_neighbors: first the rest of the bucket,   *)
(* newest first, then all older nodes, or beyond NearScan nodes the first  *)
(* NearFirst latest ones (the last entry, the new node itself, excluded).  *)
(***************************************************************************)
InBucket(d, o) ==
  {e \in d.index : Bucket(d.nodes[e].op.account, d.nodes[e].op.token)
                     = Bucket(o.account, o.token)}

\* Mutant of Visible: one node short.
VisibleShort(latest) == {i \in 1..Len(latest) : i < NearFirst /\ i < Len(latest)}
Visible(latest) == {i \in 1..Len(latest) : i <= NearFirst /\ i < Len(latest)}

Scanned(d) ==
  IF d.count + 1 > NearScan
    THEN {NewLatest(d)[i] : i \in Visible(NewLatest(d))} \ {d.count + 1}
    ELSE 1..d.count

\* Where the scan meets e for the first time.
ScanPlace(d, e) ==
  IF d.count + 1 > NearScan
    THEN CHOOSE i \in Visible(NewLatest(d)) :
           NewLatest(d)[i] = e /\ \A j \in 1..i-1 : NewLatest(d)[j] # e
    ELSE e

NewNeighbors(d, o) ==
  LET offered == {e \in InBucket(d, o) \cup Scanned(d) :
                    /\ ~ IsConflict(o, d.nodes[e].op)
                    /\ Cardinality(d.nodes[e].neighbors) < MaxChildren}
  IN  FirstBy(offered,
              [e \in offered |-> IF e \in InBucket(d, o) THEN -e ELSE ScanPlace(d, e)],
              MaxChildren)

(***************************************************************************)
(* The whole of merkle_crdt_add_operation on a DAG with room.  alloc is    *)
(* the outcome of the malloc of the bucket entry, "ok" or "fails"; without *)
(* an entry the node stays in the DAG but later conflicts never see it.    *)
(***************************************************************************)
NewNode(d, o, order) ==
  [op |-> o, order |-> order,
   parents   |-> NewParents(d, o, order),
   children  |-> NewChildren(d, o, order),
   neighbors |-> NewNeighbors(d, o),
   headCandidate |-> FALSE, processed |-> FALSE, applied |-> FALSE, failed |-> FALSE]

\* Mutant of Linked: a new child is not entered at its parent.
LinkedOneWay(d, o, order, e) ==
  LET ends(S, old) == IF e \in S THEN old \cup {d.count + 1} ELSE old
  IN  [d.nodes[e] EXCEPT !.parents   = ends(NewChildren(d, o, order), @),
                         !.neighbors = ends(NewNeighbors(d, o), @)]

\* An existing node with the other ends of the new node's links.
Linked(d, o, order, e) ==
  LET ends(S, old) == IF e \in S THEN old \cup {d.count + 1} ELSE old
  IN  [d.nodes[e] EXCEPT !.children  = ends(NewParents(d, o, order), @),
                         !.parents   = ends(NewChildren(d, o, order), @),
                         !.neighbors = ends(NewNeighbors(d, o), @)]

AddOperation(d, o, order, alloc) ==
  LET n == d.count + 1 IN
  [count  |-> n,
   nodes  |-> [e \in 1..n |-> IF e = n THEN NewNode(d, o, order) ELSE Linked(d, o, order, e)],
   latest |-> NewLatest(d),
   index  |-> IF alloc = "ok" /\ o.type \in {"add", "sub"} THEN d.index \cup {n} ELSE d.index,
   head   |-> d.head]

\* Mutant of HasRoom: off by one.
HasRoomForOneMore(d) == d.count <= MaxDagNodes
HasRoom(d) == d.count < MaxDagNodes

\* Mutant of GenerateHead: processed tips keep their slots.
GenerateHeadAgain(d) ==
  LET tips == Oldest({e \in 1..d.count : d.nodes[e].children = {}}, MaxChildren)
  IN  [d EXCEPT
         !.head  = tips,
         !.nodes = [e \in 1..d.count |->
                      IF e \in tips THEN [d.nodes[e] EXCEPT !.headCandidate = TRUE]
                                    ELSE d.nodes[e]]]

(***************************************************************************)
(* merkle_crdt_generate_head: the head adopts the childless unprocessed    *)
(* nodes, oldest first, up to its MaxChildren slots.                       *)
(***************************************************************************)
GenerateHead(d) ==
  LET tips == Oldest({e \in 1..d.count : /\ d.nodes[e].children = {}
                                         /\ ~ d.nodes[e].processed}, MaxChildren)
  IN  [d EXCEPT
         !.head  = tips,
         !.nodes = [e \in 1..d.count |->
                      IF e \in tips THEN [d.nodes[e] EXCEPT !.headCandidate = TRUE]
                                    ELSE d.nodes[e]]]

(***************************************************************************)
(* merkle_crdt_collect_tx_operations: the nodes of a transaction, in the   *)
(* order of the array; it fails when there are more than limit.            *)
(***************************************************************************)
TxNodes(d, tx) == {e \in 1..d.count : d.nodes[e].op.tx = tx}

(***************************************************************************)
(* The lookup every caller makes after an insertion: the FIRST node with   *)
(* the id, which is an older node when ids repeat.                         *)
(***************************************************************************)
FirstWithId(d, id) ==
  CHOOSE e \in 1..d.count :
     d.nodes[e].op.id = id /\ \A f \in 1..e-1 : d.nodes[f].op.id # id

-----------------------------------------------------------------------------
(***************************************************************************)
(* What a well-formed DAG is.                                              *)
(***************************************************************************)
NodeType(n) ==
  [op : Operations, order : Nat,
   parents : SUBSET (1..n), children : SUBSET (1..n), neighbors : SUBSET (1..n),
   headCandidate : BOOLEAN, processed : BOOLEAN, applied : BOOLEAN, failed : BOOLEAN]

DagType(d) ==
  /\ d = [count |-> d.count, nodes |-> d.nodes, latest |-> d.latest,
          index |-> d.index, head |-> d.head]
  /\ d.count \in 0..MaxDagNodes
  /\ d.nodes \in [1..d.count -> NodeType(d.count)]
  /\ d.latest \in Seq(1..d.count)
  /\ d.index \subseteq 1..d.count
  /\ d.head \subseteq 1..d.count

\* p sorts before c: by order, and on a tie the younger node comes first.
SortsBefore(d, p, c) ==
  \/ d.nodes[p].order < d.nodes[c].order
  \/ d.nodes[p].order = d.nodes[c].order /\ p > c

(***************************************************************************)
(* Every edge goes from a node to one that sorts after it.  SortsBefore is *)
(* a strict total order, so the graph is acyclic whatever the arrival      *)
(* order of the operations was (connect_nodes itself checks nothing).      *)
(***************************************************************************)
EdgesSorted(d) ==
  \A c \in 1..d.count : \A p \in d.nodes[c].parents : SortsBefore(d, p, c)

\* The two arrays an edge is stored in agree, although each has its own bound.
EdgesMutual(d) ==
  \A c, p \in 1..d.count : p \in d.nodes[c].parents <=> c \in d.nodes[p].children

\* Edges join conflicting operations only.
EdgesConflict(d) ==
  \A c \in 1..d.count : \A p \in d.nodes[c].parents :
     IsConflict(d.nodes[c].op, d.nodes[p].op)

\* Callers repeat no operation id (they may: chains number on their own).
RepeatsId(d, c) == \E f \in 1..d.count : f < c /\ d.nodes[f].op.id = d.nodes[c].op.id
UniqueIds(d) == \A e, f \in 1..d.count : d.nodes[e].op.id = d.nodes[f].op.id => e = f

Full(d, p, c) ==
  \/ Cardinality(d.nodes[p].children) >= MaxChildren
  \/ Cardinality(d.nodes[c].parents) >= MaxParents

(***************************************************************************)
(* Two conflicting operations are ordered by an edge, in whichever order   *)
(* they arrived, unless the array of one side is full: only the older one  *)
(* must have got its index entry, so a lost entry hides a node from what   *)
(* comes later and from nothing else.                                      *)
(***************************************************************************)
OlderIndexed(d, e, f) == IF e < f THEN e \in d.index ELSE f \in d.index

ConflictsLinked(d) ==
  \A c, p \in 1..d.count :
     (/\ IsConflict(d.nodes[c].op, d.nodes[p].op) /\ SortsBefore(d, p, c)
      /\ OlderIndexed(d, c, p))
       => (p \in d.nodes[c].parents \/ Full(d, p, c))

\* No array is written past its end.
WithinCapacity(d) ==
  /\ d.count <= MaxDagNodes /\ Len(d.latest) <= MaxDagNodes
  /\ Cardinality(d.head) <= MaxChildren
  /\ \A e \in 1..d.count :
        /\ Cardinality(d.nodes[e].parents) <= MaxParents
        /\ Cardinality(d.nodes[e].children) <= MaxChildren
        /\ Cardinality(d.nodes[e].neighbors) <= MaxChildren
=============================================================================
