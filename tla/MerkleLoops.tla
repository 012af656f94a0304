----------------------------- MODULE MerkleLoops -----------------------------
(***************************************************************************)
(* merkle_crdt_add_operation once more, as its two loops run: entry by     *)
(* entry over the bucket and then over the scan, each connect_* call with  *)
(* the capacity checks it makes at that moment.  MerkleDag!AddOperation    *)
(* has the sets these loops end up with, in one step.                      *)
(***************************************************************************)
EXTENDS MerkleDag

\* merkle_crdt_connect_nodes on the node array: an edge, or nothing.
ConnectNodes(nodes, child, parent) ==
  IF \/ parent \in nodes[child].parents
     \/ Cardinality(nodes[child].parents) >= MaxParents
     \/ Cardinality(nodes[parent].children) >= MaxChildren
    THEN nodes
    ELSE [nodes EXCEPT ![child].parents = @ \cup {parent},
                       ![parent].children = @ \cup {child}]

\* merkle_crdt_connect_neighbors
ConnectNeighbors(nodes, x, y) ==
  IF \/ y \in nodes[x].neighbors
     \/ Cardinality(nodes[x].neighbors) >= MaxChildren
     \/ Cardinality(nodes[y].neighbors) >= MaxChildren
    THEN nodes
    ELSE [nodes EXCEPT ![x].neighbors = @ \cup {y}, ![y].neighbors = @ \cup {x}]

\* dag_node_create
BlankNode(o, order) ==
  [op |-> o, order |-> order, parents |-> {}, children |-> {}, neighbors |-> {},
   headCandidate |-> FALSE, processed |-> FALSE, applied |-> FALSE, failed |-> FALSE]

\* The body of the first loop, for the entry of node e.
MeetEntry(d, o, order, nodes, e) ==
  IF ~ IsConflict(o, d.nodes[e].op) THEN ConnectNeighbors(nodes, d.count + 1, e)
  ELSE IF order > d.nodes[e].order  THEN ConnectNodes(nodes, d.count + 1, e)
  ELSE ConnectNodes(nodes, e, d.count + 1)

\* The node array after the first loop: the bucket holds the newest node first.
AfterBucket(d, o, order) ==
  LET n == d.count + 1
      walk[i \in 0..d.count] ==
        IF i = 0 THEN [e \in 1..n |-> IF e = n THEN BlankNode(o, order) ELSE d.nodes[e]]
        ELSE IF n - i \in InBucket(d, o) THEN MeetEntry(d, o, order, walk[i - 1], n - i)
        ELSE walk[i - 1]
  IN  walk[d.count]

\* The positions of the second loop are 1 to ScanEnd; ScanEntry is the node there.
ScanEnd(d) ==
  IF d.count + 1 > NearScan
    THEN IF NearFirst < Len(NewLatest(d)) - 1 THEN NearFirst ELSE Len(NewLatest(d)) - 1
    ELSE d.count

ScanEntry(d, i) == IF d.count + 1 > NearScan THEN NewLatest(d)[i] ELSE i

\* The body of the second loop, for node e.
MeetOther(d, o, nodes, e) ==
  IF e = d.count + 1 \/ IsConflict(o, d.nodes[e].op)
    THEN nodes ELSE ConnectNeighbors(nodes, d.count + 1, e)

\* The node array after both loops.
AfterScan(d, o, order) ==
  LET walk[i \in 0..ScanEnd(d)] ==
        IF i = 0 THEN AfterBucket(d, o, order)
        ELSE MeetOther(d, o, walk[i - 1], ScanEntry(d, i))
  IN  walk[ScanEnd(d)]

LoopAdd(d, o, order, alloc) ==
  [count  |-> d.count + 1,
   nodes  |-> AfterScan(d, o, order),
   latest |-> NewLatest(d),
   index  |-> IF alloc = "ok" /\ o.type \in {"add", "sub"} THEN d.index \cup {d.count + 1}
              ELSE d.index,
   head   |-> d.head]
=============================================================================
