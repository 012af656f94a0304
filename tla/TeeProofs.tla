------------------------------ MODULE TeeProofs ------------------------------
(***************************************************************************)
(* Safety of the TEE cluster, of its serial functions and of the host that *)
(* feeds it, for every number of nodes and chains, every operation and     *)
(* every bound.  MerkleDagProofs has what an insertion does to a DAG; here *)
(* it is lifted to the calls of Common/tee_cluster and to their order.     *)
(***************************************************************************)
EXTENDS HostDemo, TeeSerial, MerkleDagProofs, SequenceLemmas

\* The token addresses that may be registered.
TokenSet == {o.token : o \in Operations} \cup TokenCalls

-----------------------------------------------------------------------------
(***************************************************************************)
(* What the calls do to the DAG of one node.                               *)
(***************************************************************************)

\* A verdict is not part of the graph and applies nothing.
LEMMA JudgedKeeps ==
  ASSUME NEW d, DagType(d), NEW tx, NEW t, NEW tail
  PROVE  /\ DagType(Judged(d, tx, t, tail)) /\ SameGraph(d, Judged(d, tx, t, tail))
         /\ Judged(d, tx, t, tail).head = d.head
         /\ \A e \in 1..d.count :
               /\ Judged(d, tx, t, tail).nodes[e].applied = d.nodes[e].applied
               /\ Judged(d, tx, t, tail).nodes[e].processed = d.nodes[e].processed
<1>1. CASE Cardinality(TxNodes(d, tx)) \notin 2..MaxTxOps
  BY <1>1 DEF Judged, SameGraph, SameOp
<1>2. CASE Cardinality(TxNodes(d, tx)) \in 2..MaxTxOps
  <2> DEFINE failed ==
               {e \in TxNodes(d, tx) :
                  \/ ~ ValidateTx(TxOps(d, tx), t, tail["validate"])
                  \/ CheckOperationFailed(d, e, t, tail["check"][e], tail["nested"][e])}
             nodes == [e \in 1..d.count |->
                         IF e \notin TxNodes(d, tx) THEN d.nodes[e]
                         ELSE [d.nodes[e] EXCEPT !.failed = e \in failed,
                                                 !.op.valid = @ /\ e \notin failed]]
             d2 == Judged(d, tx, t, tail)
  <2>1. d2 = [d EXCEPT !.nodes = nodes]
    BY <1>2 DEF Judged
  <2> HIDE DEF failed
  <2>3. ASSUME NEW e \in 1..d.count
        PROVE  /\ nodes[e] \in NodeType(d.count)
               /\ SameOp(d.nodes[e].op, nodes[e].op) /\ nodes[e].order = d.nodes[e].order
               /\ nodes[e].parents = d.nodes[e].parents
               /\ nodes[e].children = d.nodes[e].children
               /\ nodes[e].neighbors = d.nodes[e].neighbors
               /\ nodes[e].applied = d.nodes[e].applied
               /\ nodes[e].processed = d.nodes[e].processed
    <3> DEFINE x == d.nodes[e]
               o == x.op
               v == o.valid /\ e \notin failed
               q == [o EXCEPT !.valid = v]
               f == e \in failed
    <3>1. x \in NodeType(d.count)
      BY DEF DagType
    <3>2. CASE e \notin TxNodes(d, tx)
      BY <3>1, <3>2 DEF SameOp
    <3>3. CASE e \in TxNodes(d, tx)
      <4>1. nodes[e] = [[x EXCEPT !.failed = f] EXCEPT !.op = q]
        BY <3>1, <3>3 DEF NodeType
      <4>0. f \in BOOLEAN
        OBVIOUS
      <4>2. /\ o \in Operations /\ o.valid \in BOOLEAN /\ [o EXCEPT !.valid = FALSE] \in Operations
            /\ o = [id |-> o.id, tx |-> o.tx, type |-> o.type, token |-> o.token,
                    account |-> o.account, amount |-> o.amount, valid |-> o.valid]
        BY <3>1, OperationsAssumption DEF NodeType
      <4>3. v \in BOOLEAN /\ (v = FALSE \/ v = o.valid)
        BY <4>2
      <4> HIDE DEF v, o
      <4>4. SameOp(o, q)
        BY <4>2 DEF SameOp
      <4>5. q \in Operations
        <5>1. CASE v = FALSE
          BY <4>2, <5>1
        <5>2. CASE v = o.valid
          <6>1. q = o
            BY <4>2, <5>2
          <6>2. QED
            BY <4>2, <6>1
        <5>3. QED
          BY <4>3, <5>1, <5>2
      <4> HIDE DEF q, nodes, f
      <4>6. QED
        BY <3>1, <4>0, <4>1, <4>4, <4>5 DEF NodeType, o
    <3>4. QED
      BY <3>2, <3>3
  <2>4. nodes \in [1..d.count -> NodeType(d.count)]
    <3>1. \A e \in 1..d.count : nodes[e] \in NodeType(d.count)
      BY <2>3
    <3>2. QED
      BY <3>1
  <2> HIDE DEF nodes, d2
  <2>5. d2 = [count |-> d.count, nodes |-> nodes, latest |-> d.latest,
              index |-> d.index, head |-> d.head]
    BY <2>1 DEF DagType
  <2>6. QED
    BY <2>3, <2>4, <2>5 DEF DagType, SameGraph, d2
<1>3. QED
  BY <1>1, <1>2

\* Only what is applied counts as processed.
Processed(d) == \A e \in 1..d.count : d.nodes[e].processed => d.nodes[e].applied

\* An insertion sets no flag.
LEMMA AddFlags ==
  ASSUME NEW d, DagType(d), NEW o, NEW order, NEW alloc
  PROVE  /\ ~ AddOperation(d, o, order, alloc).nodes[d.count + 1].processed
         /\ ~ AddOperation(d, o, order, alloc).nodes[d.count + 1].applied
         /\ \A e \in 1..d.count :
               /\ AddOperation(d, o, order, alloc).nodes[e].processed = d.nodes[e].processed
               /\ AddOperation(d, o, order, alloc).nodes[e].applied = d.nodes[e].applied
<1>1. AddOperation(d, o, order, alloc).nodes[d.count + 1] = NewNode(d, o, order)
  BY AddFields
<1>2. ~ NewNode(d, o, order).processed /\ ~ NewNode(d, o, order).applied
  BY DEF NewNode
<1>3. ASSUME NEW e \in 1..d.count
      PROVE  /\ AddOperation(d, o, order, alloc).nodes[e].processed = d.nodes[e].processed
             /\ AddOperation(d, o, order, alloc).nodes[e].applied = d.nodes[e].applied
  <2>1. /\ AddOperation(d, o, order, alloc).nodes[e] = Linked(d, o, order, e)
        /\ d.nodes[e] \in NodeType(d.count)
    BY AddFields DEF DagType
  <2>2. Linked(d, o, order, e).processed = d.nodes[e].processed
    BY <2>1 DEF Linked, NodeType
  <2>3. Linked(d, o, order, e).applied = d.nodes[e].applied
    BY <2>1 DEF Linked, NodeType
  <2>4. QED
    BY <2>1, <2>2, <2>3
<1>4. QED
  BY <1>1, <1>2, <1>3

\* A new node is neither applied nor processed.
LEMMA AddKeepsProcessed ==
  ASSUME NEW d, DagType(d), Processed(d), NEW o, NEW order, NEW alloc
  PROVE  Processed(AddOperation(d, o, order, alloc))
<1> DEFINE a == AddOperation(d, o, order, alloc)
<1>1. a.count = d.count + 1 /\ \A e \in 1..d.count + 1 : e \in 1..d.count \/ e = d.count + 1
  BY AddFields
<1>2. /\ ~ a.nodes[d.count + 1].processed
      /\ \A e \in 1..d.count : /\ a.nodes[e].processed = d.nodes[e].processed
                               /\ a.nodes[e].applied = d.nodes[e].applied
  BY AddFlags
<1> HIDE DEF a
<1>3. Processed(a)
  BY <1>1, <1>2 DEF Processed
<1>4. QED
  BY <1>3 DEF a

\* Whatever is marked as processed is marked as applied.
LEMMA MarkKeepsProcessed ==
  ASSUME NEW d, DagType(d), Processed(d), NEW S, NEW processed \in BOOLEAN
  PROVE  Processed(MarkApplied(d, S, processed))
<1> DEFINE d2 == MarkApplied(d, S, processed)
<1>1. SameGraph(d, d2)
  BY MarkAppliedKeeps
<1>2. d2.count = d.count
  BY <1>1 DEF SameGraph
<1>3. ASSUME NEW e \in 1..d.count, d2.nodes[e].processed  PROVE d2.nodes[e].applied
  <2>1. d.nodes[e] \in NodeType(d.count)
    BY DEF DagType
  <2>2. d = [count |-> d.count, nodes |-> d.nodes, latest |-> d.latest,
             index |-> d.index, head |-> d.head]
    BY DEF DagType
  <2>3. CASE e \in S
    BY <2>3, MarkAppliedFlags
  <2>4. CASE e \notin S
    <3>1. d2.nodes[e] = d.nodes[e]
      BY <2>2, <2>4 DEF MarkApplied
    <3>2. QED
      BY <1>3, <3>1 DEF Processed
  <2>5. QED
    BY <2>3, <2>4
<1> HIDE DEF d2
<1>4. Processed(d2)
  BY <1>2, <1>3 DEF Processed
<1>5. QED
  BY <1>4 DEF d2

\* A new head leaves the flags of the epochs alone.
LEMMA GenerateHeadKeepsFlags ==
  ASSUME NEW d, DagType(d), NEW e \in 1..d.count
  PROVE  /\ GenerateHead(d).nodes[e].applied = d.nodes[e].applied
         /\ GenerateHead(d).nodes[e].processed = d.nodes[e].processed
<1>1. d.nodes[e] \in NodeType(d.count)
  BY DEF DagType
<1>2. d = [count |-> d.count, nodes |-> d.nodes, latest |-> d.latest,
           index |-> d.index, head |-> d.head]
  BY DEF DagType
<1>3. \/ GenerateHead(d).nodes[e] = d.nodes[e]
      \/ GenerateHead(d).nodes[e] = [d.nodes[e] EXCEPT !.headCandidate = TRUE]
  BY <1>2 DEF GenerateHead
<1>4. QED
  BY <1>1, <1>3 DEF NodeType

\* Nodes without a token slot are left unapplied and without a verdict.
Refusal(list, o) == ~ Known(list, o.token) /\ Len(list) >= MaxTokens

(***************************************************************************)
(* process_operation and listen_and_build_dag: the node enters the DAG in  *)
(* any case; its parents are applied unless the token finds no slot.       *)
(***************************************************************************)
LEMMA InsertEffect ==
  ASSUME dag = [m \in Tees |-> dag[m]], tokens = [m \in Tees |-> tokens[m]],
         NEW n \in Tees, DagType(dag[n]),
         tokens[n] \in Seq(TokenSet), Len(tokens[n]) <= MaxTokens,
         NEW o \in Operations, NEW order \in Nat, NEW alloc, Insert(n, o, order, alloc)
  PROVE  /\ dag' = [m \in Tees |-> dag'[m]] /\ tokens' = [m \in Tees |-> tokens'[m]]
         /\ \A m \in Tees : m # n => dag'[m] = dag[m] /\ tokens'[m] = tokens[m]
         /\ HasRoom(dag[n])
         /\ SameGraph(AddOperation(dag[n], o, order, alloc), dag'[n]) /\ DagType(dag'[n])
         /\ dag'[n].head = dag[n].head
         /\ Processed(dag[n]) => Processed(dag'[n])
         /\ tokens'[n] = IF Known(tokens[n], o.token) \/ Refusal(tokens[n], o)
                           THEN tokens[n] ELSE Append(tokens[n], o.token)
         /\ ~ Refusal(tokens[n], o) /\ Late(dag[n]) => Late(dag'[n])
<1> DEFINE d    == dag[n]
           a    == AddOperation(d, o, order, alloc)
           list == IF Known(tokens[n], o.token) THEN tokens[n] ELSE Append(tokens[n], o.token)
           slot == Slot(list, o.token)
           S    == Unapplied(a, a.nodes[FirstWithId(a, o.id)].parents)
           b    == MarkApplied(a, S, FALSE)
           tree(tail) == ApplyAll(a, trees[n][slot], S,
                                  ParentsInOrder(a, FirstWithId(a, o.id)), tail["update"])
<1>1. /\ HasRoom(d)
      /\ \/ /\ Len(list) > MaxTokens
            /\ dag' = [dag EXCEPT ![n] = a] /\ UNCHANGED tokens
         \/ /\ Len(list) <= MaxTokens
            /\ \E tail \in Guesses(a, o.tx) :
                 dag' = [dag EXCEPT ![n] = Judged(b, o.tx, tree(tail), tail)]
            /\ tokens' = [tokens EXCEPT ![n] = list]
  BY DEF Insert, UpdateParentStates
<1>5. /\ MaxTokens \in Nat /\ o.token \in TokenSet
      /\ Len(Append(tokens[n], o.token)) = Len(tokens[n]) + 1 /\ Len(tokens[n]) \in Nat
      /\ Len(list) \in Nat
  BY TeeClusterAssumption DEF TokenSet
<1> HIDE DEF tree
<1>0. PICK j : /\ \E tail : j = Judged(b, o.tx, tree(tail), tail)
               /\ Len(list) <= MaxTokens => dag' = [dag EXCEPT ![n] = j]
  <2> HIDE DEF list, a, b
  <2>1. CASE Len(list) <= MaxTokens
    <3>1. \E tail \in Guesses(a, o.tx) :
             dag' = [dag EXCEPT ![n] = Judged(b, o.tx, tree(tail), tail)]
      BY <1>1, <1>5, <2>1
    <3>2. PICK tail \in Guesses(a, o.tx) :
             dag' = [dag EXCEPT ![n] = Judged(b, o.tx, tree(tail), tail)]
      BY <3>1
    <3>3. QED
      BY <3>2
  <2>2. CASE ~ (Len(list) <= MaxTokens)
    BY <2>2
  <2>3. QED
    BY <2>1, <2>2
<1>2. DagType(a) /\ a.head = d.head
  BY <1>1, AddType, AddFields
<1>3. Processed(d) => Processed(a)
  BY AddKeepsProcessed
<1>4. Late(d) => Late(b)
  BY <1>1, SubmitKeepsLate
<1>6. (Len(list) > MaxTokens) <=> Refusal(tokens[n], o)
  BY <1>5 DEF Refusal
<1>7. SameGraph(a, a)
  BY DEF SameGraph, SameOp
<1> HIDE DEF a, S
<1>8. DagType(b) /\ SameGraph(a, b) /\ b.head = a.head /\ (Processed(a) => Processed(b))
  BY <1>2, MarkAppliedKeeps, MarkKeepsProcessed
<1> HIDE DEF b
<1>9. /\ DagType(j) /\ SameGraph(b, j) /\ j.head = b.head
      /\ \A e \in 1..b.count : /\ j.nodes[e].applied = b.nodes[e].applied
                               /\ j.nodes[e].processed = b.nodes[e].processed
  BY <1>0, <1>8, JudgedKeeps
<1>10. SameGraph(a, j) /\ (Processed(b) => Processed(j)) /\ (Late(b) => Late(j))
  <2>1. SameGraph(a, j)
    BY <1>8, <1>9 DEF SameGraph, SameOp
  <2>2. Processed(b) => Processed(j)
    BY <1>9 DEF Processed, SameGraph
  <2>3. Late(b) => Late(j)
    BY <1>8, <1>9, FlagsKeepLate
  <2>4. QED
    BY <2>1, <2>2, <2>3
<1>11. CASE Len(list) > MaxTokens
  <2>1. dag' = [dag EXCEPT ![n] = a] /\ tokens' = tokens
    BY <1>1, <1>5, <1>11
  <2>2. dag'[n] = a /\ Refusal(tokens[n], o)
    BY <1>6, <1>11, <2>1
  <2> HIDE DEF list, d
  <2>3. QED
    BY <1>1, <1>2, <1>3, <1>7, <2>1, <2>2 DEF a, d
<1>12. CASE ~ (Len(list) > MaxTokens)
  <2>1. dag' = [dag EXCEPT ![n] = j] /\ tokens' = [tokens EXCEPT ![n] = list]
    <3>1. Len(list) <= MaxTokens
      BY <1>1, <1>12
    <3>2. QED
      BY <1>0, <1>1, <1>12, <3>1
  <2>2. dag'[n] = j /\ tokens'[n] = list /\ ~ Refusal(tokens[n], o)
    BY <1>6, <1>12, <2>1
  <2>3. /\ tokens'[n] = IF Known(tokens[n], o.token) \/ Refusal(tokens[n], o)
                          THEN tokens[n] ELSE Append(tokens[n], o.token)
    BY <2>2
  <2> HIDE DEF list, d
  <2>4. QED
    BY <1>1, <1>2, <1>3, <1>4, <1>8, <1>9, <1>10, <2>1, <2>2, <2>3 DEF a, d
<1>13. QED
  BY <1>11, <1>12

AllKnown(d, list) == \A e \in 1..d.count : Known(list, d.nodes[e].op.token)

(***************************************************************************)
(* generate_epoch_output: nothing applied is forgotten and, with room left *)
(* in the head and a slot for every token, what has no child is applied.   *)
(***************************************************************************)
LEMMA OutputEffect ==
  ASSUME dag = [m \in Tees |-> dag[m]], NEW n \in Tees, DagType(dag[n]),
         NEW tail, GenerateEpochOutput(n, tail)
  PROVE  /\ dag' = [m \in Tees |-> dag'[m]] /\ tokens' = tokens
         /\ \A m \in Tees : m # n => dag'[m] = dag[m]
         /\ SameGraph(dag[n], dag'[n]) /\ DagType(dag'[n])
         /\ Processed(dag[n]) => Processed(dag'[n])
         /\ Late(dag[n]) => Late(dag'[n])
         /\ \A e \in 1..dag[n].count : dag[n].nodes[e].applied => dag'[n].nodes[e].applied
         /\ /\ Cardinality(dag'[n].head) < MaxChildren
            /\ AllKnown(dag[n], tokens[n]) /\ Processed(dag[n])
            => \A e \in 1..dag[n].count : \/ dag'[n].nodes[e].applied
                                          \/ dag[n].nodes[e].children # {}
<1> DEFINE d     == dag[n]
           g     == GenerateHead(d)
           owned == {e \in g.head : Known(tokens[n], g.nodes[e].op.token)}
           S     == Unapplied(g, g.head)
           u     == MarkApplied(g, S, TRUE)
           tips  == {e \in 1..d.count : d.nodes[e].children = {} /\ ~ d.nodes[e].processed}
<1>1. /\ \/ owned = {} /\ dag' = [dag EXCEPT ![n] = g]
         \/ owned # {} /\ dag' = [dag EXCEPT ![n] = u]
      /\ tokens' = tokens
  BY DEF GenerateEpochOutput, UpdateState
<1>2. DagType(g) /\ SameGraph(d, g) /\ g.count = d.count
  BY GenerateHeadKeeps DEF SameGraph
<1>3. \A e \in 1..d.count : /\ g.nodes[e].applied = d.nodes[e].applied
                            /\ g.nodes[e].processed = d.nodes[e].processed
  BY GenerateHeadKeepsFlags
<1>4. /\ g.head = Oldest(tips, MaxChildren)
      /\ \A e \in tips : e \notin g.head => Cardinality(g.head) >= MaxChildren
      /\ Cardinality(g.head) \in Nat /\ MaxChildren \in Nat
  <2>1. d.count \in Nat /\ tips \in SUBSET (1..d.count) /\ MaxChildren \in Nat
    BY MerkleDagAssumption DEF DagType
  <2>2. g.head = Oldest(tips, MaxChildren)
    BY DEF GenerateHead, DagType
  <2> HIDE DEF tips, g, d
  <2>3. /\ Cardinality(Oldest(tips, MaxChildren)) \in Nat
        /\ \A e \in tips : e \notin Oldest(tips, MaxChildren) =>
                            Cardinality(Oldest(tips, MaxChildren)) >= MaxChildren
    BY <2>1, OldestFacts
  <2>4. QED
    BY <2>1, <2>2, <2>3
<1> HIDE DEF g
<1>5. DagType(u) /\ SameGraph(g, u) /\ u.head = g.head /\ (Processed(g) => Processed(u))
  <2> HIDE DEF S
  <2>1. QED
    BY <1>2, MarkAppliedKeeps, MarkKeepsProcessed
<1>6. SameGraph(d, u)
  <2> HIDE DEF d, u, S
  <2>1. QED
    BY <1>2, <1>5 DEF SameGraph, SameOp
<1>7. \A e \in 1..d.count : g.nodes[e].applied \/ e \in S => u.nodes[e].applied
  <2> HIDE DEF S
  <2>1. QED
    BY <1>2, MarkAppliedFlags
<1>8. /\ Processed(d) => Processed(g) /\ Processed(u)
      /\ Late(d) => Late(g) /\ Late(u)
  <2>1. Processed(d) => Processed(g)
    BY <1>2, <1>3 DEF Processed
  <2>2. \A e \in 1..d.count : d.nodes[e].applied => u.nodes[e].applied
    BY <1>3, <1>7
  <2>0. DagType(d)
    OBVIOUS
  <2> HIDE DEF u, d
  <2>3. Late(d) => Late(g) /\ Late(u)
    BY <1>2, <1>3, <1>6, <2>0, <2>2, FlagsKeepLate
  <2>4. QED
    BY <1>5, <2>1, <2>3
<1>9. ASSUME Cardinality(g.head) < MaxChildren, AllKnown(d, tokens[n]), Processed(d),
             NEW e \in 1..d.count
      PROVE  \/ d.nodes[e].children # {}
             \/ IF owned = {} THEN g.nodes[e].applied ELSE u.nodes[e].applied
  <2>1. CASE e \in tips
    <3>1. e \in g.head
      BY <1>4, <1>9, <2>1
    <3>2. g.nodes[e].op.token = d.nodes[e].op.token
      BY <1>2 DEF SameGraph, SameOp
    <3>3. e \in owned
      BY <1>9, <3>1, <3>2 DEF AllKnown
    <3>4. g.nodes[e].applied \/ e \in S
      BY <3>1 DEF Unapplied
    <3>5. QED
      BY <1>7, <3>3, <3>4
  <2>2. CASE e \notin tips
    <3>1. d.nodes[e].applied \/ d.nodes[e].children # {}
      BY <1>9, <2>2 DEF Processed
    <3>2. QED
      BY <1>3, <1>7, <3>1
  <2>3. QED
    BY <2>1, <2>2
<1> HIDE DEF u, owned
<1>13. \A e \in 1..d.count : d.nodes[e].applied => g.nodes[e].applied /\ u.nodes[e].applied
  BY <1>3, <1>7
<1> HIDE DEF d
<1>10. CASE owned = {}
  <2>1. dag' = [dag EXCEPT ![n] = g] /\ dag'[n] = g
    BY <1>1, <1>10
  <2>2. QED
    BY <1>1, <1>2, <1>8, <1>9, <1>10, <1>13, <2>1 DEF d
<1>11. CASE owned # {}
  <2>1. dag' = [dag EXCEPT ![n] = u] /\ dag'[n] = u
    BY <1>1, <1>11
  <2>2. QED
    BY <1>1, <1>5, <1>6, <1>8, <1>9, <1>11, <1>13, <2>1 DEF d
<1>12. QED
  BY <1>10, <1>11

-----------------------------------------------------------------------------
(***************************************************************************)
(* The replicas.  A sound DAG has exactly the edges its operations and     *)
(* their orders call for, but for full arrays and lost index entries;      *)
(* every way an operation comes to a node, a copy from another node        *)
(* included, keeps it sound.                                               *)
(***************************************************************************)
Sound(d) == DagType(d) /\ EdgesSorted(d) /\ EdgesConflict(d) /\ ConflictsLinked(d)

\* The sound DAGs are a set.
Replicas ==
  {d \in UNION {[count : {n}, nodes : [1..n -> NodeType(n)], latest : Seq(1..n),
                 index : SUBSET (1..n), head : SUBSET (1..n)] : n \in 0..MaxDagNodes} :
     Sound(d)}

\* A sound DAG is all that a replica needs to be.
LEMMA ReplicasAreSound ==
  ASSUME NEW d
  PROVE  d \in Replicas <=> Sound(d)
<1>1. ASSUME Sound(d)  PROVE d \in Replicas
  <2>1. /\ d = [count |-> d.count, nodes |-> d.nodes, latest |-> d.latest,
                index |-> d.index, head |-> d.head]
        /\ d.count \in 0..MaxDagNodes /\ d.nodes \in [1..d.count -> NodeType(d.count)]
        /\ d.latest \in Seq(1..d.count) /\ d.index \in SUBSET (1..d.count)
        /\ d.head \in SUBSET (1..d.count)
    BY <1>1 DEF Sound, DagType
  <2> DEFINE All(n) == [count : {n}, nodes : [1..n -> NodeType(n)], latest : Seq(1..n),
                        index : SUBSET (1..n), head : SUBSET (1..n)]
  <2>2. d \in All(d.count)
    BY <2>1
  <2> HIDE DEF All
  <2>3. d \in UNION {All(n) : n \in 0..MaxDagNodes}
    BY <2>1, <2>2
  <2>4. QED
    BY <1>1, <2>3 DEF Replicas, All
<1>2. QED
  BY <1>1 DEF Replicas

\* What changes no edge and no order keeps a DAG sound.
LEMMA SameGraphKeepsSound ==
  ASSUME NEW d, Sound(d), NEW d2, SameGraph(d, d2), DagType(d2)
  PROVE  Sound(d2)
<1>1. DagType(d) /\ EdgesSorted(d) /\ EdgesConflict(d) /\ ConflictsLinked(d)
  BY DEF Sound
<1>2. EdgesSorted(d2) /\ EdgesConflict(d2) /\ ConflictsLinked(d2)
  BY <1>1, SameGraphKeeps
<1>3. QED
  BY <1>2 DEF Sound

\* add_operation keeps a DAG sound while it has room, with or without an index entry.
LEMMA AddKeepsSound ==
  ASSUME NEW d, Sound(d), HasRoom(d), NEW o \in Operations, NEW order \in Nat, NEW alloc
  PROVE  Sound(AddOperation(d, o, order, alloc))
<1>1. DagType(d) /\ EdgesSorted(d) /\ EdgesConflict(d) /\ ConflictsLinked(d)
  BY DEF Sound
<1>2. DagType(AddOperation(d, o, order, alloc))
  BY <1>1, AddType
<1>3. /\ EdgesSorted(AddOperation(d, o, order, alloc))
      /\ EdgesConflict(AddOperation(d, o, order, alloc))
      /\ ConflictsLinked(AddOperation(d, o, order, alloc))
  BY <1>1, AddKeepsEdgesSorted, AddKeepsEdgesConflict, AddKeepsConflictsLinked
<1>4. QED
  BY <1>2, <1>3 DEF Sound

\* An emptied list of latest nodes is no part of the graph.
LEMMA BroadcastKeepsSound ==
  ASSUME NEW d, Sound(d)
  PROVE  Sound([d EXCEPT !.latest = << >>])
<1> DEFINE b == [d EXCEPT !.latest = << >>]
<1>1. DagType(d)
  BY DEF Sound
<1>2. b = [count |-> d.count, nodes |-> d.nodes, latest |-> << >>,
           index |-> d.index, head |-> d.head]
  BY <1>1 DEF DagType
<1>3. DagType(b)
  BY <1>1, <1>2 DEF DagType
<1>4. b.count = d.count /\ b.nodes = d.nodes /\ b.index = d.index
  BY <1>2
<1> HIDE DEF b
<1>5. Sound(b)
  BY <1>3, <1>4 DEF Sound, EdgesSorted, EdgesConflict, ConflictsLinked, OlderIndexed,
                    SortsBefore, Full
<1>6. QED
  BY <1>5 DEF b

\* A copy takes the flags of the remote node, and its edges from its own DAG.
LEMMA SyncNodeKeepsSound ==
  ASSUME NEW d, Sound(d), NEW remote, DagType(remote), NEW e \in 1..remote.count, NEW alloc
  PROVE  Sound(SyncNode(d, remote, e, alloc))
<1> DEFINE node == remote.nodes[e]
           a    == AddOperation(d, node.op, node.order, alloc)
           n    == d.count + 1
           x    == [a.nodes[n] EXCEPT !.headCandidate = node.headCandidate,
                                      !.processed = node.processed, !.applied = node.applied]
           s    == [a EXCEPT !.nodes[n] = x]
<1>1. node \in NodeType(remote.count)
  BY DEF DagType
<1>2. /\ node.op \in Operations /\ node.order \in Nat /\ node.headCandidate \in BOOLEAN
      /\ node.processed \in BOOLEAN /\ node.applied \in BOOLEAN
  BY <1>1 DEF NodeType
<1>3. \/ SyncNode(d, remote, e, alloc) = d
      \/ HasRoom(d) /\ SyncNode(d, remote, e, alloc) = s
  <2>1. a.count = n
    BY DEF AddOperation
  <2>2. QED
    BY <2>1 DEF SyncNode
<1> HIDE DEF node
<1>4. ASSUME HasRoom(d)  PROVE Sound(s)
  <2>1. Sound(a) /\ DagType(a) /\ a.count = n /\ n \in 1..n
    BY <1>2, <1>4, AddKeepsSound, AddFields DEF Sound
  <2> HIDE DEF a
  <2>2. a.nodes[n] \in NodeType(n)
    BY <2>1 DEF DagType
  <2>3. /\ x \in NodeType(n) /\ x.op = a.nodes[n].op /\ x.order = a.nodes[n].order
        /\ x.parents = a.nodes[n].parents /\ x.children = a.nodes[n].children
        /\ x.neighbors = a.nodes[n].neighbors
    BY <1>2, <2>2 DEF NodeType
  <2> HIDE DEF x
  <2> DEFINE nodes == [a.nodes EXCEPT ![n] = x]
  <2>4. s = [a EXCEPT !.nodes = nodes]
    OBVIOUS
  <2>5. a.nodes \in [1..n -> NodeType(n)]
    BY <2>1 DEF DagType
  <2>6. /\ nodes \in [1..n -> NodeType(n)]
        /\ \A f \in 1..n : nodes[f] = IF f = n THEN x ELSE a.nodes[f]
    BY <2>1, <2>3, <2>5
  <2> HIDE DEF nodes, s
  <2>7. s = [count |-> a.count, nodes |-> nodes, latest |-> a.latest,
             index |-> a.index, head |-> a.head]
    BY <2>1, <2>4 DEF DagType
  <2>8. DagType(s)
    BY <2>1, <2>6, <2>7 DEF DagType
  <2>9. SameGraph(a, s)
    BY <2>1, <2>3, <2>6, <2>7 DEF SameGraph, SameOp
  <2>10. QED
    BY <2>1, <2>8, <2>9, SameGraphKeepsSound
<1>5. QED
  BY <1>3, <1>4

\* One pass over the remote nodes ends wherever each single copy stays.
LEMMA SyncPassStays ==
  ASSUME NEW V, NEW d \in V, NEW remote, DagType(remote),
         \A r \in V, e \in 1..remote.count : \A how : SyncNode(r, remote, e, how) \in V, NEW alloc
  PROVE  SyncPass(d, remote, alloc) \in V
<1> DEFINE n == remote.count
           solves(g) == g = [e \in 0..n |-> IF e = 0 THEN d
                                            ELSE SyncNode(g[e - 1], remote, e, alloc[e])]
           local == CHOOSE g : solves(g)
<1>1. n \in Nat
  BY MerkleDagAssumption DEF DagType
<1>2. SyncPass(d, remote, alloc) = local[n]
  BY DEF SyncPass
<1>3. d \in V
  OBVIOUS
<1> HIDE DEF n
<1>4. \A e \in 1..n, r \in V : SyncNode(r, remote, e, alloc[e]) \in V
  BY DEF n
<1>5. \E g : solves(g)
  <2> DEFINE step == [e \in 1..n |-> [r \in V |-> SyncNode(r, remote, e, alloc[e])]]
  <2>1. StepsIn(step, n, V)
    BY <1>4 DEF StepsIn
  <2>2. \A r \in V, e \in 1..n : step[e][r] = SyncNode(r, remote, e, alloc[e])
    OBVIOUS
  <2> HIDE DEF step
  <2>3. HasRun(step, n, V, d)
    BY <1>1, <1>3, <2>1, Recursion
  <2>4. PICK g \in [0..n -> V] : g[0] = d /\ \A e \in 1..n : g[e] = step[e][g[e - 1]]
    BY <2>3 DEF HasRun
  <2>5. \A e \in 1..n : g[e] = SyncNode(g[e - 1], remote, e, alloc[e])
    <3>1. \A e \in 1..n : g[e - 1] \in V
      BY <1>1
    <3>2. QED
      BY <2>2, <2>4, <3>1
  <2>6. solves(g)
    BY <1>1, <2>4, <2>5
  <2>7. QED
    BY <2>6
<1>6. solves(local)
  BY <1>5
<1> HIDE DEF local
<1>7. local[0] = d /\ \A e \in 1..n : local[e] = SyncNode(local[e - 1], remote, e, alloc[e])
  BY <1>1, <1>6
<1>8. ASSUME NEW e \in 1..n, local[e - 1] \in V  PROVE local[e] \in V
  BY <1>4, <1>7, <1>8
<1>9. \A e \in 0..n : local[e] \in V
  <2>1. 0 \in Nat /\ 0 + 1 = 1 /\ local[0] \in V
    BY <1>3, <1>7
  <2>2. QED
    BY <1>1, <1>8, <2>1, Stays
<1>10. local[n] \in V
  BY <1>1, <1>9
<1>11. QED
  BY <1>2, <1>10

\* So do all the passes.
LEMMA SyncAllStays ==
  ASSUME NEW V, NEW d \in V, NEW remote, DagType(remote),
         \A r \in V, e \in 1..remote.count : \A how : SyncNode(r, remote, e, how) \in V, NEW alloc
  PROVE  SyncAll(d, remote, alloc) \in V
<1> DEFINE n == remote.count
           W == [dag : V, changed : BOOLEAN]
           begin == [dag |-> d, changed |-> TRUE]
           solves(g) == g = [i \in 0..n |-> IF i = 0 THEN begin
                                            ELSE NextPass(g[i - 1], remote, alloc[i])]
           s == CHOOSE g : solves(g)
<1>1. n \in Nat
  BY MerkleDagAssumption DEF DagType
<1>2. SyncAll(d, remote, alloc) = s[n].dag
  BY DEF SyncAll
<1>3. begin \in W
  OBVIOUS
<1>4. ASSUME NEW w \in W, NEW how  PROVE NextPass(w, remote, how) \in W
  <2>1. SyncPass(w.dag, remote, how) \in V
    BY SyncPassStays
  <2>2. QED
    BY <2>1 DEF NextPass
<1> HIDE DEF n, begin, W
<1>5. \E g : solves(g)
  <2> DEFINE step == [i \in 1..n |-> [w \in W |-> NextPass(w, remote, alloc[i])]]
  <2>1. StepsIn(step, n, W)
    BY <1>4 DEF StepsIn
  <2>2. \A w \in W, i \in 1..n : step[i][w] = NextPass(w, remote, alloc[i])
    OBVIOUS
  <2> HIDE DEF step
  <2>3. HasRun(step, n, W, begin)
    BY <1>1, <1>3, <2>1, Recursion
  <2>4. PICK g \in [0..n -> W] : g[0] = begin /\ \A i \in 1..n : g[i] = step[i][g[i - 1]]
    BY <2>3 DEF HasRun
  <2>5. \A i \in 1..n : g[i] = NextPass(g[i - 1], remote, alloc[i])
    <3>1. \A i \in 1..n : g[i - 1] \in W
      BY <1>1
    <3>2. QED
      BY <2>2, <2>4, <3>1
  <2>6. solves(g)
    BY <1>1, <2>4, <2>5
  <2>7. QED
    BY <2>6
<1>6. solves(s)
  BY <1>5
<1> HIDE DEF s
<1>7. s[0] = begin /\ \A i \in 1..n : s[i] = NextPass(s[i - 1], remote, alloc[i])
  BY <1>1, <1>6
<1>8. ASSUME NEW i \in 1..n, s[i - 1] \in W  PROVE s[i] \in W
  BY <1>4, <1>7, <1>8
<1>9. \A i \in 0..n : s[i] \in W
  <2>1. 0 \in Nat /\ 0 + 1 = 1 /\ s[0] \in W
    BY <1>3, <1>7
  <2>2. QED
    BY <1>1, <1>8, <2>1, Stays
<1>10. s[n] \in W
  BY <1>1, <1>9
<1>11. QED
  BY <1>2, <1>10 DEF W

\* In particular every replica stays sound.
LEMMA SyncAllKeepsSound ==
  ASSUME NEW d, Sound(d), NEW remote, DagType(remote), NEW alloc
  PROVE  Sound(SyncAll(d, remote, alloc))
<1>1. \A r \in Replicas, e \in 1..remote.count : \A how : SyncNode(r, remote, e, how) \in Replicas
  BY ReplicasAreSound, SyncNodeKeepsSound
<1>2. SyncAll(d, remote, alloc) \in Replicas
  BY <1>1, ReplicasAreSound, SyncAllStays
<1>3. QED
  BY <1>2, ReplicasAreSound

\* What set_tx_sort_info leaves is a map again.
SortInfo == [tx : Nat, order : Nat]
SortMaps == Seq(SortInfo)

\* A sort order replaces the entry of its transaction or is appended.
LEMMA AddSortInfoTyped ==
  ASSUME NEW map \in SortMaps, NEW info \in SortInfo
  PROVE  AddSortInfo(map, info) \in SortMaps
<1>1. [i \in DOMAIN map |-> IF map[i].tx = info.tx THEN info ELSE map[i]] \in SortMaps
  <2>1. Len(map) \in Nat /\ DOMAIN map = 1..Len(map)
    BY DEF SortMaps
  <2> DEFINE new == [i \in DOMAIN map |-> IF map[i].tx = info.tx THEN info ELSE map[i]]
  <2>2. new \in [1..Len(map) -> SortInfo]
    <3>1. \A i \in 1..Len(map) : map[i] \in SortInfo
      BY <2>1 DEF SortMaps
    <3>2. QED
      BY <2>1, <3>1
  <2> HIDE DEF new
  <2>3. new \in SortMaps
    BY <2>1, <2>2 DEF SortMaps
  <2>4. QED
    BY <2>3 DEF new
<1>2. Append(map, info) \in SortMaps
  BY DEF SortMaps
<1>3. QED
  BY <1>1, <1>2 DEF AddSortInfo

\* set_tx_sort_info stores its entries one after another.
LEMMA SetTxSortInfoTyped ==
  ASSUME NEW n \in Tees, sortMap \in [Tees -> SortMaps], NEW infos \in SortCalls,
         SetTxSortInfo(n, infos)
  PROVE  sortMap' \in [Tees -> SortMaps]
<1> DEFINE k == Len(infos)
           base == sortMap[n]
           solves(g) == g = [i \in 0..k |-> IF i = 0 THEN base ELSE AddSortInfo(g[i - 1], infos[i])]
           map == CHOOSE g : solves(g)
<1>1. infos \in Seq(SortInfo) /\ k \in Nat /\ base \in SortMaps
  BY TeeClusterAssumption DEF SortInfo
<1>2. sortMap' = [sortMap EXCEPT ![n] = map[k]]
  BY DEF SetTxSortInfo
<1>3. \A i \in 1..k, m \in SortMaps : AddSortInfo(m, infos[i]) \in SortMaps
  <2>1. \A i \in 1..k : infos[i] \in SortInfo
    BY <1>1
  <2>2. QED
    BY <2>1, AddSortInfoTyped
<1> HIDE DEF k, base
<1>4. \E g : solves(g)
  <2> DEFINE step == [i \in 1..k |-> [m \in SortMaps |-> AddSortInfo(m, infos[i])]]
  <2>1. StepsIn(step, k, SortMaps)
    BY <1>3 DEF StepsIn
  <2>2. \A m \in SortMaps, i \in 1..k : step[i][m] = AddSortInfo(m, infos[i])
    OBVIOUS
  <2> HIDE DEF step
  <2>3. HasRun(step, k, SortMaps, base)
    BY <1>1, <2>1, Recursion
  <2>4. PICK g \in [0..k -> SortMaps] : g[0] = base /\ \A i \in 1..k : g[i] = step[i][g[i - 1]]
    BY <2>3 DEF HasRun
  <2>5. \A i \in 1..k : g[i] = AddSortInfo(g[i - 1], infos[i])
    <3>1. \A i \in 1..k : g[i - 1] \in SortMaps
      BY <1>1
    <3>2. QED
      BY <2>2, <2>4, <3>1
  <2>6. solves(g)
    BY <1>1, <2>4, <2>5
  <2>7. QED
    BY <2>6
<1>5. solves(map)
  BY <1>4
<1> HIDE DEF map
<1>6. map[0] = base /\ \A i \in 1..k : map[i] = AddSortInfo(map[i - 1], infos[i])
  BY <1>1, <1>5
<1>7. ASSUME NEW i \in 1..k, map[i - 1] \in SortMaps  PROVE map[i] \in SortMaps
  BY <1>3, <1>6, <1>7
<1>8. \A i \in 0..k : map[i] \in SortMaps
  <2>1. 0 \in Nat /\ 0 + 1 = 1 /\ map[0] \in SortMaps
    BY <1>1, <1>6
  <2>2. QED
    BY <1>1, <1>7, <2>1, Stays
<1>9. map[k] \in SortMaps
  BY <1>1, <1>8
<1>10. QED
  BY <1>2, <1>9

\* The order a node is inserted with is a number.
LEMMA SortOrderTyped ==
  ASSUME NEW map \in SortMaps, NEW tx \in Nat
  PROVE  SortOrder(map, tx) \in Nat
<1> DEFINE hits == {i \in DOMAIN map : map[i].tx = tx}
           first(i) == i \in hits /\ \A j \in hits : i <= j
<1>1. CASE hits = {}
  BY <1>1 DEF SortOrder
<1>2. CASE hits # {}
  <2>1. hits \in SUBSET Nat
    BY DEF SortMaps
  <2>2. \E i : first(i)
    <3> HIDE DEF hits
    <3>1. QED
      BY <1>2, <2>1, Least
  <2>3. first(CHOOSE i \in hits : \A j \in hits : i <= j)
    <3> HIDE DEF hits
    <3>1. QED
      BY <2>2
  <2>4. SortOrder(map, tx) = map[CHOOSE i \in hits : \A j \in hits : i <= j].order
    BY <1>2 DEF SortOrder
  <2>5. \A i \in hits : map[i].order \in Nat
    <3>1. \A i \in DOMAIN map : map[i] \in SortInfo
      BY DEF SortMaps
    <3>2. QED
      BY <3>1 DEF SortInfo
  <2> HIDE DEF hits
  <2>6. QED
    BY <2>3, <2>4, <2>5
<1>3. QED
  BY <1>1, <1>2

-----------------------------------------------------------------------------
TokenLists == {list \in Seq(TokenSet) : Len(list) <= MaxTokens}

ReplicaInv ==
  /\ dag \in [Tees -> Replicas] /\ tokens \in [Tees -> TokenLists]
  /\ sortMap \in [Tees -> SortMaps]

\* The nodes start with empty DAGs and without tokens.
LEMMA ReplicasBegin == Init => ReplicaInv
<1> SUFFICES ASSUME Init  PROVE ReplicaInv
  OBVIOUS
<1>1. EmptyDag \in Replicas
  BY EmptyDagFacts, ReplicasAreSound DEF Sound
<1>2. << >> \in TokenLists /\ << >> \in SortMaps
  BY TeeClusterAssumption DEF TokenLists, SortMaps
<1>3. QED
  BY <1>1, <1>2 DEF Init, ReplicaInv

\* An operation that a caller submits.
LEMMA InsertKeepsReplicas ==
  ASSUME ReplicaInv, NEW n \in Tees, NEW o \in Operations, NEW order \in Nat, NEW alloc,
         Insert(n, o, order, alloc)
  PROVE  ReplicaInv'
<1>1. /\ dag = [m \in Tees |-> dag[m]] /\ tokens = [m \in Tees |-> tokens[m]]
      /\ \A m \in Tees : dag[m] \in Replicas /\ tokens[m] \in TokenLists
      /\ UNCHANGED sortMap
  BY DEF ReplicaInv, Insert
<1>2. Sound(dag[n]) /\ DagType(dag[n]) /\ tokens[n] \in Seq(TokenSet) /\ Len(tokens[n]) <= MaxTokens
  BY <1>1, ReplicasAreSound DEF Sound, TokenLists
<1>3. /\ dag' = [m \in Tees |-> dag'[m]] /\ tokens' = [m \in Tees |-> tokens'[m]]
      /\ \A m \in Tees : m # n => dag'[m] = dag[m] /\ tokens'[m] = tokens[m]
      /\ HasRoom(dag[n])
      /\ SameGraph(AddOperation(dag[n], o, order, alloc), dag'[n]) /\ DagType(dag'[n])
      /\ tokens'[n] = IF Known(tokens[n], o.token) \/ Refusal(tokens[n], o)
                        THEN tokens[n] ELSE Append(tokens[n], o.token)
  BY <1>1, <1>2, InsertEffect
<1>4. Sound(AddOperation(dag[n], o, order, alloc))
  BY <1>2, <1>3, AddKeepsSound
<1>5. dag'[n] \in Replicas
  BY <1>3, <1>4, SameGraphKeepsSound, ReplicasAreSound
<1>6. tokens'[n] \in TokenLists
  <2> DEFINE l == tokens[n]
             l2 == tokens'[n]
  <2>1. /\ MaxTokens \in Nat /\ o.token \in TokenSet /\ l \in Seq(TokenSet) /\ Len(l) <= MaxTokens
        /\ l2 = IF Known(l, o.token) \/ Refusal(l, o) THEN l ELSE Append(l, o.token)
    BY <1>2, <1>3, TeeClusterAssumption DEF TokenSet
  <2> HIDE DEF l, l2
  <2>2. l2 \in Seq(TokenSet) /\ Len(l2) <= MaxTokens
    BY <2>1 DEF Refusal
  <2>3. QED
    BY <2>2 DEF TokenLists, l2
<1>7. dag' \in [Tees -> Replicas] /\ tokens' \in [Tees -> TokenLists]
  BY <1>1, <1>3, <1>5, <1>6
<1>8. QED
  BY <1>1, <1>7 DEF ReplicaInv

\* A sync gives both nodes a new head, and the first one copies of the other's nodes.
LEMMA SyncKeepsReplicas ==
  ASSUME ReplicaInv, NEW n \in Tees, NEW m \in Tees, SyncAllTeeDags(n, m)
  PROVE  ReplicaInv'
<1> DEFINE local  == Rooted(dag[n])
           remote == Rooted(dag[m])
           next(how) == IF Hash(local) = Hash(remote) THEN local
                        ELSE SyncAll(local, remote, how)
<1>1. ASSUME NEW d, Sound(d)  PROVE Sound(Rooted(d))
  <2>1. DagType(d)
    BY <1>1 DEF Sound
  <2>2. Sound(GenerateHead(d))
    BY <1>1, <2>1, GenerateHeadKeeps, SameGraphKeepsSound
  <2>3. QED
    BY <1>1, <2>2 DEF Rooted
<1>2. Sound(local) /\ Sound(remote)
  BY <1>1, ReplicasAreSound DEF ReplicaInv
<1>3. /\ n # m /\ \E how : dag' = [dag EXCEPT ![m] = remote, ![n] = next(how)]
      /\ UNCHANGED <<tokens, sortMap>>
  BY DEF SyncAllTeeDags
<1> HIDE DEF local, remote
<1>4. \A how : Sound(next(how))
  BY <1>2, SyncAllKeepsSound DEF Sound
<1> HIDE DEF next
<1>5. dag' \in [Tees -> Replicas]
  BY <1>2, <1>3, <1>4, ReplicasAreSound DEF ReplicaInv
<1>6. QED
  BY <1>3, <1>5 DEF ReplicaInv

\* Every call of the cluster keeps the replicas sound.
LEMMA ReplicasStep ==
  ASSUME ReplicaInv, [Next]_vars
  PROVE  ReplicaInv'
<1>1. /\ dag = [m \in Tees |-> dag[m]] /\ tokens = [m \in Tees |-> tokens[m]]
      /\ \A m \in Tees : dag[m] \in Replicas /\ Sound(dag[m]) /\ DagType(dag[m])
      /\ \A m \in Tees : tokens[m] \in TokenLists /\ sortMap[m] \in SortMaps
  BY ReplicasAreSound DEF ReplicaInv, Sound
<1>2. CASE UNCHANGED vars
  BY <1>2 DEF vars, ReplicaInv
<1>3. ASSUME NEW n \in Tees, NEW o \in Submitted, NEW alloc,
             ProcessOperation(n, o, alloc) \/ ListenAndBuildDag(n, o, alloc)
      PROVE  ReplicaInv'
  <2>1. o \in Operations /\ o.tx \in Nat /\ SortOrder(sortMap[n], o.tx) \in Nat
    BY <1>1, TeeClusterAssumption, SortOrderTyped
  <2>2. QED
    BY <1>3, <2>1, InsertKeepsReplicas DEF ProcessOperation, ListenAndBuildDag
<1>4. ASSUME NEW n \in Tees, NEW infos \in SortCalls, SetTxSortInfo(n, infos)
      PROVE  ReplicaInv'
  <2>1. UNCHANGED <<dag, tokens>>
    BY <1>4 DEF SetTxSortInfo
  <2>2. sortMap' \in [Tees -> SortMaps]
    BY <1>4, SetTxSortInfoTyped DEF ReplicaInv
  <2>3. QED
    BY <2>1, <2>2 DEF ReplicaInv
<1>5. ASSUME NEW n \in Tees, NEW token \in TokenCalls, RegisterToken(n, token)
      PROVE  ReplicaInv'
  <2> DEFINE l  == tokens[n]
             l2 == IF Len(l) < MaxTokens THEN Append(l, token) ELSE l
  <2>1. tokens' = [tokens EXCEPT ![n] = l2] /\ UNCHANGED <<dag, sortMap>>
    BY <1>5 DEF RegisterToken
  <2>2. l \in Seq(TokenSet) /\ Len(l) <= MaxTokens /\ token \in TokenSet /\ MaxTokens \in Nat
    BY <1>1, TeeClusterAssumption DEF TokenLists, TokenSet
  <2> HIDE DEF l
  <2>3. l2 \in Seq(TokenSet) /\ Len(l2) <= MaxTokens
    BY <2>2
  <2> HIDE DEF l2
  <2>4. l2 \in TokenLists
    BY <2>3 DEF TokenLists
  <2>5. QED
    BY <2>1, <2>4 DEF ReplicaInv
<1>6. ASSUME NEW n \in Tees, NEW tail, GenerateEpochOutput(n, tail)  PROVE ReplicaInv'
  <2>1. /\ dag' = [m \in Tees |-> dag'[m]] /\ tokens' = tokens
        /\ \A m \in Tees : m # n => dag'[m] = dag[m]
        /\ SameGraph(dag[n], dag'[n]) /\ DagType(dag'[n])
    BY <1>1, <1>6, OutputEffect
  <2>2. dag'[n] \in Replicas
    BY <1>1, <2>1, SameGraphKeepsSound, ReplicasAreSound
  <2>3. dag' \in [Tees -> Replicas] /\ UNCHANGED sortMap
    BY <1>1, <1>6, <2>1, <2>2 DEF GenerateEpochOutput
  <2>4. QED
    BY <2>1, <2>3 DEF ReplicaInv
<1>7. ASSUME NEW n \in Tees, PeriodicBroadcast(n)  PROVE ReplicaInv'
  <2> DEFINE b == [dag[n] EXCEPT !.latest = << >>]
  <2>1. dag' = [dag EXCEPT ![n] = b] /\ UNCHANGED <<tokens, sortMap>>
    BY <1>7 DEF PeriodicBroadcast
  <2>2. b \in Replicas
    BY <1>1, BroadcastKeepsSound, ReplicasAreSound
  <2> HIDE DEF b
  <2>3. QED
    BY <2>1, <2>2 DEF ReplicaInv
<1>8. ASSUME NEW n \in Tees, NEW m \in Tees, SyncAllTeeDags(n, m)  PROVE ReplicaInv'
  BY <1>8, SyncKeepsReplicas
<1>9. QED
  BY <1>2, <1>3, <1>4, <1>5, <1>6, <1>7, <1>8 DEF Next

\* Conflicting operations with different orders: one edge, by the orders alone.
LEMMA EdgesByOrder ==
  ASSUME NEW d1, Sound(d1), NEW d2, Sound(d2), NothingFull(d2),
         NEW p \in Copies(d1, d2), NEW q \in Copies(d1, d2),
         d1.nodes[p[1]].order # d1.nodes[q[1]].order, p[1] \in d1.nodes[q[1]].parents,
         OlderIndexed(d2, p[2], q[2])
  PROVE  p[2] \in d2.nodes[q[2]].parents
<1> DEFINE a == p[1]
           b == p[2]
           x == q[1]
           y == q[2]
<1>1. /\ a \in 1..d1.count /\ b \in 1..d2.count /\ x \in 1..d1.count /\ y \in 1..d2.count
      /\ SameOperation(d1.nodes[a].op, d2.nodes[b].op) /\ d1.nodes[a].order = d2.nodes[b].order
      /\ SameOperation(d1.nodes[x].op, d2.nodes[y].op) /\ d1.nodes[x].order = d2.nodes[y].order
      /\ d1.nodes[a].order # d1.nodes[x].order /\ a \in d1.nodes[x].parents
  BY DEF Copies
<1> HIDE DEF a, b, x, y
<1>2. ASSUME NEW o1 \in Operations, NEW o2 \in Operations, SameOperation(o1, o2)
      PROVE  SameOp(o1, o2)
  <2>1. /\ o1 = [id |-> o1.id, tx |-> o1.tx, type |-> o1.type, token |-> o1.token,
                 account |-> o1.account, amount |-> o1.amount, valid |-> o1.valid]
        /\ o2 = [id |-> o2.id, tx |-> o2.tx, type |-> o2.type, token |-> o2.token,
                 account |-> o2.account, amount |-> o2.amount, valid |-> o2.valid]
    BY OperationsAssumption
  <2> DEFINE v1 == [o1 EXCEPT !.valid = TRUE]
             v2 == [o2 EXCEPT !.valid = TRUE]
  <2>2. /\ v1.id = o1.id /\ v1.tx = o1.tx /\ v1.type = o1.type /\ v1.token = o1.token
        /\ v1.account = o1.account /\ v1.amount = o1.amount
    BY <2>1
  <2>3. /\ v2.id = o2.id /\ v2.tx = o2.tx /\ v2.type = o2.type /\ v2.token = o2.token
        /\ v2.account = o2.account /\ v2.amount = o2.amount
    BY <2>1
  <2>4. v1 = v2
    BY <1>2 DEF SameOperation
  <2> HIDE DEF v1, v2
  <2>5. QED
    BY <2>2, <2>3, <2>4 DEF SameOp
<1>3. /\ DagType(d1) /\ DagType(d2)
      /\ \A e \in 1..d1.count : d1.nodes[e].op \in Operations /\ d1.nodes[e].order \in Nat
      /\ \A e \in 1..d2.count : d2.nodes[e].op \in Operations /\ d2.nodes[e].order \in Nat
  BY NodeFields DEF Sound
<1>4. /\ SameOp(d1.nodes[a].op, d2.nodes[b].op) /\ SameOp(d1.nodes[x].op, d2.nodes[y].op)
  BY <1>1, <1>2, <1>3
<1>5. IsConflict(d1.nodes[x].op, d1.nodes[a].op) /\ SortsBefore(d1, a, x)
  BY <1>1 DEF Sound, EdgesConflict, EdgesSorted
<1>6. IsConflict(d2.nodes[y].op, d2.nodes[b].op)
  BY <1>4, <1>5 DEF IsConflict, SameOp
<1>7. SortsBefore(d2, b, y)
  BY <1>1, <1>3, <1>5 DEF SortsBefore
<1>8. OlderIndexed(d2, y, b)
  <2>1. OlderIndexed(d2, b, y)
    BY DEF b, y
  <2>2. b # y
    BY <1>1
  <2>3. QED
    BY <1>1, <2>1, <2>2 DEF OlderIndexed
<1>9. b \in d2.nodes[y].parents \/ Full(d2, b, y)
  BY <1>1, <1>6, <1>7, <1>8 DEF Sound, ConflictsLinked
<1>10. ~ Full(d2, b, y)
  BY <1>1 DEF NothingFull
<1>11. QED
  BY <1>9, <1>10 DEF b, y

(***************************************************************************)
(* Convergence.  Nothing about the history of the two nodes is needed: an  *)
(* edge of one is called for by the operations and their orders, and a     *)
(* sound DAG with room has every edge that is called for and whose older   *)
(* end is in the index.                                                    *)
(***************************************************************************)
THEOREM ClusterEdgesConverge == Spec => []EdgesConverge
<1>1. ReplicaInv => EdgesConverge
  <2> SUFFICES ASSUME ReplicaInv, NEW n \in Tees, NEW m \in Tees,
                      NothingFull(dag[n]), NothingFull(dag[m]),
                      NEW p \in Copies(dag[n], dag[m]), NEW q \in Copies(dag[n], dag[m]),
                      dag[n].nodes[p[1]].order # dag[n].nodes[q[1]].order,
                      OlderIndexed(dag[n], p[1], q[1]), OlderIndexed(dag[m], p[2], q[2])
               PROVE  p[1] \in dag[n].nodes[q[1]].parents <=> p[2] \in dag[m].nodes[q[2]].parents
    BY DEF EdgesConverge
  <2>1. Sound(dag[n]) /\ Sound(dag[m])
    BY ReplicasAreSound DEF ReplicaInv
  <2>2. p[1] \in dag[n].nodes[q[1]].parents => p[2] \in dag[m].nodes[q[2]].parents
    BY <2>1, EdgesByOrder
  <2> DEFINE r == <<p[2], p[1]>>
             s == <<q[2], q[1]>>
  <2>3. /\ r \in Copies(dag[m], dag[n]) /\ s \in Copies(dag[m], dag[n])
        /\ dag[m].nodes[r[1]].order # dag[m].nodes[s[1]].order
    BY DEF Copies, SameOperation
  <2>4. r[1] = p[2] /\ r[2] = p[1] /\ s[1] = q[2] /\ s[2] = q[1]
    OBVIOUS
  <2> HIDE DEF r, s
  <2>7. OlderIndexed(dag[n], r[2], s[2])
    BY <2>4
  <2>5. r[1] \in dag[m].nodes[s[1]].parents => r[2] \in dag[n].nodes[s[2]].parents
    BY <2>1, <2>3, <2>7, EdgesByOrder
  <2>6. QED
    BY <2>2, <2>4, <2>5
<1>2. ReplicaInv /\ [Next]_vars => ReplicaInv'
  BY ReplicasStep
<1>3. QED
  BY <1>1, <1>2, ReplicasBegin, PTL DEF Spec

-----------------------------------------------------------------------------
(***************************************************************************)
(* The balance trees.  Only their counters matter here: each insert adds   *)
(* one, whatever the keys and balances are.                                *)
(***************************************************************************)
Keys == {o.account : o \in Operations} \X {o.token : o \in Operations} \X Tails
Trees == [leaf : SUBSET [key : Keys, value : Nat], size : Nat]

\* The tree of a new token slot.
LEMMA EmptyTreeTyped == EmptyTree \in Trees
BY DEF EmptyTree, Trees

\* One application writes one key and counts one more operation.
LEMMA ApplyOpEffect ==
  ASSUME NEW t \in Trees, NEW o \in Operations, NEW tail \in Tails
  PROVE  ApplyOp(t, o, tail) \in Trees /\ ApplyOp(t, o, tail).size = t.size + 1
<1> DEFINE key == BalanceKey(o, tail)
           value == NewBalance(t, o, key)
<1>1. key \in Keys
  BY DEF BalanceKey, Keys
<1>2. o.amount \in Nat /\ o.type \in OpTypes /\ AmountMod \in Nat \ {0}
  <2>1. AmountMod \in Nat \ {0} /\ o.amount \in 0..AmountMod-1
    BY MerkleStateAssumption
  <2>2. o.type \in OpTypes
    BY OperationsAssumption
  <2>3. QED
    BY <2>1, <2>2
<1> HIDE DEF key
<1>3. TreeHas(t, key) => TreeGet(t, key) \in Nat
  <2> SUFFICES ASSUME TreeHas(t, key)  PROVE TreeGet(t, key) \in Nat
    OBVIOUS
  <2>1. \E l : l \in t.leaf /\ l.key = key
    BY DEF TreeHas
  <2>2. (CHOOSE l \in t.leaf : l.key = key) \in t.leaf
    BY <2>1
  <2>3. \A l \in t.leaf : l.value \in Nat
    BY DEF Trees
  <2>4. QED
    BY <2>2, <2>3 DEF TreeGet
<1>4. \A a \in Nat : (a + o.amount) % AmountMod \in Nat /\ (a - o.amount) % AmountMod \in Nat
  BY <1>2
<1>5. value \in Nat
  <2>1. CASE o.type = "set"
    BY <1>2, <2>1 DEF NewBalance
  <2>2. CASE o.type = "add"
    BY <1>2, <1>3, <1>4, <2>2 DEF NewBalance
  <2>3. CASE o.type = "sub"
    BY <1>2, <1>3, <1>4, <2>3 DEF NewBalance
  <2>4. QED
    BY <1>2, <2>1, <2>2, <2>3 DEF OpTypes
<1>6. ApplyOp(t, o, tail) = [leaf |-> {[key |-> key, value |-> value]}, size |-> t.size + 1]
  BY DEF ApplyOp, TreeInsert, key
<1> HIDE DEF value
<1>7. t.size \in Nat
  BY DEF Trees
<1>8. QED
  BY <1>1, <1>5, <1>6, <1>7 DEF Trees

\* A loop over nodes, each met at most once, writes no more than it was given.
LEMMA ApplyAllEffect ==
  ASSUME NEW d, DagType(d), NEW t \in Trees, NEW tail \in Tails,
         NEW S \in SUBSET (1..d.count), NEW visit,
         \A i, j \in 1..d.count : visit[i] = visit[j] => i = j
  PROVE  /\ ApplyAll(d, t, S, visit, tail) \in Trees
         /\ ApplyAll(d, t, S, visit, tail).size <= t.size + Cardinality(S)
<1> DEFINE n == d.count
           next(x, i) == IF visit[i] \in S THEN ApplyOp(x, d.nodes[visit[i]].op, tail) ELSE x
           solves(g) == g = [i \in 0..n |-> IF i = 0 THEN t
                               ELSE IF visit[i] \in S
                                 THEN ApplyOp(g[i - 1], d.nodes[visit[i]].op, tail)
                               ELSE g[i - 1]]
           tree == CHOOSE g : solves(g)
           met(i) == {e \in S : \E j \in 1..i : visit[j] = e}
<1>1. n \in Nat /\ 0 \in 0..n /\ n \in 0..n
  BY MerkleDagAssumption DEF DagType
<1>2. ApplyAll(d, t, S, visit, tail) = tree[n]
  BY DEF ApplyAll
<1>3. \A e \in S : d.nodes[e].op \in Operations
  BY NodeFields
<1> HIDE DEF n
<1>4. \A i \in 1..n, x \in Trees :
         /\ next(x, i) \in Trees
         /\ next(x, i).size = x.size + (IF visit[i] \in S THEN 1 ELSE 0)
  <2> SUFFICES ASSUME NEW i \in 1..n, NEW x \in Trees
               PROVE  /\ next(x, i) \in Trees
                      /\ next(x, i).size = x.size + (IF visit[i] \in S THEN 1 ELSE 0)
    OBVIOUS
  <2>1. x.size \in Nat
    BY DEF Trees
  <2>2. CASE visit[i] \in S
    <3>1. d.nodes[visit[i]].op \in Operations
      BY <1>3, <2>2
    <3>2. QED
      BY <2>2, <3>1, ApplyOpEffect
  <2>3. CASE visit[i] \notin S
    BY <2>1, <2>3
  <2>4. QED
    BY <2>2, <2>3
<1>5. \E g : solves(g)
  <2> DEFINE step == [i \in 1..n |-> [x \in Trees |-> next(x, i)]]
  <2>1. StepsIn(step, n, Trees)
    BY <1>4 DEF StepsIn
  <2>2. \A x \in Trees, i \in 1..n : step[i][x] = next(x, i)
    OBVIOUS
  <2> HIDE DEF step
  <2>3. HasRun(step, n, Trees, t)
    BY <1>1, <2>1, Recursion
  <2>4. PICK g \in [0..n -> Trees] : g[0] = t /\ \A i \in 1..n : g[i] = step[i][g[i - 1]]
    BY <2>3 DEF HasRun
  <2>5. \A i \in 1..n : g[i] = next(g[i - 1], i)
    <3>1. \A i \in 1..n : g[i - 1] \in Trees
      BY <1>1
    <3>2. QED
      BY <2>2, <2>4, <3>1
  <2>6. solves(g)
    BY <1>1, <2>4, <2>5
  <2>7. QED
    BY <2>6
<1>6. solves(tree)
  BY <1>5
<1> HIDE DEF tree
<1>7. tree[0] = t /\ \A i \in 1..n : tree[i] = next(tree[i - 1], i)
  BY <1>1, <1>6
<1> HIDE DEF next
<1> DEFINE V == [i \in 0..n |-> {x \in Trees : x.size = t.size + Cardinality(met(i))}]
           ok(i) == tree[i] \in Trees /\ tree[i].size = t.size + Cardinality(met(i))
<1>8. \A i \in 0..n : met(i) \in SUBSET S /\ IsFiniteSet(met(i)) /\ Cardinality(met(i)) \in Nat
  <2>1. IsFiniteSet(S)
    BY <1>1, NodesFinite DEF n
  <2>2. QED
    BY <2>1, FS_Subset, FS_CardinalityType
<1>9. ok(0)
  <2>1. met(0) = {}
    BY <1>1
  <2>2. t.size \in Nat
    BY DEF Trees
  <2>3. Cardinality(met(0)) = 0
    BY <2>1, FS_EmptySet
  <2> HIDE DEF met
  <2>4. QED
    BY <1>7, <2>2, <2>3
<1>10. ASSUME NEW i \in 1..n, ok(i - 1)  PROVE ok(i)
  <2>1. i - 1 \in 0..n /\ i \in 0..n /\ 1..i = 1..i-1 \cup {i} /\ i \notin 1..i-1
        /\ 1..i-1 \subseteq 1..n
    BY <1>1
  <2>2. met(i) = IF visit[i] \in S THEN met(i - 1) \cup {visit[i]} ELSE met(i - 1)
    BY <2>1
  <2>3. visit[i] \notin met(i - 1)
    BY <2>1 DEF n
  <2>4. Cardinality(met(i)) = Cardinality(met(i - 1)) + (IF visit[i] \in S THEN 1 ELSE 0)
    <3> HIDE DEF met
    <3>1. IsFiniteSet(met(i - 1)) /\ Cardinality(met(i - 1)) \in Nat
      BY <1>8, <2>1
    <3>2. CASE visit[i] \in S
      BY <2>2, <2>3, <3>1, <3>2, FS_AddElement
    <3>3. CASE visit[i] \notin S
      BY <2>2, <3>1, <3>3
    <3>4. QED
      BY <3>2, <3>3
  <2>5. tree[i] = next(tree[i - 1], i) /\ tree[i - 1] \in Trees
    BY <1>7, <1>10
  <2>6. t.size \in Nat /\ tree[i - 1].size = t.size + Cardinality(met(i - 1))
    BY <1>10 DEF Trees
  <2> HIDE DEF met
  <2>7. QED
    BY <1>4, <1>8, <2>1, <2>4, <2>5, <2>6
<1> HIDE DEF met
<1>11. ok(n)
  <2>1. \A i \in 0..n : tree[i] \in V[i] <=> ok(i)
    OBVIOUS
  <2>2. tree[0] \in V[0]
    BY <1>1, <1>9, <2>1
  <2>3. \A i \in 1..n : i \in 0..n /\ i - 1 \in 0..n
    BY <1>1
  <2>4. ASSUME NEW i \in 1..n, tree[i - 1] \in V[i - 1]  PROVE tree[i] \in V[i]
    BY <1>10, <2>1, <2>3, <2>4
  <2> HIDE DEF V, ok
  <2>5. 0 \in Nat /\ 0 + 1 = 1
    OBVIOUS
  <2>6. \A i \in 0..n : tree[i] \in V[i]
    BY <1>1, <2>2, <2>4, <2>5, StaysAlong
  <2>7. QED
    BY <1>1, <2>1, <2>6
<1>12. Cardinality(met(n)) <= Cardinality(S)
  <2>1. IsFiniteSet(S)
    BY <1>1, NodesFinite DEF n
  <2>2. met(n) \subseteq S
    BY <1>1, <1>8
  <2>3. QED
    BY <2>1, <2>2, FS_Subset
<1>13. t.size \in Nat /\ Cardinality(S) \in Nat /\ Cardinality(met(n)) \in Nat
  <2>1. IsFiniteSet(S)
    BY <1>1, NodesFinite DEF n
  <2>2. QED
    BY <1>1, <1>8, <2>1, FS_CardinalityType DEF Trees
<1>14. QED
  BY <1>2, <1>11, <1>12, <1>13

-----------------------------------------------------------------------------
(***************************************************************************)
(* How many nodes of a DAG are applied: one more for every node marked for *)
(* the first time, and never fewer.                                        *)
(***************************************************************************)
AppliedNodes(d) == {e \in 1..d.count : d.nodes[e].applied}

\* The applied nodes of a DAG can be counted.
LEMMA AppliedFinite ==
  ASSUME NEW d, DagType(d)
  PROVE  IsFiniteSet(AppliedNodes(d)) /\ Cardinality(AppliedNodes(d)) \in Nat
<1>1. d.count \in Nat
  BY MerkleDagAssumption DEF DagType
<1>2. AppliedNodes(d) \in SUBSET (1..d.count)
  BY DEF AppliedNodes
<1>3. QED
  BY <1>1, <1>2, NodesFinite

\* A new node is not applied.
LEMMA AddKeepsApplied ==
  ASSUME NEW d, DagType(d), NEW o, NEW order, NEW alloc
  PROVE  AppliedNodes(AddOperation(d, o, order, alloc)) = AppliedNodes(d)
<1> DEFINE a == AddOperation(d, o, order, alloc)
           n == d.count + 1
<1>1. /\ a.count = n /\ 1..d.count \subseteq 1..n
      /\ \A e \in 1..n : e \in 1..d.count \/ e = n
  BY AddFields
<1>2. ~ a.nodes[n].applied /\ \A e \in 1..d.count : a.nodes[e].applied = d.nodes[e].applied
  BY AddFlags
<1> HIDE DEF a, n
<1>3. AppliedNodes(a) = AppliedNodes(d)
  BY <1>1, <1>2 DEF AppliedNodes
<1>4. QED
  BY <1>3 DEF a

\* Marking nodes that are not applied yet counts each of them once.
LEMMA MarkCounts ==
  ASSUME NEW d, DagType(d), NEW S \in SUBSET (1..d.count), NEW processed
  PROVE  /\ AppliedNodes(MarkApplied(d, Unapplied(d, S), processed)) = AppliedNodes(d) \cup S
         /\ Cardinality(AppliedNodes(d) \cup S)
              = Cardinality(AppliedNodes(d)) + Cardinality(Unapplied(d, S))
<1> DEFINE todo == Unapplied(d, S)
           m == MarkApplied(d, todo, processed)
<1>1. todo \in SUBSET (1..d.count) /\ todo \cap AppliedNodes(d) = {}
      /\ AppliedNodes(d) \cup S = AppliedNodes(d) \cup todo
  BY DEF Unapplied, AppliedNodes
<1>2. d.count \in Nat
  BY MerkleDagAssumption DEF DagType
<1>3. d = [count |-> d.count, nodes |-> d.nodes, latest |-> d.latest,
           index |-> d.index, head |-> d.head]
  BY DEF DagType
<1> HIDE DEF todo
<1>4. m.count = d.count
  BY <1>3 DEF MarkApplied
<1>5. \A e \in 1..d.count : m.nodes[e].applied <=> (d.nodes[e].applied \/ e \in todo)
  <2>1. ASSUME NEW e \in 1..d.count, e \notin todo  PROVE m.nodes[e] = d.nodes[e]
    BY <1>3, <2>1 DEF MarkApplied
  <2>2. QED
    BY <2>1, MarkAppliedFlags
<1> HIDE DEF m
<1>6. AppliedNodes(m) = AppliedNodes(d) \cup todo
  BY <1>1, <1>4, <1>5 DEF AppliedNodes
<1>7. Cardinality(AppliedNodes(d) \cup todo) = Cardinality(AppliedNodes(d)) + Cardinality(todo)
  <2>1. IsFiniteSet(AppliedNodes(d)) /\ IsFiniteSet(todo)
    BY <1>1, <1>2, AppliedFinite, NodesFinite
  <2>2. AppliedNodes(d) \cap todo = {} /\ Cardinality({}) = 0
    BY <1>1, FS_EmptySet
  <2>3. Cardinality(AppliedNodes(d)) \in Nat /\ Cardinality(todo) \in Nat
    BY <2>1, FS_CardinalityType
  <2>4. QED
    BY <2>1, <2>2, <2>3, FS_Union
<1>8. QED
  BY <1>1, <1>6, <1>7 DEF m, todo

\* A copy may come applied; nothing that was is taken back.
LEMMA SyncNodeApplied ==
  ASSUME NEW d, DagType(d), NEW remote, NEW e, NEW alloc
  PROVE  AppliedNodes(d) \subseteq AppliedNodes(SyncNode(d, remote, e, alloc))
<1> DEFINE node == remote.nodes[e]
           a    == AddOperation(d, node.op, node.order, alloc)
           n    == d.count + 1
           x    == [a.nodes[n] EXCEPT !.headCandidate = node.headCandidate,
                                      !.processed = node.processed, !.applied = node.applied]
           s    == [a EXCEPT !.nodes[n] = x]
<1>1. a.count = n /\ 1..d.count \subseteq 1..n /\ n \notin 1..d.count
  BY AddFields
<1>2. SyncNode(d, remote, e, alloc) = d \/ SyncNode(d, remote, e, alloc) = s
  BY <1>1 DEF SyncNode
<1>3. \A f \in 1..d.count : a.nodes[f].applied = d.nodes[f].applied
  BY AddFlags
<1>4. s.count = n /\ \A f \in 1..d.count : s.nodes[f] = a.nodes[f]
  <2>1. a.count = n /\ a.nodes = [f \in 1..n |-> a.nodes[f]]
    BY DEF AddOperation
  <2>2. a = [count |-> a.count, nodes |-> a.nodes, latest |-> a.latest,
             index |-> a.index, head |-> a.head]
    BY DEF AddOperation
  <2> HIDE DEF a, x
  <2>3. s = [count |-> a.count, nodes |-> [a.nodes EXCEPT ![n] = x], latest |-> a.latest,
             index |-> a.index, head |-> a.head]
    BY <2>2
  <2> HIDE DEF s
  <2>4. QED
    BY <1>1, <2>1, <2>3
<1> HIDE DEF s, a, n
<1>5. AppliedNodes(d) \subseteq AppliedNodes(s)
  BY <1>1, <1>3, <1>4 DEF AppliedNodes
<1>6. QED
  BY <1>2, <1>5

-----------------------------------------------------------------------------
\* A token that is in the list has its slot there.
LEMMA SlotFound ==
  ASSUME NEW list \in Seq(TokenSet), NEW token, Known(list, token)
  PROVE  Slot(list, token) \in 1..Len(list)
<1> DEFINE hits == {i \in 1..Len(list) : list[i] = token}
           first(i) == i \in DOMAIN list /\ list[i] = token /\ \A j \in 1..i-1 : list[j] # token
<1>1. DOMAIN list = 1..Len(list) /\ Len(list) \in Nat
  OBVIOUS
<1>2. hits \in SUBSET Nat /\ hits # {}
  BY <1>1 DEF Known, ToSet
<1>3. PICK i \in hits : \A j \in hits : i <= j
  <2> HIDE DEF hits
  <2>1. QED
    BY <1>2, Least
<1>4. first(i)
  <2>1. i \in 1..Len(list) /\ list[i] = token
    BY <1>3
  <2>2. ASSUME NEW j \in 1..i-1, list[j] = token  PROVE FALSE
    <3>1. j \in hits /\ ~ (i <= j)
      BY <2>1, <2>2
    <3>2. QED
      BY <1>3, <3>1
  <2>3. QED
    BY <1>1, <2>1, <2>2
<1>5. Slot(list, token) = CHOOSE k : first(k)
  BY DEF Slot
<1>6. first(CHOOSE k : first(k))
  <2> HIDE DEF first
  <2>1. QED
    BY <1>4
<1>7. QED
  BY <1>1, <1>5, <1>6

-----------------------------------------------------------------------------
(***************************************************************************)
(* The serial functions.                                                   *)
(***************************************************************************)
FiniteNats == {w \in SUBSET Nat : IsFiniteSet(w)}
Accs == [tree : Trees, written : FiniteNats, stopped : BOOLEAN]

\* One operation: nothing, or one more insert for one more position.
LEMMA SerialStepEffect ==
  ASSUME NEW acc \in Accs, NEW o \in Operations, NEW i \in Nat, NEW tail \in Tails
  PROVE  /\ SerialStep(acc, o, i, tail) \in Accs
         /\ acc.stopped \/ Refused(acc.tree, o, tail) =>
              /\ SerialStep(acc, o, i, tail).tree = acc.tree
              /\ SerialStep(acc, o, i, tail).written = acc.written
              /\ SerialStep(acc, o, i, tail).stopped
         /\ ~ (acc.stopped \/ Refused(acc.tree, o, tail)) =>
              /\ SerialStep(acc, o, i, tail).tree.size = acc.tree.size + 1
              /\ SerialStep(acc, o, i, tail).written = acc.written \cup {i}
              /\ ~ SerialStep(acc, o, i, tail).stopped
<1> DEFINE tree == ApplyOp(acc.tree, o, tail)
           next == SerialStep(acc, o, i, tail)
<1>1. acc = [tree |-> acc.tree, written |-> acc.written, stopped |-> acc.stopped]
      /\ acc.tree \in Trees /\ acc.written \in FiniteNats /\ acc.stopped \in BOOLEAN
  BY DEF Accs
<1>2. tree \in Trees /\ tree.size = acc.tree.size + 1
  BY <1>1, ApplyOpEffect
<1>3. next = IF acc.stopped \/ Refused(acc.tree, o, tail)
               THEN [tree |-> acc.tree, written |-> acc.written, stopped |-> TRUE]
               ELSE [tree |-> tree, written |-> acc.written \cup {i}, stopped |-> FALSE]
  BY DEF SerialStep
<1>4. acc.written \cup {i} \in FiniteNats
  BY <1>1, FS_AddElement DEF FiniteNats
<1> HIDE DEF tree, next
<1>5. CASE acc.stopped \/ Refused(acc.tree, o, tail)
  <2>1. next = [tree |-> acc.tree, written |-> acc.written, stopped |-> TRUE]
    BY <1>3, <1>5
  <2>2. next \in Accs
    BY <1>1, <2>1 DEF Accs
  <2>3. QED
    BY <1>5, <2>1, <2>2 DEF next
<1>6. CASE ~ (acc.stopped \/ Refused(acc.tree, o, tail))
  <2>1. next = [tree |-> tree, written |-> acc.written \cup {i}, stopped |-> FALSE]
    BY <1>1, <1>3, <1>6
  <2>2. next \in Accs
    BY <1>2, <1>4, <2>1 DEF Accs
  <2>3. QED
    BY <1>2, <1>6, <2>1, <2>2 DEF next
<1>7. QED
  BY <1>5, <1>6

(***************************************************************************)
(* One run: as many inserts as positions written, and a transfer with the  *)
(* sender first is written whole or not at all.                            *)
(***************************************************************************)
RunResult(t, ops, acc) ==
  /\ acc \in Accs
  /\ acc.written \subseteq 1..Len(ops)
  /\ acc.tree.size = t.size + Cardinality(acc.written)
  /\ SenderFirst(ops) => acc.written \in {{}, 1..2}

\* A serial pass writes a prefix of its run, up to its first refusal.
LEMMA SeriallyEffect ==
  ASSUME NEW t \in Trees, NEW ops \in Seq(Operations), NEW tail \in Tails
  PROVE  RunResult(t, ops, Serially(t, ops, tail))
<1> DEFINE n == Len(ops)
           start == [tree |-> t, written |-> {}, stopped |-> FALSE]
           solves(g) == g = [i \in 0..n |-> IF i = 0 THEN start
                                            ELSE SerialStep(g[i - 1], ops[i], i, tail)]
           acc == CHOOSE g : solves(g)
           V == [i \in 0..n |-> {a \in Accs : /\ a.written \subseteq 1..i
                                              /\ a.tree.size = t.size + Cardinality(a.written)}]
<1>1. n \in Nat /\ \A i \in 1..n : ops[i] \in Operations /\ i \in Nat
  OBVIOUS
<1>2. Serially(t, ops, tail) = acc[n]
  BY DEF Serially
<1>3. t.size \in Nat /\ Cardinality({}) = 0 /\ {} \in FiniteNats
  BY FS_EmptySet DEF Trees, FiniteNats
<1>4. start \in Accs /\ start \in V[0]
  <2>1. start \in Accs
    BY <1>3 DEF Accs
  <2>2. start.written \subseteq 1..0 /\ start.tree.size = t.size + Cardinality(start.written)
    BY <1>3
  <2>3. 0 \in 0..n
    BY <1>1
  <2> HIDE DEF start
  <2>4. QED
    BY <2>1, <2>2, <2>3
<1> HIDE DEF n, start
<1>5. \A i \in 1..n, a \in Accs : SerialStep(a, ops[i], i, tail) \in Accs
  BY <1>1, SerialStepEffect
<1>6. \E g : solves(g)
  <2> DEFINE step == [i \in 1..n |-> [a \in Accs |-> SerialStep(a, ops[i], i, tail)]]
  <2>1. StepsIn(step, n, Accs)
    BY <1>5 DEF StepsIn
  <2>2. \A a \in Accs, i \in 1..n : step[i][a] = SerialStep(a, ops[i], i, tail)
    OBVIOUS
  <2> HIDE DEF step
  <2>3. HasRun(step, n, Accs, start)
    BY <1>1, <1>4, <2>1, Recursion
  <2>4. PICK g \in [0..n -> Accs] : g[0] = start /\ \A i \in 1..n : g[i] = step[i][g[i - 1]]
    BY <2>3 DEF HasRun
  <2>5. \A i \in 1..n : g[i] = SerialStep(g[i - 1], ops[i], i, tail)
    <3>1. \A i \in 1..n : g[i - 1] \in Accs
      BY <1>1
    <3>2. QED
      BY <2>2, <2>4, <3>1
  <2>6. solves(g)
    BY <1>1, <2>4, <2>5
  <2>7. QED
    BY <2>6
<1>7. solves(acc)
  BY <1>6
<1> HIDE DEF acc
<1>8. acc[0] = start /\ \A i \in 1..n : acc[i] = SerialStep(acc[i - 1], ops[i], i, tail)
  BY <1>1, <1>7
<1>9. ASSUME NEW i \in 1..n, acc[i - 1] \in V[i - 1]  PROVE acc[i] \in V[i]
  <2> DEFINE a == acc[i - 1]
             b == acc[i]
  <2>1. i - 1 \in 0..n /\ i \in 0..n /\ 1..i-1 \subseteq 1..i /\ i \in 1..i /\ i \notin 1..i-1
    BY <1>1
  <2>2. a \in Accs /\ a.written \subseteq 1..i-1 /\ a.tree.size = t.size + Cardinality(a.written)
    BY <1>9, <2>1
  <2>3. b = SerialStep(a, ops[i], i, tail) /\ b \in Accs
    BY <1>5, <1>8, <2>2
  <2> HIDE DEF a, b
  <2>4. IsFiniteSet(a.written) /\ Cardinality(a.written) \in Nat
    BY <2>2, FS_CardinalityType DEF Accs, FiniteNats
  <2>5. b.written \subseteq 1..i /\ b.tree.size = t.size + Cardinality(b.written)
    <3>1. CASE a.stopped \/ Refused(a.tree, ops[i], tail)
      <4>1. b.tree = a.tree /\ b.written = a.written
        BY <1>1, <2>2, <2>3, <3>1, SerialStepEffect
      <4>2. QED
        BY <2>1, <2>2, <4>1
    <3>2. CASE ~ (a.stopped \/ Refused(a.tree, ops[i], tail))
      <4>1. b.tree.size = a.tree.size + 1 /\ b.written = a.written \cup {i}
        BY <1>1, <2>2, <2>3, <3>2, SerialStepEffect
      <4>2. Cardinality(b.written) = Cardinality(a.written) + 1
        <5>1. i \notin a.written
          BY <2>1, <2>2
        <5>2. QED
          BY <2>4, <4>1, <5>1, FS_AddElement
      <4>3. b.written \subseteq 1..i
        BY <2>1, <2>2, <4>1
      <4>4. b.tree.size = t.size + Cardinality(b.written)
        BY <1>3, <2>2, <2>4, <4>1, <4>2
      <4>5. QED
        BY <4>3, <4>4
    <3>3. QED
      BY <3>1, <3>2
  <2>6. QED
    BY <2>1, <2>3, <2>5 DEF b
<1>10. acc[n] \in V[n]
  <2>1. 0 \in Nat /\ 0 + 1 = 1 /\ n \in 0..n /\ acc[0] \in V[0]
    BY <1>1, <1>4, <1>8
  <2> HIDE DEF V
  <2>2. \A i \in 0..n : acc[i] \in V[i]
    BY <1>1, <1>9, <2>1, StaysAlong
  <2>3. QED
    BY <2>1, <2>2
<1>11. /\ acc[n] \in Accs /\ acc[n].written \subseteq 1..n
       /\ acc[n].tree.size = t.size + Cardinality(acc[n].written)
  BY <1>1, <1>10
<1>12. ASSUME SenderFirst(ops)  PROVE acc[n].written \in {{}, 1..2}
  <2>1. n = 2 /\ 1 \in 1..n /\ 2 \in 1..n /\ ~ Refused(acc[1].tree, ops[2], tail)
    BY <1>12 DEF SenderFirst, n, Refused
  <2>2. acc[1] = SerialStep(start, ops[1], 1, tail) /\ acc[2] = SerialStep(acc[1], ops[2], 2, tail)
    BY <1>8, <2>1
  <2>3. acc[1] \in Accs
    BY <1>4, <1>5, <2>1, <2>2
  <2>4. start.written = {} /\ ~ start.stopped
    BY DEF start
  <2>5. CASE Refused(start.tree, ops[1], tail)
    <3>1. acc[1].written = {} /\ acc[1].stopped
      BY <1>1, <1>4, <2>1, <2>2, <2>4, <2>5, SerialStepEffect
    <3>2. acc[2].written = {}
      BY <1>1, <2>1, <2>2, <2>3, <3>1, SerialStepEffect
    <3>3. QED
      BY <2>1, <3>2
  <2>6. CASE ~ Refused(start.tree, ops[1], tail)
    <3>1. acc[1].written = {1} /\ ~ acc[1].stopped
      BY <1>1, <1>4, <2>1, <2>2, <2>4, <2>6, SerialStepEffect
    <3>2. acc[2].written = {1} \cup {2}
      BY <1>1, <2>1, <2>2, <2>3, <3>1, SerialStepEffect
    <3>3. {1} \cup {2} = 1..2
      OBVIOUS
    <3>4. QED
      BY <2>1, <3>2, <3>3
  <2>7. QED
    BY <2>5, <2>6
<1>13. QED
  BY <1>2, <1>11, <1>12 DEF RunResult, n

\* A run begins no later than any operation of it.
LEMMA RunStartBound ==
  ASSUME NEW batch \in Seq(Operations)
  PROVE  \A i \in 1..Len(batch) : RunStart(batch)[i] \in 1..i
<1> DEFINE n == Len(batch)
           joins(s, i) == batch[i].tx = batch[s].tx /\ i - s < MaxTxOps
           next(s, i) == IF i = 1 THEN 1 ELSE IF joins(s, i) THEN s ELSE i
           solves(g) == g = [i \in 1..n |-> IF i = 1 THEN 1
                               ELSE IF batch[i].tx = batch[g[i - 1]].tx
                                         /\ i - g[i - 1] < MaxTxOps
                                 THEN g[i - 1] ELSE i]
           start == CHOOSE g : solves(g)
           V == [i \in 0..n |-> IF i = 0 THEN {1} ELSE 1..i]
<1>1. n \in Nat
  OBVIOUS
<1>2. RunStart(batch) = start
  BY DEF RunStart
<1> HIDE DEF joins
<1>3. \A i \in 1..n, s \in 1..n : next(s, i) \in 1..n
  BY <1>1
<1> HIDE DEF n
<1>4. CASE n = 0
  BY <1>4 DEF n
<1>5. CASE n # 0
  <2>1. \E g : solves(g)
    <3> DEFINE step == [i \in 1..n |-> [s \in 1..n |-> next(s, i)]]
    <3>1. StepsIn(step, n, 1..n) /\ 1 \in 1..n
      BY <1>1, <1>3, <1>5 DEF StepsIn
    <3>2. \A s \in 1..n, i \in 1..n : step[i][s] = next(s, i)
      OBVIOUS
    <3> HIDE DEF step
    <3>3. HasRun(step, n, 1..n, 1)
      BY <1>1, <3>1, Recursion
    <3>4. PICK g \in [0..n -> 1..n] : g[0] = 1 /\ \A i \in 1..n : g[i] = step[i][g[i - 1]]
      BY <3>3 DEF HasRun
    <3>5. \A i \in 1..n : g[i] = next(g[i - 1], i)
      <4>1. \A i \in 1..n : g[i - 1] \in 1..n
        BY <1>1
      <4>2. QED
        BY <3>2, <3>4, <4>1
    <3> DEFINE h == [i \in 1..n |-> g[i]]
    <3>6. \A i \in 1..n : i # 1 => h[i - 1] = g[i - 1]
      BY <1>1
    <3>7. \A i \in 1..n : h[i] = IF i = 1 THEN 1
                               ELSE IF batch[i].tx = batch[h[i - 1]].tx
                                         /\ i - h[i - 1] < MaxTxOps
                                 THEN h[i - 1] ELSE i
      BY <3>5, <3>6 DEF joins
    <3>8. solves(h)
      <4>1. h = [i \in 1..n |-> h[i]]
        OBVIOUS
      <4> HIDE DEF h
      <4>2. QED
        BY <3>7, <4>1
    <3>9. QED
      BY <3>8
  <2>2. solves(start)
    BY <2>1
  <2> HIDE DEF start
  <2>3. \A i \in 1..n : start[i] = next(start[i - 1], i)
    BY <2>2 DEF joins
  <2>4. ASSUME NEW i \in (1 + 1)..n, start[i - 1] \in V[i - 1]  PROVE start[i] \in V[i]
    <3>1. i \in 1..n /\ i - 1 \in 0..n /\ i - 1 # 0 /\ i \in 0..n /\ i # 0 /\ i # 1
      BY <1>1
    <3>2. start[i - 1] \in 1..i-1 /\ V[i] = 1..i
      BY <2>4, <3>1
    <3>3. start[i] = start[i - 1] \/ start[i] = i
      BY <2>3, <3>1
    <3>4. QED
      BY <3>1, <3>2, <3>3
  <2>5. start[1] \in V[1]
    <3>1. 1 \in 1..n /\ 1 \in 0..n
      BY <1>1, <1>5
    <3>2. start[1] = 1
      BY <2>3, <3>1
    <3>3. QED
      BY <3>1, <3>2
  <2>6. \A i \in 1..n : V[i] = 1..i
    BY <1>1
  <2> HIDE DEF V
  <2>7. \A i \in 1..n : start[i] \in V[i]
    BY <1>1, <2>4, <2>5, StaysAlong
  <2>8. QED
    BY <1>2, <2>6, <2>7 DEF n
<1>6. QED
  BY <1>4, <1>5

\* A serial call ends wherever each of its runs stays.
LEMMA SerialRunsStay ==
  ASSUME NEW V, NEW before \in V, NEW batch \in Seq(Operations), NEW tail,
         \A s \in V : \A ops \in Seq(Operations) : ops # << >> => SerialRun(s, ops, tail) \in V
  PROVE  SerialRuns(before, batch, tail) \in V
<1> DEFINE n == Len(batch)
           start == RunStart(batch)
           goesOn(i) == i < n /\ start[i + 1] = start[i]
           run(i) == SubSeq(batch, start[i], i)
           next(s, i) == IF goesOn(i) THEN s ELSE SerialRun(s, run(i), tail)
           solves(g) == g = [i \in 0..n |-> IF i = 0 THEN before
                               ELSE IF goesOn(i) THEN g[i - 1]
                               ELSE SerialRun(g[i - 1], run(i), tail)]
           res == CHOOSE g : solves(g)
<1>1. n \in Nat
  OBVIOUS
<1>2. SerialRuns(before, batch, tail) = res[n]
  BY DEF SerialRuns
<1>3. \A i \in 1..n : run(i) \in Seq(Operations) /\ run(i) # << >>
  <2> SUFFICES ASSUME NEW i \in 1..n  PROVE run(i) \in Seq(Operations) /\ run(i) # << >>
    OBVIOUS
  <2>1. start[i] \in 1..i
    BY RunStartBound
  <2> HIDE DEF start
  <2>2. SubSeq(batch, start[i], i) \in Seq(Operations)
    <3>1. \A k \in start[i]..i : batch[k] \in Operations
      BY <2>1
    <3>2. QED
      BY <2>1, <3>1, SubSeqProperties
  <2>3. Len(SubSeq(batch, start[i], i)) = i - start[i] + 1
    BY <2>1, SubSeqProperties
  <2>4. Len(SubSeq(batch, start[i], i)) # 0 /\ Len(<< >>) = 0
    BY <2>1, <2>3
  <2>5. run(i) \in Seq(Operations) /\ Len(run(i)) # Len(<< >>)
    BY <2>2, <2>4
  <2> HIDE DEF run
  <2>6. QED
    BY <2>5
<1> HIDE DEF n, goesOn, run
<1>4. \A i \in 1..n, s \in V : next(s, i) \in V
  BY <1>3
<1>5. \E g : solves(g)
  <2> DEFINE step == [i \in 1..n |-> [s \in V |-> next(s, i)]]
  <2>1. StepsIn(step, n, V)
    BY <1>4 DEF StepsIn
  <2>2. \A s \in V, i \in 1..n : step[i][s] = next(s, i)
    OBVIOUS
  <2> HIDE DEF step
  <2>3. HasRun(step, n, V, before)
    BY <1>1, <2>1, Recursion
  <2>4. PICK g \in [0..n -> V] : g[0] = before /\ \A i \in 1..n : g[i] = step[i][g[i - 1]]
    BY <2>3 DEF HasRun
  <2>5. \A i \in 1..n : g[i] = next(g[i - 1], i)
    <3>1. \A i \in 1..n : g[i - 1] \in V
      BY <1>1
    <3>2. QED
      BY <2>2, <2>4, <3>1
  <2>6. solves(g)
    BY <1>1, <2>4, <2>5
  <2>7. QED
    BY <2>6
<1>6. solves(res)
  BY <1>5
<1> HIDE DEF res
<1>7. res[0] = before /\ \A i \in 1..n : res[i] = next(res[i - 1], i)
  BY <1>1, <1>6
<1>8. ASSUME NEW i \in 1..n, res[i - 1] \in V  PROVE res[i] \in V
  BY <1>4, <1>7, <1>8
<1>9. res[n] \in V
  <2>1. 0 \in Nat /\ 0 + 1 = 1 /\ res[0] \in V /\ n \in 0..n
    BY <1>1, <1>7
  <2> HIDE DEF next
  <2>2. \A i \in 0..n : res[i] \in V
    BY <1>1, <1>8, <2>1, Stays
  <2>3. QED
    BY <2>1, <2>2
<1>10. QED
  BY <1>2, <1>9

RunRecords == [ops : Seq(Operations), written : FiniteNats]
TreeSlots == [1..MaxTokens -> Trees]

\* The sums are numbers.
LEMMA SizesNat ==
  ASSUME NEW node \in TreeSlots
  PROVE  Total(Sizes(node), MaxTokens) \in Nat
<1>1. \A i \in 1..MaxTokens : Sizes(node)[i] \in Nat
  BY DEF Sizes, TreeSlots, Trees
<1>2. MaxTokens \in Nat
  BY TeeClusterAssumption
<1>3. PICK s \in Sums(Sizes(node), MaxTokens) : Total(Sizes(node), MaxTokens) = s[MaxTokens]
  BY <1>1, <1>2, TotalSums
<1>4. QED
  BY <1>2, <1>3 DEF Sums

\* The writes of all runs can be counted.
LEMMA WrittenNat ==
  ASSUME NEW done \in Seq(RunRecords)
  PROVE  Total(Written(done), Len(done)) \in Nat
<1>1. Len(done) \in Nat /\ \A i \in 1..Len(done) : done[i] \in RunRecords
  OBVIOUS
<1>2. \A i \in 1..Len(done) : Written(done)[i] \in Nat
  BY <1>1, FS_CardinalityType DEF Written, RunRecords, FiniteNats
<1>3. PICK s \in Sums(Written(done), Len(done)) : Total(Written(done), Len(done)) = s[Len(done)]
  BY <1>1, <1>2, TotalSums
<1>4. QED
  BY <1>1, <1>3 DEF Sums

\* Another tree in one slot changes the sum by the difference of the two counters.
LEMMA SizesChange ==
  ASSUME NEW node \in TreeSlots, NEW k \in 1..MaxTokens, NEW t \in Trees
  PROVE  /\ [node EXCEPT ![k] = t] \in TreeSlots
         /\ Total(Sizes(node), MaxTokens) \in Nat
         /\ Total(Sizes([node EXCEPT ![k] = t]), MaxTokens)
              = Total(Sizes(node), MaxTokens) + (t.size - node[k].size)
<1> DEFINE other == [node EXCEPT ![k] = t]
           f == Sizes(node)
           g == Sizes(other)
<1>1. MaxTokens \in Nat /\ k \in Nat \ {0} /\ k <= MaxTokens
  BY TeeClusterAssumption
<1>2. other \in TreeSlots /\ other[k] = t
      /\ \A i \in 1..MaxTokens : i # k => other[i] = node[i]
  BY DEF TreeSlots
<1> HIDE DEF other
<1>3. \A x \in Trees : x.size \in Nat
  BY DEF Trees
<1>4. \A i \in 1..MaxTokens : node[i] \in Trees /\ other[i] \in Trees
  BY <1>2 DEF TreeSlots
<1>5. \A i \in 1..MaxTokens : f[i] = node[i].size /\ g[i] = other[i].size
  BY DEF Sizes
<1> HIDE DEF f, g
<1>6. \A i \in 1..MaxTokens : f[i] \in Nat /\ g[i] \in Nat
  BY <1>3, <1>4, <1>5
<1>7. \A i \in 1..MaxTokens : i # k => f[i] = g[i]
  BY <1>2, <1>5
<1>8. /\ Total(f, MaxTokens) \in Nat /\ Total(g, MaxTokens) \in Nat
      /\ Total(g, MaxTokens)
           = Total(f, MaxTokens) + (IF k <= MaxTokens THEN g[k] - f[k] ELSE 0)
  BY <1>1, <1>6, <1>7, TotalChange
<1>9. g[k] = t.size /\ f[k] = node[k].size
  BY <1>2, <1>5
<1>10. Total(g, MaxTokens) = Total(f, MaxTokens) + (t.size - node[k].size)
  BY <1>1, <1>8, <1>9
<1>11. QED
  BY <1>2, <1>8, <1>10 DEF f, g, other

\* A run adds what it has written.
LEMMA WrittenMore ==
  ASSUME NEW done \in Seq(RunRecords), NEW r \in RunRecords
  PROVE  /\ Total(Written(done), Len(done)) \in Nat
         /\ Total(Written(Append(done, r)), Len(Append(done, r)))
              = Total(Written(done), Len(done)) + Cardinality(r.written)
<1> DEFINE n == Len(done)
           more == Append(done, r)
           f == Written(done)
           g == Written(more)
<1>1. n \in Nat /\ Len(more) = n + 1 /\ more[n + 1] = r
      /\ \A i \in 1..n : more[i] = done[i] /\ done[i] \in RunRecords
  OBVIOUS
<1>2. \A i \in 1..n + 1 : more[i] \in RunRecords
  BY <1>1
<1>3. \A x \in RunRecords : Cardinality(x.written) \in Nat
  BY FS_CardinalityType DEF RunRecords, FiniteNats
<1> HIDE DEF more
<1>4. /\ \A i \in 1..n : f[i] = Cardinality(done[i].written)
      /\ \A i \in 1..n + 1 : g[i] = Cardinality(more[i].written)
  BY <1>1 DEF Written
<1> HIDE DEF n, f, g
<1>5. \A i \in 1..n + 1 : g[i] \in Nat
  BY <1>2, <1>3, <1>4
<1>6. \A i \in 1..n : i \in 1..n + 1
  BY <1>1
<1>7. \A i \in 1..n : f[i] = g[i] /\ f[i] \in Nat
  BY <1>1, <1>4, <1>5, <1>6
<1>8. Total(g, n + 1) = Total(g, n) + g[n + 1] /\ Total(g, n) \in Nat
  BY <1>1, <1>5, TotalMore
<1>9. Total(f, n) \in Nat /\ Total(g, n) = Total(f, n)
  <2>1. n + 1 \in Nat \ {0} /\ ~ (n + 1 <= n)
    BY <1>1
  <2>2. \A i \in 1..n : f[i] \in Nat /\ g[i] \in Nat
    BY <1>7
  <2>3. /\ Total(f, n) \in Nat /\ Total(g, n) \in Nat
        /\ Total(g, n) = Total(f, n) + (IF n + 1 <= n THEN g[n + 1] - f[n + 1] ELSE 0)
    BY <1>1, <1>7, <2>1, <2>2, TotalChange
  <2>4. QED
    BY <2>1, <2>3
<1>10. n + 1 \in 1..n + 1
  BY <1>1
<1>11. g[n + 1] = Cardinality(r.written)
  BY <1>1, <1>4, <1>10
<1>12. Total(g, Len(more)) = Total(f, n) + Cardinality(r.written)
  BY <1>1, <1>8, <1>9, <1>11
<1>13. QED
  BY <1>9, <1>12 DEF f, g, n, more

-----------------------------------------------------------------------------
(***************************************************************************)
(* What a serial call works on, with the bound of NoDoubleApply for a node *)
(* that has applied `bound` nodes of its DAG, and the transfers kept whole.*)
(***************************************************************************)
Whole(done) ==
  \A k \in DOMAIN done : SenderFirst(done[k].ops) => done[k].written \in {{}, 1..2}

Accounted(node, bound, done) ==
  Total(Sizes(node), MaxTokens) <= bound + Total(Written(done), Len(done))

SerialStates(bound) ==
  {s \in [tokens : TokenLists, trees : TreeSlots, runs : Seq(RunRecords)] :
     Accounted(s.trees, bound, s.runs) /\ Whole(s.runs)}

\* A run of a batch keeps the accounts of its node.
LEMMA SerialRunKeeps ==
  ASSUME NEW bound \in Nat, NEW s \in SerialStates(bound),
         NEW ops \in Seq(Operations), ops # << >>,
         NEW tail \in [{"update", "validate"} -> Tails]
  PROVE  SerialRun(s, ops, tail) \in SerialStates(bound)
<1> DEFINE token == ops[1].token
           list  == IF Known(s.tokens, token) THEN s.tokens ELSE Append(s.tokens, token)
           slot  == Slot(list, token)
           after == Serially(s.trees[slot], ops, tail["update"])
           put   == [s.trees EXCEPT ![slot] = after.tree]
           rec   == [ops |-> ops, written |-> after.written]
           more  == Append(s.runs, rec)
           next  == SerialRun(s, ops, tail)
<1>1. \/ next = s
      \/ Len(list) <= MaxTokens /\ next = [tokens |-> list, trees |-> s.trees, runs |-> s.runs]
      \/ Len(list) <= MaxTokens /\ next = [tokens |-> list, trees |-> put, runs |-> more]
  <2>1. \/ Len(list) > MaxTokens /\ next = s
        \/ ~ (Len(list) > MaxTokens) /\ next = [tokens |-> list, trees |-> s.trees, runs |-> s.runs]
        \/ ~ (Len(list) > MaxTokens) /\ next = [tokens |-> list, trees |-> put, runs |-> more]
    BY DEF SerialRun
  <2>2. s.tokens \in Seq(TokenSet)
    BY DEF SerialStates, TokenLists
  <2>3. MaxTokens \in Nat /\ Len(list) \in Nat
    <3>1. token \in TokenSet
      BY DEF TokenSet
    <3> HIDE DEF token
    <3>2. QED
      BY <2>2, <3>1, TeeClusterAssumption
  <2> HIDE DEF list, next, put, more
  <2>4. QED
    BY <2>1, <2>3
<1>2. /\ s.tokens \in TokenLists /\ s.tokens \in Seq(TokenSet) /\ s.trees \in TreeSlots
      /\ s.runs \in Seq(RunRecords) /\ Accounted(s.trees, bound, s.runs) /\ Whole(s.runs)
  BY DEF SerialStates, TokenLists
<1>3. token \in TokenSet /\ tail["update"] \in Tails
  <2>1. ops[1] \in Operations
    OBVIOUS
  <2>2. QED
    BY <2>1 DEF TokenSet
<1> HIDE DEF token, next
<1>4. list \in Seq(TokenSet) /\ Known(list, token)
  BY <1>2, <1>3, ToSetAppend DEF Known
<1> HIDE DEF list
<1>5. Len(list) <= MaxTokens => list \in TokenLists /\ slot \in 1..MaxTokens
  <2>1. slot \in 1..Len(list) /\ Len(list) \in Nat /\ MaxTokens \in Nat
    BY <1>4, SlotFound, TeeClusterAssumption
  <2> HIDE DEF slot
  <2>2. QED
    BY <1>4, <2>1 DEF TokenLists
<1> HIDE DEF slot
<1>6. CASE next = s
  BY <1>6 DEF next
<1>7. CASE Len(list) <= MaxTokens /\ next = [tokens |-> list, trees |-> s.trees, runs |-> s.runs]
  <2>1. next \in SerialStates(bound)
    BY <1>2, <1>5, <1>7 DEF SerialStates
  <2>2. QED
    BY <2>1 DEF next
<1>8. CASE Len(list) <= MaxTokens /\ next = [tokens |-> list, trees |-> put, runs |-> more]
  <2>1. slot \in 1..MaxTokens /\ s.trees[slot] \in Trees /\ list \in TokenLists
    BY <1>2, <1>5, <1>8 DEF TreeSlots
  <2>2. RunResult(s.trees[slot], ops, after)
    BY <1>3, <2>1, SeriallyEffect
  <2> HIDE DEF after
  <2>3. /\ after \in Accs
        /\ after.tree.size = s.trees[slot].size + Cardinality(after.written)
        /\ SenderFirst(ops) => after.written \in {{}, 1..2}
    BY <2>2 DEF RunResult
  <2>4. after.tree \in Trees /\ after.written \in FiniteNats
    BY <2>3 DEF Accs
  <2>5. rec \in RunRecords /\ rec.written = after.written /\ rec.ops = ops
    BY <2>4 DEF RunRecords
  <2>6. Cardinality(after.written) \in Nat /\ s.trees[slot].size \in Nat
    <3>1. IsFiniteSet(after.written) /\ s.trees[slot].size \in Nat
      BY <2>1, <2>4 DEF FiniteNats, Trees
    <3>2. QED
      BY <3>1, FS_CardinalityType
  <2>7. /\ put \in TreeSlots /\ Total(Sizes(s.trees), MaxTokens) \in Nat
        /\ Total(Sizes(put), MaxTokens)
             = Total(Sizes(s.trees), MaxTokens) + (after.tree.size - s.trees[slot].size)
    BY <1>2, <2>1, <2>4, SizesChange
  <2> HIDE DEF rec, put
  <2>8. /\ Total(Written(s.runs), Len(s.runs)) \in Nat
        /\ Total(Written(more), Len(more))
             = Total(Written(s.runs), Len(s.runs)) + Cardinality(after.written)
    BY <1>2, <2>5, WrittenMore
  <2>9. more \in Seq(RunRecords)
    BY <1>2, <2>5
  <2>10. Accounted(put, bound, more)
    <3> HIDE DEF more
    <3>1. Total(Sizes(s.trees), MaxTokens) <= bound + Total(Written(s.runs), Len(s.runs))
      BY <1>2 DEF Accounted
    <3> DEFINE a == Total(Sizes(s.trees), MaxTokens)
               b == Total(Written(s.runs), Len(s.runs))
               a2 == Total(Sizes(put), MaxTokens)
               b2 == Total(Written(more), Len(more))
               c == Cardinality(after.written)
               z == s.trees[slot].size
               y == after.tree.size
    <3>2. /\ a \in Nat /\ b \in Nat /\ c \in Nat /\ z \in Nat /\ a <= bound + b
          /\ y = z + c /\ a2 = a + (y - z) /\ b2 = b + c
      BY <2>3, <2>6, <2>7, <2>8, <3>1
    <3> HIDE DEF a, b, a2, b2, c, y, z
    <3>3. a2 <= bound + b2
      BY <3>2
    <3>4. QED
      BY <3>3 DEF a2, b2, Accounted
  <2>11. Whole(more)
    <3>1. /\ DOMAIN more = 1..Len(s.runs) + 1 /\ more[Len(s.runs) + 1] = rec
          /\ DOMAIN s.runs = 1..Len(s.runs)
          /\ \A k \in 1..Len(s.runs) : more[k] = s.runs[k]
          /\ \A k \in 1..Len(s.runs) + 1 : k \in 1..Len(s.runs) \/ k = Len(s.runs) + 1
      BY <1>2, <2>5
    <3> HIDE DEF more
    <3>2. QED
      BY <1>2, <2>3, <2>5, <3>1 DEF Whole
  <2> HIDE DEF more
  <2>12. next \in SerialStates(bound)
    BY <1>8, <2>1, <2>7, <2>9, <2>10, <2>11 DEF SerialStates
  <2>13. QED
    BY <2>12 DEF next
<1>9. QED
  BY <1>1, <1>6, <1>7, <1>8

\* And so do all runs of a batch, one after another.
LEMMA SerialRunsKeep ==
  ASSUME NEW bound \in Nat, NEW before \in SerialStates(bound),
         NEW batch \in Seq(Operations), NEW tail \in [{"update", "validate"} -> Tails]
  PROVE  SerialRuns(before, batch, tail) \in SerialStates(bound)
<1>1. \A s \in SerialStates(bound) : \A ops \in Seq(Operations) :
         ops # << >> => SerialRun(s, ops, tail) \in SerialStates(bound)
  BY SerialRunKeeps
<1>2. QED
  BY <1>1, SerialRunsStay

-----------------------------------------------------------------------------
(***************************************************************************)
(* The calls that go through the DAG: as many inserts as newly marked      *)
(* nodes, and no node is ever unmarked.                                    *)
(***************************************************************************)
Tally(n) == Cardinality(AppliedNodes(dag[n]))

\* What was in the balance trees before, of the nodes and of the runs, accounts for all.
Balanced(n) ==
  Total(Sizes(trees'[n]), MaxTokens) + Tally(n) <= Total(Sizes(trees[n]), MaxTokens) + Tally(n)'

\* A tree that grows by at most c makes the sum grow by at most c.
LEMMA TreeGrows ==
  ASSUME NEW node \in TreeSlots, NEW k \in 1..MaxTokens, NEW t \in Trees, NEW c \in Nat,
         t.size <= node[k].size + c
  PROVE  /\ [node EXCEPT ![k] = t] \in TreeSlots
         /\ Total(Sizes(node), MaxTokens) \in Nat
         /\ Total(Sizes([node EXCEPT ![k] = t]), MaxTokens) \in Int
         /\ Total(Sizes([node EXCEPT ![k] = t]), MaxTokens) <= Total(Sizes(node), MaxTokens) + c
<1>1. t.size \in Nat /\ node[k].size \in Nat
  BY DEF TreeSlots, Trees
<1>2. /\ [node EXCEPT ![k] = t] \in TreeSlots
      /\ Total(Sizes(node), MaxTokens) \in Nat
      /\ Total(Sizes([node EXCEPT ![k] = t]), MaxTokens)
           = Total(Sizes(node), MaxTokens) + (t.size - node[k].size)
  BY SizesChange
<1> DEFINE a == Total(Sizes(node), MaxTokens)
           b == Total(Sizes([node EXCEPT ![k] = t]), MaxTokens)
           x == t.size
           y == node[k].size
<1>3. a \in Nat /\ x \in Nat /\ y \in Nat /\ b = a + (x - y) /\ x <= y + c
  BY <1>1, <1>2
<1> HIDE DEF a, b, x, y
<1>4. b \in Int /\ b <= a + c
  BY <1>3
<1>5. QED
  BY <1>2, <1>4 DEF a, b

\* The lookup of an id that is there finds a node.
LEMMA FirstWithIdFound ==
  ASSUME NEW d, DagType(d), NEW id, \E e \in 1..d.count : d.nodes[e].op.id = id
  PROVE  FirstWithId(d, id) \in 1..d.count
<1> DEFINE hits == {e \in 1..d.count : d.nodes[e].op.id = id}
           first(e) == /\ e \in 1..d.count
                       /\ d.nodes[e].op.id = id /\ \A f \in 1..e-1 : d.nodes[f].op.id # id
<1>1. d.count \in Nat
  BY MerkleDagAssumption DEF DagType
<1>2. hits \in SUBSET Nat /\ hits # {}
  BY <1>1
<1>3. PICK e \in hits : \A f \in hits : e <= f
  <2> HIDE DEF hits
  <2>1. QED
    BY <1>2, Least
<1>4. first(e)
  <2>1. ASSUME NEW f \in 1..e-1, d.nodes[f].op.id = id  PROVE FALSE
    <3>1. f \in hits /\ ~ (e <= f)
      BY <1>1, <1>3, <2>1
    <3>2. QED
      BY <1>3, <3>1
  <2>2. QED
    BY <1>3, <2>1
<1>5. FirstWithId(d, id) = CHOOSE x : first(x)
  BY DEF FirstWithId
<1>6. first(CHOOSE x : first(x))
  <2> HIDE DEF first
  <2>1. QED
    BY <1>4
<1>7. QED
  BY <1>5, <1>6

\* What an insertion applies: once each, in whatever order the parents array has.
LEMMA ParentsApplied ==
  ASSUME NEW d, DagType(d), NEW c \in 1..d.count, NEW t \in Trees, NEW tail \in Tails
  PROVE  /\ UpdateParentStates(d, c, t, tail).tree \in Trees
         /\ UpdateParentStates(d, c, t, tail).tree.size
              <= t.size + Cardinality(Unapplied(d, d.nodes[c].parents))
         /\ Cardinality(Unapplied(d, d.nodes[c].parents)) \in Nat
         /\ DagType(UpdateParentStates(d, c, t, tail).dag)
         /\ Cardinality(AppliedNodes(UpdateParentStates(d, c, t, tail).dag))
              = Cardinality(AppliedNodes(d)) + Cardinality(Unapplied(d, d.nodes[c].parents))
<1> DEFINE S == d.nodes[c].parents
           todo == Unapplied(d, S)
           visit == ParentsInOrder(d, c)
           u == UpdateParentStates(d, c, t, tail)
<1>1. d.count \in Nat /\ S \in SUBSET (1..d.count)
  BY NodeFields
<1>2. todo \in SUBSET (1..d.count)
  BY <1>1 DEF Unapplied
<1>3. \A i, j \in 1..d.count : visit[i] = visit[j] => i = j
  BY <1>1 DEF ParentsInOrder
<1>4. u.dag = MarkApplied(d, todo, FALSE) /\ u.tree = ApplyAll(d, t, todo, visit, tail)
  BY DEF UpdateParentStates
<1> HIDE DEF visit, u
<1>5. u.tree \in Trees /\ u.tree.size <= t.size + Cardinality(todo)
  BY <1>2, <1>3, <1>4, ApplyAllEffect
<1>6. Cardinality(todo) \in Nat
  BY <1>1, <1>2, NodesFinite
<1>7. DagType(u.dag)
  BY <1>4, MarkAppliedKeeps
<1>8. Cardinality(AppliedNodes(u.dag)) = Cardinality(AppliedNodes(d)) + Cardinality(todo)
  <2>1. /\ AppliedNodes(MarkApplied(d, Unapplied(d, S), FALSE)) = AppliedNodes(d) \cup S
        /\ Cardinality(AppliedNodes(d) \cup S)
             = Cardinality(AppliedNodes(d)) + Cardinality(Unapplied(d, S))
    BY <1>1, MarkCounts
  <2>2. QED
    BY <1>4, <2>1
<1>9. QED
  BY <1>5, <1>6, <1>7, <1>8 DEF u

\* The same for the head children of an epoch.
LEMMA HeadApplied ==
  ASSUME NEW d, DagType(d), NEW t \in Trees, NEW tail \in Tails
  PROVE  /\ UpdateState(d, t, tail).tree \in Trees
         /\ UpdateState(d, t, tail).tree.size <= t.size + Cardinality(Unapplied(d, d.head))
         /\ Cardinality(Unapplied(d, d.head)) \in Nat
         /\ Cardinality(AppliedNodes(UpdateState(d, t, tail).dag))
              = Cardinality(AppliedNodes(d)) + Cardinality(Unapplied(d, d.head))
<1> DEFINE todo == Unapplied(d, d.head)
           visit == [i \in 1..d.count |-> i]
           u == UpdateState(d, t, tail)
<1>1. d.count \in Nat /\ d.head \in SUBSET (1..d.count)
  BY MerkleDagAssumption DEF DagType
<1>2. todo \in SUBSET (1..d.count)
  BY <1>1 DEF Unapplied
<1>3. \A i, j \in 1..d.count : visit[i] = visit[j] => i = j
  OBVIOUS
<1>4. u.dag = MarkApplied(d, todo, TRUE) /\ u.tree = ApplyAll(d, t, todo, visit, tail)
  BY DEF UpdateState
<1> HIDE DEF visit, u
<1>5. u.tree \in Trees /\ u.tree.size <= t.size + Cardinality(todo)
  BY <1>2, <1>3, <1>4, ApplyAllEffect
<1>6. Cardinality(todo) \in Nat
  BY <1>1, <1>2, NodesFinite
<1>7. Cardinality(AppliedNodes(u.dag)) = Cardinality(AppliedNodes(d)) + Cardinality(todo)
  <2>1. /\ AppliedNodes(MarkApplied(d, Unapplied(d, d.head), TRUE)) = AppliedNodes(d) \cup d.head
        /\ Cardinality(AppliedNodes(d) \cup d.head)
             = Cardinality(AppliedNodes(d)) + Cardinality(Unapplied(d, d.head))
    BY <1>1, MarkCounts
  <2>2. QED
    BY <1>4, <2>1
<1>8. QED
  BY <1>5, <1>6, <1>7 DEF u

\* A verdict applies nothing.
LEMMA JudgedKeepsApplied ==
  ASSUME NEW d, DagType(d), NEW tx, NEW t, NEW tail
  PROVE  AppliedNodes(Judged(d, tx, t, tail)) = AppliedNodes(d)
<1>1. /\ SameGraph(d, Judged(d, tx, t, tail))
      /\ \A e \in 1..d.count : Judged(d, tx, t, tail).nodes[e].applied = d.nodes[e].applied
  BY JudgedKeeps
<1>2. QED
  BY <1>1 DEF AppliedNodes, SameGraph

\* Nor does a new head.
LEMMA HeadKeepsApplied ==
  ASSUME NEW d, DagType(d)
  PROVE  AppliedNodes(GenerateHead(d)) = AppliedNodes(d)
<1>1. SameGraph(d, GenerateHead(d))
  BY GenerateHeadKeeps
<1>2. \A e \in 1..d.count : GenerateHead(d).nodes[e].applied = d.nodes[e].applied
  BY GenerateHeadKeepsFlags
<1>3. QED
  BY <1>1, <1>2 DEF AppliedNodes, SameGraph

\* One node's DAG and one of its trees change together.
LEMMA OneTreeBalanced ==
  ASSUME trees \in [Tees -> TreeSlots], NEW n \in Tees, NEW k \in 1..MaxTokens,
         NEW t \in Trees, NEW c \in Nat, Tally(n) \in Nat,
         t.size <= trees[n][k].size + c, Tally(n)' = Tally(n) + c,
         trees' = [trees EXCEPT ![n] = [trees[n] EXCEPT ![k] = t]]
  PROVE  trees' \in [Tees -> TreeSlots] /\ Balanced(n)
<1> DEFINE node == trees[n]
           next == [node EXCEPT ![k] = t]
<1>1. node \in TreeSlots /\ t.size <= node[k].size + c
  OBVIOUS
<1>2. trees' = [trees EXCEPT ![n] = next]
  OBVIOUS
<1> HIDE DEF node
<1>3. /\ next \in TreeSlots /\ Total(Sizes(node), MaxTokens) \in Nat
      /\ Total(Sizes(next), MaxTokens) \in Int
      /\ Total(Sizes(next), MaxTokens) <= Total(Sizes(node), MaxTokens) + c
  BY <1>1, TreeGrows
<1> HIDE DEF next
<1>4. trees' \in [Tees -> TreeSlots] /\ trees'[n] = next
  BY <1>2, <1>3
<1> DEFINE a == Total(Sizes(node), MaxTokens)
           b == Total(Sizes(next), MaxTokens)
           p == Tally(n)
           q == Tally(n)'
<1>5. a \in Nat /\ b \in Int /\ p \in Nat /\ b <= a + c /\ q = p + c
  BY <1>3
<1>6. Balanced(n) <=> b + p <= a + q
  BY <1>4 DEF Balanced, node
<1> HIDE DEF a, b, p, q
<1>7. b + p <= a + q
  BY <1>5
<1>8. QED
  BY <1>4, <1>6, <1>7

\* The trees of a node stay as they are, and nothing of its DAG is unmarked.
LEMMA SameTreesBalanced ==
  ASSUME trees \in [Tees -> TreeSlots], NEW n \in Tees, trees' = trees,
         Tally(n) \in Nat, Tally(n)' \in Nat, Tally(n) <= Tally(n)'
  PROVE  Balanced(n)
<1> DEFINE a == Total(Sizes(trees[n]), MaxTokens)
           p == Tally(n)
           q == Tally(n)'
<1>2. a \in Nat
  BY SizesNat
<1>3. Balanced(n) <=> a + p <= a + q
  BY DEF Balanced
<1> HIDE DEF a, p, q
<1>4. a + p <= a + q
  <2>1. p \in Nat /\ q \in Nat /\ p <= q
    BY DEF p, q
  <2>2. QED
    BY <1>2, <2>1
<1>5. QED
  BY <1>3, <1>4

\* process_operation and listen_and_build_dag.
LEMMA InsertBalanced ==
  ASSUME ReplicaInv, trees \in [Tees -> TreeSlots], NEW n \in Tees,
         NEW o \in Operations, NEW order \in Nat, NEW alloc, Insert(n, o, order, alloc)
  PROVE  /\ trees' \in [Tees -> TreeSlots] /\ Balanced(n)
         /\ \A m \in Tees : m # n => dag'[m] = dag[m] /\ trees'[m] = trees[m]
<1> DEFINE d    == dag[n]
           a    == AddOperation(d, o, order, alloc)
           list == IF Known(tokens[n], o.token) THEN tokens[n] ELSE Append(tokens[n], o.token)
           slot == Slot(list, o.token)
           c    == FirstWithId(a, o.id)
           after(tail) == UpdateParentStates(a, c, trees[n][slot], tail["update"])
           judged(tail) == Judged(after(tail).dag, o.tx, after(tail).tree, tail)
           next(tail) == [trees[n] EXCEPT ![slot] = after(tail).tree]
<1>1. /\ dag \in [Tees -> Replicas] /\ tokens[n] \in Seq(TokenSet) /\ Sound(d) /\ DagType(d)
      /\ o.token \in TokenSet /\ MaxTokens \in Nat
  BY ReplicasAreSound, TeeClusterAssumption DEF ReplicaInv, TokenLists, Sound, TokenSet
<1>2. /\ HasRoom(d)
      /\ \/ dag' = [dag EXCEPT ![n] = a] /\ trees' = trees
         \/ /\ Len(list) <= MaxTokens
            /\ \E tail \in Guesses(a, o.tx) :
                 dag' = [dag EXCEPT ![n] = judged(tail)] /\ trees' = [trees EXCEPT ![n] = next(tail)]
  BY DEF Insert
<1>3. list \in Seq(TokenSet) /\ Known(list, o.token)
  BY <1>1, ToSetAppend DEF Known
<1> HIDE DEF list
<1>4. Len(list) <= MaxTokens => slot \in 1..MaxTokens
  <2>1. slot \in 1..Len(list) /\ Len(list) \in Nat
    BY <1>3, SlotFound
  <2> HIDE DEF slot
  <2>2. QED
    BY <1>1, <2>1
<1> HIDE DEF slot
<1>5. DagType(a) /\ AppliedNodes(a) = AppliedNodes(d)
  BY <1>1, <1>2, AddType, AddKeepsApplied
<1>6. c \in 1..a.count
  <2>1. a.count = d.count + 1 /\ d.count + 1 \in 1..d.count + 1 /\ a.nodes[d.count + 1].op = o
    BY <1>1, AddFields, AddKeepsOps
  <2> HIDE DEF a
  <2>2. \E e \in 1..a.count : a.nodes[e].op.id = o.id
    BY <2>1
  <2>3. QED
    BY <1>5, <2>2, FirstWithIdFound
<1>7. Tally(n) \in Nat /\ Tally(n) = Cardinality(AppliedNodes(a))
  BY <1>1, <1>5, AppliedFinite DEF Tally
<1> HIDE DEF a, c
<1>8. CASE dag' = [dag EXCEPT ![n] = a] /\ trees' = trees
  <2>1. dag'[n] = a /\ \A m \in Tees : m # n => dag'[m] = dag[m]
    BY <1>1, <1>8
  <2>2. Tally(n)' = Tally(n)
    BY <1>7, <2>1 DEF Tally
  <2>3. Balanced(n)
    BY <1>7, <1>8, <2>2, SameTreesBalanced
  <2>4. QED
    BY <1>8, <2>1, <2>3
<1>9. ASSUME NEW tail \in Guesses(a, o.tx), Len(list) <= MaxTokens,
             dag' = [dag EXCEPT ![n] = judged(tail)], trees' = [trees EXCEPT ![n] = next(tail)]
      PROVE  /\ trees' \in [Tees -> TreeSlots] /\ Balanced(n)
             /\ \A m \in Tees : m # n => dag'[m] = dag[m] /\ trees'[m] = trees[m]
  <2> DEFINE k == Cardinality(Unapplied(a, a.nodes[c].parents))
             u == after(tail)
             j == judged(tail)
  <2>0. tail["update"] \in Tails
    BY DEF Guesses
  <2>1. slot \in 1..MaxTokens /\ trees[n][slot] \in Trees
    BY <1>4, <1>9 DEF TreeSlots
  <2>2. /\ u.tree \in Trees /\ u.tree.size <= trees[n][slot].size + k /\ k \in Nat
        /\ DagType(u.dag) /\ Cardinality(AppliedNodes(u.dag)) = Cardinality(AppliedNodes(a)) + k
    BY <1>1, <1>5, <1>6, <2>0, <2>1, ParentsApplied
  <2>9. j = Judged(u.dag, o.tx, u.tree, tail) /\ next(tail) = [trees[n] EXCEPT ![slot] = u.tree]
    OBVIOUS
  <2> HIDE DEF u, k, after
  <2>3. AppliedNodes(j) = AppliedNodes(u.dag)
    BY <2>2, <2>9, JudgedKeepsApplied
  <2>4. dag'[n] = j /\ \A m \in Tees : m # n => dag'[m] = dag[m]
    BY <1>1, <1>9
  <2> HIDE DEF j, judged, next
  <2>5. Tally(n)' = Tally(n) + k
    BY <1>7, <2>2, <2>3, <2>4 DEF Tally
  <2>6. trees' \in [Tees -> TreeSlots] /\ Balanced(n)
    <3>1. trees' = [trees EXCEPT ![n] = [trees[n] EXCEPT ![slot] = u.tree]]
      BY <1>9, <2>9
    <3>2. QED
      BY <1>7, <2>1, <2>2, <2>5, <3>1, OneTreeBalanced
  <2>7. \A m \in Tees : m # n => trees'[m] = trees[m]
    BY <1>9
  <2>8. QED
    BY <2>4, <2>6, <2>7
<1>10. QED
  BY <1>2, <1>8, <1>9

\* generate_epoch_output.
LEMMA OutputBalanced ==
  ASSUME ReplicaInv, trees \in [Tees -> TreeSlots], NEW n \in Tees, NEW tail \in Tails,
         GenerateEpochOutput(n, tail)
  PROVE  /\ trees' \in [Tees -> TreeSlots] /\ Balanced(n)
         /\ \A m \in Tees : m # n => dag'[m] = dag[m] /\ trees'[m] = trees[m]
<1> DEFINE d     == dag[n]
           g     == GenerateHead(d)
           owned == {e \in g.head : Known(tokens[n], g.nodes[e].op.token)}
           first == CHOOSE e \in owned : \A f \in owned : e <= f
           slot  == Slot(tokens[n], g.nodes[first].op.token)
           u     == UpdateState(g, trees[n][slot], tail)
           next  == [trees[n] EXCEPT ![slot] = u.tree]
<1>1. /\ dag \in [Tees -> Replicas] /\ tokens[n] \in Seq(TokenSet) /\ Len(tokens[n]) <= MaxTokens
      /\ Sound(d) /\ DagType(d) /\ MaxTokens \in Nat
  BY ReplicasAreSound, TeeClusterAssumption DEF ReplicaInv, TokenLists, Sound
<1>2. \/ owned = {} /\ dag' = [dag EXCEPT ![n] = g] /\ trees' = trees
      \/ /\ owned # {} /\ dag' = [dag EXCEPT ![n] = u.dag]
         /\ trees' = [trees EXCEPT ![n] = next]
  BY DEF GenerateEpochOutput
<1>3. DagType(g) /\ AppliedNodes(g) = AppliedNodes(d)
  BY <1>1, GenerateHeadKeeps, HeadKeepsApplied
<1>4. Tally(n) \in Nat /\ Tally(n) = Cardinality(AppliedNodes(g))
  BY <1>1, <1>3, AppliedFinite DEF Tally
<1> HIDE DEF g
<1>5. CASE owned = {} /\ dag' = [dag EXCEPT ![n] = g] /\ trees' = trees
  <2>1. dag'[n] = g /\ \A m \in Tees : m # n => dag'[m] = dag[m]
    BY <1>1, <1>5
  <2>2. Tally(n)' = Tally(n)
    BY <1>4, <2>1 DEF Tally
  <2>3. Balanced(n)
    BY <1>4, <1>5, <2>2, SameTreesBalanced
  <2>4. QED
    BY <1>5, <2>1, <2>3
<1>6. CASE /\ owned # {} /\ dag' = [dag EXCEPT ![n] = u.dag]
           /\ trees' = [trees EXCEPT ![n] = next]
  <2> DEFINE k == Cardinality(Unapplied(g, g.head))
  <2>1. first \in owned
    <3>1. owned \in SUBSET Nat
      BY <1>3 DEF DagType
    <3>2. \E e \in owned : \A f \in owned : e <= f
      <4> HIDE DEF owned
      <4>1. QED
        BY <1>6, <3>1, Least
    <3> HIDE DEF owned
    <3>3. QED
      BY <3>2
  <2>2. Known(tokens[n], g.nodes[first].op.token)
    <3> HIDE DEF first
    <3>1. QED
      BY <2>1
  <2> HIDE DEF first
  <2>3. slot \in 1..Len(tokens[n]) /\ Len(tokens[n]) \in Nat
    BY <1>1, <2>2, SlotFound
  <2> HIDE DEF slot
  <2>4. slot \in 1..MaxTokens /\ trees[n][slot] \in Trees
    <3>1. slot \in 1..MaxTokens
      BY <1>1, <2>3
    <3>2. QED
      BY <3>1 DEF TreeSlots
  <2>5. /\ u.tree \in Trees /\ u.tree.size <= trees[n][slot].size + k /\ k \in Nat
        /\ Cardinality(AppliedNodes(u.dag)) = Cardinality(AppliedNodes(g)) + k
    BY <1>3, <2>4, HeadApplied
  <2> HIDE DEF u, k
  <2>6. dag'[n] = u.dag /\ \A m \in Tees : m # n => dag'[m] = dag[m]
    BY <1>1, <1>6
  <2>7. Tally(n)' = Tally(n) + k
    BY <1>4, <2>5, <2>6 DEF Tally
  <2>8. trees' \in [Tees -> TreeSlots] /\ Balanced(n)
    BY <1>4, <1>6, <2>4, <2>5, <2>7, OneTreeBalanced
  <2>9. \A m \in Tees : m # n => trees'[m] = trees[m]
    BY <1>6
  <2>10. QED
    BY <2>6, <2>8, <2>9
<1>7. QED
  BY <1>2, <1>5, <1>6

\* The passes of a sync unmark nothing.
LEMMA SyncKeepsApplied ==
  ASSUME NEW d, Sound(d), NEW remote, DagType(remote), NEW alloc
  PROVE  AppliedNodes(d) \subseteq AppliedNodes(SyncAll(d, remote, alloc))
<1> DEFINE V == {r \in Replicas : AppliedNodes(d) \subseteq AppliedNodes(r)}
<1>1. d \in V
  BY ReplicasAreSound
<1>2. \A r \in V, e \in 1..remote.count : \A how : SyncNode(r, remote, e, how) \in V
  <2> SUFFICES ASSUME NEW r \in V, NEW e \in 1..remote.count, NEW how
               PROVE  SyncNode(r, remote, e, how) \in V
    OBVIOUS
  <2>1. Sound(r) /\ DagType(r) /\ AppliedNodes(d) \subseteq AppliedNodes(r)
    BY ReplicasAreSound DEF Sound
  <2>2. SyncNode(r, remote, e, how) \in Replicas
    BY <2>1, SyncNodeKeepsSound, ReplicasAreSound
  <2>3. AppliedNodes(r) \subseteq AppliedNodes(SyncNode(r, remote, e, how))
    BY <2>1, SyncNodeApplied
  <2>4. QED
    BY <2>1, <2>2, <2>3
<1> HIDE DEF V
<1>3. SyncAll(d, remote, alloc) \in V
  BY <1>1, <1>2, SyncAllStays
<1>4. QED
  BY <1>3 DEF V

\* sync_all_tee_dags.
LEMMA SyncBalanced ==
  ASSUME ReplicaInv, trees \in [Tees -> TreeSlots], NEW n \in Tees, NEW m \in Tees,
         SyncAllTeeDags(n, m)
  PROVE  trees' = trees /\ \A i \in Tees : Balanced(i)
<1> DEFINE local  == Rooted(dag[n])
           remote == Rooted(dag[m])
           next(how) == IF Hash(local) = Hash(remote) THEN local
                        ELSE SyncAll(local, remote, how)
<1>1. ASSUME NEW d, Sound(d)
      PROVE  Sound(Rooted(d)) /\ AppliedNodes(Rooted(d)) = AppliedNodes(d)
  <2>1. DagType(d)
    BY <1>1 DEF Sound
  <2>2. Sound(GenerateHead(d)) /\ AppliedNodes(GenerateHead(d)) = AppliedNodes(d)
    BY <1>1, <2>1, GenerateHeadKeeps, SameGraphKeepsSound, HeadKeepsApplied
  <2>3. QED
    BY <1>1, <2>2 DEF Rooted
<1>2. dag \in [Tees -> Replicas] /\ \A i \in Tees : Sound(dag[i]) /\ DagType(dag[i])
  BY ReplicasAreSound DEF ReplicaInv, Sound
<1>3. /\ Sound(local) /\ Sound(remote) /\ DagType(remote)
      /\ AppliedNodes(local) = AppliedNodes(dag[n])
      /\ AppliedNodes(remote) = AppliedNodes(dag[m])
  BY <1>1, <1>2 DEF Sound
<1>4. /\ n # m /\ trees' = trees
      /\ \E how : dag' = [dag EXCEPT ![m] = remote, ![n] = next(how)]
  BY DEF SyncAllTeeDags
<1> HIDE DEF local, remote
<1>5. \A how : Sound(next(how)) /\ AppliedNodes(dag[n]) \subseteq AppliedNodes(next(how))
  BY <1>3, SyncAllKeepsSound, SyncKeepsApplied
<1>10. PICK copied : /\ dag' = [dag EXCEPT ![m] = remote, ![n] = copied]
                     /\ Sound(copied) /\ AppliedNodes(dag[n]) \subseteq AppliedNodes(copied)
  BY <1>4, <1>5
<1> HIDE DEF next
<1>6. \A i \in Tees : dag'[i] = IF i = n THEN copied ELSE IF i = m THEN remote ELSE dag[i]
  BY <1>2, <1>4, <1>10
<1>7. \A i \in Tees : Sound(dag'[i]) /\ AppliedNodes(dag[i]) \subseteq AppliedNodes(dag'[i])
  BY <1>2, <1>3, <1>6, <1>10
<1>8. ASSUME NEW i \in Tees  PROVE Balanced(i)
  <2>1. DagType(dag'[i]) /\ DagType(dag[i])
    BY <1>2, <1>7 DEF Sound
  <2>2. /\ IsFiniteSet(AppliedNodes(dag'[i])) /\ Cardinality(AppliedNodes(dag'[i])) \in Nat
        /\ Cardinality(AppliedNodes(dag[i])) \in Nat
    BY <2>1, AppliedFinite
  <2>3. Cardinality(AppliedNodes(dag[i])) <= Cardinality(AppliedNodes(dag'[i]))
    BY <1>7, <2>2, FS_Subset
  <2>4. Tally(i) \in Nat /\ Tally(i)' \in Nat /\ Tally(i) <= Tally(i)'
    BY <2>2, <2>3 DEF Tally
  <2>5. QED
    BY <1>4, <2>4, SameTreesBalanced
<1>9. QED
  BY <1>4, <1>8

-----------------------------------------------------------------------------
(***************************************************************************)
(* The invariant of the cluster with its serial functions.                 *)
(***************************************************************************)
SerialInv ==
  /\ ReplicaInv
  /\ trees \in [Tees -> TreeSlots] /\ runs \in [Tees -> Seq(RunRecords)]
  /\ \A n \in Tees : Accounted(trees[n], Tally(n), runs[n]) /\ Whole(runs[n])

\* A node whose change is balanced stays accounted for.
LEMMA BalancedAccounted ==
  ASSUME NEW n \in Tees, trees[n] \in TreeSlots, trees'[n] \in TreeSlots,
         runs[n] \in Seq(RunRecords), Tally(n) \in Nat, Tally(n)' \in Nat,
         Accounted(trees[n], Tally(n), runs[n]), Balanced(n)
  PROVE  Accounted(trees'[n], Tally(n)', runs[n])
<1> DEFINE a == Total(Sizes(trees[n]), MaxTokens)
           b == Total(Sizes(trees'[n]), MaxTokens)
           w == Total(Written(runs[n]), Len(runs[n]))
           p == Tally(n)
           q == Tally(n)'
<1>1. a \in Nat /\ b \in Nat /\ w \in Nat /\ p \in Nat /\ q \in Nat
  BY SizesNat, WrittenNat
<1>2. a <= p + w /\ b + p <= a + q
  BY DEF Accounted, Balanced
<1>3. Accounted(trees'[n], q, runs[n]) <=> b <= q + w
  BY DEF Accounted
<1> HIDE DEF a, b, w, p, q
<1>4. b <= q + w
  BY <1>1, <1>2
<1>5. QED
  BY <1>3, <1>4 DEF q

\* The calls of TeeCluster.
LEMMA CallsBalanced ==
  ASSUME ReplicaInv, trees \in [Tees -> TreeSlots], Next
  PROVE  /\ trees' \in [Tees -> TreeSlots]
         /\ \A i \in Tees : Balanced(i) \/ (dag'[i] = dag[i] /\ trees'[i] = trees[i])
<1> DEFINE Fine == /\ trees' \in [Tees -> TreeSlots]
                   /\ \A i \in Tees : Balanced(i) \/ (dag'[i] = dag[i] /\ trees'[i] = trees[i])
<1>1. \A i \in Tees : DagType(dag[i]) /\ sortMap[i] \in SortMaps
  BY ReplicasAreSound DEF ReplicaInv, Sound
<1>2. ASSUME NEW n \in Tees, NEW o \in Submitted, NEW alloc,
             ProcessOperation(n, o, alloc) \/ ListenAndBuildDag(n, o, alloc)
      PROVE  Fine
  <2>1. o \in Operations /\ o.tx \in Nat /\ SortOrder(sortMap[n], o.tx) \in Nat
    BY <1>1, TeeClusterAssumption, SortOrderTyped
  <2>2. /\ trees' \in [Tees -> TreeSlots] /\ Balanced(n)
        /\ \A m \in Tees : m # n => dag'[m] = dag[m] /\ trees'[m] = trees[m]
    BY <1>2, <2>1, InsertBalanced DEF ProcessOperation, ListenAndBuildDag
  <2>3. QED
    BY <2>2
<1>3. ASSUME NEW n \in Tees, NEW infos \in SortCalls, SetTxSortInfo(n, infos)  PROVE Fine
  BY <1>3 DEF SetTxSortInfo
<1>4. ASSUME NEW n \in Tees, NEW token \in TokenCalls, RegisterToken(n, token)  PROVE Fine
  BY <1>4 DEF RegisterToken
<1>5. ASSUME NEW n \in Tees, NEW tail \in Tails, GenerateEpochOutput(n, tail)  PROVE Fine
  <2>1. /\ trees' \in [Tees -> TreeSlots] /\ Balanced(n)
        /\ \A m \in Tees : m # n => dag'[m] = dag[m] /\ trees'[m] = trees[m]
    BY <1>5, OutputBalanced
  <2>2. QED
    BY <2>1
<1>6. ASSUME NEW n \in Tees, PeriodicBroadcast(n)  PROVE Fine
  <2> DEFINE b == [dag[n] EXCEPT !.latest = << >>]
  <2>1. dag' = [dag EXCEPT ![n] = b] /\ trees' = trees
    BY <1>6 DEF PeriodicBroadcast
  <2>2. b.count = dag[n].count /\ b.nodes = dag[n].nodes
    BY <1>1 DEF DagType
  <2> HIDE DEF b
  <2>3. dag'[n] = b /\ \A m \in Tees : m # n => dag'[m] = dag[m]
    BY <2>1 DEF ReplicaInv
  <2>4. AppliedNodes(b) = AppliedNodes(dag[n])
    BY <2>2 DEF AppliedNodes
  <2>5. Tally(n)' = Tally(n) /\ Tally(n) \in Nat
    BY <1>1, <2>3, <2>4, AppliedFinite DEF Tally
  <2>6. Balanced(n)
    BY <2>1, <2>5, SameTreesBalanced
  <2>7. QED
    BY <2>1, <2>3, <2>6
<1>7. ASSUME NEW n \in Tees, NEW m \in Tees, SyncAllTeeDags(n, m)  PROVE Fine
  BY <1>7, SyncBalanced
<1>8. QED
  BY <1>2, <1>3, <1>4, <1>5, <1>6, <1>7 DEF Next

\* Nothing is applied or written at the start.
LEMMA SerialBegins == SerialInit => SerialInv
<1> SUFFICES ASSUME SerialInit  PROVE SerialInv
  OBVIOUS
<1>1. ReplicaInv
  BY ReplicasBegin DEF SerialInit
<1>2. trees \in [Tees -> TreeSlots]
  BY EmptyTreeTyped DEF SerialInit, Init, TreeSlots
<1>3. runs \in [Tees -> Seq(RunRecords)] /\ \A n \in Tees : runs[n] = << >>
  BY DEF SerialInit
<1>4. ASSUME NEW n \in Tees  PROVE Accounted(trees[n], Tally(n), runs[n]) /\ Whole(runs[n])
  <2>1. Sizes(trees[n]) = [i \in 1..MaxTokens |-> 0]
    BY DEF Sizes, SerialInit, Init, EmptyTree
  <2> DEFINE f == [i \in 1..MaxTokens |-> 0]
             Z == {0}
  <2>2. MaxTokens \in Nat /\ \A i \in 1..MaxTokens : f[i] \in Nat
    BY TeeClusterAssumption
  <2>3. PICK s \in Sums(f, MaxTokens) : Total(f, MaxTokens) = s[MaxTokens]
    BY <2>2, TotalSums
  <2>4. \A i \in 1..MaxTokens : f[i] = 0
    OBVIOUS
  <2> HIDE DEF f
  <2>5. \A i \in (0 + 1)..MaxTokens : s[i - 1] \in Z => s[i] \in Z
    BY <2>3, <2>4 DEF Sums
  <2>6. s[0] \in Z /\ 0 \in Nat
    BY <2>3 DEF Sums
  <2>7. s[MaxTokens] \in Z
    <3> HIDE DEF Z
    <3>1. \A i \in 0..MaxTokens : s[i] \in Z
      BY <2>2, <2>5, <2>6, Stays
    <3>2. QED
      BY <2>2, <3>1
  <2>8. Tally(n) \in Nat
    BY <1>1, ReplicasAreSound, AppliedFinite DEF ReplicaInv, Sound, Tally
  <2>9. Total(Written(runs[n]), Len(runs[n])) \in Nat
    BY <1>3, WrittenNat
  <2> DEFINE w == Total(Written(runs[n]), Len(runs[n]))
             p == Tally(n)
  <2>10. Accounted(trees[n], p, runs[n]) <=> 0 <= p + w
    BY <2>1, <2>3, <2>7 DEF Accounted, f
  <2>11. p \in Nat /\ w \in Nat
    BY <2>8, <2>9
  <2> HIDE DEF p, w
  <2>12. 0 <= p + w
    BY <2>11
  <2>13. Whole(runs[n])
    BY <1>3 DEF Whole
  <2>14. QED
    BY <2>10, <2>12, <2>13 DEF p
<1>5. QED
  BY <1>1, <1>2, <1>3, <1>4 DEF SerialInv

\* A serial call.
LEMMA SerialCallKeeps ==
  ASSUME SerialInv, NEW n \in Tees, NEW batch \in Seq(Operations),
         NEW tail \in [{"update", "validate"} -> Tails], SerialCall(n, batch, tail)
  PROVE  SerialInv'
<1> DEFINE before == [tokens |-> tokens[n], trees |-> trees[n], runs |-> runs[n]]
           after  == SerialRuns(before, batch, tail)
<1>1. /\ tokens' = [tokens EXCEPT ![n] = after.tokens]
      /\ trees' = [trees EXCEPT ![n] = after.trees]
      /\ runs' = [runs EXCEPT ![n] = after.runs]
      /\ UNCHANGED <<dag, sortMap>>
  BY DEF SerialCall
<1>2. /\ tokens \in [Tees -> TokenLists] /\ trees \in [Tees -> TreeSlots]
      /\ runs \in [Tees -> Seq(RunRecords)]
      /\ Accounted(trees[n], Tally(n), runs[n]) /\ Whole(runs[n])
  BY DEF SerialInv, ReplicaInv
<1>3. Tally(n) \in Nat
  BY ReplicasAreSound, AppliedFinite DEF SerialInv, ReplicaInv, Sound, Tally
<1>4. before \in SerialStates(Tally(n))
  BY <1>2 DEF SerialStates
<1> HIDE DEF before
<1>5. after \in SerialStates(Tally(n))
  BY <1>3, <1>4, SerialRunsKeep
<1> HIDE DEF after
<1>6. /\ after.tokens \in TokenLists /\ after.trees \in TreeSlots
      /\ after.runs \in Seq(RunRecords)
      /\ Accounted(after.trees, Tally(n), after.runs) /\ Whole(after.runs)
  BY <1>5 DEF SerialStates
<1>7. ReplicaInv'
  BY <1>1, <1>6 DEF SerialInv, ReplicaInv
<1>8. trees' \in [Tees -> TreeSlots] /\ runs' \in [Tees -> Seq(RunRecords)]
  BY <1>1, <1>2, <1>6
<1>9. ASSUME NEW i \in Tees  PROVE Accounted(trees'[i], Tally(i)', runs'[i]) /\ Whole(runs'[i])
  <2>1. Tally(i)' = Tally(i)
    BY <1>1 DEF Tally
  <2>2. CASE i = n
    <3>1. trees'[i] = after.trees /\ runs'[i] = after.runs
      BY <1>1, <1>2, <2>2
    <3>2. QED
      BY <1>6, <2>1, <2>2, <3>1
  <2>3. CASE i # n
    <3>1. trees'[i] = trees[i] /\ runs'[i] = runs[i]
      BY <1>1, <1>2, <2>3
    <3>2. QED
      BY <2>1, <3>1 DEF SerialInv
  <2>4. QED
    BY <2>2, <2>3
<1>10. QED
  BY <1>7, <1>8, <1>9 DEF SerialInv

\* Calls of the DAG and serial calls keep the accounts.
LEMMA SerialInvStep ==
  ASSUME SerialInv, [SerialNext]_serialVars
  PROVE  SerialInv'
<1>1. CASE UNCHANGED serialVars
  BY <1>1 DEF serialVars, vars, SerialInv, ReplicaInv, Tally
<1>2. CASE Next /\ UNCHANGED <<serialCalls, runs>>
  <2>1. ReplicaInv' /\ ReplicaInv
    BY <1>2, ReplicasStep DEF SerialInv
  <2>2. /\ trees' \in [Tees -> TreeSlots]
        /\ \A i \in Tees : Balanced(i) \/ (dag'[i] = dag[i] /\ trees'[i] = trees[i])
    BY <1>2, CallsBalanced DEF SerialInv
  <2>3. ASSUME NEW i \in Tees  PROVE Accounted(trees'[i], Tally(i)', runs[i])
    <3>1. Accounted(trees[i], Tally(i), runs[i])
      BY DEF SerialInv
    <3>2. CASE Balanced(i)
      <4>1. Tally(i) \in Nat
        BY <2>1, ReplicasAreSound, AppliedFinite DEF ReplicaInv, Sound, Tally
      <4>2. Tally(i)' \in Nat
        BY <2>1, ReplicasAreSound, AppliedFinite DEF ReplicaInv, Sound, Tally
      <4>3. trees[i] \in TreeSlots /\ trees'[i] \in TreeSlots /\ runs[i] \in Seq(RunRecords)
        BY <2>2 DEF SerialInv
      <4>4. QED
        BY <3>1, <3>2, <4>1, <4>2, <4>3, BalancedAccounted
    <3>3. CASE dag'[i] = dag[i] /\ trees'[i] = trees[i]
      BY <3>1, <3>3 DEF Tally
    <3>4. QED
      BY <2>2, <3>2, <3>3
  <2>4. QED
    BY <1>2, <2>1, <2>2, <2>3 DEF SerialInv
<1>3. ASSUME NEW n \in Tees, NEW tail \in [{"update", "validate"} -> Tails],
             NEW batch \in Batches, ProcessSerialBatch(n, batch, tail)
      PROVE  SerialInv'
  <2>1. batch \in Seq(Operations)
    BY TeeSerialAssumption
  <2>2. QED
    BY <1>3, <2>1, SerialCallKeeps DEF ProcessSerialBatch
<1>4. ASSUME NEW n \in Tees, NEW tail \in [{"update", "validate"} -> Tails],
             NEW o \in SerialOps, ProcessOperationSerial(n, o, tail)
      PROVE  SerialInv'
  <2>1. <<o>> \in Seq(Operations)
    BY TeeSerialAssumption
  <2>2. QED
    BY <1>4, <2>1, SerialCallKeeps DEF ProcessOperationSerial
<1>5. QED
  BY <1>1, <1>2, <1>3, <1>4 DEF SerialNext

\* The accounts hold in every state.
LEMMA SerialInvHolds == SerialSpec => []SerialInv
<1>1. SerialInv /\ [SerialNext]_serialVars => SerialInv'
  BY SerialInvStep
<1>2. QED
  BY <1>1, SerialBegins, PTL DEF SerialSpec

(***************************************************************************)
(* Nothing is written to the balance trees twice, over both ways operations*)
(* take, whatever is registered again, synced, judged or refused between.  *)
(***************************************************************************)
THEOREM ClusterNoDoubleApply == SerialSpec => []NoDoubleApply
<1>1. SerialInv => NoDoubleApply
  BY DEF SerialInv, NoDoubleApply, Accounted, Tally, AppliedNodes
<1>2. QED
  BY <1>1, SerialInvHolds, PTL

(***************************************************************************)
(* A transfer with the sender first is written whole or not at all, for    *)
(* every batch, every balance and every content of the unwritten bytes.    *)
(***************************************************************************)
THEOREM ClusterTransfersWhole == SerialSpec => []SerialTransfersWhole
<1>1. SerialInv => SerialTransfersWhole
  BY DEF SerialInv, SerialTransfersWhole, Whole
<1>2. QED
  BY <1>1, SerialInvHolds, PTL

-----------------------------------------------------------------------------
(***************************************************************************)
(* The host.  HostThreads is about the two threads: a transaction is under *)
(* way only while the thread lives, and then its chain is one block short. *)
(* HostOrder is what the simulator makes of the DAG: each chain's          *)
(* operations count up to its newest transaction, whose second operation   *)
(* is still to come or is there.  HostDag is what the cluster adds: Late,  *)
(* but only while every token has a slot, since a refused operation does   *)
(* not apply its parents - and a token without a slot finds them all taken *)
(* - and what an epoch output leaves, with one chain (entries after the    *)
(* first are never used then) and with several.                            *)
(***************************************************************************)
Chain == [chainId : ChainIds, txCounter : Nat, blockNumber : Nat]

HostThreads ==
  /\ chains \in Seq(Chain) /\ running \in BOOLEAN
  /\ thread \in {"none", "live", "exited", "joined"} /\ caller \in {"free", "joining"}
  /\ running => thread = "live"
  /\ thread = "live" /\ caller = "free" => running
  /\ caller = "joining" => ~ running /\ thread \in {"live", "exited"}
  /\ \/ work = Sim!Idle
     \/ /\ work \in [at : {"second", "block"}, chain : DOMAIN chains] /\ thread = "live"
  /\ \A i \in DOMAIN chains :
        chains[i].txCounter
          = chains[i].blockNumber + (IF work # Sim!Idle /\ work.chain = i THEN 1 ELSE 0)
  /\ work.at = "second" => \E o \in Submitted : o.tx \in Nat /\ rest = <<o>>
  /\ work.at # "second" => rest = Nothing

\* The newest transaction of chain i, and of the first chain if there is one.
LastOf(i) == chains[i].txCounter
LastTx == IF chains = << >> THEN 0 ELSE chains[1].txCounter

\* The operations an id may belong to.
OfTx(o, tx) == o.tx = tx /\ o.id \in {2 * tx, 2 * tx + 1}

InOrder(d, last) ==
  /\ UniqueIds(d) /\ Numbered(d)
  /\ \A e \in 1..d.count : \E tx \in 1..last : OfTx(d.nodes[e].op, tx)

\* by[e] is the chain that fed node e; each chain counts up in c.
FedSorted(d, by, c) ==
  /\ by \in Seq(Nat) /\ Len(by) = d.count
  /\ \A e \in 1..d.count : /\ by[e] \in DOMAIN c
                           /\ d.nodes[e].order = d.nodes[e].op.tx
                           /\ \E tx \in 1..c[by[e]].txCounter : OfTx(d.nodes[e].op, tx)
  /\ \A e, f \in 1..d.count : e < f /\ by[e] = by[f] => d.nodes[e].op.id < d.nodes[f].op.id

Below(d, by, i, id) == \A e \in 1..d.count : by[e] = i => d.nodes[e].op.id < id

OnlyFirst(d, by) == \A e \in 1..d.count : by[e] = 1

HostOrder ==
  /\ FedSorted(dag[Node], fed, chains)
  /\ OneChain => OnlyFirst(dag[Node], fed)
  /\ work.at = "second" =>
       /\ OneChain => work.chain = 1
       /\ rest[1].tx = LastOf(work.chain) /\ rest[1].id = 2 * LastOf(work.chain) + 1
       /\ Below(dag[Node], fed, work.chain, rest[1].id)

Complete(d, list) ==
  Cardinality(d.head) < MaxChildren /\ AllKnown(d, list) =>
    /\ \A e \in 1..d.count : d.nodes[e].applied \/ LeftOut(d, e)
    /\ OneChain /\ OncePerTx(d) => \A e \in 1..d.count : d.nodes[e].applied

HostDag ==
  /\ dag = [n \in Tees |-> dag[n]] /\ tokens = [n \in Tees |-> tokens[n]]
  /\ LET d == dag[Node]  list == tokens[Node] IN
     /\ DagType(d) /\ EdgesMutual(d) /\ Processed(d)
     /\ list \in Seq(TokenSet) /\ Len(list) <= MaxTokens
     /\ thread = "none" => d.count = 0
     /\ AllKnown(d, list) \/ Len(list) >= MaxTokens
     /\ AllKnown(d, list) => Late(d)
     /\ OneChain /\ OncePerTx(d) => Forward(d)
     /\ settled => Complete(d, list)
  /\ settled \in BOOLEAN

HostInv == HostThreads /\ HostOrder /\ HostDag

\* The first chain with an id is among the chains; with one id it is entry 1.
LEMMA PickedFacts ==
  ASSUME chains \in Seq(Chain), NEW j \in DOMAIN chains
  PROVE  /\ Sim!Picked(j) \in DOMAIN chains
         /\ OneChain => Sim!Picked(j) = 1
<1> DEFINE id == chains[j].chainId
           I  == {i \in DOMAIN chains : chains[i].chainId = id}
           first(i) == chains[i].chainId = id /\ \A k \in 1..i-1 : chains[k].chainId # id
<1>1. DOMAIN chains = 1..Len(chains) /\ Len(chains) \in Nat /\ I \in SUBSET Nat /\ I # {}
  OBVIOUS
<1>2. PICK m \in I : \A x \in I : m <= x
  <2> HIDE DEF I
  <2>1. QED
    BY <1>1, Least
<1>3. first(m) /\ m \in DOMAIN chains
  BY <1>1, <1>2
<1>4. Sim!Picked(j) = CHOOSE i \in DOMAIN chains : first(i)
  BY DEF Sim!Picked, Sim!FirstWith
<1>5. Sim!Picked(j) \in DOMAIN chains /\ first(Sim!Picked(j))
  <2> HIDE DEF first
  <2>1. QED
    BY <1>3, <1>4
<1>6. ASSUME OneChain, Sim!Picked(j) # 1  PROVE FALSE
  <2> DEFINE p == Sim!Picked(j)
  <2> HIDE DEF p
  <2>1. p \in 1..Len(chains) /\ p # 1 /\ \A k \in 1..p-1 : chains[k].chainId # id
    BY <1>1, <1>5, <1>6 DEF p
  <2>2. 1 \in 1..p-1 /\ 1 \in DOMAIN chains
    BY <1>1, <2>1
  <2>3. QED
    BY <1>6, <2>1, <2>2 DEF OneChain
<1>7. QED
  BY <1>5, <1>6

\* Counting at one chain leaves all the others and the ids alone.
TxCounted(c, i, v, c2) ==
  /\ c2 \in Seq(Chain) /\ DOMAIN c2 = DOMAIN c
  /\ \A k \in DOMAIN c : /\ c2[k].chainId = c[k].chainId
                         /\ c2[k].blockNumber = c[k].blockNumber
                         /\ c2[k].txCounter = IF k = i THEN v ELSE c[k].txCounter

\* Counting a transaction of one chain.
LEMMA CountedTx ==
  ASSUME NEW c \in Seq(Chain), NEW i \in DOMAIN c, NEW v \in Nat,
         NEW c2, c2 = [c EXCEPT ![i].txCounter = v]
  PROVE  TxCounted(c, i, v, c2)
<1> DEFINE x == [c[i] EXCEPT !.txCounter = v]
<1>1. c[i] \in Chain
  OBVIOUS
<1>2. c2 = [c EXCEPT ![i] = x]
  OBVIOUS
<1>3. x \in Chain /\ x.chainId = c[i].chainId /\ x.blockNumber = c[i].blockNumber /\ x.txCounter = v
  BY <1>1 DEF Chain
<1> HIDE DEF x
<1>4. c2 \in Seq(Chain) /\ DOMAIN c2 = DOMAIN c
  BY <1>2, <1>3
<1>5. \A k \in DOMAIN c : c2[k] = IF k = i THEN x ELSE c[k]
  BY <1>2
<1>6. QED
  BY <1>3, <1>4, <1>5 DEF TxCounted

\* The same for the block number.
BlockCounted(c, i, v, c2) ==
  /\ c2 \in Seq(Chain) /\ DOMAIN c2 = DOMAIN c
  /\ \A k \in DOMAIN c : /\ c2[k].chainId = c[k].chainId
                         /\ c2[k].txCounter = c[k].txCounter
                         /\ c2[k].blockNumber = IF k = i THEN v ELSE c[k].blockNumber

\* Counting a block of one chain.
LEMMA CountedBlock ==
  ASSUME NEW c \in Seq(Chain), NEW i \in DOMAIN c, NEW v \in Nat,
         NEW c2, c2 = [c EXCEPT ![i].blockNumber = v]
  PROVE  BlockCounted(c, i, v, c2)
<1> DEFINE x == [c[i] EXCEPT !.blockNumber = v]
<1>1. c[i] \in Chain
  OBVIOUS
<1>2. c2 = [c EXCEPT ![i] = x]
  OBVIOUS
<1>3. x \in Chain /\ x.chainId = c[i].chainId /\ x.txCounter = c[i].txCounter /\ x.blockNumber = v
  BY <1>1 DEF Chain
<1> HIDE DEF x
<1>4. c2 \in Seq(Chain) /\ DOMAIN c2 = DOMAIN c
  BY <1>2, <1>3
<1>5. \A k \in DOMAIN c : c2[k] = IF k = i THEN x ELSE c[k]
  BY <1>2
<1>6. QED
  BY <1>3, <1>4, <1>5 DEF BlockCounted

\* One pass of the loop begins: Transfer, Mint or Burn.
Begins(i, kind, o, alloc) ==
  /\ Sim!Generate(i, kind) /\ Callback(i, o, alloc)
  /\ o \in Submitted /\ o.tx = LastOf(i) + 1 /\ o.tx \in Nat /\ o.id = 2 * o.tx
  /\ IF kind = "transfer"
       THEN \E q \in Submitted : /\ rest' = <<q>> /\ q.tx = o.tx /\ q.id = 2 * o.tx + 1
       ELSE rest' = rest

\* Every step of the host is one of these.
LEMMA HostSteps ==
  ASSUME chains \in Seq(Chain), [HostNext]_hostVars
  PROVE  \/ UNCHANGED hostVars
         \/ ClusterInit
         \/ (\E id \in ChainIds : Sim!AddChain(id)) /\ UNCHANGED <<cluster, rest, guest, fed, settled>>
         \/ (Sim!Start \/ Sim!Stop \/ Sim!Joined) /\ UNCHANGED <<cluster, rest, guest, fed, settled>>
         \/ (Sim!CountBlock \/ Sim!Exit) /\ UNCHANGED <<cluster, rest, guest, fed, settled>>
         \/ \E alloc \in Mallocs : TransferSecond(alloc)
         \/ \E tail \in Tails : Output(tail)
         \/ \E token \in TokenCalls : Register(token)
         \/ \E j \in DOMAIN chains, kind \in {"transfer", "mint", "burn"},
               o \in Submitted, alloc \in Mallocs : Begins(Sim!Picked(j), kind, o, alloc)
<1>1. ASSUME NEW j \in DOMAIN chains, NEW token \in TokenIds, NEW alloc \in Mallocs,
             \/ \E from, to \in Accounts : Transfer(Sim!Picked(j), token, from, to, alloc)
             \/ \E account \in Accounts : \/ Mint(Sim!Picked(j), token, account, alloc)
                                          \/ Burn(Sim!Picked(j), token, account, alloc)
      PROVE  \E kind \in {"transfer", "mint", "burn"}, o \in Submitted :
                Begins(Sim!Picked(j), kind, o, alloc)
  <2> DEFINE i == Sim!Picked(j)
             tx == Sim!NextTx(i)
  <2>1. i \in DOMAIN chains /\ tx = LastOf(i) + 1 /\ LastOf(i) \in Nat
    <3>1. i \in DOMAIN chains
      BY PickedFacts
    <3> HIDE DEF i
    <3>2. chains[i] \in Chain
      BY <3>1
    <3>3. QED
      BY <3>1, <3>2 DEF Sim!NextTx, LastOf, Chain
  <2> HIDE DEF i, tx
  <2>2. ASSUME tx <= MaxTx, NEW half \in 0..1, NEW type \in {"add", "sub"}, NEW account \in Accounts
        PROVE  LET o == Made(tx, half, type, token, account) IN
               o \in Submitted /\ o.tx = tx /\ o.id = 2 * tx + half
    <3>1. tx \in 1..MaxTx
      BY <2>1, <2>2, HostDemoAssumption
    <3>2. Made(tx, half, type, token, account) \in Submitted
      BY <3>1, HostDemoAssumption
    <3>3. QED
      BY <3>2 DEF Made
  <2>3. tx \in Nat /\ 2 * tx + 0 = 2 * tx /\ 0 \in 0..1 /\ 1 \in 0..1
    BY <2>1
  <2>4. ASSUME NEW from \in Accounts, NEW to \in Accounts, Transfer(i, token, from, to, alloc)
        PROVE  \E kind \in {"transfer", "mint", "burn"}, o \in Submitted : Begins(i, kind, o, alloc)
    <3> DEFINE o == Made(tx, 0, "sub", token, from)
               q == Made(tx, 1, "add", token, to)
    <3>1. Sim!Generate(i, "transfer") /\ Callback(i, o, alloc) /\ rest' = <<q>>
      BY <2>4 DEF Transfer, tx
    <3>2. tx <= MaxTx
      BY <3>1 DEF Sim!Generate, tx
    <3>3. /\ o \in Submitted /\ o.tx = tx /\ o.id = 2 * tx
          /\ q \in Submitted /\ q.tx = tx /\ q.id = 2 * tx + 1
      BY <2>2, <2>3, <3>2
    <3> HIDE DEF o, q
    <3>4. Begins(i, "transfer", o, alloc)
      BY <2>1, <2>3, <3>1, <3>3 DEF Begins
    <3>5. QED
      BY <3>3, <3>4
  <2>5. ASSUME NEW account \in Accounts, Mint(i, token, account, alloc)
        PROVE  \E kind \in {"transfer", "mint", "burn"}, o \in Submitted : Begins(i, kind, o, alloc)
    <3> DEFINE o == Made(tx, 0, "add", token, account)
    <3>1. Sim!Generate(i, "mint") /\ Callback(i, o, alloc) /\ rest' = rest
      BY <2>5 DEF Mint, tx
    <3>2. tx <= MaxTx
      BY <3>1 DEF Sim!Generate, tx
    <3>3. o \in Submitted /\ o.tx = tx /\ o.id = 2 * tx
      BY <2>2, <2>3, <3>2
    <3> HIDE DEF o
    <3>4. Begins(i, "mint", o, alloc)
      BY <2>1, <2>3, <3>1, <3>3 DEF Begins
    <3>5. QED
      BY <3>3, <3>4
  <2>6. ASSUME NEW account \in Accounts, Burn(i, token, account, alloc)
        PROVE  \E kind \in {"transfer", "mint", "burn"}, o \in Submitted : Begins(i, kind, o, alloc)
    <3> DEFINE o == Made(tx, 0, "sub", token, account)
    <3>1. Sim!Generate(i, "burn") /\ Callback(i, o, alloc) /\ rest' = rest
      BY <2>6 DEF Burn, tx
    <3>2. tx <= MaxTx
      BY <3>1 DEF Sim!Generate, tx
    <3>3. o \in Submitted /\ o.tx = tx /\ o.id = 2 * tx
      BY <2>2, <2>3, <3>2
    <3> HIDE DEF o
    <3>4. Begins(i, "burn", o, alloc)
      BY <2>1, <2>3, <3>1, <3>3 DEF Begins
    <3>5. QED
      BY <3>3, <3>4
  <2>7. QED
    BY <1>1, <2>4, <2>5, <2>6 DEF i
<1>2. CASE UNCHANGED hostVars
  BY <1>2
<1>3. CASE HostNext
  BY <1>1, <1>3 DEF HostNext, Control, StopReturned, SimulatorStep, Bookkeeping
<1>4. QED
  BY <1>2, <1>3

-----------------------------------------------------------------------------
\* The threads and the counters, whatever the cluster does meanwhile.
LEMMA ThreadsInit == HostInit => HostThreads
<1> SUFFICES ASSUME HostInit  PROVE HostThreads
  OBVIOUS
<1>1. /\ chains = << >> /\ running = FALSE /\ thread = "none" /\ caller = "free"
      /\ work = Sim!Idle /\ rest = Nothing
  BY DEF HostInit, Sim!Init
<1>2. chains \in Seq(Chain) /\ DOMAIN chains = {}
  BY <1>1
<1>3. work.at # "second"
  BY <1>1 DEF Sim!Idle
<1>4. QED
  BY <1>1, <1>2, <1>3 DEF HostThreads

\* Every step of either thread keeps what the flags and places say.
LEMMA ThreadsStep ==
  ASSUME HostThreads, [HostNext]_hostVars
  PROVE  HostThreads'
<1>1. chains \in Seq(Chain)
  BY DEF HostThreads
<1>2. CASE UNCHANGED <<simulator, rest>>
  BY <1>2 DEF simulator, HostThreads
<1>3. ASSUME NEW id \in ChainIds, Sim!AddChain(id), UNCHANGED rest  PROVE HostThreads'
  <2> DEFINE new == [chainId |-> id, txCounter |-> 0, blockNumber |-> 0]
  <2>1. /\ chains' = Append(chains, new) /\ new \in Chain
        /\ UNCHANGED <<running, thread, caller, work, rest>>
    BY <1>3 DEF Sim!AddChain, Chain
  <2>2. /\ chains' \in Seq(Chain) /\ DOMAIN chains' = 1..Len(chains) + 1
        /\ DOMAIN chains = 1..Len(chains) /\ Len(chains) \in Nat
        /\ chains'[Len(chains) + 1] = new /\ \A i \in DOMAIN chains : chains'[i] = chains[i]
    BY <1>1, <2>1
  <2>3. ASSUME NEW i \in DOMAIN chains'
        PROVE  chains'[i].txCounter
                 = chains'[i].blockNumber + (IF work # Sim!Idle /\ work.chain = i THEN 1 ELSE 0)
    <3>1. CASE i \in DOMAIN chains
      BY <2>2, <3>1 DEF HostThreads
    <3>2. CASE i = Len(chains) + 1
      <4>1. work # Sim!Idle => work.chain # i
        BY <2>2, <3>2 DEF HostThreads
      <4>2. QED
        BY <2>2, <3>2, <4>1
    <3>3. QED
      BY <2>2, <3>1, <3>2
  <2>4. work = Sim!Idle \/ (work \in [at : {"second", "block"}, chain : DOMAIN chains'] /\ thread = "live")
    BY <2>2 DEF HostThreads
  <2>5. QED
    BY <2>1, <2>2, <2>3, <2>4 DEF HostThreads
<1>4. ASSUME Sim!Start, UNCHANGED rest  PROVE HostThreads'
  <2>1. work = Sim!Idle
    BY <1>4 DEF Sim!Start, HostThreads
  <2>2. QED
    BY <1>4, <2>1 DEF Sim!Start, HostThreads
<1>5. ASSUME Sim!Stop, UNCHANGED rest  PROVE HostThreads'
  BY <1>5 DEF Sim!Stop, HostThreads
<1>6. ASSUME Sim!Joined, UNCHANGED rest  PROVE HostThreads'
  BY <1>6 DEF Sim!Joined, HostThreads
<1>7. ASSUME Sim!CountBlock, UNCHANGED rest  PROVE HostThreads'
  <2> DEFINE i == work.chain
             b == chains[i].blockNumber + 1
  <2>1. work # Sim!Idle /\ thread = "live" /\ i \in DOMAIN chains /\ work.at = "block"
    BY <1>7 DEF Sim!CountBlock, Sim!Idle, HostThreads
  <2>2. chains[i] \in Chain
    BY <1>1, <2>1
  <2>3. b \in Nat
    BY <2>2 DEF Chain
  <2>4. chains' = [chains EXCEPT ![i].blockNumber = b] /\ work' = Sim!Idle
    BY <1>7 DEF Sim!CountBlock
  <2>5. /\ chains[i].txCounter = b
        /\ \A k \in DOMAIN chains : k # i => chains[k].txCounter = chains[k].blockNumber
    <3>1. ASSUME NEW k \in DOMAIN chains, k # i  PROVE chains[k].txCounter = chains[k].blockNumber
      <4>1. chains[k] \in Chain
        BY <1>1
      <4>2. chains[k].blockNumber \in Nat /\ chains[k].txCounter = chains[k].blockNumber + 0
        BY <3>1, <4>1 DEF HostThreads, Chain
      <4>3. QED
        BY <4>2
    <3>2. QED
      BY <2>1, <3>1 DEF HostThreads
  <2> HIDE DEF i, b
  <2>6. /\ chains' \in Seq(Chain) /\ DOMAIN chains' = DOMAIN chains
        /\ \A k \in DOMAIN chains' : chains'[k].txCounter = chains'[k].blockNumber
    <3>1. BlockCounted(chains, i, b, chains')
      BY <1>1, <2>1, <2>3, <2>4, CountedBlock
    <3>2. QED
      BY <2>5, <3>1 DEF BlockCounted
  <2>7. \A k \in DOMAIN chains' : chains'[k].blockNumber \in Nat
    <3>1. \A k \in DOMAIN chains' : chains'[k] \in Chain
      BY <2>6
    <3>2. QED
      BY <3>1 DEF Chain
  <2>8. \A k \in DOMAIN chains' : chains'[k].txCounter
                 = chains'[k].blockNumber + (IF work' # Sim!Idle /\ work'.chain = k THEN 1 ELSE 0)
    BY <2>4, <2>6, <2>7
  <2>9. UNCHANGED <<running, thread, caller, rest>>
    BY <1>7 DEF Sim!CountBlock
  <2>10. work'.at # "second" /\ rest = Nothing
    BY <2>1, <2>4 DEF HostThreads, Sim!Idle
  <2>11. QED
    BY <2>4, <2>6, <2>8, <2>9, <2>10 DEF HostThreads
<1>8. ASSUME Sim!Exit, UNCHANGED rest  PROVE HostThreads'
  BY <1>8 DEF Sim!Exit, HostThreads
<1>9. ASSUME NEW alloc \in Mallocs, TransferSecond(alloc)  PROVE HostThreads'
  <2>1. /\ work.at = "second" /\ work' = [work EXCEPT !.at = "block"]
        /\ UNCHANGED <<chains, running, thread, caller>> /\ rest' = Nothing
    BY <1>9 DEF TransferSecond, Sim!GenerateSecond
  <2>2. work \in [at : {"second", "block"}, chain : DOMAIN chains] /\ thread = "live" /\ work # Sim!Idle
    BY <2>1 DEF HostThreads, Sim!Idle
  <2>3. /\ work' \in [at : {"second", "block"}, chain : DOMAIN chains]
        /\ work'.at = "block" /\ work'.chain = work.chain /\ work' # Sim!Idle
    BY <2>1, <2>2 DEF Sim!Idle
  <2>4. QED
    BY <2>1, <2>2, <2>3 DEF HostThreads
<1>10. ASSUME NEW j \in DOMAIN chains, NEW kind \in {"transfer", "mint", "burn"}, NEW o,
              NEW alloc, Begins(Sim!Picked(j), kind, o, alloc)
       PROVE  HostThreads'
  <2> DEFINE i == Sim!Picked(j)
             v == LastOf(i) + 1
  <2>1. i \in DOMAIN chains
    BY <1>1, PickedFacts
  <2> HIDE DEF i
  <2>2. /\ thread = "live" /\ work = Sim!Idle /\ running
        /\ chains' = [chains EXCEPT ![i].txCounter = v]
        /\ work' = [at |-> IF kind = "transfer" THEN "second" ELSE "block", chain |-> i]
        /\ UNCHANGED <<running, thread, caller>>
        /\ IF kind = "transfer" THEN \E q \in Submitted : q.tx \in Nat /\ rest' = <<q>>
           ELSE rest' = rest
    BY <1>10 DEF Begins, Sim!Generate, Sim!NextTx, LastOf, i
  <2>3. \A k \in DOMAIN chains : /\ chains[k].blockNumber \in Nat
                                 /\ chains[k].txCounter = chains[k].blockNumber
    <3>1. ASSUME NEW k \in DOMAIN chains
          PROVE  chains[k].blockNumber \in Nat /\ chains[k].txCounter = chains[k].blockNumber
      <4>1. chains[k] \in Chain
        BY <1>1
      <4>2. chains[k].blockNumber \in Nat /\ chains[k].txCounter = chains[k].blockNumber + 0
        BY <2>2, <4>1 DEF HostThreads, Chain
      <4>3. QED
        BY <4>2
    <3>2. QED
      BY <3>1
  <2>4. v \in Nat /\ v = chains[i].blockNumber + 1
    BY <2>1, <2>3 DEF LastOf
  <2> HIDE DEF v
  <2>5. /\ chains' \in Seq(Chain) /\ DOMAIN chains' = DOMAIN chains
        /\ \A k \in DOMAIN chains :
              /\ chains'[k].blockNumber = chains[k].blockNumber
              /\ chains'[k].txCounter = IF k = i THEN v ELSE chains[k].txCounter
    <3>1. TxCounted(chains, i, v, chains')
      BY <1>1, <2>1, <2>2, <2>4, CountedTx
    <3>2. QED
      BY <3>1 DEF TxCounted
  <2>6. work' # Sim!Idle /\ work'.chain = i /\ work'.at = (IF kind = "transfer" THEN "second" ELSE "block")
    BY <2>2 DEF Sim!Idle
  <2>7. \A k \in DOMAIN chains' : chains'[k].txCounter
                 = chains'[k].blockNumber + (IF work' # Sim!Idle /\ work'.chain = k THEN 1 ELSE 0)
    BY <2>3, <2>4, <2>5, <2>6
  <2>8. work' \in [at : {"second", "block"}, chain : DOMAIN chains']
    BY <2>1, <2>2, <2>5
  <2>9. /\ work'.at = "second" => \E q \in Submitted : rest' = <<q>>
        /\ work'.at # "second" => rest' = Nothing
    BY <2>2, <2>6 DEF HostThreads, Sim!Idle
  <2>10. QED
    BY <2>2, <2>5, <2>7, <2>8, <2>9 DEF HostThreads
<1>11. QED
  BY <1>1, <1>2, <1>3, <1>4, <1>5, <1>6, <1>7, <1>8, <1>9, <1>10, HostSteps
     DEF hostVars, simulator, ClusterInit, Output, Register

(***************************************************************************)
(* Once stop has returned no transaction is half done: the flag is cleared *)
(* while the thread may be anywhere, but it leaves the loop only at its    *)
(* top, and stop waits for that.                                           *)
(***************************************************************************)
THEOREM HostWholeWhenStopped == HostSpec => []WholeWhenStopped
<1>1. HostThreads => WholeWhenStopped
  <2> SUFFICES ASSUME HostThreads, caller = "free", thread = "joined"  PROVE WholeWhenStopped
    BY DEF WholeWhenStopped
  <2>1. work = Sim!Idle /\ rest = Nothing
    BY DEF HostThreads, Sim!Idle
  <2>2. ASSUME NEW i \in DOMAIN chains  PROVE chains[i].blockNumber = chains[i].txCounter
    <3>1. chains[i] \in Chain
      BY DEF HostThreads
    <3>2. chains[i].blockNumber \in Nat /\ chains[i].txCounter = chains[i].blockNumber + 0
      BY <2>1, <3>1 DEF HostThreads, Chain
    <3>3. QED
      BY <3>2
  <2>3. QED
    BY <2>1, <2>2 DEF WholeWhenStopped
<1>2. QED
  BY <1>1, ThreadsInit, ThreadsStep, PTL DEF HostSpec

-----------------------------------------------------------------------------
\* What a callback does to the DAG of the node behind it.
Fed(i, o, alloc) ==
  /\ dag' = [m \in Tees |-> dag'[m]] /\ tokens' = [m \in Tees |-> tokens'[m]]
  /\ SameGraph(AddOperation(dag[Node], o, o.tx, alloc), dag'[Node]) /\ DagType(dag'[Node])
  /\ Processed(dag[Node]) => Processed(dag'[Node])
  /\ tokens'[Node] = IF Known(tokens[Node], o.token) \/ Refusal(tokens[Node], o)
                       THEN tokens[Node] ELSE Append(tokens[Node], o.token)
  /\ ~ Refusal(tokens[Node], o) /\ Late(dag[Node]) => Late(dag'[Node])
  /\ HasRoom(dag[Node]) /\ settled' = FALSE /\ fed' = Append(fed, i)

\* The callback feeds an operation, or it changes nothing that counts.
LEMMA CallbackEffect ==
  ASSUME HostDag, NEW i, NEW o \in Operations, o.tx \in Nat, NEW alloc, Callback(i, o, alloc)
  PROVE  UNCHANGED <<dag, tokens, settled, fed>> \/ Fed(i, o, alloc)
<1>1. CASE ~ Accepts(alloc)
  BY <1>1 DEF Callback, cluster, HostDag
<1>2. CASE Accepts(alloc)
  <2>1. /\ Insert(Node, o, o.tx, alloc) /\ settled' = FALSE /\ Node \in Tees
        /\ fed' = Append(fed, i)
    BY <1>2, HostDemoAssumption DEF Callback, ProcessOperation
  <2>2. /\ dag = [m \in Tees |-> dag[m]] /\ tokens = [m \in Tees |-> tokens[m]]
        /\ DagType(dag[Node]) /\ tokens[Node] \in Seq(TokenSet) /\ Len(tokens[Node]) <= MaxTokens
    BY DEF HostDag
  <2>3. o.tx \in Nat
    OBVIOUS
  <2>4. QED
    BY <2>1, <2>2, <2>3, InsertEffect DEF Fed
<1>3. QED
  BY <1>1, <1>2

\* The graph alone says who fed what in which order.
LEMMA SameGraphKeepsFed ==
  ASSUME NEW d, NEW d2, SameGraph(d, d2), NEW by, NEW c, FedSorted(d, by, c)
  PROVE  /\ FedSorted(d2, by, c) /\ (OnlyFirst(d, by) => OnlyFirst(d2, by))
         /\ \A i, x : Below(d, by, i, x) => Below(d2, by, i, x)
<1>1. /\ d2.count = d.count
      /\ \A e \in 1..d.count : /\ d2.nodes[e].op.id = d.nodes[e].op.id
                               /\ d2.nodes[e].op.tx = d.nodes[e].op.tx
                               /\ d2.nodes[e].order = d.nodes[e].order
  BY DEF SameGraph, SameOp
<1>2. FedSorted(d2, by, c)
  BY <1>1 DEF FedSorted, OfTx
<1>3. OnlyFirst(d, by) => OnlyFirst(d2, by)
  BY <1>1 DEF OnlyFirst
<1>4. \A i, x : Below(d, by, i, x) => Below(d2, by, i, x)
  BY <1>1 DEF Below
<1>5. QED
  BY <1>2, <1>3, <1>4

\* No chain counts down or is dropped.
Grown(c, c2) ==
  DOMAIN c \subseteq DOMAIN c2 /\ \A k \in DOMAIN c : c[k].txCounter <= c2[k].txCounter

\* What was fed stays in order when chains are added and count on.
LEMMA GrownKeepsFed ==
  ASSUME NEW c \in Seq(Chain), NEW c2 \in Seq(Chain), Grown(c, c2),
         NEW d, NEW by, FedSorted(d, by, c)
  PROVE  FedSorted(d, by, c2)
<1>1. ASSUME NEW e \in 1..d.count
      PROVE  /\ by[e] \in DOMAIN c2 /\ d.nodes[e].order = d.nodes[e].op.tx
             /\ \E tx \in 1..c2[by[e]].txCounter : OfTx(d.nodes[e].op, tx)
  <2> DEFINE k == by[e]
             m == c[k].txCounter
             n == c2[k].txCounter
  <2>1. k \in DOMAIN c /\ k \in DOMAIN c2 /\ m <= n /\ d.nodes[e].order = d.nodes[e].op.tx
    BY DEF FedSorted, Grown
  <2>2. c[k] \in Chain /\ c2[k] \in Chain
    BY <2>1
  <2>3. m \in Nat /\ n \in Nat
    BY <2>2 DEF Chain
  <2>4. PICK tx \in 1..m : OfTx(d.nodes[e].op, tx)
    BY DEF FedSorted
  <2> HIDE DEF m, n
  <2>5. tx \in 1..n
    BY <2>1, <2>3, <2>4
  <2>6. QED
    BY <2>1, <2>4, <2>5 DEF n
<1>2. QED
  BY <1>1 DEF FedSorted

\* One more operation of a chain, above all that this chain has fed.
LEMMA FedKeepsSorted ==
  ASSUME NEW d, DagType(d), NEW c \in Seq(Chain), NEW by, FedSorted(d, by, c),
         NEW i \in DOMAIN c, NEW v \in 1..c[i].txCounter, NEW o, OfTx(o, v),
         Below(d, by, i, o.id), NEW alloc,
         NEW d2, SameGraph(AddOperation(d, o, o.tx, alloc), d2)
  PROVE  /\ FedSorted(d2, Append(by, i), c)
         /\ OnlyFirst(d, by) /\ i = 1 => OnlyFirst(d2, Append(by, i))
         /\ \A x : Below(d, by, i, x) /\ o.id < x => Below(d2, Append(by, i), i, x)
<1> DEFINE a  == AddOperation(d, o, o.tx, alloc)
           n  == d.count + 1
           b2 == Append(by, i)
<1>0. d.count \in Nat /\ a.count = n
  <2>1. d.count \in Nat
    BY DEF DagType
  <2>2. a.count = n
    BY AddFields
  <2>3. QED
    BY <2>1, <2>2
<1>1. /\ a.count = n /\ d.count \in Nat
      /\ \A e \in 1..n : e \in 1..d.count \/ e = n
      /\ n \in 1..n /\ 1..d.count \subseteq 1..n
  <2> HIDE DEF a
  <2>1. QED
    BY <1>0
<1>2. /\ a.nodes[n].op = o /\ a.nodes[n].order = o.tx
      /\ \A e \in 1..d.count : a.nodes[e].op = d.nodes[e].op /\ a.nodes[e].order = d.nodes[e].order
  BY AddKeepsOps
<1>3. by \in Seq(Nat) /\ Len(by) = d.count /\ i \in Nat
  BY DEF FedSorted
<1>4. b2 \in Seq(Nat) /\ Len(b2) = n /\ b2[n] = i /\ \A e \in 1..d.count : b2[e] = by[e]
  BY <1>1, <1>3
<1>20. SameGraph(a, d2)
  OBVIOUS
<1> HIDE DEF a, b2
<1>5. /\ d2.count = n
      /\ d2.nodes[n].op.id = o.id /\ d2.nodes[n].op.tx = o.tx /\ d2.nodes[n].order = o.tx
      /\ \A e \in 1..d.count : /\ d2.nodes[e].op.id = d.nodes[e].op.id
                               /\ d2.nodes[e].op.tx = d.nodes[e].op.tx
                               /\ d2.nodes[e].order = d.nodes[e].order
  <2> HIDE DEF n
  <2>1. /\ d2.count = n
        /\ \A e \in 1..n : /\ d2.nodes[e].op.id = a.nodes[e].op.id
                           /\ d2.nodes[e].op.tx = a.nodes[e].op.tx
                           /\ d2.nodes[e].order = a.nodes[e].order
    BY <1>1, <1>20 DEF SameGraph, SameOp
  <2>2. QED
    BY <1>1, <1>2, <2>1
<1>6. ASSUME NEW e \in 1..n
      PROVE  /\ b2[e] \in DOMAIN c /\ d2.nodes[e].order = d2.nodes[e].op.tx
             /\ \E tx \in 1..c[b2[e]].txCounter : OfTx(d2.nodes[e].op, tx)
  <2>1. CASE e = n
    BY <1>4, <1>5, <2>1 DEF OfTx
  <2>2. CASE e \in 1..d.count
    <3>1. /\ by[e] \in DOMAIN c /\ d.nodes[e].order = d.nodes[e].op.tx
          /\ \E tx \in 1..c[by[e]].txCounter : OfTx(d.nodes[e].op, tx)
      BY <2>2 DEF FedSorted
    <3>2. QED
      BY <1>4, <1>5, <2>2, <3>1 DEF OfTx
  <2>3. QED
    BY <1>1, <2>1, <2>2
<1>7. ASSUME NEW e \in 1..n, NEW f \in 1..n, e < f, b2[e] = b2[f]
      PROVE  d2.nodes[e].op.id < d2.nodes[f].op.id
  <2>1. e \in 1..d.count
    BY <1>1, <1>7
  <2>2. CASE f = n
    <3>1. by[e] = i
      BY <1>4, <1>7, <2>1, <2>2
    <3>2. d.nodes[e].op.id < o.id
      BY <2>1, <3>1 DEF Below
    <3>3. QED
      BY <1>5, <2>1, <2>2, <3>2
  <2>3. CASE f \in 1..d.count
    <3>1. by[e] = by[f]
      BY <1>4, <1>7, <2>1, <2>3
    <3>2. d.nodes[e].op.id < d.nodes[f].op.id
      BY <1>7, <2>1, <2>3, <3>1 DEF FedSorted
    <3>3. QED
      BY <1>5, <2>1, <2>3, <3>2
  <2>4. QED
    BY <1>1, <2>2, <2>3
<1>8. FedSorted(d2, b2, c)
  BY <1>4, <1>5, <1>6, <1>7 DEF FedSorted
<1>9. OnlyFirst(d, by) /\ i = 1 => OnlyFirst(d2, b2)
  BY <1>1, <1>4, <1>5 DEF OnlyFirst
<1>10. ASSUME NEW x, Below(d, by, i, x), o.id < x  PROVE Below(d2, b2, i, x)
  BY <1>1, <1>4, <1>5, <1>10 DEF Below
<1>11. QED
  BY <1>8, <1>9, <1>10 DEF b2

\* A chain alone feeds in the order of the transactions.
LEMMA OneChainInOrder ==
  ASSUME HostThreads, HostOrder, OneChain, DagType(dag[Node])
  PROVE  InOrder(dag[Node], LastTx)
<1> DEFINE d == dag[Node]
<1>1. /\ FedSorted(d, fed, chains) /\ OnlyFirst(d, fed) /\ chains \in Seq(Chain)
      /\ d.count \in Nat
  BY DEF HostOrder, HostThreads, DagType
<1> HIDE DEF d
<1>2. ASSUME NEW e \in 1..d.count
      PROVE  /\ d.nodes[e].order = d.nodes[e].op.tx
             /\ LastTx \in Nat /\ \E tx \in 1..LastTx : OfTx(d.nodes[e].op, tx)
  <2>1. /\ fed[e] = 1 /\ 1 \in DOMAIN chains /\ d.nodes[e].order = d.nodes[e].op.tx
        /\ \E tx \in 1..chains[1].txCounter : OfTx(d.nodes[e].op, tx)
    BY <1>1 DEF FedSorted, OnlyFirst
  <2>2. chains # << >> /\ chains[1] \in Chain
    BY <1>1, <2>1
  <2>3. LastTx = chains[1].txCounter /\ chains[1].txCounter \in Nat
    BY <2>2 DEF LastTx, Chain
  <2>4. QED
    BY <2>1, <2>3
<1>3. ASSUME NEW e \in 1..d.count, NEW f \in 1..d.count, e < f
      PROVE  d.nodes[e].op.id < d.nodes[f].op.id /\ d.nodes[e].order <= d.nodes[f].order
  <2>1. d.nodes[e].op.id < d.nodes[f].op.id
    BY <1>1, <1>3 DEF FedSorted, OnlyFirst
  <2>2. PICK x \in 1..LastTx : OfTx(d.nodes[e].op, x)
    BY <1>2
  <2>3. PICK y \in 1..LastTx : OfTx(d.nodes[f].op, y)
    BY <1>2
  <2>4. /\ d.nodes[e].order = x /\ d.nodes[f].order = y /\ x \in Nat /\ y \in Nat
        /\ d.nodes[e].op.id \in {2 * x, 2 * x + 1} /\ d.nodes[f].op.id \in {2 * y, 2 * y + 1}
    BY <1>2, <2>2, <2>3 DEF OfTx
  <2>5. x <= y
    BY <2>1, <2>4
  <2>6. QED
    BY <2>1, <2>4, <2>5
<1>4. ASSUME NEW e \in 1..d.count  PROVE d.nodes[e].op.id \in Nat /\ d.nodes[e].order \in Nat
  <2>1. PICK x \in 1..LastTx : OfTx(d.nodes[e].op, x)
    BY <1>2
  <2>2. QED
    BY <1>2, <2>1 DEF OfTx
<1>5. UniqueIds(d)
  <2> SUFFICES ASSUME NEW e \in 1..d.count, NEW f \in 1..d.count, e # f
               PROVE  d.nodes[e].op.id # d.nodes[f].op.id
    BY DEF UniqueIds
  <2>1. e < f \/ f < e
    BY <1>1
  <2>2. QED
    BY <1>3, <1>4, <2>1
<1>6. QED
  BY <1>2, <1>3, <1>5 DEF InOrder, Numbered, d

\* Steps that feed nothing, and leave the counters alone.
LEMMA OrderKept ==
  ASSUME HostThreads, HostThreads', HostOrder, SameGraph(dag[Node], dag'[Node]), fed' = fed,
         OneChain' => OneChain, DOMAIN chains \subseteq DOMAIN chains',
         \A k \in DOMAIN chains : chains'[k].txCounter = chains[k].txCounter,
         work'.at = "second" => work' = work /\ rest' = rest
  PROVE  HostOrder'
<1>1. chains \in Seq(Chain) /\ chains' \in Seq(Chain) /\ FedSorted(dag[Node], fed, chains)
  BY DEF HostThreads, HostOrder
<1>2. Grown(chains, chains')
  <2>1. ASSUME NEW k \in DOMAIN chains  PROVE chains[k].txCounter <= chains'[k].txCounter
    <3>1. chains[k] \in Chain
      BY <1>1
    <3>2. chains[k].txCounter \in Nat
      BY <3>1 DEF Chain
    <3>3. QED
      BY <3>2
  <2>2. QED
    BY <2>1 DEF Grown
<1>3. FedSorted(dag[Node], fed, chains')
  BY <1>1, <1>2, GrownKeepsFed
<1>4. FedSorted(dag'[Node], fed, chains')
  BY <1>3, SameGraphKeepsFed
<1>5. OnlyFirst(dag[Node], fed) => OnlyFirst(dag'[Node], fed)
  BY <1>1, SameGraphKeepsFed
<1>6. \A i, x : Below(dag[Node], fed, i, x) => Below(dag'[Node], fed, i, x)
  BY <1>1, SameGraphKeepsFed
<1>7. ASSUME work'.at = "second"
      PROVE  /\ OneChain' => work'.chain = 1
             /\ rest'[1].tx = LastOf(work.chain)' /\ rest'[1].id = 2 * LastOf(work.chain)' + 1
             /\ Below(dag'[Node], fed, work'.chain, rest'[1].id)
  <2>1. work' = work /\ rest' = rest /\ work.at = "second"
    BY <1>7
  <2>2. work.chain \in DOMAIN chains
    BY <2>1 DEF HostThreads, Sim!Idle
  <2>3. LastOf(work.chain)' = LastOf(work.chain)
    BY <2>1, <2>2 DEF LastOf
  <2>4. QED
    BY <1>6, <2>1, <2>3 DEF HostOrder
<1>8. QED
  BY <1>4, <1>5, <1>7 DEF HostOrder

\* The second operation of a transfer.
LEMMA OrderSecond ==
  ASSUME HostThreads, HostOrder, HostDag, NEW alloc, TransferSecond(alloc)
  PROVE  HostOrder'
<1> DEFINE o == rest[1]
           i == work.chain
<1>1. /\ work.at = "second" /\ work' = [work EXCEPT !.at = "block"] /\ chains' = chains
      /\ Callback(i, o, alloc)
  BY DEF TransferSecond, Sim!GenerateSecond
<1>2. /\ o \in Operations /\ o.tx \in Nat /\ work'.at # "second" /\ DagType(dag[Node])
      /\ chains \in Seq(Chain) /\ i \in DOMAIN chains
  BY <1>1, TeeClusterAssumption DEF HostThreads, Sim!Idle, HostDag
<1>3. OneChain' <=> OneChain
  BY <1>1 DEF OneChain
<1>4. /\ FedSorted(dag[Node], fed, chains) /\ (OneChain => OnlyFirst(dag[Node], fed) /\ i = 1)
      /\ o.tx = LastOf(i) /\ o.id = 2 * LastOf(i) + 1 /\ Below(dag[Node], fed, i, o.id)
  BY <1>1 DEF HostOrder
<1>5. LastOf(i) \in Nat /\ LastOf(i) > 0
  <2>1. chains[i] \in Chain /\ work # Sim!Idle
    BY <1>1, <1>2 DEF Sim!Idle
  <2>2. chains[i].txCounter = chains[i].blockNumber + 1
    BY <1>2, <2>1 DEF HostThreads
  <2>3. QED
    BY <2>1, <2>2 DEF LastOf, Chain
<1> DEFINE v == LastOf(i)
<1>6. v \in 1..chains[i].txCounter /\ OfTx(o, v)
  BY <1>4, <1>5 DEF LastOf, OfTx
<1> HIDE DEF o, i, v
<1>7. CASE UNCHANGED <<dag, tokens, settled, fed>>
  BY <1>1, <1>2, <1>3, <1>4, <1>7 DEF HostOrder
<1>8. CASE Fed(i, o, alloc)
  <2>1. SameGraph(AddOperation(dag[Node], o, o.tx, alloc), dag'[Node]) /\ fed' = Append(fed, i)
    BY <1>8 DEF Fed
  <2>2. /\ FedSorted(dag'[Node], Append(fed, i), chains)
        /\ OnlyFirst(dag[Node], fed) /\ i = 1 => OnlyFirst(dag'[Node], Append(fed, i))
        /\ \A x : Below(dag[Node], fed, i, x) /\ o.id < x
                    => Below(dag'[Node], Append(fed, i), i, x)
    BY <1>2, <1>4, <1>6, <2>1, FedKeepsSorted
  <2>3. QED
    BY <1>1, <1>2, <1>3, <1>4, <2>1, <2>2 DEF HostOrder
<1>9. QED
  BY <1>1, <1>2, <1>7, <1>8, CallbackEffect

\* The first operation of the next transaction.
LEMMA OrderBegins ==
  ASSUME HostThreads, HostThreads', HostOrder, HostDag, NEW j \in DOMAIN chains,
         NEW kind \in {"transfer", "mint", "burn"}, NEW o \in Operations, NEW alloc,
         Begins(Sim!Picked(j), kind, o, alloc)
  PROVE  HostOrder'
<1> DEFINE i == Sim!Picked(j)
           v == LastOf(i) + 1
           d == dag[Node]
<1>1. chains \in Seq(Chain) /\ chains' \in Seq(Chain) /\ DagType(d)
  BY DEF HostThreads, HostDag
<1>2. i \in DOMAIN chains /\ (OneChain => i = 1)
  BY <1>1, PickedFacts
<1> HIDE DEF i
<1>3. /\ chains' = [chains EXCEPT ![i].txCounter = v]
      /\ work' = [at |-> IF kind = "transfer" THEN "second" ELSE "block", chain |-> i]
      /\ Callback(i, o, alloc) /\ o.tx = v /\ o.tx \in Nat /\ o.id = 2 * v
      /\ kind = "transfer" => \E q \in Submitted : rest' = <<q>> /\ q.tx = v /\ q.id = 2 * v + 1
  BY DEF Begins, Sim!Generate, Sim!NextTx, LastOf, i
<1>4. LastOf(i) \in Nat /\ v \in Nat /\ v > 0 /\ LastOf(i) < v
  <2>1. chains[i] \in Chain
    BY <1>1, <1>2
  <2>2. QED
    BY <2>1 DEF LastOf, Chain
<1> HIDE DEF v
<1>5. TxCounted(chains, i, v, chains')
  BY <1>1, <1>2, <1>3, <1>4, CountedTx
<1>6. /\ OneChain' => OneChain
      /\ i \in DOMAIN chains' /\ chains'[i].txCounter = v /\ v \in 1..v
  BY <1>2, <1>4, <1>5 DEF OneChain, TxCounted
<1>7. Grown(chains, chains')
  <2>1. ASSUME NEW k \in DOMAIN chains  PROVE chains[k].txCounter <= chains'[k].txCounter
    <3>1. chains[k] \in Chain
      BY <1>1
    <3>2. chains[k].txCounter \in Nat
      BY <3>1 DEF Chain
    <3>3. chains'[k].txCounter = IF k = i THEN v ELSE chains[k].txCounter
      BY <1>5 DEF TxCounted
    <3>4. QED
      BY <1>4, <3>2, <3>3 DEF LastOf
  <2>2. QED
    BY <1>5, <2>1 DEF Grown, TxCounted
<1>8. FedSorted(d, fed, chains) /\ (OneChain => OnlyFirst(d, fed))
  BY DEF HostOrder
<1>9. Below(d, fed, i, 2 * v) /\ Below(d, fed, i, 2 * v + 1)
  <2>1. ASSUME NEW e \in 1..d.count, fed[e] = i
        PROVE  d.nodes[e].op.id < 2 * v /\ d.nodes[e].op.id < 2 * v + 1
    <3>1. PICK tx \in 1..LastOf(i) : OfTx(d.nodes[e].op, tx)
      BY <1>8, <2>1 DEF FedSorted, LastOf
    <3>2. tx \in Nat /\ tx < v /\ d.nodes[e].op.id \in {2 * tx, 2 * tx + 1}
      BY <1>4, <3>1 DEF OfTx
    <3>3. QED
      BY <1>4, <3>2
  <2>2. QED
    BY <2>1 DEF Below
<1>10. FedSorted(d, fed, chains')
  BY <1>1, <1>7, <1>8, GrownKeepsFed
<1>11. /\ FedSorted(dag'[Node], fed', chains') /\ (OneChain => OnlyFirst(dag'[Node], fed'))
       /\ Below(dag'[Node], fed', i, 2 * v + 1)
  <2>1. CASE UNCHANGED <<dag, tokens, settled, fed>>
    BY <1>8, <1>9, <1>10, <2>1
  <2>2. CASE Fed(i, o, alloc)
    <3>1. SameGraph(AddOperation(d, o, o.tx, alloc), dag'[Node]) /\ fed' = Append(fed, i)
      BY <2>2 DEF Fed
    <3>2. Below(d, fed, i, o.id) /\ OfTx(o, v) /\ v \in 1..chains'[i].txCounter /\ i \in DOMAIN chains'
      BY <1>3, <1>6, <1>9 DEF OfTx
    <3>3. o.id < 2 * v + 1
      BY <1>3, <1>4
    <3> HIDE DEF d
    <3>4. /\ FedSorted(dag'[Node], Append(fed, i), chains')
          /\ OnlyFirst(d, fed) /\ i = 1 => OnlyFirst(dag'[Node], Append(fed, i))
          /\ \A x : Below(d, fed, i, x) /\ o.id < x => Below(dag'[Node], Append(fed, i), i, x)
      BY <1>1, <1>10, <3>1, <3>2, FedKeepsSorted
    <3>5. QED
      BY <1>2, <1>8, <1>9, <3>1, <3>3, <3>4
  <2>3. QED
    BY <1>3, <2>1, <2>2, CallbackEffect
<1>12. ASSUME work'.at = "second"
       PROVE  /\ work'.chain = i /\ (OneChain' => work'.chain = 1)
              /\ rest'[1].tx = chains'[i].txCounter
              /\ rest'[1].id = 2 * chains'[i].txCounter + 1
              /\ rest'[1].id = 2 * v + 1
  <2>1. kind = "transfer"
    BY <1>3, <1>12
  <2>2. chains'[i].txCounter = v /\ work'.chain = i
    BY <1>3, <1>6
  <2>3. rest'[1].tx = v /\ rest'[1].id = 2 * v + 1
    BY <1>3, <2>1
  <2>4. QED
    BY <1>2, <1>6, <2>2, <2>3
<1>13. QED
  BY <1>6, <1>11, <1>12 DEF HostOrder, LastOf

\* Every step keeps the order in which the chains feed the DAG.
LEMMA HostOrderStep ==
  ASSUME HostThreads, HostOrder, HostDag, [HostNext]_hostVars
  PROVE  HostOrder'
<1>0. HostThreads'
  BY ThreadsStep
<1>1. /\ chains \in Seq(Chain) /\ DagType(dag[Node]) /\ dag = [m \in Tees |-> dag[m]]
      /\ Node \in Tees
  BY HostDemoAssumption DEF HostThreads, HostDag
<1>2. SameGraph(dag[Node], dag[Node])
  BY DEF SameGraph, SameOp
<1>3. ASSUME UNCHANGED <<dag, fed>>, OneChain' => OneChain, DOMAIN chains \subseteq DOMAIN chains',
             \A k \in DOMAIN chains : chains'[k].txCounter = chains[k].txCounter,
             work'.at = "second" => work' = work /\ rest' = rest
      PROVE  HostOrder'
  BY <1>0, <1>2, <1>3, OrderKept
<1>4. ASSUME UNCHANGED chains
      PROVE  /\ (OneChain' => OneChain) /\ DOMAIN chains \subseteq DOMAIN chains'
             /\ \A k \in DOMAIN chains : chains'[k].txCounter = chains[k].txCounter
  BY <1>4 DEF OneChain
<1>5. CASE UNCHANGED hostVars
  BY <1>3, <1>4, <1>5 DEF hostVars, cluster, simulator
<1>6. CASE ClusterInit
  BY <1>3, <1>4, <1>6 DEF ClusterInit, cluster, simulator
<1>7. ASSUME NEW id \in ChainIds, Sim!AddChain(id), UNCHANGED <<cluster, rest, fed>>
      PROVE  HostOrder'
  <2> DEFINE new == [chainId |-> id, txCounter |-> 0, blockNumber |-> 0]
  <2>1. chains' = Append(chains, new) /\ UNCHANGED work
    BY <1>7 DEF Sim!AddChain
  <2>2. /\ DOMAIN chains' = 1..Len(chains) + 1 /\ DOMAIN chains = 1..Len(chains)
        /\ Len(chains) \in Nat /\ \A i \in DOMAIN chains : chains'[i] = chains[i]
    BY <1>1, <2>1
  <2>3. OneChain' => OneChain
    BY <2>2 DEF OneChain
  <2>4. DOMAIN chains \subseteq DOMAIN chains'
    BY <2>2
  <2>5. QED
    BY <1>3, <1>7, <2>1, <2>2, <2>3, <2>4 DEF cluster
<1>8. ASSUME Sim!Start \/ Sim!Stop \/ Sim!Joined, UNCHANGED <<cluster, rest, fed>>
      PROVE  HostOrder'
  <2>1. UNCHANGED chains /\ (work' = work \/ work' = Sim!Idle)
    BY <1>8 DEF Sim!Start, Sim!Stop, Sim!Joined
  <2>2. work'.at = "second" => work' = work
    BY <2>1 DEF Sim!Idle
  <2>3. QED
    BY <1>3, <1>4, <1>8, <2>1, <2>2 DEF cluster
<1>9. ASSUME Sim!CountBlock, UNCHANGED <<cluster, rest, fed>>  PROVE HostOrder'
  <2> DEFINE i == work.chain
             b == chains[i].blockNumber + 1
  <2>1. chains' = [chains EXCEPT ![i].blockNumber = b] /\ work' = Sim!Idle /\ work.at = "block"
    BY <1>9 DEF Sim!CountBlock
  <2>2. i \in DOMAIN chains
    BY <2>1 DEF HostThreads, Sim!Idle
  <2>3. chains[i] \in Chain
    BY <1>1, <2>2
  <2>4. b \in Nat
    BY <2>3 DEF Chain
  <2> HIDE DEF i, b
  <2>5. BlockCounted(chains, i, b, chains')
    BY <1>1, <2>1, <2>2, <2>4, CountedBlock
  <2>6. /\ (OneChain' => OneChain) /\ DOMAIN chains \subseteq DOMAIN chains'
        /\ \A k \in DOMAIN chains : chains'[k].txCounter = chains[k].txCounter
    BY <2>5 DEF OneChain, BlockCounted
  <2>7. work'.at = "second" => work' = work /\ rest' = rest
    BY <2>1 DEF Sim!Idle
  <2>8. UNCHANGED <<dag, fed>>
    BY <1>9 DEF cluster
  <2>9. QED
    BY <1>3, <2>6, <2>7, <2>8
<1>10. ASSUME Sim!Exit, UNCHANGED <<cluster, rest, fed>>  PROVE HostOrder'
  BY <1>3, <1>4, <1>10 DEF Sim!Exit, cluster
<1>11. ASSUME NEW tail \in Tails, Output(tail)  PROVE HostOrder'
  <2>1. GenerateEpochOutput(Node, tail) /\ UNCHANGED <<chains, work, rest, fed>>
    BY <1>11 DEF Output, simulator
  <2>2. SameGraph(dag[Node], dag'[Node])
    BY <1>1, <2>1, OutputEffect
  <2>3. /\ (OneChain' => OneChain) /\ DOMAIN chains \subseteq DOMAIN chains'
        /\ \A k \in DOMAIN chains : chains'[k].txCounter = chains[k].txCounter
    BY <2>1, <1>4
  <2>4. QED
    BY <1>0, <2>1, <2>2, <2>3, OrderKept
<1>12. ASSUME NEW token \in TokenCalls, Register(token)  PROVE HostOrder'
  BY <1>3, <1>4, <1>12 DEF Register, RegisterToken, simulator
<1>13. QED
  <2>1. Submitted \subseteq Operations
    BY TeeClusterAssumption
  <2>2. QED
    BY <1>0, <1>1, <1>5, <1>6, <1>7, <1>8, <1>9, <1>10, <1>11, <1>12, <2>1, OrderSecond,
       OrderBegins, HostSteps

-----------------------------------------------------------------------------
\* Chains are only added, and the thread of the first start is never forgotten.
LEMMA ChainsGrow ==
  ASSUME HostThreads, [HostNext]_hostVars
  PROVE  (OneChain' => OneChain) /\ (thread' = "none" => thread = "none")
<1>1. chains \in Seq(Chain)
  BY DEF HostThreads
<1>2. ASSUME UNCHANGED chains  PROVE OneChain' => OneChain
  BY <1>2 DEF OneChain
<1>3. ASSUME NEW id \in ChainIds, Sim!AddChain(id)
      PROVE  (OneChain' => OneChain) /\ thread' = thread
  <2> DEFINE new == [chainId |-> id, txCounter |-> 0, blockNumber |-> 0]
  <2>1. chains' = Append(chains, new) /\ UNCHANGED thread
    BY <1>3 DEF Sim!AddChain
  <2>2. /\ DOMAIN chains' = 1..Len(chains) + 1 /\ DOMAIN chains = 1..Len(chains)
        /\ Len(chains) \in Nat /\ \A i \in DOMAIN chains : chains'[i] = chains[i]
    BY <1>1, <2>1
  <2>3. QED
    BY <2>1, <2>2 DEF OneChain
<1>4. ASSUME Sim!CountBlock  PROVE (OneChain' => OneChain) /\ thread' = thread
  <2> DEFINE i == work.chain
             b == chains[i].blockNumber + 1
  <2>1. chains' = [chains EXCEPT ![i].blockNumber = b] /\ work.at = "block" /\ UNCHANGED thread
    BY <1>4 DEF Sim!CountBlock
  <2>2. i \in DOMAIN chains
    BY <2>1 DEF HostThreads, Sim!Idle
  <2>3. chains[i] \in Chain
    BY <1>1, <2>2
  <2>4. b \in Nat
    BY <2>3 DEF Chain
  <2> HIDE DEF i, b
  <2>5. BlockCounted(chains, i, b, chains')
    BY <1>1, <2>1, <2>2, <2>4, CountedBlock
  <2>6. QED
    BY <2>1, <2>5 DEF OneChain, BlockCounted
<1>5. ASSUME NEW j \in DOMAIN chains, NEW kind, NEW o, NEW alloc,
             Begins(Sim!Picked(j), kind, o, alloc)
      PROVE  (OneChain' => OneChain) /\ thread' = thread
  <2> DEFINE i == Sim!Picked(j)
             v == LastOf(i) + 1
  <2>1. i \in DOMAIN chains
    BY <1>1, PickedFacts
  <2> HIDE DEF i
  <2>2. chains' = [chains EXCEPT ![i].txCounter = v] /\ UNCHANGED thread /\ v \in Nat
    BY <1>5 DEF Begins, Sim!Generate, Sim!NextTx, LastOf, i
  <2> HIDE DEF v
  <2>3. TxCounted(chains, i, v, chains')
    BY <1>1, <2>1, <2>2, CountedTx
  <2>4. QED
    BY <2>2, <2>3 DEF OneChain, TxCounted
<1>6. QED
  BY <1>1, <1>2, <1>3, <1>4, <1>5, HostSteps
     DEF hostVars, simulator, ClusterInit, Output, Register, TransferSecond,
         Sim!Start, Sim!Stop, Sim!Joined, Sim!Exit, Sim!GenerateSecond

\* Steps that leave the cluster alone.
LEMMA DagKept ==
  ASSUME HostDag, UNCHANGED <<dag, tokens, settled>>, OneChain' => OneChain,
         thread' = "none" => thread = "none"
  PROVE  HostDag'
BY DEF HostDag, Complete

\* One more operation.
LEMMA DagFed ==
  ASSUME HostDag, thread' # "none", OneChain' => OneChain,
         NEW i, NEW o \in Operations, o.tx \in Nat, NEW alloc, Fed(i, o, alloc),
         OneChain => InOrder(dag[Node], LastTx) /\ LastTx \in Nat /\ LastTx <= o.tx
  PROVE  HostDag'
<1> DEFINE d  == dag[Node]
           d2 == dag'[Node]
           a  == AddOperation(d, o, o.tx, alloc)
           l  == tokens[Node]
           l2 == tokens'[Node]
<1>1. /\ DagType(d) /\ EdgesMutual(d) /\ Processed(d)
      /\ l \in Seq(TokenSet) /\ Len(l) <= MaxTokens /\ Len(l) \in Nat
      /\ AllKnown(d, l) \/ Len(l) >= MaxTokens
      /\ AllKnown(d, l) => Late(d)
      /\ OneChain /\ OncePerTx(d) => Forward(d)
  BY DEF HostDag
<1>2. /\ HasRoom(d) /\ SameGraph(a, d2) /\ DagType(d2) /\ (Processed(d) => Processed(d2))
      /\ l2 = (IF Known(l, o.token) \/ Refusal(l, o) THEN l ELSE Append(l, o.token))
      /\ ~ Refusal(l, o) /\ Late(d) => Late(d2)
      /\ dag' = [m \in Tees |-> dag'[m]] /\ tokens' = [m \in Tees |-> tokens'[m]]
      /\ settled' = FALSE
  BY DEF Fed
<1>3. DagType(a) /\ EdgesMutual(a)
  BY <1>1, <1>2, AddType, AddKeepsEdgesMutual
<1>4. EdgesMutual(d2)
  BY <1>2, <1>3, SameGraphKeeps
<1>5. /\ d2.count = d.count + 1 /\ d.count + 1 \in 1..d2.count
      /\ \A e \in 1..d2.count : e \in 1..d.count \/ e = d.count + 1
      /\ 1..d.count \subseteq 1..d2.count
      /\ \A e \in 1..d.count : d2.nodes[e].op.token = d.nodes[e].op.token
      /\ d2.nodes[d.count + 1].op.token = o.token
  <2>1. /\ a.count = d.count + 1 /\ d.count + 1 \in 1..d.count + 1
        /\ \A e \in 1..d.count + 1 : e \in 1..d.count \/ e = d.count + 1
        /\ 1..d.count \subseteq 1..d.count + 1
    BY <1>1, AddFields
  <2>2. a.nodes[d.count + 1].op = o /\ \A e \in 1..d.count : a.nodes[e].op = d.nodes[e].op
    BY <1>1, AddKeepsOps
  <2> HIDE DEF a, d, d2
  <2>3. QED
    BY <1>2, <2>1, <2>2 DEF SameGraph, SameOp
<1>6. ASSUME OneChain', OncePerTx(d2)  PROVE Forward(d2)
  <2>1. OncePerTx(a)
    BY <1>2, <1>3, <1>6, SameGraphKeepsOrder
  <2>2. OncePerTx(d) /\ \A e \in 1..d.count : ~ OneBalance(d.nodes[e].op, o)
    BY <1>1, <2>1, AddOnce
  <2>3. Forward(d) /\ InOrder(d, LastTx) /\ LastTx \in Nat /\ LastTx <= o.tx
    BY <1>1, <1>6, <2>2
  <2>4. ASSUME NEW e \in 1..d.count  PROVE d.nodes[e].order <= o.tx
    <3>1. PICK tx \in 1..LastTx : OfTx(d.nodes[e].op, tx)
      BY <2>3 DEF InOrder
    <3>2. d.nodes[e].order = tx
      BY <2>3, <3>1 DEF InOrder, Numbered, OfTx
    <3>3. QED
      BY <2>3, <3>1, <3>2
  <2>5. Numbered(d)
    BY <2>3 DEF InOrder
  <2>6. Forward(a)
    BY <1>1, <2>2, <2>3, <2>4, <2>5, AddKeepsForward
  <2>7. QED
    BY <1>2, <1>3, <2>6, SameGraphKeepsOrder
<1>7. o.token \in TokenSet /\ MaxTokens \in Nat
  BY TeeClusterAssumption DEF TokenSet
<1> HIDE DEF d, d2, a, l, l2
<1>8. /\ l2 \in Seq(TokenSet) /\ Len(l2) <= MaxTokens
      /\ AllKnown(d2, l2) \/ Len(l2) >= MaxTokens
      /\ AllKnown(d2, l2) => Late(d2)
  <2>1. CASE Refusal(l, o)
    <3>1. l2 = l /\ Len(l) >= MaxTokens
      BY <1>2, <2>1 DEF Refusal
    <3>2. ~ AllKnown(d2, l2)
      BY <1>5, <2>1, <3>1 DEF AllKnown, Refusal
    <3>3. QED
      BY <1>1, <3>1, <3>2
  <2>2. CASE ~ Refusal(l, o) /\ Known(l, o.token)
    <3>1. l2 = l
      BY <1>2, <2>2
    <3>2. AllKnown(d2, l2) <=> AllKnown(d, l)
      BY <1>5, <2>2, <3>1 DEF AllKnown
    <3>3. QED
      BY <1>1, <1>2, <2>2, <3>1, <3>2
  <2>3. CASE ~ Refusal(l, o) /\ ~ Known(l, o.token)
    <3>1. l2 = Append(l, o.token) /\ Len(l) < MaxTokens
      BY <1>1, <1>2, <1>7, <2>3 DEF Refusal
    <3>2. AllKnown(d, l)
      BY <1>1, <1>7, <3>1
    <3>3. ToSet(l2) = ToSet(l) \cup {o.token}
      BY <1>1, <1>7, <3>1, ToSetAppend
    <3>4. AllKnown(d2, l2)
      BY <1>5, <3>2, <3>3 DEF AllKnown, Known
    <3>5. Late(d2)
      BY <1>1, <1>2, <2>3, <3>2
    <3>6. l2 \in Seq(TokenSet) /\ Len(l2) = Len(l) + 1
      BY <1>1, <1>7, <3>1
    <3>7. QED
      BY <1>1, <1>7, <3>1, <3>4, <3>5, <3>6
  <2>4. QED
    BY <2>1, <2>2, <2>3
<1>9. QED
  BY <1>1, <1>2, <1>4, <1>6, <1>8 DEF HostDag, d, d2, l, l2

\* An epoch output: whatever is applied may stay, the rest is applied now.
LEMMA DagOutput ==
  ASSUME HostThreads, HostDag, HostOrder, NEW tail, Output(tail)
  PROVE  HostDag'
<1> DEFINE d  == dag[Node]
           d2 == dag'[Node]
           l  == tokens[Node]
<1>1. /\ DagType(d) /\ EdgesMutual(d) /\ Processed(d) /\ dag = [m \in Tees |-> dag[m]]
      /\ l \in Seq(TokenSet) /\ Len(l) <= MaxTokens
      /\ thread = "none" => d.count = 0
      /\ AllKnown(d, l) \/ Len(l) >= MaxTokens
      /\ AllKnown(d, l) => Late(d)
      /\ OneChain /\ OncePerTx(d) => Forward(d)
      /\ tokens = [m \in Tees |-> tokens[m]]
  BY DEF HostDag
<1>2. /\ GenerateEpochOutput(Node, tail) /\ settled' = TRUE /\ UNCHANGED <<thread, chains>>
      /\ Node \in Tees
  BY HostDemoAssumption DEF Output, simulator
<1>3. /\ dag' = [m \in Tees |-> dag'[m]] /\ tokens' = tokens
      /\ SameGraph(d, d2) /\ DagType(d2) /\ (Processed(d) => Processed(d2))
      /\ Late(d) => Late(d2)
      /\ \A e \in 1..d.count : d.nodes[e].applied => d2.nodes[e].applied
      /\ Cardinality(d2.head) < MaxChildren /\ AllKnown(d, l) /\ Processed(d)
         => \A e \in 1..d.count : d2.nodes[e].applied \/ d.nodes[e].children # {}
  BY <1>1, <1>2, OutputEffect
<1>4. OneChain' <=> OneChain
  BY <1>2 DEF OneChain
<1>5. EdgesMutual(d2) /\ (OncePerTx(d) <=> OncePerTx(d2)) /\ (Forward(d) => Forward(d2))
  BY <1>1, <1>3, SameGraphKeeps, SameGraphKeepsOrder
<1>6. d2.count = d.count /\ (AllKnown(d2, l) <=> AllKnown(d, l))
  BY <1>3 DEF SameGraph, SameOp, AllKnown
<1>7. ASSUME Cardinality(d2.head) < MaxChildren, AllKnown(d2, l)
      PROVE  /\ \A e \in 1..d2.count : d2.nodes[e].applied \/ LeftOut(d2, e)
             /\ OneChain /\ OncePerTx(d2) => \A e \in 1..d2.count : d2.nodes[e].applied
  <2>1. Late(d) /\ \A e \in 1..d.count : d2.nodes[e].applied \/ d.nodes[e].children # {}
    BY <1>1, <1>3, <1>6, <1>7
  <2>2. ASSUME NEW e \in 1..d2.count, ~ d2.nodes[e].applied  PROVE LeftOut(d2, e)
    <3>1. e \in 1..d.count /\ ~ d.nodes[e].applied /\ d.nodes[e].children # {}
      BY <1>3, <1>6, <2>1, <2>2
    <3>2. \A c \in d.nodes[e].children : c \in 1..d.count /\ (c < e \/ RepeatsId(d, c))
      BY <1>1, <2>1, <3>1, NodeFields DEF Late
    <3>3. d2.nodes[e].children = d.nodes[e].children
      BY <1>3, <3>1 DEF SameGraph
    <3> HIDE DEF d, d2
    <3>4. \A c \in 1..d.count : RepeatsId(d, c) => RepeatsId(d2, c)
      BY <1>3, <1>6 DEF RepeatsId, SameGraph, SameOp
    <3>5. QED
      BY <3>1, <3>2, <3>3, <3>4 DEF LeftOut
  <2>3. ASSUME OneChain, OncePerTx(d2)  PROVE \A e \in 1..d2.count : d2.nodes[e].applied
    <3>1. UniqueIds(d) /\ Forward(d)
      BY <1>1, <1>5, <2>3, OneChainInOrder DEF InOrder
    <3>2. \A e \in 1..d.count : d.nodes[e].children # {} => d.nodes[e].applied
      BY <1>1, <2>1, <3>1, ForwardApplied
    <3>3. QED
      BY <1>3, <1>6, <2>1, <3>2
  <2>4. QED
    BY <2>2, <2>3
<1> HIDE DEF d, d2, l
<1>8. QED
  BY <1>1, <1>2, <1>3, <1>4, <1>5, <1>6, <1>7 DEF HostDag, Complete, d, d2, l

\* Tokens are registered while the DAG is empty.
LEMMA DagRegister ==
  ASSUME HostDag, NEW token \in TokenCalls, Register(token)
  PROVE  HostDag'
<1> DEFINE l == tokens[Node]
<1>1. /\ thread = "none" /\ UNCHANGED <<dag, chains, thread, settled>> /\ Node \in Tees
      /\ tokens' = [tokens EXCEPT ![Node] = IF Len(l) < MaxTokens THEN Append(l, token) ELSE l]
  BY HostDemoAssumption DEF Register, RegisterToken, simulator
<1>2. dag[Node].count = 0 /\ 1..0 = {} /\ tokens = [m \in Tees |-> tokens[m]]
  BY <1>1 DEF HostDag
<1>3. token \in TokenSet /\ MaxTokens \in Nat /\ l \in Seq(TokenSet) /\ Len(l) <= MaxTokens
  BY TeeClusterAssumption DEF TokenSet, HostDag
<1> DEFINE l2 == IF Len(l) < MaxTokens THEN Append(l, token) ELSE l
<1>4. l2 \in Seq(TokenSet) /\ Len(l2) <= MaxTokens
  BY <1>3
<1> HIDE DEF l, l2
<1>5. tokens' = [tokens EXCEPT ![Node] = l2]
  BY <1>1 DEF l2
<1>6. tokens'[Node] = l2 /\ tokens' = [m \in Tees |-> tokens'[m]]
  BY <1>1, <1>2, <1>5
<1>7. \A list : AllKnown(dag[Node], list) /\ Complete(dag[Node], list)
  BY <1>2 DEF AllKnown, Complete
<1>8. /\ dag = [m \in Tees |-> dag[m]] /\ DagType(dag[Node]) /\ EdgesMutual(dag[Node])
      /\ Processed(dag[Node]) /\ Late(dag[Node]) /\ settled \in BOOLEAN
      /\ OneChain /\ OncePerTx(dag[Node]) => Forward(dag[Node])
  BY <1>7 DEF HostDag
<1>9. OneChain' <=> OneChain
  BY <1>1 DEF OneChain
<1>10. \A list : Complete(dag[Node], list)'
  BY <1>1, <1>2 DEF Complete
<1>11. QED
  BY <1>1, <1>2, <1>4, <1>6, <1>7, <1>8, <1>9, <1>10 DEF HostDag

\* An operation of the transaction under way, or of the next one.
LEMMA DagCallback ==
  ASSUME HostThreads, HostOrder, HostDag, [HostNext]_hostVars, thread' # "none",
         NEW i, NEW o \in Operations, o.tx \in Nat, NEW alloc, Callback(i, o, alloc),
         OneChain => LastTx \in Nat /\ LastTx <= o.tx
  PROVE  HostDag'
<1>1. (OneChain' => OneChain) /\ (thread' = "none" => thread = "none")
  BY ChainsGrow
<1>2. OneChain => InOrder(dag[Node], LastTx)
  BY OneChainInOrder DEF HostDag
<1>3. CASE UNCHANGED <<dag, tokens, settled, fed>>
  BY <1>1, <1>3, DagKept
<1>4. CASE Fed(i, o, alloc)
  BY <1>1, <1>2, <1>4, DagFed
<1>5. QED
  BY <1>3, <1>4, CallbackEffect

\* What the cluster does to the DAG, whichever thread calls it.
LEMMA HostDagStep ==
  ASSUME HostThreads, HostOrder, HostDag, [HostNext]_hostVars
  PROVE  HostDag'
<1>1. chains \in Seq(Chain)
  BY DEF HostThreads
<1>2. (OneChain' => OneChain) /\ (thread' = "none" => thread = "none")
  BY ChainsGrow
<1>3. ASSUME UNCHANGED <<dag, tokens, settled>>  PROVE HostDag'
  BY <1>2, <1>3, DagKept
<1>4. ASSUME NEW alloc \in Mallocs, TransferSecond(alloc)  PROVE HostDag'
  <2> DEFINE o == rest[1]
  <2>1. work.at = "second" /\ Callback(work.chain, o, alloc) /\ UNCHANGED thread
    BY <1>4 DEF TransferSecond, Sim!GenerateSecond
  <2>2. o \in Operations /\ thread = "live" /\ work # Sim!Idle
        /\ work \in [at : {"second", "block"}, chain : DOMAIN chains]
    BY <2>1, TeeClusterAssumption DEF HostThreads, Sim!Idle
  <2>3. ASSUME OneChain  PROVE o.tx \in Nat /\ o.tx = LastTx /\ LastTx \in Nat
    <3>1. work.chain = 1 /\ o.tx = LastOf(1)
      BY <2>1, <2>3 DEF HostOrder
    <3>2. 1 \in DOMAIN chains /\ chains[1] \in Chain /\ chains # << >>
      BY <1>1, <2>2, <3>1
    <3>3. QED
      BY <3>1, <3>2 DEF LastTx, LastOf, Chain
  <2>4. o.tx \in Nat
    BY <2>1 DEF HostThreads
  <2> HIDE DEF o
  <2>5. QED
    BY <2>1, <2>2, <2>3, <2>4, DagCallback
<1>5. ASSUME NEW j \in DOMAIN chains, NEW kind \in {"transfer", "mint", "burn"},
             NEW o \in Operations, NEW alloc \in Mallocs,
             Begins(Sim!Picked(j), kind, o, alloc)
      PROVE  HostDag'
  <2> DEFINE i == Sim!Picked(j)
  <2>1. i \in DOMAIN chains /\ (OneChain => i = 1)
    BY <1>1, PickedFacts
  <2> HIDE DEF i
  <2>2. /\ thread = "live" /\ UNCHANGED thread /\ Callback(i, o, alloc)
        /\ o.tx = LastOf(i) + 1 /\ o.tx \in Nat
    BY <1>5 DEF Begins, Sim!Generate, i
  <2>3. ASSUME OneChain  PROVE LastTx \in Nat /\ LastTx <= o.tx
    <3>1. chains[1] \in Chain /\ chains # << >> /\ i = 1
      BY <1>1, <2>1, <2>3
    <3>2. LastTx = chains[1].txCounter /\ LastOf(i) = chains[1].txCounter
      BY <3>1 DEF LastTx, LastOf
    <3>3. chains[1].txCounter \in Nat
      BY <3>1 DEF Chain
    <3>4. QED
      BY <2>2, <3>2, <3>3
  <2>4. QED
    BY <2>2, <2>3, DagCallback
<1>6. ASSUME NEW tail \in Tails, Output(tail)  PROVE HostDag'
  BY <1>6, DagOutput
<1>7. ASSUME NEW token \in TokenCalls, Register(token)  PROVE HostDag'
  BY <1>7, DagRegister
<1>8. QED
  <2>1. Submitted \subseteq Operations
    BY TeeClusterAssumption
  <2>2. QED
    BY <1>1, <1>3, <1>4, <1>5, <1>6, <1>7, <2>1, HostSteps DEF hostVars, cluster, ClusterInit

\* Nothing has been fed yet.
LEMMA HostBegins == HostInit => HostInv
<1> SUFFICES ASSUME HostInit  PROVE HostInv
  OBVIOUS
<1>1. HostThreads
  BY ThreadsInit
<1>2. /\ dag = [n \in Tees |-> EmptyDag] /\ tokens = [n \in Tees |-> << >>]
      /\ chains = << >> /\ work = Sim!Idle /\ settled = TRUE /\ thread = "none"
      /\ fed = << >>
  BY DEF HostInit, Init, Sim!Init
<1>3. /\ dag = [n \in Tees |-> dag[n]] /\ tokens = [n \in Tees |-> tokens[n]]
      /\ dag[Node] = EmptyDag /\ tokens[Node] = << >>
  BY <1>2, HostDemoAssumption
<1>4. /\ DagType(EmptyDag) /\ EdgesMutual(EmptyDag) /\ EmptyDag.count = 0 /\ 1..0 = {}
  BY EmptyDagFacts DEF EmptyDag
<1>5. /\ Late(EmptyDag) /\ Forward(EmptyDag) /\ Processed(EmptyDag)
      /\ AllKnown(EmptyDag, << >>) /\ Complete(EmptyDag, << >>)
  BY <1>4 DEF Late, Forward, Processed, AllKnown, Complete
<1>6. HostOrder
  <2>1. << >> \in Seq(Nat) /\ Len(<< >>) = 0
    OBVIOUS
  <2>2. FedSorted(EmptyDag, << >>, chains) /\ OnlyFirst(EmptyDag, << >>)
    BY <1>4, <2>1 DEF FedSorted, OnlyFirst
  <2>3. QED
    BY <1>2, <1>3, <2>2 DEF HostOrder, Sim!Idle
<1>7. HostDag
  <2>1. << >> \in Seq(TokenSet) /\ Len(<< >>) <= MaxTokens
    BY TeeClusterAssumption
  <2>2. QED
    BY <1>2, <1>3, <1>4, <1>5, <2>1 DEF HostDag
<1>8. QED
  BY <1>1, <1>6, <1>7 DEF HostInv

\* The three parts of the invariant hold in every state.
LEMMA HostInvHolds == HostSpec => []HostInv
<1>1. HostInv /\ [HostNext]_hostVars => HostInv'
  BY ThreadsStep, HostOrderStep, HostDagStep DEF HostInv
<1>2. QED
  BY <1>1, HostBegins, PTL DEF HostSpec

(***************************************************************************)
(* Each chain feeds the DAG in the order of its transactions and under ids *)
(* it never repeats, whatever the main thread does in the middle of them   *)
(* and however many chains there are.                                      *)
(***************************************************************************)
THEOREM HostFedInOrder == HostSpec => []FedInOrder
<1>1. HostInv => FedInOrder
  <2> SUFFICES ASSUME HostInv, NEW e \in 1..dag[Node].count, NEW f \in 1..dag[Node].count,
                      e < f, fed[e] = fed[f]
               PROVE  /\ dag[Node].nodes[e].op.id < dag[Node].nodes[f].op.id
                      /\ dag[Node].nodes[e].order <= dag[Node].nodes[f].order
    BY DEF FedInOrder
  <2> DEFINE d == dag[Node]
             m == chains[fed[e]].txCounter
  <2>1. FedSorted(d, fed, chains) /\ chains \in Seq(Chain)
    BY DEF HostInv, HostOrder, HostThreads
  <2>2. chains[fed[e]] \in Chain
    BY <2>1 DEF FedSorted
  <2>3. m \in Nat
    BY <2>2 DEF Chain
  <2>4. /\ d.nodes[e].op.id < d.nodes[f].op.id
        /\ d.nodes[e].order = d.nodes[e].op.tx /\ d.nodes[f].order = d.nodes[f].op.tx
        /\ \E x \in 1..m : OfTx(d.nodes[e].op, x)
        /\ \E y \in 1..m : OfTx(d.nodes[f].op, y)
    BY <2>1 DEF FedSorted
  <2> HIDE DEF m
  <2>5. PICK x \in 1..m : OfTx(d.nodes[e].op, x)
    BY <2>4
  <2>6. PICK y \in 1..m : OfTx(d.nodes[f].op, y)
    BY <2>4
  <2>7. /\ d.nodes[e].order = x /\ d.nodes[f].order = y /\ x \in Nat /\ y \in Nat
        /\ d.nodes[e].op.id \in {2 * x, 2 * x + 1} /\ d.nodes[f].op.id \in {2 * y, 2 * y + 1}
    BY <2>3, <2>4, <2>5, <2>6 DEF OfTx
  <2> HIDE DEF d
  <2>8. x <= y
    BY <2>4, <2>7
  <2>9. QED
    BY <2>4, <2>7, <2>8 DEF d
<1>2. QED
  BY <1>1, HostInvHolds, PTL

(***************************************************************************)
(* What an epoch output leaves behind, wherever in a transaction it falls, *)
(* with a slot for every token and room in the head: late operations only, *)
(* for the insertions have applied what else has a child, and the head     *)
(* adopts the rest; and nothing if one chain alone feeds the DAG and no    *)
(* transaction touches a balance twice.                                    *)
(***************************************************************************)
THEOREM HostOutputComplete == HostSpec => []OutputComplete
<1>1. HostInv => OutputComplete
  <2> SUFFICES ASSUME HostInv, settled, Cardinality(dag[Node].head) < MaxChildren,
                      \A e \in 1..dag[Node].count : Known(tokens[Node], dag[Node].nodes[e].op.token)
               PROVE  /\ \A e \in 1..dag[Node].count :
                            dag[Node].nodes[e].applied \/ LeftOut(dag[Node], e)
                      /\ OneChain /\ TouchesOnce(dag[Node]) =>
                           \A e \in 1..dag[Node].count : dag[Node].nodes[e].applied
    BY DEF OutputComplete
  <2>1. TouchesOnce(dag[Node]) => OncePerTx(dag[Node])
    BY DEF TouchesOnce, OncePerTx, OneBalance
  <2>2. Complete(dag[Node], tokens[Node]) /\ AllKnown(dag[Node], tokens[Node])
    BY DEF HostInv, HostDag, AllKnown
  <2>3. QED
    BY <2>1, <2>2 DEF Complete
<1>2. QED
  BY <1>1, HostInvHolds, PTL

-----------------------------------------------------------------------------
(***************************************************************************)
(* Why a stop returns (the part of StopReturns that is not about           *)
(* fairness): what the simulator thread still has to do before it ends,    *)
(* once the flag is cleared.                                               *)
(***************************************************************************)
StepsToEnd ==
  CASE work.at = "second" -> 3
    [] work.at = "block"  -> 2
    [] OTHER              -> IF thread = "live" THEN 1 ELSE 0

StopEnds ==
  caller = "joining" =>
    /\ StepsToEnd \in 0..3 /\ (StepsToEnd = 0 => thread = "exited")
    /\ \/ UNCHANGED <<work, thread>> /\ StepsToEnd' = StepsToEnd
       \/ StepsToEnd' = StepsToEnd - 1
       \/ StepsToEnd = 0 /\ caller' = "free"

LEMMA StopEndsStep ==
  ASSUME HostThreads, [HostNext]_hostVars
  PROVE  StopEnds
<1> SUFFICES ASSUME caller = "joining"  PROVE StopEnds
  BY DEF StopEnds
<1>1. /\ chains \in Seq(Chain) /\ ~ running /\ thread \in {"live", "exited"}
      /\ work = Sim!Idle \/ (work.at \in {"second", "block"} /\ thread = "live")
  BY DEF HostThreads
<1>2. StepsToEnd \in 0..3 /\ (StepsToEnd = 0 => thread = "exited")
  BY <1>1 DEF StepsToEnd, Sim!Idle
<1>3. ASSUME UNCHANGED <<work, thread>>  PROVE StopEnds
  BY <1>2, <1>3 DEF StopEnds, StepsToEnd
<1>4. CASE UNCHANGED hostVars \/ ClusterInit
  BY <1>3, <1>4 DEF hostVars, simulator, ClusterInit
\* The main thread is in stop, so it does nothing else; and no pass of the loop begins.
<1>5. ASSUME NEW id \in ChainIds, Sim!AddChain(id)  PROVE StopEnds
  BY <1>5 DEF Sim!AddChain
<1>6. CASE Sim!Start \/ Sim!Stop
  BY <1>6 DEF Sim!Start, Sim!Stop
<1>7. ASSUME NEW tail \in Tails, Output(tail)  PROVE StopEnds
  BY <1>7 DEF Output
<1>8. ASSUME NEW token \in TokenCalls, Register(token)  PROVE StopEnds
  BY <1>8 DEF Register
<1>9. ASSUME NEW i, NEW kind, NEW o, NEW alloc, Begins(i, kind, o, alloc)  PROVE StopEnds
  BY <1>1, <1>9 DEF Begins, Sim!Generate
<1>10. CASE Sim!Joined
  <2>1. StepsToEnd = 0
    BY <1>1, <1>10 DEF Sim!Joined, StepsToEnd, Sim!Idle
  <2>2. QED
    BY <1>2, <1>10, <2>1 DEF Sim!Joined, StopEnds
<1>11. CASE Sim!CountBlock
  <2>1. StepsToEnd = 2 /\ StepsToEnd' = 1
    BY <1>1, <1>11 DEF Sim!CountBlock, StepsToEnd, Sim!Idle
  <2>2. QED
    BY <1>2, <2>1 DEF StopEnds
<1>12. CASE Sim!Exit
  <2>1. StepsToEnd = 1 /\ StepsToEnd' = 0
    BY <1>12 DEF Sim!Exit, StepsToEnd, Sim!Idle
  <2>2. QED
    BY <1>2, <2>1 DEF StopEnds
<1>13. ASSUME NEW alloc \in Mallocs, TransferSecond(alloc)  PROVE StopEnds
  <2>1. work.at = "second" /\ work'.at = "block"
    <3>1. /\ work.at = "second" /\ work' = [work EXCEPT !.at = "block"]
          /\ work = Sim!Idle \/ work \in [at : {"second", "block"}, chain : DOMAIN chains]
      BY <1>13 DEF TransferSecond, Sim!GenerateSecond, HostThreads
    <3>2. QED
      BY <3>1 DEF Sim!Idle
  <2>2. StepsToEnd = 3 /\ StepsToEnd' = 2
    BY <2>1 DEF StepsToEnd
  <2>3. QED
    BY <1>2, <2>2 DEF StopEnds
<1> QED
  BY <1>1, <1>4, <1>5, <1>6, <1>7, <1>8, <1>9, <1>10, <1>11, <1>12, <1>13, HostSteps

(***************************************************************************)
(* A stop waits for at most three steps of the simulator thread, wherever  *)
(* in a transaction it was called: nothing the host does meanwhile gives   *)
(* the thread more to do, and when nothing is left it has ended.           *)
(***************************************************************************)
THEOREM HostStopEnds == HostSpec => [][StopEnds]_hostVars
<1>1. HostInv /\ [HostNext]_hostVars => [StopEnds]_hostVars
  BY StopEndsStep DEF HostInv
<1>2. QED
  BY <1>1, HostInvHolds, PTL DEF HostSpec

-----------------------------------------------------------------------------
\* What a callback does to the cluster is a call of it, or nothing.
LEMMA CallbackIsCall ==
  ASSUME NEW i, NEW o \in Submitted, NEW alloc \in Mallocs, Callback(i, o, alloc)
  PROVE  [Next]_vars
<1>1. CASE Accepts(alloc)
  <2>1. Node \in Tees /\ ProcessOperation(Node, o, alloc)
    BY <1>1, HostDemoAssumption DEF Callback
  <2>2. QED
    BY <2>1 DEF Next
<1>2. CASE ~ Accepts(alloc)
  BY <1>2 DEF Callback, cluster, vars
<1>3. QED
  BY <1>1, <1>2

\* Every step of the host is one call of the cluster or leaves it alone.
LEMMA HostCalls ==
  ASSUME HostThreads, [HostNext]_hostVars
  PROVE  [Next]_vars
<1>1. ASSUME UNCHANGED cluster  PROVE [Next]_vars
  BY <1>1 DEF cluster, vars
<1>2. CASE UNCHANGED hostVars \/ ClusterInit
  BY <1>1, <1>2 DEF hostVars, ClusterInit
<1>3. ASSUME NEW alloc \in Mallocs, TransferSecond(alloc)  PROVE [Next]_vars
  <2>1. rest[1] \in Submitted /\ Callback(work.chain, rest[1], alloc)
    BY <1>3 DEF HostThreads, TransferSecond, Sim!GenerateSecond
  <2>2. QED
    BY <2>1, CallbackIsCall
<1>4. ASSUME NEW tail \in Tails, Output(tail)  PROVE [Next]_vars
  BY <1>4, HostDemoAssumption DEF Output, Next
<1>5. ASSUME NEW token \in TokenCalls, Register(token)  PROVE [Next]_vars
  BY <1>5, HostDemoAssumption DEF Register, Next
<1>6. ASSUME NEW i, NEW kind, NEW o \in Submitted, NEW alloc \in Mallocs,
             Begins(i, kind, o, alloc)
      PROVE  [Next]_vars
  BY <1>6, CallbackIsCall DEF Begins
<1>7. chains \in Seq(Chain)
  BY DEF HostThreads
<1>8. QED
  BY <1>1, <1>2, <1>3, <1>4, <1>5, <1>6, <1>7, HostSteps

(***************************************************************************)
(* The host drives its TEE node as TeeCluster says the guest is driven:    *)
(* whatever its two threads do, the node goes through calls that the       *)
(* cluster's specification allows, so what is proved of Spec holds of the  *)
(* node behind the host.                                                   *)
(***************************************************************************)
THEOREM HostImplementsCluster == HostSpec => Spec
<1>1. HostInit => Init
  BY DEF HostInit
<1>2. HostInv /\ [HostNext]_hostVars => [Next]_vars
  BY HostCalls DEF HostInv
<1>3. QED
  BY <1>1, <1>2, HostInvHolds, PTL DEF HostSpec, Spec
=============================================================================
