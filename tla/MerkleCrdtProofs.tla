-------------------------- MODULE MerkleCrdtProofs --------------------------
(***************************************************************************)
(* Safety of MerkleCrdt for every set of operations, every order and every *)
(* bound of the arrays.  Each part is inductive together with the type of  *)
(* the DAG: MerkleDagProofs has what one insertion does to it, and all the *)
(* other steps leave the graph alone.                                      *)
(***************************************************************************)
EXTENDS MerkleChain, MerkleDagProofs, SequenceLemmas

-----------------------------------------------------------------------------
\* Every step inserts one operation and sets flags, or only sets flags.
LEMMA StepShape ==
  ASSUME DagType(dag), [Next]_vars
  PROVE  \/ dag' = dag
         \/ SameGraph(dag, dag') /\ DagType(dag')
         \/ \E o \in Operations, order \in Nat, alloc \in {"ok", "fails"} :
               /\ HasRoom(dag)
               /\ SameGraph(AddOperation(dag, o, order, alloc), dag')
               /\ DagType(dag')
<1>1. ASSUME NEW o \in Submitted, NEW order \in Orders, NEW alloc \in IndexAlloc,
             NEW tail \in Tails, Submit(o, order, alloc, tail)
      PROVE  \E q \in Operations, r \in Nat, a \in {"ok", "fails"} :
               /\ HasRoom(dag)
               /\ SameGraph(AddOperation(dag, q, r, a), dag')
               /\ DagType(dag')
  <2>1. o \in Operations /\ order \in Nat /\ alloc \in {"ok", "fails"}
    BY MerkleCrdtAssumption
  <2> DEFINE added == AddOperation(dag, o, order, alloc)
             S == Unapplied(added, added.nodes[FirstWithId(added, o.id)].parents)
  <2>2. HasRoom(dag) /\ dag' = MarkApplied(added, S, FALSE)
    BY <1>1 DEF Submit, UpdateParentStates
  <2>3. DagType(added)
    BY <2>1, <2>2, AddType
  <2> HIDE DEF added, S
  <2>4. DagType(dag') /\ SameGraph(added, dag')
    BY <2>2, <2>3, MarkAppliedKeeps
  <2>5. QED
    BY <2>1, <2>2, <2>4 DEF added
<1>2. ASSUME MakeHead  PROVE SameGraph(dag, dag') /\ DagType(dag')
  BY <1>2, GenerateHeadKeeps DEF MakeHead
<1>3. ASSUME NEW tail \in Tails, ApplyHead(tail)
      PROVE  SameGraph(dag, dag') /\ DagType(dag')
  <2>1. dag' = MarkApplied(dag, Unapplied(dag, dag.head), TRUE)
    BY <1>3 DEF ApplyHead, UpdateState
  <2>2. QED
    BY <2>1, MarkAppliedKeeps
<1>4. QED
  BY <1>1, <1>2, <1>3 DEF Next, vars

\* A step keeps the head or makes one that fits in its array.
LEMMA StepHead ==
  ASSUME DagType(dag), [Next]_vars
  PROVE  dag'.head = dag.head \/ Cardinality(dag'.head) <= MaxChildren
<1>1. ASSUME NEW o \in Submitted, NEW order \in Orders, NEW alloc \in IndexAlloc,
             NEW tail \in Tails, Submit(o, order, alloc, tail)
      PROVE  dag'.head = dag.head
  <2>1. o \in Operations /\ order \in Nat
    BY MerkleCrdtAssumption
  <2> DEFINE added == AddOperation(dag, o, order, alloc)
             S == Unapplied(added, added.nodes[FirstWithId(added, o.id)].parents)
  <2>2. HasRoom(dag) /\ dag' = MarkApplied(added, S, FALSE)
    BY <1>1 DEF Submit, UpdateParentStates
  <2>3. DagType(added) /\ added.head = dag.head
    BY <2>1, <2>2, AddType, AddFields
  <2> HIDE DEF added, S
  <2>4. QED
    BY <2>2, <2>3, MarkAppliedKeeps
<1>2. ASSUME MakeHead  PROVE Cardinality(dag'.head) <= MaxChildren
  BY <1>2, GenerateHeadKeeps DEF MakeHead
<1>3. ASSUME NEW tail \in Tails, ApplyHead(tail)  PROVE dag'.head = dag.head
  <2>1. dag' = MarkApplied(dag, Unapplied(dag, dag.head), TRUE)
    BY <1>3 DEF ApplyHead, UpdateState
  <2>2. QED
    BY <2>1, MarkAppliedKeeps
<1>4. QED
  BY <1>1, <1>2, <1>3 DEF Next, vars

(***************************************************************************)
(* Whatever is submitted in whatever order, the DAG stays well formed.     *)
(***************************************************************************)
THEOREM MerkleCrdtType == Spec => []TypeOK
<1>1. Init => TypeOK
  BY EmptyDagFacts DEF Init, TypeOK
<1>2. TypeOK /\ [Next]_vars => TypeOK'
  BY StepShape DEF TypeOK
<1>3. QED
  BY <1>1, <1>2, PTL DEF Spec

(***************************************************************************)
(* Every edge of the DAG points forward in the order of the operations, so *)
(* merging late operations into the graph never closes a cycle.            *)
(***************************************************************************)
THEOREM MerkleCrdtSorted == Spec => []DagEdgesSorted
<1>1. Init => DagEdgesSorted
  BY EmptyDagFacts DEF Init, DagEdgesSorted
<1>2. TypeOK /\ DagEdgesSorted /\ [Next]_vars => DagEdgesSorted'
  <2> SUFFICES ASSUME DagType(dag), EdgesSorted(dag), [Next]_vars  PROVE EdgesSorted(dag')
    BY DEF TypeOK, DagEdgesSorted
  <2>1. ASSUME NEW o \in Operations, NEW order \in Nat, NEW alloc \in {"ok", "fails"},
               HasRoom(dag), SameGraph(AddOperation(dag, o, order, alloc), dag')
        PROVE  EdgesSorted(dag')
    <3>1. DagType(AddOperation(dag, o, order, alloc))
      BY <2>1, AddType
    <3>2. EdgesSorted(AddOperation(dag, o, order, alloc))
      BY AddKeepsEdgesSorted
    <3>3. QED
      BY <2>1, <3>1, <3>2, SameGraphKeeps
  <2>2. SameGraph(dag, dag') => EdgesSorted(dag')
    BY SameGraphKeeps
  <2>3. QED
    BY <2>1, <2>2, StepShape
<1>3. QED
  BY <1>1, <1>2, MerkleCrdtType, PTL DEF Spec

(***************************************************************************)
(* The parents array of a node and the children arrays of its parents      *)
(* always tell the same edges, each with its own capacity.                 *)
(***************************************************************************)
THEOREM MerkleCrdtMutual == Spec => []DagEdgesMutual
<1>1. Init => DagEdgesMutual
  BY EmptyDagFacts DEF Init, DagEdgesMutual
<1>2. TypeOK /\ DagEdgesMutual /\ [Next]_vars => DagEdgesMutual'
  <2> SUFFICES ASSUME DagType(dag), EdgesMutual(dag), [Next]_vars  PROVE EdgesMutual(dag')
    BY DEF TypeOK, DagEdgesMutual
  <2>1. ASSUME NEW o \in Operations, NEW order \in Nat, NEW alloc \in {"ok", "fails"},
               HasRoom(dag), SameGraph(AddOperation(dag, o, order, alloc), dag')
        PROVE  EdgesMutual(dag')
    <3>1. DagType(AddOperation(dag, o, order, alloc))
      BY <2>1, AddType
    <3>2. EdgesMutual(AddOperation(dag, o, order, alloc))
      BY AddKeepsEdgesMutual
    <3>3. QED
      BY <2>1, <3>1, <3>2, SameGraphKeeps
  <2>2. SameGraph(dag, dag') => EdgesMutual(dag')
    BY SameGraphKeeps
  <2>3. QED
    BY <2>1, <2>2, StepShape
<1>3. QED
  BY <1>1, <1>2, MerkleCrdtType, PTL DEF Spec

(***************************************************************************)
(* Edges join conflicting operations only: independent operations are      *)
(* never serialised by the DAG.                                            *)
(***************************************************************************)
THEOREM MerkleCrdtConflict == Spec => []DagEdgesConflict
<1>1. Init => DagEdgesConflict
  BY EmptyDagFacts DEF Init, DagEdgesConflict
<1>2. TypeOK /\ DagEdgesConflict /\ [Next]_vars => DagEdgesConflict'
  <2> SUFFICES ASSUME DagType(dag), EdgesConflict(dag), [Next]_vars  PROVE EdgesConflict(dag')
    BY DEF TypeOK, DagEdgesConflict
  <2>1. ASSUME NEW o \in Operations, NEW order \in Nat, NEW alloc \in {"ok", "fails"},
               HasRoom(dag), SameGraph(AddOperation(dag, o, order, alloc), dag')
        PROVE  EdgesConflict(dag')
    <3>1. DagType(AddOperation(dag, o, order, alloc))
      BY <2>1, AddType
    <3>2. EdgesConflict(AddOperation(dag, o, order, alloc))
      BY AddKeepsEdgesConflict
    <3>3. QED
      BY <2>1, <3>1, <3>2, SameGraphKeeps
  <2>2. SameGraph(dag, dag') => EdgesConflict(dag')
    BY SameGraphKeeps
  <2>3. QED
    BY <2>1, <2>2, StepShape
<1>3. QED
  BY <1>1, <1>2, MerkleCrdtType, PTL DEF Spec

(***************************************************************************)
(* Two conflicting operations are ordered by an edge, whichever came       *)
(* first, if the older one got its index entry and no array is full; what  *)
(* became of the younger one's entry does not matter.                      *)
(***************************************************************************)
THEOREM MerkleCrdtLinked == Spec => []DagLinked
<1>1. Init => DagLinked
  BY EmptyDagFacts DEF Init, DagLinked
<1>2. TypeOK /\ DagLinked /\ [Next]_vars => DagLinked'
  <2> SUFFICES ASSUME DagType(dag), ConflictsLinked(dag), [Next]_vars
               PROVE  ConflictsLinked(dag')
    BY DEF TypeOK, DagLinked
  <2>1. ASSUME NEW o \in Operations, NEW order \in Nat, NEW alloc \in {"ok", "fails"},
               HasRoom(dag), SameGraph(AddOperation(dag, o, order, alloc), dag')
        PROVE  ConflictsLinked(dag')
    <3>1. DagType(AddOperation(dag, o, order, alloc))
      BY <2>1, AddType
    <3>2. ConflictsLinked(AddOperation(dag, o, order, alloc))
      BY AddKeepsConflictsLinked
    <3>3. QED
      BY <2>1, <3>1, <3>2, SameGraphKeeps
  <2>2. SameGraph(dag, dag') => ConflictsLinked(dag')
    BY SameGraphKeeps
  <2>3. QED
    BY <2>1, <2>2, StepShape
<1>3. QED
  BY <1>1, <1>2, MerkleCrdtType, PTL DEF Spec

(***************************************************************************)
(* No array of the C structures is written past its end, although the      *)
(* entries of a node are added from both ends of each link.                *)
(***************************************************************************)
THEOREM MerkleCrdtCapacity == Spec => []DagWithinCapacity
<1>1. Init => DagWithinCapacity
  <2>1. EmptyDag.count = 0 /\ EmptyDag.latest = << >> /\ EmptyDag.head = {} /\ 1..0 = {}
    BY DEF EmptyDag
  <2>2. Cardinality({}) = 0
    BY FS_EmptySet
  <2>3. Len(<< >>) = 0
    OBVIOUS
  <2>4. WithinCapacity(EmptyDag)
    BY <2>1, <2>2, <2>3, MerkleDagAssumption DEF WithinCapacity
  <2>5. QED
    BY <2>4 DEF Init, DagWithinCapacity
<1>2. TypeOK /\ DagWithinCapacity /\ [Next]_vars => DagWithinCapacity'
  <2> SUFFICES ASSUME DagType(dag), WithinCapacity(dag), [Next]_vars
               PROVE  WithinCapacity(dag')
    BY DEF TypeOK, DagWithinCapacity
  <2>1. Cardinality(dag'.head) <= MaxChildren
    BY StepHead DEF WithinCapacity
  <2>2. ASSUME NEW o \in Operations, NEW order \in Nat, NEW alloc \in {"ok", "fails"},
               HasRoom(dag), SameGraph(AddOperation(dag, o, order, alloc), dag')
        PROVE  WithinCapacity(dag')
    <3>1. DagType(AddOperation(dag, o, order, alloc))
      BY <2>2, AddType
    <3>2. WithinCapacity(AddOperation(dag, o, order, alloc))
      BY <2>2, AddKeepsCapacity
    <3>3. QED
      BY <2>1, <2>2, <3>1, <3>2, SameGraphKeeps
  <2>3. SameGraph(dag, dag') => WithinCapacity(dag')
    BY <2>1, SameGraphKeeps
  <2>4. QED
    BY <2>2, <2>3, StepShape
<1>3. QED
  BY <1>1, <1>2, MerkleCrdtType, PTL DEF Spec
-----------------------------------------------------------------------------
(***************************************************************************)
(* Whatever the ids: a node that is not applied has no children but nodes  *)
(* that arrived before it, and nodes whose id an earlier one bears already *)
(* (the lookup by id then passes them by).  Nothing else can be lost.      *)
(***************************************************************************)
THEOREM MerkleCrdtOnlyLate == Spec => []OnlyLateSkipped
<1>1. Init => OnlyLateSkipped
  <2>1. EmptyDag.count = 0 /\ 1..0 = {}
    BY DEF EmptyDag
  <2>2. QED
    BY <2>1 DEF Init, OnlyLateSkipped
<1>2. TypeOK /\ OnlyLateSkipped /\ [Next]_vars => OnlyLateSkipped'
  <2> SUFFICES ASSUME DagType(dag), Late(dag), [Next]_vars  PROVE Late(dag')
    BY DEF TypeOK, OnlyLateSkipped, Late
  <2>1. ASSUME NEW o \in Submitted, NEW order \in Orders, NEW alloc \in IndexAlloc,
               NEW tail \in Tails, Submit(o, order, alloc, tail)
        PROVE  Late(dag')
    <3>1. o \in Operations /\ order \in Nat
      BY MerkleCrdtAssumption
    <3> DEFINE a == AddOperation(dag, o, order, alloc)
    <3>2. HasRoom(dag) /\ dag' = MarkApplied(a, Unapplied(a, a.nodes[FirstWithId(a, o.id)].parents), FALSE)
      BY <2>1 DEF Submit, UpdateParentStates
    <3>3. QED
      BY <3>1, <3>2, SubmitKeepsLate
  <2>2. ASSUME MakeHead  PROVE Late(dag')
    <3>1. dag' = GenerateHead(dag)
      BY <2>2 DEF MakeHead
    <3>2. \A e \in 1..dag.count : dag.nodes[e].applied => dag'.nodes[e].applied
      BY <3>1, GenerateHeadFlags
    <3>3. QED
      BY <3>1, <3>2, GenerateHeadKeeps, FlagsKeepLate
  <2>3. ASSUME NEW tail \in Tails, ApplyHead(tail)  PROVE Late(dag')
    <3> DEFINE S == Unapplied(dag, dag.head)
    <3>1. dag' = MarkApplied(dag, S, TRUE)
      BY <2>3 DEF ApplyHead, UpdateState
    <3> HIDE DEF S
    <3>2. \A e \in 1..dag.count : dag.nodes[e].applied => dag'.nodes[e].applied
      BY <3>1, MarkAppliedFlags
    <3>3. SameGraph(dag, dag')
      BY <3>1, MarkAppliedKeeps
    <3>4. QED
      BY <3>2, <3>3, FlagsKeepLate
  <2>4. QED
    BY <2>1, <2>2, <2>3 DEF Next, vars
<1>3. QED
  BY <1>1, <1>2, MerkleCrdtType, PTL DEF Spec
-----------------------------------------------------------------------------
\* What keeps the parents of a node applied on a chain that is fed in order.
Chained(d) == UniqueIds(d) /\ Numbered(d) /\ OncePerTx(d) /\ Forward(d)

ChainInv == DagType(dag) /\ EdgesMutual(dag) /\ Late(dag) /\ Chained(dag)

(***************************************************************************)
(* On a chain fed in order nothing is applied before what it depends on,   *)
(* whichever of update_parent_states and update_state applies it.          *)
(***************************************************************************)
THEOREM MerkleChainParents == ChainSpec => []ParentsAppliedFirst
<1>1. Init => ChainInv
  <2>1. EmptyDag.count = 0 /\ 1..0 = {}
    BY DEF EmptyDag
  <2>2. Late(EmptyDag) /\ Chained(EmptyDag)
    BY <2>1 DEF Late, Chained, UniqueIds, Numbered, OncePerTx, Forward
  <2>3. QED
    BY <2>2, EmptyDagFacts DEF Init, ChainInv
<1>2. ChainInv /\ [ChainNext]_vars => ChainInv'
  <2> SUFFICES ASSUME DagType(dag), EdgesMutual(dag), Late(dag), Chained(dag), [ChainNext]_vars
               PROVE  DagType(dag') /\ EdgesMutual(dag') /\ Late(dag') /\ Chained(dag')
    BY DEF ChainInv
  <2>1. ASSUME NEW o \in Submitted, NEW tail \in Tails, SubmitNext(o, tail)
        PROVE  DagType(dag') /\ EdgesMutual(dag') /\ Late(dag') /\ Chained(dag')
    <3>1. o \in Operations /\ o.tx \in Nat /\ dag.count \in Nat
      BY MerkleCrdtAssumption, MerkleChainAssumption, MerkleDagAssumption DEF DagType
    <3> DEFINE a == AddOperation(dag, o, o.tx, "ok")
               S == Unapplied(a, a.nodes[FirstWithId(a, o.id)].parents)
    <3>2. HasRoom(dag) /\ dag' = MarkApplied(a, S, FALSE)
      BY <2>1 DEF SubmitNext, Submit, UpdateParentStates
    <3>3. /\ \A e \in 1..dag.count : dag.nodes[e].op.id # o.id
          /\ \A e \in 1..dag.count :
                dag.nodes[e].op.tx = o.tx => dag.nodes[e].op.account # o.account
      BY <2>1 DEF SubmitNext
    <3>4. ASSUME NEW e \in 1..dag.count  PROVE dag.nodes[e].order <= o.tx
      <4>1. dag.nodes[dag.count].order <= o.tx /\ dag.count \in 1..dag.count
        BY <2>1, <3>1 DEF SubmitNext, NewestOrder
      <4>2. dag.nodes[e].order <= dag.nodes[dag.count].order
        <5>1. CASE e = dag.count
          BY <4>1, <5>1, NodeFields
        <5>2. CASE e < dag.count
          BY <4>1, <5>2 DEF Chained, Numbered
        <5>3. QED
          BY <3>1, <5>1, <5>2
      <4>3. dag.nodes[e].order \in Nat /\ dag.nodes[dag.count].order \in Nat
        BY <4>1, NodeFields
      <4>4. QED
        BY <3>1, <4>1, <4>2, <4>3
    <3>5. Late(dag')
      BY <3>1, <3>2, SubmitKeepsLate
    <3>6. \A e \in 1..dag.count : ~ OneBalance(dag.nodes[e].op, o)
      BY <3>3 DEF OneBalance
    <3>7. DagType(a) /\ EdgesMutual(a) /\ Chained(a)
      <4>1. DagType(a) /\ EdgesMutual(a)
        BY <3>1, <3>2, AddType, AddKeepsEdgesMutual
      <4>2. UniqueIds(a) /\ OncePerTx(a)
        BY <3>3, <3>6, AddKeepsUnique, AddOnce DEF Chained
      <4>3. Numbered(a) /\ Forward(a)
        BY <3>1, <3>4, <3>6, AddKeepsNumbered, AddKeepsForward DEF Chained
      <4>4. QED
        BY <4>1, <4>2, <4>3 DEF Chained
    <3> HIDE DEF a, S
    <3>8. DagType(dag') /\ SameGraph(a, dag')
      BY <3>2, <3>7, MarkAppliedKeeps
    <3>9. QED
      BY <3>5, <3>7, <3>8, SameGraphKeeps, SameGraphKeepsOrder DEF Chained
  <2>2. ASSUME MakeHead \/ (\E tail \in Tails : ApplyHead(tail)) \/ UNCHANGED vars
        PROVE  DagType(dag') /\ EdgesMutual(dag') /\ Late(dag') /\ Chained(dag')
    <3>1. CASE MakeHead
      <4>1. dag' = GenerateHead(dag)
        BY <3>1 DEF MakeHead
      <4>2. \A e \in 1..dag.count : dag.nodes[e].applied => dag'.nodes[e].applied
        BY <4>1, GenerateHeadFlags
      <4>3. DagType(dag') /\ SameGraph(dag, dag')
        BY <4>1, GenerateHeadKeeps
      <4>4. QED
        BY <4>2, <4>3, FlagsKeepLate, SameGraphKeeps, SameGraphKeepsOrder DEF Chained
    <3>2. ASSUME NEW tail \in Tails, ApplyHead(tail)
          PROVE  DagType(dag') /\ EdgesMutual(dag') /\ Late(dag') /\ Chained(dag')
      <4> DEFINE S == Unapplied(dag, dag.head)
      <4>1. dag' = MarkApplied(dag, S, TRUE)
        BY <3>2 DEF ApplyHead, UpdateState
      <4> HIDE DEF S
      <4>2. \A e \in 1..dag.count : dag.nodes[e].applied => dag'.nodes[e].applied
        BY <4>1, MarkAppliedFlags
      <4>3. DagType(dag') /\ SameGraph(dag, dag')
        BY <4>1, MarkAppliedKeeps
      <4>4. QED
        BY <4>2, <4>3, FlagsKeepLate, SameGraphKeeps, SameGraphKeepsOrder DEF Chained
    <3>3. QED
      BY <2>2, <3>1, <3>2 DEF vars
  <2>3. QED
    BY <2>1, <2>2 DEF ChainNext
<1>3. ChainInv => ParentsAppliedFirst
  <2> SUFFICES ASSUME ChainInv, NEW c \in 1..dag.count, NEW p \in dag.nodes[c].parents
               PROVE  dag.nodes[p].applied
    BY DEF ParentsAppliedFirst
  <2>1. p \in 1..dag.count
    BY NodeFields DEF ChainInv
  <2>2. c \in dag.nodes[p].children
    BY <2>1 DEF ChainInv, EdgesMutual
  <2>3. QED
    BY <2>1, <2>2, ForwardApplied DEF ChainInv, Chained
<1>4. QED
  BY <1>1, <1>2, <1>3, PTL DEF ChainSpec

-----------------------------------------------------------------------------
(***************************************************************************)
(* The loops of add_operation.  A loop that meets the candidates in the    *)
(* order of rank and stores while there is room stores what FirstBy picks: *)
(* the next one is stored exactly when fewer than k of those before were.  *)
(***************************************************************************)
LEMMA FirstByNext ==
  ASSUME NEW S, IsFiniteSet(S), NEW k \in Nat, NEW rank,
         \A x \in S : rank[x] \in Int,
         \A x, y \in S : rank[x] = rank[y] => x = y,
         NEW e \in S, NEW B, B = {f \in FirstBy(S, rank, k) : rank[f] < rank[e]}
  PROVE  /\ IsFiniteSet(B) /\ Cardinality(B) \in Nat
         /\ e \in FirstBy(S, rank, k) <=> Cardinality(B) < k
<1> DEFINE A == {f \in S : rank[f] < rank[e]}
<1>1. A \in SUBSET S /\ IsFiniteSet(A) /\ Cardinality(A) \in Nat
  <2>1. A \in SUBSET S
    OBVIOUS
  <2> HIDE DEF A
  <2>2. QED
    BY <2>1, FS_Subset, FS_CardinalityType
<1>2. \A x \in A : {f \in S : rank[f] < rank[x]} = {f \in A : rank[f] < rank[x]}
  OBVIOUS
<1>3. B = FirstBy(A, rank, k)
  BY <1>2 DEF FirstBy
<1>4. e \in FirstBy(S, rank, k) <=> Cardinality(A) < k
  BY DEF FirstBy
<1>5. /\ \A x \in A : rank[x] \in Int
      /\ \A x, y \in A : rank[x] = rank[y] => x = y
  BY <1>1
<1> HIDE DEF A
<1>6. B \subseteq A /\ IsFiniteSet(B) /\ Cardinality(B) \in Nat
  <2>1. IsFiniteSet(A) /\ (\A x \in A : rank[x] \in Int)
        /\ \A x, y \in A : rank[x] = rank[y] => x = y
    BY <1>1, <1>5
  <2> DEFINE F == FirstBy(A, rank, k)
  <2>2. F \subseteq A /\ IsFiniteSet(F) /\ Cardinality(F) \in Nat
    BY <2>1, FirstByBound
  <2>3. B = F
    BY <1>3
  <2> HIDE DEF F
  <2>4. QED
    BY <2>2, <2>3
<1>7. Cardinality(B) <= Cardinality(A)
  BY <1>1, <1>6, FS_Subset
<1>8. CASE B = A
  BY <1>4, <1>8, <1>6
<1>9. CASE B # A
  <2>1. PICK x \in A : x \notin B
    BY <1>6, <1>9
  <2>2. Cardinality(B) >= k
    BY <1>1, <1>3, <1>5, <2>1, FirstByFull
  <2>3. QED
    BY <1>1, <1>4, <1>6, <1>7, <2>2
<1>10. QED
  BY <1>6, <1>8, <1>9

\* What a rank must be, and when a loop at rank r may meet x.
Ranked(S, rank) ==
  /\ IsFiniteSet(S) /\ \A x \in S : rank[x] \in Int
  /\ \A x, y \in S : rank[x] = rank[y] => x = y

Due(S, rank, r, x) == (x \in S => rank[x] <= r) /\ \A y \in S : rank[y] = r => y = x

\* The nodes of S met so far, when the loop has come to rank r.
Met(S, rank, r) == {e \in S : rank[e] <= r}

\* A step of the loop at rank r meets the node x of that rank, or an earlier one again.
LEMMA MeetNext ==
  ASSUME NEW S, NEW k \in Nat, NEW rank, Ranked(S, rank),
         NEW r \in Int, NEW q, q = r - 1, NEW x, Due(S, rank, r, x),
         NEW N, N = FirstBy(S, rank, k)
  PROVE  /\ x \in S /\ (x \in Met(N, rank, q) \/ Cardinality(Met(N, rank, q)) >= k)
              => Met(N, rank, r) = Met(N, rank, q)
         /\ x \in S /\ ~ (x \in Met(N, rank, q) \/ Cardinality(Met(N, rank, q)) >= k)
              => Met(N, rank, r) = Met(N, rank, q) \cup {x}
<1>0. /\ IsFiniteSet(S) /\ \A y \in S : rank[y] \in Int
      /\ \A y, z \in S : rank[y] = rank[z] => y = z
      /\ x \in S => rank[x] <= r
      /\ \A y \in S : rank[y] = r => y = x
  BY DEF Ranked, Due
<1>1. N \subseteq S /\ IsFiniteSet(N)
  BY <1>0, FirstByBound
<1>2. \A y \in N : rank[y] \in Int /\ (rank[y] <= r <=> rank[y] <= q \/ rank[y] = r)
  BY <1>0, <1>1
<1>4. ASSUME x \in S
      PROVE /\ Cardinality(Met(N, rank, q)) \in Nat
            /\ Met(N, rank, r) = 
                   IF x \in Met(N, rank, q) \/ Cardinality(Met(N, rank, q)) >= k
                     THEN Met(N, rank, q) ELSE Met(N, rank, q) \cup {x}
  <2> DEFINE M == Met(N, rank, q)
             B == {f \in N : rank[f] < rank[x]}
  <2>1. M \in SUBSET N
    BY DEF Met
  <2>2. IsFiniteSet(M) /\ Cardinality(M) \in Nat
    <3> HIDE DEF M
    <3>1. QED
      BY <1>0, <1>1, <2>1, FS_Subset, FS_CardinalityType
  <2>3. /\ IsFiniteSet(B) /\ Cardinality(B) \in Nat
        /\ x \in N <=> Cardinality(B) < k
    BY <1>0, <1>4, FirstByNext
  <2>4. B \in SUBSET M
    BY <1>0, <1>1, <1>4 DEF Met
  <2>5. CASE rank[x] = r
    <3>1. B = M /\ x \notin M
      BY <1>0, <1>1, <1>2, <1>4, <2>5 DEF Met
    <3>2. Met(N, rank, r) = IF x \in N THEN M \cup {x} ELSE M
      <4>1. \A y \in N : rank[y] = r <=> y = x
        BY <1>0, <1>1, <2>5
      <4>2. QED
        BY <1>0, <1>2, <2>5, <4>1 DEF Met
    <3> HIDE DEF M, B
    <3>3. QED
      BY <2>2, <2>3, <3>1, <3>2 DEF M
  <2>6. CASE rank[x] # r
    <3>1. \A y \in N : rank[y] # r
      BY <1>0, <1>1, <2>6
    <3>2. Met(N, rank, r) = M
      BY <1>0, <1>2, <3>1 DEF Met
    <3>3. x \in N => x \in M
      BY <1>0, <1>2, <2>6, <1>4 DEF Met
    <3> HIDE DEF M, B
    <3>4. x \notin N => Cardinality(M) >= k
      <4>1. Cardinality(B) <= Cardinality(M)
        BY <2>2, <2>4, FS_Subset
      <4>2. QED
        BY <2>2, <2>3, <4>1
    <3>5. QED
      BY <2>2, <3>2, <3>3, <3>4 DEF M
  <2>7. QED
    BY <2>5, <2>6
<1>5. QED
  BY <1>4


\* A node that is not in S at all changes nothing.
LEMMA MeetNone ==
  ASSUME NEW S, NEW k \in Nat, NEW rank, Ranked(S, rank),
         NEW r \in Int, NEW q, q = r - 1, NEW x, Due(S, rank, r, x), x \notin S,
         NEW N, N = FirstBy(S, rank, k)
  PROVE  Met(N, rank, r) = Met(N, rank, q)
<1>1. N \subseteq S
  BY DEF FirstBy
<1>2. \A y \in S : rank[y] \in Int /\ rank[y] # r
  BY DEF Ranked, Due
<1>3. \A y \in N : rank[y] <= r <=> rank[y] <= q
  BY <1>1, <1>2
<1>4. QED
  BY <1>3 DEF Met

-----------------------------------------------------------------------------
(***************************************************************************)
(* The node array with the new node linked to the parents P, the children  *)
(* C and the neighbors N: what it is between two calls of connect_*.       *)
(***************************************************************************)
Joint(d, o, order, P, C, N, e) ==
  LET n == d.count + 1
      ends(S, old) == IF e \in S THEN old \cup {n} ELSE old
  IN  IF e = n
        THEN [op |-> o, order |-> order, parents |-> P, children |-> C, neighbors |-> N,
              headCandidate |-> FALSE, processed |-> FALSE, applied |-> FALSE, failed |-> FALSE]
        ELSE [op |-> d.nodes[e].op, order |-> d.nodes[e].order,
              parents   |-> ends(C, d.nodes[e].parents),
              children  |-> ends(P, d.nodes[e].children),
              neighbors |-> ends(N, d.nodes[e].neighbors),
              headCandidate |-> d.nodes[e].headCandidate, processed |-> d.nodes[e].processed,
              applied |-> d.nodes[e].applied, failed |-> d.nodes[e].failed]

Joined(d, o, order, P, C, N) ==
  [e \in 1..d.count + 1 |-> Joint(d, o, order, P, C, N, e)]

Links(d) == SUBSET (1..d.count)

\* Between two calls every node is one.
LEMMA JointType ==
  ASSUME NEW d, DagType(d), NEW o \in Operations, NEW order \in Nat,
         NEW P \in Links(d), NEW C \in Links(d), NEW N \in Links(d),
         NEW e \in 1..d.count + 1
  PROVE  Joint(d, o, order, P, C, N, e) \in NodeType(d.count + 1)
<1>1. d.count \in Nat /\ 1..d.count \subseteq 1..d.count + 1 /\ d.count + 1 \in 1..d.count + 1
  BY DEF DagType
<1>2. CASE e = d.count + 1
  BY <1>1, <1>2 DEF Joint, NodeType, Links
<1>3. CASE e # d.count + 1
  <2>1. d.nodes[e] \in NodeType(d.count)
    BY <1>1, <1>3 DEF DagType
  <2>2. QED
    BY <1>1, <1>3, <2>1 DEF Joint, NodeType, Links
<1>4. QED
  BY <1>2, <1>3

\* connect_nodes with the new node as the child of x.
LEMMA JoinParent ==
  ASSUME NEW d, DagType(d), NEW o \in Operations, NEW order \in Nat,
         NEW P \in Links(d), NEW C \in Links(d), NEW N \in Links(d), NEW x \in 1..d.count,
         NEW n, n = d.count + 1
  PROVE  /\ (x \in P \/ Cardinality(P) >= MaxParents \/ Cardinality(d.nodes[x].children) >= MaxChildren)
           => ConnectNodes(Joined(d, o, order, P, C, N), n, x) = Joined(d, o, order, P, C, N)
         /\ ~ (x \in P \/ Cardinality(P) >= MaxParents \/ Cardinality(d.nodes[x].children) >= MaxChildren)
           => ConnectNodes(Joined(d, o, order, P, C, N), n, x) =
                Joined(d, o, order, P \cup {x}, C, N)
<1> DEFINE J == Joined(d, o, order, P, C, N)
           K == Joined(d, o, order, P \cup {x}, C, N)
<1>1. x \in 1..n /\ n \in 1..n /\ x # n
  BY DEF DagType
<1>2. /\ J[n].parents = P
      /\ x \notin P => J[x].children = d.nodes[x].children
  BY <1>1 DEF Joined, Joint
<1>3. CASE \/ x \in P \/ Cardinality(P) >= MaxParents
           \/ Cardinality(d.nodes[x].children) >= MaxChildren
  <2>1. ConnectNodes(J, n, x) = J
    <3> HIDE DEF J
    <3>1. QED
      BY <1>2, <1>3 DEF ConnectNodes
  <2>2. QED
    BY <1>3, <2>1
<1>4. CASE ~ (\/ x \in P \/ Cardinality(P) >= MaxParents
              \/ Cardinality(d.nodes[x].children) >= MaxChildren)
  <2> DEFINE R == [J EXCEPT ![n].parents = @ \cup {x}, ![x].children = @ \cup {n}]
  <2>1. ConnectNodes(J, n, x) = R
    <3> HIDE DEF J
    <3>1. QED
      BY <1>2, <1>4 DEF ConnectNodes
  <2>2. ASSUME NEW e \in 1..n  PROVE R[e] = K[e]
    <3> DEFINE j == Joint(d, o, order, P, C, N, e)
               k == Joint(d, o, order, P \cup {x}, C, N, e)
    <3>1. J[e] = j /\ K[e] = k
      BY DEF Joined
    <3>2. R[e] = IF e = n THEN [j EXCEPT !.parents = @ \cup {x}]
                 ELSE IF e = x THEN [j EXCEPT !.children = @ \cup {n}] ELSE j
      BY <1>1 DEF Joined
    <3>3. j \in NodeType(n) /\ k \in NodeType(n)
      <4>1. P \cup {x} \in Links(d)
        BY DEF Links
      <4>2. QED
        BY <4>1, JointType
    <3>4. CASE e = n
      <4>1. /\ k.parents = j.parents \cup {x}
            /\ k.op = j.op /\ k.order = j.order /\ k.children = j.children
            /\ k.neighbors = j.neighbors /\ k.headCandidate = j.headCandidate
            /\ k.processed = j.processed /\ k.applied = j.applied /\ k.failed = j.failed
        BY <3>4 DEF Joint
      <4> HIDE DEF j, k, R, K
      <4>2. k = [j EXCEPT !.parents = j.parents \cup {x}]
        BY <3>3, <4>1 DEF NodeType
      <4>3. QED
        BY <3>1, <3>2, <3>4, <4>2
    <3>5. CASE e = x
      <4>1. /\ k.children = j.children \cup {n}
            /\ k.op = j.op /\ k.order = j.order /\ k.parents = j.parents
            /\ k.neighbors = j.neighbors /\ k.headCandidate = j.headCandidate
            /\ k.processed = j.processed /\ k.applied = j.applied /\ k.failed = j.failed
        BY <1>1, <1>4, <3>5 DEF Joint
      <4> HIDE DEF j, k, R, K
      <4>2. k = [j EXCEPT !.children = j.children \cup {n}]
        BY <3>3, <4>1 DEF NodeType
      <4>3. QED
        BY <1>1, <3>1, <3>2, <3>5, <4>2
    <3>6. CASE e # n /\ e # x
      BY <3>1, <3>2, <3>6 DEF Joint
    <3>7. QED
      BY <3>4, <3>5, <3>6
  <2>3. R = K
    BY <2>2 DEF Joined
  <2>4. QED
    BY <1>4, <2>1, <2>3
<1>5. QED
  BY <1>3, <1>4

\* connect_nodes with the new node as the parent of x.
LEMMA JoinChild ==
  ASSUME NEW d, DagType(d), NEW o \in Operations, NEW order \in Nat,
         NEW P \in Links(d), NEW C \in Links(d), NEW N \in Links(d), NEW x \in 1..d.count,
         NEW n, n = d.count + 1
  PROVE  /\ (x \in C \/ Cardinality(C) >= MaxChildren \/ Cardinality(d.nodes[x].parents) >= MaxParents)
           => ConnectNodes(Joined(d, o, order, P, C, N), x, n) = Joined(d, o, order, P, C, N)
         /\ ~ (x \in C \/ Cardinality(C) >= MaxChildren \/ Cardinality(d.nodes[x].parents) >= MaxParents)
           => ConnectNodes(Joined(d, o, order, P, C, N), x, n) =
                Joined(d, o, order, P, C \cup {x}, N)
<1> DEFINE J == Joined(d, o, order, P, C, N)
           K == Joined(d, o, order, P, C \cup {x}, N)
<1>1. x \in 1..n /\ n \in 1..n /\ x # n
  BY DEF DagType
<1>2. /\ J[n].children = C
      /\ n \in J[x].parents <=> x \in C
      /\ x \notin C => J[x].parents = d.nodes[x].parents
  <2>1. n \notin d.nodes[x].parents
    BY <1>1, NodeFields
  <2>2. QED
    BY <1>1, <2>1 DEF Joined, Joint
<1>3. CASE \/ x \in C \/ Cardinality(C) >= MaxChildren
           \/ Cardinality(d.nodes[x].parents) >= MaxParents
  <2>1. ConnectNodes(J, x, n) = J
    <3> HIDE DEF J
    <3>1. QED
      BY <1>2, <1>3 DEF ConnectNodes
  <2>2. QED
    BY <1>3, <2>1
<1>4. CASE ~ (\/ x \in C \/ Cardinality(C) >= MaxChildren
              \/ Cardinality(d.nodes[x].parents) >= MaxParents)
  <2> DEFINE R == [J EXCEPT ![x].parents = @ \cup {n}, ![n].children = @ \cup {x}]
  <2>1. ConnectNodes(J, x, n) = R
    <3> HIDE DEF J
    <3>1. QED
      BY <1>2, <1>4 DEF ConnectNodes
  <2>2. ASSUME NEW e \in 1..n  PROVE R[e] = K[e]
    <3> DEFINE j == Joint(d, o, order, P, C, N, e)
               k == Joint(d, o, order, P, C \cup {x}, N, e)
    <3>1. J[e] = j /\ K[e] = k
      BY DEF Joined
    <3>2. R[e] = IF e = n THEN [j EXCEPT !.children = @ \cup {x}]
                 ELSE IF e = x THEN [j EXCEPT !.parents = @ \cup {n}] ELSE j
      BY <1>1 DEF Joined
    <3>3. j \in NodeType(n) /\ k \in NodeType(n)
      <4>1. C \cup {x} \in Links(d)
        BY DEF Links
      <4>2. QED
        BY <4>1, JointType
    <3>4. CASE e = n
      <4>1. /\ k.children = j.children \cup {x}
            /\ k.op = j.op /\ k.order = j.order /\ k.parents = j.parents
            /\ k.neighbors = j.neighbors /\ k.headCandidate = j.headCandidate
            /\ k.processed = j.processed /\ k.applied = j.applied /\ k.failed = j.failed
        BY <3>4 DEF Joint
      <4> HIDE DEF j, k, R, K
      <4>2. k = [j EXCEPT !.children = j.children \cup {x}]
        BY <3>3, <4>1 DEF NodeType
      <4>3. QED
        BY <3>1, <3>2, <3>4, <4>2
    <3>5. CASE e = x
      <4>1. /\ k.parents = j.parents \cup {n}
            /\ k.op = j.op /\ k.order = j.order /\ k.children = j.children
            /\ k.neighbors = j.neighbors /\ k.headCandidate = j.headCandidate
            /\ k.processed = j.processed /\ k.applied = j.applied /\ k.failed = j.failed
        BY <1>1, <1>4, <3>5 DEF Joint
      <4> HIDE DEF j, k, R, K
      <4>2. k = [j EXCEPT !.parents = j.parents \cup {n}]
        BY <3>3, <4>1 DEF NodeType
      <4>3. QED
        BY <1>1, <3>1, <3>2, <3>5, <4>2
    <3>6. CASE e # n /\ e # x
      BY <3>1, <3>2, <3>6 DEF Joint
    <3>7. QED
      BY <3>4, <3>5, <3>6
  <2>3. R = K
    BY <2>2 DEF Joined
  <2>4. QED
    BY <1>4, <2>1, <2>3
<1>5. QED
  BY <1>3, <1>4

\* connect_neighbors of the new node with x.
LEMMA JoinNeighbor ==
  ASSUME NEW d, DagType(d), NEW o \in Operations, NEW order \in Nat,
         NEW P \in Links(d), NEW C \in Links(d), NEW N \in Links(d), NEW x \in 1..d.count,
         NEW n, n = d.count + 1
  PROVE  /\ (x \in N \/ Cardinality(N) >= MaxChildren \/ Cardinality(d.nodes[x].neighbors) >= MaxChildren)
           => ConnectNeighbors(Joined(d, o, order, P, C, N), n, x) = Joined(d, o, order, P, C, N)
         /\ ~ (x \in N \/ Cardinality(N) >= MaxChildren \/ Cardinality(d.nodes[x].neighbors) >= MaxChildren)
           => ConnectNeighbors(Joined(d, o, order, P, C, N), n, x) =
                Joined(d, o, order, P, C, N \cup {x})
<1> DEFINE J == Joined(d, o, order, P, C, N)
           K == Joined(d, o, order, P, C, N \cup {x})
<1>1. x \in 1..n /\ n \in 1..n /\ x # n
  BY DEF DagType
<1>2. /\ J[n].neighbors = N
      /\ x \notin N => J[x].neighbors = d.nodes[x].neighbors
  BY <1>1 DEF Joined, Joint
<1>3. CASE \/ x \in N \/ Cardinality(N) >= MaxChildren
           \/ Cardinality(d.nodes[x].neighbors) >= MaxChildren
  <2>1. ConnectNeighbors(J, n, x) = J
    <3> HIDE DEF J
    <3>1. QED
      BY <1>2, <1>3 DEF ConnectNeighbors
  <2>2. QED
    BY <1>3, <2>1
<1>4. CASE ~ (\/ x \in N \/ Cardinality(N) >= MaxChildren
              \/ Cardinality(d.nodes[x].neighbors) >= MaxChildren)
  <2> DEFINE R == [J EXCEPT ![n].neighbors = @ \cup {x}, ![x].neighbors = @ \cup {n}]
  <2>1. ConnectNeighbors(J, n, x) = R
    <3> HIDE DEF J
    <3>1. QED
      BY <1>2, <1>4 DEF ConnectNeighbors
  <2>2. ASSUME NEW e \in 1..n  PROVE R[e] = K[e]
    <3> DEFINE j == Joint(d, o, order, P, C, N, e)
               k == Joint(d, o, order, P, C, N \cup {x}, e)
    <3>1. J[e] = j /\ K[e] = k
      BY DEF Joined
    <3>2. R[e] = IF e = n THEN [j EXCEPT !.neighbors = @ \cup {x}]
                 ELSE IF e = x THEN [j EXCEPT !.neighbors = @ \cup {n}] ELSE j
      BY <1>1 DEF Joined
    <3>3. j \in NodeType(n) /\ k \in NodeType(n)
      <4>1. N \cup {x} \in Links(d)
        BY DEF Links
      <4>2. QED
        BY <4>1, JointType
    <3>4. CASE e = n
      <4>1. /\ k.neighbors = j.neighbors \cup {x}
            /\ k.op = j.op /\ k.order = j.order /\ k.children = j.children
            /\ k.parents = j.parents /\ k.headCandidate = j.headCandidate
            /\ k.processed = j.processed /\ k.applied = j.applied /\ k.failed = j.failed
        BY <3>4 DEF Joint
      <4> HIDE DEF j, k, R, K
      <4>2. k = [j EXCEPT !.neighbors = j.neighbors \cup {x}]
        BY <3>3, <4>1 DEF NodeType
      <4>3. QED
        BY <3>1, <3>2, <3>4, <4>2
    <3>5. CASE e = x
      <4>1. /\ k.neighbors = j.neighbors \cup {n}
            /\ k.op = j.op /\ k.order = j.order /\ k.parents = j.parents
            /\ k.children = j.children /\ k.headCandidate = j.headCandidate
            /\ k.processed = j.processed /\ k.applied = j.applied /\ k.failed = j.failed
        BY <1>1, <1>4, <3>5 DEF Joint
      <4> HIDE DEF j, k, R, K
      <4>2. k = [j EXCEPT !.neighbors = j.neighbors \cup {n}]
        BY <3>3, <4>1 DEF NodeType
      <4>3. QED
        BY <1>1, <3>1, <3>2, <3>5, <4>2
    <3>6. CASE e # n /\ e # x
      BY <3>1, <3>2, <3>6 DEF Joint
    <3>7. QED
      BY <3>4, <3>5, <3>6
  <2>3. R = K
    BY <2>2 DEF Joined
  <2>4. QED
    BY <1>4, <2>1, <2>3
<1>5. QED
  BY <1>3, <1>4

-----------------------------------------------------------------------------
\* The positions of the second loop, and where it meets a node first.
LEMMA ScanPositions ==
  ASSUME NEW d, DagType(d), HasRoom(d)
  PROVE  /\ ScanEnd(d) \in Nat
         /\ \A i \in 1..ScanEnd(d) :
               /\ ScanEntry(d, i) \in 1..d.count + 1
               /\ ScanEntry(d, i) # d.count + 1 => ScanEntry(d, i) \in Scanned(d)
         /\ \A e \in Scanned(d) :
               /\ e \in 1..d.count
               /\ ScanPlace(d, e) \in 1..ScanEnd(d)
               /\ ScanEntry(d, ScanPlace(d, e)) = e
               /\ \A j \in 1..ScanEnd(d) : ScanEntry(d, j) = e => ScanPlace(d, e) <= j
<1>1. d.count \in Nat /\ MaxDagNodes \in Nat \ {0} /\ NearFirst \in Nat /\ NearScan \in Nat
  BY MerkleDagAssumption DEF DagType, HasRoom
<1>2. CASE ~ (d.count + 1 > NearScan)
  BY <1>1, <1>2 DEF ScanEnd, ScanEntry, ScanPlace, Scanned
<1>3. CASE d.count + 1 > NearScan
  <2> DEFINE L == NewLatest(d)
             n == d.count + 1
             V == 1..ScanEnd(d)
  <2>1. L \in Seq(1..n) /\ Len(L) \in Nat \ {0}
    <3>1. L \in Seq(1..n) /\ Len(L) \in {Len(d.latest), Len(d.latest) + 1}
      BY LatestTyped
    <3>2. Len(d.latest) \in Nat
      BY DEF DagType
    <3>3. Len(d.latest) = 0 => Len(L) = 1
      <4>1. ASSUME Len(d.latest) = 0  PROVE L = Append(d.latest, d.count + 1)
        BY <1>1, <4>1 DEF NewLatest
      <4>2. d.latest \in Seq(1..d.count + 1) /\ d.count + 1 \in 1..d.count + 1
        BY <1>1, LatestTyped
      <4> DEFINE longer == Append(d.latest, d.count + 1)
      <4>3. Len(longer) = Len(d.latest) + 1
        BY <4>2, AppendProperties
      <4> HIDE DEF longer
      <4>4. QED
        BY <4>1, <4>3
    <3> DEFINE old == Len(d.latest)
               new == Len(L)
    <3>4. new \in {old, old + 1} /\ old \in Nat /\ (old = 0 => new = 1)
      BY <3>1, <3>2, <3>3
    <3> HIDE DEF old, new
    <3>5. new \in Nat \ {0}
      BY <3>4
    <3>6. QED
      BY <3>1, <3>5 DEF new
  <2>2. ScanEnd(d) = IF NearFirst < Len(NewLatest(d)) - 1 THEN NearFirst
                     ELSE Len(NewLatest(d)) - 1
    BY <1>3 DEF ScanEnd
  <2> HIDE DEF L
  <2>3. ScanEnd(d) \in Nat /\ Visible(L) = V /\ V \subseteq 1..Len(L)
    <3>1. ScanEnd(d) = IF NearFirst < Len(L) - 1 THEN NearFirst ELSE Len(L) - 1
      BY <2>2 DEF L
    <3>2. ScanEnd(d) \in Nat /\ V \subseteq 1..Len(L)
      BY <1>1, <2>1, <3>1
    <3>3. \A i \in 1..Len(L) : i \in V <=> i <= NearFirst /\ i < Len(L)
      BY <1>1, <2>1, <3>1
    <3> HIDE DEF V
    <3>4. QED
      BY <3>2, <3>3 DEF Visible
  <2>4. \A i \in V : ScanEntry(d, i) = L[i] /\ L[i] \in 1..n
    <3>1. \A i \in 1..Len(L) : L[i] \in 1..n
      BY <2>1, ElementOfSeq
    <3>2. \A i : ScanEntry(d, i) = L[i]
      BY <1>3 DEF ScanEntry, L
    <3>3. QED
      BY <2>3, <3>1, <3>2
  <2>5. Scanned(d) = {L[i] : i \in V} \ {n}
    <3>1. Scanned(d) = {L[i] : i \in Visible(L)} \ {n}
      BY <1>3 DEF Scanned, L
    <3>2. QED
      BY <2>3, <3>1
  <2>6. \A i \in V : ScanEntry(d, i) # n => ScanEntry(d, i) \in Scanned(d)
    BY <2>4, <2>5
  <2>7. ASSUME NEW e \in Scanned(d)
        PROVE  /\ e \in 1..d.count
               /\ ScanPlace(d, e) \in V
               /\ ScanEntry(d, ScanPlace(d, e)) = e
               /\ \A j \in V : ScanEntry(d, j) = e => ScanPlace(d, e) <= j
    <3> DEFINE I == {i \in V : L[i] = e}
               first(i) == L[i] = e /\ \A j \in 1..i-1 : L[j] # e
    <3>1. I # {} /\ I \in SUBSET Nat
      BY <2>3, <2>5
    <3>2. PICK m \in I : \A k \in I : m <= k
      <4> HIDE DEF I
      <4>1. QED
        BY <3>1, Least
    <3>3. first(m)
      <4>1. ASSUME NEW j \in 1..m-1, L[j] = e  PROVE FALSE
        <5>1. j \in V /\ j < m
          BY <2>3
        <5>2. j \in I
          BY <4>1, <5>1
        <5>3. QED
          BY <3>2, <5>1, <5>2
      <4>2. QED
        BY <4>1
    <3>4. ASSUME NEW i \in V, first(i)  PROVE i = m
      <4>1. m <= i
        BY <3>2, <3>4
      <4>2. m \notin 1..i-1
        BY <3>2, <3>4
      <4>3. QED
        BY <2>3, <4>1, <4>2
    <3>5. ScanPlace(d, e) = CHOOSE i \in V : first(i)
      BY <1>3, <2>3 DEF ScanPlace, L
    <3>6. ScanPlace(d, e) = m
      <4> HIDE DEF first
      <4>1. QED
        BY <3>2, <3>3, <3>4, <3>5
    <3>7. e \in 1..d.count
      BY <1>1, <2>4, <2>5
    <3>8. QED
      BY <2>4, <3>2, <3>6, <3>7
  <2>8. QED
    BY <2>3, <2>4, <2>6, <2>7
<1>4. QED
  BY <1>2, <1>3

-----------------------------------------------------------------------------
(***************************************************************************)
(* Whom each call of connect_* may take, and when the loops come to them:  *)
(* at a negative time in the bucket, at a position in the scan.            *)
(***************************************************************************)
ParentsWith(d, o, order) ==
  {e \in Rivals(d, o) : /\ order > d.nodes[e].order
                        /\ Cardinality(d.nodes[e].children) < MaxChildren}

ChildrenWith(d, o, order) ==
  {e \in Rivals(d, o) : /\ order <= d.nodes[e].order
                        /\ Cardinality(d.nodes[e].parents) < MaxParents}

NeighborsWith(d, o) ==
  {e \in InBucket(d, o) \cup Scanned(d) : /\ ~ IsConflict(o, d.nodes[e].op)
                                          /\ Cardinality(d.nodes[e].neighbors) < MaxChildren}

Down(S) == [e \in S |-> -e]

Time(d, o) ==
  [e \in NeighborsWith(d, o) |-> IF e \in InBucket(d, o) THEN -e ELSE ScanPlace(d, e)]

\* What FirstByNext asks of a rank, for the newest nodes of a set.
LEMMA DownFacts ==
  ASSUME NEW n \in Nat, NEW S \in SUBSET (1..n)
  PROVE  Ranked(S, Down(S)) /\ \A x \in S : Down(S)[x] = -x
<1>1. IsFiniteSet(S)
  BY NodesFinite
<1>2. \A x \in S : x \in Int /\ Down(S)[x] = -x
  BY DEF Down
<1>3. QED
  BY <1>1, <1>2 DEF Ranked

\* The same for the neighbors, which two loops offer.
LEMMA TimeFacts ==
  ASSUME NEW d, DagType(d), HasRoom(d), NEW o
  PROVE  /\ NeighborsWith(d, o) \in SUBSET (1..d.count)
         /\ Ranked(NeighborsWith(d, o), Time(d, o))
         /\ \A x \in NeighborsWith(d, o) :
               /\ x \in InBucket(d, o) => Time(d, o)[x] = -x
               /\ x \notin InBucket(d, o) => /\ Time(d, o)[x] = ScanPlace(d, x)
                                             /\ x \in Scanned(d)
<1>1. d.count \in Nat /\ InBucket(d, o) \subseteq 1..d.count
  BY DEF DagType, InBucket
<1>2. Scanned(d) \subseteq 1..d.count
  BY ScanPositions
<1>3. NeighborsWith(d, o) \in SUBSET (1..d.count)
  BY <1>1, <1>2 DEF NeighborsWith
<1>4. IsFiniteSet(NeighborsWith(d, o))
  BY <1>1, <1>3, NodesFinite
<1>5. ASSUME NEW x \in NeighborsWith(d, o)
      PROVE  /\ x \in InBucket(d, o) => Time(d, o)[x] = -x /\ x \in 1..d.count
             /\ x \notin InBucket(d, o) => Time(d, o)[x] = ScanPlace(d, x) /\ x \in Scanned(d)
  BY <1>3 DEF Time, NeighborsWith
<1>6. \A x \in Scanned(d) : /\ ScanPlace(d, x) \in 1..ScanEnd(d)
                            /\ ScanEntry(d, ScanPlace(d, x)) = x
  BY ScanPositions
<1>7. ASSUME NEW x \in NeighborsWith(d, o), NEW y \in NeighborsWith(d, o),
             Time(d, o)[x] = Time(d, o)[y]
      PROVE  x = y
  <2>1. CASE x \in InBucket(d, o) /\ y \in InBucket(d, o)
    BY <1>5, <1>7, <2>1
  <2>2. CASE x \notin InBucket(d, o) /\ y \notin InBucket(d, o)
    BY <1>5, <1>6, <1>7, <2>2
  <2>3. CASE x \in InBucket(d, o) /\ y \notin InBucket(d, o)
    BY <1>5, <1>6, <1>7, <2>3
  <2>4. CASE x \notin InBucket(d, o) /\ y \in InBucket(d, o)
    BY <1>5, <1>6, <1>7, <2>4
  <2>5. QED
    BY <2>1, <2>2, <2>3, <2>4
<1>8. \A x \in NeighborsWith(d, o) : Time(d, o)[x] \in Int
  BY <1>5, <1>6
<1>9. QED
  BY <1>3, <1>4, <1>5, <1>7, <1>8 DEF Ranked

\* The loop stores x as a parent exactly when x is one of the parents picked.
LEMMA MeetParent ==
  ASSUME NEW d, DagType(d), NEW o \in Operations, NEW order \in Nat,
         NEW C \in Links(d), NEW N \in Links(d), NEW n, n = d.count + 1,
         NEW x \in Rivals(d, o), order > d.nodes[x].order, NEW r, r = -x, NEW q, q = r - 1,
         NEW S, S = ParentsWith(d, o, order), NEW P, P = NewParents(d, o, order),
         NEW M, M = Met(P, Down(S), q)
  PROVE  ConnectNodes(Joined(d, o, order, M, C, N), n, x) =
           Joined(d, o, order, Met(P, Down(S), r), C, N)
<1>1. /\ d.count \in Nat /\ S \in SUBSET (1..d.count) /\ x \in 1..d.count
      /\ MaxParents \in Nat /\ r \in Int
  BY MerkleDagAssumption DEF DagType, ParentsWith, Rivals
<1>2. P = FirstBy(S, Down(S), MaxParents)
  BY DEF NewParents, Newest, Down, ParentsWith
<1>3. Ranked(S, Down(S)) /\ \A y \in S : Down(S)[y] = -y
  BY <1>1, DownFacts
<1>4. P \in Links(d) /\ M \in Links(d)
  BY NewParentsFacts DEF Links, Met
<1>5. Cardinality(d.nodes[x].children) \in Nat /\ MaxChildren \in Nat
  BY <1>1, NodeFields, NodesFinite, MerkleDagAssumption
<1>6. x \in S <=> ~ (Cardinality(d.nodes[x].children) >= MaxChildren)
  BY <1>5 DEF ParentsWith
<1>7. Due(S, Down(S), r, x)
  BY <1>1, <1>3 DEF Due
<1>8. /\ x \notin S => Met(P, Down(S), r) = M
      /\ x \in S /\ (x \in M \/ Cardinality(M) >= MaxParents) => Met(P, Down(S), r) = M
      /\ x \in S /\ ~ (x \in M \/ Cardinality(M) >= MaxParents)
           => Met(P, Down(S), r) = M \cup {x}
  <2>1. MaxParents \in Nat
    BY <1>1
  <2>2. r \in Int
    BY <1>1
  <2>3. Ranked(S, Down(S))
    BY <1>3
  <2>4. x \notin S => Met(P, Down(S), r) = M
    BY <1>2, <1>7, <2>1, <2>2, <2>3, MeetNone
  <2>5. x \in S /\ (x \in M \/ Cardinality(M) >= MaxParents) => Met(P, Down(S), r) = M
    BY <1>2, <1>7, <2>1, <2>2, <2>3, MeetNext
  <2>6. x \in S /\ ~ (x \in M \/ Cardinality(M) >= MaxParents) => Met(P, Down(S), r) = M \cup {x}
    BY <1>2, <1>7, <2>1, <2>2, <2>3, MeetNext
  <2>7. QED
    BY <2>4, <2>5, <2>6
<1>9. /\ (x \in M \/ Cardinality(M) >= MaxParents \/ Cardinality(d.nodes[x].children) >= MaxChildren)
           => ConnectNodes(Joined(d, o, order, M, C, N), n, x) = Joined(d, o, order, M, C, N)
      /\ ~ (x \in M \/ Cardinality(M) >= MaxParents \/ Cardinality(d.nodes[x].children) >= MaxChildren)
           => ConnectNodes(Joined(d, o, order, M, C, N), n, x) =
                Joined(d, o, order, M \cup {x}, C, N)
  <2>1. x \in 1..d.count
    BY <1>1
  <2>2. M \in Links(d)
    BY <1>4
  <2>3. QED
    BY <2>1, <2>2, JoinParent
<1>10. QED
  BY <1>6, <1>8, <1>9

\* The loop stores x as a child exactly when x is one of the children picked.
LEMMA MeetChild ==
  ASSUME NEW d, DagType(d), NEW o \in Operations, NEW order \in Nat,
         NEW P \in Links(d), NEW N \in Links(d), NEW n, n = d.count + 1,
         NEW x \in Rivals(d, o), order <= d.nodes[x].order, NEW r, r = -x, NEW q, q = r - 1,
         NEW S, S = ChildrenWith(d, o, order), NEW C, C = NewChildren(d, o, order),
         NEW M, M = Met(C, Down(S), q)
  PROVE  ConnectNodes(Joined(d, o, order, P, M, N), x, n) =
           Joined(d, o, order, P, Met(C, Down(S), r), N)
<1>1. /\ d.count \in Nat /\ S \in SUBSET (1..d.count) /\ x \in 1..d.count
      /\ MaxChildren \in Nat /\ r \in Int
  BY MerkleDagAssumption DEF DagType, ChildrenWith, Rivals
<1>2. C = FirstBy(S, Down(S), MaxChildren)
  BY DEF NewChildren, Newest, Down, ChildrenWith
<1>3. Ranked(S, Down(S)) /\ \A y \in S : Down(S)[y] = -y
  BY <1>1, DownFacts
<1>4. C \in Links(d) /\ M \in Links(d)
  BY NewChildrenFacts DEF Links, Met
<1>5. Cardinality(d.nodes[x].parents) \in Nat /\ MaxParents \in Nat
  BY <1>1, NodeFields, NodesFinite, MerkleDagAssumption
<1>6. x \in S <=> ~ (Cardinality(d.nodes[x].parents) >= MaxParents)
  BY <1>5 DEF ChildrenWith
<1>7. Due(S, Down(S), r, x)
  BY <1>1, <1>3 DEF Due
<1>8. /\ x \notin S => Met(C, Down(S), r) = M
      /\ x \in S /\ (x \in M \/ Cardinality(M) >= MaxChildren) => Met(C, Down(S), r) = M
      /\ x \in S /\ ~ (x \in M \/ Cardinality(M) >= MaxChildren)
           => Met(C, Down(S), r) = M \cup {x}
  <2>1. MaxChildren \in Nat
    BY <1>1
  <2>2. r \in Int
    BY <1>1
  <2>3. Ranked(S, Down(S))
    BY <1>3
  <2>4. x \notin S => Met(C, Down(S), r) = M
    BY <1>2, <1>7, <2>1, <2>2, <2>3, MeetNone
  <2>5. x \in S /\ (x \in M \/ Cardinality(M) >= MaxChildren) => Met(C, Down(S), r) = M
    BY <1>2, <1>7, <2>1, <2>2, <2>3, MeetNext
  <2>6. x \in S /\ ~ (x \in M \/ Cardinality(M) >= MaxChildren) => Met(C, Down(S), r) = M \cup {x}
    BY <1>2, <1>7, <2>1, <2>2, <2>3, MeetNext
  <2>7. QED
    BY <2>4, <2>5, <2>6
<1>9. /\ (x \in M \/ Cardinality(M) >= MaxChildren \/ Cardinality(d.nodes[x].parents) >= MaxParents)
           => ConnectNodes(Joined(d, o, order, P, M, N), x, n) = Joined(d, o, order, P, M, N)
      /\ ~ (x \in M \/ Cardinality(M) >= MaxChildren \/ Cardinality(d.nodes[x].parents) >= MaxParents)
           => ConnectNodes(Joined(d, o, order, P, M, N), x, n) =
                Joined(d, o, order, P, M \cup {x}, N)
  <2>1. x \in 1..d.count
    BY <1>1
  <2>2. M \in Links(d)
    BY <1>4
  <2>3. QED
    BY <2>1, <2>2, JoinChild
<1>10. QED
  BY <1>6, <1>8, <1>9

Before(q, r) == q = r - 1

\* The loops store x as a neighbor exactly when x is one of the neighbors picked.
LEMMA MeetNeighbor ==
  ASSUME NEW d, DagType(d), HasRoom(d), NEW o \in Operations, NEW order \in Nat,
         NEW P \in Links(d), NEW C \in Links(d), NEW n, n = d.count + 1,
         NEW r \in Int, NEW q, Before(q, r),
         NEW x \in InBucket(d, o) \cup Scanned(d), ~ IsConflict(o, d.nodes[x].op),
         NEW S, S = NeighborsWith(d, o), NEW rank, rank = Time(d, o), Due(S, rank, r, x),
         NEW N, N = NewNeighbors(d, o), NEW M, M = Met(N, rank, q)
  PROVE  ConnectNeighbors(Joined(d, o, order, P, C, M), n, x) =
           Joined(d, o, order, P, C, Met(N, rank, r))
<1>1. d.count \in Nat /\ x \in 1..d.count /\ MaxChildren \in Nat
  <2>1. d.count \in Nat /\ InBucket(d, o) \subseteq 1..d.count
    BY DEF DagType, InBucket
  <2>2. \A e \in Scanned(d) : e \in 1..d.count
    BY ScanPositions
  <2>3. QED
    BY <2>1, <2>2, MerkleDagAssumption
<1>2. N = FirstBy(S, rank, MaxChildren)
  BY DEF NewNeighbors, Time, NeighborsWith
<1>3. Ranked(S, rank)
  BY TimeFacts
<1>4. M \in Links(d)
  BY NewNeighborsTyped DEF Links, Met
<1>5. Cardinality(d.nodes[x].neighbors) \in Nat
  BY <1>1, NodeFields, NodesFinite
<1>6. x \in S <=> ~ (Cardinality(d.nodes[x].neighbors) >= MaxChildren)
  BY <1>1, <1>5 DEF NeighborsWith
<1>8. /\ x \notin S => Met(N, rank, r) = M
      /\ x \in S /\ (x \in M \/ Cardinality(M) >= MaxChildren) => Met(N, rank, r) = M
      /\ x \in S /\ ~ (x \in M \/ Cardinality(M) >= MaxChildren)
           => Met(N, rank, r) = M \cup {x}
  <2>1. MaxChildren \in Nat /\ q = r - 1
    BY <1>1 DEF Before
  <2>2. x \notin S => Met(N, rank, r) = M
    BY <1>2, <1>3, <2>1, MeetNone
  <2>3. x \in S /\ (x \in M \/ Cardinality(M) >= MaxChildren) => Met(N, rank, r) = M
    BY <1>2, <1>3, <2>1, MeetNext
  <2>4. x \in S /\ ~ (x \in M \/ Cardinality(M) >= MaxChildren) => Met(N, rank, r) = M \cup {x}
    BY <1>2, <1>3, <2>1, MeetNext
  <2>5. QED
    BY <2>2, <2>3, <2>4
<1>9. /\ (x \in M \/ Cardinality(M) >= MaxChildren \/ Cardinality(d.nodes[x].neighbors) >= MaxChildren)
           => ConnectNeighbors(Joined(d, o, order, P, C, M), n, x) = Joined(d, o, order, P, C, M)
      /\ ~ (x \in M \/ Cardinality(M) >= MaxChildren \/ Cardinality(d.nodes[x].neighbors) >= MaxChildren)
           => ConnectNeighbors(Joined(d, o, order, P, C, M), n, x) =
                Joined(d, o, order, P, C, M \cup {x})
  <2>1. x \in 1..d.count
    BY <1>1
  <2>2. M \in Links(d)
    BY <1>4
  <2>3. QED
    BY <2>1, <2>2, JoinNeighbor
<1>10. QED
  BY <1>6, <1>8, <1>9

-----------------------------------------------------------------------------
\* The node array when the loops have come to time r.
Wired(d, o, order, r) ==
  Joined(d, o, order,
         Met(NewParents(d, o, order), Down(ParentsWith(d, o, order)), r),
         Met(NewChildren(d, o, order), Down(ChildrenWith(d, o, order)), r),
         Met(NewNeighbors(d, o), Time(d, o), r))

\* The three arrays of the new node, as selections.
LEMMA Selections ==
  ASSUME NEW d, DagType(d), NEW o, NEW order
  PROVE  /\ NewParents(d, o, order)
              = FirstBy(ParentsWith(d, o, order), Down(ParentsWith(d, o, order)), MaxParents)
         /\ NewChildren(d, o, order)
              = FirstBy(ChildrenWith(d, o, order), Down(ChildrenWith(d, o, order)), MaxChildren)
         /\ NewNeighbors(d, o) = FirstBy(NeighborsWith(d, o), Time(d, o), MaxChildren)
         /\ ParentsWith(d, o, order) \in SUBSET (1..d.count)
         /\ ChildrenWith(d, o, order) \in SUBSET (1..d.count)
         /\ d.count \in Nat /\ MaxParents \in Nat /\ MaxChildren \in Nat
<1>1. d.count \in Nat /\ MaxParents \in Nat /\ MaxChildren \in Nat
  BY MerkleDagAssumption DEF DagType
<1>2. Rivals(d, o) \subseteq 1..d.count
  BY DEF DagType, Rivals
<1>3. /\ ParentsWith(d, o, order) \in SUBSET (1..d.count)
      /\ ChildrenWith(d, o, order) \in SUBSET (1..d.count)
  BY <1>2 DEF ParentsWith, ChildrenWith
<1>4. NewParents(d, o, order)
        = FirstBy(ParentsWith(d, o, order), Down(ParentsWith(d, o, order)), MaxParents)
  BY DEF NewParents, Newest, Down, ParentsWith
<1>5. NewChildren(d, o, order)
        = FirstBy(ChildrenWith(d, o, order), Down(ChildrenWith(d, o, order)), MaxChildren)
  BY DEF NewChildren, Newest, Down, ChildrenWith
<1>6. NewNeighbors(d, o) = FirstBy(NeighborsWith(d, o), Time(d, o), MaxChildren)
  BY DEF NewNeighbors, Time, NeighborsWith
<1>7. QED
  BY <1>1, <1>3, <1>4, <1>5, <1>6

\* What is met at any time are links.
LEMMA MetLinks ==
  ASSUME NEW d, DagType(d), NEW o, NEW order, NEW rank, NEW r
  PROVE  /\ Met(NewParents(d, o, order), rank, r) \in Links(d)
         /\ Met(NewChildren(d, o, order), rank, r) \in Links(d)
         /\ Met(NewNeighbors(d, o), rank, r) \in Links(d)
BY NewParentsFacts, NewChildrenFacts, NewNeighborsTyped DEF Met, Links

\* At a time at which nobody is due nothing changes.
LEMMA NobodyDue ==
  ASSUME NEW d, DagType(d), HasRoom(d), NEW o, NEW order,
         NEW r \in Int, NEW q, q = r - 1
  PROVE  /\ (\A y \in ParentsWith(d, o, order) : -y # r) =>
              Met(NewParents(d, o, order), Down(ParentsWith(d, o, order)), r)
                = Met(NewParents(d, o, order), Down(ParentsWith(d, o, order)), q)
         /\ (\A y \in ChildrenWith(d, o, order) : -y # r) =>
              Met(NewChildren(d, o, order), Down(ChildrenWith(d, o, order)), r)
                = Met(NewChildren(d, o, order), Down(ChildrenWith(d, o, order)), q)
         /\ (\A y \in NeighborsWith(d, o) : Time(d, o)[y] # r) =>
              Met(NewNeighbors(d, o), Time(d, o), r) = Met(NewNeighbors(d, o), Time(d, o), q)
<1>1. ASSUME NEW S \in SUBSET (1..d.count), \A y \in S : -y # r, NEW k \in Nat
      PROVE  Met(FirstBy(S, Down(S), k), Down(S), r) = Met(FirstBy(S, Down(S), k), Down(S), q)
  <2>1. d.count \in Nat
    BY Selections
  <2>2. Ranked(S, Down(S)) /\ \A y \in S : Down(S)[y] = -y
    BY <2>1, DownFacts
  <2>3. Ranked(S, Down(S))
    BY <2>2
  <2>4. 0 \notin S /\ Due(S, Down(S), r, 0)
    BY <1>1, <2>1, <2>2 DEF Due
  <2>5. QED
    BY <2>3, <2>4, MeetNone
<1>2. ASSUME \A y \in NeighborsWith(d, o) : Time(d, o)[y] # r
      PROVE  Met(NewNeighbors(d, o), Time(d, o), r) = Met(NewNeighbors(d, o), Time(d, o), q)
  <2>1. NeighborsWith(d, o) \in SUBSET (1..d.count)
    BY TimeFacts
  <2>2. Ranked(NeighborsWith(d, o), Time(d, o))
    BY TimeFacts
  <2>3. 0 \notin NeighborsWith(d, o)
    BY <2>1
  <2>4. Due(NeighborsWith(d, o), Time(d, o), r, 0)
    BY <1>2, <2>3 DEF Due
  <2>5. NewNeighbors(d, o) = FirstBy(NeighborsWith(d, o), Time(d, o), MaxChildren)
    BY Selections
  <2>6. MaxChildren \in Nat
    BY Selections
  <2>7. QED
    BY <2>2, <2>3, <2>4, <2>5, <2>6, MeetNone
<1>3. QED
  BY <1>1, <1>2, Selections

\* The first loop at the entry of x, and at a node that has no entry here.
LEMMA BucketStep ==
  ASSUME NEW d, DagType(d), HasRoom(d), NEW o \in Operations, NEW order \in Nat,
         NEW x \in 1..d.count, NEW r, r = -x, NEW q, q = r - 1, NEW n, n = d.count + 1
  PROVE  Wired(d, o, order, r) =
           IF x \in InBucket(d, o) THEN MeetEntry(d, o, order, Wired(d, o, order, q), x)
           ELSE Wired(d, o, order, q)
<1> DEFINE PW == ParentsWith(d, o, order)
           CW == ChildrenWith(d, o, order)
           NW == NeighborsWith(d, o)
           P(t) == Met(NewParents(d, o, order), Down(PW), t)
           C(t) == Met(NewChildren(d, o, order), Down(CW), t)
           N(t) == Met(NewNeighbors(d, o), Time(d, o), t)
<1>1. x \in Nat \ {0} /\ r \in Int /\ r < 0
  OBVIOUS
<1>2. /\ P(q) \in Links(d) /\ P(r) \in Links(d) /\ C(q) \in Links(d) /\ C(r) \in Links(d)
      /\ N(q) \in Links(d) /\ N(r) \in Links(d)
  BY MetLinks
<1>3. /\ PW \subseteq Rivals(d, o) /\ CW \subseteq Rivals(d, o)
      /\ Rivals(d, o) \subseteq InBucket(d, o) /\ Rivals(d, o) \subseteq 1..d.count
      /\ \A y \in PW : order > d.nodes[y].order
      /\ \A y \in CW : order <= d.nodes[y].order
      /\ \A y \in Rivals(d, o) : IsConflict(o, d.nodes[y].op)
      /\ \A y \in NW : ~ IsConflict(o, d.nodes[y].op)
  BY DEF ParentsWith, ChildrenWith, NeighborsWith, Rivals, InBucket, IsConflict, DagType
<1>4. \A y \in PW \cup CW : -y = r => y = x
  BY <1>1, <1>3
<1>5. \A y \in NW : Time(d, o)[y] = r => y = x /\ y \in InBucket(d, o)
  <2>1. ASSUME NEW y \in NW, Time(d, o)[y] = r  PROVE y = x /\ y \in InBucket(d, o)
    <3>1. y \in 1..d.count
      BY TimeFacts
    <3>2. CASE y \in InBucket(d, o)
      <4>1. Time(d, o)[y] = -y
        BY <3>2, TimeFacts
      <4>2. QED
        BY <1>1, <2>1, <3>1, <3>2, <4>1
    <3>3. CASE y \notin InBucket(d, o)
      <4>1. Time(d, o)[y] = ScanPlace(d, y) /\ y \in Scanned(d)
        BY <3>3, TimeFacts
      <4>2. ScanPlace(d, y) \in 1..ScanEnd(d)
        BY <4>1, ScanPositions
      <4>3. QED
        BY <1>1, <2>1, <4>1, <4>2
    <3>4. QED
      BY <3>2, <3>3
  <2>2. QED
    BY <2>1
<1>6. /\ x \notin PW => P(r) = P(q)
      /\ x \notin CW => C(r) = C(q)
      /\ x \notin NW \/ x \notin InBucket(d, o) => N(r) = N(q)
  <2>1. x \notin PW => \A y \in PW : -y # r
    BY <1>4
  <2>2. x \notin CW => \A y \in CW : -y # r
    BY <1>4
  <2>3. x \notin NW \/ x \notin InBucket(d, o) => \A y \in NW : Time(d, o)[y] # r
    BY <1>5
  <2>4. QED
    BY <1>1, <2>1, <2>2, <2>3, NobodyDue
<1>7. /\ Wired(d, o, order, r) = Joined(d, o, order, P(r), C(r), N(r))
      /\ Wired(d, o, order, q) = Joined(d, o, order, P(q), C(q), N(q))
  BY DEF Wired
<1>8. CASE x \notin InBucket(d, o)
  BY <1>3, <1>6, <1>7, <1>8
<1>9. CASE x \in InBucket(d, o) /\ ~ IsConflict(o, d.nodes[x].op)
  <2>1. P(r) = P(q) /\ C(r) = C(q)
    BY <1>3, <1>6, <1>9
  <2>2. Due(NW, Time(d, o), r, x)
    <3>1. x \in NW => Time(d, o)[x] = -x
      BY <1>9, TimeFacts
    <3>2. QED
      BY <1>1, <1>5, <3>1 DEF Due
  <2>3. x \in InBucket(d, o) \cup Scanned(d)
    BY <1>9
  <2>4. ConnectNeighbors(Joined(d, o, order, P(q), C(q), N(q)), n, x) =
          Joined(d, o, order, P(q), C(q), N(r))
    <3>1. P(q) \in Links(d)
      BY <1>2
    <3>2. C(q) \in Links(d)
      BY <1>2
    <3>3. r \in Int
      BY <1>1
    <3>4. ~ IsConflict(o, d.nodes[x].op)
      BY <1>9
    <3>5. Before(q, r)
      BY DEF Before
    <3>6. QED
      BY <2>2, <2>3, <3>5, <3>1, <3>2, <3>3, <3>4, MeetNeighbor
  <2>5. MeetEntry(d, o, order, Wired(d, o, order, q), x) =
          ConnectNeighbors(Wired(d, o, order, q), n, x)
    BY <1>9 DEF MeetEntry
  <2>6. QED
    BY <1>7, <1>9, <2>1, <2>4, <2>5
<1>10. CASE x \in InBucket(d, o) /\ IsConflict(o, d.nodes[x].op) /\ order > d.nodes[x].order
  <2>1. x \in Rivals(d, o)
    BY <1>10 DEF Rivals, InBucket
  <2>2. d.nodes[x].order \in Nat
    BY NodeFields
  <2>3. C(r) = C(q) /\ N(r) = N(q)
    BY <1>3, <1>6, <1>10, <2>2
  <2>4. ConnectNodes(Joined(d, o, order, P(q), C(q), N(q)), n, x) =
          Joined(d, o, order, P(r), C(q), N(q))
    BY <1>2, <1>10, <2>1, MeetParent
  <2>5. MeetEntry(d, o, order, Wired(d, o, order, q), x) =
          ConnectNodes(Wired(d, o, order, q), n, x)
    BY <1>10 DEF MeetEntry
  <2>6. QED
    BY <1>7, <1>10, <2>3, <2>4, <2>5
<1>11. CASE x \in InBucket(d, o) /\ IsConflict(o, d.nodes[x].op) /\ ~ (order > d.nodes[x].order)
  <2>1. x \in Rivals(d, o)
    BY <1>11 DEF Rivals, InBucket
  <2>2. d.nodes[x].order \in Nat
    BY NodeFields
  <2>3. order <= d.nodes[x].order
    BY <1>11, <2>2
  <2>4. P(r) = P(q) /\ N(r) = N(q)
    BY <1>3, <1>6, <1>11
  <2>5. ConnectNodes(Joined(d, o, order, P(q), C(q), N(q)), x, n) =
          Joined(d, o, order, P(q), C(r), N(q))
    BY <1>2, <2>1, <2>3, MeetChild
  <2>6. MeetEntry(d, o, order, Wired(d, o, order, q), x) =
          ConnectNodes(Wired(d, o, order, q), x, n)
    BY <1>11 DEF MeetEntry
  <2>7. QED
    BY <1>7, <1>11, <2>4, <2>5, <2>6
<1>12. QED
  BY <1>8, <1>9, <1>10, <1>11

\* A selection is made from its set.
LEMMA FirstByFrom ==
  ASSUME NEW S, NEW rank, NEW k
  PROVE  FirstBy(S, rank, k) \subseteq S
BY DEF FirstBy

\* The second loop at position r.
LEMMA ScanStep ==
  ASSUME NEW d, DagType(d), HasRoom(d), NEW o \in Operations, NEW order \in Nat,
         NEW r \in 1..ScanEnd(d), NEW q, q = r - 1, NEW x, x = ScanEntry(d, r),
         NEW n, n = d.count + 1
  PROVE  Wired(d, o, order, r) = MeetOther(d, o, Wired(d, o, order, q), x)
<1> DEFINE PW == ParentsWith(d, o, order)
           CW == ChildrenWith(d, o, order)
           NW == NeighborsWith(d, o)
           P(t) == Met(NewParents(d, o, order), Down(PW), t)
           C(t) == Met(NewChildren(d, o, order), Down(CW), t)
           N(t) == Met(NewNeighbors(d, o), Time(d, o), t)
<1>1. r \in Int /\ r > 0 /\ d.count \in Nat
  BY ScanPositions DEF DagType
<1>2. P(q) = P(r) /\ C(q) = C(r)
  <2>1. \A y \in PW \cup CW : y \in 1..d.count
    BY Selections
  <2>2. (\A y \in PW : -y # r) /\ (\A y \in CW : -y # r)
    BY <1>1, <2>1
  <2>3. QED
    BY <1>1, <2>2, NobodyDue
<1>3. ASSUME NEW y \in NW, Time(d, o)[y] = r
      PROVE  y = x /\ y \notin InBucket(d, o) /\ y \in 1..d.count
  <2>1. y \in 1..d.count
    BY TimeFacts
  <2>2. y \notin InBucket(d, o)
    <3>1. y \in InBucket(d, o) => Time(d, o)[y] = -y
      BY TimeFacts
    <3>2. QED
      BY <1>1, <1>3, <2>1, <3>1
  <2>3. Time(d, o)[y] = ScanPlace(d, y) /\ y \in Scanned(d)
    BY <2>2, TimeFacts
  <2>4. ScanEntry(d, ScanPlace(d, y)) = y
    BY <2>3, ScanPositions
  <2>5. QED
    BY <1>3, <2>1, <2>2, <2>3, <2>4
<1>4. /\ Wired(d, o, order, r) = Joined(d, o, order, P(r), C(r), N(r))
      /\ Wired(d, o, order, q) = Joined(d, o, order, P(q), C(q), N(q))
  BY DEF Wired
<1>5. CASE x = n \/ IsConflict(o, d.nodes[x].op)
  <2>1. x \notin NW
    <3>1. \A y \in NW : ~ IsConflict(o, d.nodes[y].op)
      BY DEF NeighborsWith
    <3>2. \A y \in NW : y \in 1..d.count
      BY TimeFacts
    <3>3. n \notin 1..d.count
      BY <1>1
    <3>4. QED
      BY <1>5, <3>1, <3>2, <3>3
  <2>2. \A y \in NW : Time(d, o)[y] # r
    BY <1>3, <2>1
  <2>3. N(r) = N(q)
    BY <1>1, <2>2, NobodyDue
  <2>4. MeetOther(d, o, Wired(d, o, order, q), x) = Wired(d, o, order, q)
    BY <1>5 DEF MeetOther
  <2>5. QED
    BY <1>2, <1>4, <2>3, <2>4
<1>6. CASE x # n /\ ~ IsConflict(o, d.nodes[x].op)
  <2>1. x \in Scanned(d)
    BY <1>6, ScanPositions
  <2>2. x \in InBucket(d, o) \cup Scanned(d)
    BY <2>1
  <2>3. x \in NW => Time(d, o)[x] <= r
    <3>1. x \in 1..d.count /\ ScanPlace(d, x) <= r
      BY <2>1, ScanPositions
    <3>2. x \in NW => Time(d, o)[x] = -x \/ Time(d, o)[x] = ScanPlace(d, x)
      BY TimeFacts
    <3>3. QED
      BY <1>1, <3>1, <3>2
  <2>4. Due(NW, Time(d, o), r, x)
    BY <1>3, <2>3 DEF Due
  <2>5. ConnectNeighbors(Joined(d, o, order, P(q), C(q), N(q)), n, x) =
          Joined(d, o, order, P(q), C(q), N(r))
    <3>1. P(q) \in Links(d)
      BY MetLinks
    <3>2. C(q) \in Links(d)
      BY MetLinks
    <3>3. r \in Int
      BY <1>1
    <3>4. ~ IsConflict(o, d.nodes[x].op)
      BY <1>6
    <3>5. Before(q, r)
      BY DEF Before
    <3>6. QED
      BY <2>2, <2>4, <3>5, <3>1, <3>2, <3>3, <3>4, MeetNeighbor
  <2>6. MeetOther(d, o, Wired(d, o, order, q), x) =
          ConnectNeighbors(Wired(d, o, order, q), n, x)
    BY <1>6 DEF MeetOther
  <2>7. QED
    BY <1>2, <1>4, <2>5, <2>6
<1>7. QED
  BY <1>5, <1>6

\* Between the loops: nobody is due at time 0.
LEMMA WiredBetween ==
  ASSUME NEW d, DagType(d), HasRoom(d), NEW o, NEW order, NEW q, q = -1
  PROVE  Wired(d, o, order, 0) = Wired(d, o, order, q)
<1>1. q = 0 - 1 /\ 0 \in Int
  OBVIOUS
<1>2. \A y \in ParentsWith(d, o, order) \cup ChildrenWith(d, o, order) : y \in 1..d.count
  BY Selections
<1>3. \A y \in NeighborsWith(d, o) : Time(d, o)[y] # 0
  <2>1. ASSUME NEW y \in NeighborsWith(d, o)  PROVE Time(d, o)[y] # 0
    <3>1. y \in 1..d.count
      BY TimeFacts
    <3>2. y \notin InBucket(d, o) => ScanPlace(d, y) \in 1..ScanEnd(d)
      BY TimeFacts, ScanPositions
    <3>3. Time(d, o)[y] = -y \/ (Time(d, o)[y] = ScanPlace(d, y) /\ y \notin InBucket(d, o))
      BY TimeFacts
    <3>4. QED
      BY <3>1, <3>2, <3>3
  <2>2. QED
    BY <2>1
<1>4. /\ \A y \in ParentsWith(d, o, order) : -y # 0
      /\ \A y \in ChildrenWith(d, o, order) : -y # 0
  BY <1>2
<1>5. QED
  BY <1>1, <1>3, <1>4, NobodyDue DEF Wired

\* Before the first entry no link is made yet.
LEMMA WiredFirst ==
  ASSUME NEW d, DagType(d), HasRoom(d), NEW o \in Operations, NEW order \in Nat,
         NEW n, n = d.count + 1, NEW r, r = -n
  PROVE  Wired(d, o, order, r) =
           [e \in 1..n |-> IF e = n THEN BlankNode(o, order) ELSE d.nodes[e]]
<1>1. d.count \in Nat
  BY DEF DagType
<1>2. /\ \A y \in NewParents(d, o, order) :
           ~ (Down(ParentsWith(d, o, order))[y] <= r)
      /\ \A y \in NewChildren(d, o, order) :
           ~ (Down(ChildrenWith(d, o, order))[y] <= r)
      /\ \A y \in NewNeighbors(d, o) : ~ (Time(d, o)[y] <= r)
  <2>1. ASSUME NEW S \in SUBSET (1..d.count), NEW y \in S  PROVE ~ (Down(S)[y] <= r)
    <3>1. Down(S)[y] = -y /\ y \in 1..d.count
      BY <1>1, DownFacts
    <3>2. QED
      BY <1>1, <3>1
  <2>2. NewParents(d, o, order) \subseteq ParentsWith(d, o, order)
    BY Selections, FirstByFrom
  <2>3. NewChildren(d, o, order) \subseteq ChildrenWith(d, o, order)
    BY Selections, FirstByFrom
  <2>4. NewNeighbors(d, o) \subseteq NeighborsWith(d, o)
    BY Selections, FirstByFrom
  <2>5. ASSUME NEW y \in NeighborsWith(d, o)  PROVE ~ (Time(d, o)[y] <= r)
    <3>1. y \in 1..d.count
      BY TimeFacts
    <3>2. y \notin InBucket(d, o) => ScanPlace(d, y) \in 1..ScanEnd(d)
      BY TimeFacts, ScanPositions
    <3>3. Time(d, o)[y] = -y \/ (Time(d, o)[y] = ScanPlace(d, y) /\ y \notin InBucket(d, o))
      BY TimeFacts
    <3>4. QED
      BY <1>1, <3>1, <3>2, <3>3
  <2>6. QED
    BY <2>1, <2>2, <2>3, <2>4, <2>5, Selections
<1>3. /\ Met(NewParents(d, o, order), Down(ParentsWith(d, o, order)), r) = {}
      /\ Met(NewChildren(d, o, order), Down(ChildrenWith(d, o, order)), r) = {}
      /\ Met(NewNeighbors(d, o), Time(d, o), r) = {}
  BY <1>2 DEF Met
<1>4. Wired(d, o, order, r) = Joined(d, o, order, {}, {}, {})
  BY <1>3 DEF Wired
<1>5. ASSUME NEW e \in 1..n
      PROVE  Joint(d, o, order, {}, {}, {}, e) = IF e = n THEN BlankNode(o, order) ELSE d.nodes[e]
  <2>1. CASE e = n
    BY <2>1 DEF Joint, BlankNode
  <2>2. CASE e # n
    <3> DEFINE x == d.nodes[e]
               y == Joint(d, o, order, {}, {}, {}, e)
    <3>1. x \in NodeType(d.count)
      BY <1>1, <2>2 DEF DagType
    <3>2. y = [op |-> x.op, order |-> x.order, parents |-> x.parents, children |-> x.children,
               neighbors |-> x.neighbors, headCandidate |-> x.headCandidate,
               processed |-> x.processed, applied |-> x.applied, failed |-> x.failed]
      BY <2>2 DEF Joint
    <3> HIDE DEF x, y
    <3>3. x = y
      BY <3>1, <3>2 DEF NodeType
    <3>4. QED
      BY <2>2, <3>3 DEF x, y
  <2>3. QED
    BY <2>1, <2>2
<1>6. QED
  BY <1>4, <1>5 DEF Joined

\* After the last position every link is made.
LEMMA WiredLast ==
  ASSUME NEW d, DagType(d), HasRoom(d), NEW o, NEW order, NEW r, r = ScanEnd(d)
  PROVE  Wired(d, o, order, r) =
           Joined(d, o, order, NewParents(d, o, order), NewChildren(d, o, order), NewNeighbors(d, o))
<1>1. r \in Nat /\ d.count \in Nat
  BY ScanPositions DEF DagType
<1>2. ASSUME NEW S \in SUBSET (1..d.count), NEW y \in S  PROVE Down(S)[y] <= r
  <2>1. Down(S)[y] = -y /\ y \in 1..d.count
    BY <1>1, DownFacts
  <2>2. QED
    BY <1>1, <2>1
<1>3. ASSUME NEW y \in NeighborsWith(d, o)  PROVE Time(d, o)[y] <= r
  <2>1. y \in 1..d.count
    BY TimeFacts
  <2>2. y \notin InBucket(d, o) => ScanPlace(d, y) \in 1..r
    BY TimeFacts, ScanPositions
  <2>3. Time(d, o)[y] = -y \/ (Time(d, o)[y] = ScanPlace(d, y) /\ y \notin InBucket(d, o))
    BY TimeFacts
  <2>4. QED
    BY <1>1, <2>1, <2>2, <2>3
<1>4. /\ NewParents(d, o, order) \subseteq ParentsWith(d, o, order)
      /\ NewChildren(d, o, order) \subseteq ChildrenWith(d, o, order)
      /\ NewNeighbors(d, o) \subseteq NeighborsWith(d, o)
  <2>1. NewParents(d, o, order) \subseteq ParentsWith(d, o, order)
    BY Selections, FirstByFrom
  <2>2. NewChildren(d, o, order) \subseteq ChildrenWith(d, o, order)
    BY Selections, FirstByFrom
  <2>3. NewNeighbors(d, o) \subseteq NeighborsWith(d, o)
    BY Selections, FirstByFrom
  <2>4. QED
    BY <2>1, <2>2, <2>3
<1>5. /\ \A y \in NewParents(d, o, order) : Down(ParentsWith(d, o, order))[y] <= r
      /\ \A y \in NewChildren(d, o, order) : Down(ChildrenWith(d, o, order))[y] <= r
      /\ \A y \in NewNeighbors(d, o) : Time(d, o)[y] <= r
  BY <1>2, <1>3, <1>4, Selections
<1>6. /\ Met(NewParents(d, o, order), Down(ParentsWith(d, o, order)), r) = NewParents(d, o, order)
      /\ Met(NewChildren(d, o, order), Down(ChildrenWith(d, o, order)), r) = NewChildren(d, o, order)
      /\ Met(NewNeighbors(d, o), Time(d, o), r) = NewNeighbors(d, o)
  BY <1>5 DEF Met
<1>7. QED
  BY <1>6 DEF Wired

\* The linked nodes of AddOperation are those that the loops leave.
LEMMA LinkedIsJoined ==
  ASSUME NEW d, DagType(d), HasRoom(d), NEW o \in Operations, NEW order \in Nat,
         NEW n, n = d.count + 1
  PROVE  [e \in 1..n |-> IF e = n THEN NewNode(d, o, order) ELSE Linked(d, o, order, e)] =
           Joined(d, o, order, NewParents(d, o, order), NewChildren(d, o, order), NewNeighbors(d, o))
<1>1. d.count \in Nat
  BY DEF DagType
<1>2. ASSUME NEW e \in 1..n
      PROVE  (IF e = n THEN NewNode(d, o, order) ELSE Linked(d, o, order, e)) =
             Joint(d, o, order, NewParents(d, o, order), NewChildren(d, o, order),
                   NewNeighbors(d, o), e)
  <2>1. CASE e = n
    BY <2>1 DEF Joint, NewNode
  <2>2. CASE e # n
    <3> DEFINE x == Linked(d, o, order, e)
               y == Joint(d, o, order, NewParents(d, o, order), NewChildren(d, o, order),
                          NewNeighbors(d, o), e)
               ends(S, old) == IF e \in S THEN old \cup {n} ELSE old
    <3>1. e \in 1..d.count
      BY <1>1, <2>2
    <3>2. x \in NodeType(n)
      BY <3>1, LinkedType
    <3>3. /\ NewParents(d, o, order) \in Links(d)
          /\ NewChildren(d, o, order) \in Links(d)
          /\ NewNeighbors(d, o) \in Links(d)
      BY NewParentsFacts, NewChildrenFacts, NewNeighborsTyped DEF Links
    <3>4. y \in NodeType(n)
      BY <3>3, JointType
    <3>5. d.nodes[e] \in NodeType(d.count)
      BY <3>1 DEF DagType
    <3>6. /\ x.op = d.nodes[e].op /\ x.order = d.nodes[e].order
          /\ x.parents = ends(NewChildren(d, o, order), d.nodes[e].parents)
          /\ x.children = ends(NewParents(d, o, order), d.nodes[e].children)
          /\ x.neighbors = ends(NewNeighbors(d, o), d.nodes[e].neighbors)
          /\ x.headCandidate = d.nodes[e].headCandidate
          /\ x.processed = d.nodes[e].processed
          /\ x.applied = d.nodes[e].applied /\ x.failed = d.nodes[e].failed
      BY <3>5 DEF Linked, NodeType
    <3>7. /\ y.op = d.nodes[e].op /\ y.order = d.nodes[e].order
          /\ y.parents = ends(NewChildren(d, o, order), d.nodes[e].parents)
          /\ y.children = ends(NewParents(d, o, order), d.nodes[e].children)
          /\ y.neighbors = ends(NewNeighbors(d, o), d.nodes[e].neighbors)
          /\ y.headCandidate = d.nodes[e].headCandidate
          /\ y.processed = d.nodes[e].processed
          /\ y.applied = d.nodes[e].applied /\ y.failed = d.nodes[e].failed
      BY <2>2 DEF Joint
    <3> HIDE DEF x, y, ends
    <3>8. x = y
      BY <3>2, <3>4, <3>6, <3>7 DEF NodeType
    <3>9. QED
      BY <2>2, <3>8 DEF x, y
  <2>3. QED
    BY <2>1, <2>2
<1>3. QED
  BY <1>2 DEF Joined

\* The node array of the first loop, after its last entry.
LEMMA BucketRuns ==
  ASSUME NEW d, DagType(d), HasRoom(d), NEW o \in Operations, NEW order \in Nat,
         NEW q, q = -1
  PROVE  AfterBucket(d, o, order) = Wired(d, o, order, q)
<1> DEFINE k == d.count
           n == d.count + 1
           base == [e \in 1..n |-> IF e = n THEN BlankNode(o, order) ELSE d.nodes[e]]
           solves(g) == g = [i \in 0..k |->
             IF i = 0 THEN base
             ELSE IF n - i \in InBucket(d, o) THEN MeetEntry(d, o, order, g[i - 1], n - i)
             ELSE g[i - 1]]
           walk == CHOOSE g : solves(g)
           W == [i \in 0..k |-> Wired(d, o, order, i - n)]
           V == [i \in 0..k |-> {Wired(d, o, order, i - n)}]
<1>1. k \in Nat /\ n \in Nat /\ n = k + 1
  BY DEF DagType
<1>2. AfterBucket(d, o, order) = walk[k]
  BY DEF AfterBucket
<1>3. Wired(d, o, order, 0 - n) = base
  <2>1. PICK m, r : m = n /\ r = -n
    OBVIOUS
  <2>2. m = d.count + 1 /\ r = -m
    BY <2>1
  <2>3. Wired(d, o, order, r) = 
          [e \in 1..m |-> IF e = m THEN BlankNode(o, order) ELSE d.nodes[e]]
    BY <2>2, WiredFirst
  <2>4. r = 0 - n
    BY <1>1, <2>1
  <2>5. QED
    BY <2>1, <2>3, <2>4
<1>4. ASSUME NEW i \in 1..k
      PROVE  Wired(d, o, order, i - n) =
               IF n - i \in InBucket(d, o)
                 THEN MeetEntry(d, o, order, Wired(d, o, order, i - 1 - n), n - i)
               ELSE Wired(d, o, order, i - 1 - n)
  <2>1. n - i \in 1..k /\ i - n = -(n - i) /\ (i - 1 - n) = (i - n) - 1
    BY <1>1
  <2>2. PICK x \in 1..k, r \in Int, p \in Int : x = n - i /\ r = i - n /\ p = i - 1 - n
    BY <2>1
  <2>3. r = -x /\ p = r - 1
    BY <1>1, <2>2
  <2>4. Wired(d, o, order, r) =
           IF x \in InBucket(d, o) THEN MeetEntry(d, o, order, Wired(d, o, order, p), x)
           ELSE Wired(d, o, order, p)
    BY <2>3, BucketStep
  <2>5. QED
    BY <2>2, <2>4
<1>5. solves(W)
  <2>1. ASSUME NEW i \in 0..k
        PROVE  W[i] = IF i = 0 THEN base
                      ELSE IF n - i \in InBucket(d, o) THEN MeetEntry(d, o, order, W[i - 1], n - i)
                      ELSE W[i - 1]
    <3>1. CASE i = 0
      BY <1>3, <3>1
    <3>2. CASE i # 0
      <4>1. i \in 1..k /\ i - 1 \in 0..k
        BY <1>1, <3>2
      <4>2. W[i] = Wired(d, o, order, i - n) /\ W[i - 1] = Wired(d, o, order, i - 1 - n)
        BY <4>1
      <4> HIDE DEF W, base, n, k
      <4>3. QED
        BY <1>4, <3>2, <4>1, <4>2
    <3>3. QED
      BY <3>1, <3>2
  <2>2. W = [i \in 0..k |-> W[i]]
    OBVIOUS
  <2> HIDE DEF W, base, n, k
  <2>3. QED
    BY <2>1, <2>2
<1>6. solves(walk)
  <2> HIDE DEF solves, W
  <2>1. QED
    BY <1>5
<1>7. walk[0] = base /\ \A i \in 1..k :
         walk[i] = IF n - i \in InBucket(d, o)
                     THEN MeetEntry(d, o, order, walk[i - 1], n - i)
                   ELSE walk[i - 1]
  <2> HIDE DEF walk, base, n, k
  <2>1. 0 \in 0..k /\ \A i \in 1..k : i \in 0..k /\ i # 0
    BY <1>1
  <2>2. QED
    BY <1>6, <2>1
<1>8. /\ V[0] = {Wired(d, o, order, 0 - n)}
      /\ \A i \in 1..k : /\ V[i] = {Wired(d, o, order, i - n)}
                         /\ V[i - 1] = {Wired(d, o, order, i - 1 - n)}
  <2>1. 0 \in 0..k /\ \A i \in 1..k : i \in 0..k /\ i - 1 \in 0..k
    BY <1>1
  <2> HIDE DEF n, k
  <2>2. QED
    BY <2>1
<1> HIDE DEF V, walk, base, solves, W, n, k
<1>9. walk[0] \in V[0] /\ \A i \in (0 + 1)..k : walk[i - 1] \in V[i - 1] => walk[i] \in V[i]
  <2>1. walk[0] \in V[0]
    BY <1>3, <1>7, <1>8
  <2>2. ASSUME NEW i \in 1..k, walk[i - 1] \in V[i - 1]  PROVE walk[i] \in V[i]
    <3>1. walk[i - 1] = Wired(d, o, order, i - 1 - n)
      BY <1>8, <2>2
    <3>2. walk[i] = Wired(d, o, order, i - n)
      BY <1>4, <1>7, <3>1
    <3>3. QED
      BY <1>8, <3>2
  <2>3. 0 + 1 = 1
    OBVIOUS
  <2>4. QED
    BY <2>1, <2>2, <2>3
<1>10. \A i \in 0..k : walk[i] \in V[i]
  <2>1. 0 \in Nat
    OBVIOUS
  <2>2. QED
    BY <1>1, <1>9, <2>1, StaysAlong
<1>11. walk[k] = Wired(d, o, order, q)
  <2>1. k \in 0..k /\ k - n = q
    BY <1>1
  <2>2. V[k] = {Wired(d, o, order, k - n)}
    BY <2>1 DEF V
  <2>3. QED
    BY <1>10, <2>1, <2>2
<1>12. QED
  BY <1>2, <1>11

\* The node array of the second loop, after its last position.
LEMMA ScanRuns ==
  ASSUME NEW d, DagType(d), HasRoom(d), NEW o \in Operations, NEW order \in Nat
  PROVE  AfterScan(d, o, order) = Wired(d, o, order, ScanEnd(d))
<1> DEFINE k == ScanEnd(d)
           base == AfterBucket(d, o, order)
           solves(g) == g = [i \in 0..k |->
             IF i = 0 THEN base ELSE MeetOther(d, o, g[i - 1], ScanEntry(d, i))]
           walk == CHOOSE g : solves(g)
           W == [i \in 0..k |-> Wired(d, o, order, i)]
           V == [i \in 0..k |-> {Wired(d, o, order, i)}]
<1>1. k \in Nat
  BY ScanPositions
<1>2. AfterScan(d, o, order) = walk[k]
  BY DEF AfterScan
<1>3. Wired(d, o, order, 0) = base
  <2>1. PICK q : q = -1
    OBVIOUS
  <2>2. base = Wired(d, o, order, q)
    BY <2>1, BucketRuns
  <2>3. Wired(d, o, order, 0) = Wired(d, o, order, q)
    BY <2>1, WiredBetween
  <2>4. QED
    BY <2>2, <2>3
<1>4. ASSUME NEW i \in 1..k
      PROVE  Wired(d, o, order, i) = MeetOther(d, o, Wired(d, o, order, i - 1), ScanEntry(d, i))
  BY ScanStep
<1>5. solves(W)
  <2>1. ASSUME NEW i \in 0..k
        PROVE  W[i] = IF i = 0 THEN base ELSE MeetOther(d, o, W[i - 1], ScanEntry(d, i))
    <3>1. CASE i = 0
      BY <1>3, <3>1
    <3>2. CASE i # 0
      <4>1. i \in 1..k /\ i - 1 \in 0..k
        BY <1>1, <3>2
      <4>2. W[i] = Wired(d, o, order, i) /\ W[i - 1] = Wired(d, o, order, i - 1)
        BY <4>1
      <4> HIDE DEF W, base, k
      <4>3. QED
        BY <1>4, <3>2, <4>1, <4>2
    <3>3. QED
      BY <3>1, <3>2
  <2>2. W = [i \in 0..k |-> W[i]]
    OBVIOUS
  <2> HIDE DEF W, base, k
  <2>3. QED
    BY <2>1, <2>2
<1>6. solves(walk)
  <2> HIDE DEF solves, W
  <2>1. QED
    BY <1>5
<1>7. walk[0] = base /\ \A i \in 1..k : walk[i] = MeetOther(d, o, walk[i - 1], ScanEntry(d, i))
  <2> HIDE DEF walk, base, k
  <2>1. 0 \in 0..k /\ \A i \in 1..k : i \in 0..k /\ i # 0
    BY <1>1
  <2>2. QED
    BY <1>6, <2>1
<1>8. /\ V[0] = {Wired(d, o, order, 0)}
      /\ \A i \in 1..k : /\ V[i] = {Wired(d, o, order, i)}
                         /\ V[i - 1] = {Wired(d, o, order, i - 1)}
  <2>1. 0 \in 0..k /\ \A i \in 1..k : i \in 0..k /\ i - 1 \in 0..k
    BY <1>1
  <2> HIDE DEF k
  <2>2. QED
    BY <2>1
<1> HIDE DEF V, walk, base, solves, W, k
<1>9. walk[0] \in V[0] /\ \A i \in (0 + 1)..k : walk[i - 1] \in V[i - 1] => walk[i] \in V[i]
  <2>1. walk[0] \in V[0]
    BY <1>3, <1>7, <1>8
  <2>2. ASSUME NEW i \in 1..k, walk[i - 1] \in V[i - 1]  PROVE walk[i] \in V[i]
    <3>1. walk[i - 1] = Wired(d, o, order, i - 1)
      BY <1>8, <2>2
    <3>2. walk[i] = Wired(d, o, order, i)
      BY <1>4, <1>7, <3>1
    <3>3. QED
      BY <1>8, <3>2
  <2>3. 0 + 1 = 1
    OBVIOUS
  <2>4. QED
    BY <2>1, <2>2, <2>3
<1>10. \A i \in 0..k : walk[i] \in V[i]
  <2>1. 0 \in Nat
    OBVIOUS
  <2>2. QED
    BY <1>1, <1>9, <2>1, StaysAlong
<1>11. walk[k] = Wired(d, o, order, k)
  <2>1. k \in 0..k
    BY <1>1
  <2>2. V[k] = {Wired(d, o, order, k)}
    BY <2>1 DEF V
  <2>3. QED
    BY <1>10, <2>1, <2>2
<1>12. QED
  BY <1>2, <1>11 DEF k

(***************************************************************************)
(* The loops of add_operation, with the capacity check each call of        *)
(* connect_* makes, end up with exactly the sets AddOperation names.       *)
(***************************************************************************)
LEMMA LoopAddIsAdd ==
  ASSUME NEW d, DagType(d), HasRoom(d), NEW o \in Operations, NEW order \in Nat, NEW alloc
  PROVE  AddOperation(d, o, order, alloc) = LoopAdd(d, o, order, alloc)
<1>1. PICK n : n = d.count + 1
  OBVIOUS
<1>2. PICK r : r = ScanEnd(d)
  OBVIOUS
<1>3. AfterScan(d, o, order) =
        [e \in 1..n |-> IF e = n THEN NewNode(d, o, order) ELSE Linked(d, o, order, e)]
  <2>1. AfterScan(d, o, order) = Wired(d, o, order, r)
    BY <1>2, ScanRuns
  <2>2. Wired(d, o, order, r) =
          Joined(d, o, order, NewParents(d, o, order), NewChildren(d, o, order), NewNeighbors(d, o))
    BY <1>2, WiredLast
  <2>3. QED
    BY <1>1, <2>1, <2>2, LinkedIsJoined
<1>4. QED
  BY <1>1, <1>3 DEF AddOperation, LoopAdd

(***************************************************************************)
(* AddOperation is what the loops of the code compute, on every DAG that   *)
(* callers can build and for every operation that can come next: full      *)
(* arrays, entries met twice and both scan modes included.                 *)
(***************************************************************************)
THEOREM MerkleCrdtAsLooped == Spec => []AddAsLooped
<1>1. TypeOK => AddAsLooped
  BY LoopAddIsAdd, MerkleCrdtAssumption DEF TypeOK, AddAsLooped
<1>2. QED
  BY <1>1, MerkleCrdtType, PTL

\* way leads k steps along parents.
Ancestry(d, k, way) ==
  way \in [0..k -> 1..d.count] /\ \A i \in 1..k : way[i] \in d.nodes[way[i - 1]].parents

Acyclic(d) ==
  \A k \in Nat \ {0} : \A way : Ancestry(d, k, way) => way[k] # way[0]

\* An ancestor sorts before what it is an ancestor of.
LEMMA SortedIsAcyclic ==
  ASSUME NEW d, DagType(d), EdgesSorted(d)
  PROVE  Acyclic(d)
<1> SUFFICES ASSUME NEW k \in Nat \ {0}, NEW way, Ancestry(d, k, way)
             PROVE  way[k] # way[0]
  BY DEF Acyclic
<1> DEFINE V == [i \in 0..k |-> {x \in 1..d.count : SortsBefore(d, x, way[0])}]
<1>1. /\ \A i \in 0..k : way[i] \in 1..d.count
      /\ \A i \in 1..k : way[i] \in d.nodes[way[i - 1]].parents
      /\ \A e \in 1..d.count : d.nodes[e].order \in Nat
  BY NodeFields DEF Ancestry
<1>2. 0 \in 0..k /\ k \in 0..k /\ 1 \in 0..k /\ \A i \in 1..k : i \in 0..k /\ i - 1 \in 0..k
  OBVIOUS
<1>3. ASSUME NEW i \in 1..k  PROVE SortsBefore(d, way[i], way[i - 1])
  BY <1>1, <1>2 DEF EdgesSorted
<1>4. way[1] \in V[1]
  <2>1. SortsBefore(d, way[1], way[0])
    <3>1. 1 \in 1..k /\ 1 - 1 = 0
      OBVIOUS
    <3>2. QED
      BY <1>3, <3>1
  <2>2. QED
    BY <1>1, <1>2, <2>1
<1>5. ASSUME NEW i \in 2..k, way[i - 1] \in V[i - 1]  PROVE way[i] \in V[i]
  <2>1. i \in 1..k /\ i \in 0..k /\ i - 1 \in 0..k
    OBVIOUS
  <2>2. SortsBefore(d, way[i], way[i - 1]) /\ SortsBefore(d, way[i - 1], way[0])
    BY <1>3, <1>5, <2>1
  <2>3. way[i] \in 1..d.count /\ way[i - 1] \in 1..d.count /\ way[0] \in 1..d.count
    BY <1>1, <1>2, <2>1
  <2>4. SortsBefore(d, way[i], way[0])
    BY <1>1, <2>2, <2>3 DEF SortsBefore
  <2>5. QED
    BY <2>1, <2>3, <2>4
<1>6. way[k] \in V[k]
  <2> HIDE DEF V
  <2>1. \A i \in 1..k : way[i] \in V[i]
    <3>1. 1 \in Nat /\ k \in Nat /\ 1 + 1 = 2
      OBVIOUS
    <3>2. \A i \in (1 + 1)..k : way[i - 1] \in V[i - 1] => way[i] \in V[i]
      BY <1>5, <3>1
    <3>3. QED
      BY <1>4, <3>1, <3>2, StaysAlong
  <2>2. QED
    BY <2>1
<1>7. SortsBefore(d, way[k], way[0])
  BY <1>2, <1>6
<1>8. QED
  BY <1>1, <1>2, <1>7 DEF SortsBefore

(***************************************************************************)
(* No way along parents leads back to where it began, however long it is:  *)
(* the graph that the head and the verdicts are taken from is acyclic,     *)
(* although connect_nodes looks for no cycle and sort orders may tie.      *)
(***************************************************************************)
THEOREM MerkleCrdtAcyclic == Spec => []Acyclic(dag)
<1>1. TypeOK /\ DagEdgesSorted => Acyclic(dag)
  BY SortedIsAcyclic DEF TypeOK, DagEdgesSorted
<1>2. QED
  BY <1>1, MerkleCrdtType, MerkleCrdtSorted, PTL

(***************************************************************************)
(* Feeding in order is one way of feeding: the chain's steps are steps of  *)
(* MerkleCrdt, so all that is proved above of arbitrary callers - sorted,  *)
(* mutual and complete edges, capacities - holds with the chain's promise. *)
(***************************************************************************)
THEOREM MerkleChainImplements == ChainSpec => Spec
<1>1. [ChainNext]_vars => [Next]_vars
  <2>1. ASSUME NEW o \in Submitted, NEW tail \in Tails, SubmitNext(o, tail)  PROVE Next
    BY <2>1, MerkleChainAssumption DEF SubmitNext, Next
  <2>2. QED
    BY <2>1 DEF ChainNext, Next
<1>2. QED
  BY <1>1, PTL DEF ChainSpec, Spec
=============================================================================
