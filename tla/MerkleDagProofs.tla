--------------------------- MODULE MerkleDagProofs ---------------------------
(***************************************************************************)
(* What the operators of MerkleDag and MerkleState guarantee for every DAG *)
(* and every value of the bounds.  MerkleCrdtProofs lifts these lemmas to  *)
(* the state machine of one DAG, TeeProofs to a cluster and to its host.   *)
(***************************************************************************)
EXTENDS MerkleState, FiniteSetTheorems, SequenceTheorems, WellFoundedInduction, TLAPS

-----------------------------------------------------------------------------
(***************************************************************************)
(* Selecting the first k of a set of node numbers.                         *)
(***************************************************************************)

\* A ranked finite set has an element of greatest and one of least rank.
LEMMA RankMax ==
  ASSUME NEW S, IsFiniteSet(S), S # {}, NEW rank, \A x \in S : rank[x] \in Int
  PROVE  \E m \in S : \A x \in S : rank[x] <= rank[m]
<1> DEFINE above(m) == {x \in S : rank[x] > rank[m]}
           F == {above(m) : m \in S}
<1>1. F \subseteq FiniteSubsetsOf(S)
  <2>1. \A m \in S : above(m) \in SUBSET S
    OBVIOUS
  <2> HIDE DEF above
  <2>2. \A m \in S : IsFiniteSet(above(m))
    BY <2>1, FS_Subset
  <2>3. QED
    BY <2>1, <2>2 DEF FiniteSubsetsOf
<1>2. F # {}
  OBVIOUS
<1>3. PICK X \in F : \A Y \in F : ~ (<<Y, X>> \in StrictSubsetOrdering(S))
  <2> HIDE DEF F
  <2> QED BY <1>1, <1>2, FS_StrictSubsetOrderingWellFounded, WFMin
<1>4. PICK m \in S : X = above(m)
  BY <1>3
<1>5. ASSUME NEW y \in S, rank[y] > rank[m]  PROVE FALSE
  <2>1. \A x \in above(y) : x \in above(m)
    BY <1>5
  <2>2. y \in above(m) /\ y \notin above(y)
    BY <1>5
  <2>3. above(y) \in SUBSET S /\ above(m) \in SUBSET S /\ above(y) \in F
    OBVIOUS
  <2> HIDE DEF above, F
  <2>4. <<above(y), X>> \in StrictSubsetOrdering(S)
    BY <1>4, <2>1, <2>2, <2>3 DEF StrictSubsetOrdering
  <2>5. QED
    BY <1>3, <2>3, <2>4
<1>6. QED
  BY <1>4, <1>5

\* A nonempty finite set has a first element by an integer rank.
LEMMA RankMin ==
  ASSUME NEW S, IsFiniteSet(S), S # {}, NEW rank, \A x \in S : rank[x] \in Int
  PROVE  \E m \in S : \A x \in S : rank[m] <= rank[x]
<1> DEFINE opposite == [x \in S |-> -rank[x]]
<1>1. \A x \in S : opposite[x] \in Int /\ opposite[x] = -rank[x]
  OBVIOUS
<1> HIDE DEF opposite
<1>2. PICK m \in S : \A x \in S : opposite[x] <= opposite[m]
  BY <1>1, RankMax
<1>3. QED
  BY <1>1, <1>2

\* The selection is a part of the set and never holds more than k elements.
LEMMA FirstByBound ==
  ASSUME NEW S, IsFiniteSet(S), NEW k \in Nat, NEW rank,
         \A x \in S : rank[x] \in Int,
         \A x, y \in S : rank[x] = rank[y] => x = y
  PROVE  /\ FirstBy(S, rank, k) \subseteq S
         /\ IsFiniteSet(FirstBy(S, rank, k))
         /\ Cardinality(FirstBy(S, rank, k)) \in Nat
         /\ Cardinality(FirstBy(S, rank, k)) <= k
<1> DEFINE N == FirstBy(S, rank, k)
<1>1. N \in SUBSET S
  BY DEF FirstBy
<1>2. \A e \in N : Cardinality({f \in S : rank[f] < rank[e]}) < k
  BY DEF FirstBy
<1> HIDE DEF N
<1>3. IsFiniteSet(N) /\ Cardinality(N) \in Nat
  BY <1>1, FS_Subset, FS_CardinalityType
<1>4. CASE N = {}
  BY <1>1, <1>3, <1>4, FS_EmptySet DEF N
<1>5. CASE N # {}
  <2>1. PICK m \in N : \A x \in N : rank[x] <= rank[m]
    BY <1>1, <1>3, <1>5, RankMax
  <2> DEFINE A == {f \in S : rank[f] < rank[m]}
  <2>2. Cardinality(A) < k /\ A \in SUBSET S
    BY <1>2
  <2>3. N \subseteq A \cup {m}
    BY <1>1, <2>1
  <2> HIDE DEF A
  <2>4. IsFiniteSet(A) /\ Cardinality(A) \in Nat
    BY <2>2, FS_Subset, FS_CardinalityType
  <2> DEFINE B == A \cup {m}
  <2>5. IsFiniteSet(B) /\ Cardinality(B) <= Cardinality(A) + 1
    <3>1. /\ IsFiniteSet(B)
          /\ Cardinality(B) = IF m \in A THEN Cardinality(A) ELSE Cardinality(A) + 1
      BY <2>4, FS_AddElement
    <3> HIDE DEF B
    <3>2. QED
      BY <2>4, <3>1
  <2>6. N \in SUBSET B
    BY <2>3
  <2> HIDE DEF B
  <2>7. Cardinality(N) <= Cardinality(B) /\ Cardinality(B) \in Nat
    BY <2>5, <2>6, FS_Subset, FS_CardinalityType
  <2>8. QED
    BY <1>1, <1>3, <2>2, <2>4, <2>5, <2>7 DEF N
<1>6. QED
  BY <1>4, <1>5

\* It leaves an element out only when it holds at least k others.
LEMMA FirstByFull ==
  ASSUME NEW S, IsFiniteSet(S), NEW k \in Nat, NEW rank,
         \A x \in S : rank[x] \in Int,
         NEW e \in S, e \notin FirstBy(S, rank, k)
  PROVE  Cardinality(FirstBy(S, rank, k)) >= k
<1> DEFINE N == FirstBy(S, rank, k)
           D == S \ N
<1>1. D \in SUBSET S /\ D # {} /\ N \in SUBSET S
  BY DEF FirstBy
<1>2. PICK m \in D : \A x \in D : rank[m] <= rank[x]
  <2> HIDE DEF D
  <2> QED BY <1>1, FS_Subset, RankMin
<1> DEFINE A == {f \in S : rank[f] < rank[m]}
<1>3. A \in SUBSET N
  <2>1. ASSUME NEW x \in S, rank[x] < rank[m]  PROVE x \notin D
    BY <1>2, <2>1
  <2>2. QED
    BY <2>1
<1>4. ~ (Cardinality(A) < k)
  BY DEF FirstBy
<1> HIDE DEF A, N
<1>5. /\ Cardinality(A) <= Cardinality(N)
      /\ Cardinality(A) \in Nat /\ Cardinality(N) \in Nat
  BY <1>1, <1>3, FS_Subset, FS_CardinalityType
<1>6. QED
  BY <1>4, <1>5 DEF N

\* Sets of node numbers are finite.
LEMMA NodesFinite ==
  ASSUME NEW n \in Nat, NEW S \in SUBSET (1..n)
  PROVE  IsFiniteSet(S) /\ Cardinality(S) \in Nat
<1>1. IsFiniteSet(1..n)
  BY FS_Interval
<1>2. IsFiniteSet(S)
  BY <1>1, FS_Subset
<1>3. QED
  BY <1>2, FS_CardinalityType

\* Both facts for the two selections by node number.
LEMMA NewestFacts ==
  ASSUME NEW n \in Nat, NEW S \in SUBSET (1..n), NEW k \in Nat
  PROVE  /\ Newest(S, k) \subseteq S
         /\ IsFiniteSet(Newest(S, k)) /\ Cardinality(Newest(S, k)) \in Nat
         /\ Cardinality(Newest(S, k)) <= k
         /\ \A e \in S : e \notin Newest(S, k) => Cardinality(Newest(S, k)) >= k
<1> DEFINE rank == [e \in S |-> -e]
<1>1. IsFiniteSet(S)
  BY NodesFinite
<1>2. /\ \A x \in S : rank[x] \in Int
      /\ \A x, y \in S : rank[x] = rank[y] => x = y
  <2>1. \A x \in S : x \in Int /\ rank[x] = -x
    OBVIOUS
  <2> HIDE DEF rank
  <2>2. QED
    BY <2>1
<1>3. Newest(S, k) = FirstBy(S, rank, k)
  BY DEF Newest
<1> HIDE DEF rank
<1>4. /\ FirstBy(S, rank, k) \subseteq S
      /\ IsFiniteSet(FirstBy(S, rank, k))
      /\ Cardinality(FirstBy(S, rank, k)) \in Nat
      /\ Cardinality(FirstBy(S, rank, k)) <= k
  BY <1>1, <1>2, FirstByBound
<1>5. ASSUME NEW e \in S, e \notin FirstBy(S, rank, k)
      PROVE  Cardinality(FirstBy(S, rank, k)) >= k
  BY <1>1, <1>2, <1>5, FirstByFull
<1>6. QED
  BY <1>3, <1>4, <1>5

\* The k oldest nodes of a set are at most k of its members.
LEMMA OldestFacts ==
  ASSUME NEW n \in Nat, NEW S \in SUBSET (1..n), NEW k \in Nat
  PROVE  /\ Oldest(S, k) \subseteq S
         /\ IsFiniteSet(Oldest(S, k)) /\ Cardinality(Oldest(S, k)) \in Nat
         /\ Cardinality(Oldest(S, k)) <= k
         /\ \A e \in S : e \notin Oldest(S, k) => Cardinality(Oldest(S, k)) >= k
<1> DEFINE rank == [e \in S |-> e]
<1>1. IsFiniteSet(S)
  BY NodesFinite
<1>2. /\ \A x \in S : rank[x] \in Int
      /\ \A x, y \in S : rank[x] = rank[y] => x = y
  OBVIOUS
<1>3. Oldest(S, k) = FirstBy(S, rank, k)
  BY DEF Oldest
<1> HIDE DEF rank
<1>4. /\ FirstBy(S, rank, k) \subseteq S
      /\ IsFiniteSet(FirstBy(S, rank, k))
      /\ Cardinality(FirstBy(S, rank, k)) \in Nat
      /\ Cardinality(FirstBy(S, rank, k)) <= k
  BY <1>1, <1>2, FirstByBound
<1>5. ASSUME NEW e \in S, e \notin FirstBy(S, rank, k)
      PROVE  Cardinality(FirstBy(S, rank, k)) >= k
  BY <1>1, <1>2, <1>5, FirstByFull
<1>6. QED
  BY <1>3, <1>4, <1>5

-----------------------------------------------------------------------------
(***************************************************************************)
(* What one call of add_operation does to the DAG, field by field.         *)
(***************************************************************************)
LEMMA NodeFields ==
  ASSUME NEW d, DagType(d), NEW e \in 1..d.count
  PROVE  /\ d.count \in Nat
         /\ d.nodes[e].op \in Operations /\ d.nodes[e].order \in Nat
         /\ d.nodes[e].parents \in SUBSET (1..d.count)
         /\ d.nodes[e].children \in SUBSET (1..d.count)
         /\ d.nodes[e].neighbors \in SUBSET (1..d.count)
         /\ d.nodes[e].processed \in BOOLEAN /\ d.nodes[e].applied \in BOOLEAN
<1>1. d.count \in Nat /\ d.nodes[e] \in NodeType(d.count)
  BY MerkleDagAssumption DEF DagType
<1>2. QED
  BY <1>1 DEF NodeType

\* The new parents: conflicting, sorted before, with a free child slot.
LEMMA NewParentsFacts ==
  ASSUME NEW d, DagType(d), NEW o, NEW order
  PROVE  /\ NewParents(d, o, order) \subseteq Rivals(d, o)
         /\ NewParents(d, o, order) \in SUBSET (1..d.count)
         /\ Cardinality(NewParents(d, o, order)) \in Nat
         /\ Cardinality(NewParents(d, o, order)) <= MaxParents
         /\ \A e \in NewParents(d, o, order) :
               /\ order > d.nodes[e].order
               /\ Cardinality(d.nodes[e].children) < MaxChildren
         /\ \A e \in Rivals(d, o) :
               /\ order > d.nodes[e].order
               /\ Cardinality(d.nodes[e].children) < MaxChildren
               /\ e \notin NewParents(d, o, order)
               => Cardinality(NewParents(d, o, order)) >= MaxParents
<1> DEFINE S == {e \in Rivals(d, o) : /\ order > d.nodes[e].order
                                      /\ Cardinality(d.nodes[e].children) < MaxChildren}
<1>1. d.count \in Nat /\ S \in SUBSET (1..d.count) /\ MaxParents \in Nat
  BY MerkleDagAssumption DEF DagType, Rivals
<1>2. NewParents(d, o, order) = Newest(S, MaxParents)
  BY DEF NewParents
<1>3. /\ S \subseteq Rivals(d, o)
      /\ \A e \in Rivals(d, o) : e \in S <=>
            (order > d.nodes[e].order /\ Cardinality(d.nodes[e].children) < MaxChildren)
  OBVIOUS
<1> HIDE DEF S
<1>4. /\ Newest(S, MaxParents) \subseteq S
      /\ Cardinality(Newest(S, MaxParents)) \in Nat
      /\ Cardinality(Newest(S, MaxParents)) <= MaxParents
      /\ \A e \in S : e \notin Newest(S, MaxParents) =>
                        Cardinality(Newest(S, MaxParents)) >= MaxParents
  BY <1>1, NewestFacts
<1>5. QED
  BY <1>1, <1>2, <1>3, <1>4

\* The new children: conflicting, not sorted before, with a free parent slot.
LEMMA NewChildrenFacts ==
  ASSUME NEW d, DagType(d), NEW o, NEW order
  PROVE  /\ NewChildren(d, o, order) \subseteq Rivals(d, o)
         /\ NewChildren(d, o, order) \in SUBSET (1..d.count)
         /\ Cardinality(NewChildren(d, o, order)) \in Nat
         /\ Cardinality(NewChildren(d, o, order)) <= MaxChildren
         /\ \A e \in NewChildren(d, o, order) :
               /\ order <= d.nodes[e].order
               /\ Cardinality(d.nodes[e].parents) < MaxParents
         /\ \A e \in Rivals(d, o) :
               /\ order <= d.nodes[e].order
               /\ Cardinality(d.nodes[e].parents) < MaxParents
               /\ e \notin NewChildren(d, o, order)
               => Cardinality(NewChildren(d, o, order)) >= MaxChildren
<1> DEFINE S == {e \in Rivals(d, o) : /\ order <= d.nodes[e].order
                                      /\ Cardinality(d.nodes[e].parents) < MaxParents}
<1>1. d.count \in Nat /\ S \in SUBSET (1..d.count) /\ MaxChildren \in Nat
  BY MerkleDagAssumption DEF DagType, Rivals
<1>2. NewChildren(d, o, order) = Newest(S, MaxChildren)
  BY DEF NewChildren
<1>3. /\ S \subseteq Rivals(d, o)
      /\ \A e \in Rivals(d, o) : e \in S <=>
            (order <= d.nodes[e].order /\ Cardinality(d.nodes[e].parents) < MaxParents)
  OBVIOUS
<1> HIDE DEF S
<1>4. /\ Newest(S, MaxChildren) \subseteq S
      /\ Cardinality(Newest(S, MaxChildren)) \in Nat
      /\ Cardinality(Newest(S, MaxChildren)) <= MaxChildren
      /\ \A e \in S : e \notin Newest(S, MaxChildren) =>
                        Cardinality(Newest(S, MaxChildren)) >= MaxChildren
  BY <1>1, NewestFacts
<1>5. QED
  BY <1>1, <1>2, <1>3, <1>4

\* The latest list names nodes and grows by at most one.
LEMMA LatestTyped ==
  ASSUME NEW d, DagType(d)
  PROVE  /\ d.latest \in Seq(1..d.count+1)
         /\ NewLatest(d) \in Seq(1..d.count+1)
         /\ Len(NewLatest(d)) \in {Len(d.latest), Len(d.latest) + 1}
         /\ Len(d.latest) <= MaxDagNodes => Len(NewLatest(d)) <= MaxDagNodes
<1>1. d.count \in Nat /\ d.latest \in Seq(1..d.count) /\ MaxDagNodes \in Nat
  BY MerkleDagAssumption DEF DagType
<1>2. 1..d.count \subseteq 1..d.count+1 /\ d.count + 1 \in 1..d.count+1
  BY <1>1
<1>3. d.latest \in Seq(1..d.count+1) /\ Len(d.latest) \in Nat
  BY <1>1, <1>2, SeqMonotonic, LenProperties
<1> DEFINE longer == Append(d.latest, d.count + 1)
<1>4. longer \in Seq(1..d.count+1) /\ Len(longer) = Len(d.latest) + 1
  BY <1>2, <1>3, AppendProperties
<1>5. NewLatest(d) = IF Len(d.latest) < MaxDagNodes THEN longer ELSE d.latest
  BY DEF NewLatest
<1> HIDE DEF longer
<1>6. CASE Len(d.latest) < MaxDagNodes
  <2>1. NewLatest(d) = longer
    BY <1>5, <1>6
  <2>2. QED
    BY <1>1, <1>3, <1>4, <1>6, <2>1
<1>7. CASE ~ (Len(d.latest) < MaxDagNodes)
  <2>1. NewLatest(d) = d.latest
    BY <1>5, <1>7
  <2>2. QED
    BY <1>1, <1>3, <1>7, <2>1
<1>8. QED
  BY <1>6, <1>7

\* Neighbors are earlier nodes with room in their own array.
LEMMA NewNeighborsTyped ==
  ASSUME NEW d, DagType(d), NEW o
  PROVE  /\ NewNeighbors(d, o) \in SUBSET (1..d.count)
         /\ \A e \in NewNeighbors(d, o) : Cardinality(d.nodes[e].neighbors) < MaxChildren
<1>1. d.count \in Nat
  BY DEF DagType
<1>2. Scanned(d) \subseteq 1..d.count
  <2>1. \A i \in 1..Len(NewLatest(d)) : NewLatest(d)[i] \in 1..d.count+1
    BY LatestTyped, ElementOfSeq
  <2>2. \A i \in Visible(NewLatest(d)) : NewLatest(d)[i] \in 1..d.count+1
    BY <2>1 DEF Visible
  <2>3. \A x : x \in 1..d.count+1 /\ x # d.count+1 => x \in 1..d.count
    BY <1>1
  <2>4. QED
    BY <2>2, <2>3 DEF Scanned
<1>3. InBucket(d, o) \subseteq 1..d.count
  BY DEF InBucket, DagType
<1>4. QED
  BY <1>2, <1>3 DEF NewNeighbors, FirstBy

\* An existing node gains at most the new node in each of its arrays.
LEMMA LinkedType ==
  ASSUME NEW d, DagType(d), NEW o, NEW order, NEW e \in 1..d.count
  PROVE  Linked(d, o, order, e) \in NodeType(d.count + 1)
<1>1. d.count \in Nat /\ d.nodes[e] \in NodeType(d.count)
  BY DEF DagType
<1>2. 1..d.count \subseteq 1..d.count+1 /\ d.count+1 \in 1..d.count+1
  BY <1>1
<1>3. QED
  BY <1>1, <1>2 DEF Linked, NodeType

\* Linking an old node to the new one leaves its operation and order alone.
LEMMA LinkedKeeps ==
  ASSUME NEW d, DagType(d), NEW o, NEW order, NEW e \in 1..d.count
  PROVE  /\ Linked(d, o, order, e).op = d.nodes[e].op
         /\ Linked(d, o, order, e).order = d.nodes[e].order
<1>1. d.nodes[e] \in NodeType(d.count)
  BY DEF DagType
<1>2. QED
  BY <1>1 DEF Linked, NodeType

\* The arrays of an old node after an insertion.
LEMMA LinkedArrays ==
  ASSUME NEW d, DagType(d), NEW o, NEW order, NEW e \in 1..d.count
  PROVE  /\ Linked(d, o, order, e).parents =
              IF e \in NewChildren(d, o, order) THEN d.nodes[e].parents \cup {d.count + 1}
                                                ELSE d.nodes[e].parents
         /\ Linked(d, o, order, e).children =
              IF e \in NewParents(d, o, order) THEN d.nodes[e].children \cup {d.count + 1}
                                               ELSE d.nodes[e].children
<1>1. d.nodes[e] \in NodeType(d.count)
  BY DEF DagType
<1>2. QED
  BY <1>1 DEF Linked, NodeType

\* Count, head, latest list and index after an insertion.
LEMMA AddFields ==
  ASSUME NEW d, DagType(d), NEW o, NEW order, NEW alloc
  PROVE  /\ AddOperation(d, o, order, alloc).count = d.count + 1
         /\ AddOperation(d, o, order, alloc).head = d.head
         /\ AddOperation(d, o, order, alloc).latest = NewLatest(d)
         /\ AddOperation(d, o, order, alloc).index \subseteq d.index \cup {d.count + 1}
         /\ d.count + 1 \in AddOperation(d, o, order, alloc).index => o.type \in {"add", "sub"}
         /\ d.count + 1 \notin 1..d.count
         /\ d.count + 1 \in 1..d.count + 1
         /\ AddOperation(d, o, order, alloc).nodes[d.count + 1] = NewNode(d, o, order)
         /\ \A e \in 1..d.count :
               AddOperation(d, o, order, alloc).nodes[e] = Linked(d, o, order, e)
         /\ \A e \in 1..d.count + 1 : e \in 1..d.count \/ e = d.count + 1
         /\ 1..d.count \subseteq 1..d.count + 1
<1>1. d.count \in Nat /\ d.index \subseteq 1..d.count
  BY DEF DagType
<1>2. /\ d.count + 1 \notin 1..d.count /\ d.count + 1 \in 1..d.count + 1
      /\ \A e \in 1..d.count + 1 : e \in 1..d.count \/ e = d.count + 1
      /\ 1..d.count \subseteq 1..d.count + 1
  BY <1>1
<1>3. QED
  BY <1>1, <1>2 DEF AddOperation

\* The new DAG has the type of a DAG.
LEMMA AddType ==
  ASSUME NEW d, DagType(d), HasRoom(d),
         NEW o \in Operations, NEW order \in Nat, NEW alloc
  PROVE  DagType(AddOperation(d, o, order, alloc))
<1> DEFINE n == d.count + 1
           d2 == AddOperation(d, o, order, alloc)
<1>1. d.count \in Nat /\ n \in 0..MaxDagNodes
  BY MerkleDagAssumption DEF DagType, HasRoom
<1>2. 1..d.count \subseteq 1..n
  BY <1>1
<1>3. NewNode(d, o, order) \in NodeType(n)
  BY <1>2, NewParentsFacts, NewChildrenFacts, NewNeighborsTyped DEF NewNode, NodeType
<1>4. \A e \in 1..d.count : Linked(d, o, order, e) \in NodeType(n)
  BY LinkedType
<1>5. d2.nodes \in [1..n -> NodeType(n)]
  <2>1. \A e \in 1..n : e # n => e \in 1..d.count
    BY <1>1
  <2>2. QED
    BY <1>3, <1>4, <2>1 DEF AddOperation
<1>6. d2.latest \in Seq(1..n)
  <2>1. d2.latest = NewLatest(d)
    BY DEF AddOperation
  <2>2. QED
    BY <2>1, LatestTyped
<1>7. d2.index \subseteq 1..n /\ d2.head \subseteq 1..n
  <2>1. d.index \subseteq 1..d.count /\ d.head \subseteq 1..d.count
    BY DEF DagType
  <2>2. d2.head = d.head /\ (d2.index = d.index \/ d2.index = d.index \cup {n})
    BY DEF AddOperation
  <2>3. n \in 1..n
    BY <1>1
  <2> HIDE DEF d2
  <2>4. QED
    BY <1>2, <2>1, <2>2, <2>3
<1>8. d2 = [count |-> d2.count, nodes |-> d2.nodes, latest |-> d2.latest,
            index |-> d2.index, head |-> d2.head]
  BY DEF AddOperation
<1>9. d2.count = n
  BY DEF AddOperation
<1> HIDE DEF d2
<1>10. QED
  BY <1>1, <1>5, <1>6, <1>7, <1>8, <1>9 DEF DagType, d2

(***************************************************************************)
(* Every edge of the new DAG is an old one or joins the new node to one of *)
(* its chosen parents or children, and both of its ends know of it.        *)
(***************************************************************************)
LEMMA AddKeepsOps ==
  ASSUME NEW d, DagType(d), NEW o, NEW order, NEW alloc
  PROVE  /\ AddOperation(d, o, order, alloc).nodes[d.count + 1].op = o
         /\ AddOperation(d, o, order, alloc).nodes[d.count + 1].order = order
         /\ \A e \in 1..d.count :
               /\ AddOperation(d, o, order, alloc).nodes[e].op = d.nodes[e].op
               /\ AddOperation(d, o, order, alloc).nodes[e].order = d.nodes[e].order
<1>1. AddOperation(d, o, order, alloc).nodes[d.count + 1] = NewNode(d, o, order)
  BY AddFields
<1>2. \A e \in 1..d.count :
         AddOperation(d, o, order, alloc).nodes[e] = Linked(d, o, order, e)
  BY AddFields
<1>3. /\ NewNode(d, o, order).op = o
      /\ NewNode(d, o, order).order = order
  BY DEF NewNode
<1>4. ASSUME NEW e \in 1..d.count
      PROVE  /\ Linked(d, o, order, e).op = d.nodes[e].op
             /\ Linked(d, o, order, e).order = d.nodes[e].order
  BY LinkedKeeps
<1>5. QED
  BY <1>1, <1>2, <1>3, <1>4

\* All edge arrays after an insertion.
LEMMA AddArrays ==
  ASSUME NEW d, DagType(d), NEW o, NEW order, NEW alloc
  PROVE  /\ AddOperation(d, o, order, alloc).nodes[d.count + 1].parents
              = NewParents(d, o, order)
         /\ AddOperation(d, o, order, alloc).nodes[d.count + 1].children
              = NewChildren(d, o, order)
         /\ \A e \in 1..d.count :
               /\ AddOperation(d, o, order, alloc).nodes[e].parents
                    = IF e \in NewChildren(d, o, order)
                        THEN d.nodes[e].parents \cup {d.count + 1} ELSE d.nodes[e].parents
               /\ AddOperation(d, o, order, alloc).nodes[e].children
                    = IF e \in NewParents(d, o, order)
                        THEN d.nodes[e].children \cup {d.count + 1} ELSE d.nodes[e].children
<1>1. AddOperation(d, o, order, alloc).nodes[d.count + 1] = NewNode(d, o, order)
  BY AddFields
<1>2. \A e \in 1..d.count :
         AddOperation(d, o, order, alloc).nodes[e] = Linked(d, o, order, e)
  BY AddFields
<1>3. /\ NewNode(d, o, order).parents = NewParents(d, o, order)
      /\ NewNode(d, o, order).children = NewChildren(d, o, order)
  BY DEF NewNode
<1>4. ASSUME NEW e \in 1..d.count
      PROVE  /\ AddOperation(d, o, order, alloc).nodes[e].parents
                  = IF e \in NewChildren(d, o, order)
                      THEN d.nodes[e].parents \cup {d.count + 1} ELSE d.nodes[e].parents
             /\ AddOperation(d, o, order, alloc).nodes[e].children
                  = IF e \in NewParents(d, o, order)
                      THEN d.nodes[e].children \cup {d.count + 1} ELSE d.nodes[e].children
  BY <1>2, LinkedArrays
<1>5. QED
  BY <1>1, <1>3, <1>4

\* An edge after an insertion is an old one, or joins the new node.
LEMMA AddEdges ==
  ASSUME NEW d, DagType(d), NEW o, NEW order, NEW alloc,
         NEW c \in 1..d.count + 1, NEW p \in 1..d.count + 1
  PROVE  /\ p \in AddOperation(d, o, order, alloc).nodes[c].parents <=>
              \/ c \in 1..d.count /\ p \in 1..d.count /\ p \in d.nodes[c].parents
              \/ c = d.count + 1 /\ p \in NewParents(d, o, order)
              \/ p = d.count + 1 /\ c \in NewChildren(d, o, order)
         /\ c \in AddOperation(d, o, order, alloc).nodes[p].children <=>
              \/ p \in 1..d.count /\ c \in 1..d.count /\ c \in d.nodes[p].children
              \/ c = d.count + 1 /\ p \in NewParents(d, o, order)
              \/ p = d.count + 1 /\ c \in NewChildren(d, o, order)
<1> DEFINE n  == d.count + 1
           d2 == AddOperation(d, o, order, alloc)
           P  == NewParents(d, o, order)
           C  == NewChildren(d, o, order)
<1>1. /\ n \notin 1..d.count
      /\ \A e \in 1..n : e \in 1..d.count \/ e = n
  BY AddFields
<1>2. d2.nodes[n].parents = P /\ d2.nodes[n].children = C
  BY AddArrays
<1>3. \A e \in 1..d.count :
         /\ d2.nodes[e].parents = IF e \in C THEN d.nodes[e].parents \cup {n}
                                             ELSE d.nodes[e].parents
         /\ d2.nodes[e].children = IF e \in P THEN d.nodes[e].children \cup {n}
                                              ELSE d.nodes[e].children
  <2>1. ASSUME NEW e \in 1..d.count  PROVE d2.nodes[e] = Linked(d, o, order, e)
    BY AddFields
  <2>2. ASSUME NEW e \in 1..d.count
        PROVE  /\ Linked(d, o, order, e).parents = IF e \in C THEN d.nodes[e].parents \cup {n}
                                                              ELSE d.nodes[e].parents
               /\ Linked(d, o, order, e).children = IF e \in P THEN d.nodes[e].children \cup {n}
                                                               ELSE d.nodes[e].children
    BY LinkedArrays
  <2> HIDE DEF n, d2, P, C
  <2>3. QED
    BY <2>1, <2>2
<1>4. P \subseteq 1..d.count /\ C \subseteq 1..d.count
  BY NewParentsFacts, NewChildrenFacts
<1>5. \A e \in 1..d.count : /\ d.nodes[e].parents \subseteq 1..d.count
                            /\ d.nodes[e].children \subseteq 1..d.count
  BY NodeFields
<1>6. c \in 1..n /\ p \in 1..n
  OBVIOUS
<1> HIDE DEF n, d2, P, C
<1>7. p \in d2.nodes[c].parents <=>
        \/ c \in 1..d.count /\ p \in 1..d.count /\ p \in d.nodes[c].parents
        \/ c = n /\ p \in P
        \/ p = n /\ c \in C
  <2>1. CASE c = n
    BY <1>1, <1>2, <1>4, <2>1
  <2>2. CASE c \in 1..d.count
    <3>1. c # n /\ d.nodes[c].parents \subseteq 1..d.count
      BY <1>1, <1>5, <2>2
    <3>2. d2.nodes[c].parents = IF c \in C THEN d.nodes[c].parents \cup {n}
                                           ELSE d.nodes[c].parents
      BY <1>3, <2>2
    <3>3. QED
      BY <1>1, <2>2, <3>1, <3>2
  <2>3. QED
    BY <1>1, <1>6, <2>1, <2>2
<1>8. c \in d2.nodes[p].children <=>
        \/ p \in 1..d.count /\ c \in 1..d.count /\ c \in d.nodes[p].children
        \/ c = n /\ p \in P
        \/ p = n /\ c \in C
  <2>1. CASE p = n
    BY <1>1, <1>2, <1>4, <2>1
  <2>2. CASE p \in 1..d.count
    <3>1. p # n /\ d.nodes[p].children \subseteq 1..d.count
      BY <1>1, <1>5, <2>2
    <3>2. d2.nodes[p].children = IF p \in P THEN d.nodes[p].children \cup {n}
                                            ELSE d.nodes[p].children
      BY <1>3, <2>2
    <3>3. QED
      BY <1>1, <2>2, <3>1, <3>2
  <2>3. QED
    BY <1>1, <1>6, <2>1, <2>2
<1>9. QED
  BY <1>7, <1>8 DEF n, d2, P, C

\* Both ends of a new edge record it.
LEMMA AddKeepsEdgesMutual ==
  ASSUME NEW d, DagType(d), EdgesMutual(d), NEW o, NEW order, NEW alloc
  PROVE  EdgesMutual(AddOperation(d, o, order, alloc))
<1> DEFINE d2 == AddOperation(d, o, order, alloc)
<1>1. d2.count = d.count + 1
  BY AddFields
<1>2. ASSUME NEW c \in 1..d.count + 1, NEW p \in 1..d.count + 1
      PROVE  p \in d2.nodes[c].parents <=> c \in d2.nodes[p].children
  <2>1. (c \in 1..d.count /\ p \in 1..d.count /\ p \in d.nodes[c].parents)
          <=> (p \in 1..d.count /\ c \in 1..d.count /\ c \in d.nodes[p].children)
    BY DEF EdgesMutual
  <2>2. QED
    BY <2>1, AddEdges
<1> HIDE DEF d2
<1>3. QED
  BY <1>1, <1>2 DEF EdgesMutual, d2

\* What an edge of the new DAG is, seen from the node that has the parent.
LEMMA AddParents ==
  ASSUME NEW d, DagType(d), NEW o, NEW order, NEW alloc,
         NEW c \in 1..d.count + 1,
         NEW p \in AddOperation(d, o, order, alloc).nodes[c].parents
  PROVE  \/ c \in 1..d.count /\ p \in 1..d.count /\ p \in d.nodes[c].parents
         \/ c = d.count + 1 /\ p \in 1..d.count /\ p \in NewParents(d, o, order)
         \/ p = d.count + 1 /\ c \in 1..d.count /\ c \in NewChildren(d, o, order)
<1> DEFINE n  == d.count + 1
           d2 == AddOperation(d, o, order, alloc)
<1>1. /\ n \in 1..n /\ 1..d.count \subseteq 1..n
      /\ \A e \in 1..n : e \in 1..d.count \/ e = n
  BY AddFields
<1>2. NewParents(d, o, order) \subseteq 1..d.count /\ NewChildren(d, o, order) \subseteq 1..d.count
  BY NewParentsFacts, NewChildrenFacts
<1>3. p \in 1..n
  <2>1. CASE c = n
    BY <1>1, <1>2, <2>1, AddArrays
  <2>2. CASE c \in 1..d.count
    <3>1. d2.nodes[c] = Linked(d, o, order, c)
      BY <2>2, AddFields
    <3>2. d2.nodes[c].parents \subseteq 1..n
      BY <2>2, <3>1, LinkedType DEF NodeType
    <3>3. QED
      BY <3>2
  <2>3. QED
    BY <1>1, <2>1, <2>2
<1>4. QED
  BY <1>1, <1>2, <1>3, AddEdges

\* New edges join conflicting operations: rivals come out of the index by them.
LEMMA AddKeepsEdgesConflict ==
  ASSUME NEW d, DagType(d), EdgesConflict(d), NEW o, NEW order, NEW alloc
  PROVE  EdgesConflict(AddOperation(d, o, order, alloc))
<1> DEFINE n  == d.count + 1
           d2 == AddOperation(d, o, order, alloc)
<1>1. d2.count = n
  BY AddFields
<1>2. ASSUME NEW c \in 1..n, NEW p \in d2.nodes[c].parents
      PROVE  IsConflict(d2.nodes[c].op, d2.nodes[p].op)
  <2>1. /\ d2.nodes[n].op = o
        /\ \A e \in 1..d.count : d2.nodes[e].op = d.nodes[e].op
    BY AddKeepsOps
  <2>2. CASE c \in 1..d.count /\ p \in 1..d.count /\ p \in d.nodes[c].parents
    BY <2>1, <2>2 DEF EdgesConflict
  <2>3. CASE c = n /\ p \in 1..d.count /\ p \in NewParents(d, o, order)
    <3>1. IsConflict(o, d.nodes[p].op)
      BY <2>3, NewParentsFacts DEF Rivals
    <3>2. QED
      BY <2>1, <2>3, <3>1
  <2>4. CASE p = n /\ c \in 1..d.count /\ c \in NewChildren(d, o, order)
    <3>1. IsConflict(o, d.nodes[c].op)
      BY <2>4, NewChildrenFacts DEF Rivals
    <3>2. IsConflict(d.nodes[c].op, o)
      BY <3>1 DEF IsConflict
    <3>3. QED
      BY <2>1, <2>4, <3>2
  <2>5. QED
    BY <2>2, <2>3, <2>4, AddParents
<1> HIDE DEF d2
<1>3. QED
  BY <1>1, <1>2 DEF EdgesConflict, d2

\* New edges point forward in the order, ties broken by age.
LEMMA AddKeepsEdgesSorted ==
  ASSUME NEW d, DagType(d), EdgesSorted(d), NEW o, NEW order \in Nat, NEW alloc
  PROVE  EdgesSorted(AddOperation(d, o, order, alloc))
<1> DEFINE n  == d.count + 1
           d2 == AddOperation(d, o, order, alloc)
<1>1. d2.count = n
  BY AddFields
<1>2. ASSUME NEW c \in 1..n, NEW p \in d2.nodes[c].parents
      PROVE  SortsBefore(d2, p, c)
  <2>1. /\ d2.nodes[n].order = order
        /\ \A e \in 1..d.count : d2.nodes[e].order = d.nodes[e].order
    BY AddKeepsOps
  <2>2. CASE c \in 1..d.count /\ p \in 1..d.count /\ p \in d.nodes[c].parents
    BY <2>1, <2>2 DEF EdgesSorted, SortsBefore
  <2>3. CASE c = n /\ p \in 1..d.count /\ p \in NewParents(d, o, order)
    <3>1. order > d.nodes[p].order /\ d.nodes[p].order \in Nat
      BY <2>3, NewParentsFacts, NodeFields
    <3>2. QED
      BY <2>1, <2>3, <3>1 DEF SortsBefore
  <2>4. CASE p = n /\ c \in 1..d.count /\ c \in NewChildren(d, o, order)
    <3>1. order <= d.nodes[c].order /\ d.nodes[c].order \in Nat /\ d.count \in Nat
      BY <2>4, NewChildrenFacts, NodeFields
    <3>2. QED
      BY <2>1, <2>4, <3>1 DEF SortsBefore
  <2>5. QED
    BY <2>2, <2>3, <2>4, AddParents
<1> HIDE DEF d2
<1>3. QED
  BY <1>1, <1>2 DEF EdgesSorted, d2

\* Arrays only grow, so what was full stays full.
LEMMA AddGrows ==
  ASSUME NEW d, DagType(d), NEW o, NEW order, NEW alloc, NEW e \in 1..d.count
  PROVE  /\ d.nodes[e].parents \subseteq AddOperation(d, o, order, alloc).nodes[e].parents
         /\ d.nodes[e].children \subseteq AddOperation(d, o, order, alloc).nodes[e].children
         /\ Cardinality(d.nodes[e].parents) \in Nat
         /\ Cardinality(d.nodes[e].children) \in Nat
         /\ Cardinality(AddOperation(d, o, order, alloc).nodes[e].parents) \in Nat
         /\ Cardinality(AddOperation(d, o, order, alloc).nodes[e].children) \in Nat
         /\ Cardinality(d.nodes[e].parents)
              <= Cardinality(AddOperation(d, o, order, alloc).nodes[e].parents)
         /\ Cardinality(d.nodes[e].children)
              <= Cardinality(AddOperation(d, o, order, alloc).nodes[e].children)
<1> DEFINE m == AddOperation(d, o, order, alloc).nodes[e]
           n == d.count + 1
<1>1. m = Linked(d, o, order, e)
  BY AddFields
<1>2. d.nodes[e].parents \subseteq m.parents /\ d.nodes[e].children \subseteq m.children
  <2>0. d.nodes[e] \in NodeType(d.count)
    BY DEF DagType
  <2>1. d.nodes[e].parents \subseteq Linked(d, o, order, e).parents
    BY <2>0 DEF Linked, NodeType
  <2>2. d.nodes[e].children \subseteq Linked(d, o, order, e).children
    BY <2>0 DEF Linked, NodeType
  <2> HIDE DEF m
  <2>3. QED
    BY <1>1, <2>1, <2>2
<1>3. m.parents \in SUBSET (1..n) /\ m.children \in SUBSET (1..n) /\ n \in Nat
  <2>1. m \in NodeType(n)
    BY <1>1, LinkedType
  <2>2. n \in Nat
    BY DEF DagType
  <2> HIDE DEF m, n
  <2>3. QED
    BY <2>1, <2>2 DEF NodeType
<1> HIDE DEF m, n
<1>4. IsFiniteSet(m.parents) /\ IsFiniteSet(m.children)
  BY <1>3, NodesFinite
<1>5. /\ Cardinality(m.parents) \in Nat /\ Cardinality(m.children) \in Nat
      /\ Cardinality(d.nodes[e].parents) \in Nat
      /\ Cardinality(d.nodes[e].children) \in Nat
      /\ Cardinality(d.nodes[e].parents) <= Cardinality(m.parents)
      /\ Cardinality(d.nodes[e].children) <= Cardinality(m.children)
  <2>1. Cardinality(m.parents) \in Nat /\ Cardinality(m.children) \in Nat
    BY <1>4, FS_CardinalityType
  <2>2. /\ IsFiniteSet(d.nodes[e].parents)
        /\ Cardinality(d.nodes[e].parents) <= Cardinality(m.parents)
    BY <1>2, <1>4, FS_Subset
  <2>3. /\ IsFiniteSet(d.nodes[e].children)
        /\ Cardinality(d.nodes[e].children) <= Cardinality(m.children)
    BY <1>2, <1>4, FS_Subset
  <2>4. Cardinality(d.nodes[e].parents) \in Nat /\ Cardinality(d.nodes[e].children) \in Nat
    BY <2>2, <2>3, FS_CardinalityType
  <2>5. QED
    BY <2>1, <2>2, <2>3, <2>4
<1>6. QED
  BY <1>2, <1>5 DEF m

(***************************************************************************)
(* A new indexed node is linked with every indexed rival, in the direction *)
(* of their orders, unless an array on that side is full.                  *)
(***************************************************************************)
LEMMA AddKeepsConflictsLinked ==
  ASSUME NEW d, DagType(d), ConflictsLinked(d), NEW o, NEW order \in Nat, NEW alloc
  PROVE  ConflictsLinked(AddOperation(d, o, order, alloc))
<1> DEFINE n  == d.count + 1
           d2 == AddOperation(d, o, order, alloc)
<1>1. /\ n \in 1..n /\ 1..d.count \subseteq 1..n /\ n \notin 1..d.count
      /\ d2.index \subseteq d.index \cup {n} /\ d.index \subseteq 1..d.count
      /\ d.count \in Nat /\ d2.count = n /\ \A e \in 1..n : e \in 1..d.count \/ e = n
  BY AddFields DEF DagType
<1>2. /\ d2.nodes[n].op = o /\ d2.nodes[n].order = order
      /\ \A e \in 1..d.count : /\ d2.nodes[e].op = d.nodes[e].op
                               /\ d2.nodes[e].order = d.nodes[e].order
  BY AddKeepsOps
<1>3. ASSUME NEW c \in 1..n, NEW p \in 1..n, OlderIndexed(d2, c, p),
             IsConflict(d2.nodes[c].op, d2.nodes[p].op), SortsBefore(d2, p, c)
      PROVE  p \in d2.nodes[c].parents \/ Full(d2, p, c)
  <2>0. \A e \in 1..d.count : e # n /\ e < n /\ ~ (n < e)
    BY <1>1
  <2>1. CASE c \in 1..d.count /\ p \in 1..d.count
    <3>1. c \in 1..d.count /\ p \in 1..d.count
      BY <1>1, <2>1
    <3> HIDE DEF d2, n
    <3>0. OlderIndexed(d, c, p)
      BY <1>1, <1>3, <2>0, <2>1 DEF OlderIndexed
    <3>2. p \in d.nodes[c].parents \/ Full(d, p, c)
      BY <1>2, <1>3, <3>0, <3>1 DEF ConflictsLinked, SortsBefore
    <3> USE DEF d2, n
    <3>3. d.nodes[c].parents \subseteq d2.nodes[c].parents
      BY <3>1, AddGrows
    <3>4. /\ Cardinality(d.nodes[c].parents) \in Nat
          /\ Cardinality(d2.nodes[c].parents) \in Nat
          /\ Cardinality(d.nodes[c].parents) <= Cardinality(d2.nodes[c].parents)
      BY <3>1, AddGrows
    <3>5. /\ Cardinality(d.nodes[p].children) \in Nat
          /\ Cardinality(d2.nodes[p].children) \in Nat
          /\ Cardinality(d.nodes[p].children) <= Cardinality(d2.nodes[p].children)
      BY <3>1, AddGrows
    <3> HIDE DEF d2
    <3>6. QED
      BY <3>2, <3>3, <3>4, <3>5, MerkleDagAssumption DEF Full
  <2>2. CASE c = n /\ p \in 1..d.count
    <3>1. p \in 1..d.count /\ d.nodes[p].order \in Nat
      BY <1>1, <2>2, NodeFields
    <3>0. p \in d.index
      <4> HIDE DEF d2, n
      <4>1. QED
        BY <1>1, <1>3, <2>0, <2>2 DEF OlderIndexed
    <3>2. p \in Rivals(d, o)
      BY <1>2, <1>3, <2>2, <3>0, <3>1 DEF Rivals
    <3>3. order > d.nodes[p].order
      BY <1>1, <1>2, <1>3, <2>2, <3>1 DEF SortsBefore
    <3>4. /\ Cardinality(d.nodes[p].children) \in Nat
          /\ Cardinality(d2.nodes[p].children) \in Nat
          /\ Cardinality(d.nodes[p].children) <= Cardinality(d2.nodes[p].children)
      BY <3>1, AddGrows
    <3>5. d2.nodes[c].parents = NewParents(d, o, order)
      BY <2>2, AddArrays
    <3>6. \/ p \in NewParents(d, o, order)
          \/ ~ (Cardinality(d.nodes[p].children) < MaxChildren)
          \/ Cardinality(NewParents(d, o, order)) >= MaxParents
      BY <3>2, <3>3, NewParentsFacts
    <3> HIDE DEF d2
    <3>7. QED
      BY <3>4, <3>5, <3>6, MerkleDagAssumption DEF Full
  <2>3. CASE p = n /\ c \in 1..d.count
    <3>1. c \in 1..d.count /\ d.nodes[c].order \in Nat
      BY <1>1, <2>3, NodeFields
    <3>0. c \in d.index
      <4> HIDE DEF d2, n
      <4>1. QED
        BY <1>1, <1>3, <2>0, <2>3 DEF OlderIndexed
    <3>2. IsConflict(o, d.nodes[c].op)
      BY <1>2, <1>3, <2>3, <3>1 DEF IsConflict
    <3>3. c \in Rivals(d, o)
      BY <2>3, <3>0, <3>2 DEF Rivals
    <3>4. order <= d.nodes[c].order
      BY <1>1, <1>2, <1>3, <2>3, <3>1 DEF SortsBefore
    <3>5. /\ Cardinality(d.nodes[c].parents) \in Nat
          /\ Cardinality(d2.nodes[c].parents) \in Nat
          /\ Cardinality(d.nodes[c].parents) <= Cardinality(d2.nodes[c].parents)
      BY <3>1, AddGrows
    <3>6. d2.nodes[p].children = NewChildren(d, o, order)
      BY <2>3, AddArrays
    <3>7. \/ c \in NewChildren(d, o, order)
          \/ ~ (Cardinality(d.nodes[c].parents) < MaxParents)
          \/ Cardinality(NewChildren(d, o, order)) >= MaxChildren
      BY <3>3, <3>4, NewChildrenFacts
    <3>8. c \in NewChildren(d, o, order) => p \in d2.nodes[c].parents
      BY <1>1, <2>3, <3>1, AddEdges
    <3> HIDE DEF d2
    <3>9. QED
      BY <3>5, <3>6, <3>7, <3>8, MerkleDagAssumption DEF Full
  <2>4. CASE c = n /\ p = n
    BY <1>1, <1>2, <1>3, <2>4 DEF SortsBefore
  <2>5. QED
    BY <1>1, <2>1, <2>2, <2>3, <2>4
<1> HIDE DEF d2, n
<1>4. ConflictsLinked(d2)
  BY <1>1, <1>3 DEF ConflictsLinked
<1>5. QED
  BY <1>4 DEF d2

-----------------------------------------------------------------------------
(***************************************************************************)
(* Capacities.  A scan meets different nodes at different places, so at    *)
(* most MaxChildren of them become neighbors.                              *)
(***************************************************************************)
LEMMA ScanPlaceFacts ==
  ASSUME NEW d, DagType(d), NEW e \in Scanned(d)
  PROVE  /\ ScanPlace(d, e) \in Nat /\ ScanPlace(d, e) > 0
         /\ \A f \in Scanned(d) : ScanPlace(d, f) = ScanPlace(d, e) => f = e
<1> DEFINE L == NewLatest(d)
           V == Visible(L)
           Met(x) == {i \in V : L[i] = x}
           First(x) == CHOOSE i \in V : L[i] = x /\ \A j \in 1..i-1 : L[j] # x
<1>1. d.count \in Nat /\ L \in Seq(1..d.count+1)
  BY LatestTyped DEF DagType
<1>2. Len(L) \in Nat /\ V \subseteq 1..Len(L) /\ \A i \in V : \A j \in 1..i-1 : j \in V
  <2>1. Len(L) \in Nat
    BY <1>1, LenProperties
  <2> HIDE DEF L
  <2>2. QED
    BY <2>1, MerkleDagAssumption DEF Visible
<1>3. CASE d.count + 1 > NearScan
  <2>1. ASSUME NEW x \in Scanned(d)
        PROVE  First(x) \in V /\ L[First(x)] = x
    <3>1. Met(x) # {} /\ Met(x) \in SUBSET (1..Len(L))
      BY <1>2, <1>3, <2>1 DEF Scanned
    <3>2. \A i \in Met(x) : i \in V /\ L[i] = x
      OBVIOUS
    <3>3. \A i \in V : L[i] = x => i \in Met(x)
      OBVIOUS
    <3> HIDE DEF L, V, Met
    <3>4. IsFiniteSet(Met(x))
      BY <1>2, <3>1, NodesFinite
    <3> DEFINE rank == [i \in Met(x) |-> i]
    <3>5. \A i \in Met(x) : rank[i] \in Int /\ rank[i] = i /\ i \in Nat
      BY <1>2, <3>1
    <3> HIDE DEF rank
    <3>6. PICK m \in Met(x) : \A i \in Met(x) : rank[m] <= rank[i]
      BY <3>1, <3>4, <3>5, RankMin
    <3>7. m \in V /\ L[m] = x /\ \A j \in 1..m-1 : L[j] # x
      BY <1>2, <3>1, <3>2, <3>3, <3>5, <3>6
    <3> QED
      BY <3>7
  <2>2. \A x \in Scanned(d) : ScanPlace(d, x) = First(x)
    BY <1>3 DEF ScanPlace
  <2>3. \A x \in Scanned(d) : ScanPlace(d, x) \in V /\ L[ScanPlace(d, x)] = x
    BY <2>1, <2>2
  <2>4. \A i \in V : i \in Nat /\ i > 0
    BY <1>2
  <2> HIDE DEF L, V, First
  <2>5. QED
    BY <2>3, <2>4
<1>4. CASE ~ (d.count + 1 > NearScan)
  BY <1>1, <1>4 DEF Scanned, ScanPlace
<1>5. QED
  BY <1>3, <1>4

\* The neighbors of a new node fit in its array.
LEMMA NewNeighborsBound ==
  ASSUME NEW d, DagType(d), NEW o
  PROVE  /\ Cardinality(NewNeighbors(d, o)) \in Nat
         /\ Cardinality(NewNeighbors(d, o)) <= MaxChildren
<1> DEFINE B == InBucket(d, o)
           offered == {e \in B \cup Scanned(d) :
                         /\ ~ IsConflict(o, d.nodes[e].op)
                         /\ Cardinality(d.nodes[e].neighbors) < MaxChildren}
           rank == [e \in offered |-> IF e \in B THEN -e ELSE ScanPlace(d, e)]
<1>1. NewNeighbors(d, o) = FirstBy(offered, rank, MaxChildren)
  BY DEF NewNeighbors
<1>2. d.count \in Nat /\ B \subseteq 1..d.count /\ MaxChildren \in Nat
  BY MerkleDagAssumption DEF DagType, InBucket
<1>3. Scanned(d) \subseteq 1..d.count
  <2>1. d.count \in Nat /\ NewLatest(d) \in Seq(1..d.count+1)
    BY LatestTyped DEF DagType
  <2>2. \A i \in 1..Len(NewLatest(d)) : NewLatest(d)[i] \in 1..d.count+1
    BY <2>1, ElementOfSeq
  <2>3. \A i \in Visible(NewLatest(d)) : NewLatest(d)[i] \in 1..d.count+1
    BY <2>2 DEF Visible
  <2>4. \A x : x \in 1..d.count+1 /\ x # d.count+1 => x \in 1..d.count
    BY <1>2
  <2>5. QED
    BY <2>3, <2>4 DEF Scanned
<1>4. offered \in SUBSET (1..d.count) /\ offered \subseteq B \cup Scanned(d)
  BY <1>2, <1>3
<1>5. \A x \in offered : rank[x] = IF x \in B THEN -x ELSE ScanPlace(d, x)
  OBVIOUS
<1> HIDE DEF B, offered, rank
<1>6. IsFiniteSet(offered)
  BY <1>2, <1>4, NodesFinite
<1>7. ASSUME NEW x \in offered
      PROVE  \/ x \in B /\ rank[x] = -x /\ x \in Nat /\ x > 0
             \/ /\ x \notin B /\ x \in Scanned(d) /\ rank[x] = ScanPlace(d, x)
                /\ rank[x] \in Nat /\ rank[x] > 0
  <2>1. x \in Nat /\ x > 0
    BY <1>2, <1>4
  <2>2. CASE x \in B
    BY <1>5, <2>1, <2>2
  <2>3. CASE x \notin B
    BY <1>4, <1>5, <2>3, ScanPlaceFacts
  <2>4. QED
    BY <2>2, <2>3
<1>8. \A x \in offered : rank[x] \in Int
  BY <1>7
<1>9. ASSUME NEW x \in offered, NEW y \in offered, rank[x] = rank[y]  PROVE x = y
  <2>1. CASE x \in B /\ y \in B
    BY <1>7, <1>9, <2>1
  <2>2. CASE x \notin B /\ y \notin B
    BY <1>7, <1>9, <2>2, ScanPlaceFacts
  <2>3. CASE (x \in B) # (y \in B)
    BY <1>7, <1>9, <2>3
  <2>4. QED
    BY <2>1, <2>2, <2>3
<1>10. QED
  BY <1>1, <1>2, <1>6, <1>8, <1>9, FirstByBound

\* One more entry in an array that had a free slot fits.
LEMMA OneMoreFits ==
  ASSUME NEW n \in Nat, NEW S \in SUBSET (1..n), NEW k \in Nat, Cardinality(S) < k
  PROVE  Cardinality(S \cup {n + 1}) <= k
<1>1. IsFiniteSet(S) /\ Cardinality(S) \in Nat
  BY NodesFinite
<1>2. Cardinality(S \cup {n + 1}) \in {Cardinality(S), Cardinality(S) + 1}
  <2>1. Cardinality(S \cup {n + 1}) =
          IF n + 1 \in S THEN Cardinality(S) ELSE Cardinality(S) + 1
    BY <1>1, FS_AddElement
  <2>2. QED
    BY <2>1
<1>3. QED
  BY <1>1, <1>2

\* An insertion overruns no array.
LEMMA AddKeepsCapacity ==
  ASSUME NEW d, DagType(d), HasRoom(d), WithinCapacity(d), NEW o, NEW order, NEW alloc
  PROVE  WithinCapacity(AddOperation(d, o, order, alloc))
<1> DEFINE n  == d.count + 1
           d2 == AddOperation(d, o, order, alloc)
<1>1. /\ d2.count = n /\ d2.head = d.head /\ d2.latest = NewLatest(d)
      /\ d2.nodes[n] = NewNode(d, o, order)
      /\ \A e \in 1..d.count : d2.nodes[e] = Linked(d, o, order, e)
      /\ \A e \in 1..n : e \in 1..d.count \/ e = n
      /\ d.count \in Nat
  BY AddFields DEF DagType
<1>2. n <= MaxDagNodes /\ Len(d2.latest) <= MaxDagNodes
  <2>1. n <= MaxDagNodes
    BY <1>1, MerkleDagAssumption DEF HasRoom
  <2>2. Len(d.latest) <= MaxDagNodes
    BY DEF WithinCapacity
  <2>3. QED
    BY <1>1, <2>1, <2>2, LatestTyped
<1>3. /\ Cardinality(d2.nodes[n].parents) <= MaxParents
      /\ Cardinality(d2.nodes[n].children) <= MaxChildren
      /\ Cardinality(d2.nodes[n].neighbors) <= MaxChildren
  <2>1. /\ NewNode(d, o, order).parents = NewParents(d, o, order)
        /\ NewNode(d, o, order).children = NewChildren(d, o, order)
        /\ NewNode(d, o, order).neighbors = NewNeighbors(d, o)
    BY DEF NewNode
  <2>2. QED
    BY <1>1, <2>1, NewParentsFacts, NewChildrenFacts, NewNeighborsBound
<1>4. ASSUME NEW e \in 1..d.count
      PROVE  /\ Cardinality(d2.nodes[e].parents) <= MaxParents
             /\ Cardinality(d2.nodes[e].children) <= MaxChildren
             /\ Cardinality(d2.nodes[e].neighbors) <= MaxChildren
  <2>1. /\ d.nodes[e].parents \in SUBSET (1..d.count)
        /\ d.nodes[e].children \in SUBSET (1..d.count)
        /\ d.nodes[e].neighbors \in SUBSET (1..d.count)
    BY NodeFields
  <2>2. /\ Cardinality(d.nodes[e].parents) <= MaxParents
        /\ Cardinality(d.nodes[e].children) <= MaxChildren
        /\ Cardinality(d.nodes[e].neighbors) <= MaxChildren
    BY DEF WithinCapacity
  <2>3. d2.nodes[e] = Linked(d, o, order, e) /\ d.nodes[e] \in NodeType(d.count)
    BY <1>1 DEF DagType
  <2>4. Cardinality(d2.nodes[e].parents) <= MaxParents
    <3>1. CASE e \in NewChildren(d, o, order)
      <4>1. d2.nodes[e].parents = d.nodes[e].parents \cup {n}
        BY <2>3, <3>1 DEF Linked, NodeType
      <4>2. Cardinality(d.nodes[e].parents) < MaxParents
        BY <3>1, NewChildrenFacts
      <4>3. QED
        BY <1>1, <2>1, <4>1, <4>2, OneMoreFits, MerkleDagAssumption
    <3>2. CASE e \notin NewChildren(d, o, order)
      BY <2>2, <2>3, <3>2 DEF Linked, NodeType
    <3>3. QED
      BY <3>1, <3>2
  <2>5. Cardinality(d2.nodes[e].children) <= MaxChildren
    <3>1. CASE e \in NewParents(d, o, order)
      <4>1. d2.nodes[e].children = d.nodes[e].children \cup {n}
        BY <2>3, <3>1 DEF Linked, NodeType
      <4>2. Cardinality(d.nodes[e].children) < MaxChildren
        BY <3>1, NewParentsFacts
      <4>3. QED
        BY <1>1, <2>1, <4>1, <4>2, OneMoreFits, MerkleDagAssumption
    <3>2. CASE e \notin NewParents(d, o, order)
      BY <2>2, <2>3, <3>2 DEF Linked, NodeType
    <3>3. QED
      BY <3>1, <3>2
  <2>6. Cardinality(d2.nodes[e].neighbors) <= MaxChildren
    <3>1. CASE e \in NewNeighbors(d, o)
      <4>1. d2.nodes[e].neighbors = d.nodes[e].neighbors \cup {n}
        BY <2>3, <3>1 DEF Linked, NodeType
      <4>2. Cardinality(d.nodes[e].neighbors) < MaxChildren
        BY <3>1, NewNeighborsTyped
      <4>3. QED
        BY <1>1, <2>1, <4>1, <4>2, OneMoreFits, MerkleDagAssumption
    <3>2. CASE e \notin NewNeighbors(d, o)
      BY <2>2, <2>3, <3>2 DEF Linked, NodeType
    <3>3. QED
      BY <3>1, <3>2
  <2>7. QED
    BY <2>4, <2>5, <2>6
<1>5. Cardinality(d2.head) <= MaxChildren
  BY <1>1 DEF WithinCapacity
<1> HIDE DEF d2
<1>6. QED
  BY <1>1, <1>2, <1>3, <1>4, <1>5 DEF WithinCapacity, d2

-----------------------------------------------------------------------------
(***************************************************************************)
(* The other operations on a DAG only set flags and the head: the graph,   *)
(* that is the operations (but for the verdict in valid), their orders and *)
(* the arrays, stays what it was.                                          *)
(***************************************************************************)
SameOp(o, q) ==
  /\ q.id = o.id /\ q.tx = o.tx /\ q.type = o.type
  /\ q.token = o.token /\ q.account = o.account /\ q.amount = o.amount

SameGraph(d, d2) ==
  /\ d2.count = d.count /\ d2.index = d.index /\ d2.latest = d.latest
  /\ \A e \in 1..d.count :
        /\ SameOp(d.nodes[e].op, d2.nodes[e].op)
        /\ d2.nodes[e].order = d.nodes[e].order
        /\ d2.nodes[e].parents = d.nodes[e].parents
        /\ d2.nodes[e].children = d.nodes[e].children
        /\ d2.nodes[e].neighbors = d.nodes[e].neighbors

\* The structural properties depend on the graph alone.
LEMMA SameGraphKeeps ==
  ASSUME NEW d, DagType(d), NEW d2, SameGraph(d, d2)
  PROVE  /\ EdgesSorted(d) => EdgesSorted(d2)
         /\ EdgesMutual(d) => EdgesMutual(d2)
         /\ EdgesConflict(d) => EdgesConflict(d2)
         /\ ConflictsLinked(d) => ConflictsLinked(d2)
         /\ WithinCapacity(d) /\ Cardinality(d2.head) <= MaxChildren => WithinCapacity(d2)
<1>1. \A c \in 1..d.count : d.nodes[c].parents \subseteq 1..d.count
  BY NodeFields
<1>2. d.index \subseteq 1..d.count
  BY DEF DagType
<1>3. EdgesSorted(d) => EdgesSorted(d2)
  BY <1>1 DEF SameGraph, EdgesSorted, SortsBefore
<1>4. EdgesMutual(d) => EdgesMutual(d2)
  BY DEF SameGraph, EdgesMutual
<1>5. EdgesConflict(d) => EdgesConflict(d2)
  BY <1>1 DEF SameGraph, SameOp, EdgesConflict, IsConflict
<1>6. ConflictsLinked(d) => ConflictsLinked(d2)
  <2>1. \A c, p \in 1..d.count :
           IsConflict(d2.nodes[c].op, d2.nodes[p].op)
             => IsConflict(d.nodes[c].op, d.nodes[p].op)
    BY DEF SameGraph, SameOp, IsConflict
  <2>2. QED
    BY <2>1 DEF SameGraph, ConflictsLinked, OlderIndexed, SortsBefore, Full
<1>7. WithinCapacity(d) /\ Cardinality(d2.head) <= MaxChildren => WithinCapacity(d2)
  BY DEF SameGraph, WithinCapacity
<1>8. QED
  BY <1>3, <1>4, <1>5, <1>6, <1>7

\* A new head fits in its array and leaves the graph alone.
LEMMA GenerateHeadKeeps ==
  ASSUME NEW d, DagType(d)
  PROVE  /\ DagType(GenerateHead(d)) /\ SameGraph(d, GenerateHead(d))
         /\ Cardinality(GenerateHead(d).head) <= MaxChildren
<1> DEFINE T == {e \in 1..d.count : d.nodes[e].children = {} /\ ~ d.nodes[e].processed}
           H == Oldest(T, MaxChildren)
           nodes == [e \in 1..d.count |->
                       IF e \in H THEN [d.nodes[e] EXCEPT !.headCandidate = TRUE]
                                  ELSE d.nodes[e]]
           d2 == GenerateHead(d)
<1>1. d.count \in Nat /\ T \in SUBSET (1..d.count) /\ MaxChildren \in Nat
  BY MerkleDagAssumption DEF DagType
<1>2. H \subseteq 1..d.count /\ Cardinality(H) <= MaxChildren
  <2> HIDE DEF T
  <2>1. H \subseteq T /\ Cardinality(H) <= MaxChildren
    BY <1>1, OldestFacts
  <2>2. QED
    BY <1>1, <2>1
<1>3. d2 = [d EXCEPT !.head = H, !.nodes = nodes]
  BY DEF GenerateHead
<1> HIDE DEF T, H
<1>4. \A e \in 1..d.count :
         /\ nodes[e] \in NodeType(d.count)
         /\ nodes[e].op = d.nodes[e].op /\ nodes[e].order = d.nodes[e].order
         /\ nodes[e].parents = d.nodes[e].parents
         /\ nodes[e].children = d.nodes[e].children
         /\ nodes[e].neighbors = d.nodes[e].neighbors
  <2>1. ASSUME NEW e \in 1..d.count
        PROVE  /\ nodes[e] \in NodeType(d.count)
               /\ nodes[e].op = d.nodes[e].op /\ nodes[e].order = d.nodes[e].order
               /\ nodes[e].parents = d.nodes[e].parents
               /\ nodes[e].children = d.nodes[e].children
               /\ nodes[e].neighbors = d.nodes[e].neighbors
    <3>1. d.nodes[e] \in NodeType(d.count)
      BY DEF DagType
    <3>2. CASE e \in H
      BY <3>1, <3>2 DEF NodeType
    <3>3. CASE e \notin H
      BY <3>1, <3>3
    <3>4. QED
      BY <3>2, <3>3
  <2> HIDE DEF nodes
  <2>2. QED
    BY <2>1
<1>5. nodes \in [1..d.count -> NodeType(d.count)]
  BY <1>4
<1> HIDE DEF nodes, d2
<1>6. /\ d2 = [count |-> d.count, nodes |-> nodes, latest |-> d.latest,
               index |-> d.index, head |-> H]
  BY <1>3 DEF DagType
<1>7. QED
  BY <1>2, <1>4, <1>5, <1>6 DEF DagType, SameGraph, SameOp, d2

\* Marking nodes as applied leaves the graph and the head alone.
LEMMA MarkAppliedKeeps ==
  ASSUME NEW d, DagType(d), NEW S, NEW processed \in BOOLEAN
  PROVE  /\ DagType(MarkApplied(d, S, processed))
         /\ SameGraph(d, MarkApplied(d, S, processed))
         /\ MarkApplied(d, S, processed).head = d.head
<1> DEFINE nodes == [e \in 1..d.count |->
                       IF e \in S
                         THEN [d.nodes[e] EXCEPT !.applied = TRUE,
                                                 !.processed = @ \/ processed]
                         ELSE d.nodes[e]]
           d2 == MarkApplied(d, S, processed)
<1>1. d2 = [d EXCEPT !.nodes = nodes]
  BY DEF MarkApplied
<1>2. \A e \in 1..d.count :
         /\ nodes[e] \in NodeType(d.count)
         /\ nodes[e].op = d.nodes[e].op /\ nodes[e].order = d.nodes[e].order
         /\ nodes[e].parents = d.nodes[e].parents
         /\ nodes[e].children = d.nodes[e].children
         /\ nodes[e].neighbors = d.nodes[e].neighbors
  <2>1. ASSUME NEW e \in 1..d.count
        PROVE  /\ nodes[e] \in NodeType(d.count)
               /\ nodes[e].op = d.nodes[e].op /\ nodes[e].order = d.nodes[e].order
               /\ nodes[e].parents = d.nodes[e].parents
               /\ nodes[e].children = d.nodes[e].children
               /\ nodes[e].neighbors = d.nodes[e].neighbors
    <3>1. d.nodes[e] \in NodeType(d.count)
      BY DEF DagType
    <3>2. (d.nodes[e].processed \/ processed) \in BOOLEAN
      OBVIOUS
    <3>3. CASE e \in S
      BY <3>1, <3>2, <3>3 DEF NodeType
    <3>4. CASE e \notin S
      BY <3>1, <3>4
    <3>5. QED
      BY <3>3, <3>4
  <2> HIDE DEF nodes
  <2>2. QED
    BY <2>1
<1>3. nodes \in [1..d.count -> NodeType(d.count)]
  BY <1>2
<1> HIDE DEF nodes, d2
<1>4. d2 = [count |-> d.count, nodes |-> nodes, latest |-> d.latest,
            index |-> d.index, head |-> d.head]
  BY <1>1 DEF DagType
<1>5. QED
  BY <1>2, <1>3, <1>4 DEF DagType, SameGraph, SameOp, d2

\* The DAG of merkle_crdt_init is in order.
LEMMA EmptyDagFacts ==
  /\ DagType(EmptyDag) /\ EdgesSorted(EmptyDag) /\ EdgesMutual(EmptyDag)
  /\ EdgesConflict(EmptyDag) /\ ConflictsLinked(EmptyDag)
<1>1. EmptyDag.count = 0 /\ EmptyDag.index = {} /\ 1..0 = {}
  BY DEF EmptyDag
<1>2. EmptyDag.nodes \in [1..0 -> NodeType(0)] /\ << >> \in Seq(1..0)
  BY <1>1 DEF EmptyDag
<1>3. DagType(EmptyDag)
  BY <1>1, <1>2, MerkleDagAssumption DEF DagType, EmptyDag
<1>4. QED
  BY <1>1, <1>3 DEF EdgesSorted, EdgesMutual, EdgesConflict, ConflictsLinked

-----------------------------------------------------------------------------
(***************************************************************************)
(* Which nodes the epoch loop can leave out.  Late says of any DAG what    *)
(* OnlyLateSkipped says of dag; flags are only ever set, so only the       *)
(* insertion of a node needs an argument: it applies the parents of the    *)
(* new node, which are the only nodes that get a younger child, unless an  *)
(* older node has the new node's id.                                       *)
(***************************************************************************)
Late(d) ==
  \A e \in 1..d.count :
     ~ d.nodes[e].applied => \A c \in d.nodes[e].children : c < e \/ RepeatsId(d, c)

\* What is marked, and what was, is applied.
LEMMA MarkAppliedFlags ==
  ASSUME NEW d, DagType(d), NEW S, NEW processed, NEW e \in 1..d.count,
         d.nodes[e].applied \/ e \in S
  PROVE  MarkApplied(d, S, processed).nodes[e].applied
<1>1. d.nodes[e] \in NodeType(d.count)
  BY DEF DagType
<1>2. d = [count |-> d.count, nodes |-> d.nodes, latest |-> d.latest,
           index |-> d.index, head |-> d.head]
  BY DEF DagType
<1>3. MarkApplied(d, S, processed).nodes[e] =
        IF e \in S
          THEN [d.nodes[e] EXCEPT !.applied = TRUE,
                                  !.processed = d.nodes[e].processed \/ processed]
          ELSE d.nodes[e]
  BY <1>2 DEF MarkApplied
<1>4. CASE e \in S
  BY <1>1, <1>3, <1>4 DEF NodeType
<1>5. CASE e \notin S
  BY <1>3, <1>5
<1>6. QED
  BY <1>4, <1>5

\* A new head takes no flag back.
LEMMA GenerateHeadFlags ==
  ASSUME NEW d, DagType(d), NEW e \in 1..d.count, d.nodes[e].applied
  PROVE  GenerateHead(d).nodes[e].applied
<1>1. d.nodes[e] \in NodeType(d.count)
  BY DEF DagType
<1>2. d = [count |-> d.count, nodes |-> d.nodes, latest |-> d.latest,
           index |-> d.index, head |-> d.head]
  BY DEF DagType
<1>3. \/ GenerateHead(d).nodes[e] = d.nodes[e]
      \/ GenerateHead(d).nodes[e] = [d.nodes[e] EXCEPT !.headCandidate = TRUE]
  BY <1>2 DEF GenerateHead
<1>4. QED
  BY <1>1, <1>3 DEF NodeType

\* An insertion applies no old node.
LEMMA AddAppliesNothing ==
  ASSUME NEW d, DagType(d), NEW o, NEW order, NEW alloc, NEW e \in 1..d.count
  PROVE  AddOperation(d, o, order, alloc).nodes[e].applied = d.nodes[e].applied
<1>1. /\ AddOperation(d, o, order, alloc).nodes[e] = Linked(d, o, order, e)
      /\ d.nodes[e] \in NodeType(d.count)
  BY AddFields DEF DagType
<1>2. Linked(d, o, order, e).applied = d.nodes[e].applied
  BY <1>1 DEF Linked, NodeType
<1>3. QED
  BY <1>1, <1>2

\* The children an old node has after an insertion.
LEMMA AddChildren ==
  ASSUME NEW d, DagType(d), NEW o, NEW order, NEW alloc, NEW e \in 1..d.count,
         NEW c \in AddOperation(d, o, order, alloc).nodes[e].children
  PROVE  c \in d.nodes[e].children \/ (c = d.count + 1 /\ e \in NewParents(d, o, order))
<1>1. AddOperation(d, o, order, alloc).nodes[e] = Linked(d, o, order, e)
  BY AddFields
<1>2. /\ Linked(d, o, order, e).parents =
           IF e \in NewChildren(d, o, order) THEN d.nodes[e].parents \cup {d.count + 1}
                                             ELSE d.nodes[e].parents
      /\ Linked(d, o, order, e).children =
           IF e \in NewParents(d, o, order) THEN d.nodes[e].children \cup {d.count + 1}
                                            ELSE d.nodes[e].children
  BY LinkedArrays
<1>3. QED
  BY <1>1, <1>2

\* Setting flags on a graph that stays the same leaves out no more nodes.
LEMMA FlagsKeepLate ==
  ASSUME NEW d, DagType(d), Late(d), NEW d2, SameGraph(d, d2),
         \A e \in 1..d.count : d.nodes[e].applied => d2.nodes[e].applied
  PROVE  Late(d2)
<1>1. ASSUME NEW c \in 1..d.count, RepeatsId(d, c)  PROVE RepeatsId(d2, c)
  BY <1>1 DEF RepeatsId, SameGraph, SameOp
<1>2. \A e \in 1..d.count : \A c \in d.nodes[e].children : c \in 1..d.count
  BY NodeFields
<1>3. QED
  BY <1>1, <1>2 DEF Late, SameGraph

\* Unless its id is one that an older node bears, the lookup finds the new node.
LEMMA LookupFindsNew ==
  ASSUME NEW d, DagType(d), NEW o, NEW order, NEW alloc,
         ~ RepeatsId(AddOperation(d, o, order, alloc), d.count + 1)
  PROVE  FirstWithId(AddOperation(d, o, order, alloc), o.id) = d.count + 1
<1> DEFINE n == d.count + 1
           a == AddOperation(d, o, order, alloc)
<1>0. d.count \in Nat
  BY MerkleDagAssumption DEF DagType
<1>1. a.count = n /\ n \in 1..n /\ a.nodes[n].op.id = o.id
  BY <1>0, AddFields, AddKeepsOps
<1>2. \A e \in 1..n : a.nodes[e].op.id = o.id => e = n
  BY <1>0, <1>1 DEF RepeatsId
<1>3. \A f \in 1..n-1 : f \in 1..n /\ f # n
  BY <1>0
<1> HIDE DEF a, n
<1>4. \A f \in 1..n-1 : a.nodes[f].op.id # o.id
  BY <1>2, <1>3
<1>5. \A e \in 1..n :
         (a.nodes[e].op.id = o.id /\ \A f \in 1..e-1 : a.nodes[f].op.id # o.id) <=> e = n
  BY <1>1, <1>2, <1>4
<1>6. FirstWithId(a, o.id) = n
  BY <1>1, <1>5 DEF FirstWithId
<1>7. QED
  BY <1>6 DEF a, n

\* An insertion with the application of the new node's parents.
LEMMA SubmitKeepsLate ==
  ASSUME NEW d, DagType(d), Late(d), HasRoom(d),
         NEW o \in Operations, NEW order \in Nat, NEW alloc,
         NEW a, a = AddOperation(d, o, order, alloc),
         NEW d2,
         d2 = MarkApplied(a, Unapplied(a, a.nodes[FirstWithId(a, o.id)].parents), FALSE)
  PROVE  Late(d2)
<1> DEFINE n == d.count + 1
           S == Unapplied(a, a.nodes[FirstWithId(a, o.id)].parents)
<1>1. DagType(a) /\ a.count = n /\ d.count \in Nat
  <2>1. DagType(a)
    BY AddType
  <2>2. a.count = n
    BY AddFields
  <2>3. d.count \in Nat
    BY DEF DagType
  <2>4. QED
    BY <2>1, <2>2, <2>3
<1>2. /\ SameGraph(a, d2) /\ d2.count = n
      /\ \A f \in 1..n : d2.nodes[f].children = a.nodes[f].children
  <2>1. SameGraph(a, d2)
    BY <1>1, MarkAppliedKeeps
  <2>2. QED
    BY <1>1, <2>1 DEF SameGraph
<1>3. SUFFICES ASSUME NEW e \in 1..n, ~ d2.nodes[e].applied,
                      NEW c \in d2.nodes[e].children, ~ RepeatsId(d2, c)
               PROVE  c < e
  <2> HIDE DEF n, S
  <2>1. QED
    BY <1>2 DEF Late
<1>4. \A f \in 1..n : RepeatsId(a, f) => RepeatsId(d2, f)
  <2> HIDE DEF n, S
  <2>1. \A f \in 1..n : a.nodes[f].op.id = d2.nodes[f].op.id
    BY <1>1, <1>2 DEF SameGraph, SameOp
  <2>2. ASSUME NEW f \in 1..n, RepeatsId(a, f)  PROVE RepeatsId(d2, f)
    <3>1. PICK g \in 1..n : g < f /\ a.nodes[g].op.id = a.nodes[f].op.id
      BY <1>1, <2>2 DEF RepeatsId
    <3>2. d2.nodes[g].op.id = d2.nodes[f].op.id /\ g \in 1..d2.count
      BY <1>2, <2>1, <3>1
    <3>3. QED
      BY <3>1, <3>2 DEF RepeatsId
  <2>3. QED
    BY <2>2
<1>5. ASSUME ~ RepeatsId(a, n)
      PROVE  S = {p \in NewParents(d, o, order) : ~ a.nodes[p].applied}
  <2>1. FirstWithId(a, o.id) = n
    BY <1>5, LookupFindsNew
  <2>2. a.nodes[n].parents = NewParents(d, o, order)
    BY AddArrays
  <2>3. QED
    BY <2>1, <2>2 DEF Unapplied
<1>6. ~ a.nodes[e].applied /\ (~ RepeatsId(a, n) => e \notin NewParents(d, o, order))
  <2>1. ~ (a.nodes[e].applied \/ e \in S)
    <3> HIDE DEF S
    <3>1. d2 = MarkApplied(a, S, FALSE) /\ e \in 1..a.count
      BY <1>1 DEF S
    <3>2. QED
      BY <1>1, <1>3, <3>1, MarkAppliedFlags
  <2>2. QED
    BY <1>5, <2>1
<1>7. c \in a.nodes[e].children
  BY <1>2, <1>3
<1>8. CASE e = n
  <2>1. c \in NewChildren(d, o, order)
    BY <1>7, <1>8, AddArrays
  <2>2. c \in 1..d.count
    BY <2>1, NewChildrenFacts
  <2>3. QED
    BY <1>1, <1>8, <2>2
<1>9. CASE e # n
  <2>1. e \in 1..d.count
    BY <1>1, <1>9
  <2>2. \/ c \in d.nodes[e].children
        \/ c = n /\ e \in NewParents(d, o, order)
    BY <1>7, <2>1, AddChildren
  <2>3. ~ (c = n /\ e \in NewParents(d, o, order))
    <3>1. n \in 1..n
      BY <1>1
    <3> HIDE DEF n, S
    <3>2. QED
      BY <1>3, <1>4, <1>6, <3>1
  <2>4. a.nodes[e].applied = d.nodes[e].applied
    BY <2>1, AddAppliesNothing
  <2>5. c \in 1..d.count /\ ~ RepeatsId(d, c)
    <3>1. c \in 1..d.count
      BY <2>1, <2>2, <2>3, NodeFields
    <3>2. RepeatsId(d, c) => RepeatsId(a, c)
      <4>1. 1..d.count \subseteq 1..a.count
        BY <1>1
      <4>2. \A f \in 1..d.count : a.nodes[f].op = d.nodes[f].op
        BY AddKeepsOps
      <4>3. QED
        BY <3>1, <4>1, <4>2 DEF RepeatsId
    <3>3. c \in 1..n
      BY <1>1, <3>1
    <3>4. QED
      BY <1>3, <1>4, <3>1, <3>2, <3>3
  <2>6. QED
    BY <1>6, <2>1, <2>2, <2>3, <2>4, <2>5 DEF Late
<1>10. QED
  BY <1>8, <1>9

-----------------------------------------------------------------------------
(***************************************************************************)
(* A DAG that is fed in order: the orders of the nodes follow the arrival. *)
(* When no transaction touches a balance twice either, no node finds an    *)
(* older one to be its child, every edge leads from an older node to a     *)
(* younger one, and a node that is not applied - Late says that its        *)
(* children are all older than itself - has no child at all.               *)
(***************************************************************************)
Numbered(d) ==
  /\ \A e \in 1..d.count : d.nodes[e].order = d.nodes[e].op.tx
  /\ \A e, f \in 1..d.count : e < f => d.nodes[e].order <= d.nodes[f].order

OneBalance(o, q) == o.tx = q.tx /\ o.token = q.token /\ o.account = q.account

OncePerTx(d) ==
  \A e, f \in 1..d.count : OneBalance(d.nodes[e].op, d.nodes[f].op) => e = f

Forward(d) == \A c \in 1..d.count : \A p \in d.nodes[c].parents : p < c

\* All of this is about the graph alone.
LEMMA SameGraphKeepsOrder ==
  ASSUME NEW d, NEW d2, DagType(d), SameGraph(d, d2)
  PROVE  /\ UniqueIds(d) => UniqueIds(d2)
         /\ Numbered(d) => Numbered(d2)
         /\ OncePerTx(d) <=> OncePerTx(d2)
         /\ Forward(d) => Forward(d2)
<1>1. UniqueIds(d) => UniqueIds(d2)
  BY DEF UniqueIds, SameGraph, SameOp
<1>2. Numbered(d) => Numbered(d2)
  BY DEF Numbered, SameGraph, SameOp
<1>3. OncePerTx(d) <=> OncePerTx(d2)
  BY DEF OncePerTx, OneBalance, SameGraph, SameOp
<1>4. Forward(d) => Forward(d2)
  BY DEF Forward, SameGraph
<1>5. QED
  BY <1>1, <1>2, <1>3, <1>4

\* An operation with an id of its own keeps the ids unique.
LEMMA AddKeepsUnique ==
  ASSUME NEW d, DagType(d), UniqueIds(d), NEW o, NEW order, NEW alloc,
         \A e \in 1..d.count : d.nodes[e].op.id # o.id
  PROVE  UniqueIds(AddOperation(d, o, order, alloc))
<1> DEFINE a == AddOperation(d, o, order, alloc)
           n == d.count + 1
<1>1. a.count = n /\ \A e \in 1..n : e \in 1..d.count \/ e = n
  BY AddFields
<1>2. a.nodes[n].op = o /\ \A e \in 1..d.count : a.nodes[e].op = d.nodes[e].op
  BY AddKeepsOps
<1> HIDE DEF a, n
<1>3. ASSUME NEW e \in 1..n, NEW f \in 1..n, a.nodes[e].op.id = a.nodes[f].op.id
      PROVE  e = f
  BY <1>1, <1>2, <1>3 DEF UniqueIds
<1>4. UniqueIds(a)
  BY <1>1, <1>3 DEF UniqueIds
<1>5. QED
  BY <1>4 DEF a

\* A transaction that touches no balance twice has not done so before.
LEMMA AddOnce ==
  ASSUME NEW d, DagType(d), NEW o, NEW order, NEW alloc
  PROVE  OncePerTx(AddOperation(d, o, order, alloc)) <=>
           OncePerTx(d) /\ \A e \in 1..d.count : ~ OneBalance(d.nodes[e].op, o)
<1> DEFINE a == AddOperation(d, o, order, alloc)
           n == d.count + 1
<1>1. /\ a.count = n /\ \A e \in 1..n : e \in 1..d.count \/ e = n
      /\ n \in 1..n /\ n \notin 1..d.count /\ 1..d.count \subseteq 1..n
  BY AddFields
<1>2. a.nodes[n].op = o /\ \A e \in 1..d.count : a.nodes[e].op = d.nodes[e].op
  BY AddKeepsOps
<1> HIDE DEF a, n
<1>3. ASSUME OncePerTx(a)
      PROVE  OncePerTx(d) /\ \A e \in 1..d.count : ~ OneBalance(d.nodes[e].op, o)
  <2>1. OncePerTx(d)
    BY <1>1, <1>2, <1>3 DEF OncePerTx
  <2>2. ASSUME NEW e \in 1..d.count  PROVE ~ OneBalance(d.nodes[e].op, o)
    BY <1>1, <1>2, <1>3 DEF OncePerTx
  <2>3. QED
    BY <2>1, <2>2
<1>4. ASSUME OncePerTx(d), \A e \in 1..d.count : ~ OneBalance(d.nodes[e].op, o)
      PROVE  OncePerTx(a)
  <2>1. \A e \in 1..d.count : ~ OneBalance(o, d.nodes[e].op)
    BY <1>4 DEF OneBalance
  <2>2. ASSUME NEW e \in 1..n, NEW f \in 1..n, OneBalance(a.nodes[e].op, a.nodes[f].op)
        PROVE  e = f
    BY <1>1, <1>2, <1>4, <2>1, <2>2 DEF OncePerTx
  <2>3. QED
    BY <1>1, <2>2 DEF OncePerTx
<1>5. QED
  BY <1>3, <1>4 DEF a

\* The next operation of the chain.
LEMMA AddKeepsNumbered ==
  ASSUME NEW d, DagType(d), Numbered(d), NEW o, NEW alloc, o.tx \in Nat,
         \A e \in 1..d.count : d.nodes[e].order <= o.tx
  PROVE  Numbered(AddOperation(d, o, o.tx, alloc))
<1> DEFINE a == AddOperation(d, o, o.tx, alloc)
           n == d.count + 1
<1>0. d.count \in Nat
  BY MerkleDagAssumption DEF DagType
<1>1. a.count = n /\ \A e \in 1..n : e \in 1..d.count \/ e = n
  BY AddFields
<1>2. /\ a.nodes[n].op = o /\ a.nodes[n].order = o.tx
      /\ \A e \in 1..d.count : /\ a.nodes[e].op = d.nodes[e].op
                               /\ a.nodes[e].order = d.nodes[e].order
  BY AddKeepsOps
<1> HIDE DEF a
<1>3. ASSUME NEW e \in 1..n  PROVE a.nodes[e].order = a.nodes[e].op.tx
  BY <1>1, <1>2 DEF Numbered
<1>4. ASSUME NEW e \in 1..n, NEW f \in 1..n, e < f
      PROVE  a.nodes[e].order <= a.nodes[f].order
  <2>1. e \in 1..d.count
    BY <1>0, <1>1, <1>4
  <2>2. CASE f = n
    BY <1>2, <2>1, <2>2
  <2>3. CASE f \in 1..d.count
    BY <1>2, <1>4, <2>1, <2>3 DEF Numbered
  <2>4. QED
    BY <1>1, <2>2, <2>3
<1>5. Numbered(a)
  BY <1>1, <1>3, <1>4 DEF Numbered
<1>6. QED
  BY <1>5 DEF a

\* The next operation of a chain finds no rival that sorts after it.
LEMMA NoLateChild ==
  ASSUME NEW d, DagType(d), Numbered(d), NEW o, o.tx \in Nat,
         \A e \in 1..d.count : d.nodes[e].order <= o.tx,
         \A e \in 1..d.count : ~ OneBalance(d.nodes[e].op, o)
  PROVE  NewChildren(d, o, o.tx) = {}
<1>1. SUFFICES ASSUME NEW e \in NewChildren(d, o, o.tx)  PROVE FALSE
  OBVIOUS
<1>2. e \in Rivals(d, o) /\ o.tx <= d.nodes[e].order /\ e \in 1..d.count
  BY NewChildrenFacts
<1>3. d.nodes[e].order \in Nat
  BY <1>2, NodeFields
<1>4. d.nodes[e].order = o.tx
  BY <1>2, <1>3
<1>5. d.nodes[e].op.tx = o.tx
  BY <1>2, <1>4 DEF Numbered
<1>6. d.nodes[e].op.account = o.account /\ d.nodes[e].op.token = o.token
  BY <1>2 DEF Rivals, IsConflict
<1>7. QED
  BY <1>2, <1>5, <1>6 DEF OneBalance

\* It becomes a child, never a parent.
LEMMA AddKeepsForward ==
  ASSUME NEW d, DagType(d), Numbered(d), Forward(d), NEW o, o.tx \in Nat, NEW alloc,
         \A e \in 1..d.count : d.nodes[e].order <= o.tx,
         \A e \in 1..d.count : ~ OneBalance(d.nodes[e].op, o)
  PROVE  Forward(AddOperation(d, o, o.tx, alloc))
<1> DEFINE a == AddOperation(d, o, o.tx, alloc)
           n == d.count + 1
<1>0. d.count \in Nat
  BY MerkleDagAssumption DEF DagType
<1>1. a.count = n
  BY AddFields
<1>2. ASSUME NEW c \in 1..n, NEW p \in a.nodes[c].parents  PROVE p < c
  <2>1. \/ c \in 1..d.count /\ p \in 1..d.count /\ p \in d.nodes[c].parents
        \/ c = n /\ p \in 1..d.count
    BY <1>2, AddParents, NoLateChild
  <2>2. QED
    BY <1>0, <2>1 DEF Forward
<1> HIDE DEF a
<1>3. Forward(a)
  BY <1>1, <1>2 DEF Forward
<1>4. QED
  BY <1>3 DEF a

\* A node that is not applied has no child.
LEMMA ForwardApplied ==
  ASSUME NEW d, DagType(d), EdgesMutual(d), UniqueIds(d), Late(d), Forward(d),
         NEW p \in 1..d.count, d.nodes[p].children # {}
  PROVE  d.nodes[p].applied
<1>1. PICK c \in d.nodes[p].children : TRUE
  OBVIOUS
<1>2. c \in 1..d.count /\ d.count \in Nat
  BY NodeFields
<1>3. p \in d.nodes[c].parents
  BY <1>2 DEF EdgesMutual
<1>4. p < c
  BY <1>2, <1>3 DEF Forward
<1>5. ~ RepeatsId(d, c)
  BY <1>2 DEF UniqueIds, RepeatsId
<1>6. QED
  BY <1>1, <1>2, <1>4, <1>5 DEF Late
=============================================================================
