-------------------------- MODULE OmniBridgeProofs --------------------------
(***************************************************************************)
(* The contracts of L1 and of any number of chains, under any calls: first *)
(* TEENodeManagement and OmniL1 alone, for every number of nodes, keys,    *)
(* roots and epochs; then the OmniL2 contracts, whatever their roots prove *)
(* and however long their lists grow; at last what relates them, with      *)
(* relays that may be late, repeated, reordered or missing, and with syncs *)
(* of anybody to roots that L1 never published.                            *)
(***************************************************************************)
EXTENDS OmniBridge, SequenceLemmas, FiniteSetTheorems

\* A key counts the different nodes that submitted it; a confirmed one has some.
KeysCounted ==
  \A k \in TssKeys :
     /\ tssSubmission[k].submissionCount = Cardinality(tssSubmission[k].submittedNodes)
     /\ tssSubmission[k].isConfirmed => tssSubmission[k].submittedNodes # {}

TeeIInv == TeeTypeOK /\ ActivationsAgree /\ KeysCounted

L1IInv == TeeIInv /\ L1TypeOK /\ LatestIsNewest /\ PublishedUnderTSSKey

-----------------------------------------------------------------------------
\* A freshly deployed TEENodeManagement is in order.
LEMMA TeeInitOK == TeeInit => TeeIInv
<1> SUFFICES ASSUME TeeInit PROVE TeeIInv
  OBVIOUS
<1>1. TeeTypeOK
  BY TEENodeManagementAssumption DEF TeeInit, TeeTypeOK, NodeIds, Epochs
<1>2. ActivationsAgree
  <2>1. ToSet(<< >>) = {} /\ Cardinality({}) = 0
    BY FS_EmptySet DEF ToSet
  <2>2. \A e \in Epochs : activeIn[e].activeNodeCount = 0 /\ activeIn[e].activeNodeIds = << >>
    BY DEF TeeInit
  <2>3. DOMAIN teeNodes = {}
    BY DEF TeeInit
  <2> QED BY <2>1, <2>2, <2>3 DEF ActivationsAgree
<1>3. KeysCounted
  BY FS_EmptySet DEF TeeInit, KeysCounted
<1> QED BY <1>1, <1>2, <1>3 DEF TeeIInv

\* Sets of node ids and lists of them have a cardinality.
LEMMA NodeSetsFinite ==
  /\ \A S \in SUBSET NodeIds : IsFiniteSet(S)
  /\ \A s \in Seq(NodeIds) : ToSet(s) \in SUBSET NodeIds
<1>1. IsFiniteSet(NodeIds)
  BY FS_Interval, TEENodeManagementAssumption DEF NodeIds
<1>2. \A S \in SUBSET NodeIds : IsFiniteSet(S)
  BY <1>1, FS_Subset
<1>3. \A s \in Seq(NodeIds) : ToSet(s) \in SUBSET NodeIds
  BY DEF ToSet
<1> QED BY <1>2, <1>3

\* A registration appends an inactive node.
LEMMA RegisterOK ==
  ASSUME TeeIInv, NEW sender \in Addresses, RegisterTEENode(sender)
  PROVE  TeeIInv'
<1> DEFINE node == [nodeAddress |-> sender, isActive |-> FALSE, lastActiveEpoch |-> 0]
           NodeT == [nodeAddress : Addresses, isActive : BOOLEAN, lastActiveEpoch : Epochs]
<1>1. node \in NodeT
  BY TEENodeManagementAssumption DEF Epochs
<1>2. teeNodes \in Seq(NodeT) /\ teeNodes' = Append(teeNodes, node) /\ Len(teeNodes) < MaxNodes
  BY DEF RegisterTEENode, TeeIInv, TeeTypeOK
<1> HIDE DEF NodeT
<1>3. /\ teeNodes' \in Seq(NodeT) /\ Len(teeNodes') <= MaxNodes
      /\ DOMAIN teeNodes' = DOMAIN teeNodes \cup {Len(teeNodes) + 1}
      /\ \A i \in DOMAIN teeNodes : teeNodes'[i] = teeNodes[i]
      /\ teeNodes'[Len(teeNodes) + 1] = node
  BY <1>1, <1>2, TEENodeManagementAssumption
<1>4. TeeTypeOK'
  BY <1>3 DEF RegisterTEENode, TeeIInv, TeeTypeOK, NodeT
<1>5. ActivationsAgree'
  BY <1>3 DEF RegisterTEENode, TeeIInv, ActivationsAgree
<1>6. KeysCounted'
  BY DEF RegisterTEENode, TeeIInv, KeysCounted
<1> QED BY <1>4, <1>5, <1>6 DEF TeeIInv

\* A new entry of a list is counted; the node's own record names a list it is on.
LEMMA ActivateOK ==
  ASSUME TeeIInv, NEW sender \in Addresses, NEW nodeId \in DOMAIN teeNodes, NEW e \in Epochs,
         ActivateNode(sender, nodeId, e)
  PROVE  TeeIInv'
<1> DEFINE NodeT == [nodeAddress : Addresses, isActive : BOOLEAN, lastActiveEpoch : Epochs]
           ActT  == [activeNodeIds : Seq(NodeIds), activeNodeCount : Nat]
           old   == activeIn[e]
           new   == [old EXCEPT !.activeNodeIds = Append(old.activeNodeIds, nodeId),
                                !.activeNodeCount = old.activeNodeCount + 1]
<1>1. /\ teeNodes \in Seq(NodeT) /\ Len(teeNodes) <= MaxNodes /\ activeIn \in [Epochs -> ActT]
      /\ nodeId \in NodeIds
  BY TEENodeManagementAssumption DEF TeeIInv, TeeTypeOK, NodeIds
<1>2. /\ old \in ActT /\ new \in ActT
      /\ new.activeNodeIds = Append(old.activeNodeIds, nodeId)
      /\ new.activeNodeCount = old.activeNodeCount + 1
  <2>1. old \in ActT
    BY <1>1
  <2> HIDE DEF old
  <2> DEFINE ids == Append(old.activeNodeIds, nodeId)
             count == old.activeNodeCount + 1
  <2>2. ids \in Seq(NodeIds) /\ count \in Nat
    BY <1>1, <2>1
  <2> HIDE DEF ids, count
  <2>3. LET o == [old EXCEPT !.activeNodeIds = ids, !.activeNodeCount = count]
        IN  o \in ActT /\ o.activeNodeIds = ids /\ o.activeNodeCount = count
    BY <2>1, <2>2
  <2> QED BY <2>1, <2>3 DEF ids, count
<1>3. activeIn' = IF nodeId \in ToSet(old.activeNodeIds) THEN activeIn
                  ELSE [activeIn EXCEPT ![e] = new]
  <2>2. CASE nodeId \in ToSet(old.activeNodeIds)
    BY <2>2 DEF ActivateNode
  <2>3. CASE nodeId \notin ToSet(old.activeNodeIds)
    <3>1. activeIn' = [activeIn EXCEPT ![e].activeNodeIds = Append(@, nodeId),
                                       ![e].activeNodeCount = @ + 1]
      BY <2>3 DEF ActivateNode
    <3>2. activeIn' = [activeIn EXCEPT ![e] = new]
      BY <1>1, <1>2, <3>1
    <3> QED BY <2>3, <3>2
  <2> QED BY <2>2, <2>3
<1>4. activeIn' \in [Epochs -> ActT]
  BY <1>1, <1>2, <1>3
<1>5. /\ teeNodes' \in Seq(NodeT) /\ Len(teeNodes') = Len(teeNodes)
      /\ DOMAIN teeNodes' = DOMAIN teeNodes
      /\ teeNodes'[nodeId].lastActiveEpoch = e
      /\ \A i \in DOMAIN teeNodes : i # nodeId => teeNodes'[i] = teeNodes[i]
  <2> DEFINE node == [teeNodes[nodeId] EXCEPT !.isActive = TRUE, !.lastActiveEpoch = e]
  <2> HIDE DEF NodeT, ActT
  <2>1. teeNodes[nodeId] \in NodeT
    BY <1>1
  <2> USE DEF NodeT
  <2>2. node \in NodeT /\ node.lastActiveEpoch = e
    BY <2>1
  <2>3. teeNodes' = [teeNodes EXCEPT ![nodeId] = node]
    BY <1>1 DEF ActivateNode
  <2> HIDE DEF NodeT, node
  <2> QED BY <1>1, <2>2, <2>3
<1>6. TeeTypeOK'
  BY <1>1, <1>4, <1>5 DEF ActivateNode, TeeIInv, TeeTypeOK
<1>7. /\ ToSet(activeIn'[e].activeNodeIds) = ToSet(old.activeNodeIds) \cup {nodeId}
      /\ activeIn'[e].activeNodeCount = Cardinality(ToSet(activeIn'[e].activeNodeIds))
  <2>1. old.activeNodeIds \in Seq(NodeIds) /\ old.activeNodeCount = Cardinality(ToSet(old.activeNodeIds))
    BY <1>1 DEF TeeIInv, ActivationsAgree
  <2>2. CASE nodeId \in ToSet(old.activeNodeIds)
    BY <1>3, <2>1, <2>2
  <2>3. CASE nodeId \notin ToSet(old.activeNodeIds)
    <3>1. activeIn'[e] = new
      BY <1>1, <1>3, <2>3
    <3>2. ToSet(new.activeNodeIds) = ToSet(old.activeNodeIds) \cup {nodeId}
      <4> HIDE DEF old, new
      <4> QED BY <1>1, <1>2, <2>1, ToSetAppend
    <3>3. IsFiniteSet(ToSet(old.activeNodeIds))
      BY <2>1, NodeSetsFinite
    <3>4. Cardinality(ToSet(old.activeNodeIds) \cup {nodeId}) = Cardinality(ToSet(old.activeNodeIds)) + 1
      BY <2>3, <3>3, FS_AddElement
    <3> HIDE DEF old, new
    <3> QED BY <1>2, <2>1, <3>1, <3>2, <3>4
  <2> QED BY <2>2, <2>3
<1>8. \A d \in Epochs : d # e => activeIn'[d] = activeIn[d]
  BY <1>1, <1>3
<1>9. ActivationsAgree'
  <2>1. \A d \in Epochs : activeIn'[d].activeNodeCount = Cardinality(ToSet(activeIn'[d].activeNodeIds))
    BY <1>7, <1>8 DEF TeeIInv, ActivationsAgree
  <2>2. ASSUME NEW i \in DOMAIN teeNodes', teeNodes'[i].isActive
        PROVE  i \in ToSet(activeIn'[teeNodes'[i].lastActiveEpoch].activeNodeIds)
    <3>1. CASE i = nodeId
      BY <1>5, <1>7, <3>1
    <3>2. CASE i # nodeId
      <4>1. teeNodes'[i] = teeNodes[i] /\ teeNodes[i].lastActiveEpoch \in Epochs
        <5> HIDE DEF NodeT, ActT
        <5>1. teeNodes'[i] = teeNodes[i] /\ teeNodes[i] \in NodeT
          BY <1>1, <1>5, <3>2
        <5> QED BY <5>1 DEF NodeT
      <4>2. i \in ToSet(activeIn[teeNodes[i].lastActiveEpoch].activeNodeIds)
        BY <1>5, <2>2, <4>1 DEF TeeIInv, ActivationsAgree
      <4> QED BY <1>7, <1>8, <4>1, <4>2
    <3> QED BY <3>1, <3>2
  <2> QED BY <2>1, <2>2 DEF ActivationsAgree
<1>10. KeysCounted'
  BY DEF ActivateNode, TeeIInv, KeysCounted
<1> QED BY <1>6, <1>9, <1>10 DEF TeeIInv

\* The counter of a key follows the set of its nodes.
LEMMA SubmitKeyOK ==
  ASSUME TeeIInv, NEW sender \in Addresses, NEW nodeId \in DOMAIN teeNodes, NEW k \in TssKeys,
         SubmitTSSPublicKey(sender, nodeId, k)
  PROVE  /\ TeeIInv'
         /\ \A j \in TssKeys : tssSubmission[j].isConfirmed => tssSubmission'[j].isConfirmed
         /\ tssSubmission'[k].isConfirmed /\ ~ tssSubmission[k].isConfirmed
              => Cardinality(tssSubmission'[k].submittedNodes) >= tssThreshold
         /\ \A j \in TssKeys : j # k => tssSubmission'[j] = tssSubmission[j]
<1> DEFINE KeyT  == [submissionCount : Nat, submittedNodes : SUBSET NodeIds, isConfirmed : BOOLEAN]
           old   == tssSubmission[k]
           count == old.submissionCount + 1
           nodes == old.submittedNodes \cup {nodeId}
           flag  == old.isConfirmed \/ count >= tssThreshold
           new   == [old EXCEPT !.submissionCount = count, !.submittedNodes = nodes,
                                !.isConfirmed = flag]
<1>1. /\ tssSubmission \in [TssKeys -> KeyT] /\ nodeId \in NodeIds /\ nodeId \notin old.submittedNodes
      /\ tssThreshold \in Nat
  <2>1. teeNodes \in Seq([nodeAddress : Addresses, isActive : BOOLEAN, lastActiveEpoch : Epochs])
    BY DEF TeeIInv, TeeTypeOK
  <2>2. DOMAIN teeNodes = 1..Len(teeNodes) /\ Len(teeNodes) \in Nat
    BY <2>1
  <2>3. nodeId \in NodeIds
    BY <2>2, TEENodeManagementAssumption DEF TeeIInv, TeeTypeOK, NodeIds
  <2> QED BY <2>3, TEENodeManagementAssumption DEF TeeIInv, TeeTypeOK, SubmitTSSPublicKey
<1>2. tssSubmission' = [tssSubmission EXCEPT ![k] = new]
  BY <1>1 DEF SubmitTSSPublicKey
<1>3. old \in KeyT
  BY <1>1
<1> HIDE DEF old
<1>4. count \in Nat /\ nodes \in SUBSET NodeIds /\ flag \in BOOLEAN
  BY <1>1, <1>3
<1>5. Cardinality(nodes) = Cardinality(old.submittedNodes) + 1
  <2>1. IsFiniteSet(old.submittedNodes)
    BY <1>3, NodeSetsFinite
  <2> QED BY <1>1, <2>1, FS_AddElement
<1>6. old.submissionCount = Cardinality(old.submittedNodes)
  BY DEF TeeIInv, KeysCounted, old
<1>7. count = Cardinality(nodes) /\ nodes # {} /\ (old.isConfirmed => flag)
      /\ (flag /\ ~ old.isConfirmed => Cardinality(nodes) >= tssThreshold)
  BY <1>5, <1>6
<1> HIDE DEF count, nodes, flag
<1>8. /\ new \in KeyT /\ new.submissionCount = count /\ new.submittedNodes = nodes
      /\ new.isConfirmed = flag
  BY <1>3, <1>4
<1> HIDE DEF new
<1>9. /\ tssSubmission'[k] = new
      /\ \A j \in TssKeys : j # k => tssSubmission'[j] = tssSubmission[j]
      /\ tssSubmission' \in [TssKeys -> KeyT]
  BY <1>1, <1>2, <1>8
<1>10. TeeTypeOK'
  BY <1>9 DEF SubmitTSSPublicKey, TeeIInv, TeeTypeOK
<1>11. ActivationsAgree'
  BY DEF SubmitTSSPublicKey, TeeIInv, ActivationsAgree
<1>12. KeysCounted'
  BY <1>7, <1>8, <1>9 DEF TeeIInv, KeysCounted
<1> QED BY <1>7, <1>8, <1>9, <1>10, <1>11, <1>12 DEF TeeIInv, old

\* The owner moves the threshold and the epoch, and no key.
LEMMA OwnerOK ==
  ASSUME TeeIInv,
         \/ \E t \in 0..MaxThreshold : SetTSSThreshold(t)
         \/ \E e \in Epochs : UpdateCurrentEpoch(e)
  PROVE  TeeIInv' /\ tssSubmission' = tssSubmission
<1>1. /\ UNCHANGED <<teeNodes, activeIn, tssSubmission>>
      /\ tssThreshold' \in 0..MaxThreshold /\ currentEpoch' \in Nat
  <2>1. tssThreshold \in 0..MaxThreshold /\ currentEpoch \in Nat
    BY DEF TeeIInv, TeeTypeOK
  <2>2. CASE \E t \in 0..MaxThreshold : SetTSSThreshold(t)
    BY <2>1, <2>2 DEF SetTSSThreshold
  <2>3. CASE \E e \in Epochs : UpdateCurrentEpoch(e)
    BY <2>1, <2>3, TEENodeManagementAssumption DEF UpdateCurrentEpoch, Epochs
  <2>4. QED
    BY <2>2, <2>3
<1> QED BY <1>1 DEF TeeIInv, TeeTypeOK, ActivationsAgree, KeysCounted

\* One step of TEENodeManagement: in order, and confirmations only by threshold.
LEMMA TeeStep ==
  ASSUME TeeIInv, TeeNext
  PROVE  /\ TeeIInv'
         /\ \A k \in TssKeys : tssSubmission[k].isConfirmed => tssSubmission'[k].isConfirmed
         /\ \A k \in TssKeys :
              tssSubmission'[k].isConfirmed /\ ~ tssSubmission[k].isConfirmed
                => Cardinality(tssSubmission'[k].submittedNodes) >= tssThreshold
<1> DEFINE Goal ==
      /\ TeeIInv'
      /\ \A k \in TssKeys : tssSubmission[k].isConfirmed => tssSubmission'[k].isConfirmed
      /\ \A k \in TssKeys :
           tssSubmission'[k].isConfirmed /\ ~ tssSubmission[k].isConfirmed
             => Cardinality(tssSubmission'[k].submittedNodes) >= tssThreshold
<1>1. ASSUME NEW sender \in Addresses, RegisterTEENode(sender) PROVE Goal
  BY <1>1, RegisterOK DEF RegisterTEENode
<1>2. ASSUME NEW sender \in Addresses, NEW nodeId \in DOMAIN teeNodes, NEW e \in Epochs,
             ActivateNode(sender, nodeId, e)
      PROVE  Goal
  BY <1>2, ActivateOK DEF ActivateNode
<1>3. ASSUME NEW sender \in Addresses, NEW nodeId \in DOMAIN teeNodes, NEW k \in TssKeys,
             SubmitTSSPublicKey(sender, nodeId, k)
      PROVE  Goal
  BY <1>3, SubmitKeyOK
<1>4. CASE \/ \E t \in 0..MaxThreshold : SetTSSThreshold(t)
           \/ \E e \in Epochs : UpdateCurrentEpoch(e)
  BY <1>4, OwnerOK
<1> QED BY <1>1, <1>2, <1>3, <1>4 DEF TeeNext

-----------------------------------------------------------------------------
\* A freshly deployed OmniL1 is in order.
LEMMA L1InitOK == L1Init => L1IInv
<1> SUFFICES ASSUME L1Init PROVE L1IInv
  OBVIOUS
<1>1. TeeIInv
  BY TeeInitOK DEF L1Init
<1>2. L1TypeOK
  BY <1>1, TEENodeManagementAssumption DEF L1Init, L1TypeOK, TeeIInv, Epochs
<1>3. LatestIsNewest /\ PublishedUnderTSSKey
  BY TEENodeManagementAssumption DEF L1Init, LatestIsNewest, PublishedUnderTSSKey, Epochs
<1> QED BY <1>1, <1>2, <1>3 DEF L1IInv

\* Calls of the other contract take no confirmed key away.
LEMMA TeeStepL1OK ==
  ASSUME L1IInv, TeeNext, UNCHANGED l1Vars
  PROVE  L1IInv'
<1>1. TeeIInv' /\ \A k \in TssKeys : tssSubmission[k].isConfirmed => tssSubmission'[k].isConfirmed
  BY TeeStep DEF L1IInv
<1>2. L1TypeOK' /\ LatestIsNewest'
  BY <1>1 DEF L1IInv, TeeIInv, L1TypeOK, LatestIsNewest, l1Vars
<1>3. PublishedUnderTSSKey'
  BY <1>1 DEF L1IInv, TeeIInv, KeysCounted, PublishedUnderTSSKey, l1Vars
<1> QED BY <1>1, <1>2, <1>3 DEF L1IInv

\* A submission writes above everything that was recorded.
LEMMA SubmitOK ==
  ASSUME L1IInv, NEW sender \in Addresses, NEW e \in Epochs, NEW root \in Roots,
         NEW k \in TssKeys, SubmitStateRoot(sender, e, root, k)
  PROVE  /\ L1IInv'
         /\ \A d \in Epochs : d # e => epochStates'[d] = epochStates[d]
         /\ epochStates'[e] = root /\ latestConfirmedEpoch' = e
<1>1. /\ epochStates \in [Epochs -> Roots \cup {NoRoot}] /\ latestConfirmedEpoch \in Nat
      /\ e \in Nat /\ e > latestConfirmedEpoch /\ NoRoot \notin Roots
      /\ epochStates' = [epochStates EXCEPT ![e] = root]
      /\ latestConfirmedEpoch' = e /\ latestStateRoot' = root
      /\ UNCHANGED <<leaderNodes, l1Tokens, teeVars>>
  BY OmniL1Assumption, TEENodeManagementAssumption DEF L1IInv, L1TypeOK, SubmitStateRoot, Epochs
<1>2. TeeIInv'
  BY <1>1 DEF L1IInv, TeeIInv, TeeTypeOK, ActivationsAgree, KeysCounted, teeVars
<1>3. L1TypeOK'
  BY <1>1, <1>2 DEF L1IInv, TeeIInv, L1TypeOK
<1>4. LatestIsNewest'
  <2>1. ASSUME NEW d \in Epochs, d > e PROVE epochStates'[d] = NoRoot
    <3>1. d # e /\ d > latestConfirmedEpoch
      BY <1>1, <2>1 DEF Epochs
    <3> QED BY <1>1, <3>1 DEF L1IInv, LatestIsNewest
  <2> QED BY <1>1, <2>1 DEF LatestIsNewest
<1>5. PublishedUnderTSSKey'
  <2>1. tssSubmission[k].isConfirmed /\ tssSubmission[k].submittedNodes # {}
    BY DEF SubmitStateRoot, VerifyEpochSignature, L1IInv, TeeIInv, KeysCounted
  <2> QED BY <1>1, <2>1 DEF PublishedUnderTSSKey, teeVars
<1> QED BY <1>1, <1>2, <1>3, <1>4, <1>5 DEF L1IInv

\* Leaders and tokens are no part of what was published.
LEMMA OwnerL1OK ==
  ASSUME L1IInv,
         \/ \E nodeId \in LeaderIds, isLeader \in BOOLEAN : SetLeaderNode(nodeId, isLeader)
         \/ \E token \in L1Tokens : L1CreateToken(token)
  PROVE  L1IInv' /\ UNCHANGED <<epochStates, latestConfirmedEpoch>>
<1>1. /\ UNCHANGED <<epochStates, latestConfirmedEpoch, latestStateRoot, teeVars>>
      /\ leaderNodes' \subseteq LeaderIds /\ l1Tokens' \subseteq L1Tokens
  BY DEF SetLeaderNode, L1CreateToken, L1IInv, L1TypeOK, LeaderIds
<1>2. TeeIInv'
  BY <1>1 DEF L1IInv, TeeIInv, TeeTypeOK, ActivationsAgree, KeysCounted, teeVars
<1>3. L1TypeOK' /\ LatestIsNewest' /\ PublishedUnderTSSKey'
  BY <1>1, <1>2 DEF L1IInv, TeeIInv, L1TypeOK, LatestIsNewest, PublishedUnderTSSKey, teeVars
<1> QED BY <1>1, <1>2, <1>3 DEF L1IInv

\* The invariant speaks of the two contracts only.
LEMMA L1StutterOK == L1IInv /\ UNCHANGED <<teeVars, l1Vars>> => L1IInv'
BY DEF L1IInv, TeeIInv, TeeTypeOK, ActivationsAgree, KeysCounted, L1TypeOK, LatestIsNewest,
       PublishedUnderTSSKey, teeVars, l1Vars

\* What is no publication leaves the published roots alone.
LEMMA OtherCallOK ==
  ASSUME L1IInv, OtherCall
  PROVE  L1IInv' /\ UNCHANGED <<epochStates, latestConfirmedEpoch>>
<1>1. CASE TeeNext /\ UNCHANGED l1Vars
  BY <1>1, TeeStepL1OK DEF l1Vars
<1>2. CASE \/ \E nodeId \in LeaderIds, isLeader \in BOOLEAN : SetLeaderNode(nodeId, isLeader)
           \/ \E token \in L1Tokens : L1CreateToken(token)
  BY <1>2, OwnerL1OK
<1> QED BY <1>1, <1>2 DEF OtherCall

-----------------------------------------------------------------------------
\* The inductive invariant of TEENodeManagement and OmniL1 holds.
THEOREM L1Invariant == L1Spec => []L1IInv
<1>1. L1IInv /\ [L1Next]_<<teeVars, l1Vars>> => L1IInv'
  BY SubmitOK, OtherCallOK, L1StutterOK DEF L1Next
<1> QED BY <1>1, L1InitOK, PTL DEF L1Spec

\* The three records of an activation agree, however nodes are activated.
THEOREM L1ActivationsAgree == L1Spec => []ActivationsAgree
<1>1. L1IInv => ActivationsAgree
  BY DEF L1IInv, TeeIInv
<1> QED BY <1>1, L1Invariant, PTL

\* The latest fields name the newest root, whatever epochs leaders choose.
THEOREM L1LatestIsNewest == L1Spec => []LatestIsNewest
<1>1. L1IInv => LatestIsNewest
  BY DEF L1IInv
<1> QED BY <1>1, L1Invariant, PTL

\* No root before the nodes agreed on a key, whatever the threshold was.
THEOREM L1PublishedUnderTSSKey == L1Spec => []PublishedUnderTSSKey
<1>1. L1IInv => PublishedUnderTSSKey
  BY DEF L1IInv
<1> QED BY <1>1, L1Invariant, PTL

(***************************************************************************)
(* The step that confirms a key is a submission that brings the number of  *)
(* different nodes up to the threshold of that moment.                     *)
(***************************************************************************)
THEOREM L1ConfirmedByThreshold == L1Spec => ConfirmedByThreshold
<1> DEFINE ByThreshold ==
      \A k \in TssKeys :
        tssSubmission'[k].isConfirmed /\ ~ tssSubmission[k].isConfirmed
          => Cardinality(tssSubmission'[k].submittedNodes) >= tssThreshold
<1>1. L1IInv /\ [L1Next]_<<teeVars, l1Vars>> => [ByThreshold]_teeVars
  <2> SUFFICES ASSUME L1IInv, L1Next, teeVars' # teeVars PROVE ByThreshold
    BY DEF teeVars
  <2>1. TeeNext
    BY DEF L1Next, OtherCall, SubmitStateRoot, SetLeaderNode, L1CreateToken
  <2> QED BY <2>1, TeeStep DEF L1IInv
<1> QED BY <1>1, L1Invariant, PTL DEF L1Spec, ConfirmedByThreshold

\* A published root is final, and a gap below the newest one stays a gap.
THEOREM L1PublishedRootsFinal == L1Spec => PublishedRootsFinal
<1> DEFINE Final == \A e \in Epochs : e <= latestConfirmedEpoch => epochStates'[e] = epochStates[e]
<1>1. L1IInv /\ [L1Next]_<<teeVars, l1Vars>> => [Final]_l1Vars
  <2> SUFFICES ASSUME L1IInv, L1Next, l1Vars' # l1Vars PROVE Final
    BY DEF l1Vars
  <2>1. ASSUME NEW sender \in Addresses, NEW e \in Epochs, NEW root \in Roots, NEW k \in TssKeys,
               SubmitStateRoot(sender, e, root, k)
        PROVE  Final
    <3>1. e > latestConfirmedEpoch /\ e \in Nat /\ latestConfirmedEpoch \in Nat
      BY <2>1, TEENodeManagementAssumption DEF SubmitStateRoot, L1IInv, L1TypeOK, Epochs
    <3>2. \A d \in Epochs : d <= latestConfirmedEpoch => d # e
      BY <3>1 DEF Epochs
    <3> QED BY <2>1, <3>2, SubmitOK
  <2>2. CASE OtherCall
    BY <2>2, OtherCallOK
  <2> QED BY <2>1, <2>2 DEF L1Next
<1> QED BY <1>1, L1Invariant, PTL DEF L1Spec, PublishedRootsFinal

-----------------------------------------------------------------------------
(* The OmniL2 contracts. *)

\* The latest fields name the newest root, and later epochs have none.
NewestSynced(s) ==
  /\ s.latestSyncedStateRoot = s.syncedStates[s.latestSyncedEpoch]
  /\ \A e \in L2Epochs : e > s.latestSyncedEpoch => s.syncedStates[e] = L2NoRoot

\* Whatever an epoch lists was executed.
ListedHasLog(s) ==
  \A e \in L2Epochs, tx \in Txs :
     tx \in ToSet(s.epochTransactions[e]) => ~ NoLog(s.transactionLogs[tx])

\* A log is listed by its epoch, whose root proves its validity bit.
LogListed(s) ==
  \A tx \in Txs : LET log == s.transactionLogs[tx] IN
     ~ NoLog(log) => /\ s.syncedStates[log.epochId] # L2NoRoot
                     /\ tx \in ToSet(s.epochTransactions[log.epochId])

LogProved(s) ==
  \A tx \in Txs : LET log == s.transactionLogs[tx] IN
     ~ NoLog(log) => Proves(s.syncedStates[log.epochId], <<tx, log.isValid>>)

\* A verdict is the validity bit of an executed transaction.
VerdictIsBit(s) ==
  \A tx \in Txs : LET log == s.transactionLogs[tx] IN
     /\ log.isConfirmed => log.isValid = TRUE /\ ~ NoLog(log)
     /\ log.isRejected => log.isValid = FALSE /\ ~ NoLog(log)

ChainOK(s) ==
  NewestSynced(s) /\ ListedHasLog(s) /\ LogListed(s) /\ LogProved(s) /\ VerdictIsBit(s)

\* The inductive invariant.
L2IInv == L2TypeOK /\ \A c \in Chains : ChainOK(l2[c])

-----------------------------------------------------------------------------
\* A freshly deployed contract is in order.
LEMMA L2InitOK == L2Init => L2IInv
<1> SUFFICES ASSUME L2Init PROVE L2IInv
  OBVIOUS
<1>1. Deployed \in L2State
  <2>1. ZeroLog \in LogType
    BY OmniL2Assumption DEF ZeroLog, LogType
  <2> QED BY <2>1, OmniL2Assumption DEF Deployed, L2State
<1>2. ChainOK(Deployed)
  BY OmniL2Assumption
  DEF ChainOK, NewestSynced, ListedHasLog, LogListed, LogProved, VerdictIsBit, Deployed,
      ZeroLog, NoLog, ToSet
<1> QED BY <1>1, <1>2 DEF L2Init, L2IInv, L2TypeOK

\* A step that replaces the state of one chain by one in order keeps the rest.
LEMMA OneChain ==
  ASSUME L2IInv, NEW c \in Chains, NEW s \in L2State, ChainOK(s), l2' = [l2 EXCEPT ![c] = s]
  PROVE  L2IInv'
<1>1. \A b \in Chains : l2'[b] = IF b = c THEN s ELSE l2[b]
  BY DEF L2IInv, L2TypeOK
<1>2. L2TypeOK'
  BY DEF L2IInv, L2TypeOK
<1>3. \A b \in Chains : ChainOK(l2'[b])
  BY <1>1 DEF L2IInv
<1> QED BY <1>2, <1>3 DEF L2IInv, ChainOK, NewestSynced, ListedHasLog, LogListed, LogProved, VerdictIsBit

\* Syncing a root touches no epoch that a log names.
LEMMA SyncOK ==
  ASSUME L2IInv, NEW c \in Chains, NEW e \in L2Epochs, NEW root \in L2Roots,
         SyncStateRootFromL1(c, e, root)
  PROVE  L2IInv'
<1> DEFINE t == l2[c]
           s == [t EXCEPT !.syncedStates = [t.syncedStates EXCEPT ![e] = root],
                          !.latestSyncedEpoch = e, !.latestSyncedStateRoot = root]
<1>1. t \in L2State /\ ChainOK(t) /\ e > t.latestSyncedEpoch /\ l2' = [l2 EXCEPT ![c] = s]
  BY DEF SyncStateRootFromL1, L2IInv, L2TypeOK
<1> HIDE DEF t
<1>2. /\ s \in L2State
      /\ s.transactionLogs = t.transactionLogs /\ s.epochTransactions = t.epochTransactions
      /\ s.latestSyncedEpoch = e /\ s.latestSyncedStateRoot = root
      /\ s.syncedStates = [t.syncedStates EXCEPT ![e] = root]
  BY <1>1 DEF L2State
<1>3. t.syncedStates[e] = L2NoRoot /\ root # L2NoRoot
  BY <1>1, OmniL2Assumption DEF ChainOK, NewestSynced
<1> HIDE DEF s
<1>4. NewestSynced(s)
  <2>1. t.latestSyncedEpoch \in L2Epochs /\ t.syncedStates \in [L2Epochs -> L2Roots \cup {L2NoRoot}]
    BY <1>1 DEF L2State
  <2>2. ASSUME NEW d \in L2Epochs, d > e PROVE s.syncedStates[d] = L2NoRoot
    <3> DEFINE n == t.latestSyncedEpoch
    <3>1. d \in Nat /\ e \in Nat /\ n \in Nat /\ e > n
      BY <1>1, <2>1, OmniL2Assumption
    <3> HIDE DEF n
    <3>2. d # e /\ d > n
      BY <2>2, <3>1
    <3> USE DEF n
    <3> QED BY <1>1, <1>2, <2>1, <3>2 DEF ChainOK, NewestSynced
  <2> QED BY <1>2, <2>1, <2>2 DEF NewestSynced
<1>5. ListedHasLog(s) /\ VerdictIsBit(s)
  BY <1>1, <1>2 DEF ChainOK, ListedHasLog, VerdictIsBit
<1>6. ASSUME NEW tx \in Txs, ~ NoLog(t.transactionLogs[tx])
      PROVE  s.syncedStates[t.transactionLogs[tx].epochId]
               = t.syncedStates[t.transactionLogs[tx].epochId]
  <2>1. t.transactionLogs[tx].epochId \in L2Epochs
    BY <1>1 DEF L2State, LogType
  <2>2. t.transactionLogs[tx].epochId # e
    BY <1>1, <1>3, <1>6 DEF ChainOK, LogListed
  <2> QED BY <1>1, <1>2, <2>1, <2>2 DEF L2State
<1>7. LogListed(s)
  BY <1>1, <1>2, <1>6 DEF ChainOK, LogListed
<1>8. LogProved(s)
  BY <1>1, <1>2, <1>6 DEF ChainOK, LogProved
<1> QED BY <1>1, <1>2, <1>4, <1>5, <1>7, <1>8, OneChain DEF ChainOK

\* An execution writes a log under the newest root, which proves it.
LEMMA ExecuteOK ==
  ASSUME L2IInv, NEW c \in Chains, NEW tx \in Txs, NEW claim \in Claims,
         NEW isValid \in BOOLEAN, ExecuteTransaction(c, tx, claim, isValid)
  PROVE  L2IInv'
<1> DEFINE t   == l2[c]
           e   == t.latestSyncedEpoch
           log == [claim |-> {claim}, isValid |-> isValid, epochId |-> e,
                   isConfirmed |-> FALSE, isRejected |-> FALSE]
           logs  == [t.transactionLogs EXCEPT ![tx] = log]
           lists == [t.epochTransactions EXCEPT ![e] = Append(t.epochTransactions[e], tx)]
           s     == [t EXCEPT !.transactionLogs = logs, !.epochTransactions = lists]
<1>1. /\ t \in L2State /\ ChainOK(t) /\ l2' = [l2 EXCEPT ![c] = s]
      /\ t.latestSyncedStateRoot # L2NoRoot
      /\ Proves(t.latestSyncedStateRoot, <<tx, isValid>>)
  BY DEF ExecuteTransaction, L2IInv, L2TypeOK
<1> HIDE DEF t
<1>2. e \in L2Epochs /\ log \in LogType /\ t.epochTransactions[e] \in Seq(Txs)
  BY <1>1 DEF L2State, LogType
<1> HIDE DEF log
<1>3. logs \in [Txs -> LogType] /\ lists \in [L2Epochs -> Seq(Txs)]
  <2>1. Append(t.epochTransactions[e], tx) \in Seq(Txs)
    BY <1>2
  <2> QED BY <1>1, <1>2, <2>1 DEF L2State
<1> HIDE DEF logs, lists
<1>4. /\ s \in L2State /\ s.syncedStates = t.syncedStates
      /\ s.latestSyncedEpoch = e /\ s.latestSyncedStateRoot = t.latestSyncedStateRoot
      /\ s.transactionLogs = logs /\ s.epochTransactions = lists
  BY <1>1, <1>3 DEF L2State
<1> HIDE DEF e, s
<1>5. /\ s.transactionLogs[tx] = log
      /\ \A x \in Txs : x # tx => s.transactionLogs[x] = t.transactionLogs[x]
  BY <1>1, <1>4 DEF L2State, logs
<1>6. /\ ToSet(s.epochTransactions[e]) = ToSet(t.epochTransactions[e]) \cup {tx}
      /\ \A d \in L2Epochs : d # e => s.epochTransactions[d] = t.epochTransactions[d]
  <2>1. s.epochTransactions[e] = Append(t.epochTransactions[e], tx)
    BY <1>1, <1>2, <1>4 DEF L2State, lists
  <2>2. \A d \in L2Epochs : d # e => s.epochTransactions[d] = t.epochTransactions[d]
    BY <1>1, <1>4 DEF L2State, lists
  <2> QED BY <1>2, <2>1, <2>2, ToSetAppend
<1>7. log.isValid = isValid /\ log.epochId = e /\ ~ NoLog(log)
      /\ ~ log.isConfirmed /\ ~ log.isRejected
  BY DEF log, NoLog
<1>8. NewestSynced(s)
  BY <1>1, <1>4 DEF ChainOK, NewestSynced, e
<1>9. ListedHasLog(s)
  BY <1>1, <1>5, <1>6, <1>7 DEF ChainOK, ListedHasLog
<1>10. t.syncedStates[e] = t.latestSyncedStateRoot
  BY <1>1 DEF ChainOK, NewestSynced, e
<1>11. LogListed(s)
  <2> SUFFICES ASSUME NEW x \in Txs, ~ NoLog(s.transactionLogs[x])
               PROVE  /\ s.syncedStates[s.transactionLogs[x].epochId] # L2NoRoot
                      /\ x \in ToSet(s.epochTransactions[s.transactionLogs[x].epochId])
    BY DEF LogListed
  <2>1. CASE x = tx
    BY <1>1, <1>4, <1>5, <1>6, <1>7, <1>10, <2>1
  <2>2. CASE x # tx
    <3>1. t.transactionLogs[x].epochId \in L2Epochs
      BY <1>1 DEF L2State, LogType
    <3> QED BY <1>1, <1>4, <1>5, <1>6, <2>2, <3>1 DEF ChainOK, LogListed
  <2> QED BY <2>1, <2>2
<1>12. LogProved(s)
  <2> SUFFICES ASSUME NEW x \in Txs, ~ NoLog(s.transactionLogs[x])
               PROVE  Proves(s.syncedStates[s.transactionLogs[x].epochId],
                             <<x, s.transactionLogs[x].isValid>>)
    BY DEF LogProved
  <2>1. CASE x = tx
    BY <1>1, <1>4, <1>5, <1>7, <1>10, <2>1
  <2>2. CASE x # tx
    BY <1>1, <1>4, <1>5, <2>2 DEF ChainOK, LogProved
  <2> QED BY <2>1, <2>2
<1>13. VerdictIsBit(s)
  BY <1>1, <1>5, <1>7 DEF ChainOK, VerdictIsBit
<1> QED BY <1>1, <1>4, <1>8, <1>9, <1>11, <1>12, <1>13, OneChain DEF ChainOK

\* Recycling gives a verdict to logs that are listed, hence written and proved.
LEMMA RecycleOK ==
  ASSUME L2IInv, NEW c \in Chains, NEW e \in L2Epochs, RecycleLogs(c, e)
  PROVE  L2IInv'
<1> DEFINE t    == l2[c]
           logs == [tx \in Txs |-> IF tx \in ToSet(t.epochTransactions[e])
                                     THEN Resolved(t.transactionLogs[tx])
                                     ELSE t.transactionLogs[tx]]
           s    == [t EXCEPT !.transactionLogs = logs]
<1>1. t \in L2State /\ ChainOK(t) /\ l2' = [l2 EXCEPT ![c] = s]
  BY DEF RecycleLogs, L2IInv, L2TypeOK
<1> HIDE DEF t
<1>2. ASSUME NEW tx \in Txs
      PROVE  /\ logs[tx] \in LogType
             /\ NoLog(logs[tx]) <=> NoLog(t.transactionLogs[tx])
             /\ logs[tx].isValid = t.transactionLogs[tx].isValid
             /\ logs[tx].epochId = t.transactionLogs[tx].epochId
             /\ \/ logs[tx] = t.transactionLogs[tx]
                \/ /\ ~ NoLog(logs[tx])
                   /\ logs[tx].isConfirmed = logs[tx].isValid
                   /\ logs[tx].isRejected = ~ logs[tx].isValid
  <2> DEFINE old == t.transactionLogs[tx]
             new == [old EXCEPT !.isConfirmed = old.isValid, !.isRejected = ~ old.isValid]
  <2>1. old \in LogType
    BY <1>1 DEF L2State
  <2>2. CASE logs[tx] = old
    BY <2>1, <2>2
  <2>3. CASE logs[tx] # old
    <3>1. logs[tx] = new /\ ~ NoLog(old)
      BY <1>1, <2>3 DEF Resolved, ChainOK, ListedHasLog
    <3> HIDE DEF old, logs
    <3>2. new \in LogType /\ new.claim = old.claim /\ new.epochId = old.epochId
      BY <2>1 DEF LogType
    <3>3. /\ new.isValid = old.isValid /\ new.isConfirmed = old.isValid
          /\ new.isRejected = ~ old.isValid
      BY <2>1 DEF LogType
    <3> QED BY <3>1, <3>2, <3>3 DEF NoLog, old
  <2> QED BY <2>2, <2>3
<1>3. logs \in [Txs -> LogType]
  BY <1>2
<1> HIDE DEF logs
<1>4. /\ s \in L2State /\ s.syncedStates = t.syncedStates
      /\ s.latestSyncedEpoch = t.latestSyncedEpoch
      /\ s.latestSyncedStateRoot = t.latestSyncedStateRoot
      /\ s.transactionLogs = logs /\ s.epochTransactions = t.epochTransactions
  BY <1>1, <1>3 DEF L2State
<1> HIDE DEF s
<1>5. NewestSynced(s)
  BY <1>1, <1>4 DEF ChainOK, NewestSynced
<1>6. ListedHasLog(s) /\ LogListed(s)
  BY <1>1, <1>2, <1>4 DEF ChainOK, ListedHasLog, LogListed
<1>7. LogProved(s)
  BY <1>1, <1>2, <1>4 DEF ChainOK, LogProved
<1>8. VerdictIsBit(s)
  <2> SUFFICES ASSUME NEW tx \in Txs
               PROVE  /\ logs[tx].isConfirmed => logs[tx].isValid = TRUE /\ ~ NoLog(logs[tx])
                      /\ logs[tx].isRejected => logs[tx].isValid = FALSE /\ ~ NoLog(logs[tx])
    BY <1>4 DEF VerdictIsBit
  <2>1. CASE logs[tx] = t.transactionLogs[tx]
    BY <1>1, <2>1 DEF ChainOK, VerdictIsBit
  <2>2. CASE logs[tx] # t.transactionLogs[tx]
    <3>1. logs[tx].isValid \in BOOLEAN
      BY <1>2 DEF LogType
    <3> QED BY <1>2, <2>2, <3>1
  <2> QED BY <2>1, <2>2
<1> QED BY <1>1, <1>4, <1>5, <1>6, <1>7, <1>8, OneChain DEF ChainOK

\* A new token touches no root and no log.
LEMMA CreateTokenOK ==
  ASSUME L2IInv, NEW c \in Chains, NEW token \in L2Tokens, L2CreateToken(c, token)
  PROVE  L2IInv'
<1> DEFINE t == l2[c]
           s == [t EXCEPT !.tokens = t.tokens \cup {token}]
<1>1. t \in L2State /\ ChainOK(t) /\ l2' = [l2 EXCEPT ![c] = s]
  BY DEF L2CreateToken, L2IInv, L2TypeOK
<1> HIDE DEF t
<1>2. /\ s \in L2State /\ s.syncedStates = t.syncedStates
      /\ s.latestSyncedEpoch = t.latestSyncedEpoch
      /\ s.latestSyncedStateRoot = t.latestSyncedStateRoot
      /\ s.transactionLogs = t.transactionLogs /\ s.epochTransactions = t.epochTransactions
  BY <1>1 DEF L2State
<1> HIDE DEF s
<1>3. ChainOK(s)
  BY <1>1, <1>2 DEF ChainOK, NewestSynced, ListedHasLog, LogListed, LogProved, VerdictIsBit
<1> QED BY <1>1, <1>2, <1>3, OneChain

\* What users do keeps the invariant; OmniBridge cites this beside SyncOK.
LEMMA UserCallOK ==
  ASSUME L2IInv, NEW c \in Chains, UserCall(c)
  PROVE  L2IInv'
BY ExecuteOK, RecycleOK, CreateTokenOK DEF UserCall

-----------------------------------------------------------------------------
\* The inductive invariant holds of the contract on every chain.
THEOREM L2Invariant == L2Spec => []L2IInv
<1>1. L2IInv /\ [L2Next]_l2 => L2IInv'
  <2> SUFFICES ASSUME L2IInv, [L2Next]_l2 PROVE L2IInv'
    OBVIOUS
  <2>1. ASSUME NEW c \in Chains, UserCall(c) PROVE L2IInv'
    BY <2>1, UserCallOK
  <2>2. ASSUME NEW c \in Chains, NEW e \in L2Epochs, NEW root \in L2Roots,
               SyncStateRootFromL1(c, e, root)
        PROVE  L2IInv'
    BY <2>2, SyncOK
  <2>3. CASE UNCHANGED l2
    BY <2>3 DEF L2IInv, L2TypeOK, ChainOK, NewestSynced, ListedHasLog, LogListed, LogProved,
                VerdictIsBit
  <2> QED BY <2>1, <2>2, <2>3 DEF L2Next
<1> QED BY <1>1, L2InitOK, PTL DEF L2Spec

\* The invariant says of each chain what the properties say of all.
LEMMA L2IInvGives == L2IInv => L2TypeOK /\ VerdictProved /\ PendingIsListed
<1> SUFFICES ASSUME L2IInv PROVE L2TypeOK /\ VerdictProved /\ PendingIsListed
  OBVIOUS
<1>1. VerdictProved
  <2> SUFFICES ASSUME NEW c \in Chains, NEW tx \in Txs
               PROVE LET log == l2[c].transactionLogs[tx] IN
                     /\ ~ (log.isConfirmed /\ log.isRejected)
                     /\ log.isConfirmed \/ log.isRejected => ~ NoLog(log)
                     /\ log.isConfirmed => Proves(l2[c].syncedStates[log.epochId], <<tx, TRUE>>)
                     /\ log.isRejected  => Proves(l2[c].syncedStates[log.epochId], <<tx, FALSE>>)
    BY DEF VerdictProved
  <2> DEFINE log == l2[c].transactionLogs[tx]
  <2>1. /\ log.isConfirmed => log.isValid = TRUE /\ ~ NoLog(log)
        /\ log.isRejected => log.isValid = FALSE /\ ~ NoLog(log)
    BY DEF L2IInv, ChainOK, VerdictIsBit
  <2>2. ~ NoLog(log) => Proves(l2[c].syncedStates[log.epochId], <<tx, log.isValid>>)
    BY DEF L2IInv, ChainOK, LogProved
  <2> QED BY <2>1, <2>2
<1>2. PendingIsListed
  BY DEF L2IInv, ChainOK, LogListed, PendingIsListed
<1> QED BY <1>1, <1>2 DEF L2IInv

(***************************************************************************)
(* Every verdict of every contract is proved by the root of its epoch, for *)
(* every relation Proves.                                                  *)
(***************************************************************************)
THEOREM L2VerdictProved == L2Spec => []VerdictProved
BY L2Invariant, L2IInvGives, PTL

\* Every executed transaction stays on the list of an epoch with a root.
THEOREM L2PendingIsListed == L2Spec => []PendingIsListed
BY L2Invariant, L2IInvGives, PTL

(***************************************************************************)
(* A confirmed transaction never changes: execution refuses it, and        *)
(* recycling passes over resolved logs.                                    *)
(***************************************************************************)
THEOREM L2ConfirmedIsFinal == L2Spec => ConfirmedIsFinal
<1> DEFINE Keeps == \A c \in Chains, tx \in Txs :
                      l2[c].transactionLogs[tx].isConfirmed =>
                        l2'[c].transactionLogs[tx] = l2[c].transactionLogs[tx]
<1>1. ASSUME L2IInv, L2Next, NEW b \in Chains, NEW x \in Txs,
             l2[b].transactionLogs[x].isConfirmed
      PROVE  l2'[b].transactionLogs[x] = l2[b].transactionLogs[x]
  <2>1. l2 \in [Chains -> L2State] /\ \A c \in Chains : l2[c].transactionLogs \in [Txs -> LogType]
    BY <1>1 DEF L2IInv, L2TypeOK, L2State
  <2>2. PICK c \in Chains : \/ UserCall(c)
                          \/ \E e \in L2Epochs, root \in L2Roots : SyncStateRootFromL1(c, e, root)
    BY <1>1 DEF L2Next
  <2>3. ASSUME NEW tx \in Txs, NEW claim \in Claims, NEW isValid \in BOOLEAN,
               ExecuteTransaction(c, tx, claim, isValid)
        PROVE  l2'[b].transactionLogs[x] = l2[b].transactionLogs[x]
    <3>1. ~ l2[c].transactionLogs[tx].isConfirmed
      BY <2>3 DEF ExecuteTransaction
    <3>2. b # c \/ x # tx
      BY <1>1, <3>1
    <3> QED BY <2>1, <2>3, <3>2 DEF ExecuteTransaction, L2State
  <2>4. ASSUME NEW e \in L2Epochs, RecycleLogs(c, e)
        PROVE  l2'[b].transactionLogs[x] = l2[b].transactionLogs[x]
    <3>1. Resolved(l2[b].transactionLogs[x]) = l2[b].transactionLogs[x]
      BY <1>1 DEF Resolved
    <3> QED BY <2>1, <2>4, <3>1 DEF RecycleLogs, L2State
  <2>5. ASSUME NEW token \in L2Tokens, L2CreateToken(c, token)
        PROVE  l2'[b].transactionLogs[x] = l2[b].transactionLogs[x]
    BY <2>1, <2>5 DEF L2CreateToken, L2State
  <2>6. ASSUME NEW e \in L2Epochs, NEW root \in L2Roots, SyncStateRootFromL1(c, e, root)
        PROVE  l2'[b].transactionLogs[x] = l2[b].transactionLogs[x]
    BY <2>1, <2>6 DEF SyncStateRootFromL1, L2State
  <2> QED BY <2>2, <2>3, <2>4, <2>5, <2>6 DEF UserCall
<1>2. L2IInv /\ [L2Next]_l2 => [Keeps]_l2
  BY <1>1
<1> QED BY <1>2, L2Invariant, PTL DEF L2Spec, ConfirmedIsFinal

-----------------------------------------------------------------------------
(* L1 and the chains together. *)

\* Every event that can be relayed tells what L1 recorded, and still does.
EventsRecorded ==
  /\ emitted \subseteq (Epochs \ {0}) \X Roots
  /\ \A p \in emitted : p[1] <= latestConfirmedEpoch /\ epochStates[p[1]] = p[2]

(***************************************************************************)
(* A chain holds only what L1 holds and is behind L1, except where a root  *)
(* was handed to it unpublished; none is known of an epoch still ahead of  *)
(* it, so that epoch may yet be synced to the published root.              *)
(***************************************************************************)
Behind(c) ==
  /\ \A e \in Epochs : <<c, e>> \in unpublished => e <= l2[c].latestSyncedEpoch
  /\ \A e \in Epochs : <<c, e>> \notin unpublished =>
        l2[c].syncedStates[e] \in {NoRoot, epochStates[e]}
  /\ <<c, l2[c].latestSyncedEpoch>> \notin unpublished =>
        l2[c].latestSyncedEpoch <= latestConfirmedEpoch

BridgeIInv ==
  /\ L1IInv /\ L2IInv /\ EventsRecorded
  /\ unpublished \subseteq Chains \X Epochs
  /\ \A c \in Chains : Behind(c)

-----------------------------------------------------------------------------
\* Freshly deployed contracts are in order.
LEMMA BridgeInitOK == BridgeInit => BridgeIInv
<1> SUFFICES ASSUME BridgeInit PROVE BridgeIInv
  OBVIOUS
<1>1. L1IInv /\ L2IInv
  BY L1InitOK, L2InitOK DEF BridgeInit
<1>2. EventsRecorded /\ unpublished \subseteq Chains \X Epochs
  BY DEF BridgeInit, EventsRecorded
<1>3. \A c \in Chains : Behind(c)
  BY OmniBridgeAssumption DEF BridgeInit, L1Init, L2Init, Deployed, Behind
<1> QED BY <1>1, <1>2, <1>3 DEF BridgeIInv

\* What the L1 recorded and the chains hold is left alone.
LEMMA RootsUntouched ==
  ASSUME BridgeIInv, L1IInv',
         UNCHANGED <<epochStates, latestConfirmedEpoch, l2, emitted, unpublished>>
  PROVE  BridgeIInv'
<1>1. L2IInv'
  BY DEF BridgeIInv, L2IInv, L2TypeOK, ChainOK, NewestSynced, ListedHasLog, LogListed, LogProved,
         VerdictIsBit
<1>2. EventsRecorded' /\ (\A c \in Chains : Behind(c))'
  BY DEF BridgeIInv, EventsRecorded, Behind
<1> QED BY <1>1, <1>2 DEF BridgeIInv

\* A new root is above all events and all chains that follow.
LEMMA PublishOK ==
  ASSUME BridgeIInv, NEW sender \in Addresses, NEW e \in Epochs, NEW root \in Roots,
         NEW k \in TssKeys, PublishRoot(sender, e, root, k)
  PROVE  BridgeIInv' /\ \A p \in emitted : p[1] < e
<1>1. /\ SubmitStateRoot(sender, e, root, k) /\ emitted' = emitted \cup {<<e, root>>}
      /\ l2' = l2 /\ unpublished' = unpublished
      /\ L1IInv' /\ \A d \in Epochs : d # e => epochStates'[d] = epochStates[d]
      /\ epochStates'[e] = root /\ latestConfirmedEpoch' = e
  BY SubmitOK DEF PublishRoot, BridgeIInv
<1>2. Epochs \subseteq Nat /\ latestConfirmedEpoch \in Nat /\ e > latestConfirmedEpoch /\ e # 0
  BY <1>1, TEENodeManagementAssumption DEF SubmitStateRoot, BridgeIInv, L1IInv, L1TypeOK, Epochs
<1>3. L2IInv'
  BY <1>1 DEF BridgeIInv, L2IInv, L2TypeOK, ChainOK, NewestSynced, ListedHasLog, LogListed,
              LogProved, VerdictIsBit
<1>4. ASSUME NEW p \in emitted
      PROVE  p[1] \in Epochs /\ p[1] < e /\ p[1] <= e /\ epochStates'[p[1]] = p[2]
  <2>1. p[1] \in Epochs /\ p[1] <= latestConfirmedEpoch /\ epochStates[p[1]] = p[2]
    BY DEF BridgeIInv, EventsRecorded
  <2>2. p[1] < e /\ p[1] <= e /\ p[1] # e
    <3> DEFINE q == p[1]
    <3>1. q \in Nat /\ q <= latestConfirmedEpoch /\ e \in Nat
      BY <1>2, <2>1
    <3> HIDE DEF q
    <3>2. q < e /\ q <= e /\ q # e
      BY <1>2, <3>1
    <3> QED BY <3>2 DEF q
  <2> QED BY <1>1, <2>1, <2>2
<1>5. EventsRecorded'
  <2>1. emitted' \subseteq (Epochs \ {0}) \X Roots
    BY <1>1, <1>2 DEF BridgeIInv, EventsRecorded
  <2>2. e <= e
    BY <1>2
  <2> QED BY <1>1, <1>4, <2>1, <2>2 DEF EventsRecorded
<1>6. ASSUME NEW c \in Chains PROVE Behind(c)'
  <2>1. Behind(c) /\ l2[c].latestSyncedEpoch \in Nat
    BY <1>2, OmniBridgeAssumption DEF BridgeIInv, L2IInv, L2TypeOK, L2State
  <2>2. <<c, l2[c].latestSyncedEpoch>> \notin unpublished => l2[c].latestSyncedEpoch <= e
    BY <1>2, <2>1 DEF Behind
  <2>3. ASSUME NEW d \in Epochs, <<c, d>> \notin unpublished
        PROVE  l2[c].syncedStates[d] \in {NoRoot, epochStates'[d]}
    <3>1. CASE d = e
      <4>1. epochStates[d] = NoRoot
        BY <1>2, <3>1 DEF BridgeIInv, L1IInv, LatestIsNewest
      <4> QED BY <2>1, <2>3, <4>1 DEF Behind
    <3>2. CASE d # e
      BY <1>1, <2>1, <2>3, <3>2 DEF Behind
    <3> QED BY <3>1, <3>2
  <2> QED BY <1>1, <2>1, <2>2, <2>3 DEF Behind
<1> QED BY <1>1, <1>3, <1>4, <1>5, <1>6 DEF BridgeIInv

(***************************************************************************)
(* A sync moves one chain, to an epoch no sync of it named before, and     *)
(* notes whether L1 had published the root.                                *)
(***************************************************************************)
LEMMA SyncRootMoves ==
  ASSUME BridgeIInv, NEW c \in Chains, NEW e \in Epochs, NEW root \in Roots, SyncRoot(c, e, root)
  PROVE  /\ e \in Nat /\ e > l2[c].latestSyncedEpoch /\ <<c, e>> \notin unpublished
         /\ l2[c].latestSyncedEpoch \in Nat
         /\ l2'[c].latestSyncedEpoch = e /\ l2'[c].latestSyncedStateRoot = root
         /\ l2'[c].syncedStates[e] = root
         /\ \A d \in Epochs : d # e => l2'[c].syncedStates[d] = l2[c].syncedStates[d]
         /\ \A b \in Chains : b # c => l2'[b] = l2[b]
<1>1. SyncStateRootFromL1(c, e, root) /\ l2 \in [Chains -> L2State] /\ Behind(c)
  BY DEF SyncRoot, BridgeIInv, L2IInv, L2TypeOK
<1>2. /\ e \in Nat /\ e > l2[c].latestSyncedEpoch /\ l2[c].latestSyncedEpoch \in Nat
      /\ l2[c].syncedStates \in [Epochs -> Roots \cup {NoRoot}]
  BY <1>1, OmniBridgeAssumption, OmniL2Assumption, TEENodeManagementAssumption
  DEF SyncStateRootFromL1, L2State
<1>3. ~ (e <= l2[c].latestSyncedEpoch)
  BY <1>2
<1>4. <<c, e>> \notin unpublished
  BY <1>1, <1>3 DEF Behind
<1>5. /\ l2'[c].latestSyncedEpoch = e /\ l2'[c].latestSyncedStateRoot = root
      /\ l2'[c].syncedStates = [l2[c].syncedStates EXCEPT ![e] = root]
      /\ \A b \in Chains : b # c => l2'[b] = l2[b]
  BY <1>1 DEF SyncStateRootFromL1, L2State
<1>6. /\ l2'[c].syncedStates[e] = root
      /\ \A d \in Epochs : d # e => l2'[c].syncedStates[d] = l2[c].syncedStates[d]
  BY <1>2, <1>5
<1> QED BY <1>2, <1>4, <1>5, <1>6

\* A sync to any root, however old the event if it is one, keeps the rest behind.
LEMMA SyncRootOK ==
  ASSUME BridgeIInv, NEW c \in Chains, NEW e \in Epochs, NEW root \in Roots, SyncRoot(c, e, root)
  PROVE  BridgeIInv'
<1>1. /\ SyncStateRootFromL1(c, e, root) /\ UNCHANGED <<teeVars, l1Vars, emitted>>
      /\ unpublished' = IF <<e, root>> \in emitted THEN unpublished
                        ELSE unpublished \cup {<<c, e>>}
  BY DEF SyncRoot
<1>2. L2IInv'
  BY <1>1, SyncOK, OmniBridgeAssumption DEF BridgeIInv
<1>3. L1IInv' /\ EventsRecorded' /\ unpublished' \subseteq Chains \X Epochs
  BY <1>1, L1StutterOK DEF BridgeIInv, EventsRecorded, l1Vars
<1>4. Behind(c)'
  <2>1. Behind(c)
    BY DEF BridgeIInv
  <2>2. \A d \in Epochs : <<c, d>> \in unpublished' => d <= e
    <3> SUFFICES ASSUME NEW d \in Epochs, <<c, d>> \in unpublished', d # e PROVE d <= e
      BY SyncRootMoves
    <3>1. <<c, d>> \in unpublished
      BY <1>1
    <3>2. d <= l2[c].latestSyncedEpoch /\ d \in Nat
      BY <2>1, <3>1, TEENodeManagementAssumption DEF Behind, Epochs
    <3>3. e \in Nat /\ l2[c].latestSyncedEpoch \in Nat /\ e > l2[c].latestSyncedEpoch
      BY SyncRootMoves
    <3> QED BY <3>2, <3>3
  <2>3. <<c, e>> \notin unpublished' => /\ root = epochStates[e]
                                        /\ e <= latestConfirmedEpoch
    BY <1>1 DEF BridgeIInv, EventsRecorded
  <2>4. ASSUME NEW d \in Epochs, <<c, d>> \notin unpublished'
        PROVE  l2'[c].syncedStates[d] \in {NoRoot, epochStates[d]}
    <3>1. CASE d = e
      BY <2>3, <2>4, <3>1, SyncRootMoves
    <3>2. CASE d # e
      <4>1. l2'[c].syncedStates[d] = l2[c].syncedStates[d]
        BY <3>2, SyncRootMoves
      <4>2. <<c, d>> \notin unpublished
        BY <1>1, <2>4
      <4> QED BY <2>1, <4>1, <4>2 DEF Behind
    <3> QED BY <3>1, <3>2
  <2>5. l2'[c].latestSyncedEpoch = e
    BY SyncRootMoves
  <2> QED BY <1>1, <2>2, <2>3, <2>4, <2>5 DEF Behind, l1Vars
<1>5. ASSUME NEW b \in Chains, b # c PROVE Behind(b)'
  <2>1. l2'[b] = l2[b] /\ Behind(b)
    BY <1>5, SyncRootMoves DEF BridgeIInv
  <2>2. \A d : <<b, d>> \in unpublished' <=> <<b, d>> \in unpublished
    BY <1>1, <1>5
  <2> QED BY <1>1, <2>1, <2>2 DEF Behind, l1Vars
<1> QED BY <1>2, <1>3, <1>4, <1>5 DEF BridgeIInv

\* The users of a chain do not touch the roots it holds.
LEMMA UserCallRoots ==
  ASSUME L2IInv, NEW c \in Chains, UserCall(c), NEW b \in Chains
  PROVE  /\ l2'[b].syncedStates = l2[b].syncedStates
         /\ l2'[b].latestSyncedEpoch = l2[b].latestSyncedEpoch
         /\ l2'[b].latestSyncedStateRoot = l2[b].latestSyncedStateRoot
<1>1. l2 \in [Chains -> L2State]
  BY DEF L2IInv, L2TypeOK
<1> DEFINE Same == /\ l2'[b].syncedStates = l2[b].syncedStates
                   /\ l2'[b].latestSyncedEpoch = l2[b].latestSyncedEpoch
                   /\ l2'[b].latestSyncedStateRoot = l2[b].latestSyncedStateRoot
<1>2. ASSUME NEW tx \in Txs, NEW claim \in Claims, NEW isValid \in BOOLEAN,
             ExecuteTransaction(c, tx, claim, isValid)
      PROVE  Same
  BY <1>1, <1>2 DEF ExecuteTransaction, L2State
<1>3. ASSUME NEW e \in L2Epochs, RecycleLogs(c, e) PROVE Same
  BY <1>1, <1>3 DEF RecycleLogs, L2State
<1>4. ASSUME NEW token \in L2Tokens, L2CreateToken(c, token) PROVE Same
  BY <1>1, <1>4 DEF L2CreateToken, L2State
<1> QED BY <1>2, <1>3, <1>4 DEF UserCall

\* What users of a chain do disturbs no root anywhere.
LEMMA UserCallBridgeOK ==
  ASSUME BridgeIInv, NEW c \in Chains, UserCall(c),
         UNCHANGED <<teeVars, l1Vars, emitted, unpublished>>
  PROVE  BridgeIInv'
<1>1. L2IInv'
  BY UserCallOK DEF BridgeIInv
<1>2. L1IInv' /\ EventsRecorded'
  BY L1StutterOK DEF BridgeIInv, EventsRecorded, l1Vars
<1>3. (\A b \in Chains : Behind(b))'
  BY UserCallRoots DEF BridgeIInv, Behind, l1Vars
<1> QED BY <1>1, <1>2, <1>3 DEF BridgeIInv

\* Every step of the composition keeps the invariant.
LEMMA BridgeStepOK == BridgeIInv /\ [BridgeNext]_bridgeVars => BridgeIInv'
<1> SUFFICES ASSUME BridgeIInv, [BridgeNext]_bridgeVars PROVE BridgeIInv'
  OBVIOUS
<1>1. CASE OtherCall /\ UNCHANGED <<l2, emitted, unpublished>>
  BY <1>1, OtherCallOK, RootsUntouched DEF BridgeIInv
<1>2. ASSUME NEW sender \in Addresses, NEW e \in Epochs, NEW root \in Roots, NEW k \in TssKeys,
             PublishRoot(sender, e, root, k)
      PROVE  BridgeIInv'
  BY <1>2, PublishOK
<1>3. ASSUME NEW c \in Chains, UserCall(c), UNCHANGED <<teeVars, l1Vars, emitted, unpublished>>
      PROVE  BridgeIInv'
  BY <1>3, UserCallBridgeOK
<1>4. ASSUME NEW c \in Chains, NEW e \in Epochs, NEW root \in Roots, SyncRoot(c, e, root)
      PROVE  BridgeIInv'
  BY <1>4, SyncRootOK
<1>5. CASE UNCHANGED bridgeVars
  <2>1. L1IInv'
    BY <1>5, L1StutterOK DEF BridgeIInv, bridgeVars
  <2> QED BY <1>5, <2>1, RootsUntouched DEF bridgeVars, l1Vars
<1> QED BY <1>1, <1>2, <1>3, <1>4, <1>5 DEF BridgeNext

-----------------------------------------------------------------------------
\* The inductive invariant holds of all contracts together.
THEOREM BridgeInvariant == BridgeSpec => []BridgeIInv
BY BridgeInitOK, BridgeStepOK, PTL DEF BridgeSpec

\* All contracts stay well-typed, for any nodes, chains, epochs and roots.
THEOREM BridgeType == BridgeSpec => []BridgeTypeOK
<1>1. BridgeIInv => BridgeTypeOK
  BY DEF BridgeIInv, BridgeTypeOK, L1IInv, L2IInv, EventsRecorded
<1> QED BY <1>1, BridgeInvariant, PTL

(***************************************************************************)
(* Apart from unpublished syncs, no chain runs ahead of L1 and no two of   *)
(* them disagree about an epoch, for any number of chains, any order of    *)
(* the relays and any other syncs in between.                              *)
(***************************************************************************)
THEOREM BridgeFollowsL1 == BridgeSpec => []ChainsFollowL1
<1>1. BridgeIInv => ChainsFollowL1
  BY DEF BridgeIInv, Behind, ChainsFollowL1
<1> QED BY <1>1, BridgeInvariant, PTL

(***************************************************************************)
(* What a chain confirmed under a published root is proved by the root L1  *)
(* recorded for that epoch, whatever roots prove, whatever else the chain  *)
(* was synced to and however often a transaction was run.                  *)
(***************************************************************************)
THEOREM BridgeConfirmedByL1 == BridgeSpec => []ConfirmedByL1
<1>1. ASSUME BridgeIInv, NEW c \in Chains, NEW tx \in Txs,
             l2[c].transactionLogs[tx].isConfirmed,
             <<c, l2[c].transactionLogs[tx].epochId>> \notin unpublished
      PROVE  Proves(epochStates[l2[c].transactionLogs[tx].epochId], <<tx, TRUE>>)
  <2> DEFINE log == l2[c].transactionLogs[tx]
  <2>1. /\ ~ NoLog(log)
        /\ Proves(l2[c].syncedStates[log.epochId], <<tx, TRUE>>)
        /\ l2[c].syncedStates[log.epochId] # NoRoot
    BY <1>1, L2IInvGives, OmniBridgeAssumption DEF BridgeIInv, VerdictProved, PendingIsListed
  <2>2. log.epochId \in Epochs
    BY <1>1, OmniBridgeAssumption DEF BridgeIInv, L2IInv, L2TypeOK, L2State, LogType
  <2>3. l2[c].syncedStates[log.epochId] = epochStates[log.epochId]
    BY <1>1, <2>1, <2>2 DEF BridgeIInv, Behind
  <2> QED BY <2>1, <2>3
<1>2. BridgeIInv => ConfirmedByL1
  BY <1>1 DEF ConfirmedByL1
<1> QED BY <1>2, BridgeInvariant, PTL

(***************************************************************************)
(* The contracts implement RootFollower: a publication is Publish, a sync  *)
(* is Follow or Stray, every other call a stutter.                         *)
(***************************************************************************)
THEOREM BridgeImplements == BridgeSpec => ImplementsRootFollower
<1> DEFINE current == [c \in Chains |-> l2[c].latestSyncedEpoch]
           held    == [c \in Chains |-> IF l2[c].latestSyncedEpoch = 0 THEN {}
                         ELSE {<<l2[c].latestSyncedEpoch, l2[c].latestSyncedStateRoot>>}]
           astray  == {c \in Chains : <<c, l2[c].latestSyncedEpoch>> \in unpublished}
<1>1. BridgeInit => Promise!FollowerInit
  BY DEF BridgeInit, L2Init, Deployed, Promise!FollowerInit
<1>2. BridgeIInv /\ [BridgeNext]_bridgeVars => [Promise!FollowerNext]_(Promise!followerVars)
  <2> SUFFICES ASSUME BridgeIInv, [BridgeNext]_bridgeVars
               PROVE  Promise!FollowerNext \/ UNCHANGED <<emitted, current, held, astray>>
    BY DEF Promise!followerVars
  <2>1. ASSUME NEW sender \in Addresses, NEW e \in Epochs, NEW root \in Roots, NEW k \in TssKeys,
               PublishRoot(sender, e, root, k)
        PROVE  Promise!FollowerNext
    <3>1. /\ \A p \in emitted : p[1] < e
          /\ emitted' = emitted \cup {<<e, root>>} /\ l2' = l2 /\ unpublished' = unpublished
      BY <2>1, PublishOK DEF PublishRoot
    <3>2. Promise!Publish(e, root)
      BY <3>1 DEF Promise!Publish
    <3> QED BY <3>2 DEF Promise!FollowerNext
  <2>2. ASSUME NEW c \in Chains, NEW e \in Epochs, NEW root \in Roots, SyncRoot(c, e, root)
        PROVE  Promise!FollowerNext
    <3>1. /\ e \in Nat /\ e # 0 /\ e > l2[c].latestSyncedEpoch /\ <<c, e>> \notin unpublished
          /\ l2'[c].latestSyncedEpoch = e /\ l2'[c].latestSyncedStateRoot = root
          /\ \A b \in Chains : b # c => l2'[b] = l2[b]
      <4>1. /\ e \in Nat /\ l2[c].latestSyncedEpoch \in Nat /\ e > l2[c].latestSyncedEpoch
            /\ <<c, e>> \notin unpublished
            /\ l2'[c].latestSyncedEpoch = e /\ l2'[c].latestSyncedStateRoot = root
            /\ \A b \in Chains : b # c => l2'[b] = l2[b]
        BY <2>2, SyncRootMoves
      <4>2. e # 0
        BY <4>1
      <4> QED BY <4>1, <4>2
    <3>2. /\ emitted' = emitted
          /\ unpublished' = IF <<e, root>> \in emitted THEN unpublished
                            ELSE unpublished \cup {<<c, e>>}
      BY <2>2 DEF SyncRoot
    <3>3. Promise!MoveTo(c, <<e, root>>)
      <4>1. e > current[c] /\ current' = [current EXCEPT ![c] = e]
        BY <3>1
      <4>2. held' = [held EXCEPT ![c] = {<<e, root>>}]
        BY <3>1
      <4> QED BY <3>2, <4>1, <4>2 DEF Promise!MoveTo
    <3>4. CASE <<e, root>> \in emitted
      <4>1. astray' = astray \ {c}
        BY <3>1, <3>2, <3>4
      <4>2. Promise!Follow(c)
        BY <3>3, <3>4, <4>1 DEF Promise!Follow
      <4> QED BY <4>2 DEF Promise!FollowerNext
    <3>5. CASE <<e, root>> \notin emitted
      <4>1. astray' = astray \cup {c}
        BY <3>1, <3>2, <3>5
      <4>2. Promise!Stray(c)
        BY <3>3, <3>5, <4>1 DEF Promise!Stray
      <4> QED BY <4>2 DEF Promise!FollowerNext
    <3> QED BY <3>4, <3>5
  <2>3. ASSUME NEW c \in Chains, UserCall(c),
               UNCHANGED <<teeVars, l1Vars, emitted, unpublished>>
        PROVE  UNCHANGED <<emitted, current, held, astray>>
    BY <2>3, UserCallRoots DEF BridgeIInv
  <2>4. CASE UNCHANGED <<l2, emitted, unpublished>>
    BY <2>4
  <2> QED BY <2>1, <2>2, <2>3, <2>4 DEF BridgeNext, bridgeVars
<1> QED BY <1>1, <1>2, BridgeInvariant, PTL DEF BridgeSpec, ImplementsRootFollower, Promise!FollowerSpec

(***************************************************************************)
(* Composed, each contract still runs under its own specification: L1 with *)
(* the calls of its users, and every chain with roots that somebody hands  *)
(* it.  So what is proved of L1Spec and L2Spec for callers of any kind     *)
(* holds of the contracts side by side too.                                *)
(***************************************************************************)
THEOREM BridgeImplementsContracts == BridgeSpec => L1Spec /\ L2Spec
<1>1. BridgeInit => L1Init /\ L2Init
  BY DEF BridgeInit
<1>2. BridgeTypeOK /\ [BridgeNext]_bridgeVars => [L1Next]_<<teeVars, l1Vars>> /\ [L2Next]_l2
  <2> SUFFICES ASSUME BridgeTypeOK, [BridgeNext]_bridgeVars
               PROVE  [L1Next]_<<teeVars, l1Vars>> /\ [L2Next]_l2
    OBVIOUS
  <2>1. ASSUME NEW c \in Chains, NEW e \in Epochs, NEW root \in Roots, SyncRoot(c, e, root)
        PROVE  L2Next /\ UNCHANGED <<teeVars, l1Vars>>
    BY <2>1, OmniBridgeAssumption DEF L2Next, SyncRoot
  <2>2. ASSUME NEW c \in Chains, UserCall(c)  PROVE L2Next
    BY <2>2 DEF L2Next
  <2>3. CASE UNCHANGED bridgeVars
    BY <2>3 DEF bridgeVars
  <2>4. CASE BridgeNext
    BY <2>1, <2>2, <2>4 DEF BridgeNext, PublishRoot, L1Next
  <2>5. QED
    BY <2>3, <2>4
<1>3. QED
  BY <1>1, <1>2, BridgeType, PTL DEF BridgeSpec, L1Spec, L2Spec
=============================================================================
