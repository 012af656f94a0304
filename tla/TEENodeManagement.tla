------------------------- MODULE TEENodeManagement -------------------------
(***************************************************************************)
(* contracts/TEENodeManagement.sol.  A transaction of the chain is atomic, *)
(* so every external function is one action; a failed require() reverts    *)
(* the transaction, which is no step.  The time, the events and the node's *)
(* public key are left out.  An address is a model value, a TSS key stands *)
(* for its hash.                                                           *)
(***************************************************************************)
EXTENDS Integers, FiniteSets, Sequences, SequencesExt

CONSTANTS
  Addresses,     \* accounts that may call (none of them the zero address)
  TssKeys,       \* tssPublicKey values
  InitThreshold, \* the constructor's _tssThreshold
  MaxNodes,      \* bounds nextNodeId, a uint32 in the code
  MaxEpoch,      \* bounds every epoch id, a uint64 in the code
  MaxThreshold   \* bounds tssThreshold, a uint256 in the code

ASSUME TEENodeManagementAssumption ==
  /\ InitThreshold \in 0..MaxThreshold
  /\ MaxNodes \in Nat /\ MaxEpoch \in Nat /\ MaxThreshold \in Nat

Epochs == 0..MaxEpoch

VARIABLES
  teeNodes,      \* teeNodes[1..nextNodeId-1], all of them registered
  activeIn,      \* epochs: the active node ids and their count, by epoch
  tssSubmission, \* tssKeySubmissions, by key
  tssThreshold,
  currentEpoch

teeVars == <<teeNodes, activeIn, tssSubmission, tssThreshold, currentEpoch>>

TeeInit ==
  /\ teeNodes = << >>
  /\ activeIn = [e \in Epochs |-> [activeNodeIds |-> << >>, activeNodeCount |-> 0]]
  /\ tssSubmission =
       [k \in TssKeys |-> [submissionCount |-> 0, submittedNodes |-> {}, isConfirmed |-> FALSE]]
  /\ tssThreshold = InitThreshold
  /\ currentEpoch = 1

\* The modifier onlyRegisteredNode.
OwnsNode(sender, nodeId) == teeNodes[nodeId].nodeAddress = sender

\* An address may register again and again; the attestation holds.
RegisterTEENode(sender) ==
  /\ Len(teeNodes) < MaxNodes
  /\ teeNodes' = Append(teeNodes, [nodeAddress |-> sender, isActive |-> FALSE,
                                   lastActiveEpoch |-> 0])
  /\ UNCHANGED <<activeIn, tssSubmission, tssThreshold, currentEpoch>>

\* Mutant of ActivateNode: listed again.
ActivateNodeAgain(sender, nodeId, e) ==
  /\ OwnsNode(sender, nodeId) /\ e >= currentEpoch
  /\ activeIn' = [activeIn EXCEPT ![e].activeNodeIds = Append(@, nodeId),
                                  ![e].activeNodeCount = @ + 1]
  /\ activeIn[e].activeNodeCount < MaxNodes
  /\ teeNodes' = [teeNodes EXCEPT ![nodeId].isActive = TRUE, ![nodeId].lastActiveEpoch = e]
  /\ UNCHANGED <<tssSubmission, tssThreshold, currentEpoch>>

\* activateNode: of the current epoch or of any later one.
ActivateNode(sender, nodeId, e) ==
  /\ OwnsNode(sender, nodeId) /\ e >= currentEpoch
  /\ activeIn' =
       IF nodeId \in ToSet(activeIn[e].activeNodeIds) THEN activeIn
       ELSE [activeIn EXCEPT ![e].activeNodeIds = Append(@, nodeId),
                             ![e].activeNodeCount = @ + 1]
  /\ teeNodes' = [teeNodes EXCEPT ![nodeId].isActive = TRUE, ![nodeId].lastActiveEpoch = e]
  /\ UNCHANGED <<tssSubmission, tssThreshold, currentEpoch>>

\* Mutant of SubmitTSSPublicKey: a node counts twice.
SubmitTSSTwice(sender, nodeId, k) ==
  /\ OwnsNode(sender, nodeId)
  /\ tssSubmission[k].submissionCount < MaxThreshold
  /\ LET count == tssSubmission[k].submissionCount + 1 IN
     tssSubmission' =
       [tssSubmission EXCEPT ![k].submissionCount = count,
                             ![k].submittedNodes = @ \cup {nodeId},
                             ![k].isConfirmed = @ \/ count >= tssThreshold]
  /\ UNCHANGED <<teeNodes, activeIn, tssThreshold, currentEpoch>>

\* submitTSSPublicKey: the threshold is only looked at here.
SubmitTSSPublicKey(sender, nodeId, k) ==
  /\ OwnsNode(sender, nodeId)
  /\ nodeId \notin tssSubmission[k].submittedNodes
  /\ LET count == tssSubmission[k].submissionCount + 1 IN
     tssSubmission' =
       [tssSubmission EXCEPT ![k].submissionCount = count,
                             ![k].submittedNodes = @ \cup {nodeId},
                             ![k].isConfirmed = @ \/ count >= tssThreshold]
  /\ UNCHANGED <<teeNodes, activeIn, tssThreshold, currentEpoch>>

\* Mutant of VerifyEpochSignature: today's threshold instead of the flag.
VerifyByThreshold(k) == tssSubmission[k].submissionCount >= tssThreshold

\* verifyEpochSignature on a signature that is not empty.
VerifyEpochSignature(k) == tssSubmission[k].isConfirmed

\* The two owner functions that change this state.
SetTSSThreshold(t) ==
  /\ t > 0 /\ tssThreshold' = t
  /\ UNCHANGED <<teeNodes, activeIn, tssSubmission, currentEpoch>>

UpdateCurrentEpoch(e) ==
  /\ e > currentEpoch /\ currentEpoch' = e
  /\ UNCHANGED <<teeNodes, activeIn, tssSubmission, tssThreshold>>

TeeNext ==
  \/ \E sender \in Addresses : RegisterTEENode(sender)
  \/ \E sender \in Addresses, nodeId \in DOMAIN teeNodes, e \in Epochs :
        ActivateNode(sender, nodeId, e)
  \/ \E sender \in Addresses, nodeId \in DOMAIN teeNodes, k \in TssKeys :
        SubmitTSSPublicKey(sender, nodeId, k)
  \/ \E t \in 0..MaxThreshold : SetTSSThreshold(t)
  \/ \E e \in Epochs : UpdateCurrentEpoch(e)

TeeSpec == TeeInit /\ [][TeeNext]_teeVars

-----------------------------------------------------------------------------
NodeIds == 1..MaxNodes

TeeTypeOK ==
  /\ teeNodes \in Seq([nodeAddress : Addresses, isActive : BOOLEAN, lastActiveEpoch : Epochs])
  /\ Len(teeNodes) <= MaxNodes
  /\ activeIn \in [Epochs -> [activeNodeIds : Seq(NodeIds), activeNodeCount : Nat]]
  /\ tssSubmission \in [TssKeys -> [submissionCount : Nat, submittedNodes : SUBSET NodeIds,
                                    isConfirmed : BOOLEAN]]
  /\ tssThreshold \in 0..MaxThreshold /\ currentEpoch \in Nat

(***************************************************************************)
(* A key is confirmed by a step that brings the number of DIFFERENT nodes  *)
(* that submitted it up to the threshold in force at that moment, whatever *)
(* the owner did to the threshold before.                                  *)
(***************************************************************************)
ConfirmedByThreshold ==
  [][\A k \in TssKeys :
       tssSubmission'[k].isConfirmed /\ ~ tssSubmission[k].isConfirmed
         => Cardinality(tssSubmission'[k].submittedNodes) >= tssThreshold]_teeVars

(***************************************************************************)
(* The three records of an activation agree: the list and its counter, and *)
(* the node's own lastActiveEpoch, which later calls may move either way.  *)
(***************************************************************************)
ActivationsAgree ==
  /\ \A e \in Epochs :
        activeIn[e].activeNodeCount = Cardinality(ToSet(activeIn[e].activeNodeIds))
  /\ \A nodeId \in DOMAIN teeNodes :
        teeNodes[nodeId].isActive =>
          nodeId \in ToSet(activeIn[teeNodes[nodeId].lastActiveEpoch].activeNodeIds)
=============================================================================
