------------------------------- MODULE OmniL1 -------------------------------
(***************************************************************************)
(* contracts/OmniL1.sol beside the TEENodeManagement it calls: a leader    *)
(* node publishes one state root per epoch under a confirmed TSS key.      *)
(* NoRoot is bytes32(0).  getNodeIdFromAddress gives up after 999 nodes;   *)
(* MaxNodes stays below.                                                   *)
(***************************************************************************)
EXTENDS TEENodeManagement

CONSTANTS
  Roots,     \* state roots, without bytes32(0)
  NoRoot,    \* bytes32(0)
  L1Tokens   \* token addresses that may be created on L1

ASSUME OmniL1Assumption == NoRoot \notin Roots /\ MaxNodes < 1000

VARIABLES
  epochStates,          \* the root confirmed for an epoch, or NoRoot
  latestConfirmedEpoch,
  latestStateRoot,
  leaderNodes,          \* the ids of the leader nodes
  l1Tokens              \* the tokens that exist

l1Vars == <<epochStates, latestConfirmedEpoch, latestStateRoot, leaderNodes, l1Tokens>>

L1Init ==
  /\ TeeInit
  /\ epochStates = [e \in Epochs |-> NoRoot]
  /\ latestConfirmedEpoch = 0 /\ latestStateRoot = NoRoot
  /\ leaderNodes = {} /\ l1Tokens = {}

(***************************************************************************)
(* getNodeIdFromAddress: the FIRST id registered by the address, and 0 for *)
(* every address that registered none.  onlyLeader looks that id up, so a  *)
(* flag on a later id of an address is never seen, and a flag on id 0,     *)
(* which the owner may set, makes a leader of everybody unregistered.      *)
(***************************************************************************)
NodeIdOf(sender) ==
  LET owned == {i \in DOMAIN teeNodes : teeNodes[i].nodeAddress = sender}
  IN  IF owned = {} THEN 0 ELSE CHOOSE i \in owned : \A j \in owned : i <= j

IsLeader(sender) == NodeIdOf(sender) \in leaderNodes

\* Mutants of SubmitStateRoot: any epoch; the latest one again.
SubmitAnyEpoch(sender, e, root, k) ==
  /\ IsLeader(sender) /\ VerifyEpochSignature(k)
  /\ epochStates' = [epochStates EXCEPT ![e] = root]
  /\ latestConfirmedEpoch' = e /\ latestStateRoot' = root
  /\ UNCHANGED <<leaderNodes, l1Tokens, teeVars>>

SubmitLatestAgain(sender, e, root, k) ==
  /\ IsLeader(sender) /\ VerifyEpochSignature(k)
  /\ e >= latestConfirmedEpoch
  /\ epochStates' = [epochStates EXCEPT ![e] = root]
  /\ latestConfirmedEpoch' = e /\ latestStateRoot' = root
  /\ UNCHANGED <<leaderNodes, l1Tokens, teeVars>>

SubmitStateRoot(sender, e, root, k) ==
  /\ IsLeader(sender)
  /\ e > latestConfirmedEpoch
  /\ VerifyEpochSignature(k)
  /\ epochStates' = [epochStates EXCEPT ![e] = root]
  /\ latestConfirmedEpoch' = e /\ latestStateRoot' = root
  /\ UNCHANGED <<leaderNodes, l1Tokens, teeVars>>

\* The ids setLeaderNode is called with: any, registered or not, 0 included.
LeaderIds == 0..MaxNodes

\* setLeaderNode, by the owner.
SetLeaderNode(nodeId, isLeader) ==
  /\ leaderNodes' = IF isLeader THEN leaderNodes \cup {nodeId} ELSE leaderNodes \ {nodeId}
  /\ UNCHANGED <<epochStates, latestConfirmedEpoch, latestStateRoot, l1Tokens, teeVars>>

L1CreateToken(token) ==
  /\ token \notin l1Tokens
  /\ l1Tokens' = l1Tokens \cup {token}
  /\ UNCHANGED <<epochStates, latestConfirmedEpoch, latestStateRoot, leaderNodes, teeVars>>

\* Every call on L1 but a publication.
OtherCall ==
  \/ TeeNext /\ UNCHANGED l1Vars
  \/ \E nodeId \in LeaderIds, isLeader \in BOOLEAN : SetLeaderNode(nodeId, isLeader)
  \/ \E token \in L1Tokens : L1CreateToken(token)

L1Next ==
  \/ OtherCall
  \/ \E sender \in Addresses, e \in Epochs, root \in Roots, k \in TssKeys :
        SubmitStateRoot(sender, e, root, k)

L1Spec == L1Init /\ [][L1Next]_<<teeVars, l1Vars>>

-----------------------------------------------------------------------------
L1TypeOK ==
  /\ TeeTypeOK
  /\ epochStates \in [Epochs -> Roots \cup {NoRoot}]
  /\ latestConfirmedEpoch \in Epochs
  /\ latestStateRoot \in Roots \cup {NoRoot}
  /\ leaderNodes \subseteq LeaderIds /\ l1Tokens \subseteq L1Tokens

(***************************************************************************)
(* The two latest fields name the newest entry of epochStates: nothing is  *)
(* recorded above latestConfirmedEpoch, although leaders choose the epoch  *)
(* ids, skip some and race each other.                                     *)
(***************************************************************************)
LatestIsNewest ==
  /\ latestStateRoot = epochStates[latestConfirmedEpoch]
  /\ latestConfirmedEpoch > 0 => latestStateRoot # NoRoot
  /\ \A e \in Epochs : e > latestConfirmedEpoch => epochStates[e] = NoRoot

\* A root once published for an epoch is final, and a gap is never filled in.
PublishedRootsFinal ==
  [][\A e \in Epochs : e <= latestConfirmedEpoch => epochStates'[e] = epochStates[e]]_l1Vars

(***************************************************************************)
(* Nothing is published before the TEE nodes agreed on a key, whoever the  *)
(* leader is: registration, submissions and publication are calls of       *)
(* different parties to two contracts, in any order.                       *)
(***************************************************************************)
PublishedUnderTSSKey ==
  latestConfirmedEpoch > 0 => \E k \in TssKeys : tssSubmission[k].submittedNodes # {}
                                                 /\ tssSubmission[k].isConfirmed
=============================================================================
