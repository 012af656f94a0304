----------------------------- MODULE OmniBridge -----------------------------
(***************************************************************************)
(* The L1 contracts and the OmniL2 contracts of several chains.  A relay   *)
(* of a StateRootUpdated event may be delayed, repeated, overtaken by a    *)
(* later one, or never happen, chain by chain.  OmniL2 cannot tell a relay *)
(* from any other call: whoever calls may hand a chain any epoch and root, *)
(* for the verify functions answer true.  unpublished remembers where that *)
(* happened, so that the properties can speak of everything else.          *)
(***************************************************************************)
EXTENDS OmniL1, OmniL2

\* The two contracts speak of the same epochs and roots.
ASSUME OmniBridgeAssumption ==
  L2Epochs = Epochs /\ L2Roots = Roots /\ L2NoRoot = NoRoot

VARIABLES
  emitted,      \* the StateRootUpdated events so far, <<epoch, root>>
  unpublished   \* history: <<chain, epoch>> of the syncs that were no relay of an event

bridgeVars == <<teeVars, l1Vars, l2, emitted, unpublished>>

BridgeInit == L1Init /\ L2Init /\ emitted = {} /\ unpublished = {}

\* submitStateRoot and the event it emits.
PublishRoot(sender, e, root, k) ==
  /\ SubmitStateRoot(sender, e, root, k)
  /\ emitted' = emitted \cup {<<e, root>>}
  /\ UNCHANGED <<l2, unpublished>>

\* Anybody syncs a chain to a root: one that L1 has published, or another.
SyncRoot(c, e, root) ==
  /\ SyncStateRootFromL1(c, e, root)
  /\ unpublished' = IF <<e, root>> \in emitted THEN unpublished
                    ELSE unpublished \cup {<<c, e>>}
  /\ UNCHANGED <<teeVars, l1Vars, emitted>>

BridgeNext ==
  \/ OtherCall /\ UNCHANGED <<l2, emitted, unpublished>>
  \/ \E sender \in Addresses, e \in Epochs, root \in Roots, k \in TssKeys :
        PublishRoot(sender, e, root, k)
  \/ \E c \in Chains, e \in Epochs, root \in Roots : SyncRoot(c, e, root)
  \/ \E c \in Chains : UserCall(c) /\ UNCHANGED <<teeVars, l1Vars, emitted, unpublished>>

BridgeSpec == BridgeInit /\ [][BridgeNext]_bridgeVars

-----------------------------------------------------------------------------
\* The types of the three contracts; a StateRootUpdated event names a real root.
BridgeTypeOK ==
  /\ L1TypeOK /\ L2TypeOK
  /\ emitted \subseteq (Epochs \ {0}) \X Roots
  /\ unpublished \subseteq Chains \X Epochs

(***************************************************************************)
(* Where no unpublished root was handed to it, a chain holds what L1       *)
(* recorded for the epoch, so two chains never differ there; and a chain   *)
(* whose newest root was published is not ahead of L1.  An unpublished     *)
(* sync, before or after, disturbs no other epoch and no other chain.      *)
(***************************************************************************)
ChainsFollowL1 ==
  \A c \in Chains :
     /\ \A e \in Epochs : <<c, e>> \notin unpublished =>
           l2[c].syncedStates[e] \in {NoRoot, epochStates[e]}
     /\ <<c, l2[c].latestSyncedEpoch>> \notin unpublished =>
           l2[c].latestSyncedEpoch <= latestConfirmedEpoch

(***************************************************************************)
(* End to end: a transaction confirmed on any chain is one that the root   *)
(* published on L1 for its epoch proves valid, unless it ran under a root  *)
(* that was handed to the chain unpublished; roots of that kind for other  *)
(* epochs, earlier or later, do not change its verdict.                    *)
(***************************************************************************)
ConfirmedByL1 ==
  \A c \in Chains, tx \in Txs :
     LET log == l2[c].transactionLogs[tx] IN
     (log.isConfirmed /\ <<c, log.epochId>> \notin unpublished) =>
       Proves(epochStates[log.epochId], <<tx, TRUE>>)

(***************************************************************************)
(* The contracts implement RootFollower: publication on L1, following or   *)
(* straying on every chain; all the other calls are stutters of it.        *)
(***************************************************************************)
Promise == INSTANCE RootFollower WITH
  Followers <- Chains, EpochIds <- Epochs, RootValues <- Roots,
  published <- emitted,
  current <- [c \in Chains |-> l2[c].latestSyncedEpoch],
  held <- [c \in Chains |-> IF l2[c].latestSyncedEpoch = 0 THEN {}
                            ELSE {<<l2[c].latestSyncedEpoch, l2[c].latestSyncedStateRoot>>}],
  astray <- {c \in Chains : <<c, l2[c].latestSyncedEpoch>> \in unpublished}

ImplementsRootFollower == Promise!FollowerSpec
=============================================================================
