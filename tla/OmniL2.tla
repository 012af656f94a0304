------------------------------- MODULE OmniL2 -------------------------------
(***************************************************************************)
(* contracts/OmniL2.sol, deployed once on every chain: l2[c] is the state  *)
(* of the instance on chain c.  A Merkle proof is abstracted to what it    *)
(* proves: Proves(root, leaf) says that the tree with that root has the    *)
(* leaf, and a caller can give a proof exactly then.  The account, the     *)
(* token and the amount of a transaction are one claim.                    *)
(***************************************************************************)
EXTENDS Integers, Sequences, SequencesExt

CONSTANTS
  Chains,         \* the L2 chains with an OmniL2 contract
  L2Epochs,       \* epoch ids, a set of naturals
  L2Roots,        \* state roots, without bytes32(0)
  L2NoRoot,       \* bytes32(0)
  Txs,            \* transaction hashes
  Claims,         \* <<account, token, amount>> values
  Proves(_, _),   \* Proves(root, leaf)
  L2Tokens,       \* token addresses that may be created
  MaxExecuted     \* bounds the length of epochTransactions[e]

ASSUME OmniL2Assumption ==
  /\ L2Epochs \subseteq Nat /\ 0 \in L2Epochs
  /\ L2NoRoot \notin L2Roots /\ MaxExecuted \in Nat

VARIABLE l2

\* A log that was never written reads as zeros.
NoLog(log) == log.claim = {}
ZeroLog ==
  [claim |-> {}, isValid |-> FALSE, epochId |-> 0, isConfirmed |-> FALSE, isRejected |-> FALSE]

Deployed ==
  [syncedStates |-> [e \in L2Epochs |-> L2NoRoot],
   latestSyncedEpoch |-> 0, latestSyncedStateRoot |-> L2NoRoot,
   transactionLogs |-> [tx \in Txs |-> ZeroLog],
   epochTransactions |-> [e \in L2Epochs |-> << >>],
   tokens |-> {}]

L2Init == l2 = [c \in Chains |-> Deployed]

\* Mutant of SyncStateRootFromL1: backward, or the same epoch again.
SyncAnyEpoch(c, e, root) ==
  l2' = [l2 EXCEPT ![c].syncedStates[e] = root,
                   ![c].latestSyncedEpoch = e, ![c].latestSyncedStateRoot = root]

\* syncStateRootFromL1: forward only; the proofs are not looked at.
SyncStateRootFromL1(c, e, root) ==
  /\ e > l2[c].latestSyncedEpoch
  /\ l2' = [l2 EXCEPT ![c].syncedStates[e] = root,
                      ![c].latestSyncedEpoch = e,
                      ![c].latestSyncedStateRoot = root]

(***************************************************************************)
(* Mutants of ExecuteTransaction, which differ in the log they write and   *)
(* in when they list the transaction: the flags of an earlier execution    *)
(* kept; listed at the first execution only; a confirmed one run again.    *)
(***************************************************************************)
ExecuteWith(c, tx, claim, isValid, old, list) ==
  LET e    == l2[c].latestSyncedEpoch
      root == l2[c].latestSyncedStateRoot
  IN  /\ root # L2NoRoot
      /\ Proves(root, claim) /\ Proves(root, <<tx, isValid>>)
      /\ Len(l2[c].epochTransactions[e]) < MaxExecuted
      /\ l2' = [l2 EXCEPT
                  ![c].transactionLogs[tx] =
                     [old EXCEPT !.claim = {claim}, !.isValid = isValid, !.epochId = e],
                  ![c].epochTransactions[e] = list]

ListedNow(c, tx) == Append(l2[c].epochTransactions[l2[c].latestSyncedEpoch], tx)

ExecuteKeepingFlags(c, tx, claim, isValid) ==
  /\ ~ l2[c].transactionLogs[tx].isConfirmed
  /\ ExecuteWith(c, tx, claim, isValid, l2[c].transactionLogs[tx], ListedNow(c, tx))

ExecuteListedOnce(c, tx, claim, isValid) ==
  /\ ~ l2[c].transactionLogs[tx].isConfirmed
  /\ ExecuteWith(c, tx, claim, isValid, ZeroLog,
                 IF NoLog(l2[c].transactionLogs[tx]) THEN ListedNow(c, tx)
                 ELSE l2[c].epochTransactions[l2[c].latestSyncedEpoch])

ExecuteConfirmed(c, tx, claim, isValid) ==
  ExecuteWith(c, tx, claim, isValid, ZeroLog, ListedNow(c, tx))

(***************************************************************************)
(* executeTransaction: refused when the transaction is confirmed, accepted *)
(* again while it is pending and after it was rejected.                    *)
(***************************************************************************)
ExecuteTransaction(c, tx, claim, isValid) ==
  LET e    == l2[c].latestSyncedEpoch
      root == l2[c].latestSyncedStateRoot
  IN  /\ root # L2NoRoot
      /\ ~ l2[c].transactionLogs[tx].isConfirmed
      /\ Proves(root, claim) /\ Proves(root, <<tx, isValid>>)
      /\ Len(l2[c].epochTransactions[e]) < MaxExecuted
      /\ l2' = [l2 EXCEPT
                  ![c].transactionLogs[tx] =
                     [claim |-> {claim}, isValid |-> isValid, epochId |-> e,
                      isConfirmed |-> FALSE, isRejected |-> FALSE],
                  ![c].epochTransactions[e] = Append(@, tx)]

\* Mutant of Resolved: everything is confirmed.
ResolvedValid(log) ==
  IF log.isConfirmed \/ log.isRejected THEN log ELSE [log EXCEPT !.isConfirmed = TRUE]

\* recycleLogs: each unresolved transaction on the epoch's list is resolved.
Resolved(log) ==
  IF log.isConfirmed \/ log.isRejected THEN log
  ELSE [log EXCEPT !.isConfirmed = log.isValid, !.isRejected = ~ log.isValid]

RecycleLogs(c, e) ==
  /\ e < l2[c].latestSyncedEpoch
  /\ l2[c].syncedStates[e] # L2NoRoot
  /\ l2' = [l2 EXCEPT ![c].transactionLogs =
              [tx \in Txs |-> IF tx \in ToSet(l2[c].epochTransactions[e])
                                THEN Resolved(@[tx]) ELSE @[tx]]]

L2CreateToken(c, token) ==
  /\ token \notin l2[c].tokens
  /\ l2' = [l2 EXCEPT ![c].tokens = @ \cup {token}]

\* What the users of a chain may do; syncing is in L2Next and in OmniBridge.
UserCall(c) ==
  \/ \E tx \in Txs, claim \in Claims, isValid \in BOOLEAN :
        ExecuteTransaction(c, tx, claim, isValid)
  \/ \E e \in L2Epochs : RecycleLogs(c, e)
  \/ \E token \in L2Tokens : L2CreateToken(c, token)

L2Next ==
  \E c \in Chains : \/ UserCall(c)
                    \/ \E e \in L2Epochs, root \in L2Roots : SyncStateRootFromL1(c, e, root)

L2Spec == L2Init /\ [][L2Next]_l2

-----------------------------------------------------------------------------
LogType ==
  [claim : SUBSET Claims, isValid : BOOLEAN, epochId : L2Epochs,
   isConfirmed : BOOLEAN, isRejected : BOOLEAN]

L2State ==
  [syncedStates : [L2Epochs -> L2Roots \cup {L2NoRoot}],
   latestSyncedEpoch : L2Epochs,
   latestSyncedStateRoot : L2Roots \cup {L2NoRoot},
   transactionLogs : [Txs -> LogType],
   epochTransactions : [L2Epochs -> Seq(Txs)],
   tokens : SUBSET L2Tokens]

L2TypeOK == l2 \in [Chains -> L2State]

(***************************************************************************)
(* A transaction gets one verdict, and it is the one that the state root   *)
(* of the epoch it was executed in proves, however late the logs of that   *)
(* epoch are recycled and however often the transaction was run before.    *)
(***************************************************************************)
VerdictProved ==
  \A c \in Chains, tx \in Txs :
     LET log == l2[c].transactionLogs[tx] IN
     /\ ~ (log.isConfirmed /\ log.isRejected)
     /\ log.isConfirmed \/ log.isRejected => ~ NoLog(log)
     /\ log.isConfirmed => Proves(l2[c].syncedStates[log.epochId], <<tx, TRUE>>)
     /\ log.isRejected  => Proves(l2[c].syncedStates[log.epochId], <<tx, FALSE>>)

(***************************************************************************)
(* Every executed transaction can still be resolved: it is on the list of  *)
(* the epoch its log names, and that epoch has a state root, so recycling  *)
(* it will not be refused once a later epoch is synced.                    *)
(***************************************************************************)
PendingIsListed ==
  \A c \in Chains, tx \in Txs :
     LET log == l2[c].transactionLogs[tx] IN
     ~ NoLog(log) => /\ tx \in ToSet(l2[c].epochTransactions[log.epochId])
                     /\ l2[c].syncedStates[log.epochId] # L2NoRoot

\* A confirmed transaction never changes again, whatever is executed later.
ConfirmedIsFinal ==
  [][\A c \in Chains, tx \in Txs :
       l2[c].transactionLogs[tx].isConfirmed =>
         l2'[c].transactionLogs[tx] = l2[c].transactionLogs[tx]]_l2

(***************************************************************************)
(* What the guard of recycleLogs says it is for ("Cannot recycle current   *)
(* epoch"): the log of a transaction of the current epoch is not resolved. *)
(***************************************************************************)
CurrentEpochPending ==
  \A c \in Chains, tx \in Txs :
     LET log == l2[c].transactionLogs[tx] IN
     log.isConfirmed \/ log.isRejected => log.epochId < l2[c].latestSyncedEpoch
=============================================================================
