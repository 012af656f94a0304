----------------------------- MODULE TeeCluster -----------------------------
(***************************************************************************)
(* Common/tee_cluster: every TEE node keeps its own conflict DAG, a list   *)
(* of token addresses with one balance tree each, and a map of sort orders.*)
(* The guest calls one function at a time, so a call is an action.         *)
(*                                                                         *)
(* Left out, because no action below reads it: the pending transactions    *)
(* (nothing is ever sorted: the node list sort_txs consults stays empty),  *)
(* the token registry, the executed transactions, the hashes and roots of  *)
(* an epoch output.  Messages are not delivered by this tee_network.       *)
(***************************************************************************)
EXTENDS MerkleState

CONSTANTS
  Tees,         \* the nodes of the cluster
  Submitted,    \* the operations callers may submit
  TokenCalls,   \* the tokens that may be registered explicitly
  SortCalls,    \* the sequences of [tx, order] one set_tx_sort_info may carry
  MaxTokens,    \* MAX_NODES, 10: the token slots
  MaxSortInfo,  \* MAX_PENDING_TXS, 10000
  MaxRegister,  \* bounds explicit registrations of a model run
  Tails,        \* what unwritten key bytes may hold, see MerkleState
  Mallocs,      \* how adding a node may go: "ok", "fails" when its index entry
                \* gets no memory (the node stays), "refused" when the node gets none
  Hash(_)       \* the DAG root hash, as platform_sha256 computes it

ASSUME TeeClusterAssumption ==
  /\ Submitted \subseteq Operations /\ \A o \in Submitted : o.tx \in Nat
  /\ SortCalls \subseteq Seq([tx : Nat, order : Nat])
  /\ Mallocs \subseteq {"ok", "fails", "refused"}
  /\ MaxTokens \in Nat /\ MaxSortInfo \in Nat /\ MaxRegister \in Nat

VARIABLES
  dag,      \* dag[n]: global_dag
  tokens,   \* tokens[n]: token_addresses[0..token_count-1], repetitions included
  trees,    \* trees[n][i]: token_trees[i]
  sortMap   \* sortMap[n]: tx_sort_map

vars == <<dag, tokens, trees, sortMap>>

Init ==
  /\ dag = [n \in Tees |-> EmptyDag]
  /\ tokens = [n \in Tees |-> << >>]
  /\ trees = [n \in Tees |-> [i \in 1..MaxTokens |-> EmptyTree]]
  /\ sortMap = [n \in Tees |-> << >>]

\* Every lookup of a token's tree stops at the first slot with its address.
Slot(list, token) ==
  CHOOSE i \in DOMAIN list : list[i] = token /\ \A j \in 1..i-1 : list[j] # token

Known(list, token) == token \in ToSet(list)

-----------------------------------------------------------------------------
\* Mutant of Judged: only the newest node gets the verdict.
JudgedNewest(d, tx, t, tail) ==
  IF Cardinality(TxNodes(d, tx)) \notin 2..MaxTxOps THEN d
  ELSE LET failed == \/ ~ ValidateTx(TxOps(d, tx), t, tail["validate"])
                     \/ CheckOperationFailed(d, d.count, t, tail["check"][d.count],
                                          tail["nested"][d.count])
       IN  [d EXCEPT !.nodes[d.count].failed = failed,
                     !.nodes[d.count].op.valid = @ /\ ~ failed]

(***************************************************************************)
(* What the unwritten key bytes may hold in one insertion: the parents'    *)
(* update and the trial of the transaction each read some, and so does     *)
(* each node's own check, which also repeats the trial.                    *)
(***************************************************************************)
Tried(d, tx) == {e \in TxNodes(d, tx) : Cardinality(TxNodes(d, tx)) \in 2..MaxTxOps}

Guesses(d, tx) ==
  [update : Tails, validate : Tails,
   check : [Tried(d, tx) -> Tails], nested : [Tried(d, tx) -> Tails]]

(***************************************************************************)
(* The end of process_operation: when the transaction has its two (or      *)
(* more) operations, each of its nodes gets the verdict of a trial run and *)
(* of its own check against the tree of the operation at hand.             *)
(***************************************************************************)
Judged(d, tx, t, tail) ==
  IF Cardinality(TxNodes(d, tx)) \notin 2..MaxTxOps THEN d
  ELSE LET txFailed == ~ ValidateTx(TxOps(d, tx), t, tail["validate"])
           failed   == {e \in TxNodes(d, tx) :
                          \/ txFailed
                          \/ CheckOperationFailed(d, e, t, tail["check"][e], tail["nested"][e])}
       IN  [d EXCEPT !.nodes = [e \in 1..d.count |->
              IF e \notin TxNodes(d, tx) THEN d.nodes[e]
              ELSE [d.nodes[e] EXCEPT !.failed = e \in failed,
                                      !.op.valid = @ /\ e \notin failed]]]

(***************************************************************************)
(* What process_operation and listen_and_build_dag share.  With all token  *)
(* slots taken the call fails after the node has entered the DAG; without  *)
(* memory for the node it fails before.                                    *)
(***************************************************************************)
Insert(n, o, order, alloc) ==
  LET added == AddOperation(dag[n], o, order, alloc)
      list  == IF Known(tokens[n], o.token) THEN tokens[n] ELSE Append(tokens[n], o.token)
      slot  == Slot(list, o.token)
      after(tail) == UpdateParentStates(added, FirstWithId(added, o.id), trees[n][slot], tail)
  IN  /\ HasRoom(dag[n]) /\ alloc # "refused"
      /\ \/ /\ Len(list) > MaxTokens
            /\ dag' = [dag EXCEPT ![n] = added]
            /\ UNCHANGED <<tokens, trees>>
         \/ /\ Len(list) <= MaxTokens
            /\ tokens' = [tokens EXCEPT ![n] = list]
            /\ \E tail \in Guesses(added, o.tx) :
                 LET done == after(tail["update"]) IN
                 /\ dag' = [dag EXCEPT ![n] = Judged(done.dag, o.tx, done.tree, tail)]
                 /\ trees' = [trees EXCEPT ![n][slot] = done.tree]
      /\ UNCHANGED sortMap

\* sorted_txs is always empty, so an operation sorts by its transaction id.
ProcessOperation(n, o, alloc) == Insert(n, o, o.tx, alloc)

\* get_tx_sort_order, with the default of listen_and_build_dag.
SortOrder(map, tx) ==
  LET hits == {i \in DOMAIN map : map[i].tx = tx}
  IN  IF hits = {} THEN tx ELSE map[CHOOSE i \in hits : \A j \in hits : i <= j].order

ListenAndBuildDag(n, o, alloc) == Insert(n, o, SortOrder(sortMap[n], o.tx), alloc)

\* One entry of set_tx_sort_info: a full map takes nothing, not even updates.
AddSortInfo(map, info) ==
  IF Len(map) >= MaxSortInfo THEN map
  ELSE IF \E i \in DOMAIN map : map[i].tx = info.tx
    THEN [i \in DOMAIN map |-> IF map[i].tx = info.tx THEN info ELSE map[i]]
    ELSE Append(map, info)

SetTxSortInfo(n, infos) ==
  LET map[i \in 0..Len(infos)] ==
        IF i = 0 THEN sortMap[n] ELSE AddSortInfo(map[i - 1], infos[i])
  IN  /\ Len(infos) <= MaxSortInfo
      /\ sortMap' = [sortMap EXCEPT ![n] = map[Len(infos)]]
      /\ UNCHANGED <<dag, tokens, trees>>

\* register_token: the address is appended whether or not it is there.
RegisterToken(n, token) ==
  /\ Len(tokens[n]) < MaxRegister
  /\ tokens' = [tokens EXCEPT ![n] = IF Len(@) < MaxTokens THEN Append(@, token) ELSE @]
  /\ UNCHANGED <<dag, trees, sortMap>>

(***************************************************************************)
(* generate_epoch_output: update_state runs once per head child with the   *)
(* tree of that child's token, but the first run already applies every     *)
(* head child that was not applied yet, so only the first tree is written. *)
(***************************************************************************)
GenerateEpochOutput(n, tail) ==
  LET d     == GenerateHead(dag[n])
      owned == {e \in d.head : Known(tokens[n], d.nodes[e].op.token)}
      first == CHOOSE e \in owned : \A f \in owned : e <= f
      slot  == Slot(tokens[n], d.nodes[first].op.token)
      after == UpdateState(d, trees[n][slot], tail)
  IN  /\ IF owned = {} THEN dag' = [dag EXCEPT ![n] = d] /\ UNCHANGED trees
         ELSE /\ dag' = [dag EXCEPT ![n] = after.dag]
              /\ trees' = [trees EXCEPT ![n][slot] = after.tree]
      /\ UNCHANGED <<tokens, sortMap>>

(***************************************************************************)
(* periodic_broadcast: each broadcast appends the node to the list the     *)
(* loop walks, until the list is full; then the list is emptied.           *)
(***************************************************************************)
PeriodicBroadcast(n) ==
  /\ dag' = [dag EXCEPT ![n].latest = << >>]
  /\ UNCHANGED <<tokens, trees, sortMap>>

-----------------------------------------------------------------------------
\* compute_dag_root_hash makes a new head unless the DAG is empty.
Rooted(d) == IF d.count = 0 THEN d ELSE GenerateHead(d)

HasId(d, id) == \E e \in 1..d.count : d.nodes[e].op.id = id

\* sync_node_from_other_tee: the flags come along, the balances do not.
SyncNode(d, remote, e, alloc) ==
  LET node == remote.nodes[e]
      add  == AddOperation(d, node.op, node.order, alloc)
  IN  IF \/ alloc = "refused"
         \/ HasId(d, node.op.id) \/ ~ HasRoom(d)
         \/ \E p \in node.parents : ~ HasId(d, remote.nodes[p].op.id)
        THEN d
        ELSE [add EXCEPT !.nodes[add.count] =
                [@ EXCEPT !.headCandidate = node.headCandidate,
                          !.processed = node.processed, !.applied = node.applied]]

\* One pass of sync_all_tee_dags over the remote nodes.
SyncPass(d, remote, alloc) ==
  LET local[e \in 0..remote.count] ==
        IF e = 0 THEN d ELSE SyncNode(local[e - 1], remote, e, alloc[e])
  IN  local[remote.count]

\* A pass is followed by another one when it copied something.
NextPass(s, remote, alloc) ==
  LET after == SyncPass(s.dag, remote, alloc)
  IN  IF s.changed THEN [dag |-> after, changed |-> after # s.dag] ELSE s

\* At most one pass per remote node.
SyncAll(d, remote, alloc) ==
  LET s[i \in 0..remote.count] ==
        IF i = 0 THEN [dag |-> d, changed |-> TRUE] ELSE NextPass(s[i - 1], remote, alloc[i])
  IN  s[remote.count].dag

\* The outcome for each remote node in each pass.
Allocations(remote) == [1..remote.count -> [1..remote.count -> Mallocs]]

(***************************************************************************)
(* sync_all_tee_dags: equal root hashes end the call, and computing them   *)
(* gives both nodes a new head, the remote one included.                   *)
(***************************************************************************)
SyncAllTeeDags(n, m) ==
  LET local == Rooted(dag[n])
      remote == Rooted(dag[m])
  IN  /\ n # m
      /\ \E alloc \in Allocations(remote) :
            dag' = [dag EXCEPT ![m] = remote,
                               ![n] = IF Hash(local) = Hash(remote) THEN local
                                      ELSE SyncAll(local, remote, alloc)]
      /\ UNCHANGED <<tokens, trees, sortMap>>

Next ==
  \/ \E n \in Tees, o \in Submitted, alloc \in Mallocs :
        ProcessOperation(n, o, alloc) \/ ListenAndBuildDag(n, o, alloc)
  \/ \E n \in Tees, infos \in SortCalls : SetTxSortInfo(n, infos)
  \/ \E n \in Tees, token \in TokenCalls : RegisterToken(n, token)
  \/ \E n \in Tees, tail \in Tails : GenerateEpochOutput(n, tail)
  \/ \E n \in Tees : PeriodicBroadcast(n)
  \/ \E n, m \in Tees : SyncAllTeeDags(n, m)

Spec == Init /\ [][Next]_vars

-----------------------------------------------------------------------------
(***************************************************************************)
(* Convergence, what the CRDT is for: two TEE nodes that hold the same two *)
(* operations, with the same orders and no tie, relate them by the same    *)
(* edge, in whatever order each of them received these and other           *)
(* operations, as long as no array is full and the earlier of the two got  *)
(* its index entry on both.  (The verdicts, which also reset an            *)
(* operation's valid flag, may differ: they depend on balances.)           *)
(***************************************************************************)
SameOperation(o1, o2) == [o1 EXCEPT !.valid = TRUE] = [o2 EXCEPT !.valid = TRUE]

Copies(d1, d2) ==
  {p \in (1..d1.count) \X (1..d2.count) :
     /\ SameOperation(d1.nodes[p[1]].op, d2.nodes[p[2]].op)
     /\ d1.nodes[p[1]].order = d2.nodes[p[2]].order}

NothingFull(d) == \A c, p \in 1..d.count : ~ Full(d, p, c)

EdgesConverge ==
  \A n, m \in Tees :
     LET d1 == dag[n]  d2 == dag[m] IN
     NothingFull(d1) /\ NothingFull(d2) =>
       \A p, q \in Copies(d1, d2) :
          (/\ d1.nodes[p[1]].order # d1.nodes[q[1]].order
           /\ OlderIndexed(d1, p[1], q[1]) /\ OlderIndexed(d2, p[2], q[2])) =>
            (p[1] \in d1.nodes[q[1]].parents <=> p[2] \in d2.nodes[q[2]].parents)

(***************************************************************************)
(* Nothing is spent from nothing: a transaction that takes from somebody   *)
(* and is not failed, all of its two (or more) operations present, has a   *)
(* balance in the tree of one of its tokens, although the operations       *)
(* arrive one by one and are judged anew each time, against one tree and   *)
(* with unwritten bytes of their own.  (Not judged: operations copied by a *)
(* sync, refused for want of a token slot, or too many for tx_operations.) *)
(***************************************************************************)
JudgedHere(n, f) ==
  /\ Known(tokens[n], dag[n].nodes[f].op.token)
  /\ \A m \in Tees \ {n} : ~ HasId(dag[m], dag[n].nodes[f].op.id)

JudgedFunded ==
  \A n \in Tees : \A e \in 1..dag[n].count :
     LET parts  == TxNodes(dag[n], dag[n].nodes[e].op.tx)
         spends == \E f \in parts : dag[n].nodes[f].op.type = "sub"
     IN (/\ ~ dag[n].nodes[e].failed /\ spends
         /\ Cardinality(parts) \in 2..MaxTxOps /\ \A f \in parts : JudgedHere(n, f))
          => \E f \in parts : trees[n][Slot(tokens[n], dag[n].nodes[f].op.token)].leaf # {}
=============================================================================
