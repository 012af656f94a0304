# OmniUAT in TLA+

TLA+ models of OmniUAT, checked with TLC and proved about with TLAPS. OmniUAT
lets the L2 chains of a rollup share one balance per user: TEE nodes collect the
operations of all chains in a conflict DAG, apply them to balance trees, publish
a state root per epoch on an L1 contract, and relay it to a contract on every L2.

Paths below are relative to `src/`.

## 1. The system

| Part | State it keeps | Operations |
|---|---|---|
| **Merkle CRDT** `Common/merkle_crdt` | nodes (an operation, its order, its parents, children, neighbors and flags), the latest list, a conflict index, a head | add_operation, generate_head, update_parent_states, update_state, validate_tx, check_operation_failed |
| **Balance tree** `Common/mpt_tree` | one leaf per balance, a size, a root | insert, get, delete |
| **TEE cluster** `Common/tee_cluster` | the DAG, token addresses with a balance tree each, the sort order map, pending and executed transactions | process_operation, listen_and_build_dag, set_tx_sort_info, register_token, generate_epoch_output, periodic_broadcast, sync_all_tee_dags, serial and two-phase processing, signing, leader relays |
| **Sequencer** `Common/sequencer` | a queue of logs, token slots, trees | add_log, process_logs, get_token_root, get_balance |
| **L2 simulator** `App_Common/l2_simulator` | chains with a transaction counter, flags, a thread | add_chain, start, stop, the thread's loop |
| **L2 full node** `Common/l2_full_node`, `tee_cluster_l2_verification.cpp` | headers per chain, a cache of verdicts | sync_block_headers, verify_log_existence, distributed verification |
| **TEENodeManagement** `contracts/contracts` | registered nodes, active nodes per epoch, submitted TSS keys, the threshold, the current epoch | register, activate, submit a key, the owner's setters |
| **OmniL1** | roots by epoch, leaders, tokens | submitStateRoot, setLeaderNode, createToken |
| **OmniL2** | synced roots by epoch, transaction logs, the list of each epoch | syncStateRootFromL1, executeTransaction, recycleLogs, createToken |
| **Raft** `Common/raft` | role, term, vote, log, timers, epoch flags | ticks, vote and append messages, start/end epoch |
| **TEE network** `Common/tee_network` | a list of pending messages | send (signs only), receive |
| **Host mediator** `AMD_SEV_SNP/HostVM` | a table of guest VMs, one mutex, a flag | init, register, forward, broadcast, close |
| **Network layer** `App_Common/network_layer` | a socket, a thread handle, a flag, a receiving thread | init, send, close |
| **Guest front end** `AMD_SEV_SNP/GuestVM` | initialisation flags | wrappers of the cluster and the sequencer |
| **Host application** `AMD_SEV_SNP/HostVM/host_vm_app.cpp` | the simulator, a counter of rounds | the demo: register, start, epoch outputs and syncs, stop |

### How the parts interact

- The simulator thread (or a chain) hands **one operation at a time** to the
  cluster through the guest; a transfer is two operations. The host's main
  thread meanwhile asks for syncs and epoch outputs.
- The cluster inserts the operation into its DAG, finds the new node again *by
  its operation id*, applies that node's parents to the tree of the token, and
  judges the transaction by a trial run when two or more of its operations are
  there. An epoch output makes a head of the tips and applies them.
- Two TEE nodes synchronise by copying nodes the other lacks.
- A leader publishes the epoch's root on OmniL1, which asks TEENodeManagement
  whether the TSS key was confirmed. The root is then to be relayed chain by chain
  to OmniL2, against which users prove balances and the fate of transactions.
  OmniL2 does not know relays: anybody may sync it to any epoch and root.
- The full node verifies the logs a sequencer or a cluster is given.
- Operations also reach the trees in *serial batches*, without the DAG.
- The mediator and the network layer serve any thread of the host process.

### What is hard here, and what makes each part correct

- *DAG*: operations arrive in any order, orders tie, ids repeat between chains,
  every array is bounded on its own, an allocation may fail half-way. Correct:
  edges follow a total order, both ends agree, conflicting operations are
  ordered, nothing is applied twice, what is accepted is applied.
- *Cluster*: two nodes see different arrival orders and sort orders; verdicts
  are computed again whenever an operation arrives; two functions write the
  trees; two key bytes are never written. Correct: nodes agree on the order of
  what they share, nothing is spent from nothing, no double application.
- *Contracts*: calls of different people interleave freely, epochs are skipped,
  relays repeat and overtake each other, roots that L1 never published come
  between them, a transaction may be executed again while an old epoch's list
  still names it. Correct: published roots are final and monotone, a chain agrees
  with L1 except where it was handed something else, a verdict is proved by the
  root of its epoch.
- *Sequencer, full node*: batches against arrival order, slots and caches at
  their limit, ranges that wrap, a cached refusal that must not stick, a share of
  a batch that gets no memory.
- *Simulator and host*: a stop, or an epoch output, at any point of a
  transaction; restarts; two chains that number their transactions alike.
  Correct: each chain feeds the DAG in its order, what an output leaves behind is
  known, a stop returns and leaves no transaction half done.
- *Serial batches*: a trial of balances that the run then changes; a run that
  stops in the middle. Correct: a transfer is applied whole or not at all.
- *Raft*: requests late, repeated or lost, a receive loop that foreign messages
  end, no persistence. Correct: one vote per term, for who asked in it.
- *Mediator, network layer*: a flag and a size read without the lock, a lock
  taken twice, a mutex destroyed while it is used, a join of a thread that waits
  for a datagram, a socket closed under its reader. Correct: one entry per VM;
  callers that take care meet nothing undefined; calls return.

`PROJECT.json` lists these hazards with their lines and the properties on them.

## 2. The modules

    MptTree <- MerkleDag <- MerkleState <- MerkleCrdt <- MerkleChain
                         <- MerkleLoops <- MerkleCrdt
                            MerkleState <- TeeCluster <- TeeSerial
                                                      <- HostDemo -> L2Simulator
    TEENodeManagement <- OmniL1 \
                         OmniL2 -> OmniBridge  ==refines==> RootFollower
    Sequencer (over MptTree), HostServices, L2FullNode, Raft
    Totals (sums), used by Sequencer and TeeSerial

    MerkleDagProofs <- MerkleCrdtProofs                 (MerkleCrdt, MerkleChain)
                    <- TeeProofs                        (TeeCluster, TeeSerial, HostDemo)
    SequenceLemmas  <- MerkleCrdtProofs, TeeProofs, OmniBridgeProofs, RaftProofs,
                       LogProofs                        (Sequencer, L2FullNode)
    HostServicesProofs

**MptTree.** A tree as the code really keeps it: an insert frees the root and
puts one leaf in its place, so only the key inserted last can be read.
`size` counts writes, which is what the application properties count.

**MerkleDag.** The DAG as a value (so that each TEE node can have one), with
`AddOperation`, `GenerateHead` and the predicates that say what a well-formed
DAG is. The loops of `merkle_crdt_add_operation` are given by the *sets* they
end up with: `FirstBy(S, rank, k)` is what a loop that visits `S` in the order
`rank` and stops storing after `k` entries has stored. This form is what proofs
can use.

**MerkleLoops.** The same function as the two loops run: over the bucket and then
over the scan, entry by entry, each `connect_*` call with the capacity checks it
makes at that moment. `MerkleCrdt!AddAsLooped` says that both agree.

**MerkleState.** What the DAG does to a balance tree, and the trial run that
judges a transaction. `tail` stands for the two bytes of a balance key that the
code never writes: the key is a 64-byte buffer filled by 42 + 20 bytes, and the
choice of `tail` at each reader is any value. An insertion reads several: the
parents' update, the trial of the transaction, and each node's own check with a
trial of its own (`Guesses`).

**MerkleCrdt, MerkleChain.** One DAG and one tree under arbitrary callers, and
under a caller that behaves as `l2_simulator` does (ids unique, orders
increasing, no transaction touching a balance twice).

**TeeCluster.** Several nodes, each with a DAG, token slots, trees and a sort
order map; the guest calls one function at a time, so every function is one
action. The model keeps what the code does where it differs from what one might
expect: the node array that `sort_txs` consults is never filled, so operations
sort by transaction id; an epoch output applies all unapplied head children with
the tree of the first one that has a token; a sync copies flags and no balances;
`platform_sha256` keeps 32 bytes, so that two non-empty DAGs have equal root
hashes and a sync between them copies nothing (`MCHash`). Adding a node may lose its
index entry or fail altogether, in an insertion and for every node of a sync, on one
replica and not on the other (`Mallocs`).

**TEENodeManagement, OmniL1, OmniL2.** One action per external function; a
failed `require` is no step. A Merkle proof is abstracted to the relation
`Proves(root, leaf)`, so every root has one verdict per transaction, as
collision-free hashing gives. A leader flag may be set on any node id, 0 included,
which is the id of every unregistered address. **OmniBridge** composes the three.
`syncStateRootFromL1` has no check of the caller, and the functions that verify the
block header and the root's proof return true (`OmniL2.sol`, lines 280-297), so
`SyncRoot` hands any chain any epoch and root, those of the emitted events among them.
The history variable `unpublished` remembers the chain and epoch where the pair had
not been published. **RootFollower** is the abstract promise: roots are published for
increasing epochs, followers move forward only, along published pairs or astray.

**TeeSerial.** TeeCluster with the two serial functions beside it. A batch is cut
into runs of one `tx_id`; a run of two or more is tried out on the tree and then
written operation by operation until a subtraction is refused. `runs` is a history
variable that remembers what each run was and which of its operations it wrote.
`SerialStep` is one operation of a run, `SerialRun` one run; a batch is the list of
its runs, found by the positions where one begins (`RunStart`).

**HostDemo.** The host process around one TEE node. `L2Simulator` is a library of
the two threads' actions on the simulator (it is instantiated, and has no `Next`);
HostDemo joins each with what the callback does in the cluster, so that outputs,
registrations, stops and restarts fall between the two operations of a transfer,
and tokens and accounts are any the simulator may draw. An operation that comes
before the cluster is initialised, when the DAG is full, or when its node gets no
memory, is refused and lost. `invoke_guest` of the host is a stub in this repository; it is taken to call the
guest, one call at a time. `settled` and `fed` (which chain a node came from; the code
does not keep it) are history variables.

**HostServices.** The mediator and the network layer under concurrent threads. A
step is what a thread does between two places where another can interfere: the
unlocked check of flag and size, the lock, the search, the write, and in `close`
the clearing, the destruction of the mutex and the lowering of the flag. What C
and POSIX leave undefined (a lock of a destroyed mutex, a destruction of a held
one, a write past the table, a second join, a join of what a failed
`pthread_create` left in the handle, `Wild`) sets `undefined`, after which nothing
is claimed. `careful` is a history variable that says whether callers have kept
the rules of `Overlaps`, which the code relies on and does not enforce.

**Sequencer.** The queue with its batches: a batch is the sorted array of the
unprocessed signed logs (`Sorted`), taken before the first of them is processed,
and `ProcessLog` is done for one after the other. Unsigned logs are passed over
and stay in the queue.

**L2FullNode.** Header ranges in arithmetic modulo `Word` (2^64 in the code), the
cache of verdicts, and batches judged log by log. The results belong to the caller:
the share of a tee whose buffers cannot be allocated stays "unwritten", and the call
succeeds all the same.

**Raft.** Raft over the TEE network as far as it runs. `become_leader` is never
called, so there is no leader, nobody sends entries and logs stay empty; what
runs is a tick: a timeout that makes a candidate, the messages of the list up to
the first foreign one, and vote requests to the peers. Vote responses are built
and not sent. With an empty log the comparison of logs reads `log[-1]`, memory of
the structure before it; `logOk` is either value, the same throughout a tick.
Sending ends after the signature and nothing fills the pending list, so the
transport is external: it loses, repeats, delays and reorders requests. Peers are
added by callers of `raft_add_peer`. `votes` is a history variable, with the life
(the start of the process) each vote was given in.

Where a loop carries a state (a sync pass, a serial batch, a batch of the sequencer,
a tick of Raft), the model is a recursive *function* over positions, never a
recursive operator, so that theorems reach it. The proofs are in `MerkleDagProofs`,
`MerkleCrdtProofs`, `TeeProofs`, `OmniBridgeProofs`, `RaftProofs`, `LogProofs`,
`HostServicesProofs` and `SequenceLemmas`; section 4 describes them.

Each `MC*.tla` gives values to the constants. Operators introduced as "Mutant
of X" are variants of X with a plausible slip; `PROJECT.json` says which
property each of them must break. Nothing but that uses them.

## 3. The runs

| Run | Question | Bounds |
|---|---|---|
| merkle_crdt | Is the DAG well-formed after any submissions, which operations may be left unapplied, and is `AddOperation` the loop? | 4 nodes, arrays of 2, two orders (ties), a repeated id, colliding buckets, lost index entries. Two edges fill an array, the third is the one that must be dropped, and the scan changes mode at node 3: four nodes meet every branch. |
| merkle_chain | For ordered submission: dependency order of application, and eventually everything applied? | four transfers between three accounts, 6 nodes, 2 head slots for up to 3 tips, 2 parent slots |
| tee_cluster | Do two nodes agree on the edges among what they share? | 2 nodes, 2 conflicting operations in both orders of arrival, contradicting sort orders, syncs both ways, insertions refused, and one index entry lost (`OneLost`: one is what makes two replicas differ; a single DAG that loses any number of them is in merkle_crdt); the nodes are symmetric. The property is about pairs, so 2 operations show it. Other tokens hold all slots (`MaxTokens = 0`), so no balance is written, and no edge depends on one. |
| tee_tokens | Is nothing spent from nothing, nothing applied twice, no transfer of a batch cut in half? | `TeeSerial`: 1 node, 3 DAG nodes, 2 tokens, registrations repeated, ids repeated, one serial call (a transfer, the same with another transaction between its halves, or a single operation), both values of the stale bytes at each reader; allocations succeed here |
| omni_l1 | Are published roots final and made under a key confirmed by different nodes against the threshold of the moment, and do the records of an activation agree? | 2 nodes that may share an address, 2 roots, epochs 0..2, thresholds 0..2 that move |
| omni_l2_current | *Violated*, see section 6 | 1 chain, 2 transactions, 3 synced epochs, roots that contradict each other |
| omni_bridge | Where do chains follow L1 when anybody may sync them to anything, is each verdict proved by its epoch's root whatever is executed again, and is RootFollower implemented? | 2 symmetric chains, epochs 0..2, 2 roots that contradict each other, 1 TEE node that may lead (as may everybody, by id 0), 1 transaction that is executed once per chain and epoch: published and unpublished syncs in each order on each chain. No activations (`NoActivation`): no other call reads them |
| sequencer | Once, and eventually? | 3 logs of 5, 3 tokens for 2 slots |
| host_demo | Does each chain feed the DAG in its order, what may an output leave behind, is a stop clean, and does it return? | 2 chain entries over 2 ids (so both one chain twice and two chains with the same numbers), 2 transactions each, 2 accounts, 1 token, callbacks refused at any time, 3 DAG nodes: a whole transfer and the first half of the next |
| host_services | One entry per VM, nothing undefined for careful callers, no read of a closed socket, and do calls return? | 3 threads, 3 VMs for 2 slots, 2 sockets, 5 calls: two opens (or failed ones), two closes and a call that overlaps any of them |
| l2_full_node | No overrun, no wrong acceptance, no sticking refusal? | 2 chains, word of 4 values, arrays of 2, batches up to 3 logs dealt to up to 2 tees, any of which may get no memory |
| raft | One vote per term and life, only for who asked in that term, and do foreign messages only delay? | 3 symmetric nodes, 1 peer each, terms 0..2, 2 deliveries, one restart: two candidates compete for the third vote, or a request comes after one of a later term, or twice, or behind a foreign message |

`CHECK_DEADLOCK FALSE` stands where a bound of the model, not the code, ends
the behaviour (a full DAG, used-up transaction ids, epochs at their maximum).

**Fairness.** `MerkleChain`: weak fairness of head generation and application,
which says that epoch outputs keep being asked for. The demo asks ten times and
ends, so `EveryOpApplied` is about a host that goes on; what one output achieves
is `OutputComplete`, an invariant that needs no fairness. None on submission.
`Sequencer`: weak fairness of `ProcessLogs`, which follows `add_log` in its callers.
`HostDemo`: weak fairness of the steps the simulator thread takes once it has begun
a transaction or must exit, and of the return of `pthread_join`: what the scheduler
gives. It is stated of the simulator's part of these steps, which is enabled
whenever the step is, as the callback never blocks. None on new transactions,
outputs, starts or stops. `HostServices`: weak fairness of every thread within a
call and of the receiving thread outside `recvfrom`; nothing has to arrive on the
socket, so `CallsReturn` has the premise `RecvReturns`, and it excepts the one
deadlock the code has: a broadcast with data to another VM locks the mutex it
holds. All other specifications are safety only.

## 4. What is proved

Everything below holds for any value of the constants that meets the modules'
assumptions, each of which TLC evaluates on a run.

### The contracts

`OmniBridgeProofs` (nodes, keys and roots on L1; one contract per chain; all of
them, with syncs by anybody) proves every property that runs `omni_l1` and `omni_bridge` check:

| Theorem | Says |
|---|---|
| `BridgeImplements` | the contracts implement `RootFollower`: every sync is a step forward, to a published pair or astray |
| `BridgeImplementsContracts` | composed, each contract still runs under its own specification, so what is proved of `L1Spec` and `L2Spec` holds of the composition |
| `BridgeFollowsL1` | where no unpublished root was handed to it, a chain holds L1's root or none and is not ahead of L1 |
| `BridgeConfirmedByL1` | a transaction confirmed under a published root is proved by the root on L1 |
| `BridgeType` | typing of all contracts and of the events |
| `L2VerdictProved`, `L2PendingIsListed`, `L2ConfirmedIsFinal` | verdicts are proved, pending transactions listed, confirmations final |
| `L1LatestIsNewest`, `L1PublishedRootsFinal`, `L1PublishedUnderTSSKey` | roots on L1 are newest, final, and under a confirmed key |
| `L1ConfirmedByThreshold`, `L1ActivationsAgree` | keys and activations count different nodes |

*Argument.* `L2IInv` adds to typing what links the parts of a contract: the
newest root is that of the newest epoch and later epochs have none
(`NewestSynced`), so a sync never touches the epoch of a log; what is listed has
been executed (`ListedHasLog`), so recycling never gives a verdict to a log that
was not written; the epoch of a log proves its validity bit (`LogProved`), and a
verdict is that bit (`VerdictIsBit`). `L1IInv` adds that the counter of a key is
the number of its nodes. `BridgeIInv` joins both with two links: events tell what
L1 recorded (`EventsRecorded`), and a chain holds what L1 holds in every epoch that is
not among its `unpublished` ones, none of which lies ahead of it (`Behind`). A
publication keeps that because what it overwrites on L1 was empty (`LatestIsNewest`),
a sync because it never touches an epoch the chain has passed: so an unpublished sync
of an epoch stays the only one of it. `BridgeConfirmedByL1` combines all three. The steps of one
contract are proved once (`SyncOK`, `UserCallOK`, `TeeStepL1OK`, `SubmitOK`) and
cited by the composition. Assumed: `Proves` is any relation, `NoRoot` is no root,
0 is an epoch, and the two sides speak of the same epochs and roots.

### The DAG

`MerkleDagProofs` proves what `AddOperation` and `GenerateHead` preserve; `MerkleCrdtProofs` lifts this to `MerkleCrdt!Spec`:

| Theorem | Says |
|---|---|
| `MerkleCrdtType` | the DAG is well-typed |
| `MerkleCrdtSorted` | every edge follows the total order `SortsBefore` |
| `MerkleCrdtMutual` | the two ends of an edge agree |
| `MerkleCrdtConflict` | edges join conflicting operations only |
| `MerkleCrdtLinked` | conflicting operations are joined unless an array is full or the older one lost its index entry |
| `MerkleCrdtCapacity` | no array is written past its end |
| `MerkleCrdtOnlyLate` | what is left unapplied has only children that are older, or bear a taken id |
| `MerkleCrdtAcyclic` | no way along parents, of any length, leads back to where it began |
| `MerkleCrdtAsLooped` | `AddOperation` is what the two loops of the source store, call by call |
| `MerkleChainImplements` | the DAG that one chain feeds in order is a DAG under `MerkleCrdt!Spec` |
| `MerkleChainParents` | fed by one chain in its order, nothing is applied before what it depends on |

Assumptions: those of the modules (capacities are naturals, operations are
records of the right shape, closed under clearing `valid`; submitted operations
are among them), all evaluated by TLC. Nothing is assumed about capacities
being positive, about the hash, the values of the stale bytes or allocation.
`MerkleChain` also assumes what it says of its caller, that transaction ids are among
the orders, and that an allocation may succeed.

*Argument.* None of the properties but typing is inductive alone. Typing makes
node numbers finite sets of naturals, without which "the first k" means nothing;
`FirstByBound` and `FirstByFull` then say that such a prefix has at most k
elements, and that an element left out means there are k others. A new node's
edges are two such prefixes (`NewParents`, `NewChildren`), disjoint because the
comparison of orders is a case split, and drawn from `Rivals`, which conflict.
`AddEdges` gives every array of the next DAG in terms of these; sortedness,
mutuality and conflict follow edge by edge. For `ConflictsLinked` the case of a
dropped edge uses `FirstByFull`: what kept the edge out is that one array was
already full or was filled by the same insertion, and arrays never shrink
(`AddGrows`). The steps that apply operations change flags only (`SameGraph`).
`MerkleCrdtOnlyLate` is about the flags: when the id is new, the lookup after an
insertion finds the new node (`LookupFindsNew`), so the nodes that get it as a
child are just those whose state is applied with it; its own children are older.
When the id is taken the new node is one of those the property excepts.
`MerkleChainParents` is about a caller that keeps an order. `ChainInv` says what it
brings about: ids are unique, orders are transaction numbers, no transaction touches
a balance twice (`OncePerTx`), so every edge runs forward in arrival (`Forward`).
With `Late` and mutual ends, a node that has a child is applied, so whatever is
applied, by either function, has applied parents.
`MerkleCrdtAsLooped` justifies the form of `AddOperation`. The loops are recursive
functions over positions, and the proof gives their value in closed form: after
position `r` each array of the new node holds the first entries that were *met* by then
(`Met`, by the time at which the loops come to an entry), and each entry met has the
new node at its other end if both arrays had room (`Wired`). `BucketStep` and
`ScanStep` show that a body takes the form of `r - 1` to that of `r`, for which
`FirstByNext` says what one more candidate does to a bounded prefix; `StaysAlong`
carries the form through both loops (`BucketRuns`, `ScanRuns`), and after the last
position everything has been met (`WiredLast`). A loop may meet an entry twice; its time
is the first, and the second visit finds the edge, or an array that is still full (`Due`).
`MerkleCrdtAcyclic` follows from sortedness by induction along the way.

### The TEE cluster

`TeeProofs` lifts the DAG lemmas to the calls of the cluster and proves the property of
run `tee_cluster` and two of the three of `tee_tokens`:

| Theorem | Says |
|---|---|
| `ClusterEdgesConverge` | replicas order a conflicting pair alike, whatever the arrivals, sort orders, syncs and failed allocations, while no array is full and where the older of the two kept its index entry on both |
| `ClusterNoDoubleApply` | over all trees of a node, nothing is applied twice |
| `ClusterTransfersWhole` | a serial transfer, sender first, is written whole or not at all |

*Arguments.* `ReplicaInv`: every DAG of the cluster is a *sound* one (typed, edges
sorted, only conflicting ones joined, those joined unless an array is full or the older
one is not in the index). Soundness is kept by anything that inserts, with any outcome
of the allocations, so a copy from another replica needs no argument of its own; and in a
sound DAG that is not full an edge whose older end is indexed is decided by the two
operations and their orders, which both replicas have. Without that condition the
replicas do differ: where the older operation has lost its entry on one of them, only
the other one has the edge. `SerialInv` counts: the writes of all trees of a node are at most its applied nodes
plus what the serial runs wrote (`Accounted`). Each function changes one tree and one
count by the same amount (`TotalChange`), and flags are never taken back. `Whole` is
the promise about transfers. It does not rest on the trial, which may read under other
stale bytes than the run writes, but on the order: only the sender's subtraction can be
refused, it comes first, and a refusal ends the run before anything was written.
Assumed: amounts below `AmountMod`, transactions natural numbers.

### The host

`TeeProofs` also proves the invariants of run `host_demo`, for any number of chain
entries, transactions, accounts and tokens:

| Theorem | Says |
|---|---|
| `HostWholeWhenStopped` | when `stop` has returned no transaction is half done |
| `HostFedInOrder` | each of any number of chains feeds the DAG in its order, under ids it never repeats |
| `HostStopEnds` | a stop waits for at most three steps of the simulator thread, and nothing the host does meanwhile adds one |
| `HostOutputComplete` | with slots for the tokens and room in the head, a finished output has left behind only operations whose children are all older or bear a taken id; nothing, if one chain feeds the DAG alone and no transaction touches a balance twice |
| `HostImplementsCluster` | the two threads drive their node only through calls that `TeeCluster` allows: `HostSpec => Spec` |

*Argument.* `HostInv` has three parts. `HostThreads` relates flag, thread, caller and
work: a thread is only joined after its loop has ended, and the loop ends between
transactions, which gives `WholeWhenStopped`; and a chain is one transaction ahead of its
blocks exactly while its transaction is under way. `HostOrder` says of each chain, by
`fed`, that its operations in the DAG are of transactions up to its newest one and come
in their order (`FedSorted`), and that the id of the second half which the thread will
send is greater than all of them: an output, a registration, a stop or a restart in
between changes none of it, nor does a refused callback. `HostDag` has the DAG's `Late`,
for a single chain `Forward`, and after an output `Complete`: the output applies the
tips, and what has a child was applied when the child came, unless all its children are
of the two kinds that `LeftOut` names. With one chain there are none of these, for ids
are unique and edges run forward.
`HostStopEnds` is the part of `StopReturns` that needs no fairness: `StepsToEnd` counts
what the thread has left to do once the flag is cleared; each of its steps takes one
off, and at zero it has ended and can be joined.
`HostImplementsCluster` looks at each action of either thread: what it does in the
cluster is one call of the guest or nothing (`CallbackIsCall`, `HostCalls`). It needs
`HostThreads`, for the second half of a transfer, which waits in the thread, must be an
operation that may be submitted. With it the theorems about `TeeCluster!Spec` hold of the node behind the host.
Assumed of the environment: `Node` is one of `Tees`, and the operations that the
simulator makes are among those the cluster is specified for.

### Raft

`RaftProofs` proves the three properties of run `raft`: `RaftOneVotePerLife`,
`RaftVotesWereAsked`, `RaftForeignOnlyDelays`. `RaftInv` adds to typing that requests in
a list were sent by a candidacy of their term (`PendingSent`), that the vote a node
remembers was asked for in its term (`CurrentVoteAsked`), and that a vote of the
present life is of an earlier term or is the one remembered (`VotesKept`). A tick handles
any number of messages before the next interleaving point; the invariant is carried
along its recursion by `StaysAlong`, as a relation between the state at the start
of the tick and after each message (`Follows`). Loss, repetition and order of
requests need no assumption; that `log[-1]` may be anything is any value of `logOk`.

### Logs: sequencer and full node

`LogProofs` proves `SequencerEffectsOnce` and `SequencerSettlesAll`, and of the full node `FullNodeWithinArrays`,
`FullNodePositiveIsProved` and `FullNodeProvableIsAccepted`.

*Argument.* `SequencerInv` is `EffectsOnce` with the types: the writes to the trees are
at most what the processed logs allow. A log of a batch is unprocessed when the
batch is taken, and a sorted batch has no log twice (`Before` is strict), so it is still
unprocessed when its turn comes: it raises both sides alike, or, without a slot,
neither. `SequencerSettlesAll` is the part of `SignedLogProcessed` that needs no
fairness: when a batch ends, every signed log of the queue is `Settled` (processed, or
all slots are taken by other tokens), and nothing that happens later changes that. It
rests on the batch being complete: it is injective and as long as the set of logs due,
so it meets each of them (`SortedFacts`, by counting), and on slots never being given
back (`WithTokenFull`). `FullNodeInv`: the sum `count + (to - from + 1)`, which the code compares with
the array, is taken modulo `Word`, and yet what is stored never exceeds the room
(`StoredFits`), because the loop has its own bound; cached and given answers
are sound (`SoundEntries`, `SoundVerdicts`): a positive one has a proof that leads to a synced
header, and headers are never taken back. Whether a tee is starved is decided once for
its whole share, so the answers of a share are all unwritten or all given; both
properties are carried over the loop with any set of starved tees.

### Induction

The library's induction theorems take an operator as a parameter, so `SequenceLemmas`
states induction of *sets*: `Induction` (a set that holds 0 and the next of each holds
`Nat`, from well-foundedness), `Least`, `Recursion` (a recursive function over positions
exists if every step ends in a set), `Stays` and `StaysAlong` (what each step
keeps holds to the end), and from these the sums of `Totals` (`TotalSums`,
`TotalChange`, `TotalMore`). This bounds what a recursive function does. What one computes
exactly is stated where the model has a closed form to compare it with, which
is the case for the loops of `add_operation` (`MerkleCrdtAsLooped`).

### The services of the host

`HostServicesProofs` proves of `HostServices`, for any number of threads, VMs,
slots, sockets and calls:

| Theorem | Says |
|---|---|
| `HostOneEntry` | a VM never has two entries |
| `HostDefined` | callers that keep the rules of `Overlaps` meet nothing undefined, failed opens included |
| `HostNoReadAfterClose` | the receiver never reads a socket that was closed |
| `HostNoWaitInCircles` | who waits for the mutex waits for a thread on its way to give it back (or for the broadcast with data, which is stuck); who joins holds nothing and has lowered the flag |
| `HostInvariant` | the invariant below |

*Argument.* `HostIInv` says where every thread may be and what it may count on
there. `MutexHeld`: the mutex names the one thread between a lock and its unlock,
and is gone exactly outside init and close. `WritesNew`: a thread about to write
found no entry of its VM, which stays true because nobody else can be under the
lock; with it `OneEntryPerVm` is inductive. `CarefulMediator`: no two calls that
must not overlap are under way, none is when the mediator is down, and a
registration still has the slot it saw before it had the lock. `CarefulNetwork`:
a receiving thread that has not ended is the one the handle names, it has not been
joined, and it reads the one open socket; the thread that waits in `close` joins it
before that socket goes. Where the handle names no thread, `Live` is false, and a
careful caller does not close. The two services share no state (`NetworkKeepsMediator`,
`MediatorKeepsNetwork`), so each step is about one of them. `HostNoWaitInCircles` is the
part of `CallsReturn` that needs no fairness; beside `HostIInv` it needs that the flag
stays lowered while `close` joins (`ClosedWhileJoining`). The broadcast with data waits
at "relock" for the mutex it holds; it is the exception here as in `CallsReturn`.
Assumed: one of the threads opens and closes, and neither "free" nor "gone" is a thread.

### Model-checked only

`EveryOpApplied`, `SignedLogProcessed`, `StopReturns` and `CallsReturn` are liveness:
they rest on fairness, and so on `ENABLED`, which the prover does not treat. Of
the last three the parts that need no fairness are proved (`SequencerSettlesAll`,
`HostStopEnds`, `HostNoWaitInCircles`); of the first, `HostOutputComplete` says what one
output achieves. `JudgedFunded` is an invariant and open: an argument would follow the
verdict of a whole transaction through every insertion between its judgements, while
registrations and epoch outputs change the trees. Every other property of a passing run
is stated by a theorem.
`ImplementsRootFollower` is proved in full, as `RootFollower` has no liveness, and so
are the refinements `MerkleChainImplements`, `HostImplementsCluster` and
`BridgeImplementsContracts` of specifications without it.

## 5. What is not modelled

- Hashes, signatures, attestation, the wire and the disk: no control depends on
  their values, except where section 2 says what is kept of them.
- Merkle CRDT: `find_block_related_nodes` and `create_reverse_operation` change
  no state of the DAG and nothing calls them; nor does anything call
  `mpt_tree_delete`.
- Cluster: `add_tx_request` (its pending list is read by nobody and never emptied),
  the list of executed transactions and the token registry (written, and read by no
  other function), `sync_dag` and `request_dag_node` (they compare or send, and
  change nothing), the cache of operations of the serial functions within one call.
  Leader election and the relays of a leader iterate over `nodes[]`, which nothing
  fills, and over `pending_messages`, which no transport fills.
- Raft: `become_leader` is never called, so no leader exists and the leader
  paths of cluster and Raft are dead code in this repository; the handling of
  append messages, which nobody sends, and the epoch flags are left out.
- Across a restart a node may vote twice in a term, since `raft_init` forgets the
  vote; `OneVotePerLife` says what holds.
- TEE network: its node list and its broadcast; `tee_network_add_node` has no
  caller, so every send ends at the search for the addressee.
- `sev_vm_communication.cpp`, `platform_sev.cpp`: stubs and pure functions. Of
  `sev_guest.cpp` the wrappers the demo uses are in HostDemo; the others call one
  function of the cluster or the sequencer behind a flag. Of `host_vm_app.cpp` the
  other mode sends one log through the sequencer and ends. `main` does not know the
  option `--mediator`, which the repository's README (lines 105-109) tells to use,
  and nothing calls the mediator or the network layer: `HostServices` says what
  callers may count on, not what a caller does.
- The parent hash of a synced header: nothing reads it.
- Memory for a head (`merkle_crdt.cpp`, lines 351-356), for the one leaf of a balance
  tree (`mpt_tree.cpp`, lines 127-128) and for the batch of the sequencer is taken to be
  there. Without it the first and the last do nothing; a balance, though, is not written
  and nobody looks at the return value, so `SerialTransfersWhole` and the properties of
  application are about what is handed to the tree. Memory for nodes, index entries and
  the shares of a verification is modelled.
- The check of relays: `contracts/README.md`, line 46, says that OmniL2 "Synchronizes
  state roots from L1 with proof verification", while both functions that verify return
  true (`OmniL2.sol`, lines 280-297). The model follows the code, and the properties of
  `OmniBridge` say what holds under syncs by anybody.
- Late operations: one that sorts before what is already there gets a child at
  once, never becomes a tip, and its state may never be applied. No document
  promises otherwise, so `EveryOpApplied` is stated for ordered submission, and
  `OnlyLateSkipped` says that these are all that can be left out.
- Two chains: operation and transaction ids of different chains coincide, and the
  cluster tells transactions apart by `tx_id` alone. No document says whose task it
  is to keep them apart. `HostDemo` lets two chains run so, as the demo does, and
  `FedInOrder` and `OutputComplete` say what holds nevertheless: the order of each chain
  is kept, and what an output may leave behind is late or has children under a taken id.
- Behaviour that the code leaves to its callers, and that `HostServices` reaches but
  promises nothing about: registrations that overlap (the size is checked before the
  lock), calls during a close, a second close, and a broadcast with data, which waits
  for its own mutex; `CarefulIsDefined` and `CallsReturn` name them as exceptions.
- A serial run whose later subtraction is refused stays half written;
  `SerialTransfersWhole` is about transfers that begin with the sender.

## 6. Finding

`recycleLogs` of `OmniL2.sol` refuses the current epoch, "Cannot recycle current
epoch" (line 197). The check is on its argument, while the logs it resolves are
those the epoch's *list* names. A transaction executed in epoch 1 and again in
epoch 2 (it is not confirmed, so line 159 lets it) is on both lists and carries
epoch 2 in its log; recycling epoch 1 then resolves it, with a root that is
still current. Run `omni_l2_current` shows the four calls. `VerdictProved` holds
all the same: the verdict is looked up under the epoch in the log.

## 7. Plan

1. What the proved theorems leave open: `JudgedFunded` for any number of tokens, and
   that a serial run and the DAG give equal trees where they apply the same operations.
2. Raft's follower log handling and the leader paths of the cluster, should the
   code come to call `become_leader`.
