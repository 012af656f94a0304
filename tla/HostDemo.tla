------------------------------ MODULE HostDemo ------------------------------
(***************************************************************************)
(* The host application (AMD_SEV_SNP/HostVM/host_vm_app.cpp) with the L2   *)
(* simulator and one TEE node behind the guest's wrappers: the simulator   *)
(* thread hands the operations of its transactions to the cluster one by   *)
(* one, while the main thread starts and stops it, registers tokens and    *)
(* asks for epoch outputs.  (A sync of the node with itself changes        *)
(* nothing and is no step; the guest serves one call at a time.)           *)
(***************************************************************************)
EXTENDS TeeCluster

CONSTANTS
  ChainIds, MaxChains, MaxTx,  \* see L2Simulator
  Accounts, TokenIds,          \* what the simulator picks from
  Node                         \* the TEE node of this host

\* An operation as the generate functions make it; ids are 2 tx and 2 tx + 1.
Made(tx, half, type, token, account) ==
  [id |-> 2 * tx + half, tx |-> tx, type |-> type, token |-> token,
   account |-> account, amount |-> 1, valid |-> TRUE]

ASSUME HostDemoAssumption ==
  /\ Node \in Tees /\ MaxChains \in Nat /\ MaxTx \in Nat
  /\ \A tx \in 1..MaxTx, half \in 0..1, type \in {"add", "sub"},
        token \in TokenIds, account \in Accounts :
        Made(tx, half, type, token, account) \in Submitted

VARIABLES
  chains, running, thread, caller, work,  \* see L2Simulator
  rest,      \* the second operation of the transfer under way, or nothing
  guest,     \* g_cluster_initialized
  fed,       \* history: fed[e], the chain whose callback made node e of the DAG
  settled    \* history: no operation has come in since the last epoch output

Sim == INSTANCE L2Simulator

cluster == <<dag, tokens, trees, sortMap>>
simulator == <<chains, running, thread, caller, work>>
hostVars == <<cluster, simulator, rest, guest, fed, settled>>

Nothing == << >>

HostInit ==
  /\ Init /\ Sim!Init
  /\ rest = Nothing /\ guest = FALSE /\ fed = << >> /\ settled = TRUE

-----------------------------------------------------------------------------
\* sev_cluster_init: once.
ClusterInit ==
  /\ caller = "free" /\ ~ guest
  /\ guest' = TRUE
  /\ UNCHANGED <<cluster, simulator, rest, fed, settled>>

(***************************************************************************)
(* operation_callback and sev_process_operation: before sev_cluster_init,  *)
(* and when the DAG is full or the node gets no memory, the operation is   *)
(* refused, and lost.                                                      *)
(***************************************************************************)
Accepts(alloc) == guest /\ HasRoom(dag[Node]) /\ alloc # "refused"

Callback(i, o, alloc) ==
  /\ \/ Accepts(alloc) /\ ProcessOperation(Node, o, alloc) /\ fed' = Append(fed, i)
     \/ ~ Accepts(alloc) /\ UNCHANGED <<cluster, fed>>
  /\ settled' = (settled /\ ~ Accepts(alloc))
  /\ UNCHANGED guest

\* l2_simulator_generate_transfer up to its first callback, mint and burn.
Transfer(i, token, from, to, alloc) ==
  /\ Sim!Generate(i, "transfer")
  /\ Callback(i, Made(Sim!NextTx(i), 0, "sub", token, from), alloc)
  /\ rest' = <<Made(Sim!NextTx(i), 1, "add", token, to)>>

Mint(i, token, to, alloc) ==
  /\ Sim!Generate(i, "mint")
  /\ Callback(i, Made(Sim!NextTx(i), 0, "add", token, to), alloc)
  /\ UNCHANGED rest

Burn(i, token, from, alloc) ==
  /\ Sim!Generate(i, "burn")
  /\ Callback(i, Made(Sim!NextTx(i), 0, "sub", token, from), alloc)
  /\ UNCHANGED rest

TransferSecond(alloc) ==
  /\ Sim!GenerateSecond
  /\ Callback(work.chain, rest[1], alloc)
  /\ rest' = Nothing

-----------------------------------------------------------------------------
\* The main thread between start and stop.
Output(tail) ==
  /\ caller = "free" /\ guest
  /\ GenerateEpochOutput(Node, tail)
  /\ settled' = TRUE
  /\ UNCHANGED <<simulator, rest, guest, fed>>

\* Tokens are registered before the simulator is started.
Register(token) ==
  /\ caller = "free" /\ guest /\ thread = "none"
  /\ RegisterToken(Node, token)
  /\ UNCHANGED <<simulator, rest, guest, fed, settled>>

Control ==
  /\ (\E id \in ChainIds : Sim!AddChain(id)) \/ Sim!Start \/ Sim!Stop
  /\ UNCHANGED <<cluster, rest, guest, fed, settled>>

StopReturned == Sim!Joined /\ UNCHANGED <<cluster, rest, guest, fed, settled>>

Bookkeeping ==
  /\ Sim!CountBlock \/ Sim!Exit
  /\ UNCHANGED <<cluster, rest, guest, fed, settled>>

SimulatorStep == Bookkeeping \/ \E alloc \in Mallocs : TransferSecond(alloc)

HostNext ==
  \/ ClusterInit \/ Control \/ StopReturned \/ SimulatorStep
  \/ \E tail \in Tails : Output(tail)
  \/ \E token \in TokenCalls : Register(token)
  \/ \E j \in DOMAIN chains, token \in TokenIds, alloc \in Mallocs :
        LET i == Sim!Picked(j) IN
        \/ \E from, to \in Accounts : Transfer(i, token, from, to, alloc)
        \/ \E account \in Accounts :
              Mint(i, token, account, alloc) \/ Burn(i, token, account, alloc)

(***************************************************************************)
(* The operating system runs both threads; the pause between transactions  *)
(* is bounded.  Nothing obliges the main thread to stop the simulator.     *)
(* (The simulator's part of a step is enabled whenever the step is: the    *)
(* callback never blocks.)                                                 *)
(***************************************************************************)
HostSpec ==
  HostInit /\ [][HostNext]_hostVars
  /\ WF_simulator(Sim!ThreadStep) /\ WF_simulator(Sim!Joined)

-----------------------------------------------------------------------------
(***************************************************************************)
(* Each chain's operations enter the DAG in the order the chain made them, *)
(* under ids that it never repeats, although the chain may be added twice, *)
(* callbacks may be refused and lost, and the simulator may be stopped in  *)
(* the middle of a transaction and started again while outputs go on.      *)
(* Between two chains there is no such order, and ids do repeat: both      *)
(* count from 1.                                                           *)
(***************************************************************************)
FedInOrder ==
  LET d == dag[Node] IN
  \A e, f \in 1..d.count :
     (e < f /\ fed[e] = fed[f]) => /\ d.nodes[e].op.id < d.nodes[f].op.id
                                 /\ d.nodes[e].order <= d.nodes[f].order

OneChain == \A i, j \in DOMAIN chains : chains[i].chainId = chains[j].chainId

TouchesOnce(d) ==
  \A e, f \in 1..d.count :
     (e # f /\ d.nodes[e].op.tx = d.nodes[f].op.tx /\ d.nodes[e].op.token = d.nodes[f].op.token)
       => d.nodes[e].op.account # d.nodes[f].op.account

(***************************************************************************)
(* What an epoch output may leave behind, wherever in a transaction it     *)
(* falls, when every token has a slot and the head has room: operations    *)
(* that came late, all their children being older nodes or nodes whose id  *)
(* was taken (OnlyLateSkipped in MerkleCrdt has the same, epoch by epoch). *)
(* Chains that number on their own cause both.  One chain alone, whose     *)
(* transactions touch no balance twice, leaves nothing behind; a transfer  *)
(* from an account to itself does, its credit being late.                  *)
(***************************************************************************)
LeftOut(d, e) ==
  /\ d.nodes[e].children # {}
  /\ \A c \in d.nodes[e].children : c < e \/ RepeatsId(d, c)

OutputComplete ==
  LET d == dag[Node] IN
  (/\ settled /\ Cardinality(d.head) < MaxChildren
   /\ \A e \in 1..d.count : Known(tokens[Node], d.nodes[e].op.token))
  => /\ \A e \in 1..d.count : d.nodes[e].applied \/ LeftOut(d, e)
     /\ OneChain /\ TouchesOnce(d) => \A e \in 1..d.count : d.nodes[e].applied

(***************************************************************************)
(* Once stop has returned no transaction is half done: every one that was  *)
(* counted has its block, and a transfer that reached the cluster did so   *)
(* with both of its operations, although the flag was cleared in the       *)
(* middle of it.                                                           *)
(***************************************************************************)
WholeWhenStopped ==
  (caller = "free" /\ thread = "joined") =>
     /\ \A i \in DOMAIN chains : chains[i].blockNumber = chains[i].txCounter
     /\ work = Sim!Idle /\ rest = Nothing

\* Stop does not wait forever: the thread notices the flag and is joined.
StopReturns == caller = "joining" ~> caller = "free"
=============================================================================
