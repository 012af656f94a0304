----------------------------- MODULE L2Simulator -----------------------------
(***************************************************************************)
(* App_Common/l2_simulator: one thread of the host makes transactions of   *)
(* the simulated chains while another starts and stops it.  The operations *)
(* go to a callback one by one, so a transfer, which is two operations, is *)
(* not atomic.  running stands for simulator->running and g_thread_running,*)
(* which are written together and read together; neither is locked.        *)
(*                                                                         *)
(* Left out: the random choice of amounts and the time of an operation.    *)
(* init is Init, and it is called once; the callback is set (generate_*    *)
(* do nothing without one, and start refuses).  What the callback does     *)
(* with an operation is joined to Generate and GenerateSecond by HostDemo,  *)
(* which also says which of the two threads takes these steps, and when.   *)
(***************************************************************************)
EXTENDS Integers, Sequences

CONSTANTS
  ChainIds,    \* chain ids callers may add
  MaxChains,   \* MAX_SIMULATED_CHAINS, 16
  MaxTx        \* bounds a chain's tx_counter, a uint64

VARIABLES
  chains,    \* chains[0..chain_count-1]
  running,
  thread,    \* what g_simulator_thread names: "none", "live", "exited", "joined"
  caller,    \* the thread that starts and stops: "free", or "joining" in stop
  work       \* what the simulator thread is in the middle of

vars == <<chains, running, thread, caller, work>>

Idle == [at |-> "loop", chain |-> 0]

Init ==
  /\ chains = << >> /\ running = FALSE /\ thread = "none" /\ caller = "free"
  /\ work = Idle

\* The chain count is raised last: the other thread sees whole entries.
AddChain(id) ==
  /\ caller = "free" /\ Len(chains) < MaxChains
  /\ chains' = Append(chains, [chainId |-> id, txCounter |-> 0, blockNumber |-> 0])
  /\ UNCHANGED <<running, thread, caller, work>>

\* Mutant of Start: counters reset for the new run.
StartAnew ==
  /\ caller = "free" /\ ~ running /\ chains # << >>
  /\ running' = TRUE /\ thread' = "live" /\ work' = Idle
  /\ chains' = [i \in DOMAIN chains |-> [chains[i] EXCEPT !.txCounter = 0, !.blockNumber = 0]]
  /\ UNCHANGED caller

\* l2_simulator_start, when pthread_create works; otherwise it undoes itself.
Start ==
  /\ caller = "free" /\ ~ running /\ chains # << >>
  /\ running' = TRUE /\ thread' = "live" /\ work' = Idle
  /\ UNCHANGED <<chains, caller>>

\* Mutant of Stop: the flag the loop reads is forgotten.
StopUnnoticed ==
  /\ caller = "free" /\ thread = "live"
  /\ caller' = "joining"
  /\ UNCHANGED <<chains, running, thread, work>>

(***************************************************************************)
(* l2_simulator_stop joins the thread, a second time too when it is called *)
(* twice, which is undefined and which no caller does.                     *)
(***************************************************************************)
Stop ==
  /\ caller = "free" /\ thread = "live"
  /\ running' = FALSE /\ caller' = "joining"
  /\ UNCHANGED <<chains, thread, work>>

\* Mutant of Joined: the thread is not waited for.
JoinedEarly ==
  /\ caller = "joining"
  /\ thread' = "joined" /\ caller' = "free"
  /\ UNCHANGED <<chains, running, work>>

Joined ==
  /\ caller = "joining" /\ thread = "exited"
  /\ thread' = "joined" /\ caller' = "free"
  /\ UNCHANGED <<chains, running, work>>

-----------------------------------------------------------------------------
(***************************************************************************)
(* The simulator thread.  generate_* look the chain up by its id again, so *)
(* a second entry with the same id is never used; transaction ids count up *)
(* per chain.                                                              *)
(***************************************************************************)
FirstWith(id) ==
  CHOOSE i \in DOMAIN chains :
     chains[i].chainId = id /\ \A j \in 1..i-1 : chains[j].chainId # id

Picked(i) == FirstWith(chains[i].chainId)

NextTx(i) == chains[i].txCounter + 1

\* One pass of the loop: the counter, and the first operation.
Generate(i, kind) ==
  /\ thread = "live" /\ work = Idle /\ running
  /\ NextTx(i) <= MaxTx
  /\ chains' = [chains EXCEPT ![i].txCounter = NextTx(i)]
  /\ work' = [at |-> IF kind = "transfer" THEN "second" ELSE "block", chain |-> i]
  /\ UNCHANGED <<running, thread, caller>>

\* The receiver's half of a transfer.
GenerateSecond ==
  /\ work.at = "second"
  /\ work' = [work EXCEPT !.at = "block"]
  /\ UNCHANGED <<chains, running, thread, caller>>

CountBlock ==
  /\ work.at = "block"
  /\ chains' = [chains EXCEPT ![work.chain].blockNumber = @ + 1]
  /\ work' = Idle
  /\ UNCHANGED <<running, thread, caller>>

\* The loop's condition fails.
Exit ==
  /\ thread = "live" /\ work = Idle /\ ~ running
  /\ thread' = "exited"
  /\ UNCHANGED <<chains, running, caller, work>>

\* What the thread does once a transaction is begun.
ThreadStep == GenerateSecond \/ CountBlock \/ Exit
=============================================================================
