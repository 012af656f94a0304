---------------------------- MODULE HostServices ----------------------------
(***************************************************************************)
(* The services of the host process: the table of guest VMs behind one     *)
(* mutex (AMD_SEV_SNP/HostVM/host_vm_mediator.cpp) and the socket with its *)
(* receiving thread (App_Common/network_layer/network_layer.cpp).  Threads *)
(* call the mediator; one of them, Main, also opens and closes both.       *)
(*                                                                         *)
(* A step is what a thread does between two places where another thread    *)
(* can see or change what it works on: the unlocked checks, the lock, the  *)
(* statements under it, a read of a global by the receiver.  An entry of   *)
(* vms[0..vm_count-1] is always active: close clears both together.        *)
(* Messages are not delivered by this code; calls that change nothing      *)
(* (send, the receive stubs, refused calls) are no steps.                  *)
(***************************************************************************)
EXTENDS Integers, Sequences, FiniteSets

CONSTANTS
  Threads,   \* the threads that call the services
  Main,      \* the one that opens and closes them
  VmIds,     \* guest VM ids
  MaxVms,    \* MAX_GUEST_VMS, 10
  MaxInits,  \* bounds the successful ocall_network_init calls of a model run
  MaxCalls   \* bounds the calls of a model run

ASSUME HostAssumption ==
  Main \in Threads /\ "free" \notin Threads /\ "gone" \notin Threads
  /\ MaxVms \in Nat /\ MaxInits \in Nat /\ MaxCalls \in Nat

VARIABLES
  pc,         \* pc[t]: where thread t is in which call, "idle" outside
  up,         \* g_mediator_state.initialized
  vms,        \* the ids of vms[0..vm_count-1]
  mutex,      \* "gone", "free", or the thread that holds it
  fd,         \* g_socket_fd, 0 for -1; sockets are numbered as opened
  opened,     \* the sockets not closed yet
  running,    \* g_network_running
  handle,     \* g_network_thread, 0 before the first, Wild after a failed create
  receiver,   \* receiver[r]: where the r-th receiving thread is
  joined,     \* the receiving threads that were joined
  undefined,  \* the C standard or POSIX says nothing of what follows
  careful,    \* history: callers took care so far, see Overlaps
  calls       \* calls made so far

mediator == <<up, vms, mutex>>
network == <<fd, opened, running, handle, receiver, joined>>
vars == <<pc, mediator, network, undefined, careful, calls>>

Wild == -1  \* the handle of no thread, see NetworkInit

Idle == [at |-> "idle"]
At(t, place) == pc[t].at = place /\ ~ undefined
Goto(t, p) == pc' = [pc EXCEPT ![t] = p]
Move(t, place) == Goto(t, [pc[t] EXCEPT !.at = place])

Init ==
  /\ pc = [t \in Threads |-> Idle]
  /\ up = FALSE /\ vms = << >> /\ mutex = "gone"
  /\ fd = 0 /\ opened = {} /\ running = FALSE
  /\ handle = 0 /\ receiver = << >> /\ joined = {}
  /\ undefined = FALSE /\ careful = TRUE /\ calls = 0

-----------------------------------------------------------------------------
(***************************************************************************)
(* What callers have to take care of, as the code does not: no mediator    *)
(* call overlaps a close, registrations do not overlap each other, and the *)
(* network is opened and closed in turns: a close follows an open that     *)
(* succeeded, and an open does not follow one.                             *)
(***************************************************************************)
Registering == {"register", "scan", "write"}
ClosingMediator == {"close", "clear", "destroy", "lower"}
InMediator ==
  Registering \cup ClosingMediator \cup {"forward", "find", "broadcast", "offer", "relock"}

Overlaps(place, others) ==
  \/ place \in Registering /\ others \cap Registering # {}
  \/ place \in ClosingMediator /\ others \cap InMediator # {}
  \/ place \in InMediator /\ others \cap ClosingMediator # {}

Live == handle > 0 /\ handle \notin joined

Call(t, p, mayCall) ==
  /\ At(t, "idle") /\ calls < MaxCalls
  /\ calls' = calls + 1
  /\ Goto(t, p)
  /\ careful' = (careful /\ mayCall
                 /\ ~ Overlaps(p.at, {pc[u].at : u \in Threads \ {t}}))
  /\ UNCHANGED undefined

Inside == UNCHANGED <<undefined, careful, calls>>

\* Mutant of Lock: nobody waits.
LockAnyway(t, place, next) ==
  /\ At(t, place)
  /\ mutex' = t /\ Move(t, next)
  /\ UNCHANGED <<up, vms, network>> /\ Inside

\* pthread_mutex_lock: a destroyed mutex must not be used.
Lock(t, place, next) ==
  /\ At(t, place)
  /\ \/ mutex = "free" /\ mutex' = t /\ UNCHANGED undefined
     \/ mutex = "gone" /\ undefined' = TRUE /\ UNCHANGED mutex
  /\ Move(t, next)
  /\ UNCHANGED <<up, vms, network, careful, calls>>

Unlock == mutex' = "free"

-----------------------------------------------------------------------------
\* host_vm_mediator_init: the second call in a row returns at once.
MediatorInit ==
  /\ ~ up
  /\ Call(Main, Idle, TRUE)
  /\ up' = TRUE /\ vms' = << >> /\ mutex' = "free"
  /\ UNCHANGED network

\* Mutant of Register: one VM too many.
RegisterOneMore(t, vm) ==
  /\ up /\ Len(vms) <= MaxVms
  /\ Call(t, [at |-> "register", vm |-> vm], TRUE)
  /\ UNCHANGED <<mediator, network>>

\* host_vm_mediator_register_vm, up to the lock: two checks without it.
Register(t, vm) ==
  /\ up /\ Len(vms) < MaxVms
  /\ Call(t, [at |-> "register", vm |-> vm], TRUE)
  /\ UNCHANGED <<mediator, network>>

\* A VM that is there already ends the call.
Scan(t) ==
  /\ At(t, "scan")
  /\ IF \E i \in DOMAIN vms : vms[i] = pc[t].vm
       THEN Goto(t, Idle) /\ Unlock
       ELSE Move(t, "write") /\ UNCHANGED mutex
  /\ UNCHANGED <<up, vms, network>> /\ Inside

\* vms[vm_count++]: past the end it would write over the rest of the state.
Write(t) ==
  /\ At(t, "write")
  /\ IF Len(vms) >= MaxVms
       THEN undefined' = TRUE /\ UNCHANGED vms
       ELSE vms' = Append(vms, pc[t].vm) /\ UNCHANGED undefined
  /\ Goto(t, Idle) /\ Unlock
  /\ UNCHANGED <<up, network, careful, calls>>

\* host_vm_mediator_forward_message with data; without it returns at once.
Forward(t, vm) ==
  /\ up
  /\ Call(t, [at |-> "forward", vm |-> vm], TRUE)
  /\ UNCHANGED <<mediator, network>>

\* Mutant of Found: an unknown destination ends the call with the lock held.
FoundOnly(t) ==
  /\ At(t, "find")
  /\ Goto(t, Idle)
  /\ IF \E i \in DOMAIN vms : vms[i] = pc[t].vm THEN Unlock ELSE UNCHANGED mutex
  /\ UNCHANGED <<up, vms, network>> /\ Inside

\* Whether or not the destination is found, the lock is given back.
Found(t) ==
  /\ At(t, "find")
  /\ Goto(t, Idle) /\ Unlock
  /\ UNCHANGED <<up, vms, network>> /\ Inside

\* host_vm_mediator_broadcast, which does not look at the data itself.
Broadcast(t, src, hasData) ==
  /\ up
  /\ Call(t, [at |-> "broadcast", src |-> src, hasData |-> hasData], TRUE)
  /\ UNCHANGED <<mediator, network>>

(***************************************************************************)
(* The loop calls forward_message for every other VM.  Without data each   *)
(* of these calls is refused; with data the first one waits for the mutex  *)
(* that this thread holds, and "relock" has no step.                       *)
(***************************************************************************)
Offer(t) ==
  /\ At(t, "offer")
  /\ IF pc[t].hasData /\ \E i \in DOMAIN vms : vms[i] # pc[t].src
       THEN Move(t, "relock") /\ UNCHANGED mutex
       ELSE Goto(t, Idle) /\ Unlock
  /\ UNCHANGED <<up, vms, network>> /\ Inside

\* host_vm_mediator_close, in four steps after the lock.
CloseMediator ==
  /\ up
  /\ Call(Main, [at |-> "close"], TRUE)
  /\ UNCHANGED <<mediator, network>>

Clear(t) ==
  /\ At(t, "clear")
  /\ vms' = << >> /\ Unlock /\ Move(t, "destroy")
  /\ UNCHANGED <<up, network>> /\ Inside

Destroy(t) ==
  /\ At(t, "destroy")
  /\ undefined' = (mutex # "free")  \* someone took it meanwhile
  /\ mutex' = "gone" /\ Move(t, "lower")
  /\ UNCHANGED <<up, vms, network, careful, calls>>

Lower(t) ==
  /\ At(t, "lower")
  /\ up' = FALSE /\ Goto(t, Idle)
  /\ UNCHANGED <<vms, mutex, network>> /\ Inside

MediatorStep(t) ==
  \/ Lock(t, "register", "scan") \/ Scan(t) \/ Write(t)
  \/ Lock(t, "forward", "find") \/ Found(t)
  \/ Lock(t, "broadcast", "offer") \/ Offer(t)
  \/ Lock(t, "close", "clear") \/ Clear(t) \/ Destroy(t) \/ Lower(t)

-----------------------------------------------------------------------------
(***************************************************************************)
(* ocall_network_init: a failure of socket, bind or pthread_create leaves  *)
(* no socket behind, but what g_socket_fd held before is lost.  POSIX does *)
(* not say what a failed pthread_create leaves in g_network_thread: what   *)
(* was there, or the handle of a thread that never ran.                    *)
(***************************************************************************)
NetworkInit ==
  /\ Call(Main, Idle, ~ Live)
  /\ \/ /\ Len(receiver) < MaxInits
        /\ fd' = Len(receiver) + 1 /\ opened' = opened \cup {Len(receiver) + 1}
        /\ running' = TRUE
        /\ handle' = Len(receiver) + 1 /\ receiver' = Append(receiver, [at |-> "top", on |-> 0])
     \/ fd' = 0 /\ UNCHANGED <<opened, running, handle, receiver>>
     \/ /\ fd' = 0 /\ running' = FALSE /\ handle' \in {handle, Wild}
        /\ UNCHANGED <<opened, receiver>>
  /\ UNCHANGED <<joined, mediator>>

\* network_receive_thread: the loop condition, the read of the socket, the wait.
Top(r) ==
  /\ receiver[r].at = "top"
  /\ receiver' = [receiver EXCEPT ![r].at = IF running THEN "enter" ELSE "done"]
  /\ UNCHANGED <<pc, mediator, fd, opened, running, handle, joined>> /\ Inside

\* recvfrom(-1) fails at once, and the loop goes on.
Enter(r) ==
  /\ receiver[r].at = "enter"
  /\ receiver' = [receiver EXCEPT ![r] = IF fd = 0 THEN [at |-> "top", on |-> 0]
                                         ELSE [at |-> "recv", on |-> fd]]
  /\ UNCHANGED <<pc, mediator, fd, opened, running, handle, joined>> /\ Inside

\* A datagram arrives, or an error does.
Received(r) ==
  /\ receiver[r].at = "recv"
  /\ receiver' = [receiver EXCEPT ![r] = [at |-> "top", on |-> 0]]
  /\ UNCHANGED <<pc, mediator, fd, opened, running, handle, joined>> /\ Inside

(***************************************************************************)
(* ocall_network_close: the handle is never reset, so a close after a      *)
(* close joins the same thread again, and one after a failed open joins    *)
(* whatever that has left.                                                 *)
(***************************************************************************)
CloseNetwork ==
  /\ Call(Main, [at |-> "join"], Live)
  /\ running' = FALSE
  /\ UNCHANGED <<mediator, fd, opened, handle, receiver, joined>>

\* Mutant of Join: the socket is closed without waiting for the thread.
JoinLater(t) ==
  /\ At(t, "join")
  /\ joined' = joined \cup ({handle} \ {0, Wild}) /\ Move(t, "shut")
  /\ UNCHANGED <<mediator, fd, opened, running, handle, receiver>> /\ Inside

Join(t) ==
  /\ At(t, "join")
  /\ \/ handle = 0 /\ UNCHANGED <<joined, undefined>>
     \/ handle \in joined \cup {Wild} /\ undefined' = TRUE /\ UNCHANGED joined
     \/ /\ Live /\ receiver[handle].at = "done"
        /\ joined' = joined \cup {handle} /\ UNCHANGED undefined
  /\ Move(t, "shut")
  /\ UNCHANGED <<mediator, fd, opened, running, handle, receiver, careful, calls>>

Shut(t) ==
  /\ At(t, "shut")
  /\ opened' = opened \ {fd} /\ fd' = 0 /\ Goto(t, Idle)
  /\ UNCHANGED <<mediator, running, handle, receiver, joined>> /\ Inside

-----------------------------------------------------------------------------
Calls ==
  \/ MediatorInit \/ CloseMediator \/ NetworkInit \/ CloseNetwork
  \/ \E t \in Threads, vm \in VmIds :
        \/ Register(t, vm) \/ Forward(t, vm)
        \/ \E hasData \in BOOLEAN : Broadcast(t, vm, hasData)

ThreadStep(t) == MediatorStep(t) \/ Join(t) \/ Shut(t)
ReceiverStep(r) == ~ undefined /\ (Top(r) \/ Enter(r))
Receive == ~ undefined /\ \E r \in DOMAIN receiver : Received(r)

Next ==
  \/ Calls
  \/ \E t \in Threads : ThreadStep(t)
  \/ \E r \in DOMAIN receiver : ReceiverStep(r)
  \/ Receive

(***************************************************************************)
(* The scheduler lets every thread run; nobody has to call, and nothing    *)
(* has to arrive on the socket.                                            *)
(***************************************************************************)
Fairness ==
  /\ \A t \in Threads : WF_vars(ThreadStep(t))
  /\ \A r \in 1..MaxInits : WF_vars(r \in DOMAIN receiver /\ ReceiverStep(r))

Spec == Init /\ [][Next]_vars /\ Fairness

-----------------------------------------------------------------------------
(***************************************************************************)
(* A VM has one entry, although any number of threads register it at once  *)
(* and the search for an old entry and the new entry are two steps.        *)
(***************************************************************************)
OneEntryPerVm == \A i, j \in DOMAIN vms : vms[i] = vms[j] => i = j

(***************************************************************************)
(* Callers that take care (see Overlaps) are safe: they never use the      *)
(* mutex after close destroyed it, never write past the table although its *)
(* size is looked at before the lock is taken, never join a thread twice   *)
(* nor one whose creation failed.                                          *)
(***************************************************************************)
CarefulIsDefined == undefined => ~ careful

(***************************************************************************)
(* The receiver never reads from a socket that close has given back (its   *)
(* number may be another file's by then), wherever between its test of     *)
(* running and recvfrom the close finds it.                                *)
(***************************************************************************)
NoReadAfterClose ==
  careful => \A r \in DOMAIN receiver :
               /\ receiver[r].at = "enter" => fd \in opened
               /\ receiver[r].at = "recv"  => receiver[r].on \in opened

(***************************************************************************)
(* Every call returns, the closes included, if every recvfrom does: unless *)
(* a broadcast with data met another VM, which holds the mutex for good.   *)
(***************************************************************************)
RecvReturns ==
  \A r \in 1..MaxInits : []<>(r \in DOMAIN receiver => receiver[r].at # "recv")

CallsReturn ==
  RecvReturns =>
    \A t \in Threads :
       pc[t] # Idle ~> pc[t] = Idle \/ undefined \/ \E u \in Threads : pc[u].at = "relock"
=============================================================================
