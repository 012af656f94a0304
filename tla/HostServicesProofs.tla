------------------------- MODULE HostServicesProofs -------------------------
(***************************************************************************)
(* What holds of HostServices for any number of threads, guest VMs, inits  *)
(* and calls, and any size of the table.                                   *)
(***************************************************************************)
EXTENDS HostServices, TLAPS

Held == {"scan", "write", "find", "offer", "relock", "clear"}
NetworkPlaces == {"join", "shut"}

Pcs ==
  [at : {"idle"} \cup ClosingMediator \cup NetworkPlaces]
  \cup [at : Registering \cup {"forward", "find"}, vm : VmIds]
  \cup [at : {"broadcast", "offer", "relock"}, src : VmIds, hasData : BOOLEAN]

ReceiverType == [at : {"top", "enter", "recv", "done"}, on : Nat]

HostTypeOK ==
  /\ pc \in [Threads -> Pcs]
  /\ up \in BOOLEAN /\ vms \in Seq(VmIds) /\ mutex \in Threads \cup {"free", "gone"}
  /\ running \in BOOLEAN /\ undefined \in BOOLEAN /\ careful \in BOOLEAN
  /\ receiver \in Seq(ReceiverType) /\ fd \in Nat /\ handle \in {Wild} \cup 0..Len(receiver)
  /\ joined \subseteq 1..Len(receiver)

\* The mutex is held by the thread that is between a lock and its unlock.
MutexHeld ==
  ~ undefined =>
    /\ \A t \in Threads : pc[t].at \in Held <=> mutex = t
    /\ mutex = "gone" <=> ~ up \/ pc[Main].at = "lower"

\* Only Main opens and closes.
MainCloses ==
  \A t \in Threads : pc[t].at \in ClosingMediator \cup NetworkPlaces => t = Main

\* A thread that searched the table writes what it did not find.
WritesNew ==
  ~ undefined =>
    \A t \in Threads : pc[t].at = "write" => \A i \in DOMAIN vms : vms[i] # pc[t].vm

\* What careful callers get of the mediator.
CarefulMediator ==
  careful =>
    /\ \A t, u \in Threads : t # u => ~ Overlaps(pc[t].at, {pc[u].at})
    /\ ~ up => \A t \in Threads : pc[t].at \notin InMediator
    /\ \A t \in Threads : pc[t].at \in Registering => Len(vms) < MaxVms

\* What careful callers get of the network.
CarefulNetwork ==
  careful =>
    /\ pc[Main].at = "join" => Live
    /\ pc[Main].at = "shut" => ~ Live
    /\ Live => fd = handle /\ fd \in opened
    /\ \A r \in DOMAIN receiver :
          /\ receiver[r].at # "done" => r = handle /\ Live
          /\ receiver[r].at = "recv" => receiver[r].on = handle

HostIInv ==
  /\ HostTypeOK /\ MutexHeld /\ MainCloses /\ WritesNew /\ OneEntryPerVm
  /\ CarefulMediator /\ CarefulNetwork /\ CarefulIsDefined

-----------------------------------------------------------------------------
\* What a move of one thread does to the places of all.
LEMMA GotoFacts ==
  ASSUME HostTypeOK, NEW t \in Threads, NEW p \in Pcs, Goto(t, p)
  PROVE  /\ pc' \in [Threads -> Pcs] /\ pc'[t] = p
         /\ \A u \in Threads : u # t => pc'[u] = pc[u]
BY DEF HostTypeOK, Goto

\* The same within a call.
LEMMA MoveFacts ==
  ASSUME HostTypeOK, NEW t \in Threads, NEW next, Move(t, next),
         \/ pc[t].at \in Registering \cup {"forward", "find"}
            /\ next \in Registering \cup {"forward", "find"}
         \/ pc[t].at \in {"broadcast", "offer", "relock"}
            /\ next \in {"broadcast", "offer", "relock"}
         \/ pc[t].at \in {"idle"} \cup ClosingMediator \cup NetworkPlaces
            /\ next \in {"idle"} \cup ClosingMediator \cup NetworkPlaces
  PROVE  /\ pc' \in [Threads -> Pcs] /\ pc'[t].at = next /\ pc'[t].vm = pc[t].vm
         /\ \A u \in Threads : u # t => pc'[u] = pc[u]
<1> DEFINE p == [pc[t] EXCEPT !.at = next]
<1>1. pc[t] \in Pcs
  BY DEF HostTypeOK
<1>2. p \in Pcs
  BY <1>1 DEF Pcs, Registering, ClosingMediator, NetworkPlaces
<1>3. p.at = next /\ p.vm = pc[t].vm
  BY <1>1 DEF Pcs
<1> HIDE DEF p
<1>4. Goto(t, p)
  BY DEF Move, p
<1> QED BY <1>2, <1>3, <1>4, GotoFacts

-----------------------------------------------------------------------------
(***************************************************************************)
(* The parts of the invariant that speak of one service are kept by steps  *)
(* that leave it alone: of the places, only those of its calls matter.     *)
(***************************************************************************)
Elsewhere == {"idle"} \cup NetworkPlaces

\* A step of the network leaves the invariants of the mediator alone.
LEMMA NetworkKeepsMediator ==
  ASSUME HostIInv, UNCHANGED mediator, careful' => careful, undefined' = undefined,
         \A t \in Threads : pc'[t] = pc[t] \/ {pc[t].at, pc'[t].at} \subseteq Elsewhere
  PROVE  MutexHeld' /\ WritesNew' /\ OneEntryPerVm' /\ CarefulMediator'
<1> USE DEF HostIInv, mediator, Elsewhere, NetworkPlaces, InMediator, Registering, ClosingMediator
<1>1. MutexHeld'
  BY HostAssumption DEF MutexHeld, Held
<1>2. WritesNew' /\ OneEntryPerVm'
  BY DEF WritesNew, OneEntryPerVm
<1>3. CarefulMediator'
  BY DEF CarefulMediator, Overlaps
<1> QED BY <1>1, <1>2, <1>3

\* A step of the mediator leaves the invariant of the network alone.
LEMMA MediatorKeepsNetwork ==
  ASSUME HostIInv, UNCHANGED network, careful' => careful,
         pc'[Main].at \in NetworkPlaces => pc'[Main] = pc[Main]
  PROVE  CarefulNetwork'
BY DEF HostIInv, CarefulNetwork, network, NetworkPlaces, Live

\* A call of the mediator begins, up to its lock.
LEMMA CallOK ==
  ASSUME HostIInv, NEW t \in Threads, NEW p \in Pcs, Call(t, p, TRUE), up,
         UNCHANGED <<mediator, network>>,
         p.at \in {"register", "forward", "broadcast", "close"},
         p.at = "close" => t = Main, p.at = "register" => Len(vms) < MaxVms
  PROVE  HostIInv'
<1>1. /\ pc' \in [Threads -> Pcs] /\ pc'[t] = p /\ pc[t].at = "idle"
      /\ \A u \in Threads : u # t => pc'[u] = pc[u]
  BY GotoFacts DEF Call, At, HostIInv
<1>2. /\ careful' => careful /\ ~ Overlaps(p.at, {pc[u].at : u \in Threads \ {t}})
      /\ ~ undefined /\ undefined' = undefined /\ careful' \in BOOLEAN
  BY DEF Call, At, HostIInv, HostTypeOK
<1> USE DEF HostIInv, mediator, network
<1>3. HostTypeOK'
  BY <1>1, <1>2 DEF HostTypeOK
<1>4. MutexHeld' /\ MainCloses'
  BY <1>1, <1>2, HostAssumption
     DEF MutexHeld, MainCloses, Held, ClosingMediator, NetworkPlaces
<1>5. WritesNew' /\ OneEntryPerVm' /\ CarefulIsDefined'
  BY <1>1, <1>2 DEF WritesNew, OneEntryPerVm, CarefulIsDefined
<1>6. CarefulMediator'
  <2> SUFFICES ASSUME careful'  PROVE CarefulMediator'
    BY DEF CarefulMediator
  <2>1. \A v \in Threads : v # t => ~ Overlaps(p.at, {pc[v].at}) /\ ~ Overlaps(pc[v].at, {p.at})
    BY <1>2 DEF Overlaps, InMediator, Registering, ClosingMediator
  <2>2. \A v, u \in Threads : v # u => ~ Overlaps(pc'[v].at, {pc'[u].at})
    BY <1>1, <1>2, <2>1 DEF CarefulMediator
  <2>3. \A v \in Threads : pc'[v].at \in Registering => Len(vms') < MaxVms
    BY <1>1, <1>2 DEF CarefulMediator, Registering
  <2> QED BY <2>2, <2>3 DEF CarefulMediator
<1>7. CarefulNetwork'
  BY <1>1, <1>2, MediatorKeepsNetwork, HostAssumption DEF NetworkPlaces
<1> QED BY <1>3, <1>4, <1>5, <1>6, <1>7

-----------------------------------------------------------------------------
\* Steps within a call, and its end, keep what careful callers provide.
LEMMA WithinCalls ==
  ASSUME HostIInv, careful' => careful, up' = up, Len(vms') <= Len(vms), Len(vms') \in Nat,
         \A u \in Threads : \A S \in {Registering, ClosingMediator, InMediator} :
            pc'[u].at \in S => pc[u].at \in S
  PROVE  CarefulMediator'
<1> USE DEF HostIInv, CarefulMediator
<1> SUFFICES ASSUME careful'  PROVE CarefulMediator'
  OBVIOUS
<1>1. \A u \in Threads : /\ pc'[u].at \in Registering => pc[u].at \in Registering
                         /\ pc'[u].at \in ClosingMediator => pc[u].at \in ClosingMediator
                         /\ pc'[u].at \in InMediator => pc[u].at \in InMediator
  OBVIOUS
<1>2. \A t, u \in Threads : t # u => ~ Overlaps(pc'[t].at, {pc'[u].at})
  BY <1>1 DEF Overlaps
<1>3. ~ up' => \A t \in Threads : pc'[t].at \notin InMediator
  BY <1>1
<1>4. ASSUME NEW t \in Threads, pc'[t].at \in Registering  PROVE Len(vms') < MaxVms
  <2>1. Len(vms) < MaxVms /\ Len(vms) \in Nat
    BY <1>1, <1>4 DEF HostTypeOK
  <2> HIDE DEF CarefulMediator
  <2> QED BY <2>1, HostAssumption
<1> QED BY <1>2, <1>3, <1>4

\* The mutex is never used after it was destroyed, by careful callers.
LEMMA LockOK ==
  ASSUME HostIInv, NEW t \in Threads, NEW place, NEW next, Lock(t, place, next),
         \/ place = "register" /\ next = "scan"
         \/ place = "forward" /\ next = "find"
         \/ place = "broadcast" /\ next = "offer"
         \/ place = "close" /\ next = "clear"
  PROVE  HostIInv'
<1> USE DEF HostIInv
<1>1. /\ pc' \in [Threads -> Pcs] /\ pc'[t].at = next /\ pc[t].at = place
      /\ \A u \in Threads : u # t => pc'[u] = pc[u]
  <2>1. Move(t, next) /\ pc[t].at = place
    BY DEF Lock, At
  <2> QED BY <2>1, MoveFacts DEF Registering, ClosingMediator
<1>2. /\ \/ mutex = "free" /\ mutex' = t /\ undefined' = undefined
         \/ mutex = "gone" /\ undefined' = TRUE /\ mutex' = mutex
      /\ ~ undefined /\ careful' = careful /\ UNCHANGED <<up, vms, network>>
  BY DEF Lock, At
<1> USE DEF network
<1>3. HostTypeOK'
  BY <1>1, <1>2 DEF HostTypeOK
<1>4. MutexHeld' /\ MainCloses'
  BY <1>1, <1>2, HostAssumption
     DEF MutexHeld, MainCloses, Held, ClosingMediator, NetworkPlaces
<1>5. WritesNew' /\ OneEntryPerVm'
  BY <1>1, <1>2 DEF WritesNew, OneEntryPerVm
<1>6. CarefulIsDefined'
  <2> SUFFICES ASSUME careful, mutex = "gone"  PROVE FALSE
    BY <1>2 DEF CarefulIsDefined
  <2>1. up
    BY <1>1 DEF CarefulMediator, InMediator, Registering, ClosingMediator
  <2>2. pc[Main].at = "lower"
    BY <2>1, <1>2 DEF MutexHeld
  <2> QED BY <1>1, <2>2, HostAssumption
          DEF CarefulMediator, Overlaps, InMediator, Registering, ClosingMediator
<1>7. CarefulMediator'
  <2>1. vms' = vms /\ Len(vms) \in Nat
    BY <1>2 DEF HostTypeOK
  <2> QED BY <1>1, <1>2, <2>1, WithinCalls DEF InMediator, Registering, ClosingMediator
<1>8. CarefulNetwork'
  BY <1>1, <1>2, MediatorKeepsNetwork, HostAssumption DEF NetworkPlaces
<1> QED BY <1>3, <1>4, <1>5, <1>6, <1>7, <1>8

\* A thread that holds the mutex ends its call and gives the mutex back.
LEMMA ReleaseOK ==
  ASSUME HostIInv, NEW t \in Threads, pc[t].at \in Held, ~ undefined, undefined' = undefined,
         Goto(t, Idle), mutex' = "free", careful' = careful, UNCHANGED <<up, vms, network>>
  PROVE  HostIInv'
<1> USE DEF HostIInv, network
<1>1. /\ pc' \in [Threads -> Pcs] /\ pc'[t].at = "idle"
      /\ \A u \in Threads : u # t => pc'[u] = pc[u]
  <2>1. Idle \in Pcs /\ Idle.at = "idle"
    BY DEF Idle, Pcs
  <2> QED BY <2>1, GotoFacts
<1>2. mutex = t
  BY DEF MutexHeld
<1>3. HostTypeOK'
  BY <1>1 DEF HostTypeOK
<1>4. MutexHeld' /\ MainCloses'
  BY <1>1, <1>2, HostAssumption
     DEF MutexHeld, MainCloses, Held, ClosingMediator, NetworkPlaces
<1>5. WritesNew' /\ OneEntryPerVm' /\ CarefulIsDefined'
  BY <1>1 DEF WritesNew, OneEntryPerVm, CarefulIsDefined
<1>6. CarefulMediator'
  <2>1. vms' = vms /\ Len(vms) \in Nat
    BY DEF HostTypeOK
  <2> QED BY <1>1, <2>1, WithinCalls DEF InMediator, Registering, ClosingMediator
<1>7. CarefulNetwork'
  BY <1>1, MediatorKeepsNetwork, HostAssumption DEF NetworkPlaces
<1> QED BY <1>3, <1>4, <1>5, <1>6, <1>7

\* A VM that was not found is the one that is written.
LEMMA ScanOK ==
  ASSUME HostIInv, NEW t \in Threads, Scan(t)
  PROVE  HostIInv'
<1> USE DEF HostIInv, network
<1>1. pc[t].at = "scan" /\ ~ undefined /\ undefined' = undefined /\ careful' = careful
  BY DEF Scan, At, Inside
<1>2. CASE \E i \in DOMAIN vms : vms[i] = pc[t].vm
  BY <1>1, <1>2, ReleaseOK DEF Scan, Unlock, Held
<1>3. CASE ~ \E i \in DOMAIN vms : vms[i] = pc[t].vm
  <2>1. /\ pc' \in [Threads -> Pcs] /\ pc'[t].at = "write" /\ pc'[t].vm = pc[t].vm
        /\ \A u \in Threads : u # t => pc'[u] = pc[u]
    <3>1. Move(t, "write")
      BY <1>3 DEF Scan
    <3> QED BY <1>1, <3>1, MoveFacts DEF Registering
  <2>2. UNCHANGED <<up, vms, mutex, network>>
    BY <1>3 DEF Scan
  <2>3. HostTypeOK'
    BY <1>1, <2>1, <2>2 DEF HostTypeOK
  <2>4. MutexHeld' /\ MainCloses'
    BY <1>1, <2>1, <2>2, HostAssumption
       DEF MutexHeld, MainCloses, Held, ClosingMediator, NetworkPlaces
  <2>5. WritesNew' /\ OneEntryPerVm' /\ CarefulIsDefined'
    BY <1>1, <1>3, <2>1, <2>2 DEF WritesNew, OneEntryPerVm, CarefulIsDefined
  <2>6. CarefulMediator'
    <3>1. vms' = vms /\ Len(vms) \in Nat
      BY <2>2 DEF HostTypeOK
    <3> QED BY <1>1, <2>1, <2>2, <3>1, WithinCalls DEF InMediator, Registering, ClosingMediator
  <2>7. CarefulNetwork'
    BY <1>1, <2>1, <2>2, MediatorKeepsNetwork, HostAssumption DEF NetworkPlaces
  <2> QED BY <2>3, <2>4, <2>5, <2>6, <2>7
<1> QED BY <1>2, <1>3

\* A broadcast ends or waits for itself.
LEMMA OfferOK ==
  ASSUME HostIInv, NEW t \in Threads, Offer(t)
  PROVE  HostIInv'
<1> USE DEF HostIInv, network
<1> DEFINE meets == pc[t].hasData /\ \E i \in DOMAIN vms : vms[i] # pc[t].src
<1>1. pc[t].at = "offer" /\ ~ undefined /\ undefined' = undefined /\ careful' = careful
  BY DEF Offer, At, Inside
<1>2. CASE ~ meets
  BY <1>1, <1>2, ReleaseOK DEF Offer, Unlock, Held
<1>3. CASE meets
  <2>1. /\ pc' \in [Threads -> Pcs] /\ pc'[t].at = "relock"
        /\ \A u \in Threads : u # t => pc'[u] = pc[u]
    <3>1. Move(t, "relock")
      BY <1>3 DEF Offer
    <3> QED BY <1>1, <3>1, MoveFacts
  <2>2. UNCHANGED <<up, vms, mutex, network>>
    BY <1>3 DEF Offer
  <2>3. HostTypeOK'
    BY <1>1, <2>1, <2>2 DEF HostTypeOK
  <2>4. MutexHeld' /\ MainCloses'
    BY <1>1, <2>1, <2>2, HostAssumption
       DEF MutexHeld, MainCloses, Held, ClosingMediator, NetworkPlaces
  <2>5. WritesNew' /\ OneEntryPerVm' /\ CarefulIsDefined'
    BY <1>1, <2>1, <2>2 DEF WritesNew, OneEntryPerVm, CarefulIsDefined
  <2>6. CarefulMediator'
    <3>1. vms' = vms /\ Len(vms) \in Nat
      BY <2>2 DEF HostTypeOK
    <3> QED BY <1>1, <2>1, <2>2, <3>1, WithinCalls DEF InMediator, Registering, ClosingMediator
  <2>7. CarefulNetwork'
    BY <1>1, <2>1, <2>2, MediatorKeepsNetwork, HostAssumption DEF NetworkPlaces
  <2> QED BY <2>3, <2>4, <2>5, <2>6, <2>7
<1> QED BY <1>2, <1>3

\* A new entry; careful callers find room for it.
LEMMA WriteOK ==
  ASSUME HostIInv, NEW t \in Threads, Write(t)
  PROVE  HostIInv'
<1> USE DEF HostIInv, network
<1>1. /\ pc[t].at = "write" /\ ~ undefined /\ careful' = careful /\ mutex' = "free"
      /\ Goto(t, Idle) /\ UNCHANGED <<up, network>>
  BY DEF Write, At, Unlock
<1>2. /\ pc' \in [Threads -> Pcs] /\ pc'[t].at = "idle"
      /\ \A u \in Threads : u # t => pc'[u] = pc[u]
  <2>1. Idle \in Pcs /\ Idle.at = "idle"
    BY DEF Idle, Pcs
  <2> QED BY <1>1, <2>1, GotoFacts
<1>3. mutex = t
  BY <1>1 DEF MutexHeld, Held
<1>4. MutexHeld' /\ MainCloses'
  BY <1>1, <1>2, <1>3, HostAssumption
     DEF MutexHeld, MainCloses, Held, ClosingMediator, NetworkPlaces
<1>5. CarefulNetwork'
  BY <1>1, <1>2, MediatorKeepsNetwork, HostAssumption DEF NetworkPlaces
<1>6. \A u \in Threads : pc'[u].at # "write"
  BY <1>1, <1>2, <1>3 DEF MutexHeld, Held
<1>7. CASE Len(vms) >= MaxVms
  <2>1. undefined' = TRUE /\ vms' = vms
    BY <1>7 DEF Write
  <2>2. ~ careful
    BY <1>1, <1>7, HostAssumption DEF CarefulMediator, Registering, HostTypeOK
  <2>3. HostTypeOK'
    BY <1>1, <1>2, <2>1 DEF HostTypeOK
  <2>4. WritesNew' /\ OneEntryPerVm' /\ CarefulIsDefined' /\ CarefulMediator'
    BY <1>1, <2>1, <2>2 DEF WritesNew, OneEntryPerVm, CarefulIsDefined, CarefulMediator
  <2> QED BY <1>4, <1>5, <2>3, <2>4
<1>8. CASE ~ (Len(vms) >= MaxVms)
  <2>1. pc[t].vm \in VmIds
    BY <1>1 DEF HostTypeOK, Pcs, ClosingMediator, NetworkPlaces
  <2>2. vms \in Seq(VmIds) /\ vms' = Append(vms, pc[t].vm) /\ undefined' = undefined
    BY <1>8 DEF Write, HostTypeOK
  <2>3. /\ vms' \in Seq(VmIds) /\ DOMAIN vms' = DOMAIN vms \cup {Len(vms) + 1}
        /\ vms'[Len(vms) + 1] = pc[t].vm /\ \A i \in DOMAIN vms : vms'[i] = vms[i]
    BY <2>1, <2>2
  <2>4. HostTypeOK'
    BY <1>1, <1>2, <2>2, <2>3 DEF HostTypeOK
  <2>5. WritesNew' /\ CarefulIsDefined'
    BY <1>1, <1>6, <2>2 DEF WritesNew, CarefulIsDefined
  <2>6. OneEntryPerVm'
    BY <1>1, <2>3 DEF WritesNew, OneEntryPerVm
  <2>7. CarefulMediator'
    <3>1. \A u \in Threads : \A S \in {Registering, ClosingMediator, InMediator} :
            pc'[u].at \in S => pc[u].at \in S
      BY <1>1, <1>2 DEF InMediator, Registering, ClosingMediator
    <3>2. careful => \A u \in Threads : pc'[u].at \notin Registering
      BY <1>1, <1>2 DEF CarefulMediator, Overlaps, Registering
    <3> HIDE <2>3
    <3> QED BY <1>1, <3>1, <3>2 DEF CarefulMediator, Overlaps
  <2> QED BY <1>4, <1>5, <2>4, <2>5, <2>6, <2>7
<1> QED BY <1>7, <1>8

\* The table is emptied; close goes on without the mutex.
LEMMA ClearOK ==
  ASSUME HostIInv, NEW t \in Threads, Clear(t)
  PROVE  HostIInv'
<1> USE DEF HostIInv, network
<1>1. /\ pc[t].at = "clear" /\ ~ undefined /\ undefined' = undefined /\ careful' = careful
      /\ vms' = << >> /\ mutex' = "free" /\ Move(t, "destroy") /\ UNCHANGED <<up, network>>
  BY DEF Clear, At, Inside, Unlock
<1>2. /\ pc' \in [Threads -> Pcs] /\ pc'[t].at = "destroy"
      /\ \A u \in Threads : u # t => pc'[u] = pc[u]
  BY <1>1, MoveFacts DEF ClosingMediator
<1>3. HostTypeOK'
  BY <1>1, <1>2 DEF HostTypeOK
<1>4. MutexHeld' /\ MainCloses'
  BY <1>1, <1>2, HostAssumption
     DEF MutexHeld, MainCloses, Held, ClosingMediator, NetworkPlaces
<1>5. WritesNew' /\ OneEntryPerVm' /\ CarefulIsDefined'
  BY <1>1 DEF WritesNew, OneEntryPerVm, CarefulIsDefined
<1>6. CarefulMediator'
  <2>1. Len(vms') = 0 /\ Len(vms) \in Nat
    BY <1>1 DEF HostTypeOK
  <2> QED BY <1>1, <1>2, <2>1, WithinCalls DEF InMediator, Registering, ClosingMediator
<1>7. CarefulNetwork'
  BY <1>1, <1>2, MediatorKeepsNetwork, HostAssumption DEF NetworkPlaces
<1> QED BY <1>3, <1>4, <1>5, <1>6, <1>7

\* Nobody holds the mutex of careful callers when it is destroyed.
LEMMA DestroyOK ==
  ASSUME HostIInv, NEW t \in Threads, Destroy(t)
  PROVE  HostIInv'
<1> USE DEF HostIInv, network
<1>1. /\ pc[t].at = "destroy" /\ ~ undefined /\ undefined' = (mutex # "free")
      /\ careful' = careful /\ mutex' = "gone" /\ Move(t, "lower")
      /\ UNCHANGED <<up, vms, network>>
  BY DEF Destroy, At
<1>2. /\ pc' \in [Threads -> Pcs] /\ pc'[t].at = "lower" /\ t = Main
      /\ \A u \in Threads : u # t => pc'[u] = pc[u]
  BY <1>1, MoveFacts DEF ClosingMediator, MainCloses
<1>3. HostTypeOK'
  <2>1. undefined' \in BOOLEAN
    BY <1>1
  <2> QED BY <1>1, <1>2, <2>1 DEF HostTypeOK
<1>4. MainCloses'
  BY <1>1, <1>2 DEF MainCloses, ClosingMediator
<1>5. CarefulIsDefined'
  <2> SUFFICES ASSUME careful, mutex # "free"  PROVE FALSE
    BY <1>1 DEF CarefulIsDefined
  <2>1. CASE mutex = "gone"
    BY <1>1, <1>2, <2>1 DEF MutexHeld, CarefulMediator, InMediator, ClosingMediator
  <2>2. CASE mutex \in Threads
    <3>1. pc[mutex].at \in Held
      BY <1>1, <2>2 DEF MutexHeld
    <3>2. mutex # t
      BY <1>1, <3>1 DEF Held
    <3> QED BY <1>1, <2>2, <3>1, <3>2
            DEF CarefulMediator, Overlaps, Held, InMediator, Registering, ClosingMediator
  <2> QED BY <2>1, <2>2 DEF HostTypeOK
<1>6. MutexHeld'
  <2> SUFFICES ASSUME mutex = "free"  PROVE MutexHeld'
    BY <1>1 DEF MutexHeld
  <2>1. \A u \in Threads : pc[u].at \notin Held
    BY <1>1, HostAssumption DEF MutexHeld
  <2>2. \A u \in Threads : pc'[u].at \notin Held
    BY <1>2, <2>1 DEF Held
  <2> QED BY <1>1, <1>2, <2>2, HostAssumption DEF MutexHeld
<1>7. WritesNew' /\ OneEntryPerVm'
  BY <1>1, <1>2 DEF WritesNew, OneEntryPerVm
<1>8. CarefulMediator'
  <2>1. vms' = vms /\ Len(vms) \in Nat
    BY <1>1 DEF HostTypeOK
  <2> QED BY <1>1, <1>2, <2>1, WithinCalls DEF InMediator, Registering, ClosingMediator
<1>9. CarefulNetwork'
  BY <1>1, <1>2, MediatorKeepsNetwork, HostAssumption DEF NetworkPlaces
<1> QED BY <1>3, <1>4, <1>5, <1>6, <1>7, <1>8, <1>9

\* The mediator is down; careful callers are all outside.
LEMMA LowerOK ==
  ASSUME HostIInv, NEW t \in Threads, Lower(t)
  PROVE  HostIInv'
<1> USE DEF HostIInv, network
<1>1. /\ pc[t].at = "lower" /\ ~ undefined /\ undefined' = undefined /\ careful' = careful
      /\ up' = FALSE /\ Goto(t, Idle) /\ UNCHANGED <<vms, mutex, network>>
  BY DEF Lower, At, Inside
<1>2. /\ pc' \in [Threads -> Pcs] /\ pc'[t].at = "idle" /\ t = Main
      /\ \A u \in Threads : u # t => pc'[u] = pc[u]
  <2>1. Idle \in Pcs /\ Idle.at = "idle"
    BY DEF Idle, Pcs
  <2> QED BY <1>1, <2>1, GotoFacts DEF MainCloses, ClosingMediator
<1>3. HostTypeOK'
  BY <1>1, <1>2 DEF HostTypeOK
<1>4. MutexHeld' /\ MainCloses'
  BY <1>1, <1>2, HostAssumption
     DEF MutexHeld, MainCloses, Held, ClosingMediator, NetworkPlaces
<1>5. WritesNew' /\ OneEntryPerVm' /\ CarefulIsDefined'
  BY <1>1, <1>2 DEF WritesNew, OneEntryPerVm, CarefulIsDefined
<1>6. CarefulMediator'
  <2>1. careful => \A u \in Threads : pc'[u].at \notin InMediator
    BY <1>1, <1>2 DEF CarefulMediator, Overlaps, InMediator, Registering, ClosingMediator
  <2> QED BY <1>1, <2>1 DEF CarefulMediator, Overlaps, InMediator
<1>7. CarefulNetwork'
  BY <1>1, <1>2, MediatorKeepsNetwork, HostAssumption DEF NetworkPlaces
<1> QED BY <1>3, <1>4, <1>5, <1>6, <1>7

\* The mediator comes up when nobody holds the mutex of its last life.
LEMMA MediatorInitOK ==
  ASSUME HostIInv, MediatorInit
  PROVE  HostIInv'
<1> USE DEF HostIInv, network
<1>1. /\ ~ up /\ pc[Main].at = "idle" /\ ~ undefined /\ undefined' = undefined
      /\ careful' => careful /\ careful' \in BOOLEAN
      /\ up' = TRUE /\ vms' = << >> /\ mutex' = "free" /\ Goto(Main, Idle) /\ UNCHANGED network
  BY DEF MediatorInit, Call, At, HostTypeOK
<1>2. /\ pc' \in [Threads -> Pcs] /\ pc'[Main].at = "idle"
      /\ \A u \in Threads : u # Main => pc'[u] = pc[u]
  <2>1. Idle \in Pcs /\ Idle.at = "idle"
    BY DEF Idle, Pcs
  <2> QED BY <1>1, <2>1, GotoFacts, HostAssumption
<1>3. HostTypeOK'
  <2>1. up' \in BOOLEAN /\ vms' \in Seq(VmIds) /\ mutex' \in Threads \cup {"free", "gone"}
    BY <1>1
  <2>2. undefined' \in BOOLEAN /\ careful' \in BOOLEAN
    BY DEF MediatorInit, Call, HostTypeOK
  <2> QED BY <1>1, <1>2, <2>1, <2>2 DEF HostTypeOK
<1>4. mutex = "gone"
  BY <1>1 DEF MutexHeld
<1>5. MutexHeld' /\ MainCloses'
  BY <1>1, <1>2, <1>4, HostAssumption
     DEF MutexHeld, MainCloses, Held, ClosingMediator, NetworkPlaces
<1>6. WritesNew' /\ OneEntryPerVm' /\ CarefulIsDefined'
  BY <1>1 DEF WritesNew, OneEntryPerVm, CarefulIsDefined
<1>7. CarefulMediator'
  <2>1. careful' => \A u \in Threads : pc'[u].at \notin InMediator
    BY <1>1, <1>2 DEF CarefulMediator, InMediator, Registering, ClosingMediator
  <2> QED BY <1>1, <2>1 DEF CarefulMediator, Overlaps, InMediator
<1>8. CarefulNetwork'
  BY <1>1, <1>2, MediatorKeepsNetwork DEF NetworkPlaces
<1> QED BY <1>3, <1>5, <1>6, <1>7, <1>8

-----------------------------------------------------------------------------
\* A call of the network begins or ends: the places of the mediator stay.
LEMMA CloseNetworkOK ==
  ASSUME HostIInv, CloseNetwork
  PROVE  HostIInv'
<1> USE DEF HostIInv, mediator
<1>1. /\ pc[Main].at = "idle" /\ ~ undefined /\ undefined' = undefined
      /\ careful' => careful /\ Live
      /\ careful' \in BOOLEAN /\ Goto(Main, [at |-> "join"])
      /\ running' = FALSE /\ UNCHANGED <<mediator, fd, opened, handle, receiver, joined>>
  BY DEF CloseNetwork, Call, At, HostTypeOK
<1>2. /\ pc' \in [Threads -> Pcs] /\ pc'[Main].at = "join"
      /\ \A u \in Threads : u # Main => pc'[u] = pc[u]
  <2>1. [at |-> "join"] \in Pcs
    BY DEF Pcs, NetworkPlaces
  <2> QED BY <1>1, <2>1, GotoFacts, HostAssumption
<1>3. HostTypeOK'
  BY <1>1, <1>2 DEF HostTypeOK
<1>4. MainCloses' /\ CarefulIsDefined'
  BY <1>1, <1>2 DEF MainCloses, CarefulIsDefined
<1>5. MutexHeld' /\ WritesNew' /\ OneEntryPerVm' /\ CarefulMediator'
  BY <1>1, <1>2, NetworkKeepsMediator DEF Elsewhere, NetworkPlaces
<1>6. CarefulNetwork'
  BY <1>1, <1>2 DEF CarefulNetwork, Live, Wild
<1> QED BY <1>3, <1>4, <1>5, <1>6

\* Careful callers open the network when the last receiver is gone.
LEMMA NetworkInitOK ==
  ASSUME HostIInv, NetworkInit
  PROVE  HostIInv'
<1> USE DEF HostIInv, mediator
<1> DEFINE new == Len(receiver) + 1
           fresh == [at |-> "top", on |-> 0]
<1>1. /\ pc[Main].at = "idle" /\ ~ undefined /\ undefined' = undefined
      /\ careful' => careful /\ ~ Live
      /\ careful' \in BOOLEAN /\ Goto(Main, Idle) /\ UNCHANGED <<mediator, joined>>
  BY DEF NetworkInit, Call, At, HostTypeOK
<1>2. /\ pc' \in [Threads -> Pcs] /\ pc'[Main].at = "idle"
      /\ \A u \in Threads : u # Main => pc'[u] = pc[u]
  <2>1. Idle \in Pcs /\ Idle.at = "idle"
    BY DEF Idle, Pcs
  <2> QED BY <1>1, <2>1, GotoFacts, HostAssumption
<1>3. MainCloses' /\ CarefulIsDefined'
  BY <1>1, <1>2 DEF MainCloses, CarefulIsDefined, ClosingMediator, NetworkPlaces
<1>4. MutexHeld' /\ WritesNew' /\ OneEntryPerVm' /\ CarefulMediator'
  BY <1>1, <1>2, NetworkKeepsMediator DEF Elsewhere, NetworkPlaces
<1>5. receiver \in Seq(ReceiverType) /\ new \in Nat /\ fresh \in ReceiverType
  BY DEF HostTypeOK, ReceiverType
<1>6. CASE /\ fd' = new /\ opened' = opened \cup {new} /\ running' = TRUE
           /\ handle' = new /\ receiver' = Append(receiver, fresh)
  <2>1. /\ receiver' \in Seq(ReceiverType) /\ Len(receiver') = new
        /\ DOMAIN receiver' = DOMAIN receiver \cup {new} /\ receiver'[new] = fresh
        /\ \A r \in DOMAIN receiver : receiver'[r] = receiver[r]
    BY <1>5, <1>6
  <2>2. HostTypeOK'
    BY <1>1, <1>2, <1>5, <1>6, <2>1 DEF HostTypeOK
  <2>3. new \notin joined
    BY <1>5 DEF HostTypeOK
  <2>4. CarefulNetwork'
    BY <1>1, <1>2, <1>6, <2>1, <2>3 DEF CarefulNetwork, Live, Wild
  <2> QED BY <1>3, <1>4, <2>2, <2>4
<1>7. CASE /\ fd' = 0 /\ running' \in BOOLEAN /\ handle' \in {handle, Wild}
           /\ UNCHANGED <<opened, receiver>>
  <2>1. HostTypeOK'
    BY <1>1, <1>2, <1>7 DEF HostTypeOK
  <2>2. CarefulNetwork'
    BY <1>1, <1>2, <1>7 DEF CarefulNetwork, Live, Wild
  <2> QED BY <1>3, <1>4, <2>1, <2>2
<1> QED
  <2>1. \/ /\ fd' = new /\ opened' = opened \cup {new} /\ running' = TRUE
           /\ handle' = new /\ receiver' = Append(receiver, fresh)
        \/ /\ fd' = 0 /\ running' \in BOOLEAN /\ handle' \in {handle, Wild}
           /\ UNCHANGED <<opened, receiver>>
    BY DEF NetworkInit, HostTypeOK
  <2> QED BY <1>6, <1>7, <2>1

\* A receiver that was joined is done, and careful callers join it once.
LEMMA JoinOK ==
  ASSUME HostIInv, NEW t \in Threads, Join(t)
  PROVE  HostIInv'
<1> USE DEF HostIInv, mediator
<1>1. /\ pc[t].at = "join" /\ ~ undefined /\ careful' = careful /\ Move(t, "shut")
      /\ UNCHANGED <<mediator, fd, opened, running, handle, receiver>>
  BY DEF Join, At
<1>2. /\ pc' \in [Threads -> Pcs] /\ pc'[t].at = "shut" /\ t = Main
      /\ \A u \in Threads : u # t => pc'[u] = pc[u]
  BY <1>1, MoveFacts DEF NetworkPlaces, MainCloses
<1>3. \/ handle = 0 /\ joined' = joined /\ undefined' = undefined
      \/ handle \in joined \cup {Wild} /\ undefined' = TRUE /\ joined' = joined
      \/ /\ Live /\ receiver[handle].at = "done"
         /\ joined' = joined \cup {handle} /\ undefined' = undefined
  BY DEF Join
<1>4. HostTypeOK'
  <2>1. undefined' \in BOOLEAN
    BY <1>3 DEF HostTypeOK
  <2>2. ASSUME joined' = joined  PROVE joined' \subseteq 1..Len(receiver)
    BY <2>2 DEF HostTypeOK
  <2>3. ASSUME Live, joined' = joined \cup {handle}  PROVE joined' \subseteq 1..Len(receiver)
    BY <2>3 DEF HostTypeOK, Live, Wild
  <2>4. joined' = joined \/ (Live /\ joined' = joined \cup {handle})
    BY <1>3
  <2> QED BY <1>1, <1>2, <2>1, <2>2, <2>3, <2>4 DEF HostTypeOK
<1>5. MainCloses' /\ CarefulIsDefined'
  BY <1>1, <1>2, <1>3 DEF MainCloses, CarefulIsDefined, CarefulNetwork, Live, Wild
<1>6. MutexHeld' /\ WritesNew' /\ OneEntryPerVm' /\ CarefulMediator'
  <2>1. CASE undefined' = undefined
    BY <1>1, <1>2, <2>1, NetworkKeepsMediator DEF Elsewhere, NetworkPlaces
  <2>2. CASE undefined' = TRUE
    BY <1>1, <1>2, <1>5, <2>2 DEF MutexHeld, WritesNew, OneEntryPerVm, CarefulMediator, CarefulIsDefined
  <2> QED BY <1>3, <2>1, <2>2
<1>7. CarefulNetwork'
  BY <1>1, <1>2, <1>3 DEF CarefulNetwork, Live, Wild
<1> QED BY <1>4, <1>5, <1>6, <1>7

\* The socket is closed after its receiver.
LEMMA ShutOK ==
  ASSUME HostIInv, NEW t \in Threads, Shut(t)
  PROVE  HostIInv'
<1> USE DEF HostIInv, mediator
<1>1. /\ pc[t].at = "shut" /\ ~ undefined /\ undefined' = undefined /\ careful' = careful
      /\ opened' = opened \ {fd} /\ fd' = 0 /\ Goto(t, Idle)
      /\ UNCHANGED <<mediator, running, handle, receiver, joined>>
  BY DEF Shut, At, Inside
<1>2. /\ pc' \in [Threads -> Pcs] /\ pc'[t].at = "idle" /\ t = Main
      /\ \A u \in Threads : u # t => pc'[u] = pc[u]
  <2>1. Idle \in Pcs /\ Idle.at = "idle"
    BY DEF Idle, Pcs
  <2> QED BY <1>1, <2>1, GotoFacts DEF MainCloses, NetworkPlaces
<1>3. HostTypeOK'
  BY <1>1, <1>2 DEF HostTypeOK
<1>4. MainCloses' /\ CarefulIsDefined'
  BY <1>1, <1>2 DEF MainCloses, CarefulIsDefined
<1>5. MutexHeld' /\ WritesNew' /\ OneEntryPerVm' /\ CarefulMediator'
  BY <1>1, <1>2, NetworkKeepsMediator DEF Elsewhere, NetworkPlaces
<1>6. CarefulNetwork'
  BY <1>1, <1>2 DEF CarefulNetwork, Live, Wild
<1> QED BY <1>3, <1>4, <1>5, <1>6

\* The receiving thread enters recvfrom with the socket it was made for.
LEMMA ReceiverOK ==
  ASSUME HostIInv, ~ undefined, NEW r \in DOMAIN receiver, Top(r) \/ Enter(r) \/ Received(r)
  PROVE  HostIInv'
<1> USE DEF HostIInv
<1> DEFINE waits == [at |-> "recv", on |-> fd]
           next == receiver'[r]
<1>1. /\ UNCHANGED <<pc, mediator, fd, opened, running, handle, joined>>
      /\ UNCHANGED <<undefined, careful>>
  BY DEF Top, Enter, Received, Inside
<1>2. receiver[r] \in ReceiverType /\ receiver \in Seq(ReceiverType)
  BY DEF HostTypeOK
<1>3. /\ next \in ReceiverType /\ receiver[r].at # "done"
      /\ next.at = "recv" => receiver[r].at = "enter" /\ next.on = fd
      /\ receiver' = [receiver EXCEPT ![r] = next]
  <2>1. CASE Top(r)
    BY <1>2, <2>1 DEF Top, ReceiverType
  <2>2. CASE Enter(r)
    BY <1>2, <2>2 DEF Enter, ReceiverType, HostTypeOK
  <2>3. CASE Received(r)
    BY <1>2, <2>3 DEF Received, ReceiverType
  <2> QED BY <2>1, <2>2, <2>3
<1> HIDE DEF next
<1>4. /\ receiver' \in Seq(ReceiverType) /\ Len(receiver') = Len(receiver)
      /\ DOMAIN receiver' = DOMAIN receiver /\ receiver'[r] = next
      /\ \A q \in DOMAIN receiver : q # r => receiver'[q] = receiver[q]
  BY <1>2, <1>3
<1>5. HostTypeOK'
  BY <1>1, <1>4 DEF HostTypeOK, mediator
<1>6. MutexHeld' /\ MainCloses' /\ WritesNew' /\ OneEntryPerVm' /\ CarefulIsDefined'
  BY <1>1 DEF MutexHeld, MainCloses, WritesNew, OneEntryPerVm, CarefulIsDefined, mediator
<1>7. CarefulMediator'
  BY <1>1 DEF CarefulMediator, mediator
<1>8. CarefulNetwork'
  BY <1>1, <1>3, <1>4 DEF CarefulNetwork, Live, Wild
<1> QED BY <1>5, <1>6, <1>7, <1>8

-----------------------------------------------------------------------------
\* All the steps together.
LEMMA HostStep == HostIInv /\ [Next]_vars => HostIInv'
<1> SUFFICES ASSUME HostIInv, [Next]_vars  PROVE HostIInv'
  OBVIOUS
<1>1. ASSUME NEW t \in Threads, NEW vm \in VmIds, Register(t, vm)  PROVE HostIInv'
  <2>1. [at |-> "register", vm |-> vm] \in Pcs
    BY DEF Pcs, Registering
  <2> QED BY <1>1, <2>1, CallOK DEF Register
<1>2. ASSUME NEW t \in Threads, NEW vm \in VmIds, Forward(t, vm)  PROVE HostIInv'
  <2>1. [at |-> "forward", vm |-> vm] \in Pcs
    BY DEF Pcs
  <2> QED BY <1>2, <2>1, CallOK DEF Forward
<1>3. ASSUME NEW t \in Threads, NEW vm \in VmIds, NEW hasData \in BOOLEAN,
             Broadcast(t, vm, hasData)
      PROVE  HostIInv'
  <2>1. [at |-> "broadcast", src |-> vm, hasData |-> hasData] \in Pcs
    BY DEF Pcs
  <2> QED BY <1>3, <2>1, CallOK DEF Broadcast
<1>4. ASSUME CloseMediator  PROVE HostIInv'
  <2>1. [at |-> "close"] \in Pcs
    BY DEF Pcs, ClosingMediator
  <2> QED BY <1>4, <2>1, CallOK, HostAssumption DEF CloseMediator
<1>5. ASSUME NEW t \in Threads, MediatorStep(t)  PROVE HostIInv'
  <2>1. CASE \/ Lock(t, "register", "scan") \/ Lock(t, "forward", "find")
             \/ Lock(t, "broadcast", "offer") \/ Lock(t, "close", "clear")
    BY <2>1, LockOK
  <2>2. CASE Found(t)
    <3>1. /\ pc[t].at = "find" /\ ~ undefined /\ undefined' = undefined /\ careful' = careful
          /\ Goto(t, Idle) /\ mutex' = "free" /\ UNCHANGED <<up, vms, network>>
      BY <2>2 DEF Found, At, Unlock, Inside
    <3> QED BY <3>1, ReleaseOK DEF Held
  <2> QED BY <1>5, <2>1, <2>2, ScanOK, WriteOK, OfferOK, ClearOK, DestroyOK, LowerOK
          DEF MediatorStep
<1>6. ASSUME NEW t \in Threads, ThreadStep(t)  PROVE HostIInv'
  BY <1>5, <1>6, JoinOK, ShutOK DEF ThreadStep
<1>7. ASSUME Calls  PROVE HostIInv'
  BY <1>1, <1>2, <1>3, <1>4, <1>7, MediatorInitOK, NetworkInitOK, CloseNetworkOK DEF Calls
<1>8. ASSUME NEW r \in DOMAIN receiver, ReceiverStep(r) \/ (Receive /\ Received(r))
      PROVE  HostIInv'
  BY <1>8, ReceiverOK DEF ReceiverStep, Receive
<1>9. ASSUME UNCHANGED vars  PROVE HostIInv'
  BY <1>9
     DEF vars, mediator, network, HostIInv, HostTypeOK, MutexHeld, MainCloses, WritesNew,
         OneEntryPerVm, CarefulMediator, CarefulNetwork, CarefulIsDefined, Live
<1> QED BY <1>6, <1>7, <1>8, <1>9 DEF Next, Receive

\* Nothing has happened at first.
LEMMA HostStart == Init => HostIInv
<1> SUFFICES ASSUME Init  PROVE HostIInv
  OBVIOUS
<1> USE DEF Init, Idle
<1>1. HostTypeOK
  <2>1. [at |-> "idle"] \in Pcs
    BY DEF Pcs
  <2>2. pc \in [Threads -> Pcs] /\ up \in BOOLEAN /\ running \in BOOLEAN
    BY <2>1
  <2>3. undefined \in BOOLEAN /\ careful \in BOOLEAN
    BY Zenon
  <2>4. receiver \in Seq(ReceiverType) /\ vms \in Seq(VmIds) /\ Len(receiver) = 0
    OBVIOUS
  <2> QED BY <2>2, <2>3, <2>4 DEF HostTypeOK
<1>2. MutexHeld /\ MainCloses /\ WritesNew /\ OneEntryPerVm /\ CarefulIsDefined
  BY HostAssumption DEF MutexHeld, MainCloses, WritesNew, OneEntryPerVm, CarefulIsDefined,
     Held, ClosingMediator, NetworkPlaces
<1>3. CarefulMediator /\ CarefulNetwork
  BY HostAssumption
     DEF CarefulMediator, CarefulNetwork, Overlaps, Live, InMediator, Registering, ClosingMediator
<1> QED BY <1>1, <1>2, <1>3 DEF HostIInv

(***************************************************************************)
(* The inductive invariant: who holds the mutex, what a registration found *)
(* before it writes, and what careful callers may count on.                *)
(***************************************************************************)
THEOREM HostInvariant == Spec => []HostIInv
BY HostStart, HostStep, PTL DEF Spec

(***************************************************************************)
(* One entry per VM, for any threads that register at once.                *)
(***************************************************************************)
THEOREM HostOneEntry == Spec => []OneEntryPerVm
<1>1. HostIInv => OneEntryPerVm
  BY DEF HostIInv
<1> QED BY <1>1, HostInvariant, PTL

(***************************************************************************)
(* Callers that take care never meet undefined behaviour of the host.      *)
(***************************************************************************)
THEOREM HostDefined == Spec => []CarefulIsDefined
<1>1. HostIInv => CarefulIsDefined
  BY DEF HostIInv
<1> QED BY <1>1, HostInvariant, PTL

(***************************************************************************)
(* A receiver of careful callers reads from the open socket it was made    *)
(* for, through any number of openings and closings.                       *)
(***************************************************************************)
THEOREM HostNoReadAfterClose == Spec => []NoReadAfterClose
<1>1. HostIInv => NoReadAfterClose
  BY DEF HostIInv, NoReadAfterClose, CarefulNetwork
<1> QED BY <1>1, HostInvariant, PTL
-----------------------------------------------------------------------------
(***************************************************************************)
(* Why calls return (the part of CallsReturn that is not about fairness):  *)
(* who waits, waits for someone who does not wait himself.  The exception  *)
(* is the broadcast with data, which waits for the mutex it holds.         *)
(***************************************************************************)
AwaitsMutex == {"register", "forward", "broadcast", "close"}

\* Main leaves running lowered while it joins and shuts the socket.
ClosedWhileJoining == pc[Main].at \in NetworkPlaces => ~ running

NoWaitInCircles ==
  ~ undefined =>
    \A t \in Threads :
      /\ pc[t].at \in AwaitsMutex =>
           \/ mutex \in {"free", "gone"}
           \/ \E u \in Threads \ {t} : mutex = u /\ pc[u].at \notin AwaitsMutex \cup {"idle", "join"}
      /\ pc[t].at = "join" =>
           /\ mutex # t
           /\ handle > 0 => handle \in DOMAIN receiver
           /\ ~ running

\* Only NetworkInit raises running, and Main is in no call then.
LEMMA JoiningStep == HostIInv /\ ClosedWhileJoining /\ [Next]_vars => ClosedWhileJoining'
<1> SUFFICES ASSUME HostIInv, ClosedWhileJoining, [Next]_vars  PROVE ClosedWhileJoining'
  OBVIOUS
<1> USE HostAssumption DEF ClosedWhileJoining, NetworkPlaces
<1>1. HostTypeOK /\ MainCloses /\ pc \in [Threads -> Pcs]
  BY DEF HostIInv, HostTypeOK
\* A step that leaves running alone has Main where it was, or out of the two places.
<1>2. ASSUME running' = running, pc'[Main].at \in NetworkPlaces => pc[Main].at \in NetworkPlaces
      PROVE  ClosedWhileJoining'
  BY <1>2
<1>3. ASSUME NEW t \in Threads, NEW p, Goto(t, p), p.at \notin NetworkPlaces, running' = running
      PROVE  ClosedWhileJoining'
  <2>1. \A u \in Threads : pc'[u] = IF u = t THEN p ELSE pc[u]
    BY <1>1, <1>3 DEF Goto
  <2>2. QED
    BY <1>2, <1>3, <2>1
<1>4. ASSUME NEW t \in Threads, NEW next, Move(t, next), running' = running,
             next \notin NetworkPlaces \/ pc[t].at \in NetworkPlaces
      PROVE  ClosedWhileJoining'
  <2>1. /\ \A u \in Threads : u # t => pc'[u] = pc[u]
        /\ pc'[t].at = next
    <3>1. pc[t] \in Pcs /\ pc' = [pc EXCEPT ![t] = [pc[t] EXCEPT !.at = next]]
      BY <1>1, <1>4 DEF Move, Goto
    <3>2. [pc[t] EXCEPT !.at = next].at = next
      BY <3>1 DEF Pcs
    <3>3. QED
      BY <1>1, <3>1, <3>2
  <2>2. QED
    BY <1>2, <1>4, <2>1
<1>5. CASE NetworkInit \/ CloseNetwork
  <2>1. CASE NetworkInit
    <3>1. pc'[Main] = Idle
      BY <1>1, <2>1 DEF NetworkInit, Call, Goto
    <3>2. QED
      BY <3>1 DEF Idle
  <2>2. CASE CloseNetwork
    BY <2>2 DEF CloseNetwork
  <2>3. QED
    BY <1>5, <2>1, <2>2
<1>6. CASE MediatorInit \/ CloseMediator
  <2>1. \E p : Goto(Main, p) /\ p.at \in {"idle", "close"} /\ running' = running
    BY <1>6 DEF MediatorInit, CloseMediator, Call, Idle, mediator, network
  <2>2. QED
    BY <1>3, <2>1
<1>7. ASSUME NEW t \in Threads, NEW vm \in VmIds,
             \/ Register(t, vm) \/ Forward(t, vm)
             \/ \E hasData \in BOOLEAN : Broadcast(t, vm, hasData)
      PROVE  ClosedWhileJoining'
  <2>1. \E p : Goto(t, p) /\ p.at \in {"register", "forward", "broadcast"} /\ running' = running
    BY <1>7 DEF Register, Forward, Broadcast, Call, mediator, network
  <2>2. QED
    BY <1>3, <2>1
<1>8. ASSUME NEW t \in Threads, ThreadStep(t)  PROVE ClosedWhileJoining'
  <2>1. CASE Scan(t) \/ Write(t) \/ Found(t) \/ Offer(t) \/ Lower(t) \/ Shut(t)
    <3>1. /\ running' = running
          /\ Goto(t, Idle) \/ Move(t, "write") \/ Move(t, "relock")
      BY <2>1 DEF Scan, Write, Found, Offer, Lower, Shut, network
    <3>2. QED
      BY <1>3, <1>4, <3>1 DEF Idle
  <2>2. CASE \/ Lock(t, "register", "scan") \/ Lock(t, "forward", "find")
             \/ Lock(t, "broadcast", "offer") \/ Lock(t, "close", "clear")
    <3>1. \E next \in {"scan", "find", "offer", "clear"} : Move(t, next) /\ running' = running
      BY <2>2 DEF Lock, network
    <3>2. QED
      BY <1>4, <3>1
  <2>3. CASE Clear(t) \/ Destroy(t)
    <3>1. \E next \in {"destroy", "lower"} : Move(t, next) /\ running' = running
      BY <2>3 DEF Clear, Destroy, network
    <3>2. QED
      BY <1>4, <3>1
  <2>4. CASE Join(t)
    <3>1. Move(t, "shut") /\ running' = running /\ pc[t].at \in NetworkPlaces
      BY <2>4 DEF Join, At
    <3>2. QED
      BY <1>4, <3>1
  <2>5. QED
    BY <1>8, <2>1, <2>2, <2>3, <2>4 DEF ThreadStep, MediatorStep
<1>9. ASSUME NEW r \in DOMAIN receiver, ReceiverStep(r) \/ Received(r)
      PROVE  ClosedWhileJoining'
  BY <1>9 DEF ReceiverStep, Top, Enter, Received
<1>10. CASE UNCHANGED vars
  BY <1>10 DEF vars, network
<1> QED
  BY <1>5, <1>6, <1>7, <1>8, <1>9, <1>10 DEF Next, Calls, Receive

(***************************************************************************)
(* However many threads call, and however they overlap, the holder of the  *)
(* mutex is on its way to give it back (unless it is the broadcast above), *)
(* and whoever joins the receiver holds nothing and has told it to stop:   *)
(* no two calls wait for each other.                                       *)
(***************************************************************************)
THEOREM HostNoWaitInCircles == Spec => []NoWaitInCircles
<1>1. Init => ClosedWhileJoining
  BY HostAssumption DEF Init, Idle, ClosedWhileJoining, NetworkPlaces
<1>2. HostIInv /\ ClosedWhileJoining => NoWaitInCircles
  <2> SUFFICES ASSUME HostIInv, ClosedWhileJoining, ~ undefined, NEW t \in Threads
      PROVE /\ pc[t].at \in AwaitsMutex =>
                 \/ mutex \in {"free", "gone"}
                 \/ \E u \in Threads \ {t} :
                       mutex = u /\ pc[u].at \notin AwaitsMutex \cup {"idle", "join"}
            /\ pc[t].at = "join" =>
                 /\ mutex # t
                 /\ handle > 0 => handle \in DOMAIN receiver
                 /\ ~ running
    BY DEF NoWaitInCircles
  <2>1. /\ mutex \in Threads \cup {"free", "gone"}
        /\ \A u \in Threads : pc[u].at \in Held <=> mutex = u
        /\ handle \in {Wild} \cup 0..Len(receiver) /\ receiver \in Seq(ReceiverType)
    BY DEF HostIInv, HostTypeOK, MutexHeld
  <2>2. pc[t].at = "join" => t = Main
    BY DEF HostIInv, MainCloses, NetworkPlaces
  <2>3. pc[t].at \in AwaitsMutex =>
          \/ mutex \in {"free", "gone"}
          \/ \E u \in Threads \ {t} :
                mutex = u /\ pc[u].at \notin AwaitsMutex \cup {"idle", "join"}
    BY <2>1 DEF Held, AwaitsMutex
  <2>4. pc[t].at = "join" => mutex # t /\ ~ running
    BY <2>1, <2>2 DEF Held, ClosedWhileJoining, NetworkPlaces
  <2>5. handle > 0 => handle \in DOMAIN receiver
    BY <2>1 DEF Wild
  <2>6. QED
    BY <2>3, <2>4, <2>5
<1>3. QED
  BY <1>1, <1>2, JoiningStep, HostInvariant, HostStart, HostStep, PTL DEF Spec
=============================================================================
