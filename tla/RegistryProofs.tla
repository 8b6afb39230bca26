--------------------------- MODULE RegistryProofs ---------------------------
(* Proofs about Registry, for every set of instances and services, every     *)
(* timeout and monitoring interval: type correctness, and what the           *)
(* subscribers of the lifecycle events know of memberships and statuses.     *)
EXTENDS Registry, FiniteSetTheorems, TLAPS

-----------------------------------------------------------------------------
(* Type correctness *)

\* A monitoring round starts with a finite number of services.
LEMMA RoundSize ==
  ASSUME services \subseteq Instances
  PROVE  ServiceNames \subseteq Services /\ Cardinality(ServiceNames) \in Nat
<1>1. IsFiniteSet(services)
  BY InstancesAssumption, FS_Subset
<1>2. IsFiniteSet(ServiceNames)
  <2> DEFINE f == [i \in services |-> ServiceOf[i]]
  <2>1. f \in Surjection(services, ServiceNames)
    BY DEF Surjection, ServiceNames
  <2>. QED  BY <1>1, <2>1, FS_Surjection
<1>3. Cardinality(ServiceNames) \in Nat
  BY <1>2, FS_CardinalityType
<1>. QED  BY <1>3, InstancesAssumption DEF ServiceNames

\* A status is computed from any age and flag.
LEMMA StatusType ==
  ASSUME NEW age \in Ages, NEW flag \in BOOLEAN
  PROVE  StatusOf(age, flag) \in Statuses
BY DEF StatusOf, Statuses

\* Ages are those of a heartbeat just taken, of one that is late and of none.
LEMMA AgeFacts ==
  /\ 0 \in Ages /\ NoHeartbeat \in Ages
  /\ \A a \in Ages : a < Late => a + 1 \in Ages
BY TimingAssumption DEF Ages, NoHeartbeat, Late

\* The first of the heartbeats queued, and the others.
LEMMA QueueFacts ==
  ASSUME NEW S, NEW q \in Seq(S), q # <<>>
  PROVE  Head(q) \in S /\ Tail(q) \in Seq(S)
OBVIOUS

\* One entry of a function changes within its range.
LEMMA EntryChanges ==
  ASSUME NEW S, NEW f \in [Instances -> S], NEW i \in Instances, NEW v \in S
  PROVE  [f EXCEPT ![i] = v] \in [Instances -> S]
OBVIOUS

\* refresh_instance_status() tracks a status, and announces one or nothing.
LEMMA RefreshType ==
  ASSUME TypeOK, NEW i \in Instances, NEW new \in Statuses, NEW ok \in BOOLEAN, Refresh(i, new, ok)
  PROVE  /\ tracked' \in [Instances -> Statuses \cup {"none"}]
         /\ view' \in [Instances -> Statuses \cup {"none"}]
<1>1. tracked' \in [Instances -> Statuses \cup {"none"}]
  BY DEF Refresh, TypeOK
<1>2. CASE ok /\ RefreshPublishes(i, new)
  <2>1. view' = [view EXCEPT ![i] = new]
    BY <1>2 DEF Refresh
  <2>. QED  BY <1>1, <2>1 DEF TypeOK
<1>3. CASE ~(ok /\ RefreshPublishes(i, new))
  <2>1. view' = [view EXCEPT ![i] = view[i]]
    BY <1>3 DEF Refresh
  <2>. QED  BY <1>1, <2>1 DEF TypeOK
<1>. QED  BY <1>2, <1>3

\* The registry starts with nothing known and nothing queued.
LEMMA InitTypeOK == Init => TypeOK
BY AgeFacts DEF Init, TypeOK, NoRound, Phases

\* The instances only queue messages and change their own phase.
LEMMA InstanceTypeOK ==
  ASSUME TypeOK, NEW i \in Instances, InstanceStep(i)
  PROVE  TypeOK'
<1> USE TimingAssumption DEF queues, process, pending, rounds, known
<1>1. CASE ClientSetup(i) \/ StopAccepting(i) \/ CrashInstance(i)
  BY <1>1 DEF ClientSetup, StopAccepting, CrashInstance, TypeOK, Phases
<1>2. CASE RegisterService(i) \/ OnAmqpReconnect(i) \/ RegisterAgain(i)
  <2>1. registerQ' \in [Instances -> Nat]
    <3>1. registerQ \in [Instances -> Nat] /\ registerQ[i] + 1 \in Nat
      BY DEF TypeOK
    <3>2. registerQ' = [registerQ EXCEPT ![i] = registerQ[i] + 1]
      BY <1>2 DEF RegisterService, OnAmqpReconnect, RegisterAgain, Publishes
    <3>. QED  BY <3>1, <3>2, EntryChanges
  <2>2. registerAgainQ' \in [Instances -> Nat]
    <3>1. /\ registerAgainQ \in [Instances -> Nat]
          /\ registerAgainQ[i] > 0 => registerAgainQ[i] - 1 \in Nat
      BY DEF TypeOK
    <3>2. \/ registerAgainQ' = registerAgainQ
          \/ /\ registerAgainQ[i] > 0
             /\ registerAgainQ' = [registerAgainQ EXCEPT ![i] = registerAgainQ[i] - 1]
      BY <1>2 DEF RegisterService, OnAmqpReconnect, RegisterAgain
    <3>. QED  BY <3>1, <3>2, EntryChanges
  <2>3. phase' \in [Instances -> Phases]
    <3>1. phase \in [Instances -> Phases] /\ "running" \in Phases
      BY DEF TypeOK, Phases
    <3>2. phase' = phase \/ phase' = [phase EXCEPT ![i] = "running"]
      BY <1>2 DEF RegisterService, OnAmqpReconnect, RegisterAgain
    <3>. QED  BY <3>1, <3>2, EntryChanges
  <2>4. UNCHANGED <<unregisterQ, heartbeatQ, up, grace, crashes, services, heartbeats, degraded, tracked,
                    registering, deregistering, monitor, sinceMonitor, view>>
    BY <1>2 DEF RegisterService, OnAmqpReconnect, RegisterAgain
  <2>. QED  BY <2>1, <2>2, <2>3, <2>4 DEF TypeOK
<1>3. CASE Unregister(i)
  BY <1>3 DEF Unregister, TypeOK, Phases
<1>4. ASSUME NEW isDegraded \in DegradedChecks, SendHeartbeat(i, isDegraded) PROVE TypeOK'
  <2>1. heartbeatQ' \in [Instances -> Seq(BOOLEAN)]
    BY <1>4 DEF SendHeartbeat, TypeOK
  <2>. QED  BY <1>4, <2>1 DEF SendHeartbeat, TypeOK
<1>. QED  BY <1>1, <1>2, <1>3, <1>4 DEF InstanceStep

\* The handlers keep the types.
LEMMA HandlerTypeOK ==
  ASSUME TypeOK, NEW i \in Instances, HandlerStep(i)
  PROVE  TypeOK'
<1> USE TimingAssumption DEF queues, process, pending, rounds, known
<1>1. CASE RegisterPublished(i) \/ UnregisterPublished(i)
  <2>1. registering' \in [Instances -> Nat] /\ deregistering' \in [Instances -> Nat]
    <3>1. /\ registering \in [Instances -> Nat] /\ deregistering \in [Instances -> Nat]
          /\ registering[i] > 0 => registering[i] - 1 \in Nat
          /\ deregistering[i] > 0 => deregistering[i] - 1 \in Nat
      BY DEF TypeOK
    <3>2. CASE RegisterPublished(i)
      <4>1. /\ registering[i] > 0 /\ deregistering' = deregistering
            /\ registering' = [registering EXCEPT ![i] = registering[i] - 1]
        BY <3>2 DEF RegisterPublished
      <4>. QED  BY <3>1, <4>1, EntryChanges
    <3>3. CASE UnregisterPublished(i)
      <4>1. /\ deregistering[i] > 0 /\ registering' = registering
            /\ deregistering' = [deregistering EXCEPT ![i] = deregistering[i] - 1]
        BY <3>3 DEF UnregisterPublished
      <4>. QED  BY <3>1, <4>1, EntryChanges
    <3>. QED  BY <1>1, <3>2, <3>3
  <2>2. tracked' \in [Instances -> Statuses \cup {"none"}]
    BY <1>1 DEF RegisterPublished, UnregisterPublished, TrackRegistered, TypeOK, Statuses
  <2>3. UNCHANGED <<phase, registerQ, unregisterQ, heartbeatQ, registerAgainQ, up, grace, crashes,
                    services, heartbeats, degraded, monitor, sinceMonitor, view>>
    BY <1>1 DEF RegisterPublished, UnregisterPublished
  <2>. QED  BY <2>1, <2>2, <2>3 DEF TypeOK
<1>2. ASSUME NEW ok \in BOOLEAN, HandleRegister(i, ok) PROVE TypeOK'
  <2>1. registerQ' \in [Instances -> Nat] /\ services' \subseteq Instances
    BY <1>2 DEF HandleRegister, TypeOK
  <2>2. registering' \in [Instances -> Nat]
    <3>1. /\ registering \in [Instances -> Nat]
          /\ registering[i] \in Nat /\ registering[i] + 1 \in Nat
      BY DEF TypeOK
    <3>2. \/ registering' = [registering EXCEPT ![i] = registering[i] + 1]
          \/ registering' = [registering EXCEPT ![i] = registering[i]]
      BY <1>2 DEF HandleRegister
    <3>. QED  BY <3>1, <3>2, EntryChanges
  <2>3. view' \in [Instances -> Statuses \cup {"none"}]
    BY <1>2 DEF HandleRegister, TypeOK, Statuses
  <2>4. UNCHANGED <<phase, unregisterQ, heartbeatQ, registerAgainQ, up, grace, crashes, heartbeats,
                    degraded, tracked, deregistering, monitor, sinceMonitor>>
    BY <1>2 DEF HandleRegister
  <2>. QED  BY <2>1, <2>2, <2>3, <2>4 DEF TypeOK
<1>3. ASSUME NEW ok \in BOOLEAN, HandleUnregister(i, ok) PROVE TypeOK'
  <2>1. unregisterQ' \in [Instances -> Nat] /\ services' \subseteq Instances
    BY <1>3 DEF HandleUnregister, TypeOK
  <2>2. deregistering' \in [Instances -> Nat]
    <3>1. deregistering \in [Instances -> Nat] /\ deregistering[i] + 1 \in Nat
      BY DEF TypeOK
    <3>2. \/ deregistering' = deregistering
          \/ deregistering' = [deregistering EXCEPT ![i] = deregistering[i] + 1]
          \/ deregistering' = [deregistering EXCEPT ![i] = deregistering[i]]
      BY <1>3 DEF HandleUnregister
    <3>. QED  BY <3>1, <3>2, EntryChanges
  <2>3. view' \in [Instances -> Statuses \cup {"none"}]
    BY <1>3 DEF HandleUnregister, TypeOK
  <2>4. UNCHANGED <<phase, registerQ, heartbeatQ, registerAgainQ, up, grace, crashes, heartbeats,
                    degraded, tracked, registering, monitor, sinceMonitor>>
    BY <1>3 DEF HandleUnregister
  <2>. QED  BY <2>1, <2>2, <2>3, <2>4 DEF TypeOK
<1>4. ASSUME NEW ok \in BOOLEAN, HandleHeartbeat(i, ok) PROVE TypeOK'
  <2>1. /\ heartbeatQ[i] \in Seq(BOOLEAN) /\ heartbeatQ[i] # <<>>
        /\ heartbeatQ' = [heartbeatQ EXCEPT ![i] = Tail(@)]
        /\ UNCHANGED <<phase, registerQ, unregisterQ, up, grace, crashes, services, registering,
                       deregistering, monitor, sinceMonitor>>
    BY <1>4 DEF HandleHeartbeat, TypeOK
  <2>2. Head(heartbeatQ[i]) \in BOOLEAN /\ Tail(heartbeatQ[i]) \in Seq(BOOLEAN)
    BY <2>1, QueueFacts
  <2>3. heartbeatQ' \in [Instances -> Seq(BOOLEAN)]
    BY <2>1, <2>2 DEF TypeOK
  <2>4. CASE i \in services
    <3>1. StatusOf(0, Head(heartbeatQ[i])) \in Statuses
      BY <2>2, StatusType, AgeFacts
    <3>0. StoreHeartbeat(i, Head(heartbeatQ[i]), ok)
      BY <1>4, <2>4 DEF HandleHeartbeat
    <3>2. /\ heartbeats' \in [Instances -> Ages] /\ degraded' \subseteq Instances
          /\ registerAgainQ' = registerAgainQ
      <4>1. heartbeats' \in [Instances -> Ages]
        BY <3>0, AgeFacts, EntryChanges DEF StoreHeartbeat, TypeOK
      <4>2. degraded' \subseteq Instances
        BY <3>0 DEF StoreHeartbeat, TypeOK
      <4>. QED  BY <3>0, <4>1, <4>2 DEF StoreHeartbeat
    <3>3. /\ tracked' \in [Instances -> Statuses \cup {"none"}]
          /\ view' \in [Instances -> Statuses \cup {"none"}]
      BY <3>0, <3>1, RefreshType DEF StoreHeartbeat
    <3>. QED  BY <2>1, <2>3, <3>2, <3>3 DEF TypeOK
  <2>5. CASE i \notin services
    <3>0. AskToRegister(i) /\ UNCHANGED <<heartbeats, degraded, tracked, view>>
      BY <1>4, <2>5 DEF HandleHeartbeat
    <3>1. registerAgainQ' \in [Instances -> Nat]
      BY <3>0, EntryChanges DEF AskToRegister, TypeOK
    <3>. QED  BY <2>1, <2>3, <3>0, <3>1 DEF TypeOK
  <2>. QED  BY <2>4, <2>5
<1>. QED  BY <1>1, <1>2, <1>3, <1>4 DEF HandlerStep, Publishing

\* So does the monitoring round.
LEMMA MonitorTypeOK ==
  ASSUME TypeOK, MonitorStep
  PROVE  TypeOK'
<1> USE TimingAssumption DEF queues, process, pending, rounds, known
<1>1. CASE MonitorStart
  BY <1>1, RoundSize DEF MonitorStart, TypeOK
<1>2. CASE MonitorEnd
  BY <1>2 DEF MonitorEnd, EndRound, NoRound, TypeOK
<1>3. ASSUME NEW s \in Services, MonitorService(s) PROVE TypeOK'
  BY <1>3 DEF MonitorService, TypeOK
<1>4. ASSUME NEW i \in Instances, NEW ok \in BOOLEAN, MonitorRefresh(i, ok) PROVE TypeOK'
  <2>1. UNCHANGED <<phase, registerQ, unregisterQ, heartbeatQ, registerAgainQ, up, grace, crashes,
                    services, heartbeats, degraded, registering, deregistering>>
    BY <1>4 DEF MonitorRefresh
  <2>2. Status(i) \in Statuses
    <3>1. heartbeats[i] \in Ages /\ (i \in degraded) \in BOOLEAN
      BY DEF TypeOK
    <3>. QED  BY <3>1, StatusType DEF Status
  <2>3. /\ tracked' \in [Instances -> Statuses \cup {"none"}]
        /\ view' \in [Instances -> Statuses \cup {"none"}]
    <3>1. CASE StillRegistered(i)
      BY <1>4, <2>2, <3>1, RefreshType DEF MonitorRefresh
    <3>2. CASE ~StillRegistered(i)
      BY <1>4, <3>2 DEF MonitorRefresh, TypeOK
    <3>. QED  BY <3>1, <3>2
  <2>4. /\ monitor' \in [on : BOOLEAN, size : Nat, left : SUBSET Services, todo : SUBSET Instances]
        /\ sinceMonitor' \in Nat
    <3>1. CASE EndRound
      BY <3>1 DEF EndRound, NoRound
    <3>2. CASE monitor' = [monitor EXCEPT !.todo = @ \ {i}] /\ UNCHANGED sinceMonitor
      BY <3>2 DEF TypeOK
    <3>. QED  BY <1>4, <3>1, <3>2 DEF MonitorRefresh
  <2>. QED  BY <2>1, <2>3, <2>4 DEF TypeOK
<1>. QED  BY <1>1, <1>2, <1>3, <1>4 DEF MonitorStep, Publishing

\* Time, crashes and restarts of the registry keep the types.
LEMMA ProcessTypeOK ==
  ASSUME TypeOK, Tick \/ GraceEnds \/ CrashRegistry \/ RestartRegistry \/ UNCHANGED vars
  PROVE  TypeOK'
<1> USE TimingAssumption DEF queues, process, pending, rounds, known
<1>1. CASE Tick
  <2>1. heartbeats' \in [Instances -> Ages]
    BY <1>1, AgeFacts DEF Tick, TypeOK
  <2>. QED  BY <1>1, <2>1 DEF Tick, TypeOK
<1>2. CASE GraceEnds \/ RestartRegistry
  BY <1>2 DEF GraceEnds, RestartRegistry, TypeOK
<1>3. CASE CrashRegistry
  <2>1. registerQ' \in [Instances -> Nat] /\ unregisterQ' \in [Instances -> Nat]
    BY <1>3 DEF CrashRegistry, TypeOK
  <2>2. registering' \in [Instances -> Nat] /\ deregistering' \in [Instances -> Nat]
    BY <1>3 DEF CrashRegistry
  <2>3. heartbeats' \in [Instances -> Ages] /\ tracked' \in [Instances -> Statuses \cup {"none"}]
    BY <1>3, AgeFacts DEF CrashRegistry
  <2>4. up' \in BOOLEAN /\ crashes' \in Nat
    <3>1. crashes \in Nat /\ crashes' = crashes + 1
      BY <1>3 DEF CrashRegistry, TypeOK
    <3>2. crashes' \in Nat
      BY <3>1
    <3>3. up' \in BOOLEAN
      BY <1>3, Zenon DEF CrashRegistry
    <3>. QED  BY <3>2, <3>3
  <2>5. /\ services' = {} /\ degraded' = {}
        /\ monitor' \in [on : BOOLEAN, size : Nat, left : SUBSET Services, todo : SUBSET Instances]
        /\ sinceMonitor' \in Nat
        /\ UNCHANGED <<phase, heartbeatQ, registerAgainQ, grace, view>>
    BY <1>3 DEF CrashRegistry, NoRound
  <2>. QED  BY <2>1, <2>2, <2>3, <2>4, <2>5 DEF TypeOK
<1>4. CASE UNCHANGED vars
  BY <1>4 DEF vars, TypeOK
<1>. QED  BY <1>1, <1>2, <1>3, <1>4

\* What the registry, its queues and its instances hold has its type in every state,
\* crashes and restarts included.
THEOREM TypeCorrect == Spec => []TypeOK
<1>1. TypeOK /\ [Next]_vars => TypeOK'
  BY InstanceTypeOK, HandlerTypeOK, MonitorTypeOK, ProcessTypeOK DEF Next
<1>. QED  BY <1>1, InitTypeOK, PTL DEF Spec

-----------------------------------------------------------------------------
(* What the subscribers know *)

MembershipInv == ~PublishFails => MembershipIsAnnounced

\* Only an instance that has sent its unregister message is being deregistered.
UnregisterInv ==
  \A i \in Instances : unregisterQ[i] > 0 \/ deregistering[i] > 0 => phase[i] = "stopped"

\* A status goes untold only while a registration is being announced, whose end
\* sets the tracked one back.
TrackInv ==
  ~PublishFails =>
    \A i \in services : phase[i] # "stopped" =>
      /\ tracked[i] = "none" => registering[i] > 0
      /\ registering[i] = 0 /\ tracked[i] \in {"active", "degraded"} => view[i] = tracked[i]

\* The steps by which an instance, the clock and the monitoring loop leave both the
\* registry's memory of an instance and the subscribers' alone.
LEMMA BystanderFacts ==
  ASSUME \/ \E i \in Instances : InstanceStep(i)
         \/ MonitorStart \/ MonitorEnd \/ (\E s \in Services : MonitorService(s))
         \/ Tick \/ GraceEnds \/ RestartRegistry \/ UNCHANGED vars
  PROVE  UNCHANGED <<crashes, services, tracked, registering, deregistering, view>>
BY DEF InstanceStep, ClientSetup, RegisterService, OnAmqpReconnect, RegisterAgain, StopAccepting,
       Unregister, CrashInstance, SendHeartbeat, MonitorStart, MonitorEnd, MonitorService, Tick,
       GraceEnds, RestartRegistry, process, known, pending, vars

\* Every other step, for the case splits below.
LEMMA NextCases ==
  ASSUME [Next]_vars
  PROVE  \/ UNCHANGED <<crashes, services, tracked, registering, deregistering, view>>
         \/ CrashRegistry
         \/ \E i \in Instances : RegisterPublished(i) \/ UnregisterPublished(i)
         \/ \E i \in Instances, ok \in Publishing :
               HandleRegister(i, ok) \/ HandleUnregister(i, ok) \/ HandleHeartbeat(i, ok)
               \/ MonitorRefresh(i, ok)
<1>1. CASE UNCHANGED vars
  BY <1>1, BystanderFacts
<1>2. CASE Next
  <2>1. CASE \/ \E i \in Instances : InstanceStep(i)
             \/ MonitorStart \/ MonitorEnd \/ (\E s \in Services : MonitorService(s))
             \/ Tick \/ GraceEnds \/ RestartRegistry
    BY <2>1, BystanderFacts
  <2>2. CASE \E i \in Instances : HandlerStep(i)
    BY <2>2 DEF HandlerStep
  <2>. QED  BY <1>2, <2>1, <2>2 DEF Next, MonitorStep
<1>. QED  BY <1>1, <1>2

\* A status that is refreshed is never the absence of one.
LEMMA RefreshedView ==
  ASSUME TypeOK, NEW i \in Instances, NEW new \in Statuses, Refresh(i, new, TRUE)
  PROVE  /\ \A j \in Instances \ {i} : tracked'[j] = tracked[j] /\ view'[j] = view[j]
         /\ tracked'[i] = new
         /\ view'[i] = IF tracked[i] \notin {"none", new} THEN new ELSE view[i]
         /\ new # "none"
BY DEF TypeOK, Refresh, RefreshPublishes, Statuses

\* What a heartbeat of a registered instance, or the monitoring round, does.
LEMMA RefreshStep ==
  ASSUME TypeOK, ~PublishFails, NEW i \in Instances, NEW ok \in Publishing,
         HandleHeartbeat(i, ok) \/ MonitorRefresh(i, ok)
  PROVE  /\ UNCHANGED <<crashes, services, registering, deregistering>>
         /\ \/ UNCHANGED <<tracked, view>>
            \/ i \in services /\ \E new \in Statuses : Refresh(i, new, TRUE)
<1>0. ok = TRUE
  BY DEF Publishing
<1>1. CASE HandleHeartbeat(i, ok)
  <2>1. UNCHANGED <<crashes, services, registering, deregistering>>
    BY <1>1 DEF HandleHeartbeat, process, pending
  <2>2. CASE i \in services
    <3>1. Head(heartbeatQ[i]) \in BOOLEAN
      BY <1>1, QueueFacts DEF HandleHeartbeat, TypeOK
    <3>2. StatusOf(0, Head(heartbeatQ[i])) \in Statuses
      BY <3>1, StatusType, AgeFacts
    <3>3. Refresh(i, StatusOf(0, Head(heartbeatQ[i])), TRUE)
      BY <1>0, <1>1, <2>2 DEF HandleHeartbeat, StoreHeartbeat
    <3>. QED  BY <2>1, <2>2, <3>2, <3>3
  <2>3. CASE i \notin services
    BY <1>1, <2>1, <2>3 DEF HandleHeartbeat
  <2>. QED  BY <2>2, <2>3
<1>2. CASE MonitorRefresh(i, ok)
  <2>1. UNCHANGED <<crashes, services, registering, deregistering>>
    BY <1>2 DEF MonitorRefresh, process, pending
  <2>2. CASE StillRegistered(i)
    <3>1. heartbeats[i] \in Ages /\ (i \in degraded) \in BOOLEAN
      BY DEF TypeOK
    <3>2. Status(i) \in Statuses
      BY <3>1, StatusType DEF Status
    <3>3. Refresh(i, Status(i), TRUE) /\ i \in services
      BY <1>0, <1>2, <2>2 DEF MonitorRefresh, StillRegistered
    <3>. QED  BY <2>1, <3>2, <3>3
  <2>3. CASE ~StillRegistered(i)
    BY <1>2, <2>1, <2>3 DEF MonitorRefresh
  <2>. QED  BY <2>2, <2>3
<1>. QED  BY <1>1, <1>2

\* Membership and its announcement change together.
LEMMA NextMembershipInv == TypeOK /\ MembershipInv /\ [Next]_vars => MembershipInv'
<1> SUFFICES ASSUME TypeOK, MembershipIsAnnounced, [Next]_vars, ~PublishFails
             PROVE  MembershipIsAnnounced'
  BY DEF MembershipInv
<1>0. crashes \in Nat /\ view \in [Instances -> Statuses \cup {"none"}]
  BY DEF TypeOK
<1>2. CASE UNCHANGED <<crashes, services, view>>
  BY <1>2 DEF MembershipIsAnnounced
<1>3. CASE CrashRegistry
  <2>1. services' = {} /\ crashes' # 0
    BY <1>0, <1>3 DEF CrashRegistry
  <2>. QED  BY <2>1 DEF MembershipIsAnnounced
<1>4. CASE \E i \in Instances : RegisterPublished(i) \/ UnregisterPublished(i)
  BY <1>2, <1>4 DEF RegisterPublished, UnregisterPublished, process
<1>5. ASSUME NEW i \in Instances, NEW ok \in Publishing, HandleRegister(i, ok) \/ HandleUnregister(i, ok)
      PROVE  MembershipIsAnnounced'
  <2>0. ok = TRUE /\ UNCHANGED crashes
    BY <1>5 DEF Publishing, HandleRegister, HandleUnregister, process
  <2>2. CASE HandleRegister(i, ok)
    BY <1>0, <2>0, <2>2 DEF HandleRegister, MembershipIsAnnounced
  <2>3. CASE HandleUnregister(i, ok)
    BY <1>0, <2>0, <2>3 DEF HandleUnregister, MembershipIsAnnounced
  <2>. QED  BY <1>5, <2>2, <2>3
<1>6. ASSUME NEW i \in Instances, NEW ok \in Publishing, HandleHeartbeat(i, ok) \/ MonitorRefresh(i, ok)
      PROVE  MembershipIsAnnounced'
  <2>1. UNCHANGED <<crashes, services>>
    BY <1>6, RefreshStep
  <2>3. CASE UNCHANGED <<tracked, view>>
    BY <1>2, <2>1, <2>3
  <2>4. ASSUME i \in services, NEW new \in Statuses, Refresh(i, new, TRUE) PROVE MembershipIsAnnounced'
    BY <2>1, <2>4, RefreshedView DEF MembershipIsAnnounced
  <2>. QED  BY <1>6, <2>3, <2>4, RefreshStep
<1>. QED  BY <1>2, <1>3, <1>4, <1>5, <1>6, NextCases

\* While events can be published, the subscribers count every registered instance as
\* present, through crashes of the registry, and before the first crash no other, for
\* any number of instances and services.
THEOREM MembershipAnnounced == Spec => [](~PublishFails => MembershipIsAnnounced)
<1>1. Init => MembershipInv
  BY DEF Init, MembershipInv, MembershipIsAnnounced
<1>2. MembershipInv => (~PublishFails => MembershipIsAnnounced)
  BY DEF MembershipInv
<1>. QED  BY <1>1, <1>2, TypeCorrect, NextMembershipInv, PTL DEF Spec

\* A stopped instance stays stopped, and before it has stopped the registry holds no
\* unregister message of it, whatever crashes give back.
LEMMA NextUnregisterInv ==
  TypeOK /\ UnregisterInv /\ [Next]_vars =>
    UnregisterInv' /\ \A j \in Instances : phase[j] = "stopped" => phase'[j] = "stopped"
<1> SUFFICES ASSUME TypeOK, UnregisterInv, [Next]_vars, NEW j \in Instances
             PROVE  /\ unregisterQ'[j] > 0 \/ deregistering'[j] > 0 => phase'[j] = "stopped"
                    /\ phase[j] = "stopped" => phase'[j] = "stopped"
  BY DEF UnregisterInv
<1> DEFINE Leaves(i) == unregisterQ[i] > 0 \/ deregistering[i] > 0
<1> USE DEF queues, process, pending, rounds, known
<1>0. /\ phase \in [Instances -> Phases]
      /\ unregisterQ \in [Instances -> Nat] /\ deregistering \in [Instances -> Nat]
  BY DEF TypeOK
<1>1. Leaves(j) => phase[j] = "stopped"
  BY DEF UnregisterInv
<1>2. CASE UNCHANGED <<phase, unregisterQ, deregistering>>
  BY <1>1, <1>2
<1>3. CASE CrashRegistry
  BY <1>0, <1>1, <1>3 DEF CrashRegistry
<1>4. ASSUME NEW i \in Instances, InstanceStep(i)
      PROVE  /\ Leaves(j)' => phase'[j] = "stopped"
             /\ phase[j] = "stopped" => phase'[j] = "stopped"
  <2>1. CASE ClientSetup(i) \/ StopAccepting(i) \/ CrashInstance(i) \/ RegisterService(i)
    BY <1>0, <1>1, <2>1 DEF ClientSetup, StopAccepting, CrashInstance, RegisterService
  <2>2. CASE Unregister(i)
    BY <1>0, <1>1, <2>2 DEF Unregister
  <2>3. CASE \/ OnAmqpReconnect(i) \/ RegisterAgain(i)
             \/ \E isDegraded \in DegradedChecks : SendHeartbeat(i, isDegraded)
    BY <1>2, <2>3 DEF OnAmqpReconnect, RegisterAgain, SendHeartbeat
  <2>. QED  BY <1>4, <2>1, <2>2, <2>3 DEF InstanceStep
<1>5. ASSUME NEW i \in Instances, HandlerStep(i)
      PROVE  /\ Leaves(j)' => phase'[j] = "stopped"
             /\ phase[j] = "stopped" => phase'[j] = "stopped"
  <2>1. CASE UnregisterPublished(i)
    BY <1>0, <1>1, <2>1 DEF UnregisterPublished
  <2>2. ASSUME NEW ok \in Publishing, HandleUnregister(i, ok)
        PROVE  Leaves(j)' => Leaves(j)
    <3>1. /\ unregisterQ[i] > 0 /\ unregisterQ' = [unregisterQ EXCEPT ![i] = unregisterQ[i] - 1]
          /\ \/ UNCHANGED deregistering
             \/ deregistering' = [deregistering EXCEPT ![i] = IF ok THEN @ + 1 ELSE @]
      BY <2>2 DEF HandleUnregister
    <3>. QED  BY <1>0, <3>1
  <2>3. ASSUME NEW ok \in Publishing, HandleUnregister(i, ok) PROVE UNCHANGED phase
    BY <2>3 DEF HandleUnregister
  <2>4. CASE \/ RegisterPublished(i)
             \/ \E ok \in Publishing : HandleRegister(i, ok) \/ HandleHeartbeat(i, ok)
    BY <1>2, <2>4 DEF RegisterPublished, HandleRegister, HandleHeartbeat
  <2>. QED  BY <1>1, <1>5, <2>1, <2>2, <2>3, <2>4 DEF HandlerStep
<1>6. CASE MonitorStep \/ Tick \/ GraceEnds \/ RestartRegistry \/ UNCHANGED vars
  BY <1>2, <1>6 DEF MonitorStep, MonitorStart, MonitorEnd, MonitorService, MonitorRefresh, Tick,
       GraceEnds, RestartRegistry, vars
<1>. QED  BY <1>3, <1>4, <1>5, <1>6 DEF Next

\* A refresh announces what it tracks, unless that is the first status of an instance
\* whose registration is being announced.
LEMMA NextTrackInv == TypeOK /\ UnregisterInv /\ TrackInv /\ [Next]_vars => TrackInv'
<1> SUFFICES ASSUME TypeOK, UnregisterInv, TrackInv, [Next]_vars, ~PublishFails,
                    NEW j \in services', phase'[j] # "stopped"
             PROVE  /\ tracked'[j] = "none" => registering'[j] > 0
                    /\ registering'[j] = 0 /\ tracked'[j] \in {"active", "degraded"} =>
                         view'[j] = tracked'[j]
  BY DEF TrackInv
<1> DEFINE Told(i) ==
             /\ tracked[i] = "none" => registering[i] > 0
             /\ registering[i] = 0 /\ tracked[i] \in {"active", "degraded"} => view[i] = tracked[i]
<1>0. /\ services \subseteq Instances /\ crashes \in Nat
      /\ registering \in [Instances -> Nat] /\ deregistering \in [Instances -> Nat]
      /\ tracked \in [Instances -> Statuses \cup {"none"}]
      /\ view \in [Instances -> Statuses \cup {"none"}]
  BY DEF TypeOK
<1>1. j \in Instances => phase[j] # "stopped"
  BY NextUnregisterInv
<1>2. j \in services => Told(j)
  BY <1>0, <1>1 DEF TrackInv
<1> HIDE DEF Told
<1> SUFFICES Told(j)'
  BY DEF Told
<1>3. CASE UNCHANGED <<crashes, services, tracked, registering, deregistering, view>>
  BY <1>2, <1>3 DEF Told
<1>4. CASE CrashRegistry
  BY <1>4 DEF CrashRegistry
<1>5. ASSUME NEW i \in Instances, RegisterPublished(i) PROVE Told(j)'
  <2>1. /\ UNCHANGED <<crashes, services, view>> /\ tracked' = [tracked EXCEPT ![i] = "down"]
        /\ registering' = [registering EXCEPT ![i] = @ - 1]
    BY <1>5 DEF RegisterPublished, TrackRegistered, process
  <2>2. CASE j = i
    BY <1>0, <2>1, <2>2 DEF Told
  <2>3. CASE j # i
    BY <1>0, <1>2, <2>1, <2>3 DEF Told
  <2>. QED  BY <2>2, <2>3
<1>6. ASSUME NEW i \in Instances, UnregisterPublished(i) PROVE Told(j)'
  <2>1. /\ UNCHANGED <<crashes, services, view, registering>> /\ deregistering[i] > 0
        /\ tracked' = [tracked EXCEPT ![i] = "none"]
    BY <1>6 DEF UnregisterPublished, process
  <2>2. j # i
    BY <1>1, <2>1 DEF UnregisterInv
  <2>. QED  BY <1>0, <1>2, <2>1, <2>2 DEF Told
<1>7. ASSUME NEW i \in Instances, NEW ok \in Publishing, HandleRegister(i, ok) PROVE Told(j)'
  <2>0. ok = TRUE
    BY DEF Publishing
  <2>1. /\ UNCHANGED <<crashes, tracked>> /\ services' = services \cup {i}
        /\ view' = [view EXCEPT ![i] = "down"]
        /\ registering' = [registering EXCEPT ![i] = registering[i] + 1]
    BY <1>7, <2>0 DEF HandleRegister, process
  <2>2. CASE j = i
    <3>1. registering'[j] = registering[i] + 1 /\ registering[i] \in Nat
      BY <1>0, <2>1, <2>2
    <3>2. registering'[j] > 0 /\ registering'[j] # 0
      BY <3>1
    <3>. QED  BY <3>2 DEF Told
  <2>3. CASE j # i
    BY <1>0, <1>2, <2>1, <2>3 DEF Told
  <2>. QED  BY <2>2, <2>3
<1>8. ASSUME NEW i \in Instances, NEW ok \in Publishing, HandleUnregister(i, ok) PROVE Told(j)'
  <2>1. /\ UNCHANGED <<crashes, tracked, registering>> /\ services' = services \ {i}
    BY <1>8 DEF HandleUnregister, process
  <2>2. j # i /\ j \in services /\ view'[j] = view[j]
    BY <1>0, <1>8, <2>1 DEF HandleUnregister
  <2>. QED  BY <1>0, <1>2, <2>1, <2>2 DEF Told
<1>9. ASSUME NEW i \in Instances, NEW ok \in Publishing, HandleHeartbeat(i, ok) \/ MonitorRefresh(i, ok)
      PROVE  Told(j)'
  <2>1. UNCHANGED <<crashes, services, registering, deregistering>>
    BY <1>9, RefreshStep
  <2>2. CASE UNCHANGED <<tracked, view>>
    BY <1>3, <2>1, <2>2
  <2>3. ASSUME i \in services, NEW new \in Statuses, Refresh(i, new, TRUE) PROVE Told(j)'
    <3>1. Told(j)
      BY <1>2, <2>1
    <3>2. CASE j = i
      <4>1. /\ tracked'[i] = new /\ new # "none"
            /\ view'[i] = IF tracked[i] \notin {"none", new} THEN new ELSE view[i]
        BY <2>3, RefreshedView
      <4>. QED  BY <2>1, <3>1, <3>2, <4>1 DEF Told
    <3>3. CASE j # i
      <4>1. tracked'[j] = tracked[j] /\ view'[j] = view[j]
        BY <1>0, <2>1, <2>3, <3>3, RefreshedView
      <4>. QED  BY <2>1, <3>1, <4>1 DEF Told
    <3>. QED  BY <3>2, <3>3
  <2>. QED  BY <1>9, <2>2, <2>3, RefreshStep
<1>. QED  BY <1>3, <1>4, <1>5, <1>6, <1>7, <1>8, <1>9, NextCases

\* While events can be published, a live status that the registry tracks for an
\* instance that has not unregistered is the one it has announced, however
\* registrations, heartbeats, monitoring rounds and crashes of the registry interleave
\* and in whatever order its three queues are read.
THEOREM LiveStatusAnnounced == Spec => [](~PublishFails => LiveStatusIsAnnounced)
<1>1. Init => UnregisterInv /\ TrackInv
  BY DEF Init, UnregisterInv, TrackInv
<1>2. TypeOK /\ TrackInv => (~PublishFails => LiveStatusIsAnnounced)
  BY DEF TrackInv, LiveStatusIsAnnounced, Quiet, TypeOK
<1>. QED  BY <1>1, <1>2, TypeCorrect, NextUnregisterInv, NextTrackInv, PTL DEF Spec
=============================================================================
