------------------------- MODULE EventDeliveryProofs -------------------------
(* Proofs about EventDelivery, for every set of instances and events, every   *)
(* routing, prefetch and max_attempts: the in-flight counter is exact, a clean *)
(* stop holds nothing, a one-off handler runs once, and the consumers and      *)
(* queues implement EventPromise, so that fates are final; how often a work     *)
(* event's handler runs is bounded by max_attempts and the losses.              *)
EXTENDS EventDelivery, FiniteSetTheorems, TLAPS

-----------------------------------------------------------------------------
(* The inductive invariant *)

Open == {"unsent", "queued", "delayed", "arrived", "running"}

\* An event that may still be delivered has an attempt left: the delivery that
\* would be one too many is dead-lettered instead.
AttemptLeft == \A m \in Messages : place[m] \in Open => failures[m] < MaxAttempts

\* An unacknowledged event is held by an instance that has not closed, and one
\* that came through an instance's own queue by that instance; consume_message
\* has seen every delivery once basic.cancel is answered.
HeldWhereOpen ==
  \A m \in Messages : place[m] \in {"arrived", "running"} =>
    /\ holder[m] \in Instances
    /\ Home[m] \in {Shared, holder[m]}
    /\ phase[holder[m]] \in {"running", "stopping", "cancelling", "draining", "forcing"}
    /\ place[m] = "arrived" => phase[holder[m]] \in {"running", "stopping", "cancelling"}

\* clean is only set at the end of the drain.
CleanAfterDrain ==
  \A i \in Instances : clean[i] => phase[i] \in {"forcing", "closed", "crashed"}

\* A one-off event that may still be handed to a handler has not been yet.
FirstRun ==
  \A m \in OneOff :
    /\ starts[m] <= 1
    /\ place[m] \in Open \ {"running"} => starts[m] = 0

Inv ==
  /\ TypeOK
  /\ AttemptLeft
  /\ HeldWhereOpen
  /\ CleanAfterDrain
  /\ FirstRun
  /\ InFlightIsExact
  /\ CleanStopHoldsNothing

-----------------------------------------------------------------------------
(* Counting the handlers of an instance *)

\* What an instance holds, and runs, is finite, so both can be counted.
LEMMA HeldFinite ==
  ASSUME NEW i
  PROVE  /\ IsFiniteSet(Held(i)) /\ IsFiniteSet(Running(i))
         /\ Cardinality(Running(i)) \in Nat
<1>1. Held(i) \in SUBSET Messages /\ Running(i) \in SUBSET Messages
  BY DEF Held, Running
<1>2. IsFiniteSet(Held(i)) /\ IsFiniteSet(Running(i))
  BY <1>1, FS_Subset, QueuesAssumption
<1>. QED  BY <1>2, FS_CardinalityType

\* Running(i) without the detour through Held(i).
LEMMA RunningIs ==
  ASSUME NEW i
  PROVE  /\ Running(i) = {m \in Messages : place[m] = "running" /\ holder[m] = i}
         /\ Running(i)' = {m \in Messages : place'[m] = "running" /\ holder'[m] = i}
BY DEF Running, Held

\* A step that neither starts nor ends a handler of i leaves their number.
LEMMA SameHandlers ==
  ASSUME NEW i,
         \A m \in Messages : (place'[m] = "running" /\ holder'[m] = i)
                               <=> (place[m] = "running" /\ holder[m] = i)
  PROVE  Running(i)' = Running(i)
BY RunningIs

\* Handle adds one handler to i's.
LEMMA OneMoreHandler ==
  ASSUME NEW i, NEW m \in Messages, m \notin Running(i),
         \A n \in Messages : (place'[n] = "running" /\ holder'[n] = i)
                               <=> (n = m \/ (place[n] = "running" /\ holder[n] = i))
  PROVE  Cardinality(Running(i))' = Cardinality(Running(i)) + 1
<1>1. Running(i)' = Running(i) \cup {m}
  BY RunningIs
<1>2. Cardinality(Running(i) \cup {m}) = Cardinality(Running(i)) + 1
  BY HeldFinite, FS_AddElement
<1>. QED  BY <1>1, <1>2

\* A handler that ends leaves one fewer.
LEMMA OneLessHandler ==
  ASSUME NEW i, NEW m \in Messages, m \in Running(i),
         \A n \in Messages : (place'[n] = "running" /\ holder'[n] = i)
                               <=> (n # m /\ place[n] = "running" /\ holder[n] = i)
  PROVE  /\ Cardinality(Running(i))' = Cardinality(Running(i)) - 1
         /\ Cardinality(Running(i)) > 0
<1>1. Running(i)' = Running(i) \ {m}
  BY RunningIs
<1>2. Cardinality(Running(i) \ {m}) = Cardinality(Running(i)) - 1
  BY HeldFinite, FS_RemoveElement
<1>3. Cardinality(Running(i)) # 0
  BY HeldFinite, FS_EmptySet
<1>. QED  BY <1>1, <1>2, <1>3, HeldFinite

\* No handler is counted where none runs.
LEMMA NoHandlers ==
  ASSUME NEW i
  PROVE  /\ Running(i) = {} <=> Cardinality(Running(i)) = 0
         /\ (\A m \in Messages : ~(place'[m] = "running" /\ holder'[m] = i))
              => Cardinality(Running(i))' = 0
<1>1. Running(i) = {} <=> Cardinality(Running(i)) = 0
  BY HeldFinite, FS_EmptySet
<1>2. ASSUME \A m \in Messages : ~(place'[m] = "running" /\ holder'[m] = i)
      PROVE  Cardinality(Running(i))' = 0
  <2>1. Running(i)' = {}
    BY <1>2, RunningIs
  <2>. QED  BY <2>1, FS_EmptySet
<1>. QED  BY <1>1, <1>2

-----------------------------------------------------------------------------
(* The invariant holds initially and is preserved by every action *)

\* No event is out and no handler runs at the start.
LEMMA InitInv == Init => Inv
<1> SUFFICES ASSUME Init PROVE Inv
  OBVIOUS
<1> USE QueuesAssumption, LimitsAssumption DEF Init
<1>1. TypeOK
  <2>1. /\ place \in [Messages -> Places] /\ failures \in [Messages -> 0..MaxAttempts]
        /\ holder \in [Messages -> Instances \cup {None}] /\ starts \in [Messages -> Nat]
        /\ losses \in 0..MaxLosses
    BY DEF Places
  <2>2. /\ phase \in [Instances -> Phases] /\ inFlight \in [Instances -> Nat]
        /\ orphans \in [Instances -> Nat] /\ reporting \in [Instances -> Nat]
    BY DEF Phases
  <2>3. declared \in BOOLEAN /\ clean \in [Instances -> BOOLEAN]
    BY Zenon
  <2>. QED  BY <2>1, <2>2, <2>3 DEF TypeOK
<1>2. AttemptLeft /\ HeldWhereOpen /\ CleanAfterDrain /\ FirstRun
  BY DEF AttemptLeft, Open, HeldWhereOpen, CleanAfterDrain, FirstRun, OneOff, Work
<1>3. ASSUME NEW i \in Instances PROVE Held(i) = {} /\ Running(i) = {}
  BY DEF Held, Running
<1>4. InFlightIsExact
  BY <1>3, FS_EmptySet DEF InFlightIsExact
<1>5. CleanStopHoldsNothing
  BY <1>3 DEF CleanStopHoldsNothing
<1>. QED  BY <1>1, <1>2, <1>4, <1>5 DEF Inv

\* Steps of an instance's lifecycle that touch no event and no handler.
LEMMA LifecycleInv ==
  ASSUME Inv, NEW i \in Instances,
         Start(i) \/ BeginStop(i) \/ CancelConsumer(i) \/ BeginForceClose(i)
  PROVE  Inv'
<1> USE QueuesAssumption, LimitsAssumption
<1> DEFINE Step == Start(i) \/ BeginStop(i) \/ CancelConsumer(i) \/ BeginForceClose(i)
<1>0. /\ TypeOK /\ Step
      /\ UNCHANGED <<place, failures, holder, inFlight, orphans, reporting, starts, losses>>
  BY DEF Inv, Start, BeginStop, CancelConsumer, BeginForceClose, bvars, hvars
<1>1. TypeOK'
  BY <1>0 DEF TypeOK, Phases, Start, BeginStop, CancelConsumer, BeginForceClose, bvars, hvars,
              Drained, GraceExpires
<1>2. AttemptLeft' /\ FirstRun'
  BY <1>0 DEF Inv, AttemptLeft, FirstRun, OneOff, Work
<1>3. HeldWhereOpen'
  <2> SUFFICES ASSUME NEW m \in Messages, place[m] \in {"arrived", "running"}
               PROVE  /\ holder[m] \in Instances
                      /\ Home[m] \in {Shared, holder[m]}
                      /\ phase'[holder[m]] \in
                           {"running", "stopping", "cancelling", "draining", "forcing"}
                      /\ place[m] = "arrived" =>
                           phase'[holder[m]] \in {"running", "stopping", "cancelling"}
    BY <1>0, Zenon DEF HeldWhereOpen
  <2>1. /\ holder[m] \in Instances /\ Home[m] \in {Shared, holder[m]}
        /\ phase[holder[m]] \in {"running", "stopping", "cancelling", "draining", "forcing"}
        /\ place[m] = "arrived" => phase[holder[m]] \in {"running", "stopping", "cancelling"}
    BY DEF Inv, HeldWhereOpen
  <2>. QED  BY <1>0, <2>1 DEF TypeOK, Start, BeginStop, CancelConsumer, BeginForceClose,
                            Drained, GraceExpires
<1>4. CleanAfterDrain'
  BY <1>0 DEF Inv, TypeOK, CleanAfterDrain, Start, BeginStop, CancelConsumer, BeginForceClose,
              Drained, GraceExpires
<1>5. \A j \in Instances : Running(j)' = Running(j) /\ Held(j)' = Held(j)
  BY <1>0 DEF Running, Held
<1>6. InFlightIsExact'
  BY <1>0, <1>5 DEF Inv, InFlightIsExact
<1>7. CleanStopHoldsNothing'
  <2> SUFFICES ASSUME NEW j \in Instances, clean'[j], phase'[j] \in {"forcing", "closed"}
               PROVE  Held(j) = {} /\ orphans[j] = 0 /\ reporting[j] = 0
    BY <1>0, <1>5 DEF CleanStopHoldsNothing
  <2>1. CASE clean[j] /\ phase[j] \in {"forcing", "closed"}
    BY <2>1 DEF Inv, CleanStopHoldsNothing
  <2>2. CASE ~(clean[j] /\ phase[j] \in {"forcing", "closed"})
    <3>1. j = i /\ phase[i] = "draining" /\ inFlight[i] = 0
      BY <1>0, <2>2 DEF Inv, TypeOK, CleanAfterDrain, Start, BeginStop, CancelConsumer,
                        BeginForceClose, Drained, GraceExpires
    <3>2. Cardinality(Running(i)) = 0 /\ orphans[i] = 0 /\ reporting[i] = 0
      <4>1. 0 = Cardinality(Running(i)) + orphans[i] + reporting[i]
        BY <3>1 DEF Inv, InFlightIsExact
      <4>2. Cardinality(Running(i)) \in Nat /\ orphans[i] \in Nat /\ reporting[i] \in Nat
        BY <1>0, HeldFinite DEF TypeOK
      <4>. QED  BY <4>1, <4>2
    <3>3. Running(i) = {}
      BY <3>2, NoHandlers
    <3>4. Held(i) = {}
      BY <1>0, <3>1, <3>3 DEF Inv, HeldWhereOpen, Held, Running
    <3>. QED  BY <3>1, <3>2, <3>4
  <2>. QED  BY <2>1, <2>2
<1>. QED  BY <1>1, <1>2, <1>3, <1>4, <1>6, <1>7 DEF Inv

\* Steps of the broker and of consume_message that start and end no handler.
LEMMA QueueInv ==
  ASSUME Inv,
         \/ \E m \in Messages : Publish(m) \/ DelayEnds(m) \/ DeadLetter(m)
         \/ \E i \in Instances, m \in Messages : Deliver(i, m) \/ GiveBack(i, m)
  PROVE  Inv'
<1> USE QueuesAssumption, LimitsAssumption
<1>1. PICK m \in Messages, i \in Instances \cup {None} :
        /\ \/ Publish(m) \/ DelayEnds(m) \/ DeadLetter(m)
           \/ i \in Instances /\ (Deliver(i, m) \/ GiveBack(i, m))
  BY Zenon
<1>0. /\ TypeOK
      /\ UNCHANGED <<failures, declared, phase, inFlight, orphans, reporting, clean, starts, losses>>
  BY <1>1 DEF Inv, Publish, DelayEnds, DeadLetter, Deliver, GiveBack, ivars, hvars
<1>2. PICK p \in Places \ {"running"}, h \in Instances \cup {None} :
        /\ place' = [place EXCEPT ![m] = p] /\ holder' = [holder EXCEPT ![m] = h]
        /\ place[m] \in {"unsent", "queued", "delayed", "arrived", "dead"}
        /\ p \in Open => place[m] \in Open
        /\ p = "arrived" => i \in Instances /\ h = i /\ Home[m] \in {Shared, i} /\ Consuming(i)
  BY <1>0, <1>1 DEF TypeOK, Publish, DelayEnds, DeadLetter, Deliver, GiveBack, Places, Open
<1>3. TypeOK'
  BY <1>0, <1>2 DEF TypeOK
<1>4. AttemptLeft'
  BY <1>0, <1>2 DEF Inv, TypeOK, AttemptLeft
<1>5. HeldWhereOpen'
  BY <1>0, <1>2 DEF Inv, TypeOK, HeldWhereOpen, Consuming
<1>6. CleanAfterDrain'
  BY <1>0 DEF Inv, CleanAfterDrain
<1>7. FirstRun'
  BY <1>0, <1>2 DEF Inv, TypeOK, FirstRun, OneOff, Work, Open
<1>8. InFlightIsExact'
  <2> SUFFICES ASSUME NEW j \in Instances PROVE Running(j)' = Running(j)
    BY <1>0 DEF Inv, InFlightIsExact
  <2>. QED  BY <1>0, <1>2, SameHandlers DEF TypeOK
<1>9. CleanStopHoldsNothing'
  <2> SUFFICES ASSUME NEW j \in Instances, clean[j], phase[j] \in {"forcing", "closed"}
               PROVE  Held(j)' = {} /\ orphans[j] = 0 /\ reporting[j] = 0
    BY <1>0 DEF CleanStopHoldsNothing
  <2>1. Held(j) = {} /\ orphans[j] = 0 /\ reporting[j] = 0
    BY DEF Inv, CleanStopHoldsNothing
  <2>2. Held(j)' = {}
    BY <1>0, <1>2, <2>1 DEF TypeOK, Held, Consuming
  <2>. QED  BY <2>1, <2>2
<1>. QED  BY <1>3, <1>4, <1>5, <1>6, <1>7, <1>8, <1>9 DEF Inv

\* consume_message starts a handler.
LEMMA HandleInv ==
  ASSUME Inv, NEW i \in Instances, NEW m \in Messages, Handle(i, m)
  PROVE  Inv'
<1> USE QueuesAssumption, LimitsAssumption DEF Handle, begin
<1>0. TypeOK
  BY DEF Inv
<1>3. TypeOK'
  BY <1>0 DEF TypeOK, Places
<1>4. AttemptLeft' /\ HeldWhereOpen' /\ CleanAfterDrain'
  BY <1>0 DEF Inv, TypeOK, AttemptLeft, HeldWhereOpen, CleanAfterDrain, Open
<1>5. FirstRun'
  BY <1>0 DEF Inv, TypeOK, FirstRun, OneOff, Work, Open
<1>6. InFlightIsExact'
  <2> SUFFICES ASSUME NEW j \in Instances
               PROVE  inFlight'[j] = Cardinality(Running(j))' + orphans[j] + reporting[j]
    BY DEF InFlightIsExact
  <2>1. /\ inFlight[j] = Cardinality(Running(j)) + orphans[j] + reporting[j]
        /\ Cardinality(Running(j)) \in Nat /\ orphans[j] \in Nat /\ reporting[j] \in Nat
    BY <1>0, HeldFinite DEF Inv, TypeOK, InFlightIsExact
  <2>2. CASE j = i
    <3>1. Cardinality(Running(i))' = Cardinality(Running(i)) + 1
      BY <1>0, OneMoreHandler DEF TypeOK, Running
    <3>. QED  BY <1>0, <2>1, <2>2, <3>1 DEF TypeOK
  <2>3. CASE j # i
    <3>1. Running(j)' = Running(j)
      BY <1>0, <2>3, SameHandlers DEF TypeOK
    <3>. QED  BY <1>0, <2>1, <2>3, <3>1 DEF TypeOK
  <2>. QED  BY <2>2, <2>3
<1>7. CleanStopHoldsNothing'
  BY <1>0 DEF Inv, TypeOK, CleanStopHoldsNothing, CleanAfterDrain, Held
<1>. QED  BY <1>3, <1>4, <1>5, <1>6, <1>7 DEF Inv

\* Where an event is once its handler has ended.
Ended == {"handled", "delayed", "dead", "failed", "dropped"}

\* What every end of a handler does to the event it runs for: acknowledged, or
\* rejected with the attempt counted.
LEMMA RejectMoves ==
  ASSUME TypeOK, AttemptLeft, NEW m \in Messages, place[m] \in Open, Reject(m)
  PROVE  \E p \in Ended, f \in 0..MaxAttempts :
           /\ place' = [place EXCEPT ![m] = p]
           /\ failures' = [failures EXCEPT ![m] = f]
           /\ holder' = [holder EXCEPT ![m] = None]
           /\ p = "delayed" => f < MaxAttempts /\ m \in Work
           /\ UNCHANGED declared
<1> USE LimitsAssumption
<1>1. failures[m] \in Nat /\ failures[m] < MaxAttempts
  BY DEF TypeOK, AttemptLeft
<1>2. CASE m \in Work
  <2> DEFINE p == AfterFailure(m)
  <2>1. p \in Ended /\ failures[m] + 1 \in 0..MaxAttempts
    BY <1>1 DEF AfterFailure, Ended
  <2>2. p = "delayed" => failures[m] + 1 < MaxAttempts
    BY <1>1 DEF AfterFailure, DeliveryLimit
  <2>3. /\ place' = [place EXCEPT ![m] = p] /\ failures' = [failures EXCEPT ![m] = failures[m] + 1]
        /\ holder' = [holder EXCEPT ![m] = None] /\ UNCHANGED declared
    BY <1>2 DEF Reject, TypeOK
  <2> HIDE DEF p
  <2>. QED  BY <1>2, <2>1, <2>2, <2>3
<1>3. CASE m \notin Work
  <2>1. "dropped" \in Ended /\ failures[m] \in 0..MaxAttempts
    BY DEF Ended, TypeOK
  <2>2. /\ place' = [place EXCEPT ![m] = "dropped"]
        /\ failures' = [failures EXCEPT ![m] = failures[m]]
        /\ holder' = [holder EXCEPT ![m] = None] /\ UNCHANGED declared
    BY <1>3 DEF Reject, TypeOK
  <2>. QED  BY <2>1, <2>2
<1>. QED  BY <1>2, <1>3

\* Whatever way a handler ends (it returned, raised, or was cancelled), its event
\* is settled and its scope left or about to be.
LEMMA HandlerEndsInv ==
  ASSUME Inv, NEW i \in Instances, NEW m \in Messages,
         HandlerReturns(i, m) \/ HandlerRaises(i, m) \/ HandlerCancelled(i, m)
  PROVE  Inv'
<1> USE QueuesAssumption, LimitsAssumption
<1>0. /\ TypeOK /\ m \in Running(i) /\ place[m] = "running" /\ holder[m] = i
      /\ UNCHANGED <<declared, phase, orphans, clean, starts, losses>>
  BY DEF Inv, HandlerReturns, HandlerRaises, HandlerCancelled, Reject, Running, Held, hvars
<1>1. PICK p \in Ended, f \in 0..MaxAttempts :
        /\ place' = [place EXCEPT ![m] = p]
        /\ failures' = [failures EXCEPT ![m] = f]
        /\ holder' = [holder EXCEPT ![m] = None]
        /\ p = "delayed" => f < MaxAttempts /\ m \in Work
  <2>1. CASE HandlerReturns(i, m)
    <3>1. "handled" \in Ended /\ failures[m] \in 0..MaxAttempts
      BY <1>0 DEF Ended, TypeOK
    <3>2. /\ place' = [place EXCEPT ![m] = "handled"]
          /\ failures' = [failures EXCEPT ![m] = failures[m]]
          /\ holder' = [holder EXCEPT ![m] = None]
      BY <1>0, <2>1 DEF HandlerReturns, TypeOK
    <3>. QED  BY <3>1, <3>2
  <2>2. CASE HandlerRaises(i, m) \/ HandlerCancelled(i, m)
    BY <1>0, <2>2, RejectMoves DEF Inv, HandlerRaises, HandlerCancelled, Open
  <2>. QED  BY <2>1, <2>2
<1>2. /\ Cardinality(Running(i))' = Cardinality(Running(i)) - 1
      /\ Cardinality(Running(i)) > 0 /\ Cardinality(Running(i)) \in Nat
  BY <1>0, <1>1, OneLessHandler, HeldFinite DEF TypeOK, Ended
<1>3. ASSUME NEW j \in Instances, j # i PROVE Running(j)' = Running(j)
  BY <1>0, <1>1, <1>3, SameHandlers DEF TypeOK, Ended
<1>4. inFlight[i] = Cardinality(Running(i)) + orphans[i] + reporting[i]
  BY DEF Inv, InFlightIsExact
<1>5. \/ inFlight' = [inFlight EXCEPT ![i] = @ - 1] /\ UNCHANGED reporting
      \/ reporting' = [reporting EXCEPT ![i] = @ + 1] /\ UNCHANGED inFlight
  BY DEF HandlerReturns, HandlerRaises, HandlerCancelled, end
<1>6. TypeOK'
  <2>1. inFlight' \in [Instances -> Nat] /\ reporting' \in [Instances -> Nat]
    BY <1>0, <1>2, <1>4, <1>5 DEF TypeOK
  <2>2. /\ place' \in [Messages -> Places] /\ failures' \in [Messages -> 0..MaxAttempts]
        /\ holder' \in [Messages -> Instances \cup {None}]
    BY <1>0, <1>1 DEF TypeOK, Places, Ended
  <2>. QED  BY <1>0, <2>1, <2>2 DEF TypeOK
<1>7. AttemptLeft' /\ HeldWhereOpen' /\ CleanAfterDrain'
  BY <1>0, <1>1 DEF Inv, TypeOK, AttemptLeft, HeldWhereOpen, CleanAfterDrain, Open, Ended
<1>8. FirstRun'
  BY <1>0, <1>1 DEF Inv, TypeOK, FirstRun, OneOff, Work, Open, Ended
<1>9. InFlightIsExact'
  <2> SUFFICES ASSUME NEW j \in Instances
               PROVE  inFlight'[j] = Cardinality(Running(j))' + orphans[j] + reporting'[j]
    BY <1>0 DEF InFlightIsExact
  <2>1. CASE j = i
    BY <1>0, <1>2, <1>4, <1>5, <2>1 DEF TypeOK
  <2>2. CASE j # i
    BY <1>0, <1>3, <1>5, <2>2 DEF Inv, TypeOK, InFlightIsExact
  <2>. QED  BY <2>1, <2>2
<1>10. CleanStopHoldsNothing'
  <2> SUFFICES ASSUME NEW j \in Instances, clean[j], phase[j] \in {"forcing", "closed"}
               PROVE  Held(j)' = {} /\ orphans[j] = 0 /\ reporting'[j] = 0
    BY <1>0 DEF CleanStopHoldsNothing
  <2>1. Held(j) = {} /\ orphans[j] = 0 /\ reporting[j] = 0
    BY DEF Inv, CleanStopHoldsNothing
  <2>2. j # i
    BY <1>0, <2>1 DEF Held
  <2>3. Held(j)' = {} /\ reporting'[j] = reporting[j]
    BY <1>0, <1>1, <1>5, <2>1, <2>2 DEF TypeOK, Held, Ended
  <2>. QED  BY <2>1, <2>3
<1>. QED  BY <1>6, <1>7, <1>8, <1>9, <1>10 DEF Inv

\* A handler whose channel is gone ends, or its exception has been reported: it
\* was counted until then.
LEMMA OrphanInv ==
  ASSUME Inv, NEW i \in Instances, OrphanEnds(i) \/ ReportEnds(i)
  PROVE  Inv'
<1>0. /\ TypeOK
      /\ UNCHANGED <<place, failures, holder, declared, phase, clean, starts, losses>>
  BY DEF Inv, OrphanEnds, ReportEnds, bvars, hvars
<1>1. \A j \in Instances : Running(j)' = Running(j) /\ Held(j)' = Held(j)
  BY <1>0 DEF Running, Held
<1>2. ASSUME NEW j \in Instances
      PROVE  /\ inFlight[j] = Cardinality(Running(j)) + orphans[j] + reporting[j]
             /\ Cardinality(Running(j)) \in Nat
  BY HeldFinite DEF Inv, InFlightIsExact
<1>3. orphans[i] > 0 \/ reporting[i] > 0
  BY DEF OrphanEnds, ReportEnds
<1>4. /\ inFlight' \in [Instances -> Nat] /\ orphans' \in [Instances -> Nat]
      /\ reporting' \in [Instances -> Nat]
  BY <1>0, <1>2 DEF TypeOK, OrphanEnds, ReportEnds, end
<1>5. TypeOK'
  BY <1>0, <1>4 DEF TypeOK
<1>6. AttemptLeft' /\ HeldWhereOpen' /\ CleanAfterDrain' /\ FirstRun'
  BY <1>0 DEF Inv, AttemptLeft, HeldWhereOpen, CleanAfterDrain, FirstRun, OneOff, Work
<1>7. InFlightIsExact'
  <2> SUFFICES ASSUME NEW j \in Instances
               PROVE  inFlight'[j] = Cardinality(Running(j)) + orphans'[j] + reporting'[j]
    BY <1>1 DEF InFlightIsExact
  <2>1. /\ inFlight[j] = Cardinality(Running(j)) + orphans[j] + reporting[j]
        /\ Cardinality(Running(j)) \in Nat /\ orphans[j] \in Nat /\ reporting[j] \in Nat
    BY <1>0, <1>2 DEF TypeOK
  <2>2. CASE OrphanEnds(i)
    BY <1>0, <2>1, <2>2 DEF TypeOK, OrphanEnds
  <2>3. CASE ReportEnds(i)
    BY <1>0, <2>1, <2>3 DEF TypeOK, ReportEnds, end
  <2>. QED  BY <2>2, <2>3
<1>8. CleanStopHoldsNothing'
  <2> SUFFICES ASSUME NEW j \in Instances, clean[j], phase[j] \in {"forcing", "closed"}
               PROVE  Held(j) = {} /\ orphans'[j] = 0 /\ reporting'[j] = 0
    BY <1>0, <1>1 DEF CleanStopHoldsNothing
  <2>1. Held(j) = {} /\ orphans[j] = 0 /\ reporting[j] = 0
    BY DEF Inv, CleanStopHoldsNothing
  <2>2. j # i
    BY <1>3, <2>1
  <2>. QED  BY <1>0, <2>1, <2>2 DEF TypeOK, OrphanEnds, ReportEnds
<1>. QED  BY <1>5, <1>6, <1>7, <1>8 DEF Inv

\* The answer to basic.cancel drops the events still in the instance's queue and
\* starts the drain.
LEMMA CancelledInv ==
  ASSUME Inv, NEW i \in Instances, ConsumerCancelled(i)
  PROVE  Inv'
<1> USE QueuesAssumption, LimitsAssumption
<1>0. /\ TypeOK
      /\ UNCHANGED <<failures, holder, declared, inFlight, orphans, reporting, clean, starts, losses>>
  BY DEF Inv, ConsumerCancelled, hvars
<1>1. /\ phase[i] = "cancelling" /\ phase' = [phase EXCEPT ![i] = "draining"]
      /\ \A m \in Messages : place'[m] = IF Home[m] = i /\ place[m] = "queued"
                                         THEN "dropped" ELSE place[m]
      /\ \A m \in Messages : ~(place[m] = "arrived" /\ holder[m] = i)
  BY DEF ConsumerCancelled, Held, Running
<1>2. TypeOK'
  <2>1. place' \in [Messages -> Places] /\ phase' \in [Instances -> Phases]
    BY <1>0, <1>1 DEF TypeOK, ConsumerCancelled, Places, Phases
  <2>. QED  BY <1>0, <2>1 DEF TypeOK
<1>3. AttemptLeft'
  BY <1>0, <1>1 DEF Inv, TypeOK, AttemptLeft, Open
<1>4. HeldWhereOpen'
  BY <1>0, <1>1 DEF Inv, TypeOK, HeldWhereOpen
<1>5. CleanAfterDrain' /\ FirstRun'
  BY <1>0, <1>1 DEF Inv, TypeOK, CleanAfterDrain, FirstRun, OneOff, Work, Open
<1>6. \A j \in Instances : Running(j)' = Running(j) /\ Held(j)' = Held(j)
  BY <1>0, <1>1 DEF Running, Held
<1>7. InFlightIsExact'
  BY <1>0, <1>6 DEF Inv, InFlightIsExact
<1>8. CleanStopHoldsNothing'
  BY <1>0, <1>1, <1>6 DEF Inv, TypeOK, CleanStopHoldsNothing
<1>. QED  BY <1>2, <1>3, <1>4, <1>5, <1>7, <1>8 DEF Inv

\* What the loss of a connection does at the broker: all that i held is released,
\* its one-off events dropped, work events back in the queue or failed.
LEMMA ReleaseMoves ==
  ASSUME Inv, NEW i \in Instances, ReleaseAll(i)
  PROVE  /\ place' \in [Messages -> Places]
         /\ failures' \in [Messages -> 0..MaxAttempts]
         /\ holder' \in [Messages -> Instances \cup {None}]
         /\ AttemptLeft'
         /\ UNCHANGED declared
         /\ \A m \in Held(i) : place'[m] \notin {"arrived", "running"}
         /\ \A m \in Messages \ Held(i) :
              /\ holder'[m] = holder[m]
              /\ place'[m] = place[m] \/ (place[m] = "queued" /\ place'[m] = "dropped")
         /\ \A m \in OneOff : place'[m] = place[m] \/ place'[m] = "dropped"
<1> USE QueuesAssumption, LimitsAssumption
<1>0. TypeOK /\ AttemptLeft /\ HeldWhereOpen
  BY DEF Inv
<1>1. PICK counted \in SUBSET (Held(i) \cap Work) :
        /\ place' = [m \in Messages |->
             CASE Home[m] = i /\ place[m] \in {"queued", "arrived", "running"} -> "dropped"
               [] m \in counted -> AfterFailure(m)
               [] m \in (Held(i) \cap Work) \ counted -> "queued"
               [] OTHER -> place[m]]
        /\ failures' = [m \in Messages |-> IF m \in counted THEN failures[m] + 1 ELSE failures[m]]
        /\ holder' = [m \in Messages |-> IF m \in Held(i) THEN None ELSE holder[m]]
        /\ UNCHANGED declared
  BY DEF ReleaseAll
<1>2. ASSUME NEW m \in Messages
      PROVE  /\ m \in Work => Home[m] # i
             /\ m \in Held(i) => m \in Work \/ Home[m] = i
             /\ m \in Held(i) <=> place[m] \in {"arrived", "running"} /\ holder[m] = i
             /\ m \in Work <=> m \notin OneOff
  BY <1>0 DEF Work, OneOff, Held, HeldWhereOpen
<1>3. ASSUME NEW m \in counted
      PROVE  /\ m \in Messages /\ m \in Held(i) /\ m \in Work
             /\ failures[m] \in Nat /\ failures[m] < MaxAttempts
             /\ AfterFailure(m) \in {"dead", "delayed"}
             /\ AfterFailure(m) = "delayed" => failures[m] + 1 < MaxAttempts
  BY <1>0 DEF Held, TypeOK, AttemptLeft, Open, AfterFailure, DeliveryLimit
<1>4. ASSUME NEW m \in Messages
      PROVE  place'[m] =
             CASE Home[m] = i /\ place[m] \in {"queued", "arrived", "running"} -> "dropped"
               [] m \in counted -> AfterFailure(m)
               [] m \in (Held(i) \cap Work) \ counted -> "queued"
               [] OTHER -> place[m]
  BY <1>1
<1> HIDE DEF AfterFailure
<1>5. place' \in [Messages -> Places]
  <2>1. \A m \in Messages : place'[m] \in Places
    BY <1>0, <1>3, <1>4 DEF TypeOK, Places
  <2>. QED  BY <1>1, <2>1
<1>6. /\ failures' \in [Messages -> 0..MaxAttempts]
      /\ holder' \in [Messages -> Instances \cup {None}]
  BY <1>0, <1>1, <1>3 DEF TypeOK
<1>7. AttemptLeft'
  BY <1>0, <1>1, <1>3, <1>4 DEF AttemptLeft, Open, Held
<1>8. /\ \A m \in Held(i) : place'[m] \notin {"arrived", "running"}
      /\ \A m \in OneOff : place'[m] = place[m] \/ place'[m] = "dropped"
  BY <1>2, <1>3, <1>4 DEF OneOff, Held
<1>9. \A m \in Messages \ Held(i) :
        /\ holder'[m] = holder[m]
        /\ place'[m] = place[m] \/ (place[m] = "queued" /\ place'[m] = "dropped")
  <2> SUFFICES ASSUME NEW m \in Messages \ Held(i)
               PROVE  /\ holder'[m] = holder[m]
                      /\ place'[m] = place[m] \/ (place[m] = "queued" /\ place'[m] = "dropped")
    OBVIOUS
  <2>1. m \notin counted /\ holder'[m] = holder[m]
    BY <1>1
  <2>2. Home[m] = i /\ place[m] \in {"arrived", "running"} => m \in Held(i)
    BY <1>0 DEF HeldWhereOpen, Held
  <2>3. CASE Home[m] = i /\ place[m] = "queued"
    BY <1>4, <2>1, <2>3
  <2>4. CASE ~(Home[m] = i /\ place[m] = "queued")
    <3>1. ~(Home[m] = i /\ place[m] \in {"queued", "arrived", "running"})
      BY <2>2, <2>4
    <3>. QED  BY <1>4, <2>1, <3>1
  <2>. QED  BY <2>3, <2>4
<1>. QED  BY <1>1, <1>5, <1>6, <1>7, <1>8, <1>9

\* A lost connection, a crash and the close of the connection release all the
\* instance holds; its running handlers go on as orphans, or are gone.
LEMMA ReleaseInv ==
  ASSUME Inv, NEW i \in Instances, ConnectionLost(i) \/ Crash(i) \/ Close(i)
  PROVE  Inv'
<1> USE QueuesAssumption, LimitsAssumption
<1>0. TypeOK /\ ReleaseAll(i) /\ UNCHANGED <<clean, starts>>
  BY DEF Inv, ConnectionLost, Crash, Close, hvars
<1>1. /\ place' \in [Messages -> Places]
      /\ failures' \in [Messages -> 0..MaxAttempts]
      /\ holder' \in [Messages -> Instances \cup {None}]
      /\ AttemptLeft'
      /\ UNCHANGED declared
  BY <1>0, ReleaseMoves
<1>2. /\ \A m \in Held(i) : place'[m] \notin {"arrived", "running"}
      /\ \A m \in Messages \ Held(i) :
           /\ holder'[m] = holder[m]
           /\ place'[m] = place[m] \/ (place[m] = "queued" /\ place'[m] = "dropped")
      /\ \A m \in OneOff : place'[m] = place[m] \/ place'[m] = "dropped"
  BY <1>0, ReleaseMoves
<1>3. ASSUME NEW m \in Messages, place'[m] \in {"arrived", "running"}
      PROVE  /\ place'[m] = place[m] /\ holder'[m] = holder[m]
             /\ holder[m] \in Instances \ {i}
  <2>1. m \notin Held(i)
    BY <1>2, <1>3
  <2>2. place'[m] = place[m] /\ holder'[m] = holder[m]
    BY <1>2, <1>3, <2>1
  <2>. QED  BY <1>3, <2>1, <2>2 DEF Inv, HeldWhereOpen, Held
<1>4. ASSUME NEW m \in Messages, place[m] \in {"arrived", "running"}, holder[m] # i
      PROVE  place'[m] = place[m] /\ holder'[m] = holder[m]
  BY <1>2, <1>4 DEF Held
<1>5. \A j \in Instances \ {i} : phase'[j] = phase[j]
  BY <1>0 DEF TypeOK, ConnectionLost, Crash, Close
<1>6. Held(i)' = {} /\ Cardinality(Running(i))' = 0
  <2>1. \A m \in Messages : ~(place'[m] \in {"arrived", "running"} /\ holder'[m] = i)
    BY <1>3
  <2>2. Cardinality(Running(i))' = 0
    BY <2>1, NoHandlers
  <2>. QED  BY <2>1, <2>2 DEF Held
<1>7. ASSUME NEW j \in Instances \ {i}
      PROVE  Held(j)' = Held(j) /\ Running(j)' = Running(j)
  BY <1>3, <1>4 DEF Held, Running
<1>8. TypeOK'
  <2>1. phase' \in [Instances -> Phases] /\ losses' \in 0..MaxLosses
    BY <1>0 DEF TypeOK, Phases, ConnectionLost, Crash, Close, hvars
  <2>2. Cardinality(Running(i)) \in Nat
    BY HeldFinite
  <2>3. /\ inFlight' \in [Instances -> Nat] /\ orphans' \in [Instances -> Nat]
        /\ reporting' \in [Instances -> Nat]
    BY <1>0, <2>2 DEF TypeOK, ConnectionLost, Crash, Close
  <2>. QED  BY <1>0, <1>1, <2>1, <2>3 DEF TypeOK
<1>9. HeldWhereOpen'
  <2> SUFFICES ASSUME NEW m \in Messages, place'[m] \in {"arrived", "running"}
               PROVE  /\ holder'[m] \in Instances
                      /\ Home[m] \in {Shared, holder'[m]}
                      /\ phase'[holder'[m]] \in
                           {"running", "stopping", "cancelling", "draining", "forcing"}
                      /\ place'[m] = "arrived" =>
                           phase'[holder'[m]] \in {"running", "stopping", "cancelling"}
    BY Zenon DEF HeldWhereOpen
  <2>1. /\ place'[m] = place[m] /\ holder'[m] = holder[m] /\ holder[m] \in Instances \ {i}
        /\ phase'[holder[m]] = phase[holder[m]]
    BY <1>3, <1>5
  <2>. QED  BY <2>1 DEF Inv, HeldWhereOpen
<1>10. CleanAfterDrain' /\ FirstRun'
  <2>1. CleanAfterDrain'
    BY <1>0 DEF Inv, TypeOK, CleanAfterDrain, ConnectionLost, Crash, Close
  <2>2. FirstRun'
    BY <1>0, <1>2 DEF Inv, TypeOK, FirstRun, Open
  <2>. QED  BY <2>1, <2>2
<1>11. InFlightIsExact'
  <2> SUFFICES ASSUME NEW j \in Instances
               PROVE  inFlight'[j] = Cardinality(Running(j))' + orphans'[j] + reporting'[j]
    BY DEF InFlightIsExact
  <2>1. /\ inFlight[j] = Cardinality(Running(j)) + orphans[j] + reporting[j]
        /\ Cardinality(Running(j)) \in Nat /\ orphans[j] \in Nat /\ reporting[j] \in Nat
    BY <1>0, HeldFinite DEF Inv, TypeOK, InFlightIsExact
  <2>2. CASE j # i
    BY <1>0, <1>7, <2>1, <2>2 DEF TypeOK, ConnectionLost, Crash, Close
  <2>3. CASE j = i /\ ConnectionLost(i)
    BY <1>0, <1>6, <2>1, <2>3 DEF TypeOK, ConnectionLost
  <2>4. CASE j = i /\ Crash(i)
    BY <1>0, <1>6, <2>4 DEF TypeOK, Crash
  <2>5. CASE j = i /\ Close(i)
    <3>1. Cardinality(Running(i)) = 0
      BY <2>5, NoHandlers DEF Close
    <3>. QED  BY <1>6, <2>1, <2>5, <3>1 DEF Close
  <2>. QED  BY <2>2, <2>3, <2>4, <2>5
<1>12. CleanStopHoldsNothing'
  <2> SUFFICES ASSUME NEW j \in Instances, clean[j], phase'[j] \in {"forcing", "closed"}
               PROVE  Held(j)' = {} /\ orphans'[j] = 0 /\ reporting'[j] = 0
    BY <1>0 DEF CleanStopHoldsNothing
  <2>1. CASE j # i
    <3>1. Held(j) = {} /\ orphans[j] = 0 /\ reporting[j] = 0
      BY <1>5, <2>1 DEF Inv, CleanStopHoldsNothing
    <3>. QED  BY <1>0, <1>7, <2>1, <3>1 DEF TypeOK, ConnectionLost, Crash, Close
  <2>2. CASE j = i
    <3>1. ~ConnectionLost(i) /\ ~Crash(i)
      BY <1>0, <2>2 DEF Inv, CleanAfterDrain, TypeOK, ConnectionLost, Crash
    <3>. QED  BY <1>6, <2>2, <3>1 DEF Close
  <2>. QED  BY <2>1, <2>2
<1>. QED  BY <1>1, <1>8, <1>9, <1>10, <1>11, <1>12 DEF Inv

-----------------------------------------------------------------------------
(* Theorems *)

\* Every step of the service, its shutdown and the broker preserves the invariant.
LEMMA NextInv == Inv /\ [Next]_vars => Inv'
<1> SUFFICES ASSUME Inv, [Next]_vars PROVE Inv'
  OBVIOUS
<1>1. CASE UNCHANGED vars \/ Done
  <2>1. UNCHANGED vars
    BY <1>1 DEF Done
  <2>. QED  BY <2>1 DEF vars, bvars, ivars, hvars, Inv, TypeOK, AttemptLeft, HeldWhereOpen,
               CleanAfterDrain, FirstRun, OneOff, Work, InFlightIsExact, CleanStopHoldsNothing,
               Held, Running
<1>2. CASE \E m \in Messages : Publish(m) \/ BrokerStep(m)
  BY <1>2, QueueInv DEF BrokerStep
<1>3. ASSUME NEW i \in Instances,
             \/ Start(i) \/ HandlerStep(i) \/ BeginStop(i) \/ StopStep(i)
             \/ ConnectionLost(i) \/ Crash(i)
             \/ \E m \in Messages : Deliver(i, m)
      PROVE  Inv'
  <2>1. CASE Start(i) \/ BeginStop(i)
    BY <2>1, LifecycleInv
  <2>2. CASE StopStep(i)
    BY <2>2, LifecycleInv, CancelledInv, ReleaseInv DEF StopStep
  <2>3. CASE ConnectionLost(i) \/ Crash(i)
    BY <2>3, ReleaseInv
  <2>4. CASE \E m \in Messages : Deliver(i, m) \/ GiveBack(i, m)
    BY <2>4, QueueInv
  <2>5. CASE HandlerStep(i)
    <3>1. CASE OrphanEnds(i) \/ ReportEnds(i)
      BY <3>1, OrphanInv
    <3>2. CASE \E m \in Messages : Handle(i, m)
      BY <3>2, HandleInv
    <3>3. CASE \E m \in Messages :
                 HandlerReturns(i, m) \/ HandlerRaises(i, m) \/ HandlerCancelled(i, m)
      BY <3>3, HandlerEndsInv
    <3>. QED  BY <2>4, <2>5, <3>1, <3>2, <3>3 DEF HandlerStep
  <2>. QED  BY <1>3, <2>1, <2>2, <2>3, <2>4, <2>5
<1>. QED  BY <1>1, <1>2, <1>3 DEF Next

\* The inductive invariant, the type invariant with it, holds in every behaviour.
THEOREM InvHolds == Spec => []Inv
BY InitInv, NextInv, PTL DEF Spec

\* WorkInFlight counts exactly the handlers between the two ends of their scope,
\* whatever way they leave it: returned, raised, cancelled or their channel lost.
THEOREM InFlightExact == Spec => []InFlightIsExact
<1>1. Inv => InFlightIsExact
  BY DEF Inv
<1>. QED  BY <1>1, InvHolds, PTL

\* After a drain that ended in time, force_close finds nothing to cancel and the
\* connection closes with nothing unacknowledged.
THEOREM CleanStop == Spec => []CleanStopHoldsNothing
<1>1. Inv => CleanStopHoldsNothing
  BY DEF Inv
<1>. QED  BY <1>1, InvHolds, PTL

\* A broadcast or in_session handler runs at most once per event.
THEOREM OneOffOnce == Spec => []OneOffRunsOnce
<1>1. Inv => OneOffRunsOnce
  BY DEF Inv, FirstRun, OneOffRunsOnce
<1>. QED  BY <1>1, InvHolds, PTL

-----------------------------------------------------------------------------
(* EventDelivery implements EventPromise *)

\* An event is pending while it is open and has been published.
LEMMA PendingIs ==
  ASSUME TypeOK, NEW m \in Messages
  PROVE  /\ PromisedState(m) = "pending" <=> place[m] \in Open \ {"unsent"}
         /\ PromisedState(m) = "unsent" <=> place[m] = "unsent"
BY DEF TypeOK, Places, Open, PromisedState

\* Every event is one of EventPromise's.
LEMMA EventsAre == P!Events = Messages /\ Work \cap OneOff = {} /\ Work \cup OneOff = Messages
BY DEF P!Events, Work, OneOff

\* Deliveries that fail together are a Fail of EventPromise.
LEMMA FailIsPromised ==
  ASSUME TypeOK, NEW failed \in SUBSET Work, NEW given_up \in SUBSET OneOff,
         \A m \in failed \cup given_up : place[m] \in Open \ {"unsent"},
         failures' = [m \in Messages |-> IF m \in failed THEN failures[m] + 1 ELSE failures[m]],
         \A m \in Messages : PromisedState(m)' =
           IF m \in given_up THEN "dropped"
           ELSE IF m \in failed /\ failures[m] + 1 = MaxAttempts THEN "retained"
           ELSE PromisedState(m)
  PROVE  P!PNext
<1>1. P!Fail(failed, given_up)
  <2>1. failed \subseteq Work \cap P!Pending /\ given_up \subseteq OneOff \cap P!Pending
    BY EventsAre, PendingIs DEF P!Pending
  <2>2. failures' = [m \in P!Events |-> IF m \in failed THEN failures[m] + 1 ELSE failures[m]]
    BY EventsAre
  <2>3. [m \in Messages |-> PromisedState(m)]' =
        [m \in P!Events |->
           CASE m \in given_up -> "dropped"
             [] m \in failed /\ failures'[m] = MaxAttempts -> "retained"
             [] OTHER -> [n \in Messages |-> PromisedState(n)][m]]
    BY EventsAre
  <2>. QED  BY <2>1, <2>2, <2>3 DEF P!Fail
<1>. QED  BY <1>1 DEF P!PNext

\* A rejection, by a handler that raised or was cancelled, is a failure.
LEMMA RejectIsPromised ==
  ASSUME Inv, NEW m \in Messages, place[m] = "running", Reject(m)
  PROVE  P!PNext
<1> USE LimitsAssumption
<1>0. TypeOK /\ failures[m] \in Nat /\ failures[m] < MaxAttempts
  BY DEF Inv, AttemptLeft, Open, TypeOK
<1>1. ASSUME NEW n \in Messages, n # m PROVE PromisedState(n)' = PromisedState(n)
  BY <1>0, <1>1 DEF TypeOK, Reject, PromisedState
<1>2. CASE m \in Work
  <2>1. PromisedState(m)' = IF failures[m] + 1 = MaxAttempts THEN "retained" ELSE PromisedState(m)
    BY <1>0, <1>2 DEF TypeOK, Reject, AfterFailure, DeliveryLimit, PromisedState
  <2>2. failures' = [n \in Messages |-> IF n \in {m} THEN failures[n] + 1 ELSE failures[n]]
    BY <1>0, <1>2 DEF Reject, TypeOK
  <2>3. {m} \in SUBSET Work /\ {} \in SUBSET OneOff
    BY <1>2
  <2>4. \A n \in {m} \cup {} : place[n] \in Open \ {"unsent"}
    BY DEF Open
  <2>5. \A n \in Messages : PromisedState(n)' =
          IF n \in {} THEN "dropped"
          ELSE IF n \in {m} /\ failures[n] + 1 = MaxAttempts THEN "retained"
          ELSE PromisedState(n)
    BY <1>1, <2>1
  <2>. QED  BY <1>0, <2>2, <2>3, <2>4, <2>5, FailIsPromised
<1>3. CASE m \in OneOff
  <2>1. PromisedState(m)' = "dropped"
    BY <1>0, <1>3 DEF TypeOK, Reject, OneOff, PromisedState
  <2>2. failures' = [n \in Messages |-> IF n \in {} THEN failures[n] + 1 ELSE failures[n]]
    BY <1>0, <1>3 DEF Reject, TypeOK, OneOff
  <2>3. {} \in SUBSET Work /\ {m} \in SUBSET OneOff
    BY <1>3
  <2>4. \A n \in {} \cup {m} : place[n] \in Open \ {"unsent"}
    BY DEF Open
  <2>5. \A n \in Messages : PromisedState(n)' =
          IF n \in {m} THEN "dropped"
          ELSE IF n \in {} /\ failures[n] + 1 = MaxAttempts THEN "retained"
          ELSE PromisedState(n)
    BY <1>1, <2>1
  <2>. QED  BY <1>0, <2>2, <2>3, <2>4, <2>5, FailIsPromised
<1>. QED  BY <1>2, <1>3, EventsAre

\* A connection that goes away fails the deliveries the broker counts and gives
\* up the one-off events of the instance's own queue.
LEMMA ReleaseIsPromised ==
  ASSUME Inv, NEW i \in Instances, ReleaseAll(i)
  PROVE  P!PNext
<1> USE QueuesAssumption, LimitsAssumption
<1>0. TypeOK /\ AttemptLeft /\ HeldWhereOpen
  BY DEF Inv
<1>1. PICK counted \in SUBSET (Held(i) \cap Work) :
        /\ place' = [m \in Messages |->
             CASE Home[m] = i /\ place[m] \in {"queued", "arrived", "running"} -> "dropped"
               [] m \in counted -> AfterFailure(m)
               [] m \in (Held(i) \cap Work) \ counted -> "queued"
               [] OTHER -> place[m]]
        /\ failures' = [m \in Messages |-> IF m \in counted THEN failures[m] + 1 ELSE failures[m]]
  BY DEF ReleaseAll
<1> DEFINE given_up == {m \in Messages : Home[m] = i /\ place[m] \in {"queued", "arrived", "running"}}
<1>2. counted \in SUBSET Work /\ given_up \in SUBSET OneOff
  BY DEF Work, OneOff
<1>3. \A m \in counted \cup given_up : place[m] \in Open \ {"unsent"}
  BY DEF Held, Open
<1>4. ASSUME NEW m \in Messages
      PROVE  PromisedState(m)' =
               IF m \in given_up THEN "dropped"
               ELSE IF m \in counted /\ failures[m] + 1 = MaxAttempts THEN "retained"
               ELSE PromisedState(m)
  <2>1. CASE m \in given_up
    <3>1. m \notin Work /\ Home[m] = i /\ place[m] \in {"queued", "arrived", "running"}
      BY <2>1 DEF Work
    <3>2. place'[m] = "dropped"
      BY <1>1, <3>1
    <3>. QED  BY <2>1, <3>2 DEF PromisedState
  <2>2. CASE m \in counted
    <3>1. m \notin given_up /\ place'[m] = AfterFailure(m) /\ place[m] \in {"arrived", "running"}
      BY <1>1, <2>2 DEF Work, Held
    <3>2. failures[m] \in Nat /\ failures[m] < MaxAttempts
      BY <1>0, <3>1 DEF TypeOK, AttemptLeft, Open
    <3>. QED  BY <2>2, <3>1, <3>2 DEF PromisedState, AfterFailure, DeliveryLimit
  <2>3. CASE m \in (Held(i) \cap Work) \ counted
    <3>1. m \notin given_up /\ place'[m] = "queued" /\ place[m] \in {"arrived", "running"}
      BY <1>1, <2>3 DEF Work, Held
    <3>. QED  BY <2>3, <3>1 DEF PromisedState
  <2>4. CASE m \notin given_up /\ m \notin counted /\ m \notin (Held(i) \cap Work) \ counted
    <3>1. place'[m] = place[m]
      BY <1>1, <2>4
    <3>. QED  BY <2>4, <3>1 DEF PromisedState
  <2>. QED  BY <2>1, <2>2, <2>3, <2>4
<1> HIDE DEF given_up
<1>. QED  BY <1>0, <1>1, <1>2, <1>3, <1>4, FailIsPromised

\* The queue of an instance that stops consuming goes with the events in it.
LEMMA CancelledIsPromised ==
  ASSUME Inv, NEW i \in Instances, ConsumerCancelled(i)
  PROVE  P!PNext
<1> USE QueuesAssumption
<1> DEFINE given_up == {m \in Messages : Home[m] = i /\ place[m] = "queued"}
<1>0. TypeOK
  BY DEF Inv
<1>1. given_up \in SUBSET OneOff /\ {} \in SUBSET Work
  BY DEF Work, OneOff
<1>2. \A m \in {} \cup given_up : place[m] \in Open \ {"unsent"}
  BY DEF Open
<1>3. failures' = [m \in Messages |-> IF m \in {} THEN failures[m] + 1 ELSE failures[m]]
  BY <1>0 DEF ConsumerCancelled, TypeOK
<1>4. \A m \in Messages : PromisedState(m)' =
        IF m \in given_up THEN "dropped"
        ELSE IF m \in {} /\ failures[m] + 1 = MaxAttempts THEN "retained"
        ELSE PromisedState(m)
  BY DEF ConsumerCancelled, PromisedState
<1> HIDE DEF given_up
<1>. QED  BY <1>0, <1>1, <1>2, <1>3, <1>4, FailIsPromised

\* A step that changes no event's fate is a stuttering step of EventPromise.
LEMMA StutterIsPromised ==
  ASSUME UNCHANGED failures, \A m \in Messages : PromisedState(m)' = PromisedState(m)
  PROVE  UNCHANGED P!pvars
BY DEF P!pvars

\* Publishing is EventPromise's Send, and a handler that returns its Handle.
LEMMA SendAndHandleArePromised ==
  ASSUME Inv, NEW m \in Messages,
         Publish(m) \/ \E i \in Instances : HandlerReturns(i, m)
  PROVE  P!PNext
<1>0. TypeOK /\ UNCHANGED failures
  BY DEF Inv, Publish, HandlerReturns
<1> DEFINE bar == [n \in Messages |-> PromisedState(n)]
<1>1. CASE Publish(m)
  <2>1. PICK s \in {"queued", "dropped"} : place' = [place EXCEPT ![m] = s] /\ place[m] = "unsent"
    BY <1>1 DEF Publish
  <2>2. \E t \in {"pending", "dropped"} : bar' = [bar EXCEPT ![m] = t]
    BY <1>0, <2>1 DEF TypeOK, PromisedState
  <2>3. bar[m] = "unsent"
    BY <2>1 DEF PromisedState
  <2>4. P!Send(m)
    BY <1>0, <2>2, <2>3 DEF P!Send
  <2>. QED  BY <2>4, EventsAre DEF P!PNext
<1>2. CASE \E i \in Instances : HandlerReturns(i, m)
  <2>1. place[m] = "running" /\ place' = [place EXCEPT ![m] = "handled"]
    BY <1>2 DEF HandlerReturns, Running
  <2>2. bar' = [bar EXCEPT ![m] = "handled"]
    BY <1>0, <2>1 DEF TypeOK, PromisedState
  <2>3. m \in P!Pending
    BY <1>0, <2>1, EventsAre DEF P!Pending, PromisedState
  <2>4. P!Handle(m)
    BY <1>0, <2>2, <2>3 DEF P!Handle
  <2>. QED  BY <2>4, EventsAre DEF P!PNext
<1>. QED  BY <1>1, <1>2

\* Nothing is published at the start.
LEMMA InitIsPromised == Init => P!PInit
BY EventsAre DEF Init, P!PInit, PromisedState

\* Every step is a step of EventPromise or leaves every event's fate alone.
LEMMA NextIsPromised == Inv /\ [Next]_vars => [P!PNext]_(P!pvars)
<1> SUFFICES ASSUME Inv, [Next]_vars PROVE P!PNext \/ UNCHANGED P!pvars
  OBVIOUS
<1>0. TypeOK
  BY DEF Inv
<1>1. CASE UNCHANGED <<place, failures>>
  BY <1>1, StutterIsPromised DEF PromisedState
<1>2. ASSUME NEW m \in Messages, UNCHANGED failures,
             \/ DelayEnds(m) \/ DeadLetter(m)
             \/ \E i \in Instances : Deliver(i, m) \/ GiveBack(i, m) \/ Handle(i, m)
      PROVE  UNCHANGED P!pvars
  <2>1. \E p \in Places :
          /\ place' = [place EXCEPT ![m] = p]
          /\ \/ place[m] = "dead" /\ p = "failed"
             \/ {place[m], p} \subseteq {"queued", "delayed", "arrived", "running"}
    BY <1>2 DEF DelayEnds, DeadLetter, Deliver, GiveBack, Handle, Places
  <2>2. \A n \in Messages : PromisedState(n)' = PromisedState(n)
    BY <1>0, <2>1 DEF TypeOK, PromisedState
  <2>. QED  BY <1>2, <2>2, StutterIsPromised
<1>3. CASE \E m \in Messages : Publish(m) \/ BrokerStep(m)
  BY <1>2, <1>3, SendAndHandleArePromised DEF BrokerStep, DelayEnds, DeadLetter
<1>4. ASSUME NEW i \in Instances,
             \/ Start(i) \/ HandlerStep(i) \/ BeginStop(i) \/ StopStep(i)
             \/ ConnectionLost(i) \/ Crash(i)
             \/ \E m \in Messages : Deliver(i, m)
      PROVE  P!PNext \/ UNCHANGED P!pvars
  <2>1. CASE Start(i) \/ BeginStop(i) \/ CancelConsumer(i) \/ BeginForceClose(i)
             \/ OrphanEnds(i) \/ ReportEnds(i)
    BY <1>1, <2>1 DEF Start, BeginStop, CancelConsumer, BeginForceClose, OrphanEnds, ReportEnds, bvars
  <2>2. CASE ConsumerCancelled(i)
    BY <2>2, CancelledIsPromised
  <2>3. CASE ConnectionLost(i) \/ Crash(i) \/ Close(i)
    BY <2>3, ReleaseIsPromised DEF ConnectionLost, Crash, Close
  <2>4. CASE \E m \in Messages : Deliver(i, m) \/ GiveBack(i, m) \/ Handle(i, m)
    BY <1>2, <2>4 DEF Deliver, GiveBack, Handle
  <2>5. CASE \E m \in Messages : HandlerReturns(i, m)
    BY <2>5, SendAndHandleArePromised
  <2>6. CASE \E m \in Messages : HandlerRaises(i, m) \/ HandlerCancelled(i, m)
    BY <2>6, RejectIsPromised DEF HandlerRaises, HandlerCancelled, Running
  <2>. QED  BY <1>4, <2>1, <2>2, <2>3, <2>4, <2>5, <2>6 DEF HandlerStep, StopStep
<1>5. CASE Done \/ UNCHANGED vars
  BY <1>1, <1>5 DEF Done, vars, bvars
<1>. QED  BY <1>3, <1>4, <1>5 DEF Next

\* The consumers, their queues and the shutdown implement EventPromise: no work
\* event is lost, none fails more than max_attempts times, a one-off event is
\* given up at its first failure, and an event's fate never changes again.
THEOREM PromiseKept == Spec => KeepsPromise
BY InitIsPromised, NextIsPromised, InvHolds, PTL DEF Spec, KeepsPromise, P!Promise

-----------------------------------------------------------------------------
(* What the promise comes to *)

\* A work event is retained exactly when it has failed max_attempts times, and a
\* one-off event is never retained.
RetainedAtLimit ==
  \A m \in Messages :
    PromisedState(m) = "retained" <=> m \in Work /\ failures[m] = MaxAttempts

\* An event's fate changes only while it is unsent or pending, and a pending work
\* event ends handled or retained.
FateIsFinal ==
  [][\A m \in Messages : PromisedState(m)' # PromisedState(m) =>
       \/ PromisedState(m) = "unsent"
       \/ /\ PromisedState(m) = "pending"
          /\ m \in Work => PromisedState(m)' \in {"handled", "retained"}]_vars

\* A step of EventPromise, in the terms of this module: a work event is retained
\* as its failures reach the limit.
LEMMA FateStep ==
  ASSUME TypeOK, TypeOK', P!PNext, NEW m \in Messages
  PROVE  LET s == PromisedState(m)  t == PromisedState(m)' IN
         /\ t # s => s = "unsent" \/ (s = "pending" /\ (m \in Work => t \in {"handled", "retained"}))
         /\ t = "retained" /\ s # "retained" => m \in Work /\ failures'[m] = MaxAttempts
         /\ failures'[m] # failures[m] =>
              m \in Work /\ s = "pending" /\ (failures'[m] = MaxAttempts => t = "retained")
<1> DEFINE f == [n \in Messages |-> PromisedState(n)]
<1>0. f[m] = PromisedState(m) /\ f'[m] = PromisedState(m)' /\ f = [n \in Messages |-> f[n]]
  OBVIOUS
<1>1. ASSUME NEW n \in Messages, P!Send(n)
      PROVE  UNCHANGED failures /\ (f'[m] # f[m] => f[m] = "unsent" /\ f'[m] # "retained")
  BY <1>1 DEF P!Send
<1>2. ASSUME NEW n \in Messages, P!Handle(n)
      PROVE  UNCHANGED failures /\ (f'[m] # f[m] => f[m] = "pending" /\ f'[m] = "handled")
  BY <1>2 DEF P!Handle, P!Pending
<1>3. ASSUME NEW failed \in SUBSET Work, NEW given_up \in SUBSET OneOff, P!Fail(failed, given_up)
      PROVE  /\ failures'[m] # failures[m] =>
                  m \in Work /\ f[m] = "pending" /\ (failures'[m] = MaxAttempts => f'[m] = "retained")
             /\ f'[m] # f[m] => f[m] = "pending" /\ (f'[m] = "dropped" \/ f'[m] = "retained")
             /\ f'[m] # f[m] /\ f'[m] = "dropped" => m \in OneOff
             /\ f'[m] # f[m] /\ f'[m] = "retained" => m \in Work /\ failures'[m] = MaxAttempts
  <2>1. /\ failures'[m] = IF m \in failed THEN failures[m] + 1 ELSE failures[m]
        /\ f'[m] = CASE m \in given_up -> "dropped"
                     [] m \in failed /\ failures'[m] = MaxAttempts -> "retained"
                     [] OTHER -> f[m]
        /\ m \in failed \cup given_up => f[m] = "pending"
    BY <1>3, EventsAre DEF P!Fail, P!Pending
  <2>. HIDE DEF f
  <2>. QED  BY <2>1, EventsAre
<1>4. \/ \E n \in Messages : P!Send(n) \/ P!Handle(n)
      \/ \E failed \in SUBSET Work, given_up \in SUBSET OneOff : P!Fail(failed, given_up)
  BY EventsAre DEF P!PNext
<1>. HIDE DEF f
<1>. QED  BY <1>0, <1>1, <1>2, <1>3, <1>4, EventsAre

\* A retained event has failed max_attempts times, neither more nor fewer, and an
\* event with attempts left is not retained, however the failures came about.
THEOREM RetainedExactlyAtLimit == Spec => []RetainedAtLimit
<1>1. Init => RetainedAtLimit
  BY LimitsAssumption DEF Init, RetainedAtLimit, PromisedState
<1>2. Inv /\ Inv' /\ RetainedAtLimit /\ [P!PNext]_(P!pvars) => RetainedAtLimit'
  <2> SUFFICES ASSUME Inv, Inv', RetainedAtLimit, [P!PNext]_(P!pvars), NEW m \in Messages
               PROVE  PromisedState(m)' = "retained" <=> m \in Work /\ failures'[m] = MaxAttempts
    BY DEF RetainedAtLimit, Work
  <2>0. TypeOK /\ TypeOK' /\ (PromisedState(m) = "retained" <=> m \in Work /\ failures[m] = MaxAttempts)
    BY DEF Inv, RetainedAtLimit
  <2>1. CASE UNCHANGED P!pvars
    <3>1. failures' = failures /\ PromisedState(m)' = PromisedState(m)
      BY <2>1 DEF P!pvars
    <3>. QED  BY <2>0, <3>1
  <2>2. CASE P!PNext
    BY <2>0, <2>2, FateStep
  <2>. QED  BY <2>1, <2>2
<1>. QED  BY <1>1, <1>2, NextIsPromised, InvHolds, PTL DEF Spec

\* No work event is lost once it is pending, and a fate that is decided stays so.
THEOREM FatesAreFinal == Spec => FateIsFinal
<1>1. Inv /\ Inv' /\ [Next]_vars =>
      [\A m \in Messages : PromisedState(m)' # PromisedState(m) =>
         \/ PromisedState(m) = "unsent"
         \/ /\ PromisedState(m) = "pending"
            /\ m \in Work => PromisedState(m)' \in {"handled", "retained"}]_vars
  <2> SUFFICES ASSUME Inv, Inv', [Next]_vars, NEW m \in Messages, PromisedState(m)' # PromisedState(m)
               PROVE  \/ PromisedState(m) = "unsent"
                      \/ /\ PromisedState(m) = "pending"
                         /\ m \in Work => PromisedState(m)' \in {"handled", "retained"}
    OBVIOUS
  <2>1. CASE UNCHANGED P!pvars
    BY <2>1 DEF P!pvars
  <2>2. CASE P!PNext
    BY <2>2, FateStep DEF Inv
  <2>. QED  BY <2>1, <2>2, NextIsPromised
<1>. QED  BY <1>1, InvHolds, PTL DEF Spec, FateIsFinal

-----------------------------------------------------------------------------
(* How often the handler of a work event runs *)

\* Beyond max_attempts a handler is started again only for an event that a lost
\* connection or a crash took away from one.
RunsAreBounded == \A m \in Work : starts[m] <= MaxAttempts + losses

\* The run that has not failed, and will not if it is acknowledged.
Spent(m) == IF place[m] \in {"running", "handled"} THEN 1 ELSE 0

\* Inductive: every run has failed, was lost, or is the one at work or done.
RunsInv ==
  \A m \in Work :
    /\ starts[m] <= failures[m] + losses + Spent(m)
    /\ place[m] = "handled" => failures[m] < MaxAttempts

\* The ways a step concerns the runs of one event.
LEMMA RunsStep ==
  ASSUME Inv, Next, NEW m \in Work
  PROVE  /\ \/ starts'[m] = starts[m] /\ failures'[m] = failures[m] /\ losses' = losses
               /\ (Spent(m) = 1 => Spent(m)' = 1)
            \/ starts'[m] = starts[m] + 1 /\ failures'[m] = failures[m] /\ losses' = losses
               /\ Spent(m) = 0 /\ Spent(m)' = 1
            \/ starts'[m] = starts[m] /\ failures'[m] = failures[m] + 1 /\ losses' = losses
            \/ starts'[m] = starts[m] /\ failures'[m] >= failures[m] /\ losses' = losses + 1
         /\ place'[m] = "handled" =>
              place[m] \in {"running", "handled"} /\ failures'[m] = failures[m]
<1> DEFINE Goal ==
      /\ \/ starts'[m] = starts[m] /\ failures'[m] = failures[m] /\ losses' = losses
            /\ (Spent(m) = 1 => Spent(m)' = 1)
         \/ starts'[m] = starts[m] + 1 /\ failures'[m] = failures[m] /\ losses' = losses
            /\ Spent(m) = 0 /\ Spent(m)' = 1
         \/ starts'[m] = starts[m] /\ failures'[m] = failures[m] + 1 /\ losses' = losses
         \/ starts'[m] = starts[m] /\ failures'[m] >= failures[m] /\ losses' = losses + 1
      /\ place'[m] = "handled" =>
           place[m] \in {"running", "handled"} /\ failures'[m] = failures[m]
<1> USE LimitsAssumption
<1>0. TypeOK /\ HeldWhereOpen /\ m \in Messages /\ failures[m] \in Nat
  BY DEF Inv, TypeOK, Work
<1>1. ASSUME UNCHANGED <<place, failures, starts, losses>> PROVE Goal
  BY <1>1 DEF Spent
<1>2. ASSUME UNCHANGED <<failures, starts, losses>>, NEW k \in Messages, NEW p \in Places,
             place' = [place EXCEPT ![k] = p], place[k] \notin {"running", "handled"},
             p \notin {"running", "handled"}
      PROVE  Goal
  BY <1>0, <1>2 DEF TypeOK, Spent
<1>3. ASSUME NEW k \in Messages, Publish(k) \/ DelayEnds(k) \/ DeadLetter(k) PROVE Goal
  <2>1. UNCHANGED <<failures, starts, losses>>
    BY <1>3 DEF Publish, DelayEnds, DeadLetter, hvars
  <2>2. PICK p \in {"queued", "dropped", "failed"} : place' = [place EXCEPT ![k] = p]
    BY <1>3 DEF Publish, DelayEnds, DeadLetter
  <2>3. place[k] \notin {"running", "handled"}
    BY <1>3 DEF Publish, DelayEnds, DeadLetter
  <2>. QED  BY <1>2, <2>1, <2>2, <2>3 DEF Places
<1>4. ASSUME NEW i \in Instances, NEW k \in Messages, Deliver(i, k) \/ GiveBack(i, k) PROVE Goal
  <2>1. UNCHANGED <<failures, starts, losses>>
    BY <1>4 DEF Deliver, GiveBack, hvars
  <2>2. PICK p \in {"queued", "arrived"} : place' = [place EXCEPT ![k] = p]
    BY <1>4 DEF Deliver, GiveBack
  <2>3. place[k] \notin {"running", "handled"}
    BY <1>4 DEF Deliver, GiveBack
  <2>. QED  BY <1>2, <2>1, <2>2, <2>3 DEF Places
<1>5. ASSUME NEW i \in Instances,
             \/ Start(i) \/ BeginStop(i) \/ CancelConsumer(i) \/ BeginForceClose(i)
             \/ OrphanEnds(i) \/ ReportEnds(i)
      PROVE  Goal
  BY <1>1, <1>5 DEF Start, BeginStop, CancelConsumer, BeginForceClose, OrphanEnds, ReportEnds,
                    bvars, hvars
<1>6. ASSUME NEW i \in Instances, ConsumerCancelled(i) PROVE Goal
  <2>1. UNCHANGED <<failures, starts, losses>>
    BY <1>6 DEF ConsumerCancelled, hvars
  <2>2. place'[m] = place[m] \/ (place[m] = "queued" /\ place'[m] = "dropped")
    BY <1>0, <1>6 DEF ConsumerCancelled
  <2>. QED  BY <2>1, <2>2 DEF Spent
<1>7. ASSUME NEW i \in Instances, NEW k \in Messages, Handle(i, k) PROVE Goal
  <2>1. /\ place' = [place EXCEPT ![k] = "running"] /\ starts' = [starts EXCEPT ![k] = @ + 1]
        /\ UNCHANGED <<failures, losses>> /\ place[k] = "arrived"
    BY <1>7 DEF Handle
  <2>. QED  BY <1>0, <2>1 DEF TypeOK, Spent
<1>8. ASSUME NEW i \in Instances, NEW k \in Messages, HandlerReturns(i, k) PROVE Goal
  <2>1. /\ place' = [place EXCEPT ![k] = "handled"] /\ place[k] = "running"
        /\ UNCHANGED <<failures, starts, losses>>
    BY <1>8 DEF HandlerReturns, Running, hvars
  <2>. QED  BY <1>0, <2>1 DEF TypeOK, Spent
<1>9. ASSUME NEW i \in Instances, NEW k \in Messages, HandlerRaises(i, k) \/ HandlerCancelled(i, k)
      PROVE  Goal
  <2>1. /\ Reject(k) /\ UNCHANGED <<starts, losses>>
    BY <1>9 DEF HandlerRaises, HandlerCancelled, hvars
  <2>2. CASE k = m
    <3>1. failures'[m] = failures[m] + 1 /\ place'[m] = AfterFailure(m)
      BY <1>0, <2>1, <2>2 DEF Reject, TypeOK
    <3>2. AfterFailure(m) # "handled"
      BY DEF AfterFailure
    <3>. QED  BY <2>1, <3>1, <3>2
  <2>3. CASE k # m
    <3>1. failures'[m] = failures[m] /\ place'[m] = place[m]
      BY <1>0, <2>1, <2>3 DEF Reject, TypeOK
    <3>. QED  BY <2>1, <3>1 DEF Spent
  <2>. QED  BY <2>2, <2>3
<1>10. ASSUME NEW i \in Instances, Close(i) \/ ConnectionLost(i) \/ Crash(i) PROVE Goal
  <2>1. /\ ReleaseAll(i) /\ UNCHANGED starts
        /\ \/ Close(i) /\ Running(i) = {} /\ losses' = losses
           \/ losses' = losses + 1
    BY <1>10 DEF Close, ConnectionLost, Crash, hvars
  <2>2. /\ failures'[m] = failures[m] \/ failures'[m] = failures[m] + 1
        /\ failures'[m] # failures[m] => m \in Held(i)
    BY <1>0, <2>1 DEF ReleaseAll
  <2>3. /\ m \notin Held(i) =>
             place'[m] = place[m] \/ (place[m] = "queued" /\ place'[m] = "dropped")
        /\ m \in Held(i) => place'[m] # "handled"
    <3>1. m \notin Held(i) => place'[m] = place[m] \/ (place[m] = "queued" /\ place'[m] = "dropped")
      BY <1>0, <2>1, ReleaseMoves
    <3>2. m \in Held(i) => place'[m] # "handled"
      BY <1>0, <2>1 DEF ReleaseAll, AfterFailure, Held
    <3>. QED  BY <3>1, <3>2
  <2>4. Running(i) = {} /\ m \in Held(i) => Spent(m) = 0
    BY DEF Running, Held, Spent
  <2>5. m \notin Held(i) => (Spent(m) = 1 => Spent(m)' = 1)
    BY <2>3 DEF Spent
  <2>6. failures'[m] >= failures[m]
    BY <1>0, <2>2
  <2>7. place'[m] = "handled" => place[m] = "handled" /\ failures'[m] = failures[m]
    BY <2>2, <2>3
  <2> HIDE DEF Spent
  <2>. QED  BY <2>1, <2>2, <2>4, <2>5, <2>6, <2>7
<1>11. ASSUME Done PROVE Goal
  BY <1>1, <1>11 DEF Done, vars, bvars, hvars
<1>12. Goal
  <2> HIDE DEF Goal
  <2>1. ASSUME NEW i \in Instances, HandlerStep(i) PROVE Goal
    BY <1>4, <1>5, <1>7, <1>8, <1>9, <2>1 DEF HandlerStep
  <2>2. ASSUME NEW i \in Instances, StopStep(i) PROVE Goal
    BY <1>5, <1>6, <1>10, <2>2 DEF StopStep
  <2>3. CASE \E k \in Messages : Publish(k) \/ BrokerStep(k)
    BY <1>3, <1>4, <2>3 DEF BrokerStep
  <2>4. ASSUME NEW i \in Instances,
               \/ Start(i) \/ HandlerStep(i) \/ BeginStop(i) \/ StopStep(i)
               \/ ConnectionLost(i) \/ Crash(i)
               \/ \E k \in Messages : Deliver(i, k)
        PROVE  Goal
    BY <1>4, <1>5, <1>10, <2>1, <2>2, <2>4
  <2>. QED  BY <1>11, <2>3, <2>4 DEF Next
<1>. QED  BY <1>12

\* However attempts fail, instances stop and deliveries come back, a work event's
\* handler is started at most max_attempts times, and once more for each lost
\* connection or crash.
THEOREM RunsBounded == Spec => []RunsAreBounded
<1> USE LimitsAssumption
<1>1. Init => RunsInv
  BY DEF Init, RunsInv, Spent, Work
<1>2. Inv /\ RunsInv /\ [Next]_vars => RunsInv'
  <2> SUFFICES ASSUME Inv, RunsInv, [Next]_vars, NEW m \in Work
               PROVE  /\ starts'[m] <= failures'[m] + losses' + Spent(m)'
                      /\ place'[m] = "handled" => failures'[m] < MaxAttempts
    BY DEF RunsInv, Work
  <2>0. /\ starts[m] \in Nat /\ failures[m] \in Nat /\ losses \in Nat /\ Spent(m) \in {0, 1}
        /\ starts[m] <= failures[m] + losses + Spent(m) /\ Spent(m)' \in {0, 1}
        /\ place[m] \in {"running", "handled"} => failures[m] < MaxAttempts
    BY DEF Inv, TypeOK, RunsInv, Work, Spent, AttemptLeft, Open
  <2>1. CASE UNCHANGED vars
    BY <2>0, <2>1 DEF vars, bvars, hvars, Spent
  <2>2. CASE Next
    <3>1. starts'[m] <= failures'[m] + losses' + Spent(m)'
      <4>1. failures'[m] \in Nat
        BY <2>2, NextInv DEF Inv, TypeOK, Work
      <4>. QED  BY <2>0, <2>2, <4>1, RunsStep
    <3>2. place'[m] = "handled" => failures'[m] < MaxAttempts
      BY <2>0, <2>2, RunsStep
    <3>. QED  BY <3>1, <3>2
  <2>. QED  BY <2>1, <2>2
<1>3. Inv /\ RunsInv => RunsAreBounded
  <2> SUFFICES ASSUME Inv, RunsInv, NEW m \in Work PROVE starts[m] <= MaxAttempts + losses
    BY DEF RunsAreBounded
  <2>1. /\ starts[m] \in Nat /\ failures[m] \in 0..MaxAttempts /\ losses \in Nat
        /\ starts[m] <= failures[m] + losses + Spent(m)
        /\ place[m] \in {"running", "handled"} => failures[m] < MaxAttempts
    BY DEF Inv, TypeOK, RunsInv, Work, AttemptLeft, Open
  <2>. QED  BY <2>1 DEF Spent
<1>. QED  BY <1>1, <1>2, <1>3, InvHolds, PTL DEF Spec
=============================================================================
