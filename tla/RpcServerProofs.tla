--------------------------- MODULE RpcServerProofs ---------------------------
(* Proofs about RpcServer, for every set of instances and requests and every     *)
(* routing: an instance never works twice at a time on one request, and without *)
(* a lost connection or a crash an acknowledged request whose result can be      *)
(* serialized has been answered; after one it was answered or acknowledged       *)
(* beside a handler at work on it.  Every answer after the first has a lost      *)
(* connection, a crash or a forced close as its cause.                           *)
EXTENDS RpcServer, FiniteSetTheorems, TLAPS

-----------------------------------------------------------------------------
(* The inductive invariant *)

\* Exactly the requests that are with a client have a holder, and the holder is
\* an instance that consumes the request's queue.
HolderIsExact ==
  \A r \in Requests :
    IF place[r] \in {"arrived", "running"}
    THEN holder[r] \in Instances /\ Home[r] \in {Shared, holder[r]}
    ELSE holder[r] = None

\* A request that is worked on is in the table that tells duplicates apart.
ActiveIsKnown ==
  \A i \in Instances, r \in Requests : Active(i, r) > 0 => r \in futures[i]

\* As long as no connection was lost, a handler's delivery can be acknowledged.
ActiveIsLive ==
  losses = 0 => \A i \in Instances, r \in Requests : Active(i, r) > 0 => Live(i, r)

\* Before shutdown an entry of futures is that of a handler at work, whatever
\* connections were lost (a request without reply_to leaves its entry).
KnownIsActive ==
  \A i \in Instances, r \in Requests \ NoReplyTo :
    phase[i] = "running" /\ r \in futures[i] => Active(i, r) > 0

\* Requests whose result can always be sent: the body decodes, there is a
\* reply_to, and what the method returns can be serialized.
Answerable == Requests \ (Malformed \cup NoReplyTo \cup Unserializable)

\* Where no connection was lost and nothing crashed, a request that can be
\* answered and left its queue for good has been answered, through shutdowns and
\* forced closes.  (A result that cannot be serialized is acknowledged
\* unanswered, rpc.py:173-180.)
AckedIsAnswered ==
  losses = 0 => \A r \in Answerable :
    place[r] = "acked" => answers[r] >= 1

Inv ==
  /\ TypeOK
  /\ HolderIsExact
  /\ OneHandlerPerInstance
  /\ ActiveIsKnown
  /\ ActiveIsLive
  /\ KnownIsActive
  /\ AckedIsAnswered

-----------------------------------------------------------------------------
(* Tables of counters *)

\* What changing one entry of calling or replying does to every entry.
LEMMA EntryChanges ==
  ASSUME NEW f \in [Instances -> [Requests -> Nat]], NEW i \in Instances, NEW r \in Requests,
         NEW v \in Nat
  PROVE  LET g == [f EXCEPT ![i][r] = v]
         IN  /\ g \in [Instances -> [Requests -> Nat]]
             /\ \A j \in Instances, s \in Requests :
                  g[j][s] = IF j = i /\ s = r THEN v ELSE f[j][s]
OBVIOUS

\* Entries are numbers, and the sum of two is positive when one of them is.
LEMMA ActiveType ==
  ASSUME TypeOK, NEW i \in Instances, NEW r \in Requests
  PROVE  /\ calling[i][r] \in Nat /\ replying[i][r] \in Nat /\ Active(i, r) \in Nat
         /\ Active(i, r) > 0 <=> (calling[i][r] > 0 \/ replying[i][r] > 0)
BY DEF TypeOK, Active

-----------------------------------------------------------------------------
(* The invariant holds initially and is preserved by every action *)

\* Nothing has been sent and no method runs at the start.
LEMMA InitInv == Init => Inv
<1> SUFFICES ASSUME Init PROVE Inv
  OBVIOUS
<1> USE RequestsAssumption DEF Init
<1>1. TypeOK
  BY DEF TypeOK
<1>2. \A i \in Instances, r \in Requests : Active(i, r) = 0
  BY DEF Active
<1>. QED  BY <1>1, <1>2 DEF Inv, HolderIsExact, OneHandlerPerInstance, ActiveIsKnown, ActiveIsLive,
             KnownIsActive, AckedIsAnswered, Answerable

\* Sending, delivering and giving back a request
\* leave handlers and their table alone.
LEMMA QueueInv ==
  ASSUME Inv,
         \/ \E r \in Requests : Send(r)
         \/ \E i \in Instances, r \in Requests : Deliver(i, r) \/ GiveBack(i, r)
  PROVE  Inv'
<1> USE RequestsAssumption
<1>0. TypeOK /\ UNCHANGED <<phase, futures, calling, replying, answers, losses>>
  BY DEF Inv, Send, Deliver, GiveBack
<1>1. PICK r \in Requests, w \in {"queued", "dropped", "arrived"}, h \in Instances \cup {None} :
        /\ Move(r, w, h)
        /\ place[r] \in {"unsent", "queued", "arrived"}
        /\ IF w = "arrived" THEN h \in Instances /\ Home[r] \in {Shared, h} ELSE h = None
  BY DEF Send, Deliver, GiveBack, Arrived
<1>2. /\ place' \in [Requests -> {"unsent", "queued", "arrived", "running", "acked", "dropped"}]
      /\ holder' \in [Requests -> Instances \cup {None}]
      /\ place'[r] = w /\ holder'[r] = h
      /\ \A s \in Requests \ {r} : place'[s] = place[s] /\ holder'[s] = holder[s]
  BY <1>0, <1>1 DEF TypeOK, Move
<1>3. TypeOK' /\ HolderIsExact'
  BY <1>0, <1>1, <1>2 DEF Inv, TypeOK, HolderIsExact
<1>4. OneHandlerPerInstance' /\ ActiveIsKnown' /\ KnownIsActive'
  BY <1>0 DEF Inv, OneHandlerPerInstance, ActiveIsKnown, KnownIsActive, Active
<1>5. ActiveIsLive'
  BY <1>0, <1>1, <1>2 DEF Inv, ActiveIsLive, Active, Live
<1>6. AckedIsAnswered'
  BY <1>0, <1>1, <1>2 DEF Inv, AckedIsAnswered, Answerable
<1>. QED  BY <1>3, <1>4, <1>5, <1>6 DEF Inv

\* An acknowledgement without a handler is that of a malformed request or, after
\* a lost connection only, of a duplicate.
LEMMA DiscardInv ==
  ASSUME Inv, NEW i \in Instances, NEW r \in Requests, Discard(i, r)
  PROVE  Inv'
<1> USE RequestsAssumption
<1>0. /\ TypeOK /\ UNCHANGED <<phase, futures, calling, replying, answers, losses>>
      /\ Move(r, "acked", None) /\ Arrived(i, r) /\ phase[i] = "running"
      /\ IsDuplicate(i, r) \/ r \in Malformed
  BY DEF Inv, Discard
<1>2. /\ place' \in [Requests -> {"unsent", "queued", "arrived", "running", "acked", "dropped"}]
      /\ holder' \in [Requests -> Instances \cup {None}]
      /\ place'[r] = "acked" /\ holder'[r] = None
      /\ \A s \in Requests \ {r} : place'[s] = place[s] /\ holder'[s] = holder[s]
  BY <1>0 DEF TypeOK, Move
<1>3. TypeOK' /\ HolderIsExact'
  BY <1>0, <1>2 DEF Inv, TypeOK, HolderIsExact
<1>4. OneHandlerPerInstance' /\ ActiveIsKnown' /\ KnownIsActive'
  BY <1>0 DEF Inv, OneHandlerPerInstance, ActiveIsKnown, KnownIsActive, Active
<1>5. ActiveIsLive'
  BY <1>0, <1>2 DEF Inv, ActiveIsLive, Active, Live, Arrived
<1>6. AckedIsAnswered'
  <2>1. losses = 0 => r \notin Answerable
    BY <1>0 DEF Inv, KnownIsActive, ActiveIsLive, Live, Arrived, IsDuplicate, Answerable
  <2>. QED  BY <1>0, <1>2, <2>1 DEF Inv, AckedIsAnswered, Answerable
<1>. QED  BY <1>3, <1>4, <1>5, <1>6 DEF Inv

\* A handler starts only where none is at work on the request.
LEMMA HandleInv ==
  ASSUME Inv, NEW i \in Instances, NEW r \in Requests, Handle(i, r)
  PROVE  Inv'
<1> USE RequestsAssumption
<1>0. /\ TypeOK /\ UNCHANGED <<phase, replying, answers, losses>>
      /\ Move(r, "running", i) /\ Arrived(i, r) /\ r \notin futures[i]
      /\ futures' = [futures EXCEPT ![i] = @ \cup {r}]
      /\ calling' = [calling EXCEPT ![i][r] = calling[i][r] + 1]
  BY DEF Inv, Handle, IsDuplicate
<1>1. Active(i, r) = 0 /\ calling[i][r] = 0
  BY <1>0, ActiveType DEF Inv, ActiveIsKnown
<1>2. /\ place' \in [Requests -> {"unsent", "queued", "arrived", "running", "acked", "dropped"}]
      /\ holder' \in [Requests -> Instances \cup {None}]
      /\ place'[r] = "running" /\ holder'[r] = i
      /\ \A s \in Requests \ {r} : place'[s] = place[s] /\ holder'[s] = holder[s]
  BY <1>0 DEF TypeOK, Move
<1>3. /\ calling' \in [Instances -> [Requests -> Nat]]
      /\ \A j \in Instances, s \in Requests :
           calling'[j][s] = IF j = i /\ s = r THEN 1 ELSE calling[j][s]
  BY <1>0, <1>1, EntryChanges DEF TypeOK
<1>4. \A j \in Instances, s \in Requests :
        Active(j, s)' = IF j = i /\ s = r THEN 1 ELSE Active(j, s)
  BY <1>0, <1>1, <1>3, ActiveType DEF Active
<1>5. /\ futures' \in [Instances -> SUBSET Requests]
      /\ \A j \in Instances : futures'[j] = IF j = i THEN futures[i] \cup {r} ELSE futures[j]
  BY <1>0 DEF TypeOK
<1>6. TypeOK' /\ HolderIsExact'
  BY <1>0, <1>2, <1>3, <1>5 DEF Inv, TypeOK, HolderIsExact, Arrived
<1>7. OneHandlerPerInstance'
  BY <1>4 DEF Inv, OneHandlerPerInstance
<1>8. ActiveIsKnown'
  BY <1>4, <1>5 DEF Inv, ActiveIsKnown
<1>9. ActiveIsLive'
  BY <1>0, <1>2, <1>4 DEF Inv, ActiveIsLive, Live, Arrived
<1>10. KnownIsActive'
  BY <1>0, <1>4, <1>5 DEF Inv, KnownIsActive
<1>11. AckedIsAnswered'
  BY <1>0, <1>2 DEF Inv, AckedIsAnswered, Answerable
<1>. QED  BY <1>6, <1>7, <1>8, <1>9, <1>10, <1>11 DEF Inv

\* The method of a request that wants a reply ends: the handler goes on to send
\* it, and as many are at work as before.
LEMMA MethodMoves ==
  ASSUME Inv, NEW i \in Instances, NEW r \in Requests, MethodEnds(i, r), r \notin NoReplyTo
  PROVE  /\ calling' \in [Instances -> [Requests -> Nat]]
         /\ replying' \in [Instances -> [Requests -> Nat]]
         /\ \A j \in Instances, s \in Requests : Active(j, s)' = Active(j, s)
<1>0. /\ TypeOK /\ calling[i][r] > 0
      /\ calling' = [calling EXCEPT ![i][r] = calling[i][r] - 1]
      /\ replying' = [replying EXCEPT ![i][r] = replying[i][r] + 1]
  BY DEF Inv, MethodEnds
<1>1. calling[i][r] \in Nat /\ replying[i][r] \in Nat /\ calling[i][r] - 1 \in Nat
  BY <1>0, ActiveType
<1>2. /\ calling' \in [Instances -> [Requests -> Nat]]
      /\ \A j \in Instances, s \in Requests :
           calling'[j][s] = IF j = i /\ s = r THEN calling[i][r] - 1 ELSE calling[j][s]
  BY <1>0, <1>1, EntryChanges DEF TypeOK
<1>3. /\ replying' \in [Instances -> [Requests -> Nat]]
      /\ \A j \in Instances, s \in Requests :
           replying'[j][s] = IF j = i /\ s = r THEN replying[i][r] + 1 ELSE replying[j][s]
  BY <1>0, <1>1, EntryChanges DEF TypeOK
<1>4. ASSUME NEW j \in Instances, NEW s \in Requests
      PROVE  Active(j, s)' = Active(j, s)
  <2>1. CASE j = i /\ s = r
    <3>1. calling'[i][r] = calling[i][r] - 1 /\ replying'[i][r] = replying[i][r] + 1
      BY <1>2, <1>3
    <3>2. calling'[i][r] + replying'[i][r] = calling[i][r] + replying[i][r]
      BY <1>1, <3>1
    <3>. QED  BY <2>1, <3>2 DEF Active
  <2>2. CASE ~(j = i /\ s = r)
    BY <1>2, <1>3, <2>2 DEF Active
  <2>. QED  BY <2>1, <2>2
<1>. QED  BY <1>2, <1>3, <1>4

\* It preserves the invariant.
LEMMA MethodEndsInv ==
  ASSUME Inv, NEW i \in Instances, NEW r \in Requests, MethodEnds(i, r), r \notin NoReplyTo
  PROVE  Inv'
<1> USE RequestsAssumption
<1>0. TypeOK /\ UNCHANGED <<place, holder, phase, futures, answers, losses>>
  BY DEF Inv, MethodEnds
<1>2. /\ calling' \in [Instances -> [Requests -> Nat]]
      /\ replying' \in [Instances -> [Requests -> Nat]]
  BY MethodMoves
<1>4. \A j \in Instances, s \in Requests : Active(j, s)' = Active(j, s)
  BY MethodMoves
<1>5. TypeOK' /\ HolderIsExact'
  BY <1>0, <1>2 DEF Inv, TypeOK, HolderIsExact
<1>6. OneHandlerPerInstance' /\ ActiveIsKnown' /\ KnownIsActive' /\ ActiveIsLive'
  BY <1>0, <1>4 DEF Inv, OneHandlerPerInstance, ActiveIsKnown, KnownIsActive, ActiveIsLive, Live
<1>7. AckedIsAnswered'
  BY <1>0 DEF Inv, AckedIsAnswered, Answerable
<1>. QED  BY <1>5, <1>6, <1>7 DEF Inv

\* The last step of a handler, whatever ended it: it was the only one on its
\* request in its instance.
LEMMA HandlerLeaves ==
  ASSUME Inv, NEW i \in Instances, NEW r \in Requests,
         \/ MethodEnds(i, r) /\ r \in NoReplyTo
         \/ ReplySent(i, r) \/ CancelledCalling(i, r) \/ CancelledReplying(i, r)
  PROVE  /\ Active(i, r) = 1
         /\ calling' \in [Instances -> [Requests -> Nat]]
         /\ replying' \in [Instances -> [Requests -> Nat]]
         /\ \A j \in Instances, s \in Requests :
              Active(j, s)' = IF j = i /\ s = r THEN 0 ELSE Active(j, s)
<1> USE RequestsAssumption
<1>0. TypeOK
  BY DEF Inv
<1>1. /\ Active(i, r) = 1
      /\ \/ /\ calling[i][r] = 1 /\ replying[i][r] = 0
            /\ calling' = [calling EXCEPT ![i][r] = 0] /\ UNCHANGED replying
         \/ /\ replying[i][r] = 1 /\ calling[i][r] = 0
            /\ replying' = [replying EXCEPT ![i][r] = 0] /\ UNCHANGED calling
  <2>1. Active(i, r) <= 1 /\ calling[i][r] \in Nat /\ replying[i][r] \in Nat
    BY <1>0, ActiveType DEF Inv, OneHandlerPerInstance
  <2>2. calling[i][r] > 0 \/ replying[i][r] > 0
    BY DEF MethodEnds, ReplySent, CancelledCalling, CancelledReplying
  <2>3. \/ calling[i][r] = 1 /\ replying[i][r] = 0
        \/ calling[i][r] = 0 /\ replying[i][r] = 1
    BY <2>1, <2>2 DEF Active
  <2>. QED  BY <2>3 DEF MethodEnds, ReplySent, CancelledCalling, CancelledReplying, Active
<1>2. /\ calling' \in [Instances -> [Requests -> Nat]]
      /\ replying' \in [Instances -> [Requests -> Nat]]
      /\ \A j \in Instances, s \in Requests :
           Active(j, s)' = IF j = i /\ s = r THEN 0 ELSE Active(j, s)
  <2>1. CASE calling' = [calling EXCEPT ![i][r] = 0] /\ UNCHANGED replying /\ replying[i][r] = 0
    <3>1. /\ calling' \in [Instances -> [Requests -> Nat]]
          /\ \A j \in Instances, s \in Requests :
               calling'[j][s] = IF j = i /\ s = r THEN 0 ELSE calling[j][s]
      BY <1>0, <2>1, EntryChanges DEF TypeOK
    <3>. QED  BY <1>0, <2>1, <3>1 DEF TypeOK, Active
  <2>2. CASE replying' = [replying EXCEPT ![i][r] = 0] /\ UNCHANGED calling /\ calling[i][r] = 0
    <3>1. /\ replying' \in [Instances -> [Requests -> Nat]]
          /\ \A j \in Instances, s \in Requests :
               replying'[j][s] = IF j = i /\ s = r THEN 0 ELSE replying[j][s]
      BY <1>0, <2>2, EntryChanges DEF TypeOK
    <3>. QED  BY <1>0, <2>2, <3>1 DEF TypeOK, Active
  <2>. QED  BY <1>1, <2>1, <2>2
<1>. QED  BY <1>1, <1>2

\* At the end of a handler the request is acknowledged, put back, or was taken
\* away before.
LEMMA HandlerEndsInv ==
  ASSUME Inv, NEW i \in Instances, NEW r \in Requests,
         \/ MethodEnds(i, r) /\ r \in NoReplyTo
         \/ ReplySent(i, r) \/ CancelledCalling(i, r) \/ CancelledReplying(i, r)
  PROVE  Inv'
<1> USE RequestsAssumption
<1>0. /\ TypeOK /\ UNCHANGED <<phase, losses>>
      /\ phase[i] \in {"running", "stopping", "cancelling", "draining", "forcing"}
  BY DEF Inv, MethodEnds, ReplySent, CancelledCalling, CancelledReplying, Undisturbed
<1>1. Active(i, r) = 1
  BY HandlerLeaves
<1>2. /\ calling' \in [Instances -> [Requests -> Nat]]
      /\ replying' \in [Instances -> [Requests -> Nat]]
      /\ \A j \in Instances, s \in Requests :
           Active(j, s)' = IF j = i /\ s = r THEN 0 ELSE Active(j, s)
  BY HandlerLeaves
<1>3. /\ futures' \in [Instances -> SUBSET Requests]
      /\ \A j \in Instances, s \in Requests :
           (j # i \/ s # r) => (s \in futures'[j] <=> s \in futures[j])
      /\ r \notin NoReplyTo /\ phase[i] = "running" => r \notin futures'[i]
  <2>1. CASE futures' = futures /\ (r \in NoReplyTo \/ phase[i] = "forcing")
    BY <1>0, <2>1 DEF TypeOK
  <2>2. CASE Forget(i, r)
    BY <1>0, <2>2 DEF TypeOK, Forget
  <2>. QED  BY <2>1, <2>2 DEF MethodEnds, ReplySent, CancelledCalling, CancelledReplying
<1>4. PICK w \in {"acked", "queued"} :
        /\ IF Live(i, r) THEN Move(r, w, None) ELSE UNCHANGED <<place, holder>>
        /\ w = "acked" /\ Live(i, r) /\ r \in Answerable => answers'[r] >= 1
  <2>1. CASE MethodEnds(i, r) /\ r \in NoReplyTo
    BY <2>1 DEF MethodEnds, Ack, Answerable
  <2>2. CASE CancelledCalling(i, r) \/ CancelledReplying(i, r)
    BY <2>2 DEF CancelledCalling, CancelledReplying, RejectCancelled
  <2>3. CASE ReplySent(i, r)
    <3>1. Live(i, r) /\ r \in Answerable => answers'[r] >= 1
      BY <1>0, <2>3 DEF TypeOK, ReplySent, Answerable
    <3>. QED  BY <2>3, <3>1 DEF ReplySent, Ack
  <2>. QED  BY <2>1, <2>2, <2>3
<1>5. /\ place' \in [Requests -> {"unsent", "queued", "arrived", "running", "acked", "dropped"}]
      /\ holder' \in [Requests -> Instances \cup {None}]
      /\ place'[r] = (IF Live(i, r) THEN w ELSE place[r])
      /\ holder'[r] = IF Live(i, r) THEN None ELSE holder[r]
      /\ \A s \in Requests \ {r} : place'[s] = place[s] /\ holder'[s] = holder[s]
  BY <1>0, <1>4 DEF TypeOK, Move
<1>6. /\ answers' \in [Requests -> Nat]
      /\ \A s \in Requests : answers'[s] >= answers[s]
  <2>1. \E n \in {0, 1} : answers' = [answers EXCEPT ![r] = @ + n]
    <3>1. CASE ReplySent(i, r)
      <4>1. PICK ok \in BOOLEAN : answers' = [answers EXCEPT ![r] = IF ok THEN @ + 1 ELSE @]
        BY <3>1 DEF ReplySent
      <4>2. CASE ok
        BY <4>1, <4>2
      <4>3. CASE ~ok
        <5>1. answers[r] \in Nat /\ answers[r] + 0 = answers[r]
          BY <1>0 DEF TypeOK
        <5>. QED  BY <4>1, <4>3, <5>1
      <4>. QED  BY <4>2, <4>3
    <3>2. CASE answers' = answers
      BY <1>0, <3>2 DEF TypeOK
    <3>. QED  BY <3>1, <3>2 DEF MethodEnds, CancelledCalling, CancelledReplying
  <2>. QED  BY <1>0, <2>1 DEF TypeOK
<1>7. TypeOK'
  BY <1>0, <1>2, <1>3, <1>5, <1>6 DEF TypeOK
<1>8. HolderIsExact'
  BY <1>5 DEF Inv, HolderIsExact
<1>9. OneHandlerPerInstance' /\ ActiveIsKnown'
  BY <1>2, <1>3, SMTT(30) DEF Inv, OneHandlerPerInstance, ActiveIsKnown
<1>10. ActiveIsLive'
  <2> SUFFICES ASSUME losses = 0, NEW j \in Instances, NEW s \in Requests, Active(j, s)' > 0
               PROVE  Live(j, s)'
    BY <1>0 DEF ActiveIsLive
  <2>1. (j # i \/ s # r) /\ Live(j, s)
    BY <1>2 DEF Inv, ActiveIsLive
  <2>2. s # r
    BY <1>1, <2>1 DEF Inv, ActiveIsLive, Live
  <2>. QED  BY <1>5, <2>1, <2>2 DEF Live
<1>11. KnownIsActive'
  <2> SUFFICES ASSUME NEW j \in Instances, NEW s \in Requests \ NoReplyTo,
                      phase[j] = "running", s \in futures'[j]
               PROVE  Active(j, s)' > 0
    BY <1>0 DEF KnownIsActive
  <2>. QED  BY <1>2, <1>3 DEF Inv, KnownIsActive
<1>12. AckedIsAnswered'
  <2> SUFFICES ASSUME losses = 0, NEW s \in Answerable, place'[s] = "acked"
               PROVE  answers'[s] >= 1
    BY <1>0 DEF AckedIsAnswered
  <2>0. s \in Requests
    BY DEF Answerable
  <2>1. CASE place[s] = "acked"
    <3>1. answers[s] >= 1 /\ answers[s] \in Nat
      BY <1>0, <2>0, <2>1 DEF Inv, TypeOK, AckedIsAnswered
    <3>. QED  BY <1>6, <2>0, <3>1
  <2>2. CASE place[s] # "acked"
    BY <1>4, <1>5, <2>0, <2>2
  <2>. QED  BY <2>1, <2>2
<1>. QED  BY <1>7, <1>8, <1>9, <1>10, <1>11, <1>12 DEF Inv

\* The steps of a stop: no handler starts or ends, and only queued requests are
\* dropped with the instance's own queue.
LEMMA StopInv ==
  ASSUME Inv, NEW i \in Instances,
         BeginStop(i) \/ CancelConsumers(i) \/ StopAccepting(i) \/ ForceClose(i)
  PROVE  Inv'
<1> USE RequestsAssumption
<1>0. /\ TypeOK /\ UNCHANGED <<holder, futures, calling, replying, answers, losses>>
  BY DEF Inv, BeginStop, CancelConsumers, StopAccepting, ForceClose
<1>1. /\ phase' \in [Instances -> {"running", "stopping", "cancelling", "draining", "forcing",
                                    "closed", "crashed"}]
      /\ \A j \in Instances : phase'[j] = "running" => phase[j] = "running"
  BY <1>0 DEF TypeOK, BeginStop, CancelConsumers, StopAccepting, ForceClose
<1>2. /\ place' \in [Requests -> {"unsent", "queued", "arrived", "running", "acked", "dropped"}]
      /\ \A r \in Requests : place'[r] = place[r] \/ (place[r] = "queued" /\ place'[r] = "dropped")
  BY <1>0 DEF TypeOK, BeginStop, CancelConsumers, StopAccepting, ForceClose
<1>3. TypeOK' /\ HolderIsExact'
  BY <1>0, <1>1, <1>2 DEF Inv, TypeOK, HolderIsExact
<1>4. OneHandlerPerInstance' /\ ActiveIsKnown'
  BY <1>0 DEF Inv, OneHandlerPerInstance, ActiveIsKnown, Active
<1>5. ActiveIsLive' /\ KnownIsActive'
  BY <1>0, <1>1, <1>2 DEF Inv, ActiveIsLive, KnownIsActive, Active, Live
<1>6. AckedIsAnswered'
  BY <1>0, <1>2 DEF Inv, AckedIsAnswered, Answerable
<1>. QED  BY <1>3, <1>4, <1>5, <1>6 DEF Inv

\* What the broker does when a connection goes away: the requests the instance
\* held are queued again or dropped, the others with a client stay.
LEMMA ReleaseMoves ==
  ASSUME TypeOK, HolderIsExact, NEW i \in Instances, NEW gone \in SUBSET {"queued", "arrived", "running"},
         Release(i, gone)
  PROVE  /\ place' \in [Requests -> {"unsent", "queued", "arrived", "running", "acked", "dropped"}]
         /\ holder' \in [Requests -> Instances \cup {None}]
         /\ HolderIsExact'
         /\ \A r \in Requests : place'[r] = "acked" => place[r] = "acked"
         /\ \A r \in Requests, j \in Instances : j # i /\ Live(j, r) => Live(j, r)'
<1> USE RequestsAssumption
<1>1. ASSUME NEW r \in Requests
      PROVE  /\ place'[r] = (IF Home[r] = i /\ place[r] \in gone THEN "dropped"
                             ELSE IF holder[r] = i THEN "queued" ELSE place[r])
             /\ holder'[r] = IF holder[r] = i THEN None ELSE holder[r]
  BY DEF Release
<1>2. /\ place' \in [Requests -> {"unsent", "queued", "arrived", "running", "acked", "dropped"}]
      /\ holder' \in [Requests -> Instances \cup {None}]
  BY DEF Release, TypeOK
<1>3. HolderIsExact'
  BY <1>1, <1>2 DEF HolderIsExact, TypeOK
<1>4. \A r \in Requests : place'[r] = "acked" => place[r] = "acked"
  BY <1>1
<1>5. \A r \in Requests, j \in Instances : j # i /\ Live(j, r) => Live(j, r)'
  BY <1>1 DEF HolderIsExact, Live
<1>. QED  BY <1>2, <1>3, <1>4, <1>5

\* A lost connection, a crash and the close of the connection: only the close
\* leaves losses at 0, and it waits for the instance's handlers.
LEMMA LossInv ==
  ASSUME Inv, NEW i \in Instances, Close(i) \/ ConnectionLost(i) \/ Crash(i)
  PROVE  Inv'
<1> USE RequestsAssumption
<1>0. TypeOK /\ HolderIsExact /\ UNCHANGED answers
  BY DEF Inv, Close, ConnectionLost, Crash
<1>1. /\ place' \in [Requests -> {"unsent", "queued", "arrived", "running", "acked", "dropped"}]
      /\ holder' \in [Requests -> Instances \cup {None}]
      /\ HolderIsExact'
      /\ \A r \in Requests : place'[r] = "acked" => place[r] = "acked"
      /\ \A r \in Requests, j \in Instances : j # i /\ Live(j, r) => Live(j, r)'
  <2>1. \E gone \in SUBSET {"queued", "arrived", "running"} : Release(i, gone)
    BY DEF Close, ConnectionLost, Crash
  <2>. QED  BY <1>0, <2>1, ReleaseMoves
<1>2. losses' = 0 => /\ losses = 0 /\ Close(i)
                     /\ UNCHANGED <<futures, calling, replying>>
  BY <1>0 DEF TypeOK, Close, ConnectionLost, Crash
<1>3. /\ phase' \in [Instances -> {"running", "stopping", "cancelling", "draining", "forcing",
                                    "closed", "crashed"}]
      /\ losses' \in 0..MaxLosses
      /\ \A j \in Instances : phase'[j] = "running" => phase[j] = "running"
  <2>1. losses' \in 0..MaxLosses
    BY <1>0 DEF TypeOK, Close, ConnectionLost, Crash
  <2>2. \/ phase' = phase \/ phase' = [phase EXCEPT ![i] = "closed"]
        \/ phase' = [phase EXCEPT ![i] = "crashed"]
    BY DEF Close, ConnectionLost, Crash
  <2>. QED  BY <1>0, <2>1, <2>2 DEF TypeOK
<1>4. /\ futures' \in [Instances -> SUBSET Requests]
      /\ calling' \in [Instances -> [Requests -> Nat]]
      /\ replying' \in [Instances -> [Requests -> Nat]]
      /\ \A j \in Instances, r \in Requests :
           \/ Active(j, r)' = Active(j, r) /\ (r \in futures[j] => r \in futures'[j])
           \/ Active(j, r)' = 0
  <2>1. CASE UNCHANGED <<futures, calling, replying>>
    BY <1>0, <2>1 DEF TypeOK, Active
  <2>2. CASE Crash(i)
    BY <1>0, <2>2 DEF TypeOK, Active, Crash
  <2>. QED  BY <2>1, <2>2 DEF Close, ConnectionLost
<1>5. TypeOK'
  BY <1>0, <1>1, <1>3, <1>4 DEF TypeOK
<1>6. OneHandlerPerInstance' /\ ActiveIsKnown'
  <2>1. OneHandlerPerInstance'
    BY <1>4 DEF Inv, OneHandlerPerInstance
  <2>2. ActiveIsKnown'
    BY <1>4 DEF Inv, ActiveIsKnown
  <2>. QED  BY <2>1, <2>2
<1>7. ActiveIsLive'
  <2> SUFFICES ASSUME losses' = 0, NEW j \in Instances, NEW r \in Requests, Active(j, r)' > 0
               PROVE  Live(j, r)'
    BY DEF ActiveIsLive
  <2>1. j # i /\ Active(j, r) > 0 /\ losses = 0
    BY <1>2, <1>4 DEF Close, Active
  <2>. QED  BY <1>1, <2>1 DEF Inv, ActiveIsLive
<1>8. KnownIsActive'
  <2> SUFFICES ASSUME NEW j \in Instances, NEW r \in Requests \ NoReplyTo,
                      phase'[j] = "running", r \in futures'[j]
               PROVE  Active(j, r)' > 0
    BY DEF KnownIsActive
  <2>1. r \in futures[j] /\ Active(j, r)' = Active(j, r)
    <3>1. CASE UNCHANGED <<futures, calling, replying>>
      BY <3>1 DEF Active
    <3>2. CASE Crash(i)
      BY <1>0, <3>2 DEF TypeOK, Crash, Active
    <3>. QED  BY <3>1, <3>2 DEF Close, ConnectionLost
  <2>. QED  BY <1>3, <2>1 DEF Inv, KnownIsActive
<1>9. AckedIsAnswered'
  BY <1>0, <1>1, <1>2 DEF Inv, AckedIsAnswered, Answerable
<1>. QED  BY <1>1, <1>5, <1>6, <1>7, <1>8, <1>9 DEF Inv

-----------------------------------------------------------------------------
(* Theorems *)

\* Every step of a caller, an instance and the broker preserves the invariant.
LEMMA NextInv == Inv /\ [Next]_vars => Inv'
<1> SUFFICES ASSUME Inv, [Next]_vars PROVE Inv'
  OBVIOUS
<1>1. CASE UNCHANGED vars \/ AllDown
  <2>1. UNCHANGED vars
    BY <1>1 DEF AllDown
  <2>. QED  BY <2>1 DEF vars, Inv, TypeOK, HolderIsExact, OneHandlerPerInstance, ActiveIsKnown,
               ActiveIsLive, KnownIsActive, AckedIsAnswered, Active, Live
<1>2. CASE \E r \in Requests : Send(r)
  BY <1>2, QueueInv
<1>3. ASSUME NEW i \in Instances, NEW r \in Requests, HandlerStep(i, r)
      PROVE  Inv'
  BY <1>3, QueueInv, DiscardInv, HandleInv, MethodEndsInv, HandlerEndsInv DEF HandlerStep
<1>4. ASSUME NEW i \in Instances, BeginStop(i) \/ StopStep(i) \/ ConnectionLost(i) \/ Crash(i)
      PROVE  Inv'
  BY <1>4, StopInv, LossInv DEF StopStep
<1>. QED  BY <1>1, <1>2, <1>3, <1>4 DEF Next

\* The inductive invariant, the type invariant with it, holds in every behaviour.
THEOREM InvHolds == Spec => []Inv
BY InitInv, NextInv, PTL DEF Spec

\* RpcTask.futures keeps an instance from working on one request twice at a time,
\* however often the broker delivers it again.
THEOREM OneHandler == Spec => []OneHandlerPerInstance
<1>1. Inv => OneHandlerPerInstance
  BY DEF Inv
<1>. QED  BY <1>1, InvHolds, PTL

\* Until the first lost connection or crash, a request whose result can be
\* serialized and that was acknowledged has been answered, through every shutdown
\* and forced close.
THEOREM AckedAnswered == Spec => []AckedIsAnswered
<1>1. Inv => AckedIsAnswered
  BY DEF Inv
<1>. QED  BY <1>1, InvHolds, PTL

\* A request is acknowledged unanswered only by the handler whose result could not
\* be serialized, or beside a handler that is at work on it, in every behaviour
\* and after any number of lost connections and crashes.
THEOREM AckCovered == Spec => AckIsCovered
<1> DEFINE Covered(r) ==
      place[r] # "acked" /\ place'[r] = "acked" =>
        \/ answers'[r] >= 1
        \/ r \in Unserializable /\ \E i \in Instances : replying'[i][r] < replying[i][r]
        \/ losses > 0 /\ \E i \in Instances : phase[i] = "running" /\ Active(i, r)' > 0
<1>1. Inv /\ [Next]_vars => [\A r \in Requests \ (Malformed \cup NoReplyTo) : Covered(r)]_vars
  <2> SUFFICES ASSUME Inv, Next, NEW r \in Requests \ (Malformed \cup NoReplyTo),
                      place[r] # "acked", place'[r] = "acked"
               PROVE  \/ answers'[r] >= 1
                      \/ r \in Unserializable /\ \E i \in Instances : replying'[i][r] < replying[i][r]
                      \/ losses > 0 /\ \E i \in Instances :
                           phase[i] = "running" /\ Active(i, r)' > 0
    OBVIOUS
  <2> USE RequestsAssumption
  <2>0. TypeOK /\ HolderIsExact
    BY DEF Inv
  <2>1. CASE \E s \in Requests : Send(s)
    BY <2>0, <2>1 DEF TypeOK, Send, Move
  <2>2. CASE AllDown
    BY <2>2 DEF AllDown, vars
  <2>3. ASSUME NEW i \in Instances,
               BeginStop(i) \/ CancelConsumers(i) \/ StopAccepting(i) \/ ForceClose(i)
        PROVE  FALSE
    BY <2>0, <2>3 DEF TypeOK, BeginStop, CancelConsumers, StopAccepting, ForceClose
  <2>4. ASSUME NEW i \in Instances, Close(i) \/ ConnectionLost(i) \/ Crash(i)
        PROVE  FALSE
    <3>1. \E gone \in SUBSET {"queued", "arrived", "running"} : Release(i, gone)
      BY <2>4 DEF Close, ConnectionLost, Crash
    <3>. QED  BY <2>0, <3>1, ReleaseMoves
  <2>5. ASSUME NEW i \in Instances, NEW s \in Requests, HandlerStep(i, s)
        PROVE  \/ answers'[r] >= 1
               \/ r \in Unserializable /\ replying'[i][r] < replying[i][r]
               \/ losses > 0 /\ phase[i] = "running" /\ Active(i, r)' > 0
    <3>1. CASE Deliver(i, s) \/ GiveBack(i, s) \/ Handle(i, s)
      BY <2>0, <3>1 DEF TypeOK, Deliver, GiveBack, Handle, Move
    <3>2. CASE CancelledCalling(i, s) \/ CancelledReplying(i, s)
      BY <2>0, <3>2 DEF TypeOK, CancelledCalling, CancelledReplying, RejectCancelled, Move
    <3>3. CASE Discard(i, s)
      <4>1. s = r /\ Arrived(i, r) /\ phase[i] = "running" /\ r \in futures[i]
        BY <2>0, <3>3 DEF TypeOK, Discard, Move, IsDuplicate
      <4>2. Active(i, r) > 0
        BY <4>1 DEF Inv, KnownIsActive
      <4>3. losses > 0
        BY <2>0, <4>1, <4>2 DEF Inv, TypeOK, ActiveIsLive, Live, Arrived
      <4>. QED  BY <3>3, <4>1, <4>2, <4>3 DEF Discard, Active
    <3>4. CASE MethodEnds(i, s)
      BY <2>0, <3>4 DEF TypeOK, MethodEnds, Ack, Move
    <3>5. CASE ReplySent(i, s)
      <4>1. s = r /\ Live(i, r)
        BY <2>0, <3>5 DEF TypeOK, ReplySent, Ack, Move
      <4>2. CASE r \notin Unserializable
        BY <2>0, <3>5, <4>1, <4>2 DEF TypeOK, ReplySent
      <4>3. CASE r \in Unserializable
        <5>1. replying' = [replying EXCEPT ![i][r] = replying[i][r] - 1] /\ replying[i][r] > 0
          BY <3>5, <4>1 DEF ReplySent
        <5>2. replying'[i][r] = replying[i][r] - 1 /\ replying[i][r] \in Nat
          BY <2>0, <5>1 DEF TypeOK
        <5>. QED  BY <4>3, <5>2
      <4>. QED  BY <4>2, <4>3
    <3>. QED  BY <2>5, <3>1, <3>2, <3>3, <3>4, <3>5 DEF HandlerStep
  <2>. QED  BY <2>1, <2>2, <2>3, <2>4, <2>5 DEF Next, StopStep
<1>. QED  BY <1>1, InvHolds, PTL DEF Spec, AckIsCovered

-----------------------------------------------------------------------------
(* How often a caller is answered *)

Forced == {"forcing", "closed"}

\* The instances whose forced close is over for r: they answer it no more.
Freed(r) == {i \in Instances : phase[i] \in Forced /\ Active(i, r) = 0}

\* The instances at work on r that cannot acknowledge it and are not forced.
Orphaned(r) == {i \in Instances : phase[i] \notin Forced /\ Active(i, r) > 0 /\ ~Live(i, r)}

Acked(r) == IF place[r] = "acked" THEN 1 ELSE 0

\* A caller gets one answer, one more for each lost connection or crash, and one
\* more for each instance whose handlers were cancelled.
ExtraAnswersHaveCause ==
  \A r \in Requests :
    answers[r] <= 1 + losses + Cardinality({i \in Instances : phase[i] \in Forced})

\* Inductive: the answers given and still to come without an acknowledgement are
\* accounted for by the acknowledgement, the losses and the forced closes.
AnswersInv ==
  \A r \in Requests :
    answers[r] + Cardinality(Orphaned(r)) <= losses + Cardinality(Freed(r)) + Acked(r)

\* Sets of instances can be counted.
LEMMA Counting ==
  ASSUME NEW S \in SUBSET Instances
  PROVE  /\ Cardinality(S) \in Nat
         /\ \A T \in SUBSET S : Cardinality(T) <= Cardinality(S)
         /\ \A i \in Instances : \A T \in SUBSET (S \cup {i}) : Cardinality(T) <= Cardinality(S) + 1
         /\ \A i \in S : \A T \in SUBSET (S \ {i}) : Cardinality(T) + 1 <= Cardinality(S)
<1>1. IsFiniteSet(S) /\ Cardinality(S) \in Nat
  BY RequestsAssumption, FS_Subset, FS_CardinalityType
<1>2. ASSUME NEW T \in SUBSET S PROVE Cardinality(T) <= Cardinality(S)
  BY <1>1, FS_Subset
<1>3. ASSUME NEW i \in Instances, NEW T \in SUBSET (S \cup {i}) PROVE Cardinality(T) <= Cardinality(S) + 1
  <2>1. IsFiniteSet(S \cup {i}) /\ Cardinality(S \cup {i}) <= Cardinality(S) + 1
    BY <1>1, FS_AddElement
  <2>2. Cardinality(T) <= Cardinality(S \cup {i}) /\ IsFiniteSet(T)
    BY <2>1, FS_Subset
  <2>3. Cardinality(T) \in Nat /\ Cardinality(S \cup {i}) \in Nat
    BY <2>1, <2>2, FS_CardinalityType
  <2>. QED  BY <1>1, <2>1, <2>2, <2>3
<1>4. ASSUME NEW i \in S, NEW T \in SUBSET (S \ {i}) PROVE Cardinality(T) + 1 <= Cardinality(S)
  <2>1. IsFiniteSet(S \ {i}) /\ Cardinality(S \ {i}) = Cardinality(S) - 1
    BY <1>1, FS_RemoveElement
  <2>2. Cardinality(T) <= Cardinality(S \ {i}) /\ IsFiniteSet(T)
    BY <2>1, FS_Subset
  <2>3. Cardinality(T) \in Nat
    BY <2>2, FS_CardinalityType
  <2>. QED  BY <1>1, <2>1, <2>2, <2>3
<1>. QED  BY <1>1, <1>2, <1>3, <1>4

\* Nobody is answered or lost, no orphan is made, and what is freed stays so.
Quiet(r) ==
  /\ answers'[r] = answers[r] /\ losses' = losses
  /\ place[r] = "acked" => place'[r] = "acked"
  /\ Orphaned(r)' \subseteq Orphaned(r) /\ Freed(r) \subseteq Freed(r)'

\* What one instance does to the two sets.
LEMMA SetsKept ==
  ASSUME NEW r \in Requests,
         \A j \in Instances :
           /\ phase[j] \in Forced => phase'[j] \in Forced
           /\ phase[j] \in Forced /\ Active(j, r) = 0 => Active(j, r)' = 0
           /\ phase'[j] \notin Forced /\ Active(j, r)' > 0 /\ ~Live(j, r)' =>
                Active(j, r) > 0 /\ ~Live(j, r)
  PROVE  Orphaned(r)' \subseteq Orphaned(r) /\ Freed(r) \subseteq Freed(r)'
BY DEF Orphaned, Freed

\* Requests that come and go, and the steps of a stop, concern no handler.
LEMMA BrokerIsQuiet ==
  ASSUME Inv, NEW r \in Requests,
         \/ \E s \in Requests : Send(s)
         \/ \E i \in Instances, s \in Requests : Deliver(i, s) \/ GiveBack(i, s) \/ Discard(i, s)
         \/ \E i \in Instances : BeginStop(i) \/ StopStep(i)
  PROVE  Quiet(r)
<1> USE RequestsAssumption
<1>0. TypeOK /\ HolderIsExact
  BY DEF Inv
<1>1. UNCHANGED <<calling, replying, answers, losses>> /\ \A j \in Instances : Active(j, r)' = Active(j, r)
  BY DEF Send, Deliver, GiveBack, Discard, BeginStop, StopStep, CancelConsumers, StopAccepting,
         ForceClose, Close, Active
<1>2. CASE UNCHANGED phase
  <2>1. /\ place[r] = "acked" => place'[r] = "acked"
        /\ \A j \in Instances : Live(j, r)' <=> Live(j, r)
    <3>1. CASE \E s \in Requests : Send(s)
      BY <1>0, <3>1 DEF Send, Move, Live, TypeOK
    <3>2. ASSUME NEW i \in Instances, NEW s \in Requests, Deliver(i, s) \/ GiveBack(i, s) \/ Discard(i, s)
          PROVE  /\ place[r] = "acked" => place'[r] = "acked"
                 /\ \A j \in Instances : Live(j, r)' <=> Live(j, r)
      <4>1. PICK w \in {"arrived", "queued", "acked"}, h \in Instances \cup {None} :
              Move(s, w, h) /\ place[s] \in {"queued", "arrived"}
        BY <3>2 DEF Deliver, GiveBack, Discard, Arrived
      <4>. QED  BY <1>0, <4>1 DEF Move, Live, TypeOK
    <3>3. ASSUME NEW i \in Instances, BeginStop(i) \/ StopStep(i) PROVE FALSE
      BY <1>0, <1>2, <3>3 DEF BeginStop, StopStep, CancelConsumers, StopAccepting, ForceClose, Close, TypeOK
    <3>. QED  BY <3>1, <3>2, <3>3
  <2>. QED  BY <1>1, <1>2, <2>1, SetsKept DEF Quiet
<1>3. ASSUME NEW i \in Instances, BeginStop(i) \/ CancelConsumers(i) \/ StopAccepting(i) \/ ForceClose(i)
      PROVE  Quiet(r)
  <2>1. \A j \in Instances : phase[j] \in Forced => phase'[j] \in Forced
    BY <1>0, <1>3 DEF BeginStop, CancelConsumers, StopAccepting, ForceClose, TypeOK, Forced
  <2>2. UNCHANGED holder /\ (place'[r] = place[r] \/ (place[r] = "queued" /\ place'[r] = "dropped"))
    BY <1>0, <1>3 DEF BeginStop, CancelConsumers, StopAccepting, ForceClose, TypeOK
  <2>. QED  BY <1>1, <2>1, <2>2, SetsKept DEF Quiet, Live
<1>4. ASSUME NEW i \in Instances, Close(i) PROVE Quiet(r)
  <2>1. /\ phase'[i] = "closed" /\ Active(i, r) = 0
        /\ \A j \in Instances : phase[j] \in Forced => phase'[j] \in Forced
    BY <1>0, <1>4 DEF Close, TypeOK, Forced
  <2>2. place[r] = "acked" => place'[r] = "acked"
    BY <1>0, <1>4 DEF Close, Release, TypeOK, HolderIsExact
  <2>3. \A j \in Instances : j # i /\ Live(j, r) => Live(j, r)'
    BY <1>0, <1>4, ReleaseMoves DEF Close
  <2>. QED  BY <1>1, <2>1, <2>2, <2>3, SetsKept DEF Quiet
<1>. QED  BY <1>2, <1>3, <1>4 DEF Send, Deliver, GiveBack, Discard, StopStep

\* A handler starts on a delivery that is live, where none is at work; the end of
\* a method, and of a handler cancelled in it, answers nobody.
LEMMA HandlerIsQuiet ==
  ASSUME Inv, NEW r \in Requests, NEW i \in Instances, NEW s \in Requests,
         Handle(i, s) \/ MethodEnds(i, s) \/ CancelledCalling(i, s)
  PROVE  Quiet(r)
<1>0. TypeOK /\ UNCHANGED <<phase, answers, losses>>
  BY DEF Inv, Handle, MethodEnds, CancelledCalling
<1>1. CASE Handle(i, s)
  <2>1. /\ place'[s] = "running" /\ holder'[s] = i /\ place[s] = "arrived" /\ phase[i] = "running"
        /\ \A q \in Requests \ {s} : place'[q] = place[q] /\ holder'[q] = holder[q]
        /\ UNCHANGED replying /\ calling' = [calling EXCEPT ![i][s] = calling[i][s] + 1]
    BY <1>0, <1>1 DEF Handle, Arrived, Move, TypeOK
  <2>2. calling[i][s] + 1 \in Nat
    BY <1>0, ActiveType
  <2>3. \A j \in Instances, q \in Requests : (j # i \/ q # s) => Active(j, q)' = Active(j, q)
    BY <1>0, <2>1, <2>2, EntryChanges DEF TypeOK, Active
  <2>. QED  BY <1>0, <2>1, <2>3, SetsKept DEF Quiet, Live, Forced
<1>2. CASE MethodEnds(i, s) /\ s \notin NoReplyTo
  <2>0. UNCHANGED <<place, holder>>
    BY <1>2 DEF MethodEnds
  <2>1. \A j \in Instances, q \in Requests : Active(j, q)' = Active(j, q)
    BY <1>2, MethodMoves
  <2>. QED  BY <1>0, <2>0, <2>1, SetsKept DEF Quiet, Live
<1>3. CASE (MethodEnds(i, s) /\ s \in NoReplyTo) \/ CancelledCalling(i, s)
  <2>1. \A j \in Instances, q \in Requests : Active(j, q)' = IF j = i /\ q = s THEN 0 ELSE Active(j, q)
    BY <1>3, HandlerLeaves
  <2>2. \/ UNCHANGED <<place, holder>>
        \/ Live(i, s) /\ \E w \in {"acked", "queued"} : Move(s, w, None)
    BY <1>3 DEF MethodEnds, CancelledCalling, Ack, RejectCancelled
  <2>3. /\ place[r] = "acked" => place'[r] = "acked"
        /\ \A j \in Instances : j # i /\ Live(j, r) => Live(j, r)'
        /\ r # s => UNCHANGED <<place[r], holder[r]>>
    BY <1>0, <2>2 DEF Move, Live, TypeOK
  <2>. QED  BY <1>0, <2>1, <2>3, SetsKept DEF Quiet, Live
<1>. QED  BY <1>1, <1>2, <1>3

\* The bound of AnswersInv for one request, as the sets and numbers change by what
\* one step can change them.
Balanced(r) == answers[r] + Cardinality(Orphaned(r)) <= losses + Cardinality(Freed(r)) + Acked(r)

\* The numbers in the bound.
LEMMA BalanceTypes ==
  ASSUME TypeOK, NEW r \in Requests
  PROVE  /\ Orphaned(r) \in SUBSET Instances /\ Freed(r) \in SUBSET Instances
         /\ answers[r] \in Nat /\ losses \in Nat /\ Acked(r) \in {0, 1}
         /\ Cardinality(Orphaned(r)) \in Nat /\ Cardinality(Freed(r)) \in Nat
<1>1. Orphaned(r) \in SUBSET Instances /\ Freed(r) \in SUBSET Instances
  BY DEF Orphaned, Freed
<1>. QED  BY <1>1, Counting, RequestsAssumption DEF TypeOK, Acked

\* Quiet steps keep the balance.
LEMMA QuietBalance ==
  ASSUME TypeOK, TypeOK', NEW r \in Requests, Quiet(r), Balanced(r)
  PROVE  Balanced(r)'
<1>1. Orphaned(r)' \in SUBSET Instances /\ Freed(r)' \in SUBSET Instances
  BY DEF Orphaned, Freed
<1>2. /\ Cardinality(Orphaned(r)') \in Nat /\ Cardinality(Freed(r)') \in Nat
      /\ Cardinality(Orphaned(r)') <= Cardinality(Orphaned(r))
      /\ Cardinality(Freed(r)) <= Cardinality(Freed(r)')
  BY <1>1, BalanceTypes, Counting DEF Quiet
<1>3. Acked(r)' \in {0, 1} /\ Acked(r) <= Acked(r)'
  BY DEF Quiet, Acked
<1>. QED  BY <1>2, <1>3, BalanceTypes DEF Quiet, Balanced

\* An answer is acknowledged, is that of an orphan, or frees a forced instance.
LEMMA AnswerBalance ==
  ASSUME Inv, TypeOK', NEW i \in Instances, NEW s \in Requests,
         ReplySent(i, s) \/ CancelledReplying(i, s), NEW r \in Requests, Balanced(r)
  PROVE  Balanced(r)'
<1>0. /\ TypeOK /\ UNCHANGED <<phase, losses>>
      /\ Active(i, s) = 1
      /\ \A j \in Instances, q \in Requests : Active(j, q)' = IF j = i /\ q = s THEN 0 ELSE Active(j, q)
  BY HandlerLeaves DEF Inv, ReplySent, CancelledReplying
<1>1. \/ UNCHANGED <<place, holder>> /\ ~Live(i, s)
      \/ Live(i, s) /\ Move(s, "acked", None) /\ ReplySent(i, s)
      \/ Live(i, s) /\ Move(s, "queued", None) /\ CancelledReplying(i, s)
  BY DEF ReplySent, CancelledReplying, Ack, RejectCancelled
<1>2. /\ r # s => place'[r] = place[r] /\ holder'[r] = holder[r] /\ answers'[r] = answers[r]
      /\ answers'[s] <= answers[s] + 1
  <2>1. r # s => place'[r] = place[r] /\ holder'[r] = holder[r]
    BY <1>0, <1>1 DEF Move, TypeOK
  <2>2. (r # s => answers'[r] = answers[r]) /\ answers'[s] <= answers[s] + 1
    BY <1>0 DEF TypeOK, ReplySent, CancelledReplying
  <2>. QED  BY <2>1, <2>2
<1>3. /\ place[r] = "acked" => place'[r] = "acked"
      /\ \A j \in Instances : j # i /\ Live(j, r) => Live(j, r)'
      /\ Live(i, s) /\ ReplySent(i, s) => place[s] = "running" /\ place'[s] = "acked"
  <2>1. Live(i, s) => place[s] = "running" /\ holder[s] = i
    BY DEF Live
  <2>2. /\ place[r] = "acked" => place'[r] = "acked"
        /\ \A j \in Instances : j # i /\ Live(j, r) => Live(j, r)'
    <3>1. CASE r # s
      BY <1>2, <3>1 DEF Live
    <3>2. CASE r = s
      BY <1>1, <2>1, <3>2 DEF Live
    <3>. QED  BY <3>1, <3>2
  <2>3. Live(i, s) /\ ReplySent(i, s) => Move(s, "acked", None)
    BY DEF ReplySent, Ack
  <2>. QED  BY <1>0, <2>1, <2>2, <2>3 DEF Move, TypeOK
<1>4. Orphaned(r)' \subseteq Orphaned(r) /\ Freed(r) \subseteq Freed(r)'
  <2>1. r # s => (Live(i, r)' <=> Live(i, r))
    BY <1>2 DEF Live
  <2>. QED  BY <1>0, <1>3, <2>1, SetsKept
<1>5. CASE r # s
  BY <1>0, <1>2, <1>3, <1>4, <1>5, QuietBalance DEF Quiet
<1>6. CASE r = s
  <2>0. /\ Orphaned(r)' \in SUBSET Instances /\ Freed(r)' \in SUBSET Instances
        /\ Cardinality(Orphaned(r)') \in Nat /\ Cardinality(Freed(r)') \in Nat
        /\ Cardinality(Orphaned(r)') <= Cardinality(Orphaned(r))
        /\ Cardinality(Freed(r)) <= Cardinality(Freed(r)')
        /\ answers'[r] \in Nat /\ answers'[r] <= answers[r] + 1
        /\ Acked(r)' \in {0, 1} /\ Acked(r) <= Acked(r)'
    <3>1. Orphaned(r)' \in SUBSET Instances /\ Freed(r)' \in SUBSET Instances
      BY DEF Orphaned, Freed
    <3>2. Acked(r)' \in {0, 1} /\ Acked(r) <= Acked(r)'
      BY <1>3 DEF Acked
    <3>3. answers'[r] \in Nat
      BY DEF TypeOK
    <3>. QED  BY <1>0, <1>2, <1>4, <1>6, <3>1, <3>2, <3>3, Counting, BalanceTypes
  <2>1. CASE ReplySent(i, s) /\ Live(i, s)
    <3>1. Acked(r) = 0 /\ Acked(r)' = 1
      BY <1>3, <1>6, <2>1 DEF Acked
    <3>. QED  BY <1>0, <2>0, <3>1, BalanceTypes DEF Balanced
  <2>2. CASE ReplySent(i, s) /\ ~Live(i, s)
    <3>1. i \in Orphaned(r) /\ i \notin Orphaned(r)'
      BY <1>0, <1>6, <2>2 DEF Orphaned, Forced, ReplySent, Undisturbed
    <3>2. Cardinality(Orphaned(r)') + 1 <= Cardinality(Orphaned(r))
      BY <1>0, <1>4, <3>1, Counting, BalanceTypes
    <3>. QED  BY <1>0, <2>0, <3>2, BalanceTypes DEF Balanced
  <2>3. CASE CancelledReplying(i, s)
    <3>1. i \in Freed(r)' /\ i \notin Freed(r)
      BY <1>0, <1>6, <2>3 DEF Freed, Forced, CancelledReplying
    <3>2. Cardinality(Freed(r)) + 1 <= Cardinality(Freed(r)')
      BY <1>4, <2>0, <3>1, Counting
    <3>. QED  BY <1>0, <2>0, <3>2, BalanceTypes DEF Balanced
  <2>. QED  BY <2>1, <2>2, <2>3
<1>. QED  BY <1>5, <1>6

\* A lost connection makes one orphan at most, and a crash undoes one forced close
\* at most; each is a loss.
LEMMA LossBalance ==
  ASSUME Inv, TypeOK', NEW i \in Instances, ConnectionLost(i) \/ Crash(i),
         NEW r \in Requests, Balanced(r)
  PROVE  Balanced(r)'
<1>0. TypeOK /\ HolderIsExact /\ UNCHANGED answers /\ losses' = losses + 1
  BY DEF Inv, ConnectionLost, Crash
<1>1. Release(i, {"queued", "arrived", "running"})
  BY DEF ConnectionLost, Crash
<1>2. /\ \A j \in Instances : j # i /\ Live(j, r) => Live(j, r)'
      /\ place[r] = "acked" => place'[r] = "acked"
  <2>1. \A j \in Instances : j # i /\ Live(j, r) => Live(j, r)'
    BY <1>0, <1>1, ReleaseMoves
  <2>2. place[r] = "acked" => place'[r] = "acked"
    BY <1>0, <1>1, RequestsAssumption DEF Release, TypeOK, HolderIsExact
  <2>. QED  BY <2>1, <2>2
<1>3. /\ \A j \in Instances \ {i} : phase'[j] = phase[j] /\ Active(j, r)' = Active(j, r)
      /\ ConnectionLost(i) => UNCHANGED phase /\ Active(i, r)' = Active(i, r)
      /\ Crash(i) => Active(i, r)' = 0
  BY <1>0 DEF ConnectionLost, Crash, Active, TypeOK
<1>4. /\ Orphaned(r)' \in SUBSET Instances /\ Freed(r)' \in SUBSET Instances
      /\ Cardinality(Orphaned(r)') \in Nat /\ Cardinality(Freed(r)') \in Nat
      /\ Acked(r)' \in {0, 1} /\ Acked(r) <= Acked(r)'
  <2>1. Orphaned(r)' \in SUBSET Instances /\ Freed(r)' \in SUBSET Instances
    BY DEF Orphaned, Freed
  <2>. QED  BY <1>2, <2>1, Counting DEF Acked
<1>5. CASE ConnectionLost(i)
  <2>1. Orphaned(r)' \subseteq Orphaned(r) \cup {i} /\ Freed(r) \subseteq Freed(r)'
    BY <1>2, <1>3, <1>5 DEF Orphaned, Freed
  <2>2. /\ Cardinality(Orphaned(r)') <= Cardinality(Orphaned(r)) + 1
        /\ Cardinality(Freed(r)) <= Cardinality(Freed(r)')
    BY <1>0, <1>4, <2>1, Counting, BalanceTypes
  <2>. QED  BY <1>0, <1>4, <2>2, BalanceTypes DEF Balanced
<1>6. CASE Crash(i)
  <2>1. Orphaned(r)' \subseteq Orphaned(r) /\ Freed(r) \subseteq Freed(r)' \cup {i}
    BY <1>2, <1>3, <1>6 DEF Orphaned, Freed
  <2>2. /\ Cardinality(Orphaned(r)') <= Cardinality(Orphaned(r))
        /\ Cardinality(Freed(r)) <= Cardinality(Freed(r)') + 1
    BY <1>0, <1>4, <2>1, Counting, BalanceTypes
  <2>. QED  BY <1>0, <1>4, <2>2, BalanceTypes DEF Balanced
<1>. QED  BY <1>5, <1>6

\* Every step keeps every request's balance.
LEMMA NextAnswersInv == Inv /\ Inv' /\ AnswersInv /\ [Next]_vars => AnswersInv'
<1> SUFFICES ASSUME Inv, Inv', AnswersInv, [Next]_vars, NEW r \in Requests PROVE Balanced(r)'
  BY DEF AnswersInv, Balanced
<1>0. TypeOK /\ TypeOK' /\ Balanced(r)
  BY DEF Inv, AnswersInv, Balanced
<1>1. CASE UNCHANGED vars \/ AllDown
  <2>1. UNCHANGED vars
    BY <1>1 DEF AllDown
  <2>. QED  BY <1>0, <2>1 DEF vars, Balanced, Orphaned, Freed, Acked, Active, Live
<1>2. CASE \E s \in Requests : Send(s)
  BY <1>0, <1>2, BrokerIsQuiet, QuietBalance
<1>3. ASSUME NEW i \in Instances, NEW s \in Requests, HandlerStep(i, s) PROVE Balanced(r)'
  BY <1>0, <1>3, BrokerIsQuiet, HandlerIsQuiet, QuietBalance, AnswerBalance DEF HandlerStep
<1>4. ASSUME NEW i \in Instances, BeginStop(i) \/ StopStep(i) \/ ConnectionLost(i) \/ Crash(i)
      PROVE  Balanced(r)'
  BY <1>0, <1>4, BrokerIsQuiet, QuietBalance, LossBalance
<1>. QED  BY <1>1, <1>2, <1>3, <1>4 DEF Next

\* A caller is answered once, but for one more answer for each lost connection or
\* crash and one for each instance that was forced to close: a request is never
\* worked on again without such a cause.
THEOREM AnswersAreCaused == Spec => []ExtraAnswersHaveCause
<1>1. Init => AnswersInv
  <2> SUFFICES ASSUME Init, NEW r \in Requests PROVE Balanced(r)
    BY DEF AnswersInv, Balanced
  <2>1. TypeOK /\ Orphaned(r) = {}
    BY InitInv DEF Init, Inv, Orphaned, Active
  <2>2. Cardinality(Orphaned(r)) = 0
    BY <2>1, FS_EmptySet
  <2>. QED  BY <2>1, <2>2, BalanceTypes DEF Init, Balanced
<1>2. Inv /\ AnswersInv => ExtraAnswersHaveCause
  <2> SUFFICES ASSUME Inv, AnswersInv, NEW r \in Requests
               PROVE  answers[r] <= 1 + losses + Cardinality({i \in Instances : phase[i] \in Forced})
    BY DEF ExtraAnswersHaveCause
  <2>1. TypeOK /\ Balanced(r)
    BY DEF Inv, AnswersInv, Balanced
  <2>2. /\ Cardinality({i \in Instances : phase[i] \in Forced}) \in Nat
        /\ Cardinality(Freed(r)) <= Cardinality({i \in Instances : phase[i] \in Forced})
    <3>1. Freed(r) \subseteq {i \in Instances : phase[i] \in Forced}
      BY DEF Freed
    <3>. QED  BY <3>1, Counting
  <2>. QED  BY <2>1, <2>2, BalanceTypes DEF Balanced
<1>. QED  BY <1>1, <1>2, NextAnswersInv, InvHolds, PTL DEF Spec
=============================================================================
