------------------------ MODULE ActivityTrackerProofs ------------------------
(* Proofs about ActivityTracker: type correctness, the bound on how long an  *)
(* entry stays in the registry's lists and the time it stays there at least, *)
(* for every set of records, retention, cleanup interval and clock skew.     *)
EXTENDS ActivityTracker, TLAPS

\* The retention the setup computes is a positive number of minutes.
LEMMA TtlPositive == Ttl \in Nat /\ Ttl > 0
  BY TrackerAssumption DEF Ttl

-----------------------------------------------------------------------------
(* Type correctness *)

\* What is left of a list after a purge is a list of entries.
LEMMA PurgedType ==
  ASSUME NEW items \in Seq(Entries), NEW k \in 0..Len(items)
  PROVE  /\ Purged(items, k) \in Seq(Entries)
         /\ Len(Purged(items, k)) = Len(items) - k
         /\ \A i \in 1..(Len(items) - k) : Purged(items, k)[i] = items[k + i]
  <1>1. /\ k + 1 \in 1..(Len(items) + 1) /\ Len(items) \in Nat
    OBVIOUS
  <1>2. \A i \in (k + 1)..Len(items) : items[i] \in Entries
    OBVIOUS
  <1> QED BY <1>1, <1>2 DEF Purged

\* An entry made by a handler has the type of an entry.
LEMMA EntryType ==
  ASSUME TypeOK, NEW r \in Records
  PROVE  Entry(r) \in Entries
  BY TrackerAssumption DEF TypeOK, Entry, Entries

\* The fields of an entry in a list.
LEMMA EntryFields ==
  ASSUME NEW items \in Seq(Entries), NEW i \in 1..Len(items)
  PROVE  items[i] \in Entries /\ items[i].at \in Nat /\ items[i].ts \in Int
  <1>1. items[i] \in Entries
    OBVIOUS
  <1> QED BY <1>1 DEF Entries

\* A list is emptied by a crash and empty at the start.
LEMMA EmptyList == <<>> \in Seq(Entries) /\ Len(<<>>) = 0
  OBVIOUS

\* The registry starts with empty lists and nothing sent.
LEMMA InitTypeOK == Init => TypeOK
  <1> SUFFICES ASSUME Init PROVE TypeOK
    OBVIOUS
  <1>1. up \in BOOLEAN /\ disabled \in BOOLEAN /\ declared \in BOOLEAN
    BY DEF Init
  <1>2. events \in Seq(Entries) /\ exceptions \in Seq(Entries)
    BY EmptyList DEF Init
  <1>3. now \in 0..MaxTime /\ since \in 0..Interval /\ losses \in 0..MaxLosses
    BY TrackerAssumption DEF Init
  <1>4. /\ place \in [Records -> {"unsent", "queued", "unacked", "acked", "gone"}]
        /\ sent \in [Records -> Int]
    BY DEF Init
  <1> QED BY <1>1, <1>2, <1>3, <1>4 DEF TypeOK

\* Every step keeps the types; a handler appends an entry, a purge cuts a head off.
LEMMA NextTypeOK == TypeOK /\ [Next]_vars => TypeOK'
  <1> SUFFICES ASSUME TypeOK, [Next]_vars PROVE TypeOK'
    OBVIOUS
  <1> USE TrackerAssumption
  <1>1. CASE Setup BY <1>1 DEF TypeOK, Setup
  <1>2. CASE Cleanup
    <2>1. events' \in Seq(Entries) /\ exceptions' \in Seq(Entries)
      BY <1>2, PurgedType DEF TypeOK, Cleanup, PurgeEvents, PurgeExceptions
    <2> QED BY <1>2, <2>1 DEF TypeOK, Cleanup
  <1>3. CASE Tick BY <1>3 DEF TypeOK, Tick
  <1>4. CASE ConnectionLost BY <1>4 DEF TypeOK, ConnectionLost, Redelivered
  <1>5. CASE Crash
    <2>1. events' \in Seq(Entries) /\ exceptions' \in Seq(Entries)
      BY <1>5, EmptyList DEF Crash
    <2>2. up' \in BOOLEAN /\ disabled' \in BOOLEAN /\ declared' \in BOOLEAN
      BY <1>5 DEF TypeOK, Crash
    <2>3. /\ place' \in [Records -> {"unsent", "queued", "unacked", "acked", "gone"}]
          /\ sent' \in [Records -> Int]
          /\ now' \in 0..MaxTime /\ since' \in 0..Interval /\ losses' \in 0..MaxLosses
      BY <1>5 DEF TypeOK, Crash, Redelivered
    <2> QED BY <2>1, <2>2, <2>3 DEF TypeOK
  <1>6. ASSUME NEW r \in Records, RecordStep(r) PROVE TypeOK'
    <2>1. CASE Send(r)
      <3>1. Stamps(r) \subseteq Int
        BY DEF TypeOK, Stamps
      <3>2. sent' \in [Records -> Int]
        BY <2>1, <3>1 DEF TypeOK, Send
      <3> QED BY <2>1, <3>2 DEF TypeOK, Send
    <2>2. CASE HandleEvent(r)
      BY <2>2, EntryType DEF TypeOK, HandleEvent, Take
    <2>3. CASE HandleMalformed(r) BY <2>3 DEF TypeOK, HandleMalformed, Take
    <2>4. CASE HandleException(r)
      BY <2>4, EntryType DEF TypeOK, HandleException, Take
    <2>5. CASE ExceptionAnnounced(r) BY <2>5 DEF TypeOK, ExceptionAnnounced
    <2> QED BY <1>6, <2>1, <2>2, <2>3, <2>4, <2>5 DEF RecordStep
  <1>7. CASE UNCHANGED vars BY <1>7 DEF TypeOK, vars
  <1> QED BY <1>1, <1>2, <1>3, <1>4, <1>5, <1>6, <1>7 DEF Next, Horizon

\* The lists, the queues and the clock keep their types through handlers, purges,
\* lost connections and crashes.
THEOREM TypeCorrect == Spec => []TypeOK
  BY InitTypeOK, NextTypeOK, PTL DEF Spec

-----------------------------------------------------------------------------
(* Retention *)

\* A list is in the order of arrival and stamped no later than the skew allows.
InOrder(items) ==
  \A i, j \in 1..Len(items) : i <= j => items[i].at <= items[j].at

Stamped(items) ==
  \A i \in 1..Len(items) : items[i].ts <= items[i].at + Skew /\ items[i].at <= now

Ordered(items) == InOrder(items) /\ Stamped(items)

\* The last purge, since ago, did not have to remove the entry.
Young(e) == e.at + Ttl + Skew > now - since

\* What a list holds is young, or purges are blocked since before it was due.
EventsKept ==
  \A i \in 1..Len(events) : Young(events[i]) \/ Blocked(events[i], events)

ExceptionsKept ==
  \A i \in 1..Len(exceptions) :
    Young(exceptions[i]) \/ Blocked(exceptions[i], events) \/ Blocked(exceptions[i], exceptions)

\* The inductive invariant of the bound.
RetentionInv ==
  /\ Ordered(events) /\ Ordered(exceptions)
  /\ EventsKept /\ ExceptionsKept
  /\ \A r \in Records : sent[r] <= now + Skew
  /\ ~Recording => events = <<>> /\ exceptions = <<>>

\* An entry that is young is not due.
LEMMA YoungIsNotDue ==
  ASSUME TypeOK, NEW e \in Entries, Young(e)
  PROVE  now < Due(e)
  <1>1. now \in Nat /\ since \in 0..Interval /\ Interval \in Nat /\ Skew \in Nat /\ e.at \in Nat
    BY TrackerAssumption DEF TypeOK, Entries
  <1> QED BY <1>1, TtlPositive DEF Young, Due

\* What blocks purges is not purged itself,
LEMMA PurgeKeepsBlocked ==
  ASSUME NEW items \in Seq(Entries), NEW k \in 0..Len(items), IsCutoff(items, k),
         NEW e \in Entries, Blocked(e, items)
  PROVE  Blocked(e, Purged(items, k))
  <1>1. PICK i \in 1..Len(items) : items[i].rec \in Unreadable /\ items[i].at < Due(e)
    BY DEF Blocked
  <1>2. i > k
    BY <1>1, TrackerAssumption DEF IsCutoff, Expired
  <1>3. i - k \in 1..(Len(items) - k) /\ k + (i - k) = i
    BY <1>2
  <1>4. Len(Purged(items, k)) = Len(items) - k /\ Purged(items, k)[i - k] = items[i]
    BY <1>3, PurgedType
  <1> QED BY <1>1, <1>3, <1>4 DEF Blocked

\* stays when the list grows,
LEMMA AppendKeepsBlocked ==
  ASSUME NEW items \in Seq(Entries), NEW x \in Entries, NEW e \in Entries, Blocked(e, items)
  PROVE  Blocked(e, Append(items, x))
  <1>1. PICK i \in 1..Len(items) : items[i].rec \in Unreadable /\ items[i].at < Due(e)
    BY DEF Blocked
  <1>2. i \in 1..Len(Append(items, x)) /\ Append(items, x)[i] = items[i]
    OBVIOUS
  <1> QED BY <1>1, <1>2 DEF Blocked

\* and came before everything that is not yet due when a purge first raises.
LEMMA RaisingBlocks ==
  ASSUME TypeOK, NEW items \in Seq(Entries), Ordered(items), Raises(items),
         NEW e \in Entries, now < Due(e)
  PROVE  Blocked(e, items)
  <1>1. PICK k \in 1..Len(items) : items[k].rec \in Unreadable
    BY DEF Raises
  <1>2. items[k].at <= now /\ items[k].at \in Nat /\ now \in Nat
    BY EntryFields DEF Ordered, Stamped, TypeOK
  <1>3. Due(e) \in Int
    BY TtlPositive, TrackerAssumption DEF Due, Entries
  <1> QED BY <1>1, <1>2, <1>3 DEF Blocked

\* The arithmetic of the bound: b arrived no earlier than a, whose timestamp t has
\* not expired at n.
LEMMA YoungArithmetic ==
  ASSUME NEW t \in Int, NEW a \in Nat, NEW b \in Nat,
         NEW n \in Nat, NEW ttl \in Nat, NEW skew \in Nat,
         t > n - ttl, t <= a + skew, a <= b
  PROVE  b + ttl + skew > n
  OBVIOUS

\* A purge that does not raise leaves nothing that arrived a retention and a skew
\* ago: the first entry it keeps is too young for that, and those behind it arrived
\* later.
LEMMA PurgeLeavesYoung ==
  ASSUME TypeOK, NEW items \in Seq(Entries), NEW k \in 0..Len(items),
         Ordered(items), IsCutoff(items, k), ~Raises(items)
  PROVE  /\ Ordered(Purged(items, k))
         /\ \A i \in 1..Len(Purged(items, k)) : Purged(items, k)[i].at + Ttl + Skew > now
  <1> DEFINE rest == Purged(items, k)
  <1> USE TtlPositive, TrackerAssumption
  <1>1. /\ Len(items) \in Nat /\ k \in Nat /\ now \in Nat
        /\ Len(rest) = Len(items) - k
        /\ \A i \in 1..Len(rest) : rest[i] = items[k + i] /\ k + i \in 1..Len(items)
    BY PurgedType DEF TypeOK
  <1>2. \A i \in 1..Len(items) : items[i].at \in Nat /\ items[i].ts \in Int
    BY EntryFields
  <1> HIDE DEF rest
  <1>3. InOrder(rest)
    <2>1. ASSUME NEW i \in 1..Len(rest), NEW j \in 1..Len(rest), i <= j
          PROVE  rest[i].at <= rest[j].at
      <3>1. k + i \in 1..Len(items) /\ k + j \in 1..Len(items) /\ k + i <= k + j
        BY <1>1, <2>1
      <3>2. items[k + i].at <= items[k + j].at
        BY <3>1 DEF Ordered, InOrder
      <3> QED BY <1>1, <3>2
    <2> QED BY <2>1 DEF InOrder
  <1>4. Stamped(rest)
    BY <1>1 DEF Ordered, Stamped
  <1>5. ASSUME NEW i \in 1..Len(rest) PROVE rest[i].at + Ttl + Skew > now
    <2>1. k + 1 \in 1..Len(items) /\ k + i \in 1..Len(items) /\ k + 1 <= k + i
      BY <1>1
    <2>2. ~Expired(items[k + 1])
      BY <1>1, <2>1 DEF IsCutoff
    <2>0. items[k + 1].rec \notin Unreadable
      <3>1. \A j \in 1..((k + 1) - 1) : Expired(items[j])
        BY <1>1 DEF IsCutoff
      <3> QED BY <2>1, <3>1 DEF Raises
    <2>3. items[k + 1].ts > now - Ttl
      BY <1>1, <1>2, <2>0, <2>1, <2>2 DEF Expired
    <2>4. items[k + 1].ts <= items[k + 1].at + Skew
      BY <2>1 DEF Ordered, Stamped
    <2>5. items[k + 1].at <= items[k + i].at
      BY <2>1 DEF Ordered, InOrder
    <2>6. /\ items[k + 1].at \in Nat /\ items[k + 1].ts \in Int /\ items[k + i].at \in Nat
          /\ rest[i] = items[k + i]
      BY <1>1, <1>2, <2>1
    <2>7. Skew \in Nat /\ Ttl \in Nat /\ now \in Nat
      BY <1>1
    <2>8. items[k + i].at + Ttl + Skew > now
      BY <2>3, <2>4, <2>5, <2>6, <2>7, YoungArithmetic
    <2> QED BY <2>6, <2>8
  <1> QED BY <1>3, <1>4, <1>5 DEF rest, Ordered

\* An entry that arrives now keeps a list in order.
LEMMA AppendOrdered ==
  ASSUME TypeOK, NEW items \in Seq(Entries), Ordered(items),
         NEW r \in Records, sent[r] <= now + Skew
  PROVE  /\ Ordered(Append(items, Entry(r)))
         /\ Young(Entry(r))
         /\ \A i \in 1..Len(Append(items, Entry(r))) :
              \/ i \in 1..Len(items) /\ Append(items, Entry(r))[i] = items[i]
              \/ Append(items, Entry(r))[i] = Entry(r)
  <1> DEFINE e == Entry(r)
             more == Append(items, e)
  <1> USE TtlPositive, TrackerAssumption
  <1>1. e \in Entries /\ e.at = now /\ e.ts <= now + Skew
    BY EntryType DEF Entry
  <1>2. /\ Len(more) = Len(items) + 1 /\ Len(items) \in Nat
        /\ \A i \in 1..Len(items) : more[i] = items[i] /\ items[i] \in Entries
        /\ more[Len(items) + 1] = e
    BY <1>1
  <1> HIDE DEF more, e
  <1>3. now \in Nat /\ since \in Nat
    BY DEF TypeOK
  <1>4. ASSUME NEW i \in 1..Len(more)
        PROVE  \/ i \in 1..Len(items) /\ more[i] = items[i]
               \/ i = Len(items) + 1 /\ more[i] = e
    BY <1>2
  <1>5. \A i \in 1..Len(items) : items[i].at \in Nat /\ items[i].ts \in Int /\ items[i].at <= now
    BY <1>2 DEF Entries, Ordered, Stamped
  <1>6. InOrder(more)
    BY <1>1, <1>2, <1>3, <1>4, <1>5, SMTT(30) DEF Ordered, InOrder
  <1>7. Stamped(more)
    BY <1>1, <1>2, <1>3, <1>4, <1>5 DEF Ordered, Stamped
  <1>8. Young(e)
    BY <1>1, <1>3 DEF Young
  <1> QED BY <1>4, <1>6, <1>7, <1>8 DEF Ordered, more, e

\* The empty lists hold nothing that is overdue.
LEMMA InitRetentionInv == Init => RetentionInv
  BY TrackerAssumption
  DEF Init, RetentionInv, Ordered, InOrder, Stamped, EventsKept, ExceptionsKept, Recording

\* A round of the cleanup task keeps the invariant, whether it purges both lists,
\* only the events, or raises at its first entry.
LEMMA CleanupRetentionInv ==
  ASSUME TypeOK, RetentionInv, Cleanup
  PROVE  RetentionInv'
  <1> USE TrackerAssumption
  <1>0. /\ events \in Seq(Entries) /\ exceptions \in Seq(Entries)
        /\ now \in Nat /\ since \in Nat
        /\ Ordered(events) /\ Ordered(exceptions)
        /\ now' = now /\ since' = 0 /\ sent' = sent /\ Recording /\ Recording'
    BY DEF TypeOK, RetentionInv, Cleanup, Recording
  <1>1. /\ \A i \in 1..Len(events) : now < Due(events[i]) \/ Blocked(events[i], events)
        /\ \A i \in 1..Len(exceptions) :
             \/ now < Due(exceptions[i])
             \/ Blocked(exceptions[i], events) \/ Blocked(exceptions[i], exceptions)
    BY <1>0, EntryFields, YoungIsNotDue DEF RetentionInv, EventsKept, ExceptionsKept
  <1>2. CASE PurgeEvents
    <2>1. PICK k \in 0..Len(events) : IsCutoff(events, k) /\ events' = Purged(events, k)
      BY <1>2 DEF PurgeEvents
    <2>2. /\ Ordered(events')
          /\ \A i \in 1..Len(events') : events'[i].at + Ttl + Skew > now
      BY <1>0, <1>2, <2>1, PurgeLeavesYoung DEF PurgeEvents
    <2>3. Ordered(events)' /\ EventsKept'
      BY <1>0, <2>2 DEF Ordered, InOrder, Stamped, EventsKept, Young
    <2>4. \A i \in 1..Len(exceptions) :
            Blocked(exceptions[i], events) => Blocked(exceptions[i], events')
      BY <1>0, <2>1, EntryFields, PurgeKeepsBlocked
    <2>5. CASE PurgeExceptions
      <3>1. PICK m \in 0..Len(exceptions) :
              IsCutoff(exceptions, m) /\ exceptions' = Purged(exceptions, m)
        BY <2>5 DEF PurgeExceptions
      <3>2. /\ Ordered(exceptions')
            /\ \A i \in 1..Len(exceptions') : exceptions'[i].at + Ttl + Skew > now
        BY <1>0, <2>5, <3>1, PurgeLeavesYoung DEF PurgeExceptions
      <3>3. Ordered(exceptions)' /\ ExceptionsKept'
        BY <1>0, <3>2 DEF Ordered, InOrder, Stamped, ExceptionsKept, Young
      <3> QED BY <1>0, <2>3, <3>3 DEF RetentionInv
    <2>6. CASE Raises(exceptions) /\ UNCHANGED exceptions
      <3>1. \A i \in 1..Len(exceptions) :
              Blocked(exceptions[i], events') \/ Blocked(exceptions[i], exceptions)
        BY <1>0, <1>1, <2>4, <2>6, EntryFields, RaisingBlocks
      <3>2. Ordered(exceptions)' /\ ExceptionsKept'
        BY <1>0, <2>6, <3>1 DEF Ordered, InOrder, Stamped, ExceptionsKept
      <3> QED BY <1>0, <2>3, <3>2 DEF RetentionInv
    <2>7. PurgeExceptions \/ (Raises(exceptions) /\ UNCHANGED exceptions)
      BY <1>2 DEF Cleanup, PurgeEvents
    <2> QED BY <2>5, <2>6, <2>7
  <1>3. CASE Raises(events) /\ UNCHANGED <<events, exceptions>>
    <2>1. \A i \in 1..Len(events) : Blocked(events[i], events)
      BY <1>0, <1>1, <1>3, EntryFields, RaisingBlocks
    <2>2. \A i \in 1..Len(exceptions) :
            Blocked(exceptions[i], events) \/ Blocked(exceptions[i], exceptions)
      BY <1>0, <1>1, <1>3, EntryFields, RaisingBlocks
    <2>3. Ordered(events)' /\ Ordered(exceptions)'
      BY <1>0, <1>3 DEF Ordered, InOrder, Stamped
    <2>4. EventsKept' /\ ExceptionsKept'
      BY <1>3, <2>1, <2>2 DEF EventsKept, ExceptionsKept
    <2> QED BY <1>0, <2>3, <2>4 DEF RetentionInv
  <1> QED BY <1>2, <1>3 DEF Cleanup

\* Every step keeps it: a purge by CleanupRetentionInv, a handler by AppendOrdered,
\* and the clock because the cleanup task's sleep is counted with it.
LEMMA NextRetentionInv == TypeOK /\ RetentionInv /\ [Next]_vars => RetentionInv'
  <1> SUFFICES ASSUME TypeOK, RetentionInv, [Next]_vars PROVE RetentionInv'
    OBVIOUS
  <1> USE TrackerAssumption
  <1>0. /\ events \in Seq(Entries) /\ exceptions \in Seq(Entries)
        /\ now \in Nat /\ since \in Nat
        /\ Ordered(events) /\ Ordered(exceptions) /\ EventsKept /\ ExceptionsKept
    BY DEF TypeOK, RetentionInv
  <1>1. /\ \A i \in 1..Len(events) : events[i] \in Entries /\ events[i].at \in Nat
        /\ \A i \in 1..Len(exceptions) : exceptions[i] \in Entries /\ exceptions[i].at \in Nat
    BY <1>0, EntryFields
  <1>3. CASE Setup
    BY <1>3 DEF Setup, RetentionInv, Recording, Ordered, InOrder, Stamped, EventsKept, ExceptionsKept
  <1>4. CASE Tick
    <2>1. now' = now + 1 /\ UNCHANGED <<events, exceptions, sent, up, disabled>>
      BY <1>4 DEF Tick
    <2>2. Ordered(events)' /\ Ordered(exceptions)'
      <3>1. \A n \in Nat : n <= now => n <= now + 1
        BY <1>0
      <3> QED BY <1>0, <1>1, <2>1, <3>1 DEF Ordered, InOrder, Stamped
    <2>3. \A r \in Records : sent'[r] <= now' + Skew
      BY <1>0, <2>1 DEF RetentionInv, TypeOK
    <2>4. CASE Recording
      <3>1. now' - since' = now - since
        BY <1>0, <1>4, <2>1, <2>4 DEF Tick
      <3>2. EventsKept' /\ ExceptionsKept'
        BY <1>0, <2>1, <3>1 DEF EventsKept, ExceptionsKept, Young
      <3> QED BY <2>1, <2>2, <2>3, <2>4, <3>2 DEF RetentionInv, Recording
    <2>5. CASE ~Recording
      <3>1. events' = <<>> /\ exceptions' = <<>>
        BY <2>1, <2>5 DEF RetentionInv
      <3>2. EventsKept' /\ ExceptionsKept'
        BY <3>1 DEF EventsKept, ExceptionsKept
      <3> QED BY <2>1, <2>2, <2>3, <3>1, <3>2 DEF RetentionInv
    <2> QED BY <2>4, <2>5
  <1>5. CASE ConnectionLost \/ UNCHANGED vars
    BY <1>5, SMTT(30) DEF ConnectionLost, vars, RetentionInv, Recording, Ordered, InOrder, Stamped,
                EventsKept, ExceptionsKept, Young
  <1>6. CASE Crash
    BY <1>6 DEF Crash, RetentionInv, Recording, Ordered, InOrder, Stamped, EventsKept, ExceptionsKept
  <1>7. ASSUME NEW r \in Records, RecordStep(r) PROVE RetentionInv'
    <2>0. UNCHANGED <<now, since, up, disabled>>
      BY <1>7 DEF RecordStep, Send, HandleEvent, HandleMalformed, HandleException,
                  ExceptionAnnounced, Take
    <2>1. CASE Send(r)
      <3>1. UNCHANGED <<events, exceptions>>
        BY <2>1 DEF Send
      <3>2. \A q \in Records : sent'[q] <= now' + Skew
        <4>1. CASE UNCHANGED sent
          BY <2>0, <4>1 DEF RetentionInv
        <4>2. CASE \E ts \in Stamps(r) : sent' = [sent EXCEPT ![r] = ts]
          <5>1. PICK ts \in Stamps(r) : sent' = [sent EXCEPT ![r] = ts]
            BY <4>2
          <5>2. ts <= now + Skew
            BY <1>0, <5>1 DEF Stamps
          <5>3. \A q \in Records : sent'[q] = IF q = r THEN ts ELSE sent[q]
            BY <5>1 DEF TypeOK
          <5> QED BY <2>0, <5>2, <5>3 DEF RetentionInv
        <4> QED BY <2>1, <4>1, <4>2 DEF Send
      <3> QED BY <2>0, <3>1, <3>2 DEF RetentionInv, Recording, Ordered, InOrder, Stamped,
                                      EventsKept, ExceptionsKept, Young
    <2>2. CASE HandleEvent(r)
      <3>1. /\ UNCHANGED <<exceptions, sent>> /\ Recording
            /\ events' = Append(events, Entry(r)) /\ Entry(r) \in Entries
        BY <2>2, EntryType DEF HandleEvent, Take
      <3>2. sent[r] <= now + Skew
        BY DEF RetentionInv
      <3>3. /\ Ordered(events') /\ Young(Entry(r))
            /\ \A i \in 1..Len(events') :
                 (i \in 1..Len(events) /\ events'[i] = events[i]) \/ events'[i] = Entry(r)
        BY <1>0, <3>1, <3>2, AppendOrdered
      <3>4. /\ \A i \in 1..Len(events) : Blocked(events[i], events) => Blocked(events[i], events')
            /\ \A i \in 1..Len(exceptions) :
                 Blocked(exceptions[i], events) => Blocked(exceptions[i], events')
        BY <1>0, <1>1, <3>1, AppendKeepsBlocked
      <3>5. Ordered(events)' /\ Ordered(exceptions)'
        BY <1>0, <2>0, <3>1, <3>3 DEF Ordered, InOrder, Stamped
      <3>6. \A i \in 1..Len(events') : Young(events'[i]) \/ Blocked(events'[i], events')
        BY <1>0, <3>3, <3>4 DEF EventsKept
      <3>7. EventsKept' /\ ExceptionsKept'
        BY <1>0, <2>0, <3>1, <3>4, <3>6 DEF EventsKept, ExceptionsKept, Young
      <3> QED BY <2>0, <3>1, <3>5, <3>7 DEF RetentionInv, Recording
    <2>3. CASE HandleMalformed(r) \/ ExceptionAnnounced(r)
      BY <2>0, <2>3 DEF HandleMalformed, ExceptionAnnounced, Take, RetentionInv, Recording, Ordered,
                        InOrder, Stamped, EventsKept, ExceptionsKept, Young
    <2>4. CASE HandleException(r)
      <3>1. /\ UNCHANGED <<events, sent>> /\ Recording
            /\ exceptions' = Append(exceptions, Entry(r)) /\ Entry(r) \in Entries
        BY <2>4, EntryType DEF HandleException, Take
      <3>2. sent[r] <= now + Skew
        BY DEF RetentionInv
      <3>3. /\ Ordered(exceptions') /\ Young(Entry(r))
            /\ \A i \in 1..Len(exceptions') :
                 \/ i \in 1..Len(exceptions) /\ exceptions'[i] = exceptions[i]
                 \/ exceptions'[i] = Entry(r)
        BY <1>0, <3>1, <3>2, AppendOrdered
      <3>4. \A i \in 1..Len(exceptions) :
              Blocked(exceptions[i], exceptions) => Blocked(exceptions[i], exceptions')
        BY <1>0, <1>1, <3>1, AppendKeepsBlocked
      <3>5. Ordered(events)' /\ Ordered(exceptions)'
        BY <1>0, <2>0, <3>1, <3>3 DEF Ordered, InOrder, Stamped
      <3>6. \A i \in 1..Len(exceptions') :
              \/ Young(exceptions'[i])
              \/ Blocked(exceptions'[i], events) \/ Blocked(exceptions'[i], exceptions')
        BY <1>0, <3>3, <3>4 DEF ExceptionsKept
      <3>7. EventsKept' /\ ExceptionsKept'
        BY <1>0, <2>0, <3>1, <3>6 DEF EventsKept, ExceptionsKept, Young
      <3> QED BY <2>0, <3>1, <3>5, <3>7 DEF RetentionInv, Recording
    <2> QED BY <1>7, <2>1, <2>2, <2>3, <2>4 DEF RecordStep
  <1>8. CASE Cleanup
    BY <1>8, CleanupRetentionInv
  <1> QED BY <1>3, <1>4, <1>5, <1>6, <1>7, <1>8 DEF Next, Horizon

\* Purging only the head of a list is enough: whatever order entries arrive in, none
\* stays longer than the retention, the skew and one cleanup interval, but for what
\* an unreadable entry that had arrived by then keeps in the lists.
THEOREM RetentionBounded == Spec => []RetentionIsBounded
  <1>1. TypeOK /\ RetentionInv => RetentionIsBounded
    <2> SUFFICES ASSUME TypeOK, RetentionInv PROVE RetentionIsBounded
      OBVIOUS
    <2>1. events \in Seq(Entries) /\ exceptions \in Seq(Entries)
      BY DEF TypeOK
    <2> QED BY <2>1, EntryFields, YoungIsNotDue
            DEF RetentionInv, EventsKept, ExceptionsKept, RetentionIsBounded
  <1> QED BY <1>1, TypeCorrect, InitRetentionInv, NextRetentionInv, PTL DEF Spec

-----------------------------------------------------------------------------
(* What is acknowledged is kept *)

\* The list holds the record with its timestamp.
Holds(items, r) == \E i \in 1..Len(items) : items[i].rec = r /\ items[i].ts = sent[r]

\* The inductive invariant: from its append on, also while its delivery is still
\* unacknowledged, a record stays until its timestamp is as old as the retention.
KeepingInv ==
  \A r \in Records \ (Undated \cup Malformed \cup Unreadable) :
    place[r] \in {"unacked", "acked"} /\ sent[r] > now - Ttl =>
      Holds(events, r) \/ Holds(exceptions, r)

\* A purge removes no record whose timestamp is younger than the retention.
LEMMA PurgeHolds ==
  ASSUME TypeOK, NEW items \in Seq(Entries), NEW k \in 0..Len(items), IsCutoff(items, k),
         NEW r \in Records \ Undated, sent[r] > now - Ttl, Holds(items, r)
  PROVE  Holds(Purged(items, k), r)
  <1> USE TtlPositive, TrackerAssumption
  <1>1. PICK i \in 1..Len(items) : items[i].rec = r /\ items[i].ts = sent[r]
    BY DEF Holds
  <1>2. now \in Int /\ sent[r] \in Int
    BY DEF TypeOK
  <1>3. ~Expired(items[i])
    BY <1>1, <1>2 DEF Expired
  <1>4. i > k
    BY <1>1, <1>3 DEF IsCutoff
  <1>5. /\ i - k \in 1..(Len(items) - k) /\ k + (i - k) = i
    BY <1>4
  <1>6. Len(Purged(items, k)) = Len(items) - k /\ Purged(items, k)[i - k] = items[i]
    BY <1>5, PurgedType
  <1> QED BY <1>1, <1>5, <1>6 DEF Holds

\* An append keeps what the list holds, and adds the record it appends.
LEMMA AppendHolds ==
  ASSUME TypeOK, NEW items \in Seq(Entries), NEW r \in Records
  PROVE  /\ Holds(Append(items, Entry(r)), r)
         /\ \A q \in Records : Holds(items, q) => Holds(Append(items, Entry(r)), q)
  <1> DEFINE more == Append(items, Entry(r))
  <1>1. Entry(r) \in Entries /\ Entry(r).rec = r /\ Entry(r).ts = sent[r]
    BY EntryType DEF Entry
  <1>2. /\ Len(more) = Len(items) + 1 /\ Len(items) \in Nat
        /\ \A i \in 1..Len(items) : more[i] = items[i]
        /\ more[Len(items) + 1] = Entry(r)
    BY <1>1
  <1> HIDE DEF more
  <1>3. Holds(more, r)
    BY <1>1, <1>2 DEF Holds
  <1>4. ASSUME NEW q \in Records, Holds(items, q) PROVE Holds(more, q)
    <2>1. PICK i \in 1..Len(items) : items[i].rec = q /\ items[i].ts = sent[q]
      BY <1>4 DEF Holds
    <2> QED BY <1>2, <2>1 DEF Holds
  <1> QED BY <1>3, <1>4 DEF more

\* Every step keeps it: handlers append before they acknowledge, and only a purge
\* or a crash removes.
LEMMA NextKeepingInv == TypeOK /\ KeepingInv /\ [Next]_vars => KeepingInv'
  <1> SUFFICES ASSUME TypeOK, KeepingInv, [Next]_vars,
                      NEW q \in Records \ (Undated \cup Malformed \cup Unreadable),
                      place'[q] \in {"unacked", "acked"}, sent'[q] > now' - Ttl
               PROVE  (Holds(events, q) \/ Holds(exceptions, q))'
    BY DEF KeepingInv
  <1> USE TrackerAssumption, TtlPositive
  <1>0. /\ events \in Seq(Entries) /\ exceptions \in Seq(Entries)
        /\ now \in Int /\ sent[q] \in Int
        /\ place \in [Records -> {"unsent", "queued", "unacked", "acked", "gone"}]
    BY DEF TypeOK
  <1>1. CASE UNCHANGED <<place, sent, events, exceptions>> /\ now' \in {now, now + 1}
    <2>1. sent[q] > now - Ttl
      BY <1>0, <1>1
    <2>2. Holds(events, q) \/ Holds(exceptions, q)
      BY <1>1, <2>1 DEF KeepingInv
    <2> QED BY <1>1, <2>2 DEF Holds
  <1>2. CASE Setup \/ Tick \/ UNCHANGED vars
    BY <1>1, <1>2 DEF Setup, Tick, vars
  <1>3. CASE ConnectionLost \/ Crash
    <2>1. CASE ConnectionLost
      <3>1. place[q] = "acked" /\ UNCHANGED <<sent, now, events, exceptions>>
        BY <1>0, <2>1 DEF ConnectionLost, Redelivered
      <3>2. Holds(events, q) \/ Holds(exceptions, q)
        BY <3>1 DEF KeepingInv
      <3> QED BY <3>1, <3>2 DEF Holds
    <2>2. CASE Crash
      BY <1>0, <2>2 DEF Crash, Redelivered
    <2> QED BY <1>3, <2>1, <2>2
  <1>4. CASE Cleanup
    <2>1. UNCHANGED <<place, sent, now>>
      BY <1>4 DEF Cleanup
    <2>2. Holds(events, q) \/ Holds(exceptions, q)
      BY <2>1 DEF KeepingInv
    <2>3. CASE Holds(events, q)
      <3>1. CASE PurgeEvents
        <4>1. PICK k \in 0..Len(events) : IsCutoff(events, k) /\ events' = Purged(events, k)
          BY <3>1 DEF PurgeEvents
        <4>2. Holds(events', q)
          BY <1>0, <2>1, <2>3, <4>1, PurgeHolds
        <4> QED BY <2>1, <4>2 DEF Holds
      <3>2. CASE UNCHANGED events
        BY <2>1, <2>3, <3>2 DEF Holds
      <3> QED BY <1>4, <3>1, <3>2 DEF Cleanup
    <2>4. CASE Holds(exceptions, q)
      <3>1. CASE PurgeExceptions
        <4>1. PICK k \in 0..Len(exceptions) :
                IsCutoff(exceptions, k) /\ exceptions' = Purged(exceptions, k)
          BY <3>1 DEF PurgeExceptions
        <4>2. Holds(exceptions', q)
          BY <1>0, <2>1, <2>4, <4>1, PurgeHolds
        <4> QED BY <2>1, <4>2 DEF Holds
      <3>2. CASE UNCHANGED exceptions
        BY <2>1, <2>4, <3>2 DEF Holds
      <3> QED BY <1>4, <3>1, <3>2 DEF Cleanup
    <2> QED BY <2>2, <2>3, <2>4
  <1>5. ASSUME NEW r \in Records, RecordStep(r)
        PROVE  (Holds(events, q) \/ Holds(exceptions, q))'
    <2>0. UNCHANGED now
      BY <1>5 DEF RecordStep, Send, HandleEvent, HandleMalformed, HandleException,
                  ExceptionAnnounced, Take
    <2>1. CASE Send(r)
      <3>1. q # r /\ place'[q] = place[q] /\ sent'[q] = sent[q]
        BY <1>0, <2>1 DEF Send, TypeOK
      <3>2. Holds(events, q) \/ Holds(exceptions, q)
        BY <2>0, <3>1 DEF KeepingInv
      <3> QED BY <2>1, <3>1, <3>2 DEF Send, Holds
    <2>2. CASE HandleEvent(r) \/ HandleException(r)
      <3>1. /\ sent' = sent
            /\ \/ events' = Append(events, Entry(r)) /\ exceptions' = exceptions
               \/ exceptions' = Append(exceptions, Entry(r)) /\ events' = events
            /\ q # r => place'[q] = place[q]
        BY <1>0, <2>2 DEF HandleEvent, HandleException, Take
      <3>2. q = r \/ Holds(events, q) \/ Holds(exceptions, q)
        BY <2>0, <3>1 DEF KeepingInv
      <3>3. /\ Holds(Append(events, Entry(r)), r)
            /\ Holds(events, q) => Holds(Append(events, Entry(r)), q)
            /\ Holds(Append(exceptions, Entry(r)), r)
            /\ Holds(exceptions, q) => Holds(Append(exceptions, Entry(r)), q)
        BY <1>0, AppendHolds
      <3>4. Holds(events', q) \/ Holds(exceptions', q)
        BY <3>1, <3>2, <3>3
      <3> QED BY <3>1, <3>4 DEF Holds
    <2>3. CASE HandleMalformed(r)
      <3>1. q # r /\ place'[q] = place[q] /\ UNCHANGED <<sent, events, exceptions>>
        BY <1>0, <2>3 DEF HandleMalformed, Take
      <3>2. Holds(events, q) \/ Holds(exceptions, q)
        BY <2>0, <3>1 DEF KeepingInv
      <3> QED BY <3>1, <3>2 DEF Holds
    <2>4. CASE ExceptionAnnounced(r)
      <3>1. place[q] \in {"unacked", "acked"} /\ UNCHANGED <<sent, events, exceptions>>
        BY <1>0, <2>4 DEF ExceptionAnnounced
      <3>2. Holds(events, q) \/ Holds(exceptions, q)
        BY <2>0, <3>1 DEF KeepingInv
      <3> QED BY <3>1, <3>2 DEF Holds
    <2> QED BY <1>5, <2>1, <2>2, <2>3, <2>4 DEF RecordStep
  <1> QED BY <1>2, <1>3, <1>4, <1>5 DEF Next, Horizon

\* A record the registry has acknowledged can be read until its timestamp is as old
\* as the retention, for every set of records and every order of arrival.
THEOREM UnexpiredKept == Spec => []KeepsUnexpired
  <1>1. Init => KeepingInv
    BY DEF Init, KeepingInv
  <1>2. KeepingInv => KeepsUnexpired
    BY DEF KeepingInv, KeepsUnexpired, Holds, Stored
  <1> QED BY <1>1, <1>2, TypeCorrect, NextKeepingInv, PTL DEF Spec
=============================================================================
