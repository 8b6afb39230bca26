--------------------------- MODULE ActivityTracker ---------------------------
(* The registry's record of what happens on the bus: ActivityTracker         *)
(* (registry/server/delegates/activity_tracking.py).  Hops and contexts go   *)
(* to the event timeline, exceptions to a store of their own; both lists     *)
(* grow at their end in the order of arrival and are purged from their head. *)
(* Timestamps are those of the sender's clock and deliveries may be late, so *)
(* the lists need not be ordered by timestamp.                               *)
EXTENDS Integers, Sequences, FiniteSets

CONSTANTS
  Records,      \* what services send
  Kind,         \* of each: "hop", "context" or "exception"
  Undated,      \* hops without a timestamp header, from other publishers
  Malformed,    \* bodies that cannot be decoded
  Unreadable,   \* timestamps that are no dates and exceptions that are no objects,
                \* from other publishers: stored, but _purge_expired raises at them
  TtlMinutes,   \* activity_tracker.ttl_minutes
  TtlHours,     \* activity_tracker.ttl_hours
  Interval,     \* activity_tracker.cleanup_interval_seconds, in minutes
  Skew,         \* how far a sender's clock is off
  MaxTime,      \* bound: the clock
  MaxLosses     \* bound: lost connections and crashes of the registry

ASSUME TrackerAssumption ==
  /\ IsFiniteSet(Records) /\ Kind \in [Records -> {"hop", "context", "exception"}]
  /\ Undated \subseteq Records /\ Malformed \subseteq Records
  /\ \A r \in Undated : Kind[r] = "hop"
  /\ Unreadable \subseteq Records \ (Undated \cup Malformed)
  /\ TtlMinutes \in Nat /\ TtlHours \in Nat /\ TtlMinutes + TtlHours > 0
  /\ Interval \in Nat \ {0} /\ Skew \in Nat /\ MaxTime \in Nat /\ MaxLosses \in Nat

VARIABLES
  up,          \* the registry runs
  disabled,    \* activity_tracker.disable of the running registry
  declared,    \* the durable queues exist and are bound
  place,       \* where each record is; "gone" if the broker or a crash dropped it
  sent,        \* the timestamp each record carries
  events,      \* ActivityTracker.events
  exceptions,  \* ActivityTracker.exceptions
  now,         \* the registry's clock
  since,       \* time since the cleanup task woke last
  losses       \* lost connections and crashes so far

vars == <<up, disabled, declared, place, sent, events, exceptions, now, since, losses>>

\* An entry of a list: the record, its timestamp and, for the properties, when
\* it was appended.
Entries == [rec : Records, ts : Int, at : Nat]

TypeOK ==
  /\ up \in BOOLEAN /\ disabled \in BOOLEAN /\ declared \in BOOLEAN
  /\ place \in [Records -> {"unsent", "queued", "unacked", "acked", "gone"}]
  /\ sent \in [Records -> Int]
  /\ events \in Seq(Entries) /\ exceptions \in Seq(Entries)
  /\ now \in 0..MaxTime /\ since \in 0..Interval /\ losses \in 0..MaxLosses

Init ==
  /\ up = FALSE /\ disabled = FALSE /\ declared = FALSE
  /\ place = [r \in Records |-> "unsent"] /\ sent = [r \in Records |-> 0]
  /\ events = <<>> /\ exceptions = <<>>
  /\ now = 0 /\ since = 0 /\ losses = 0

Recording == up /\ ~disabled

\* Minutes if set, otherwise hours.
Ttl == IF TtlMinutes > 0 THEN TtlMinutes ELSE TtlHours * 60

-----------------------------------------------------------------------------
(* setup *)

\* The registry starts.  With tracking on it declares its queues, which are
\* durable, and starts the cleanup task, whose first purge is due at once.
Setup ==
  /\ ~up
  /\ up' = TRUE
  /\ disabled' \in BOOLEAN
  /\ declared' = (declared \/ ~disabled')
  /\ since' = IF disabled' THEN 0 ELSE Interval
  /\ UNCHANGED <<place, sent, events, exceptions, now, losses>>

\* The timestamps a sender's clock may give now; 0 where there is none to read.
Stamps(r) ==
  IF r \in Undated \cup Malformed \cup Unreadable THEN {0} ELSE (now - Skew)..(now + Skew)

\* A service publishes, stamped by its own clock (external: Messenger and
\* ServiceRegistryClient); without a queue the broker drops the message.
Send(r) ==
  /\ place[r] = "unsent"
  /\ IF declared
     THEN /\ place' = [place EXCEPT ![r] = "queued"]
          /\ \E ts \in Stamps(r) : sent' = [sent EXCEPT ![r] = ts]
     ELSE place' = [place EXCEPT ![r] = "gone"] /\ UNCHANGED sent
  /\ UNCHANGED <<up, disabled, declared, events, exceptions, now, since, losses>>

-----------------------------------------------------------------------------
(* The handlers *)

Entry(r) == [rec |-> r, ts |-> sent[r], at |-> now]

Take(r, where) ==
  /\ Recording /\ place[r] = "queued"
  /\ place' = [place EXCEPT ![r] = where]
  /\ UNCHANGED <<up, disabled, declared, sent, now, since, losses>>

\* _handle_event keeps the headers, _handle_context the body; there is no await
\* between the delivery and its acknowledgement.
HandleEvent(r) ==
  /\ Kind[r] \in {"hop", "context"} /\ r \notin Malformed
  /\ Take(r, "acked")
  /\ events' = Append(events, Entry(r))
  /\ UNCHANGED exceptions

\* A body that cannot be decoded is logged, and acknowledged.
HandleMalformed(r) ==
  /\ Kind[r] \in {"context", "exception"} /\ r \in Malformed
  /\ Take(r, "acked")
  /\ UNCHANGED <<events, exceptions>>

\* _handle_exception appends, then awaits the publication of
\* registry.exception.recorded (which _handle_event skips when it comes back)
\* with the delivery still unacknowledged.
HandleException(r) ==
  /\ Kind[r] = "exception" /\ r \notin Malformed
  /\ Take(r, "unacked")
  /\ exceptions' = Append(exceptions, Entry(r))
  /\ UNCHANGED events

\* Published, or the error logged: the delivery is acknowledged.
ExceptionAnnounced(r) ==
  /\ up /\ place[r] = "unacked"
  /\ place' = [place EXCEPT ![r] = "acked"]
  /\ UNCHANGED <<up, disabled, declared, sent, events, exceptions, now, since, losses>>

-----------------------------------------------------------------------------
(* Cleanup *)

Expired(e) == e.rec \in Undated \/ (e.rec \notin Unreadable /\ e.ts <= now - Ttl)

\* Mutant of IsCutoff: the loop does not end at an entry that is kept.
CutsAtLastExpired(items, k) ==
  /\ k > 0 => Expired(items[k])
  /\ \A j \in (k + 1)..Len(items) : ~Expired(items[j])

\* Mutant of IsCutoff: nothing is removed unless everything has expired.
CutsAllOrNothing(items, k) ==
  k = IF \A j \in 1..Len(items) : Expired(items[j]) THEN Len(items) ELSE 0

\* The loop of _purge_expired ends at the first entry that has not expired.
IsCutoff(items, k) ==
  /\ \A j \in 1..k : Expired(items[j])
  /\ k < Len(items) => ~Expired(items[k + 1])

\* del items[:cutoff]
Purged(items, k) == SubSeq(items, k + 1, Len(items))

\* Comparing the timestamp, or reading it, raises in _purge_expired: the loop has
\* passed the entries ahead and comes to one it cannot read.
Raises(items) ==
  \E k \in 1..Len(items) :
    items[k].rec \in Unreadable /\ \A j \in 1..(k - 1) : Expired(items[j])

\* A call of _purge_expired that returns; one that raises has deleted nothing yet.
PurgeEvents ==
  /\ ~Raises(events)
  /\ \E k \in 0..Len(events) : IsCutoff(events, k) /\ events' = Purged(events, k)

PurgeExceptions ==
  /\ ~Raises(exceptions)
  /\ \E k \in 0..Len(exceptions) : IsCutoff(exceptions, k) /\ exceptions' = Purged(exceptions, k)

\* One round of _cleanup, and its sleep begins, after an error too, which is logged:
\* an entry that raises among the events ends the round for both lists.
Cleanup ==
  /\ Recording /\ since = Interval
  /\ \/ PurgeEvents /\ PurgeExceptions
     \/ PurgeEvents /\ Raises(exceptions) /\ UNCHANGED exceptions
     \/ Raises(events) /\ UNCHANGED <<events, exceptions>>
  /\ since' = 0
  /\ UNCHANGED <<up, disabled, declared, place, sent, now, losses>>

-----------------------------------------------------------------------------
(* Time and faults *)

\* The event loop wakes the cleanup task before the clock moves on.
Tick ==
  /\ now < MaxTime /\ (Recording => since < Interval)
  /\ now' = now + 1
  /\ since' = IF Recording THEN since + 1 ELSE since
  /\ UNCHANGED <<up, disabled, declared, place, sent, events, exceptions, losses>>

Redelivered == [r \in Records |-> IF place[r] = "unacked" THEN "queued" ELSE place[r]]

\* The connection is lost and restored: what was not acknowledged comes again.
ConnectionLost ==
  /\ up /\ losses < MaxLosses
  /\ place' = Redelivered
  /\ losses' = losses + 1
  /\ UNCHANGED <<up, disabled, declared, sent, events, exceptions, now, since>>

\* The registry process dies, and the lists with it: what it had acknowledged is
\* lost.
Crash ==
  /\ up /\ losses < MaxLosses
  /\ up' = FALSE
  /\ place' = [r \in Records |-> IF place[r] = "acked" THEN "gone" ELSE Redelivered[r]]
  /\ events' = <<>> /\ exceptions' = <<>>
  /\ losses' = losses + 1
  /\ UNCHANGED <<disabled, declared, sent, now, since>>

\* The bound of the clock is reached.
Horizon == now = MaxTime /\ UNCHANGED vars

RecordStep(r) ==
  \/ Send(r) \/ HandleEvent(r) \/ HandleMalformed(r)
  \/ HandleException(r) \/ ExceptionAnnounced(r)

Next ==
  \/ Setup \/ Cleanup \/ Tick \/ ConnectionLost \/ Crash \/ Horizon
  \/ \E r \in Records : RecordStep(r)

Spec == Init /\ [][Next]_vars

-----------------------------------------------------------------------------
(* Properties *)

\* When an entry is gone at the latest.
Due(e) == e.at + Ttl + Skew + Interval

\* An entry that ends the purges was in the list before e was due.
Blocked(e, items) ==
  \E i \in 1..Len(items) : items[i].rec \in Unreadable /\ items[i].at < Due(e)

\* Although only the head of a list is purged (_purge_expired), and a late
\* or wrongly stamped entry hides expired ones behind it, no entry outlives its
\* arrival by more than the retention, the clocks' skew and one cleanup interval,
\* unless an unreadable entry arrived before: among the events it ends the
\* retention of both lists, among the exceptions that of the exceptions only, and
\* what was due before it came is gone all the same.
RetentionIsBounded ==
  /\ \A i \in 1..Len(events) : now < Due(events[i]) \/ Blocked(events[i], events)
  /\ \A i \in 1..Len(exceptions) :
       \/ now < Due(exceptions[i])
       \/ Blocked(exceptions[i], events) \/ Blocked(exceptions[i], exceptions)

Stored(r) ==
  \E items \in {events, exceptions} : \E i \in 1..Len(items) : items[i].rec = r

\* A record the registry has acknowledged since it started can be read until its
\* timestamp is as old as the retention, although other records are purged,
\* connections are lost and records are delivered again.
KeepsUnexpired ==
  \A r \in Records \ (Undated \cup Malformed \cup Unreadable) :
    place[r] = "acked" /\ sent[r] > now - Ttl => Stored(r)
=============================================================================
