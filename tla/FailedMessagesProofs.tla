------------------------ MODULE FailedMessagesProofs ------------------------
(* Proofs about FailedMessages, for every set of concurrent calls, every count  *)
(* and every queue: no retained message is lost or in two hands, a replay      *)
(* never takes a message retained after its first publish, and no call takes    *)
(* more than its count.                                                         *)
EXTENDS FailedMessages, FiniteSetTheorems, SequenceTheorems, WellFoundedInduction, TLAPS

-----------------------------------------------------------------------------
(* The inductive invariant *)

\* No call holds a message twice.
HeldOnce ==
  \A c \in Calls : \A k, l \in DOMAIN held[c] : held[c][k] = held[c][l] => k = l

\* What a call's position says about the messages it holds: none outside the
\* channel's life, at least one to acknowledge, and for a replay one whose
\* publish was confirmed; only a replay publishes, and it is past taking then.
Progress ==
  \A c \in Calls :
    /\ pc[c] \in {"idle", "open", "replying", "done"} => held[c] = <<>>
    /\ pc[c] = "acking" => held[c] # <<>>
    /\ pc[c] = "acking" /\ Kind[c] = "replay" => Head(held[c]) \in confirmed
    /\ pc[c] = "publishing" => Kind[c] = "replay"
    /\ fence[c] # 0 => Kind[c] = "replay" /\ pc[c] \notin {"idle", "open", "taking"}

Inv ==
  /\ TypeOK
  /\ NothingVanishes
  /\ HeldOnce
  /\ Progress
  /\ ReplayTakesOnlyWaiting

-----------------------------------------------------------------------------
(* Sequences without repetitions, and least elements *)

Elems(s) == {s[k] : k \in DOMAIN s}
Once(s) == \A k, l \in DOMAIN s : s[k] = s[l] => k = l

\* Appending a new element to a sequence.
LEMMA AppendOnce ==
  ASSUME NEW S, NEW s \in Seq(S), NEW m \in S
  PROVE  /\ Append(s, m) \in Seq(S) /\ Append(s, m) # <<>>
         /\ Elems(Append(s, m)) = Elems(s) \cup {m}
         /\ Once(s) /\ m \notin Elems(s) => Once(Append(s, m))
<1> DEFINE t == Append(s, m)
<1>1. /\ t \in Seq(S) /\ t # <<>> /\ Len(t) = Len(s) + 1
      /\ DOMAIN s = 1..Len(s) /\ DOMAIN t = 1..Len(t) /\ Len(s) \in Nat
      /\ \A k \in 1..Len(s) : t[k] = s[k]
      /\ t[Len(s) + 1] = m
  BY AppendProperties
<1> HIDE DEF t
<1>2. Elems(t) = Elems(s) \cup {m}
  <2>1. \A k \in DOMAIN t : t[k] \in Elems(s) \cup {m}
    BY <1>1 DEF Elems
  <2>2. \A x \in Elems(s) \cup {m} : \E k \in DOMAIN t : x = t[k]
    BY <1>1 DEF Elems
  <2>. QED  BY <2>1, <2>2 DEF Elems
<1>3. Once(s) /\ m \notin Elems(s) => Once(t)
  BY <1>1 DEF Once, Elems
<1>. QED  BY <1>1, <1>2, <1>3 DEF t

\* Taking the head off a sequence.
LEMMA TailOnce ==
  ASSUME NEW S, NEW s \in Seq(S), s # <<>>
  PROVE  /\ Tail(s) \in Seq(S) /\ Head(s) \in S /\ Head(s) \in Elems(s)
         /\ Elems(Tail(s)) \cup {Head(s)} = Elems(s)
         /\ Once(s) => Once(Tail(s)) /\ Head(s) \notin Elems(Tail(s))
<1> DEFINE t == Tail(s)
<1>1. /\ t \in Seq(S) /\ Head(s) \in S /\ Head(s) = s[1] /\ Len(s) \in Nat \ {0} /\ Len(t) = Len(s) - 1
      /\ DOMAIN s = 1..Len(s) /\ DOMAIN t = 1..Len(t)
      /\ \A k \in 1..Len(t) : t[k] = s[k + 1]
  BY HeadTailProperties, EmptySeq
<1> HIDE DEF t
<1>2. Head(s) \in Elems(s)
  BY <1>1 DEF Elems
<1>3. Elems(t) \cup {Head(s)} = Elems(s)
  <2>1. \A k \in DOMAIN t : k + 1 \in DOMAIN s /\ t[k] = s[k + 1]
    BY <1>1
  <2>2. \A k \in DOMAIN s : k = 1 \/ (k - 1 \in DOMAIN t /\ t[k - 1] = s[k])
    BY <1>1
  <2>3. Elems(t) \subseteq Elems(s)
    BY <2>1 DEF Elems
  <2>4. Elems(s) \subseteq Elems(t) \cup {Head(s)}
    <3> SUFFICES ASSUME NEW k \in DOMAIN s PROVE s[k] \in Elems(t) \cup {Head(s)}
      BY DEF Elems
    <3>. QED  BY <1>1, <2>2 DEF Elems
  <2>. QED  BY <1>2, <2>3, <2>4
<1>4. Once(s) => Once(t)
  <2> SUFFICES ASSUME Once(s), NEW k \in DOMAIN t, NEW l \in DOMAIN t, t[k] = t[l] PROVE k = l
    BY DEF Once
  <2>1. /\ k + 1 \in DOMAIN s /\ l + 1 \in DOMAIN s /\ s[k + 1] = s[l + 1]
        /\ k \in Nat /\ l \in Nat
    BY <1>1
  <2>. QED  BY <2>1 DEF Once
<1>5. Once(s) => Head(s) \notin Elems(t)
  <2> SUFFICES ASSUME Once(s), NEW k \in DOMAIN t, t[k] = s[1] PROVE FALSE
    BY <1>1 DEF Elems
  <2>1. /\ k + 1 \in DOMAIN s /\ 1 \in DOMAIN s /\ s[k + 1] = s[1] /\ k \in Nat \ {0}
    BY <1>1
  <2>. QED  BY <2>1 DEF Once
<1>. QED  BY <1>1, <1>2, <1>3, <1>4, <1>5 DEF t

\* The empty sequence.
LEMMA EmptyOnce ==
  ASSUME NEW S
  PROVE  <<>> \in Seq(S) /\ Elems(<<>>) = {} /\ Once(<<>>)
BY DEF Elems, Once

\* A nonempty queue has an oldest message, the one queue.get returns.
LEMMA Oldest ==
  ASSUME NEW T \in SUBSET Nat, T # {}
  PROVE  (CHOOSE x \in T : \A y \in T : x <= y) \in T
<1> DEFINE R == {ss \in Nat \X Nat : ss[1] < ss[2]}
<1>1. R = OpToRel(<, Nat)
  BY Zenon DEF OpToRel
<1>2. IsWellFoundedOn(R, Nat)
  BY <1>1, NatLessThanWellFounded, Zenon
<1>3. PICK x \in T : \A y \in T : ~ (<<y, x>> \in R)
  <2> HIDE DEF R
  <2>. QED  BY <1>2, WFMin
<1>4. ASSUME NEW y \in T PROVE x <= y
  <2>1. y \in Nat /\ x \in Nat
    OBVIOUS
  <2>2. y < x => <<y, x>> \in R
    BY <2>1
  <2> HIDE DEF R
  <2>3. ~(y < x)
    BY <1>3, <2>2
  <2>. QED  BY <2>1, <2>3
<1>. QED  BY <1>4

-----------------------------------------------------------------------------
(* The invariant holds initially and is preserved by every action *)

\* The names of the model, in the terms of this module.
LEMMA HeldIs ==
  /\ \A c : HeldBy(c) = Elems(held[c]) /\ HeldBy(c)' = Elems(held'[c])
  /\ \A m : m \in Holding <=> \E c \in Calls : m \in Elems(held[c])
  /\ \A m : m \in Holding' <=> \E c \in Calls : m \in Elems(held'[c])
  /\ HeldOnce <=> \A c \in Calls : Once(held[c])
  /\ HeldOnce' <=> \A c \in Calls : Once(held'[c])
BY DEF HeldBy, Holding, Elems, HeldOnce, Once

\* All messages are in the queue at the start.
LEMMA InitInv == Init => Inv
<1> SUFFICES ASSUME Init PROVE Inv
  OBVIOUS
<1> USE CallsAssumption, QueueAssumption DEF Init
<1>1. \A c \in Calls : held[c] = <<>> /\ Elems(held[c]) = {} /\ Once(held[c])
  BY EmptyOnce
<1>2. TypeOK
  BY DEF TypeOK, Ids
<1>3. Holding = {} /\ \A c \in Calls : HeldBy(c) = {}
  BY <1>1, HeldIs
<1>4. NothingVanishes /\ ReplayTakesOnlyWaiting
  BY <1>3 DEF NothingVanishes, ReplayTakesOnlyWaiting
<1>5. HeldOnce
  BY <1>1, HeldIs
<1>6. Progress
  BY DEF Progress
<1>. QED  BY <1>2, <1>4, <1>5, <1>6 DEF Inv

\* Steps that only move a call on: nothing is taken, returned or removed.
LEMMA MoveOnInv ==
  ASSUME Inv, NEW c \in Calls,
         \/ Begin(c) \/ Inspect(c) \/ GotAll(c) \/ PublishRaises(c) \/ ReplayedAll(c) \/ Reply(c)
         \/ GiveBack(c) /\ held[c] = <<>>
  PROVE  Inv'
<1> USE CallsAssumption, QueueAssumption
<1>0. /\ TypeOK /\ UNCHANGED <<ready, last, held, removed, crashes, confirmed, dropped, fence>>
  BY DEF Inv, Begin, Inspect, GotAll, PublishRaises, ReplayedAll, Reply, GiveBack, hvars
<1>1. PICK l \in {"open", "taking", "returning", "publishing", "closing", "replying", "done"} :
        /\ pc' = [pc EXCEPT ![c] = l]
        /\ l \in {"open", "replying", "done"} => held[c] = <<>>
        /\ l = "publishing" => Kind[c] = "replay"
        /\ l \in {"open", "taking"} => fence[c] = 0
  <2>1. CASE Begin(c)
    BY <2>1 DEF Begin, Goto, Inv, Progress
  <2>2. CASE Inspect(c) \/ PublishRaises(c) \/ ReplayedAll(c) \/ Reply(c)
             \/ (GiveBack(c) /\ held[c] = <<>>)
    BY <2>2 DEF Inspect, PublishRaises, ReplayedAll, Reply, GiveBack, Goto, Inv, Progress
  <2>3. CASE GotAll(c)
    BY <2>3 DEF GotAll, Goto, After
  <2>. QED  BY <2>1, <2>2, <2>3
<1>2. count' \in [Calls -> Nat]
  <2>1. IsFiniteSet(1..MaxMessages)
    <3>1. 1 \in Int /\ MaxMessages \in Int
      OBVIOUS
    <3>. QED  BY <3>1, FS_Interval
  <2>2. ready \in SUBSET (1..MaxMessages)
    BY <1>0 DEF TypeOK, Ids
  <2>3. Cardinality(ready) \in Nat
    BY <2>1, <2>2, FS_Subset, FS_CardinalityType
  <2>. QED  BY <1>0, <2>3 DEF TypeOK, Begin, Inspect, GotAll, PublishRaises, ReplayedAll, Reply,
                             GiveBack
<1>3. TypeOK'
  BY <1>0, <1>1, <1>2 DEF TypeOK
<1>4. NothingVanishes' /\ HeldOnce' /\ ReplayTakesOnlyWaiting'
  <2>1. Holding' = Holding /\ \A d : HeldBy(d)' = HeldBy(d)
    BY <1>0 DEF Holding, HeldBy
  <2>2. NothingVanishes'
    BY <1>0, <2>1 DEF Inv, NothingVanishes
  <2>. QED  BY <1>0, <2>1, <2>2 DEF Inv, HeldOnce, ReplayTakesOnlyWaiting
<1>5. Progress'
  BY <1>0, <1>1 DEF Inv, TypeOK, Progress
<1>. QED  BY <1>3, <1>4, <1>5 DEF Inv

\* NothingVanishes, message by message.
LEMMA VanishesIs ==
  /\ NothingVanishes <=>
       /\ \A m : m \in 1..last <=>
            \/ m \in ready \/ m \in confirmed \/ m \in dropped
            \/ \E c \in Calls : m \in Elems(held[c])
       /\ \A c \in Calls : \A m \in Elems(held[c]) : m \notin ready
       /\ \A c, d \in Calls : c # d => \A m \in Elems(held[c]) : m \notin Elems(held[d])
  /\ NothingVanishes' <=>
       /\ \A m : m \in 1..last' <=>
            \/ m \in ready' \/ m \in confirmed' \/ m \in dropped'
            \/ \E c \in Calls : m \in Elems(held'[c])
       /\ \A c \in Calls : \A m \in Elems(held'[c]) : m \notin ready'
       /\ \A c, d \in Calls : c # d => \A m \in Elems(held'[c]) : m \notin Elems(held'[d])
<1>1. NothingVanishes <=>
       /\ \A m : m \in 1..last <=>
            \/ m \in ready \/ m \in confirmed \/ m \in dropped \/ m \in Holding
       /\ \A m \in Holding : m \notin ready
       /\ \A c, d \in Calls : c # d => \A m \in HeldBy(c) : m \notin HeldBy(d)
  BY DEF NothingVanishes
<1>2. NothingVanishes' <=>
       /\ \A m : m \in 1..last' <=>
            \/ m \in ready' \/ m \in confirmed' \/ m \in dropped' \/ m \in Holding'
       /\ \A m \in Holding' : m \notin ready'
       /\ \A c, d \in Calls : c # d => \A m \in HeldBy(c)' : m \notin HeldBy(d)'
  BY DEF NothingVanishes
<1>. QED  BY <1>1, <1>2, HeldIs

\* queue.get moves the oldest ready message into a call's hands.
LEMMA GetInv ==
  ASSUME Inv, NEW c \in Calls, Get(c)
  PROVE  Inv'
<1> USE CallsAssumption, QueueAssumption
<1> DEFINE m == CHOOSE x \in ready : \A y \in ready : x <= y
<1>0. /\ TypeOK /\ UNCHANGED <<last, removed, count, crashes, confirmed, dropped, fence>>
      /\ pc[c] = "taking" /\ ready # {}
  BY DEF Inv, Get, hvars
<1>1. m \in ready
  <2>1. ready \in SUBSET Nat
    BY <1>0 DEF TypeOK, Ids
  <2>. QED  BY <1>0, <2>1, Oldest
<1>2. /\ ready' = ready \ {m} /\ held' = [held EXCEPT ![c] = Append(held[c], m)]
      /\ Goto(c, IF Kind[c] = "list" /\ m \in Undecodable THEN "closing" ELSE After(c, "get"))
  BY DEF Get
<1> HIDE DEF m
<1>3. m \in Ids /\ held[c] \in Seq(Ids)
  BY <1>0, <1>1 DEF TypeOK
<1>4. \A d \in Calls : Once(held[d]) /\ m \notin Elems(held[d])
  BY <1>1, HeldIs, VanishesIs DEF Inv
<1>5. /\ held' \in [Calls -> Seq(Ids)]
      /\ Elems(held'[c]) = Elems(held[c]) \cup {m} /\ Once(held'[c]) /\ held'[c] # <<>>
      /\ \A d \in Calls \ {c} : held'[d] = held[d]
  BY <1>0, <1>2, <1>3, <1>4, AppendOnce DEF TypeOK
<1>6. /\ fence[c] = 0
      /\ \E l \in {"taking", "acking", "closing"} :
           /\ pc' = [pc EXCEPT ![c] = l]
           /\ l = "acking" => Kind[c] = "drop"
  BY <1>0, <1>2 DEF Goto, After, Inv, Progress
<1>7. TypeOK'
  BY <1>0, <1>2, <1>5, <1>6 DEF TypeOK
<1>8. HeldOnce'
  BY <1>4, <1>5, HeldIs
<1>9. Progress'
  BY <1>0, <1>5, <1>6 DEF Inv, TypeOK, Progress
<1>10. ReplayTakesOnlyWaiting'
  BY <1>0, <1>5, <1>6, HeldIs DEF Inv, ReplayTakesOnlyWaiting
<1>11. NothingVanishes'
  <2>1. \A d \in Calls : \A n : n \in Elems(held'[d]) <=> n \in Elems(held[d]) \/ (d = c /\ n = m)
    BY <1>5
  <2>2. \A n : n \in ready' <=> n \in ready /\ n # m
    BY <1>2
  <2>3. ASSUME NEW n
        PROVE  n \in 1..last <=> \/ n \in ready' \/ n \in confirmed \/ n \in dropped
                                 \/ \E d \in Calls : n \in Elems(held'[d])
    BY <1>1, <2>1, <2>2, VanishesIs DEF Inv
  <2>4. /\ \A d \in Calls : \A n \in Elems(held'[d]) : n \notin ready'
        /\ \A d, e \in Calls : d # e => \A n \in Elems(held'[d]) : n \notin Elems(held'[e])
    BY <1>4, <2>1, <2>2, VanishesIs DEF Inv
  <2>. QED  BY <1>0, <2>3, <2>4, VanishesIs
<1>. QED  BY <1>7, <1>8, <1>9, <1>10, <1>11 DEF Inv

\* What taking the head off held[c] means: it is the only copy, and the call held it.
LEMMA HeadLeaves ==
  ASSUME Inv, NEW c \in Calls, held[c] # <<>>, held' = [held EXCEPT ![c] = Tail(@)]
  PROVE  /\ held' \in [Calls -> Seq(Ids)]
         /\ Head(held[c]) \in Ids
         /\ HeldOnce'
         /\ \A d \in Calls \ {c} : held'[d] = held[d]
         /\ \A d \in Calls : \A n : n \in Elems(held'[d]) <=> n \in Elems(held[d]) /\ n # Head(held[c])
         /\ Head(held[c]) \in Elems(held[c])
<1>0. TypeOK /\ held[c] \in Seq(Ids) /\ Once(held[c])
  BY HeldIs DEF Inv, TypeOK
<1>1. /\ held' \in [Calls -> Seq(Ids)] /\ held'[c] = Tail(held[c])
      /\ \A d \in Calls \ {c} : held'[d] = held[d]
      /\ Head(held[c]) \in Ids
  BY <1>0, TailOnce DEF TypeOK
<1>2. /\ Elems(held'[c]) = Elems(held[c]) \ {Head(held[c])} /\ Once(held'[c])
      /\ Head(held[c]) \in Elems(held[c])
  BY <1>0, <1>1, TailOnce
<1>3. HeldOnce'
  BY <1>1, <1>2, HeldIs DEF Inv
<1>4. ASSUME NEW d \in Calls, NEW n
      PROVE  n \in Elems(held'[d]) <=> n \in Elems(held[d]) /\ n # Head(held[c])
  <2>1. CASE d = c
    BY <1>2, <2>1
  <2>2. CASE d # c
    <3>1. Head(held[c]) \notin Elems(held[d])
      BY <1>2, <2>2, VanishesIs DEF Inv
    <3>. QED  BY <1>1, <2>2, <3>1
  <2>. QED  BY <2>1, <2>2
<1>. QED  BY <1>1, <1>2, <1>3, <1>4

\* list gives a message back to the queue.
LEMMA GiveBackInv ==
  ASSUME Inv, NEW c \in Calls, GiveBack(c), held[c] # <<>>
  PROVE  Inv'
<1>0. /\ TypeOK /\ UNCHANGED <<last, pc, removed, count, crashes, confirmed, dropped, fence>>
      /\ pc[c] = "returning"
      /\ ready' = ready \cup {Head(held[c])} /\ held' = [held EXCEPT ![c] = Tail(@)]
  BY DEF Inv, GiveBack, hvars
<1>1. /\ held' \in [Calls -> Seq(Ids)]
      /\ Head(held[c]) \in Ids
      /\ HeldOnce'
      /\ \A d \in Calls \ {c} : held'[d] = held[d]
      /\ \A d \in Calls : \A n : n \in Elems(held'[d]) <=> n \in Elems(held[d]) /\ n # Head(held[c])
      /\ Head(held[c]) \in Elems(held[c])
  BY <1>0, HeadLeaves
<1>2. TypeOK'
  BY <1>0, <1>1 DEF TypeOK
<1>3. Progress'
  BY <1>0, <1>1 DEF Inv, Progress
<1>4. ReplayTakesOnlyWaiting'
  BY <1>0, <1>1, HeldIs DEF Inv, ReplayTakesOnlyWaiting
<1>5. NothingVanishes'
  <2>1. \A n : n \in ready' <=> n \in ready \/ n = Head(held[c])
    BY <1>0
  <2>. QED  BY <1>0, <1>1, <2>1, VanishesIs DEF Inv
<1>. QED  BY <1>1, <1>2, <1>3, <1>4, <1>5 DEF Inv

\* A message is acknowledged only when it is to be dropped or its replay was
\* confirmed.
LEMMA RemoveInv ==
  ASSUME Inv, NEW c \in Calls, DropOne(c) \/ ReplayOne(c)
  PROVE  Inv'
<1> USE CallsAssumption, QueueAssumption
<1>0. /\ TypeOK /\ UNCHANGED <<ready, last, count, crashes, confirmed, fence>>
      /\ pc[c] = "acking" /\ held[c] # <<>>
      /\ held' = [held EXCEPT ![c] = Tail(@)] /\ removed' = [removed EXCEPT ![c] = @ + 1]
  BY DEF Inv, DropOne, ReplayOne, Remove, Progress
<1>1. /\ held' \in [Calls -> Seq(Ids)]
      /\ Head(held[c]) \in Ids
      /\ HeldOnce'
      /\ \A d \in Calls \ {c} : held'[d] = held[d]
      /\ \A d \in Calls : \A n : n \in Elems(held'[d]) <=> n \in Elems(held[d]) /\ n # Head(held[c])
      /\ Head(held[c]) \in Elems(held[c])
  BY <1>0, HeadLeaves
<1>2. \/ /\ Kind[c] = "drop" /\ dropped' = dropped \cup {Head(held[c])}
         /\ pc' = [pc EXCEPT ![c] = "taking"]
      \/ /\ Kind[c] = "replay" /\ dropped' = dropped /\ Head(held[c]) \in confirmed
         /\ pc' = [pc EXCEPT ![c] = "publishing"]
  BY <1>0 DEF DropOne, ReplayOne, Goto, After, Inv, Progress
<1>3. TypeOK'
  <2>1. removed' \in [Calls -> Nat] /\ dropped' \subseteq Ids
    BY <1>0, <1>1, <1>2 DEF TypeOK
  <2>2. pc' \in [Calls -> {"idle", "open", "taking", "acking", "returning", "publishing",
                           "closing", "replying", "done"}]
    BY <1>0, <1>2 DEF TypeOK
  <2>. QED  BY <1>0, <1>1, <2>1, <2>2 DEF TypeOK
<1>4. Progress'
  BY <1>0, <1>1, <1>2 DEF Inv, TypeOK, Progress
<1>5. ReplayTakesOnlyWaiting'
  BY <1>0, <1>1, HeldIs DEF Inv, ReplayTakesOnlyWaiting
<1>6. NothingVanishes'
  <2>1. /\ \A n : n \in dropped' \/ n \in confirmed <=>
                    n \in dropped \/ n \in confirmed \/ n = Head(held[c])
    BY <1>2
  <2>. QED  BY <1>0, <1>1, <2>1, VanishesIs DEF Inv
<1>. QED  BY <1>1, <1>3, <1>4, <1>5, <1>6 DEF Inv

\* The first confirmed publish of a replay fixes what it may still hold.
LEMMA PublishInv ==
  ASSUME Inv, NEW c \in Calls, PublishConfirmed(c)
  PROVE  Inv'
<1> USE CallsAssumption, QueueAssumption
<1>0. /\ TypeOK /\ UNCHANGED <<ready, last, held, removed, count, crashes, dropped>>
      /\ held[c] # <<>> /\ Kind[c] = "replay" /\ held[c] \in Seq(Ids)
      /\ confirmed' = confirmed \cup {Head(held[c])}
      /\ fence' = [fence EXCEPT ![c] = IF @ = 0 THEN last ELSE @]
      /\ pc' = [pc EXCEPT ![c] = "acking"]
  BY DEF Inv, TypeOK, PublishConfirmed, Goto, Progress
<1>1. Head(held[c]) \in Ids /\ Head(held[c]) \in Elems(held[c])
  BY <1>0, TailOnce
<1>2. TypeOK'
  BY <1>0, <1>1 DEF TypeOK
<1>3. HeldOnce'
  BY <1>0 DEF Inv, HeldOnce
<1>4. Progress'
  BY <1>0 DEF Inv, TypeOK, Progress
<1>5. ReplayTakesOnlyWaiting'
  <2> SUFFICES ASSUME NEW d \in Calls, fence'[d] # 0, NEW n \in Elems(held[d]) PROVE n <= fence'[d]
    BY <1>0, HeldIs DEF ReplayTakesOnlyWaiting
  <2>1. n \in 1..last /\ last \in Nat
    BY <1>0, VanishesIs DEF Inv, TypeOK
  <2>2. fence[d] # 0 => n <= fence[d]
    BY HeldIs DEF Inv, ReplayTakesOnlyWaiting
  <2>. QED  BY <1>0, <2>1, <2>2 DEF TypeOK
<1>6. NothingVanishes'
  <2>1. \A n : n \in confirmed' <=> n \in confirmed \/ n = Head(held[c])
    BY <1>0
  <2>. QED  BY <1>0, <1>1, <2>1, VanishesIs DEF Inv
<1>. QED  BY <1>2, <1>3, <1>4, <1>5, <1>6 DEF Inv

\* Closing a channel returns what its call held.
LEMMA CloseInv ==
  ASSUME Inv, NEW c \in Calls, Close(c)
  PROVE  Inv'
<1> USE CallsAssumption, QueueAssumption
<1>0. /\ TypeOK /\ UNCHANGED <<last, removed, count, crashes, confirmed, dropped, fence>>
      /\ ready' = ready \cup HeldBy(c) /\ held' = [held EXCEPT ![c] = <<>>]
      /\ pc' = [pc EXCEPT ![c] = "replying"] /\ pc[c] = "closing"
  BY DEF Inv, Close, Goto, hvars
<1>1. /\ held' \in [Calls -> Seq(Ids)] /\ held'[c] = <<>>
      /\ \A d \in Calls \ {c} : held'[d] = held[d]
  BY <1>0 DEF TypeOK
<1>2. \A d \in Calls : \A n : n \in Elems(held'[d]) <=> n \in Elems(held[d]) /\ d # c
  BY <1>1, EmptyOnce
<1>3. ASSUME NEW n PROVE n \in ready' <=> n \in ready \/ n \in Elems(held[c])
  BY <1>0, HeldIs
<1>4. TypeOK'
  <2>1. Elems(held[c]) \subseteq Ids
    BY <1>0 DEF TypeOK, Elems
  <2>2. ready' \subseteq Ids
    BY <1>0, <1>3, <2>1 DEF TypeOK
  <2>. QED  BY <1>0, <1>1, <2>2 DEF TypeOK
<1>5. HeldOnce'
  BY <1>1, EmptyOnce, HeldIs DEF Inv
<1>6. Progress'
  BY <1>0, <1>1 DEF Inv, TypeOK, Progress
<1>7. ReplayTakesOnlyWaiting'
  BY <1>0, <1>2, HeldIs DEF Inv, ReplayTakesOnlyWaiting
<1>8. NothingVanishes'
  <2>1. ASSUME NEW n
        PROVE  n \in 1..last <=> \/ n \in ready' \/ n \in confirmed \/ n \in dropped
                                 \/ \E d \in Calls : n \in Elems(held'[d])
    BY <1>2, <1>3, VanishesIs DEF Inv
  <2>2. \A d \in Calls : \A n \in Elems(held'[d]) : n \notin ready'
    BY <1>2, <1>3, VanishesIs DEF Inv
  <2>3. \A d, e \in Calls : d # e => \A n \in Elems(held'[d]) : n \notin Elems(held'[e])
    BY <1>2, VanishesIs DEF Inv
  <2>. QED  BY <1>0, <2>1, <2>2, <2>3, VanishesIs
<1>. QED  BY <1>4, <1>5, <1>6, <1>7, <1>8 DEF Inv

\* An event that failed for the last time gets the next number.
LEMMA RetainInv == Inv /\ Retain => Inv'
<1> SUFFICES ASSUME Inv, Retain PROVE Inv'
  OBVIOUS
<1> USE CallsAssumption, QueueAssumption
<1>0. /\ TypeOK /\ UNCHANGED <<pc, held, removed, count, crashes, confirmed, dropped, fence>>
      /\ last' = last + 1 /\ ready' = ready \cup {last + 1} /\ last < MaxMessages /\ last \in Nat
  BY DEF Inv, TypeOK, Retain, cvars, hvars
<1>1. TypeOK'
  BY <1>0 DEF TypeOK, Ids
<1>2. HeldOnce' /\ Progress'
  BY <1>0 DEF Inv, HeldOnce, Progress
<1>3. ReplayTakesOnlyWaiting'
  BY <1>0, HeldIs DEF Inv, ReplayTakesOnlyWaiting
<1>4. NothingVanishes'
  <2>1. \A n : n \in 1..last' <=> n \in 1..last \/ n = last + 1
    BY <1>0
  <2>2. last + 1 \notin 1..last
    BY <1>0
  <2>3. ASSUME NEW n
        PROVE  n \in 1..last' <=> \/ n \in ready' \/ n \in confirmed \/ n \in dropped
                                  \/ \E d \in Calls : n \in Elems(held[d])
    BY <1>0, <2>1, VanishesIs DEF Inv
  <2>4. \A d \in Calls : \A n \in Elems(held[d]) : n \notin ready'
    BY <1>0, <2>2, VanishesIs DEF Inv
  <2>. QED  BY <1>0, <2>3, <2>4, VanishesIs DEF Inv
<1>. QED  BY <1>1, <1>2, <1>3, <1>4 DEF Inv

\* When the registry dies every channel closes: all that was held is back, and
\* what a call had not acknowledged is in the queue for its second run.
LEMMA CrashInv == Inv /\ Crash => Inv'
<1> SUFFICES ASSUME Inv, Crash PROVE Inv'
  OBVIOUS
<1> USE CallsAssumption, QueueAssumption
<1>0. /\ TypeOK /\ UNCHANGED <<last, count, confirmed, dropped>>
      /\ ready' = ready \cup Holding
      /\ crashes' \in 0..MaxCrashes
  BY DEF Inv, TypeOK, Crash
<1>1. \A d \in Calls : /\ held'[d] = <<>> /\ Elems(held'[d]) = {} /\ Once(held'[d])
                       /\ fence'[d] = 0 /\ pc'[d] \in {"idle", "done"}
  BY EmptyOnce DEF Crash
<1>2. TypeOK'
  <2>1. \A d \in Calls : Elems(held[d]) \subseteq Ids
    BY <1>0 DEF TypeOK, Elems
  <2>2. ready' \subseteq Ids
    BY <1>0, <2>1, HeldIs DEF TypeOK
  <2>3. /\ pc' \in [Calls -> {"idle", "done"}] /\ held' \in [Calls -> Seq(Ids)]
        /\ removed' \in [Calls -> Nat] /\ fence' \in [Calls -> Nat]
    BY <1>0 DEF Crash, TypeOK
  <2>. QED  BY <1>0, <2>2, <2>3 DEF TypeOK
<1>3. HeldOnce'
  BY <1>1, HeldIs
<1>4. Progress'
  BY <1>1 DEF Progress
<1>5. ReplayTakesOnlyWaiting'
  BY <1>1 DEF ReplayTakesOnlyWaiting
<1>6. NothingVanishes'
  <2>1. ASSUME NEW n PROVE n \in ready' <=> n \in ready \/ \E d \in Calls : n \in Elems(held[d])
    BY <1>0, HeldIs
  <2>. QED  BY <1>0, <1>1, <2>1, VanishesIs DEF Inv
<1>. QED  BY <1>2, <1>3, <1>4, <1>5, <1>6 DEF Inv

-----------------------------------------------------------------------------
(* Theorems *)

\* Every step of the calls, of the queue and of the registry preserves the invariant.
LEMMA NextInv == Inv /\ [Next]_vars => Inv'
<1> SUFFICES ASSUME Inv, [Next]_vars PROVE Inv'
  OBVIOUS
<1>1. CASE UNCHANGED vars \/ Idle
  <2>1. UNCHANGED vars
    BY <1>1 DEF Idle
  <2>2. UNCHANGED <<ready, last, pc, held, removed, count, crashes, confirmed, dropped, fence>>
    BY <2>1 DEF vars, cvars, hvars
  <2>3. TypeOK' /\ HeldOnce' /\ Progress'
    BY <2>2 DEF Inv, TypeOK, HeldOnce, Progress
  <2>4. Holding' = Holding /\ \A d : HeldBy(d)' = HeldBy(d)
    BY <2>2 DEF Holding, HeldBy
  <2>5. NothingVanishes' /\ ReplayTakesOnlyWaiting'
    BY <2>2, <2>4 DEF Inv, NothingVanishes, ReplayTakesOnlyWaiting
  <2>. QED  BY <2>3, <2>5 DEF Inv
<1>2. ASSUME NEW c \in Calls, CallStep(c) PROVE Inv'
  BY <1>2, MoveOnInv, GetInv, GiveBackInv, RemoveInv, PublishInv, CloseInv DEF CallStep
<1>. QED  BY <1>1, <1>2, RetainInv, CrashInv DEF Next

\* The inductive invariant, the type invariant with it, holds in every behaviour.
THEOREM InvHolds == Spec => []Inv
BY InitInv, NextInv, PTL DEF Spec

\* No failed message is lost by listing, replaying or dropping, concurrently or
\* through crashes of the registry, and none is in two calls' hands.
THEOREM NothingLost == Spec => []NothingVanishes
<1>1. Inv => NothingVanishes
  BY DEF Inv
<1>. QED  BY <1>1, InvHolds, PTL

\* A replay never holds a message that was retained after its first publish.
THEOREM ReplayIsFenced == Spec => []ReplayTakesOnlyWaiting
<1>1. Inv => ReplayTakesOnlyWaiting
  BY DEF Inv
<1>. QED  BY <1>1, InvHolds, PTL

-----------------------------------------------------------------------------
(* A call and its count *)

\* What a call has in hand and what it has replayed or dropped since it was last
\* begun are together no more than it was asked for.
WithinCount == \A c \in Calls : Len(held[c]) + removed[c] <= Count[c]

\* Every step keeps a call within its count: only Get adds, and it looks first.
LEMMA NextWithinCount == Inv /\ WithinCount /\ [Next]_vars => WithinCount'
<1> SUFFICES ASSUME Inv, WithinCount, [Next]_vars, NEW d \in Calls
             PROVE  Len(held'[d]) + removed'[d] <= Count[d]
  BY DEF WithinCount
<1>0. /\ held \in [Calls -> Seq(Ids)] /\ removed \in [Calls -> Nat] /\ ready \subseteq Ids
      /\ Len(held[d]) \in Nat /\ Count[d] \in Nat /\ Len(held[d]) + removed[d] <= Count[d]
  BY CallsAssumption DEF Inv, TypeOK, WithinCount
<1>1. ASSUME UNCHANGED <<held, removed>> PROVE Len(held'[d]) + removed'[d] <= Count[d]
  BY <1>0, <1>1
<1>2. ASSUME NEW c \in Calls, Get(c) PROVE Len(held'[d]) + removed'[d] <= Count[d]
  <2>1. PICK m \in Ids : held' = [held EXCEPT ![c] = Append(@, m)] /\ UNCHANGED removed
    <3>0. ready \in SUBSET Nat /\ ready # {}
      BY <1>0, <1>2, QueueAssumption DEF Get, Ids
    <3>1. (CHOOSE x \in ready : \A y \in ready : x <= y) \in ready
      BY <3>0, Oldest
    <3>. QED  BY <1>0, <1>2, <3>1 DEF Get
  <2>2. CASE c = d
    <3>1. Len(held'[d]) = Len(held[d]) + 1
      BY <1>0, <2>1, <2>2, AppendProperties
    <3>2. ~(Len(held[d]) + removed[d] >= Count[d])
      BY <1>2, <2>2 DEF Get, Full
    <3>. QED  BY <1>0, <2>1, <3>1, <3>2
  <2>3. CASE c # d
    BY <1>0, <2>1, <2>3
  <2>. QED  BY <2>2, <2>3
<1>3. ASSUME NEW c \in Calls, DropOne(c) \/ ReplayOne(c) \/ GiveBack(c)
      PROVE  Len(held'[d]) + removed'[d] <= Count[d]
  <2>1. CASE UNCHANGED <<held, removed>>
    BY <1>1, <2>1
  <2>2. CASE ~UNCHANGED <<held, removed>>
    <3>1. /\ held[c] # <<>>
          /\ held' = [held EXCEPT ![c] = Tail(@)]
          /\ removed' \in {removed, [removed EXCEPT ![c] = @ + 1]}
      BY <1>3, <2>2 DEF DropOne, ReplayOne, GiveBack, Remove, Inv, Progress
    <3>2. CASE c = d
      <4>1. held[d] \in Seq(Ids) /\ held[d] # <<>> /\ held'[d] = Tail(held[d])
        BY <1>0, <3>1, <3>2
      <4>2. Len(held'[d]) = Len(held[d]) - 1
        BY <4>1, HeadTailProperties
      <4>3. removed'[d] = removed[d] \/ removed'[d] = removed[d] + 1
        BY <1>0, <3>1, <3>2
      <4>. QED  BY <1>0, <4>2, <4>3
    <3>3. CASE c # d
      BY <1>0, <3>1, <3>3
    <3>. QED  BY <3>2, <3>3
  <2>. QED  BY <2>1, <2>2
<1>4. ASSUME held'[d] = <<>> \/ held'[d] = held[d], removed'[d] = removed[d] \/ removed'[d] = 0
      PROVE  Len(held'[d]) + removed'[d] <= Count[d]
  <2>1. Len(held'[d]) \in 0..Len(held[d])
    BY <1>0, <1>4
  <2>. QED  BY <1>0, <1>4, <2>1
<1>5. ASSUME NEW c \in Calls, Close(c) PROVE Len(held'[d]) + removed'[d] <= Count[d]
  BY <1>0, <1>4, <1>5 DEF Close
<1>6. CASE Crash
  BY <1>0, <1>4, <1>6 DEF Crash
<1>7. ASSUME NEW c \in Calls, CallStep(c) PROVE Len(held'[d]) + removed'[d] <= Count[d]
  BY <1>1, <1>2, <1>3, <1>5, <1>7
     DEF CallStep, Begin, Inspect, GotAll, PublishConfirmed, PublishRaises, ReplayedAll, Reply
<1>8. CASE UNCHANGED vars \/ Idle \/ Retain
  BY <1>1, <1>8 DEF Idle, Retain, vars, cvars
<1>. QED  BY <1>6, <1>7, <1>8 DEF Next

\* However many calls work on the queue, and although replayed messages come back
\* while a replay runs, a call takes, replays or drops no more messages than its
\* limit or count, counted anew when a crash has the request handled again.
THEOREM CountIsKept == Spec => []WithinCount
<1>1. Init => WithinCount
  BY CallsAssumption DEF Init, WithinCount
<1>. QED  BY <1>1, NextWithinCount, InvHolds, PTL DEF Spec
=============================================================================
