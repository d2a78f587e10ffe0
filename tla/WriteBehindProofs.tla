------------------------- MODULE WriteBehindProofs -------------------------
(***************************************************************************)
(* Proofs about the write-behind of a session, for every length of the log *)
(* and every set of callers: the types, that a queued event has somebody   *)
(* to write it, that a flush keeps its promise, and that the store is a    *)
(* growing prefix of the log (PrefixStore).                                *)
(*                                                                         *)
(* The inductive invariant places every event once. What is not in the     *)
(* queue and not in the active write is before the cursor, or in the seed  *)
(* the initialization will store (Placed, Stored); the cursor may be ahead *)
(* of the batch, by what the initialization stored. The rest says who may  *)
(* write while what is due (Writers) and what a caller was told (Told).    *)
(***************************************************************************)
EXTENDS WriteBehind, FiniteSetTheorems, TLAPS

\* The first event that is queued or being written.
BatchAt == produced - Len(pending) - Len(batch)
\* The first event that is queued and not being written.
QueueAt == BatchAt + Len(batch)

\* The batch and the queue are the end of the log, in its order.
Placed ==
  /\ BatchAt \in Nat
  /\ batch = Events(BatchAt, QueueAt)
  /\ pending = Events(QueueAt, produced)
  /\ write = "none" => batch = <<>>

\* Events that are neither queued nor being written are stored, or will be by
\* the initialization.
Stored ==
  /\ stored = Events(0, Len(stored)) /\ Len(stored) <= produced
  /\ init = "unattached" => cursor = 0 /\ pending = <<>> /\ batch = <<>>
  /\ init \in {"pending", "failed"} =>
       /\ cursor = 0 /\ Len(stored) <= seed
       /\ seed <= produced /\ BatchAt <= seed
  /\ init = "ready" => cursor = Len(stored) /\ BatchAt <= cursor

\* A barrier writes by itself; a finished background write goes on only when
\* no other write started before.
Writers ==
  /\ continuing => write # "background"
  /\ write = "barrier" => drain = "writing"
  /\ drain # "off" => init = "ready"
  /\ drain = "rejecting" => automaticPaused

\* What a caller of flush was told, and what the retirement may rely on.
Told ==
  /\ \A c \in Callers : /\ caller[c] \in {"barrier", "done"} => init = "ready"
                        /\ caller[c] # "idle" => init # "unattached"
                        /\ goal[c] <= produced
                        /\ caller[c] = "done" => goal[c] <= cursor
  /\ caller[Retirement] # "idle" => closed
  /\ closed => goal[Retirement] = produced
  /\ released => closed /\ init = "ready" /\ cursor = produced

IInv == TypeOK /\ Placed /\ Stored /\ Writers /\ Told /\ NoEventStranded

\* The sequence numbers from m up to, but not including, n.
LEMMA EventsAre ==
  ASSUME NEW m \in Nat, NEW n \in Nat, m <= n
  PROVE  Events(m, n) \in Seq(Nat) /\ Len(Events(m, n)) = n - m
<1>1. n - m \in Nat
  OBVIOUS
<1>2. \A i \in 1..(n - m) : m + i - 1 \in Nat
  OBVIOUS
<1> QED
  BY <1>1, <1>2 DEF Events

\* The i-th event of a run.
LEMMA EventsAt ==
  ASSUME NEW m \in Nat, NEW n \in Nat, m <= n, NEW i \in 1..(n - m)
  PROVE  Events(m, n)[i] = m + i - 1
BY DEF Events

\* Runs up to the bound are sequences of the session's events.
LEMMA EventsType ==
  ASSUME NEW m \in Nat, NEW n \in Nat, m <= n, n <= MaxEvents
  PROVE  Events(m, n) \in Seqs
<1>1. n - m \in Nat
  OBVIOUS
<1>2. \A i \in 1..(n - m) : m + i - 1 \in 0..(MaxEvents - 1)
  BY CallersAssumption
<1> QED
  BY <1>1, <1>2 DEF Events, Seqs

\* No event lies between a number and itself.
LEMMA EventsNone == \A m \in Nat : Events(m, m) = <<>>
  BY DEF Events

\* Two adjacent runs of events are one.
LEMMA EventsJoin ==
  ASSUME NEW m \in Nat, NEW k \in Nat, NEW n \in Nat, m <= k, k <= n
  PROVE  Events(m, k) \o Events(k, n) = Events(m, n)
<1> DEFINE s == Events(m, k) \o Events(k, n)
<1>1. /\ Events(m, k) \in Seq(Nat) /\ Len(Events(m, k)) = k - m
      /\ Events(k, n) \in Seq(Nat) /\ Len(Events(k, n)) = n - k
      /\ Events(m, n) \in Seq(Nat) /\ Len(Events(m, n)) = n - m
  <2>1. m <= n
    OBVIOUS
  <2>2. Events(m, k) \in Seq(Nat) /\ Len(Events(m, k)) = k - m
    BY EventsAre
  <2>3. Events(k, n) \in Seq(Nat) /\ Len(Events(k, n)) = n - k
    BY EventsAre
  <2>4. Events(m, n) \in Seq(Nat) /\ Len(Events(m, n)) = n - m
    BY <2>1, EventsAre
  <2> QED
    BY <2>2, <2>3, <2>4
<1>2. s \in Seq(Nat) /\ Len(s) = n - m
  <2>1. \A p, q \in Seq(Nat) : p \o q \in Seq(Nat) /\ Len(p \o q) = Len(p) + Len(q)
    OBVIOUS
  <2>2. s \in Seq(Nat) /\ Len(s) = (k - m) + (n - k)
    BY <1>1, <2>1
  <2>3. (k - m) + (n - k) = n - m
    OBVIOUS
  <2> QED
    BY <2>2, <2>3
<1>3. ASSUME NEW i \in 1..(n - m)
      PROVE  s[i] = Events(m, n)[i]
  <2>1. CASE i <= k - m
    BY <1>1, <2>1 DEF Events
  <2>2. CASE i > k - m
    <3>1. s[i] = Events(k, n)[i - (k - m)]
      <4>1. \A p, q \in Seq(Nat) : \A l \in 1..(Len(p) + Len(q)) :
              l > Len(p) => (p \o q)[l] = q[l - Len(p)]
        OBVIOUS
      <4>2. i \in 1..(Len(Events(m, k)) + Len(Events(k, n))) /\ i > Len(Events(m, k))
        BY <1>1, <2>2
      <4>3. s[i] = Events(k, n)[i - Len(Events(m, k))]
        BY <1>1, <4>1, <4>2
      <4> QED
        BY <1>1, <4>3
    <3>2. i - (k - m) \in 1..(n - k)
      BY <2>2
    <3> QED
      BY <3>1, <3>2 DEF Events
  <2>3. i \in Int /\ k - m \in Int
    OBVIOUS
  <2>4. i <= k - m \/ i > k - m
    BY <2>3
  <2> QED
    BY <2>1, <2>2, <2>4
<1>4. s = Events(m, n)
  <2> HIDE DEF s
  <2> QED
    BY <1>1, <1>2, <1>3
<1> QED
  BY <1>4

\* The event after a run extends it.
LEMMA EventsGrow ==
  ASSUME NEW m \in Nat, NEW n \in Nat, m <= n
  PROVE  Append(Events(m, n), n) = Events(m, n + 1)
<1>1. /\ Events(m, n) \in Seq(Nat) /\ Len(Events(m, n)) = n - m
      /\ Events(m, n + 1) \in Seq(Nat) /\ Len(Events(m, n + 1)) = n + 1 - m
  <2>1. Events(m, n) \in Seq(Nat) /\ Len(Events(m, n)) = n - m
    BY EventsAre
  <2>2. n + 1 \in Nat /\ m <= n + 1
    OBVIOUS
  <2>3. Events(m, n + 1) \in Seq(Nat) /\ Len(Events(m, n + 1)) = n + 1 - m
    BY <2>2, EventsAre
  <2> QED
    BY <2>1, <2>3
<1>2. Append(Events(m, n), n) \in Seq(Nat) /\ Len(Append(Events(m, n), n)) = n + 1 - m
  BY <1>1
<1>3. ASSUME NEW i \in 1..(n + 1 - m)
      PROVE  Append(Events(m, n), n)[i] = Events(m, n + 1)[i]
  BY <1>1 DEF Events
<1>4. \A p, q \in Seq(Nat) : Len(p) = Len(q) /\ (\A i \in 1..Len(p) : p[i] = q[i]) => p = q
  OBVIOUS
<1> QED
  BY <1>1, <1>2, <1>3, <1>4

\* A prefix of the log is a run from its start.
LEMMA EventsPrefix ==
  ASSUME NEW k \in Nat, NEW n \in Nat, k <= n
  PROVE  SubSeq(Events(0, n), 1, k) = Events(0, k)
<1>1. /\ Events(0, n) \in Seq(Nat) /\ Len(Events(0, n)) = n
      /\ Events(0, k) \in Seq(Nat) /\ Len(Events(0, k)) = k
  <2>1. Events(0, n) \in Seq(Nat) /\ Len(Events(0, n)) = n - 0
    BY EventsAre
  <2>2. Events(0, k) \in Seq(Nat) /\ Len(Events(0, k)) = k - 0
    BY EventsAre
  <2> QED
    BY <2>1, <2>2
<1>2. SubSeq(Events(0, n), 1, k) \in Seq(Nat) /\ Len(SubSeq(Events(0, n), 1, k)) = k
  BY <1>1
<1>3. ASSUME NEW i \in 1..k
      PROVE  SubSeq(Events(0, n), 1, k)[i] = Events(0, k)[i]
  BY <1>1 DEF Events
<1> QED
  BY <1>1, <1>2, <1>3

\* appendLiveBatch's filter: of a batch in the order of the log, the events from
\* the cursor on are left, in their order.
LEMMA FreshIs ==
  ASSUME Placed, cursor \in Nat, BatchAt <= cursor, produced \in Nat,
         pending \in Seq(Nat), batch \in Seq(Nat)
  PROVE  Fresh = Events(cursor, IF QueueAt <= cursor THEN cursor ELSE QueueAt)
<1>1. /\ BatchAt \in Nat /\ QueueAt \in Nat /\ QueueAt = BatchAt + Len(batch)
      /\ Len(batch) \in Nat
  BY DEF Placed, QueueAt
<1>2. \A k \in 1..Len(batch) : batch[k] = BatchAt + k - 1
  <2>1. \A k \in 1..(QueueAt - BatchAt) : Events(BatchAt, QueueAt)[k] = BatchAt + k - 1
    BY <1>1, EventsAt
  <2>2. QueueAt - BatchAt = Len(batch)
    BY <1>1
  <2> QED
    BY <2>1, <2>2 DEF Placed
<1>3. DOMAIN batch = 1..Len(batch)
  OBVIOUS
<1> DEFINE d == cursor - BatchAt
<1>4. d \in Nat /\ cursor = BatchAt + d
  BY <1>1
<1> HIDE DEF d
<1>5. Kept = (d + 1)..Len(batch)
  BY <1>1, <1>2, <1>3, <1>4 DEF Kept
<1>6. CASE QueueAt <= cursor
  <2>1. Kept = {}
    BY <1>1, <1>4, <1>5, <1>6
  <2>2. Cardinality(Kept) = 0
    BY <2>1, FS_EmptySet
  <2>3. Fresh = <<>>
    BY <2>2 DEF Fresh
  <2> QED
    BY <1>6, <2>3, EventsNone
<1>7. CASE cursor < QueueAt
  <2>1. Cardinality(Kept) = QueueAt - cursor /\ QueueAt - cursor \in Nat
    <3>1. d + 1 \in Int /\ Len(batch) \in Int /\ d + 1 <= Len(batch)
      BY <1>1, <1>4, <1>7
    <3>2. Cardinality((d + 1)..Len(batch)) = Len(batch) - (d + 1) + 1
      BY <3>1, FS_Interval
    <3> QED
      BY <1>1, <1>4, <1>5, <1>7, <3>2
  <2>2. ASSUME NEW i \in 1..(QueueAt - cursor)
        PROVE  (CHOOSE k \in Kept : Cardinality({h \in Kept : h <= k}) = i) = d + i
    <3>1. ASSUME NEW k \in Kept
          PROVE  Cardinality({h \in Kept : h <= k}) = k - d
      <4>1. {h \in Kept : h <= k} = (d + 1)..k
        BY <1>1, <1>4, <1>5
      <4>2. Cardinality((d + 1)..k) = k - d
        BY <1>1, <1>4, <1>5, FS_Interval
      <4> QED
        BY <4>1, <4>2
    <3>2. d + i \in Kept
      BY <1>1, <1>4, <1>5
    <3>3. \A k \in Kept : k \in Nat
      BY <1>4, <1>5
    <3> DEFINE C(k) == Cardinality({h \in Kept : h <= k})
    <3>4. \A k \in Kept : C(k) = k - d
      BY <3>1
    <3> HIDE DEF C
    <3>5. i \in Nat
      BY <1>1
    <3>6. C(d + i) = i
      BY <1>4, <3>2, <3>4, <3>5
    <3>7. ASSUME NEW k \in Kept, C(k) = i
          PROVE  k = d + i
      <4>1. k \in Nat /\ k - d = i
        BY <3>3, <3>4, <3>7
      <4> QED
        BY <1>4, <3>5, <4>1
    <3>8. (CHOOSE k \in Kept : C(k) = i) = d + i
      BY <3>2, <3>6, <3>7
    <3> QED
      BY <3>8 DEF C
  <2>3. \A i \in 1..(QueueAt - cursor) : d + i \in 1..Len(batch)
    BY <1>1, <1>4
  <2>4. \A i \in 1..(QueueAt - cursor) : batch[d + i] = cursor + i - 1
    BY <1>1, <1>2, <1>4, <2>3
  <2>5. Fresh = [i \in 1..(QueueAt - cursor) |-> cursor + i - 1]
    BY <2>1, <2>2, <2>4 DEF Fresh
  <2> QED
    BY <1>1, <1>7, <2>5 DEF Events
<1> QED
  BY <1>1, <1>6, <1>7

\* The batch and the queue follow one another up to the end of the log.
LEMMA PlacedBounds ==
  ASSUME TypeOK, Placed
  PROVE  /\ produced \in Nat /\ produced <= MaxEvents /\ MaxEvents \in Nat
         /\ cursor \in Nat /\ seed \in Nat /\ seed <= MaxEvents
         /\ BatchAt \in Nat /\ QueueAt \in Nat /\ BatchAt <= QueueAt /\ QueueAt <= produced
         /\ QueueAt = BatchAt + Len(batch) /\ produced = QueueAt + Len(pending)
         /\ stored \in Seq(Nat) /\ pending \in Seq(Nat) /\ batch \in Seq(Nat)
         /\ Len(stored) \in Nat /\ Len(pending) \in Nat /\ Len(batch) \in Nat
<1>1. \A s \in Seqs : s \in Seq(Nat) /\ Len(s) \in Nat
  BY CallersAssumption DEF Seqs
<1> QED
  BY <1>1, CallersAssumption DEF TypeOK, Placed, BatchAt, QueueAt

\* startWrite while no write is active: the batch is the whole queue.
Taken ==
  /\ batch = <<>> /\ batch' = pending /\ pending' = <<>>
  /\ write' # "none" /\ UNCHANGED produced

\* A batch that is the whole queue leaves every event at its place.
LEMMA TakenPlaced ==
  ASSUME TypeOK, Placed, Taken
  PROVE  Placed' /\ BatchAt' = BatchAt
<1>1. Len(batch) = 0 /\ Len(pending') = 0
  BY DEF Taken
<1>2. BatchAt' = BatchAt /\ QueueAt' = produced /\ QueueAt = BatchAt
  BY <1>1, PlacedBounds DEF Taken, BatchAt, QueueAt
<1>3. Events(produced, produced) = <<>>
  BY PlacedBounds, EventsNone
<1> QED
  BY <1>2, <1>3 DEF Placed, Taken

\* A batch that was written leaves the queue alone.
LEMMA WrittenPlaced ==
  ASSUME TypeOK, Placed, batch' = <<>>, UNCHANGED <<produced, pending>>
  PROVE  Placed' /\ BatchAt' = QueueAt
<1>1. Len(batch') = 0
  OBVIOUS
<1>2. BatchAt' = QueueAt /\ QueueAt' = QueueAt
  BY <1>1, PlacedBounds DEF BatchAt, QueueAt
<1>3. Events(QueueAt, QueueAt) = <<>>
  BY PlacedBounds, EventsNone
<1> QED
  BY <1>2, <1>3, PlacedBounds DEF Placed

\* A batch that failed is in front of the queue again.
LEMMA RetainedPlaced ==
  ASSUME TypeOK, Placed, pending' = batch \o pending, batch' = <<>>, UNCHANGED produced
  PROVE  Placed' /\ BatchAt' = BatchAt
<1>1. pending' = Events(BatchAt, produced)
  <2>1. /\ BatchAt \in Nat /\ QueueAt \in Nat /\ produced \in Nat
        /\ BatchAt <= QueueAt /\ QueueAt <= produced
    BY PlacedBounds
  <2> QED
    BY <2>1, EventsJoin DEF Placed
<1>2. Len(pending') = produced - BatchAt /\ Len(batch') = 0
  <2>1. BatchAt \in Nat /\ produced \in Nat /\ BatchAt <= produced
    BY PlacedBounds
  <2>2. Len(Events(BatchAt, produced)) = produced - BatchAt
    BY <2>1, EventsAre
  <2> QED
    BY <1>1, <2>2
<1>3. BatchAt' = BatchAt /\ QueueAt' = BatchAt
  <2>1. BatchAt \in Nat /\ produced \in Nat
    BY PlacedBounds
  <2>2. BatchAt' = produced - (produced - BatchAt) - 0
    BY <1>2 DEF BatchAt
  <2>3. BatchAt' = BatchAt
    BY <2>1, <2>2
  <2> QED
    BY <1>2, <2>1, <2>3 DEF QueueAt
<1>4. Events(BatchAt, BatchAt) = <<>>
  BY PlacedBounds, EventsNone
<1> QED
  BY <1>1, <1>3, <1>4, PlacedBounds DEF Placed

\* enqueue puts the event at the end of the queue.
LEMMA EnqueuedPlaced ==
  ASSUME TypeOK, Placed, produced' = produced + 1, pending' = Append(pending, produced),
         UNCHANGED <<batch, write>>
  PROVE  Placed' /\ BatchAt' = BatchAt
<1>1. pending' = Events(QueueAt, produced + 1)
  BY PlacedBounds, EventsGrow DEF Placed
<1>2. Len(pending') = Len(pending) + 1
  BY PlacedBounds
<1>3. BatchAt' = BatchAt /\ QueueAt' = QueueAt
  <2>1. produced \in Nat /\ Len(pending) \in Nat /\ Len(batch) \in Nat
    BY PlacedBounds
  <2>2. BatchAt' = (produced + 1) - (Len(pending) + 1) - Len(batch)
    BY <1>2 DEF BatchAt
  <2>3. BatchAt' = BatchAt
    BY <2>1, <2>2 DEF BatchAt
  <2> QED
    BY <2>3 DEF QueueAt
<1> QED
  BY <1>1, <1>3, PlacedBounds DEF Placed

\* appendLiveBatch stores the batch up to its end, or nothing when the
\* initialization stored it all.
LEMMA WriteEffect ==
  ASSUME TypeOK, Placed, Stored, WriteSucceeds
  PROVE  /\ cursor' \in Nat /\ cursor <= cursor' /\ cursor' <= produced
         /\ QueueAt <= cursor' /\ Len(stored) = cursor
         /\ stored' = Events(0, cursor') /\ Len(stored') = cursor'
<1> DEFINE end == IF QueueAt <= cursor THEN cursor ELSE QueueAt
<1>1. /\ init = "ready" /\ cursor = Len(stored) /\ BatchAt <= cursor
      /\ stored = Events(0, Len(stored)) /\ cursor <= produced
  BY DEF WriteSucceeds, Stored
<1>2. end \in Nat /\ cursor <= end /\ QueueAt <= end /\ end <= produced
  BY <1>1, PlacedBounds
<1>3. Fresh = Events(cursor, end)
  BY <1>1, PlacedBounds, FreshIs
<1> HIDE DEF end
<1>4. Len(Fresh) = end - cursor
  BY <1>2, <1>3, PlacedBounds, EventsAre
<1>5. cursor' = end
  BY <1>2, <1>4, PlacedBounds DEF WriteSucceeds
<1>6. stored' = Events(0, end)
  <2>1. stored' = Events(0, cursor) \o Events(cursor, end)
    BY <1>1, <1>3 DEF WriteSucceeds
  <2>2. 0 \in Nat /\ cursor \in Nat /\ 0 <= cursor
    BY PlacedBounds
  <2> QED
    BY <1>2, <2>1, <2>2, EventsJoin
<1>7. Len(Events(0, end)) = end
  <2>1. Len(Events(0, end)) = end - 0
    BY <1>2, EventsAre
  <2> QED
    BY <1>2, <2>1
<1> QED
  BY <1>1, <1>2, <1>5, <1>6, <1>7

\* onCreated adopts the stored prefix and appends the rest of the seed.
LEMMA InitEffect ==
  ASSUME TypeOK, Placed, Stored, InitSucceeds
  PROVE  /\ stored' = Events(0, seed) /\ Len(stored') = seed /\ Len(stored) <= seed
         /\ cursor' = seed /\ seed <= produced /\ BatchAt <= seed
<1>1. /\ stored = Events(0, Len(stored)) /\ Len(stored) <= seed
      /\ seed <= produced /\ BatchAt <= seed
  BY DEF Stored, InitSucceeds
<1>2. stored' = Events(0, Len(stored)) \o Events(Len(stored), seed) /\ cursor' = seed
  BY <1>1 DEF InitSucceeds
<1>3. 0 \in Nat /\ Len(stored) \in Nat /\ seed \in Nat /\ 0 <= Len(stored) /\ 0 <= seed
  BY PlacedBounds
<1>4. stored' = Events(0, seed)
  BY <1>1, <1>2, <1>3, EventsJoin
<1>5. Len(Events(0, seed)) = seed - 0
  BY <1>3, EventsAre
<1>6. Len(stored') = seed
  BY <1>3, <1>4, <1>5
<1> QED
  BY <1>1, <1>2, <1>4, <1>6

\* No step of the write-behind leaves the types.
LEMMA TypeStep ==
  ASSUME TypeOK, Placed, Stored, Writers, [Next]_vars
  PROVE  TypeOK'
<1> USE CallersAssumption DEF store, startup, queue, flags, calls, ending
<1>1. CASE Attach
  BY <1>1 DEF TypeOK, Attach, InitFor
<1>2. CASE InitSucceeds
  <2>1. stored' \in Seqs /\ pending' \in Seqs /\ batch' \in Seqs
    <3>1. stored' = Events(0, seed)
      BY <1>2, InitEffect
    <3>2. 0 \in Nat /\ seed \in Nat /\ 0 <= seed /\ seed <= MaxEvents
      BY PlacedBounds
    <3> QED
      BY <1>2, <3>1, <3>2, EventsType DEF TypeOK, InitSucceeds
  <2> QED
    BY <1>2, <2>1 DEF TypeOK, InitSucceeds
<1>3. CASE InitFails
  BY <1>3 DEF TypeOK, InitFails
<1>4. CASE WriteSucceeds
  <2>1. stored' \in Seqs /\ cursor' \in 0..MaxEvents
    <3>1. cursor' \in Nat /\ cursor' <= MaxEvents /\ stored' = Events(0, cursor')
      BY <1>4, WriteEffect, PlacedBounds
    <3> QED
      BY <3>1, EventsType
  <2>2. batch' \in Seqs
    BY <1>4 DEF WriteSucceeds, Seqs
  <2> QED
    BY <1>4, <2>1, <2>2 DEF TypeOK, WriteSucceeds
<1>5. CASE WriteFails
  <2>1. stored' \in Seqs /\ pending' \in Seqs /\ batch' \in Seqs
    <3>1. <<>> \in Seqs /\ batch \o pending \in Seqs
      BY DEF TypeOK, Seqs
    <3> QED
      BY <1>5, <3>1 DEF TypeOK, WriteFails, Retain
  <2> QED
    BY <1>5, <2>1 DEF TypeOK, WriteFails, Retain
<1>6. ASSUME NEW c \in Callers, FlushRejects(c)
      PROVE  TypeOK'
  BY <1>6 DEF TypeOK, FlushRejects, Settle
<1>7. ASSUME NEW c \in Callers, JoinBarrier(c)
      PROVE  TypeOK'
  <2>1. stored' \in Seqs /\ pending' \in Seqs /\ batch' \in Seqs
    <3>1. <<>> \in Seqs
      BY DEF Seqs
    <3> QED
      BY <1>7, <3>1 DEF TypeOK, JoinBarrier, DrainHead, StartWrite, Settle
  <2> QED
    BY <1>7, <2>1 DEF TypeOK, JoinBarrier, DrainHead, StartWrite, Settle
<1>8. CASE Drain
  <2>1. stored' \in Seqs /\ pending' \in Seqs /\ batch' \in Seqs
    <3>1. <<>> \in Seqs
      BY DEF Seqs
    <3> QED
      BY <1>8, <3>1 DEF TypeOK, Drain, DrainHead, StartWrite, Settle, Waiting
  <2> QED
    BY <1>8, <2>1 DEF TypeOK, Drain, DrainHead, StartWrite, Settle, Waiting
<1>9. CASE DrainRejects
  BY <1>9 DEF TypeOK, DrainRejects, Settle, Waiting
<1>10. CASE OnDeadline
  <2>1. stored' \in Seqs /\ pending' \in Seqs /\ batch' \in Seqs
    <3>1. <<>> \in Seqs
      BY DEF Seqs
    <3> QED
      BY <1>10, <3>1 DEF TypeOK, OnDeadline, StartWrite
  <2> QED
    BY <1>10, <2>1 DEF TypeOK, OnDeadline, StartWrite
<1>11. CASE ContinueAutomatic
  <2>1. stored' \in Seqs /\ pending' \in Seqs /\ batch' \in Seqs
    <3>1. <<>> \in Seqs
      BY DEF Seqs
    <3> QED
      BY <1>11, <3>1 DEF TypeOK, ContinueAutomatic, StartWrite
  <2> QED
    BY <1>11, <2>1 DEF TypeOK, ContinueAutomatic, StartWrite
<1>12. CASE Release
  BY <1>12 DEF TypeOK, Release
<1>13. CASE Enqueue
  <2>1. pending' \in Seqs
    <3>1. produced \in 0..(MaxEvents - 1)
      BY <1>13 DEF TypeOK, Enqueue
    <3> QED
      BY <1>13, <3>1 DEF TypeOK, Enqueue, Seqs
  <2>2. produced' \in 0..MaxEvents /\ seed' \in 0..MaxEvents
    BY <1>13 DEF TypeOK, Enqueue, InitFor
  <2>3. timer' \in BOOLEAN /\ deadlineExpired' \in BOOLEAN /\ automaticPaused' \in BOOLEAN
    <3> DEFINE t == timer \/ pending = <<>>
    <3>1. t \in BOOLEAN
      OBVIOUS
    <3>2. timer' \in {timer, TRUE, t}
      BY <1>13 DEF Enqueue
    <3> HIDE DEF t
    <3> QED
      BY <1>13, <3>1, <3>2 DEF TypeOK, Enqueue
  <2>4. init' \in {"unattached", "pending", "ready", "failed"}
    BY <1>13 DEF TypeOK, Enqueue, InitFor
  <2> QED
    BY <1>13, <2>1, <2>2, <2>3, <2>4 DEF TypeOK, Enqueue
<1>14. CASE Dispose
  BY <1>14 DEF TypeOK, Dispose, Flush, InitFor
<1>15. ASSUME NEW c \in Callers, CallFlush(c)
      PROVE  TypeOK'
  BY <1>15 DEF TypeOK, CallFlush, Flush, InitFor
<1>16. CASE UNCHANGED vars
  BY <1>16 DEF TypeOK, vars
<1> QED
  BY <1>1, <1>2, <1>3, <1>4, <1>5, <1>6, <1>7, <1>8, <1>9, <1>10,
     <1>11, <1>12, <1>13, <1>14, <1>15, <1>16
  DEF Next, Initialize, WriteSettles, FlushSteps, DrainSteps

\* Every step keeps the batch and the queue the end of the log: a write takes the
\* whole queue, and a failed one puts its batch back in front.
LEMMA PlacedStep ==
  ASSUME TypeOK, Placed, Stored, Writers, [Next]_vars
  PROVE  Placed'
<1> USE CallersAssumption DEF store, startup, queue, flags, calls, ending
<1>1. CASE Attach
  BY <1>1 DEF TypeOK, Placed, BatchAt, QueueAt, Writers, Stored, Attach, InitFor
<1>2. CASE InitSucceeds
  BY <1>2 DEF TypeOK, Placed, BatchAt, QueueAt, Writers, Stored, InitSucceeds
<1>3. CASE InitFails
  BY <1>3 DEF TypeOK, Placed, BatchAt, QueueAt, Writers, Stored, InitFails
<1>4. CASE WriteSucceeds
  BY <1>4, WrittenPlaced DEF WriteSucceeds
<1>5. CASE WriteFails
  BY <1>5, RetainedPlaced DEF WriteFails, Retain
<1>6. ASSUME NEW c \in Callers, FlushRejects(c)
      PROVE  Placed'
  BY <1>6 DEF TypeOK, Placed, BatchAt, QueueAt, Writers, Stored, FlushRejects, Settle
<1>7. ASSUME NEW c \in Callers, JoinBarrier(c)
      PROVE  Placed'
  <2>1. UNCHANGED <<produced, pending, batch, write>> \/ Taken
    BY <1>7 DEF TypeOK, Placed, Writers, Taken, JoinBarrier, DrainHead, StartWrite, Settle
  <2> QED
    BY <2>1, TakenPlaced DEF Placed, BatchAt, QueueAt
<1>8. CASE Drain
  <2>1. UNCHANGED <<produced, pending, batch, write>> \/ Taken
    BY <1>8 DEF TypeOK, Placed, Writers, Taken, Drain, DrainHead, StartWrite, Settle, Waiting
  <2> QED
    BY <2>1, TakenPlaced DEF Placed, BatchAt, QueueAt
<1>9. CASE DrainRejects
  BY <1>9 DEF TypeOK, Placed, BatchAt, QueueAt, Writers, Stored, DrainRejects, Settle, Waiting
<1>10. CASE OnDeadline
  <2>1. UNCHANGED <<produced, pending, batch, write>> \/ Taken
    BY <1>10 DEF TypeOK, Placed, Writers, Taken, OnDeadline, StartWrite
  <2> QED
    BY <2>1, TakenPlaced DEF Placed, BatchAt, QueueAt
<1>11. CASE ContinueAutomatic
  <2>1. UNCHANGED <<produced, pending, batch, write>> \/ Taken
    BY <1>11 DEF TypeOK, Placed, Writers, Taken, ContinueAutomatic, StartWrite
  <2> QED
    BY <2>1, TakenPlaced DEF Placed, BatchAt, QueueAt
<1>12. CASE Release
  BY <1>12 DEF TypeOK, Placed, BatchAt, QueueAt, Writers, Stored, Release
<1>13. CASE Enqueue
  BY <1>13, EnqueuedPlaced DEF Enqueue
<1>14. CASE Dispose
  BY <1>14 DEF TypeOK, Placed, BatchAt, QueueAt, Writers, Stored, Dispose, Flush, InitFor
<1>15. ASSUME NEW c \in Callers, CallFlush(c)
      PROVE  Placed'
  BY <1>15 DEF TypeOK, Placed, BatchAt, QueueAt, Writers, Stored, CallFlush, Flush, InitFor
<1>16. CASE UNCHANGED vars
  BY <1>16 DEF TypeOK, Placed, BatchAt, QueueAt, Writers, Stored, vars
<1> QED
  BY <1>1, <1>2, <1>3, <1>4, <1>5, <1>6, <1>7, <1>8, <1>9, <1>10,
     <1>11, <1>12, <1>13, <1>14, <1>15, <1>16
  DEF Next, Initialize, WriteSettles, FlushSteps, DrainSteps

\* Every step keeps what left the queue stored, or in the seed.
LEMMA StoredStep ==
  ASSUME TypeOK, Placed, Stored, Writers, [Next]_vars
  PROVE  Stored'
<1> USE CallersAssumption DEF store, startup, queue, flags, calls, ending
<1>1. CASE Attach
  BY <1>1 DEF TypeOK, Placed, Stored, BatchAt, QueueAt, Writers, Attach, InitFor
<1>2. CASE InitSucceeds
  <2>1. UNCHANGED <<produced, queue>> /\ init' = "ready"
    BY <1>2 DEF InitSucceeds
  <2>2. BatchAt' = BatchAt
    BY <2>1 DEF BatchAt
  <2> QED
    BY <1>2, <2>1, <2>2, InitEffect DEF Stored
<1>3. CASE InitFails
  BY <1>3 DEF TypeOK, Placed, Stored, BatchAt, QueueAt, Writers, InitFails
<1>4. CASE WriteSucceeds
  <2>1. init = "ready" /\ UNCHANGED <<produced, init>>
    BY <1>4 DEF WriteSucceeds
  <2>2. BatchAt' = QueueAt
    BY <1>4, WrittenPlaced DEF WriteSucceeds
  <2> QED
    BY <1>4, <2>1, <2>2, WriteEffect DEF Stored
<1>5. CASE WriteFails
  BY <1>5 DEF TypeOK, Placed, Stored, BatchAt, QueueAt, Writers, WriteFails, Retain
<1>6. ASSUME NEW c \in Callers, FlushRejects(c)
      PROVE  Stored'
  BY <1>6 DEF TypeOK, Placed, Stored, BatchAt, QueueAt, Writers, FlushRejects, Settle
<1>7. ASSUME NEW c \in Callers, JoinBarrier(c)
      PROVE  Stored'
  BY <1>7 DEF TypeOK, Placed, Stored, BatchAt, QueueAt, Writers, JoinBarrier, DrainHead, StartWrite, Settle
<1>8. CASE Drain
  BY <1>8 DEF TypeOK, Placed, Stored, BatchAt, QueueAt, Writers, Drain, DrainHead, StartWrite, Settle, Waiting
<1>9. CASE DrainRejects
  BY <1>9 DEF TypeOK, Placed, Stored, BatchAt, QueueAt, Writers, DrainRejects, Settle, Waiting
<1>10. CASE OnDeadline
  BY <1>10 DEF TypeOK, Placed, Stored, BatchAt, QueueAt, Writers, OnDeadline, StartWrite
<1>11. CASE ContinueAutomatic
  BY <1>11 DEF TypeOK, Placed, Stored, BatchAt, QueueAt, Writers, ContinueAutomatic, StartWrite
<1>12. CASE Release
  BY <1>12 DEF TypeOK, Placed, Stored, BatchAt, QueueAt, Writers, Release
<1>13. CASE Enqueue
  BY <1>13 DEF TypeOK, Placed, Stored, BatchAt, QueueAt, Writers, Enqueue, InitFor
<1>14. CASE Dispose
  BY <1>14 DEF TypeOK, Placed, Stored, BatchAt, QueueAt, Writers, Dispose, Flush, InitFor
<1>15. ASSUME NEW c \in Callers, CallFlush(c)
      PROVE  Stored'
  BY <1>15 DEF TypeOK, Placed, Stored, BatchAt, QueueAt, Writers, CallFlush, Flush, InitFor
<1>16. CASE UNCHANGED vars
  BY <1>16 DEF TypeOK, Placed, Stored, BatchAt, QueueAt, Writers, vars
<1> QED
  BY <1>1, <1>2, <1>3, <1>4, <1>5, <1>6, <1>7, <1>8, <1>9, <1>10,
     <1>11, <1>12, <1>13, <1>14, <1>15, <1>16
  DEF Next, Initialize, WriteSettles, FlushSteps, DrainSteps

\* Every step keeps the writers apart.
LEMMA WritersStep ==
  ASSUME TypeOK, Placed, Stored, Writers, [Next]_vars
  PROVE  Writers'
<1> USE CallersAssumption DEF store, startup, queue, flags, calls, ending
<1>1. CASE Attach
  BY <1>1 DEF TypeOK, Writers, Attach, InitFor
<1>2. CASE InitSucceeds
  BY <1>2 DEF TypeOK, Writers, InitSucceeds
<1>3. CASE InitFails
  BY <1>3 DEF TypeOK, Writers, InitFails
<1>4. CASE WriteSucceeds
  BY <1>4 DEF TypeOK, Writers, WriteSucceeds
<1>5. CASE WriteFails
  BY <1>5 DEF TypeOK, Writers, WriteFails, Retain
<1>6. ASSUME NEW c \in Callers, FlushRejects(c)
      PROVE  Writers'
  BY <1>6 DEF TypeOK, Writers, FlushRejects, Settle
<1>7. ASSUME NEW c \in Callers, JoinBarrier(c)
      PROVE  Writers'
  BY <1>7 DEF TypeOK, Writers, JoinBarrier, DrainHead, StartWrite, Settle
<1>8. CASE Drain
  BY <1>8 DEF TypeOK, Writers, Drain, DrainHead, StartWrite, Settle, Waiting
<1>9. CASE DrainRejects
  BY <1>9 DEF TypeOK, Writers, DrainRejects, Settle, Waiting
<1>10. CASE OnDeadline
  BY <1>10 DEF TypeOK, Writers, OnDeadline, StartWrite
<1>11. CASE ContinueAutomatic
  BY <1>11 DEF TypeOK, Writers, ContinueAutomatic, StartWrite
<1>12. CASE Release
  BY <1>12 DEF TypeOK, Writers, Release
<1>13. CASE Enqueue
  BY <1>13 DEF TypeOK, Writers, Enqueue, InitFor
<1>14. CASE Dispose
  BY <1>14 DEF TypeOK, Writers, Dispose, Flush, InitFor
<1>15. ASSUME NEW c \in Callers, CallFlush(c)
      PROVE  Writers'
  BY <1>15 DEF TypeOK, Writers, CallFlush, Flush, InitFor
<1>16. CASE UNCHANGED vars
  BY <1>16 DEF TypeOK, Writers, vars
<1> QED
  BY <1>1, <1>2, <1>3, <1>4, <1>5, <1>6, <1>7, <1>8, <1>9, <1>10,
     <1>11, <1>12, <1>13, <1>14, <1>15, <1>16
  DEF Next, Initialize, WriteSettles, FlushSteps, DrainSteps

\* Every step keeps what the callers were told true.
LEMMA ToldStep ==
  ASSUME TypeOK, Placed, Stored, Writers, Told, [Next]_vars
  PROVE  Told'
<1> USE CallersAssumption DEF store, startup, queue, flags, calls, ending
<1>1. CASE Attach
  BY <1>1 DEF TypeOK, Placed, Stored, BatchAt, QueueAt, Writers, Told, Attach, InitFor
<1>2. CASE InitSucceeds
  BY <1>2 DEF TypeOK, Placed, Stored, BatchAt, QueueAt, Writers, Told, InitSucceeds
<1>3. CASE InitFails
  BY <1>3 DEF TypeOK, Placed, Stored, BatchAt, QueueAt, Writers, Told, InitFails
<1>4. CASE WriteSucceeds
  <2>1. cursor' \in Nat /\ cursor <= cursor' /\ cursor' <= produced
    BY <1>4, WriteEffect
  <2>2. UNCHANGED <<produced, init, caller, goal, closed, released>>
    BY <1>4 DEF WriteSucceeds
  <2>3. released => cursor' = produced
    BY <2>1, PlacedBounds DEF Told
  <2>4. \A c \in Callers : goal[c] \in Nat
    BY DEF TypeOK
  <2>5. \A c \in Callers : caller[c] = "done" => goal[c] <= cursor'
    BY <2>1, <2>4, PlacedBounds DEF Told
  <2> QED
    BY <2>2, <2>3, <2>5 DEF Told
<1>5. CASE WriteFails
  BY <1>5 DEF TypeOK, Placed, Stored, BatchAt, QueueAt, Writers, Told, WriteFails, Retain
<1>6. ASSUME NEW c \in Callers, FlushRejects(c)
      PROVE  Told'
  BY <1>6 DEF TypeOK, Placed, Stored, BatchAt, QueueAt, Writers, Told, FlushRejects, Settle
<1>7. ASSUME NEW c \in Callers, JoinBarrier(c)
      PROVE  Told'
  BY <1>7 DEF TypeOK, Placed, Stored, BatchAt, QueueAt, Writers, Told, JoinBarrier, DrainHead, StartWrite, Settle
<1>8. CASE Drain
  BY <1>8 DEF TypeOK, Placed, Stored, BatchAt, QueueAt, Writers, Told, Drain, DrainHead, StartWrite, Settle, Waiting
<1>9. CASE DrainRejects
  BY <1>9 DEF TypeOK, Placed, Stored, BatchAt, QueueAt, Writers, Told, DrainRejects, Settle, Waiting
<1>10. CASE OnDeadline
  BY <1>10 DEF TypeOK, Placed, Stored, BatchAt, QueueAt, Writers, Told, OnDeadline, StartWrite
<1>11. CASE ContinueAutomatic
  BY <1>11 DEF TypeOK, Placed, Stored, BatchAt, QueueAt, Writers, Told, ContinueAutomatic, StartWrite
<1>12. CASE Release
  BY <1>12 DEF TypeOK, Placed, Stored, BatchAt, QueueAt, Writers, Told, Release
<1>13. CASE Enqueue
  BY <1>13 DEF TypeOK, Placed, Stored, BatchAt, QueueAt, Writers, Told, Enqueue, InitFor
<1>14. CASE Dispose
  BY <1>14 DEF TypeOK, Placed, Stored, BatchAt, QueueAt, Writers, Told, Dispose, Flush, InitFor
<1>15. ASSUME NEW c \in Callers, CallFlush(c)
      PROVE  Told'
  BY <1>15 DEF TypeOK, Placed, Stored, BatchAt, QueueAt, Writers, Told, CallFlush, Flush, InitFor
<1>16. CASE UNCHANGED vars
  BY <1>16 DEF TypeOK, Placed, Stored, BatchAt, QueueAt, Writers, Told, vars
<1> QED
  BY <1>1, <1>2, <1>3, <1>4, <1>5, <1>6, <1>7, <1>8, <1>9, <1>10,
     <1>11, <1>12, <1>13, <1>14, <1>15, <1>16
  DEF Next, Initialize, WriteSettles, FlushSteps, DrainSteps

\* Every step that leaves an event queued leaves somebody to write it.
LEMMA StrandedStep ==
  ASSUME TypeOK, Placed, Stored, Writers, NoEventStranded, [Next]_vars
  PROVE  NoEventStranded'
<1> USE CallersAssumption DEF store, startup, queue, flags, calls, ending
<1>1. CASE Attach
  BY <1>1 DEF TypeOK, Writers, Stored, NoEventStranded, Attach, InitFor
<1>2. CASE InitSucceeds
  BY <1>2 DEF TypeOK, Writers, Stored, NoEventStranded, InitSucceeds
<1>3. CASE InitFails
  BY <1>3 DEF TypeOK, Writers, Stored, NoEventStranded, InitFails
<1>4. CASE WriteSucceeds
  BY <1>4 DEF TypeOK, Writers, Stored, NoEventStranded, WriteSucceeds
<1>5. CASE WriteFails
  BY <1>5 DEF TypeOK, Writers, Stored, NoEventStranded, WriteFails, Retain
<1>6. ASSUME NEW c \in Callers, FlushRejects(c)
      PROVE  NoEventStranded'
  BY <1>6 DEF TypeOK, Writers, Stored, NoEventStranded, FlushRejects, Settle
<1>7. ASSUME NEW c \in Callers, JoinBarrier(c)
      PROVE  NoEventStranded'
  BY <1>7 DEF TypeOK, Writers, Stored, NoEventStranded, JoinBarrier, DrainHead, StartWrite, Settle
<1>8. CASE Drain
  BY <1>8 DEF TypeOK, Writers, Stored, NoEventStranded, Drain, DrainHead, StartWrite, Settle, Waiting
<1>9. CASE DrainRejects
  BY <1>9 DEF TypeOK, Writers, Stored, NoEventStranded, DrainRejects, Settle, Waiting
<1>10. CASE OnDeadline
  BY <1>10 DEF TypeOK, Writers, Stored, NoEventStranded, OnDeadline, StartWrite
<1>11. CASE ContinueAutomatic
  BY <1>11 DEF TypeOK, Writers, Stored, NoEventStranded, ContinueAutomatic, StartWrite
<1>12. CASE Release
  BY <1>12 DEF TypeOK, Writers, Stored, NoEventStranded, Release
<1>13. CASE Enqueue
  BY <1>13 DEF TypeOK, Writers, Stored, NoEventStranded, Enqueue, InitFor
<1>14. CASE Dispose
  BY <1>14 DEF TypeOK, Writers, Stored, NoEventStranded, Dispose, Flush, InitFor
<1>15. ASSUME NEW c \in Callers, CallFlush(c)
      PROVE  NoEventStranded'
  BY <1>15 DEF TypeOK, Writers, Stored, NoEventStranded, CallFlush, Flush, InitFor
<1>16. CASE UNCHANGED vars
  BY <1>16 DEF TypeOK, Writers, Stored, NoEventStranded, vars
<1> QED
  BY <1>1, <1>2, <1>3, <1>4, <1>5, <1>6, <1>7, <1>8, <1>9, <1>10,
     <1>11, <1>12, <1>13, <1>14, <1>15, <1>16
  DEF Next, Initialize, WriteSettles, FlushSteps, DrainSteps

\* A session begins with nothing queued, and with a prefix of its seed stored.
LEMMA InvInit == Init => IInv
<1> SUFFICES ASSUME Init
             PROVE  IInv
  OBVIOUS
<1> USE CallersAssumption
<1>1. PICK n \in 0..produced : stored = Events(0, n)
  BY DEF Init
<1>2. /\ n \in Nat /\ produced \in Nat /\ n <= produced /\ produced <= MaxEvents
      /\ 0 \in Nat /\ 0 <= n /\ n <= MaxEvents
  BY DEF Init
<1>3. stored \in Seqs /\ <<>> \in Seqs
  BY <1>1, <1>2, EventsType DEF Seqs
<1>4. Len(stored) = n
  <2>1. Len(Events(0, n)) = n - 0
    BY <1>2, EventsAre
  <2> QED
    BY <1>1, <1>2, <2>1
<1>5. TypeOK
  <2>1. 0 \in 0..MaxEvents /\ produced \in 0..MaxEvents
    BY <1>2
  <2>2. stored \in Seqs /\ pending \in Seqs /\ batch \in Seqs
    BY <1>3 DEF Init
  <2>3. goal \in [Callers -> 0..MaxEvents]
    BY <2>1 DEF Init
  <2> QED
    BY <2>1, <2>2, <2>3 DEF Init, TypeOK
<1>6. Placed
  <2>1. BatchAt = produced /\ QueueAt = produced
    BY <1>2 DEF Init, BatchAt, QueueAt
  <2> QED
    BY <1>2, <2>1, EventsNone DEF Init, Placed
<1>7. Stored
  BY <1>1, <1>2, <1>4 DEF Init, Stored
<1>8. Writers /\ Told /\ NoEventStranded
  BY <1>2 DEF Init, Writers, Told, NoEventStranded
<1> QED
  BY <1>5, <1>6, <1>7, <1>8 DEF IInv

\* Every step of the write-behind keeps the invariant.
LEMMA InvStep == IInv /\ [Next]_vars => IInv'
<1> SUFFICES ASSUME IInv, [Next]_vars
             PROVE  IInv'
  OBVIOUS
<1> QED
  BY TypeStep, PlacedStep, StoredStep, WritersStep, ToldStep, StrandedStep DEF IInv

\* Every run of the write-behind keeps the invariant.
LEMMA InvHolds == Spec => []IInv
  BY InvInit, InvStep, PTL DEF Spec

-----------------------------------------------------------------------------

\* The state of the write-behind has its types.
THEOREM TypeCorrect == Spec => []TypeOK
<1>1. IInv => TypeOK
  BY DEF IInv
<1> QED
  BY <1>1, InvHolds, PTL

\* A queued event has somebody to write it, whatever deadline, barrier and
\* failure interleave: onDeadline, continueAutomatic and drainBarrier hand the
\* queue over without a gap.
THEOREM NobodyStranded == Spec => []NoEventStranded
<1>1. IInv => NoEventStranded
  BY DEF IInv
<1> QED
  BY <1>1, InvHolds, PTL

\* flush resolves only when all the session had at the call is durable, for
\* any number of concurrent callers, and retirement forgets nothing unstored.
THEOREM PromiseKept == Spec => []FlushKeepsPromise
<1>1. IInv => FlushKeepsPromise
  BY DEF IInv, Told, FlushKeepsPromise
<1> QED
  BY <1>1, InvHolds, PTL

-----------------------------------------------------------------------------

\* The two things a step does to the log and the store: nothing, one more event,
\* or a longer prefix stored by the initialization or a write.
LEMMA StoreStep ==
  ASSUME IInv, [Next]_vars
  PROVE  \/ UNCHANGED <<produced, stored>>
         \/ produced' = produced + 1 /\ UNCHANGED stored
         \/ /\ UNCHANGED produced
            /\ stored' = Events(0, Len(stored')) /\ Len(stored') \in Nat
            /\ Len(stored) <= Len(stored') /\ Len(stored') <= produced
<1> USE DEF store, startup, queue, flags, calls, ending
<1>1. CASE WriteSucceeds
  BY <1>1, WriteEffect DEF IInv, WriteSucceeds
<1>2. CASE InitSucceeds
  BY <1>2, InitEffect, PlacedBounds DEF IInv, InitSucceeds
<1>3. CASE Enqueue
  BY <1>3 DEF Enqueue
<1>4. CASE UNCHANGED <<produced, stored>>
  BY <1>4
<1>5. Attach \/ InitFails \/ WriteFails \/ DrainSteps \/ FlushSteps => UNCHANGED <<produced, stored>>
  BY DEF Attach, InitFails, WriteFails, DrainSteps, Drain, DrainRejects, FlushSteps,
         FlushRejects, JoinBarrier
<1>6. OnDeadline \/ ContinueAutomatic \/ Release \/ Dispose => UNCHANGED <<produced, stored>>
  BY DEF OnDeadline, ContinueAutomatic, Release, Dispose, Flush
<1>7. (\E c \in Callers : CallFlush(c)) \/ UNCHANGED vars => UNCHANGED <<produced, stored>>
  BY DEF CallFlush, Flush, vars
<1> QED
  BY <1>1, <1>2, <1>3, <1>4, <1>5, <1>6, <1>7 DEF Next, Initialize, WriteSettles

\* Every step extends the log, persists a longer prefix of it, or does neither.
LEMMA PrefixStep ==
  ASSUME IInv, [Next]_vars
  PROVE  [Store!Extend \/ Store!Persist]_<<Events(0, produced), stored>>
<1>0. /\ produced \in Nat /\ 0 <= produced /\ stored \in Seq(Nat) /\ Len(stored) \in Nat
      /\ stored = Events(0, Len(stored)) /\ 0 \in Nat
  BY PlacedBounds DEF IInv, Stored
<1>1. Len(Events(0, produced)) = produced
  <2>1. Len(Events(0, produced)) = produced - 0
    BY <1>0, EventsAre
  <2> QED
    BY <1>0, <2>1
<1>2. CASE UNCHANGED <<produced, stored>>
  BY <1>2
<1>3. CASE produced' = produced + 1 /\ UNCHANGED stored
  <2>1. produced' \in Nat /\ produced <= produced' /\ 0 <= produced'
    BY <1>0, <1>3
  <2>2. Len(Events(0, produced')) = produced'
    <3>1. Len(Events(0, produced')) = produced' - 0
      BY <1>0, <2>1, EventsAre
    <3> QED
      BY <2>1, <3>1
  <2>3. SubSeq(Events(0, produced'), 1, produced) = Events(0, produced)
    BY <1>0, <2>1, EventsPrefix
  <2> QED
    BY <1>1, <1>3, <2>2, <2>3 DEF Store!Extend
<1>4. CASE /\ UNCHANGED produced
           /\ stored' = Events(0, Len(stored')) /\ Len(stored') \in Nat
           /\ Len(stored) <= Len(stored') /\ Len(stored') <= produced
  <2>1. CASE Len(stored') = Len(stored)
    BY <1>0, <1>4, <2>1
  <2>2. CASE Len(stored') > Len(stored)
    <3>1. stored' = SubSeq(Events(0, produced), 1, Len(stored'))
      BY <1>0, <1>4, EventsPrefix
    <3>2. Len(stored') \in (Len(stored) + 1)..Len(Events(0, produced))
      BY <1>0, <1>1, <1>4, <2>2
    <3> QED
      BY <1>4, <3>1, <3>2 DEF Store!Persist
  <2> QED
    BY <1>0, <1>4, <2>1, <2>2
<1> QED
  BY <1>2, <1>3, <1>4, StoreStep

\* The write-behind implements PrefixStore: through batches, retries, barriers
\* and the initialization the store is a growing prefix of the session's log.
THEOREM StoreCorrect == Spec => ImplementsPrefixStore
<1>1. Init => Store!Init
  <2> SUFFICES ASSUME Init
               PROVE  Store!Init
    OBVIOUS
  <2>1. PICK n \in 0..produced : stored = Events(0, n)
    BY DEF Init
  <2>2. produced \in Nat /\ n \in Nat /\ n <= produced /\ 0 \in Nat /\ 0 <= produced
    BY CallersAssumption DEF Init
  <2>3. Len(Events(0, produced)) = produced - 0
    BY <2>2, EventsAre
  <2>4. stored = SubSeq(Events(0, produced), 1, n)
    BY <2>1, <2>2, EventsPrefix
  <2>5. n \in 0..Len(Events(0, produced))
    BY <2>2, <2>3
  <2> QED
    BY <2>4, <2>5 DEF Store!Init
<1>2. IInv /\ [Next]_vars => [Store!Extend \/ Store!Persist]_<<Events(0, produced), stored>>
  BY PrefixStep
<1> QED
  BY <1>1, <1>2, InvHolds, PTL DEF Spec, ImplementsPrefixStore, Store!Spec

=============================================================================
