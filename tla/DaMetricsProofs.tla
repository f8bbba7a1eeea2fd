--------------------------- MODULE DaMetricsProofs --------------------------
(***************************************************************************)
(* What holds of the task for every number of blobs, every channel and map *)
(* capacity, every lifetime and every receipt: the map stays within its    *)
(* cap, entries expire, latencies are real, and no loss is silent, up to   *)
(* the task's end.                                                         *)
(***************************************************************************)
EXTENDS DaMetrics, Sums

-----------------------------------------------------------------------------
(* Types                                                                   *)

LEMMA SmallModulo ==
  ASSUME NEW n \in Nat, NEW k \in Nat \ {0}
  PROVE  /\ n < k => n % k = n
         /\ n = k => n % k = 0
OBVIOUS

LEMMA EventFields ==
  ASSUME NEW event \in Event
  PROVE  /\ event.status \in {"Published", "Finalized", "Failed"} => event.blob \in Blob
         /\ event.status = "Finalized" => event.took \in 0 .. MaxAge
         /\ event.status = "Failed" => event.reason \in Reason
BY DEF Event

LEMMA ReceiptFields ==
  ASSUME NEW b \in Blob
  PROVE  /\ ReceiptOf[b].fee_paid \in Nat \cup {None} /\ ReceiptOf[b].gas_used \in Nat \cup {None}
         /\ ReceiptOf[b].size_in_bytes \in Nat
<1>1. ReceiptOf[b] \in Receipt
  BY BlobAssumption
<1>2. QED
  BY <1>1 DEF Receipt

LEMMA AgesAreNat == MaxAge \in Nat /\ MaxAge > 0
BY CapsAssumption DEF MaxAge

\* The head of the channel is an event, and what is behind it a channel.
LEMMA HeadAndTail ==
  ASSUME TypeOK, channel # <<>>
  PROVE  /\ channel[1] \in Event /\ Tail(channel) \in Seq(Event)
         /\ Len(Tail(channel)) = Len(channel) - 1
         /\ \A i \in 1 .. Len(channel) - 1 : Tail(channel)[i] = channel[i + 1]
BY DEF TypeOK

LEMMA BroadcastType ==
  ASSUME TypeOK, NEW event \in Event, Broadcast(event)
  PROVE  /\ channel' \in Seq(Event) /\ Len(channel') <= CHANNEL_CAP /\ missed' \in Nat
         /\ UNCHANGED <<open, in_flight, sweep, running, metrics>>
<1>1. CASE Len(channel) < CHANNEL_CAP /\ channel' = Append(channel, event) /\ UNCHANGED missed
  BY <1>1, CapsAssumption DEF TypeOK, Broadcast
<1>2. CASE /\ Len(channel) = CHANNEL_CAP
           /\ channel' = Append(Tail(channel), event) /\ missed' = missed + 1
  <2>1. channel # <<>> /\ Len(channel) \in Nat
    BY <1>2, CapsAssumption DEF TypeOK
  <2>2. QED
    BY <1>2, <2>1, HeadAndTail, CapsAssumption DEF TypeOK, Broadcast
<1>3. QED
  BY <1>1, <1>2 DEF Broadcast

\* What the task does to the registry keeps its counters.
LEMMA PublishedCounts ==
  ASSUME TypeOK, NEW b \in Blob, RecordDaBlobPublished(ReceiptOf[b])
  PROVE  /\ metrics' \in Counts /\ metrics'.dropped = metrics.dropped
         /\ metrics'.latencies = metrics.latencies
<1> DEFINE fee == IF ReceiptOf[b].fee_paid = None THEN DA_BLOB_TIA_ESTIMATE_NANO
                                                  ELSE ReceiptOf[b].fee_paid
           gas == IF ReceiptOf[b].gas_used = None THEN 0 ELSE ReceiptOf[b].gas_used
<1>1. fee \in Nat /\ gas \in Nat /\ ReceiptOf[b].size_in_bytes \in Nat
  BY ReceiptFields, EstimateAssumption
<1>2. metrics' = [metrics EXCEPT !.published = @ + 1, !.tia_burned = @ + fee,
                    !.bytes = @ + ReceiptOf[b].size_in_bytes, !.gas = @ + gas]
  BY DEF RecordDaBlobPublished
<1> HIDE DEF fee, gas
<1>3. metrics \in Counts
  BY DEF TypeOK
<1>4. /\ metrics.published \in Nat /\ metrics.tia_burned \in Nat /\ metrics.bytes \in Nat
      /\ metrics.gas \in Nat
  BY <1>3 DEF Counts
<1>5. metrics' = [published |-> metrics.published + 1, tia_burned |-> metrics.tia_burned + fee,
                  bytes |-> metrics.bytes + ReceiptOf[b].size_in_bytes, gas |-> metrics.gas + gas,
                  failures |-> metrics.failures, latencies |-> metrics.latencies,
                  dropped |-> metrics.dropped]
  BY <1>2, <1>3 DEF Counts
<1>6. /\ metrics.failures \in [Reason -> Nat] /\ metrics.latencies \in Nat /\ metrics.dropped \in Nat
  BY <1>3 DEF Counts
<1>7. QED
  BY <1>1, <1>4, <1>5, <1>6 DEF Counts

LEMMA InitTypeOK == Init => TypeOK
<1> SUFFICES ASSUME Init PROVE TypeOK
  OBVIOUS
<1>1. blobs \in [Blob -> [stage: {"new", "published", "finalized", "failed"}, age: 0 .. MaxAge]]
  BY AgesAreNat DEF Init
<1>2. metrics \in Counts
  BY DEF Init, Counts, Zeros
<1>3. channel \in Seq(Event) /\ Len(channel) <= CHANNEL_CAP
  BY CapsAssumption DEF Init
<1>4. QED
  BY <1>1, <1>2, <1>3, CapsAssumption DEF Init, TypeOK

\* The sender's steps.
LEMMA SenderType ==
  ASSUME TypeOK, NEW b \in Blob
  PROVE  /\ Publish(b) => TypeOK'
         /\ Process(b) => TypeOK'
         /\ Finalize(b) => TypeOK'
         /\ \A reason \in Reason, will_retry \in BOOLEAN : Fail(b, reason, will_retry) => TypeOK'
<1> DEFINE View == [Blob -> [stage: {"new", "published", "finalized", "failed"}, age: 0 .. MaxAge]]
<1>1. ASSUME NEW event \in Event, Broadcast(event), blobs' \in View
      PROVE  TypeOK'
  BY <1>1, BroadcastType DEF TypeOK, sweep
<1>2. CASE Publish(b)
  <2>1. [status |-> "Published", blob |-> b] \in Event
    BY DEF Event
  <2>2. blobs' \in View
    BY <1>2, AgesAreNat DEF Publish, TypeOK
  <2>3. QED
    BY <1>1, <1>2, <2>1, <2>2 DEF Publish
<1>3. CASE Process(b)
  <2>1. [status |-> "Processed"] \in Event
    BY DEF Event
  <2>2. QED
    BY <1>1, <1>3, <2>1 DEF Process, TypeOK
<1>4. CASE Finalize(b)
  <2>1. blobs[b].age \in 0 .. MaxAge
    BY DEF TypeOK
  <2>2. [status |-> "Finalized", blob |-> b, took |-> blobs[b].age] \in Event
    BY <2>1 DEF Event
  <2>3. blobs' \in View
    BY <1>4 DEF Finalize, TypeOK
  <2>4. QED
    BY <1>1, <1>4, <2>2, <2>3 DEF Finalize
<1>5. ASSUME NEW reason \in Reason, NEW will_retry \in BOOLEAN, Fail(b, reason, will_retry)
      PROVE  TypeOK'
  <2>1. [status |-> "Failed", reason |-> reason, blob |-> b] \in Event
    BY DEF Event
  <2>2. blobs' \in View
    BY <1>5 DEF Fail, TypeOK
  <2>3. QED
    BY <1>1, <1>5, <2>1, <2>2 DEF Fail
<1>6. QED
  BY <1>2, <1>3, <1>4, <1>5

LEMMA ReceiveType ==
  ASSUME TypeOK, NEW status, Receive(status)
  PROVE  /\ channel' \in Seq(Event) /\ Len(channel') <= CHANNEL_CAP
         /\ Next_event \in Event /\ Next_event.status = status /\ channel # <<>>
         /\ running /\ missed = 0 /\ channel' = Tail(channel)
         /\ UNCHANGED <<sender, missed, sweep, running>>
<1>1. channel # <<>> /\ channel' = Tail(channel)
  BY DEF Receive
<1>2. Len(channel) \in Nat /\ Len(channel) <= CHANNEL_CAP /\ CHANNEL_CAP \in Nat
  BY CapsAssumption DEF TypeOK
<1>3. Len(channel') <= CHANNEL_CAP /\ channel' \in Seq(Event) /\ channel[1] \in Event
  BY <1>1, <1>2, HeadAndTail
<1>4. QED
  BY <1>1, <1>3 DEF Receive, Next_event

LEMMA OnPublishedType ==
  ASSUME TypeOK, OnPublished
  PROVE  /\ TypeOK' /\ Next_event.blob \in Blob
         /\ metrics'.dropped = metrics.dropped /\ metrics'.latencies = metrics.latencies
<1>1. Next_event.blob \in Blob
  BY ReceiveType, EventFields DEF OnPublished
<1>2. in_flight' \in [Blob -> Nat \cup {None}]
  BY <1>1 DEF OnPublished, Insert, TypeOK
<1>3. /\ metrics' \in Counts /\ metrics'.dropped = metrics.dropped
      /\ metrics'.latencies = metrics.latencies
  BY <1>1, PublishedCounts DEF OnPublished
<1>4. /\ channel' \in Seq(Event) /\ Len(channel') <= CHANNEL_CAP
      /\ UNCHANGED <<sender, missed, sweep, running>>
  BY ReceiveType DEF OnPublished
<1>5. QED
  BY <1>1, <1>2, <1>3, <1>4 DEF TypeOK, sender, sweep

LEMMA OnFinalizedType ==
  ASSUME TypeOK, OnFinalized
  PROVE  TypeOK' /\ Next_event.blob \in Blob /\ metrics'.dropped = metrics.dropped
<1>1. Next_event.blob \in Blob
  BY ReceiveType, EventFields DEF OnFinalized
<1>2. in_flight' \in [Blob -> Nat \cup {None}]
  BY <1>1 DEF OnFinalized, TypeOK
<1>3. metrics \in Counts
  BY DEF TypeOK
<1>4. metrics.latencies \in Nat
  BY <1>3 DEF Counts
<1>5. \E n \in Nat : metrics' = [metrics EXCEPT !.latencies = n]
  BY <1>4 DEF OnFinalized
<1>6. metrics' \in Counts /\ metrics'.dropped = metrics.dropped
  BY <1>3, <1>5 DEF Counts
<1>7. /\ channel' \in Seq(Event) /\ Len(channel') <= CHANNEL_CAP
      /\ UNCHANGED <<sender, missed, sweep, running>>
  BY ReceiveType DEF OnFinalized
<1>8. QED
  BY <1>1, <1>2, <1>6, <1>7 DEF TypeOK, sender, sweep

LEMMA OnFailedType ==
  ASSUME TypeOK, OnFailed
  PROVE  TypeOK' /\ metrics'.dropped = metrics.dropped /\ metrics'.latencies = metrics.latencies
<1>1. Next_event.reason \in Reason
  BY ReceiveType, EventFields DEF OnFailed
<1>2. metrics \in Counts
  BY DEF TypeOK
<1>3. metrics.failures \in [Reason -> Nat]
  BY <1>2 DEF Counts
<1>4. \E f \in [Reason -> Nat] : metrics' = [metrics EXCEPT !.failures = f]
  <2>1. [metrics.failures EXCEPT ![Next_event.reason] = @ + 1] \in [Reason -> Nat]
    BY <1>1, <1>3
  <2>2. QED
    BY <2>1 DEF OnFailed
<1>5. /\ metrics' \in Counts /\ metrics'.dropped = metrics.dropped
      /\ metrics'.latencies = metrics.latencies
  BY <1>2, <1>4 DEF Counts
<1>6. /\ channel' \in Seq(Event) /\ Len(channel') <= CHANNEL_CAP
      /\ UNCHANGED <<sender, missed, sweep, running>>
  BY ReceiveType DEF OnFailed
<1>7. QED
  BY <1>5, <1>6 DEF OnFailed, TypeOK, sender, sweep

LEMMA OnLaggedType ==
  ASSUME TypeOK, OnLagged
  PROVE  TypeOK' /\ metrics'.dropped > 0 /\ metrics'.latencies = metrics.latencies
<1>1. metrics \in Counts /\ missed \in Nat /\ missed > 0
  BY DEF TypeOK, OnLagged
<1>2. metrics.dropped \in Nat
  BY <1>1 DEF Counts
<1>3. \E n \in Nat \ {0} : metrics' = [metrics EXCEPT !.dropped = n]
  BY <1>1, <1>2 DEF OnLagged
<1>4. metrics' \in Counts /\ metrics'.dropped > 0 /\ metrics'.latencies = metrics.latencies
  BY <1>1, <1>3 DEF Counts
<1>5. QED
  BY <1>4 DEF OnLagged, TypeOK, sender, sweep

LEMMA TickType ==
  ASSUME TypeOK, Tick
  PROVE  TypeOK'
<1>1. in_flight' \in [Blob -> Nat \cup {None}]
  BY DEF Tick, TypeOK, Older
<1>2. blobs' \in [Blob -> [stage: {"new", "published", "finalized", "failed"}, age: 0 .. MaxAge]]
  <2>1. ASSUME NEW b \in Blob, blobs[b].age < MaxAge
        PROVE  [blobs[b] EXCEPT !.age = @ + 1]
                 \in [stage: {"new", "published", "finalized", "failed"}, age: 0 .. MaxAge]
    <3>1. blobs[b] \in [stage: {"new", "published", "finalized", "failed"}, age: 0 .. MaxAge]
      BY DEF TypeOK
    <3>2. blobs[b].age + 1 \in 0 .. MaxAge
      BY <2>1, <3>1, AgesAreNat
    <3>3. QED
      BY <3>1, <3>2
  <2>2. QED
    BY <2>1 DEF Tick, TypeOK
<1>3. since_sweep' \in 0 .. SWEEP_INTERVAL - 1 /\ sweep_due' \in BOOLEAN
  <2>1. since_sweep + 1 \in Nat /\ SWEEP_INTERVAL \in Nat \ {0} /\ since_sweep + 1 <= SWEEP_INTERVAL
    BY CapsAssumption DEF TypeOK
  <2>2. \/ since_sweep + 1 < SWEEP_INTERVAL /\ since_sweep' = since_sweep + 1
        \/ since_sweep + 1 = SWEEP_INTERVAL /\ since_sweep' = 0
    BY <2>1, SmallModulo DEF Tick
  <2>3. sweep_due' \in BOOLEAN
    BY DEF Tick
  <2>4. QED
    BY <2>1, <2>2, <2>3
<1>4. QED
  BY <1>1, <1>2, <1>3 DEF Tick, TypeOK

LEMMA NextTypeOK == TypeOK /\ [Next]_vars => TypeOK'
<1> SUFFICES ASSUME TypeOK, [Next]_vars PROVE TypeOK'
  OBVIOUS
<1>1. CASE Close
  BY <1>1 DEF Close, TypeOK, sweep
<1>2. CASE Sweep
  BY <1>2 DEF Sweep, TypeOK, sender
<1>3. CASE OnOther
  <2>1. Receive("Processed") /\ UNCHANGED <<in_flight, metrics>>
    BY <1>3 DEF OnOther
  <2>2. QED
    BY <2>1, ReceiveType DEF TypeOK, sender, sweep
<1>4. CASE OnClosed
  BY <1>4 DEF OnClosed, TypeOK, sender, sweep
<1>5. CASE UNCHANGED vars
  BY <1>5 DEF vars, sender, sweep, TypeOK
<1>6. QED
  BY <1>1, <1>2, <1>3, <1>4, <1>5, SenderType, OnPublishedType, OnFinalizedType, OnFailedType,
     OnLaggedType, TickType DEF Next, Task

\* Every entry of the map has an age, the registry holds counters, and the channel never
\* holds more than it has room for.
THEOREM TypeCorrect == Spec => []TypeOK
BY InitTypeOK, NextTypeOK, PTL DEF Spec

-----------------------------------------------------------------------------
(* The map                                                                 *)

LEMMA TrackedIsFinite == IsFiniteSet(Tracked) /\ Cardinality(Tracked) \in Nat
BY BlobAssumption, FS_Subset, FS_CardinalityType DEF Tracked

\* No step but a publication's adds an entry.
LEMMA OnlyPublishedAdds ==
  ASSUME TypeOK, [Next]_vars, ~OnPublished
  PROVE  Tracked' \subseteq Tracked
<1>1. \A b \in Blob : in_flight'[b] # None => in_flight[b] # None
  <2>1. CASE UNCHANGED in_flight
    BY <2>1
  <2>2. CASE Sweep
    BY <2>2 DEF Sweep, TypeOK
  <2>3. CASE OnFinalized
    BY <2>3 DEF OnFinalized, TypeOK
  <2>4. CASE Tick
    BY <2>4 DEF Tick, TypeOK, Older
  <2>5. QED
    BY <2>1, <2>2, <2>3, <2>4
    DEF Next, Task, Publish, Process, Finalize, Fail, Broadcast, Close, OnPublished, OnFailed,
        OnOther, OnLagged, OnClosed, vars
<1>2. QED
  BY <1>1 DEF Tracked

\* A publication adds one entry, and takes one away first if the map is full.
LEMMA PublishedStaysWithinCap ==
  ASSUME TypeOK, InFlightIsBounded, OnPublished
  PROVE  InFlightIsBounded'
<1> DEFINE b == Next_event.blob
<1>1. b \in Blob
  BY OnPublishedType
<1>2. PICK evicted \in Evictions : Insert(b, evicted)
  BY DEF OnPublished
<1>3. in_flight \in [Blob -> Nat \cup {None}]
  BY DEF TypeOK
<1>4. Tracked' = (Tracked \ evicted) \cup {b}
  BY <1>1, <1>2, <1>3, BlobAssumption DEF Insert, Tracked
<1>5. Cardinality(Tracked \ evicted) < INFLIGHT_CAP
  <2>1. CASE Cardinality(Tracked) >= INFLIGHT_CAP
    <3>1. PICK e \in Tracked : evicted = {e}
      BY <1>2, <2>1 DEF Evictions
    <3>2. Cardinality(Tracked \ {e}) = Cardinality(Tracked) - 1
      BY <3>1, TrackedIsFinite, FS_RemoveElement
    <3>3. QED
      BY <3>1, <3>2, TrackedIsFinite, CapsAssumption DEF InFlightIsBounded
  <2>2. CASE ~(Cardinality(Tracked) >= INFLIGHT_CAP)
    <3>1. evicted = {}
      BY <1>2, <2>2 DEF Evictions
    <3>2. QED
      BY <2>2, <3>1, TrackedIsFinite, CapsAssumption
  <2>3. QED
    BY <2>1, <2>2
<1>6. IsFiniteSet(Tracked \ evicted) /\ Cardinality(Tracked \ evicted) \in Nat
  BY TrackedIsFinite, FS_Difference, FS_CardinalityType
<1>7. Cardinality((Tracked \ evicted) \cup {b}) <= Cardinality(Tracked \ evicted) + 1
  <2> DEFINE left == Tracked \ evicted
  <2> HIDE DEF left, b
  <2>1. SUFFICES Cardinality(left \cup {b}) <= Cardinality(left) + 1
    BY DEF left
  <2>2. IsFiniteSet(left) /\ Cardinality(left) \in Nat
    BY <1>6 DEF left
  <2>3. \/ Cardinality(left \cup {b}) = Cardinality(left)
        \/ Cardinality(left \cup {b}) = Cardinality(left) + 1
    BY <2>2, FS_AddElement
  <2>4. QED
    BY <2>2, <2>3
<1>8. Cardinality((Tracked \ evicted) \cup {b}) \in Nat
  <2>1. IsFiniteSet((Tracked \ evicted) \cup {b})
    BY <1>6, FS_AddElement
  <2>2. QED
    BY <2>1, FS_CardinalityType
<1>9. QED
  BY <1>4, <1>5, <1>6, <1>7, <1>8, CapsAssumption DEF InFlightIsBounded

\* The map never outgrows its cap, however many blobs are under way.
THEOREM MapIsBounded == Spec => []InFlightIsBounded
<1>1. Init => InFlightIsBounded
  <2>1. Init => Tracked = {}
    BY DEF Init, Tracked
  <2>2. QED
    BY <2>1, FS_EmptySet, CapsAssumption DEF InFlightIsBounded
<1>2. TypeOK /\ InFlightIsBounded /\ [Next]_vars => InFlightIsBounded'
  <2> SUFFICES ASSUME TypeOK, InFlightIsBounded, [Next]_vars PROVE InFlightIsBounded'
    OBVIOUS
  <2>1. CASE OnPublished
    BY <2>1, PublishedStaysWithinCap
  <2>2. CASE ~OnPublished
    <3>1. Tracked' \subseteq Tracked
      BY <2>2, OnlyPublishedAdds
    <3>2. Cardinality(Tracked') <= Cardinality(Tracked) /\ Cardinality(Tracked') \in Nat
      BY <3>1, TrackedIsFinite, FS_Subset, FS_CardinalityType
    <3>3. QED
      BY <3>2, TrackedIsFinite, CapsAssumption DEF InFlightIsBounded
  <2>3. QED
    BY <2>1, <2>2
<1>3. QED
  BY <1>1, <1>2, TypeCorrect, PTL DEF Spec

\* Time passes only when the sweep has been served.
LEMMA TickKeepsExpiry ==
  ASSUME TypeOK, EntriesExpire, Tick
  PROVE  EntriesExpire'
<1>1. /\ since_sweep \in Nat /\ since_sweep < SWEEP_INTERVAL /\ SWEEP_INTERVAL \in Nat \ {0}
      /\ INFLIGHT_TTL \in Nat \ {0} /\ ~sweep_due /\ in_flight \in [Blob -> Nat \cup {None}]
  BY CapsAssumption DEF TypeOK, Tick
<1>2. \/ since_sweep + 1 < SWEEP_INTERVAL /\ since_sweep' = since_sweep + 1
      \/ since_sweep + 1 = SWEEP_INTERVAL /\ since_sweep' = 0
  <2>1. since_sweep + 1 \in Nat /\ since_sweep + 1 <= SWEEP_INTERVAL
    BY <1>1
  <2>2. since_sweep' = (since_sweep + 1) % SWEEP_INTERVAL
    BY DEF Tick
  <2>3. QED
    BY <1>1, <2>1, <2>2, SmallModulo
<1> DEFINE room == IF sweep_due' THEN SWEEP_INTERVAL ELSE since_sweep'
<1>3. since_sweep + 1 <= room /\ room \in Nat
  <2>1. sweep_due' <=> since_sweep' = 0
    BY Zenon DEF Tick
  <2>2. (since_sweep' = 0 /\ room = SWEEP_INTERVAL) \/ (since_sweep' # 0 /\ room = since_sweep')
    BY <2>1, Zenon
  <2> HIDE DEF room
  <2>3. QED
    BY <1>1, <1>2, <2>2
<1> HIDE DEF room
<1>4. ASSUME NEW b \in Blob, in_flight'[b] # None
      PROVE  in_flight'[b] < INFLIGHT_TTL + room
  <2>1. in_flight[b] # None /\ in_flight'[b] = in_flight[b] + 1 /\ in_flight[b] \in Nat
    BY <1>1, <1>4 DEF Tick, Older
  <2>2. in_flight[b] < INFLIGHT_TTL + since_sweep
    BY <1>1, <2>1 DEF EntriesExpire, Tracked
  <2>3. QED
    BY <1>1, <1>3, <2>1, <2>2
<1>5. QED
  BY <1>4 DEF EntriesExpire, Tracked, room

LEMMA NextKeepsExpiry ==
  ASSUME TypeOK, EntriesExpire, [Next]_vars
  PROVE  EntriesExpire'
<1>0. /\ INFLIGHT_TTL \in Nat \ {0} /\ SWEEP_INTERVAL \in Nat \ {0} /\ since_sweep \in Nat
      /\ in_flight \in [Blob -> Nat \cup {None}]
  BY CapsAssumption DEF TypeOK
<1>1. ASSUME UNCHANGED sweep, \A b \in Blob : in_flight'[b] \in {in_flight[b], 0, None}
      PROVE  EntriesExpire'
  <2>1. UNCHANGED <<since_sweep, sweep_due>>
    BY <1>1 DEF sweep
  <2>2. QED
    BY <1>0, <1>1, <2>1 DEF EntriesExpire, Tracked
<1>2. CASE Sweep
  BY <1>0, <1>2 DEF Sweep, Stale, EntriesExpire, Tracked
<1>3. CASE OnPublished
  <2>1. \A b \in Blob : in_flight'[b] \in {in_flight[b], 0, None}
    BY <1>0, <1>3 DEF OnPublished, Insert
  <2>2. UNCHANGED sweep
    BY <1>3 DEF OnPublished, Receive
  <2>3. QED
    BY <1>1, <2>1, <2>2
<1>4. CASE OnFinalized
  <2>1. \A b \in Blob : in_flight'[b] \in {in_flight[b], 0, None}
    BY <1>0, <1>4 DEF OnFinalized
  <2>2. UNCHANGED sweep
    BY <1>4 DEF OnFinalized, Receive
  <2>3. QED
    BY <1>1, <2>1, <2>2
<1>5. CASE UNCHANGED <<in_flight, sweep>>
  BY <1>1, <1>5
<1>6. CASE Tick
  BY <1>6, TickKeepsExpiry
<1>7. QED
  BY <1>2, <1>3, <1>4, <1>5, <1>6
  DEF Next, Task, Publish, Process, Finalize, Fail, Broadcast, Close, OnFailed, OnOther, Receive,
      OnLagged, OnClosed, vars

\* An entry is gone one sweep after its lifetime at the latest.
THEOREM EntriesDoExpire == Spec => []EntriesExpire
<1>1. Init => EntriesExpire
  BY DEF Init, EntriesExpire, Tracked
<1>2. QED
  BY <1>1, NextKeepsExpiry, TypeCorrect, PTL DEF Spec

-----------------------------------------------------------------------------
(* Latencies                                                               *)

\* Of a channel and a map: b is published again before the n-th event, or else its entry,
\* if it has one, is as old as the event says.
About(event, status, b) == event.status = status /\ event.blob = b
Announced(ch, b, n) == \E j \in 1 .. Len(ch) : j < n /\ About(ch[j], "Published", b)
Fits(ch, map, b, n, age) ==
  /\ Announced(ch, b, n) => age = 0
  /\ ~Announced(ch, b, n) => map[b] \in {None, age}

\* What Finalized events tell, and what the next one would tell.
Told(ch, map) == \A b \in Blob, i \in 1 .. Len(ch) :
  About(ch[i], "Finalized", b) => Fits(ch, map, b, i, ch[i].took)
Held(ch, map, view) == \A b \in Blob :
  view[b].stage = "published" => Fits(ch, map, b, Len(ch) + 1, view[b].age)

LatencyInv ==
  missed = 0 /\ metrics.dropped = 0 => Told(channel, in_flight) /\ Held(channel, in_flight, blobs)

\* A new event comes after all others.
LEMMA AppendAnnounces ==
  ASSUME NEW ch \in Seq(Event), NEW e \in Event, NEW b \in Blob
  PROVE  /\ \A n \in 1 .. Len(ch) + 1 : Announced(Append(ch, e), b, n) <=> Announced(ch, b, n)
         /\ Announced(Append(ch, e), b, Len(ch) + 2)
              <=> Announced(ch, b, Len(ch) + 1) \/ About(e, "Published", b)
<1> DEFINE longer == Append(ch, e)
<1>1. /\ Len(longer) = Len(ch) + 1 /\ Len(ch) \in Nat /\ longer[Len(ch) + 1] = e
      /\ \A j \in 1 .. Len(ch) : longer[j] = ch[j]
  OBVIOUS
<1> HIDE DEF longer
<1>2. ASSUME NEW n \in 1 .. Len(ch) + 1
      PROVE  Announced(longer, b, n) <=> Announced(ch, b, n)
  <2>1. Announced(longer, b, n) => Announced(ch, b, n)
    BY <1>1 DEF Announced
  <2>2. Announced(ch, b, n) => Announced(longer, b, n)
    BY <1>1 DEF Announced
  <2>3. QED
    BY <2>1, <2>2
<1>3. Announced(longer, b, Len(ch) + 2) => Announced(ch, b, Len(ch) + 1) \/ About(e, "Published", b)
  BY <1>1 DEF Announced
<1>4. Announced(ch, b, Len(ch) + 1) \/ About(e, "Published", b) => Announced(longer, b, Len(ch) + 2)
  BY <1>1 DEF Announced
<1>5. QED
  BY <1>2, <1>3, <1>4 DEF longer

LEMMA Appending ==
  ASSUME NEW ch \in Seq(Event), NEW e \in Event, NEW map, NEW view, NEW view2,
         Told(ch, map), Held(ch, map, view),
         \A b \in Blob : About(e, "Finalized", b) =>
           view[b].stage = "published" /\ e.took = view[b].age,
         \A b \in Blob : view2[b].stage = "published" =>
           \/ About(e, "Published", b) /\ view2[b].age = 0
           \/ ~About(e, "Published", b) /\ view[b].stage = "published" /\ view2[b].age = view[b].age
  PROVE  Told(Append(ch, e), map) /\ Held(Append(ch, e), map, view2)
<1> DEFINE longer == Append(ch, e)
<1>1. /\ Len(longer) = Len(ch) + 1 /\ Len(ch) \in Nat /\ longer[Len(ch) + 1] = e
      /\ \A j \in 1 .. Len(ch) : longer[j] = ch[j]
  OBVIOUS
<1>2. \A b \in Blob :
        /\ \A n \in 1 .. Len(ch) + 1 : Announced(longer, b, n) <=> Announced(ch, b, n)
        /\ Announced(longer, b, Len(ch) + 2)
             <=> Announced(ch, b, Len(ch) + 1) \/ About(e, "Published", b)
  BY AppendAnnounces
<1> HIDE DEF longer
<1>3. ASSUME NEW b \in Blob, NEW i \in 1 .. Len(longer), About(longer[i], "Finalized", b)
      PROVE  Fits(longer, map, b, i, longer[i].took)
  <2>1. CASE i \in 1 .. Len(ch)
    <3>1. Fits(ch, map, b, i, ch[i].took) /\ longer[i] = ch[i]
      BY <1>1, <1>3, <2>1 DEF Told
    <3>2. QED
      BY <1>1, <1>2, <2>1, <3>1 DEF Fits
  <2>2. CASE i = Len(ch) + 1
    <3>1. Fits(ch, map, b, i, e.took)
      BY <1>1, <1>3, <2>2 DEF Held
    <3>2. QED
      BY <1>1, <1>2, <2>2, <3>1 DEF Fits
  <2>3. QED
    BY <1>1, <2>1, <2>2
<1>4. ASSUME NEW b \in Blob, view2[b].stage = "published"
      PROVE  Fits(longer, map, b, Len(longer) + 1, view2[b].age)
  <2>1. Len(longer) + 1 = Len(ch) + 2
    BY <1>1
  <2>2. CASE About(e, "Published", b) /\ view2[b].age = 0
    BY <1>2, <2>1, <2>2 DEF Fits
  <2>3. CASE ~About(e, "Published", b) /\ view[b].stage = "published" /\ view2[b].age = view[b].age
    BY <1>2, <2>1, <2>3 DEF Held, Fits
  <2>4. QED
    BY <1>4, <2>2, <2>3
<1>5. Told(longer, map) /\ Held(longer, map, view2)
  BY <1>3, <1>4 DEF Told, Held
<1>6. QED
  BY <1>5 DEF longer

\* The head is read: it sets the entry of the blob it publishes, and others are kept or
\* dropped.
LEMMA Reading ==
  ASSUME NEW ch \in Seq(Event), ch # <<>>, NEW map, NEW map2, NEW view,
         Told(ch, map), Held(ch, map, view),
         \A b \in Blob : \/ About(ch[1], "Published", b) /\ map2[b] = 0
                         \/ ~About(ch[1], "Published", b) /\ map2[b] \in {map[b], None}
  PROVE  Told(Tail(ch), map2) /\ Held(Tail(ch), map2, view)
<1> DEFINE rest == Tail(ch)
<1>1. /\ Len(ch) \in Nat \ {0} /\ Len(rest) = Len(ch) - 1
      /\ \A i \in 1 .. Len(rest) : rest[i] = ch[i + 1]
  OBVIOUS
<1> HIDE DEF rest
<1>2. ASSUME NEW b \in Blob, NEW n \in 1 .. Len(ch)
      PROVE  Announced(ch, b, n + 1) <=> Announced(rest, b, n) \/ About(ch[1], "Published", b)
  <2>1. ASSUME Announced(rest, b, n) PROVE Announced(ch, b, n + 1)
    <3>1. PICK j \in 1 .. Len(rest) : j < n /\ About(rest[j], "Published", b)
      BY <2>1 DEF Announced
    <3>2. j + 1 \in 1 .. Len(ch) /\ j + 1 < n + 1 /\ About(ch[j + 1], "Published", b)
      BY <1>1, <3>1
    <3>3. QED
      BY <3>2 DEF Announced
  <2>2. ASSUME About(ch[1], "Published", b) PROVE Announced(ch, b, n + 1)
    BY <1>1, <2>2 DEF Announced
  <2>3. ASSUME Announced(ch, b, n + 1), ~About(ch[1], "Published", b) PROVE Announced(rest, b, n)
    <3>1. PICK j \in 1 .. Len(ch) : j < n + 1 /\ About(ch[j], "Published", b)
      BY <2>3 DEF Announced
    <3>2. j - 1 \in 1 .. Len(rest) /\ j - 1 < n /\ rest[j - 1] = ch[j]
      BY <1>1, <2>3, <3>1
    <3>3. QED
      BY <3>1, <3>2 DEF Announced
  <2>4. QED
    BY <2>1, <2>2, <2>3
<1>3. ASSUME NEW b \in Blob, NEW n \in 1 .. Len(ch), NEW age, Fits(ch, map, b, n + 1, age)
      PROVE  Fits(rest, map2, b, n, age)
  <2>1. CASE About(ch[1], "Published", b) /\ map2[b] = 0
    BY <1>2, <1>3, <2>1 DEF Fits
  <2>2. CASE ~About(ch[1], "Published", b) /\ map2[b] \in {map[b], None}
    BY <1>2, <1>3, <2>2 DEF Fits
  <2>3. QED
    BY <2>1, <2>2
<1>4. ASSUME NEW b \in Blob, NEW i \in 1 .. Len(rest), About(rest[i], "Finalized", b)
      PROVE  Fits(rest, map2, b, i, rest[i].took)
  <2>1. i \in 1 .. Len(ch) /\ i + 1 \in 1 .. Len(ch) /\ rest[i] = ch[i + 1]
    BY <1>1
  <2>2. Fits(ch, map, b, i + 1, ch[i + 1].took)
    BY <1>4, <2>1 DEF Told
  <2>3. QED
    BY <1>3, <2>1, <2>2
<1>5. ASSUME NEW b \in Blob, view[b].stage = "published"
      PROVE  Fits(rest, map2, b, Len(rest) + 1, view[b].age)
  <2>1. Len(rest) + 1 \in 1 .. Len(ch) /\ (Len(rest) + 1) + 1 = Len(ch) + 1
    BY <1>1
  <2>2. Fits(ch, map, b, Len(ch) + 1, view[b].age)
    BY <1>5 DEF Held
  <2>3. QED
    BY <1>3, <2>1, <2>2
<1>6. Told(rest, map2) /\ Held(rest, map2, view)
  BY <1>4, <1>5 DEF Told, Held
<1>7. QED
  BY <1>6 DEF rest

\* An entry that goes away does no harm.
LEMMA Forgetting ==
  ASSUME NEW ch, NEW map, NEW map2, NEW view, Told(ch, map), Held(ch, map, view),
         \A b \in Blob : map2[b] \in {map[b], None}
  PROVE  Told(ch, map2) /\ Held(ch, map2, view)
<1>1. ASSUME NEW b \in Blob, NEW n, NEW age, Fits(ch, map, b, n, age)
      PROVE  Fits(ch, map2, b, n, age)
  BY <1>1 DEF Fits
<1>2. QED
  BY <1>1 DEF Told, Held

\* The sender's side: an event that does not fit the channel spoils the premise.
LEMMA BroadcastKeepsLatency ==
  ASSUME TypeOK, LatencyInv, NEW event \in Event, Broadcast(event),
         \A b \in Blob : About(event, "Finalized", b) =>
           blobs[b].stage = "published" /\ event.took = blobs[b].age,
         \A b \in Blob : blobs'[b].stage = "published" =>
           \/ About(event, "Published", b) /\ blobs'[b].age = 0
           \/ /\ ~About(event, "Published", b)
              /\ blobs[b].stage = "published" /\ blobs'[b].age = blobs[b].age
  PROVE  LatencyInv'
<1>1. CASE Len(channel) < CHANNEL_CAP /\ channel' = Append(channel, event) /\ UNCHANGED missed
  <2>1. SUFFICES ASSUME missed = 0, metrics.dropped = 0
                 PROVE  Told(channel', in_flight') /\ Held(channel', in_flight', blobs')
    BY <1>1 DEF LatencyInv, Broadcast
  <2>2. Told(channel, in_flight) /\ Held(channel, in_flight, blobs)
    BY <2>1 DEF LatencyInv
  <2>3. channel \in Seq(Event)
    BY DEF TypeOK
  <2>4. /\ Told(Append(channel, event), in_flight)
        /\ Held(Append(channel, event), in_flight, blobs')
    BY <2>2, <2>3, Appending
  <2>5. channel' = Append(channel, event) /\ in_flight' = in_flight
    BY <1>1 DEF Broadcast
  <2>6. QED
    BY <2>4, <2>5
<1>2. CASE missed' = missed + 1
  BY <1>2 DEF LatencyInv, TypeOK
<1>3. QED
  BY <1>1, <1>2 DEF Broadcast

LEMMA SenderKeepsLatency ==
  ASSUME TypeOK, LatencyInv, NEW b \in Blob
  PROVE  /\ Publish(b) => LatencyInv'
         /\ Process(b) => LatencyInv'
         /\ Finalize(b) => LatencyInv'
         /\ \A reason \in Reason, will_retry \in BOOLEAN : Fail(b, reason, will_retry) => LatencyInv'
<1>1. CASE Publish(b)
  <2> DEFINE event == [status |-> "Published", blob |-> b]
  <2>1. event \in Event
    BY DEF Event
  <2>2. \A c \in Blob : About(event, "Published", c) <=> c = b
    BY DEF About
  <2>3. \A c \in Blob : ~About(event, "Finalized", c)
    BY DEF About
  <2>4. blobs'[b].age = 0 /\ \A c \in Blob : c # b => blobs'[c] = blobs[c]
    BY <1>1 DEF Publish, TypeOK
  <2>5. Broadcast(event)
    BY <1>1 DEF Publish
  <2> HIDE DEF event
  <2>6. QED
    BY <2>1, <2>2, <2>3, <2>4, <2>5, BroadcastKeepsLatency
<1>2. CASE Process(b)
  <2> DEFINE event == [status |-> "Processed"]
  <2>1. event \in Event
    BY DEF Event
  <2>2. \A c \in Blob : ~About(event, "Published", c) /\ ~About(event, "Finalized", c)
    BY DEF About
  <2>3. Broadcast(event) /\ blobs' = blobs
    BY <1>2 DEF Process
  <2> HIDE DEF event
  <2>4. QED
    BY <2>1, <2>2, <2>3, BroadcastKeepsLatency
<1>3. CASE Finalize(b)
  <2> DEFINE event == [status |-> "Finalized", blob |-> b, took |-> blobs[b].age]
  <2>1. blobs[b].age \in 0 .. MaxAge
    BY DEF TypeOK
  <2>2. event \in Event /\ event.took = blobs[b].age
    BY <2>1 DEF Event
  <2>3. \A c \in Blob : ~About(event, "Published", c) /\ (About(event, "Finalized", c) <=> c = b)
    BY DEF About
  <2>4. /\ blobs[b].stage = "published" /\ blobs'[b].stage = "finalized"
        /\ \A c \in Blob : c # b => blobs'[c] = blobs[c]
    BY <1>3 DEF Finalize, TypeOK
  <2>5. Broadcast(event)
    BY <1>3 DEF Finalize
  <2> HIDE DEF event
  <2>6. QED
    BY <2>2, <2>3, <2>4, <2>5, BroadcastKeepsLatency
<1>4. ASSUME NEW reason \in Reason, NEW will_retry \in BOOLEAN, Fail(b, reason, will_retry)
      PROVE  LatencyInv'
  <2> DEFINE event == [status |-> "Failed", reason |-> reason, blob |-> b]
  <2>1. event \in Event
    BY DEF Event
  <2>2. \A c \in Blob : ~About(event, "Published", c) /\ ~About(event, "Finalized", c)
    BY DEF About
  <2>3. blobs'[b].stage # "published" /\ \A c \in Blob : c # b => blobs'[c] = blobs[c]
    BY <1>4 DEF Fail, TypeOK
  <2>4. Broadcast(event)
    BY <1>4 DEF Fail
  <2> HIDE DEF event
  <2>5. QED
    BY <2>1, <2>2, <2>3, <2>4, BroadcastKeepsLatency
<1>5. QED
  BY <1>1, <1>2, <1>3, <1>4

\* The task's side: a step that hands out the head.
LEMMA ReceiveKeepsLatency ==
  ASSUME TypeOK, LatencyInv, NEW status, Receive(status), metrics'.dropped = metrics.dropped,
         \A b \in Blob :
           \/ About(Next_event, "Published", b) /\ in_flight'[b] = 0
           \/ ~About(Next_event, "Published", b) /\ in_flight'[b] \in {in_flight[b], None}
  PROVE  LatencyInv'
<1>1. /\ channel \in Seq(Event) /\ channel # <<>> /\ channel' = Tail(channel)
      /\ missed' = missed /\ blobs' = blobs
  BY DEF Receive, TypeOK, sender
<1>2. SUFFICES ASSUME missed = 0, metrics.dropped = 0
               PROVE  Told(channel', in_flight') /\ Held(channel', in_flight', blobs')
  BY <1>1 DEF LatencyInv
<1>3. Told(channel, in_flight) /\ Held(channel, in_flight, blobs)
  BY <1>2 DEF LatencyInv
<1>4. Told(Tail(channel), in_flight') /\ Held(Tail(channel), in_flight', blobs)
  BY <1>1, <1>3, Reading DEF Next_event
<1>5. QED
  BY <1>1, <1>4

\* The channel is read to its end when time passes, and what is tracked is younger than
\* MaxAge: the entry ages with the blob.
LEMMA TickKeepsLatency ==
  ASSUME TypeOK, LatencyInv, EntriesExpire, Tick
  PROVE  LatencyInv'
<1>1. /\ channel = <<>> /\ channel' = <<>> /\ missed' = missed /\ metrics' = metrics
      /\ ~sweep_due
  BY DEF Tick
<1>2. SUFFICES ASSUME missed = 0, metrics.dropped = 0
               PROVE  Told(channel', in_flight') /\ Held(channel', in_flight', blobs')
  BY <1>1 DEF LatencyInv
<1>3. \A b \in Blob : \A n : ~Announced(<<>>, b, n)
  BY DEF Announced
<1>4. Held(<<>>, in_flight, blobs)
  BY <1>1, <1>2 DEF LatencyInv
<1>5. ASSUME NEW b \in Blob, blobs'[b].stage = "published"
      PROVE  in_flight'[b] \in {None, blobs'[b].age}
  <2>1. /\ blobs[b] \in [stage: {"new", "published", "finalized", "failed"}, age: 0 .. MaxAge]
        /\ in_flight[b] \in Nat \cup {None}
    BY DEF TypeOK
  <2>2. blobs[b].stage = "published"
    BY <1>5, <2>1 DEF Tick
  <2>3. in_flight[b] \in {None, blobs[b].age}
    BY <1>3, <1>4, <2>2 DEF Held, Fits
  <2>4. CASE in_flight[b] = None
    BY <2>4 DEF Tick, Older
  <2>5. CASE in_flight[b] # None
    <3>1. in_flight[b] = blobs[b].age /\ in_flight[b] \in Nat /\ in_flight'[b] = in_flight[b] + 1
      BY <2>1, <2>3, <2>5 DEF Tick, Older
    <3>2. in_flight[b] < INFLIGHT_TTL + since_sweep
      BY <1>1, <2>5 DEF EntriesExpire, Tracked
    <3>3. blobs[b].age < MaxAge
      BY <3>1, <3>2, CapsAssumption DEF TypeOK, MaxAge
    <3>4. blobs'[b] = [blobs[b] EXCEPT !.age = @ + 1]
      BY <2>2, <3>3 DEF Tick
    <3>5. blobs'[b].age = blobs[b].age + 1
      BY <2>1, <3>4
    <3>6. QED
      BY <3>1, <3>5
  <2>6. QED
    BY <2>4, <2>5
<1>6. Told(<<>>, in_flight')
  BY DEF Told
<1>7. Held(<<>>, in_flight', blobs')
  BY <1>3, <1>5 DEF Held, Fits
<1>8. QED
  BY <1>1, <1>6, <1>7

LEMMA NextKeepsLatency ==
  ASSUME TypeOK, EntriesExpire, LatencyInv, [Next]_vars
  PROVE  LatencyInv'
<1>0. in_flight \in [Blob -> Nat \cup {None}]
  BY DEF TypeOK
<1>1. CASE Sweep
  <2>1. \A b \in Blob : in_flight'[b] \in {in_flight[b], None}
    BY <1>0, <1>1 DEF Sweep
  <2>2. UNCHANGED <<channel, missed, blobs, metrics>>
    BY <1>1 DEF Sweep, sender
  <2>3. SUFFICES ASSUME missed = 0, metrics.dropped = 0
                 PROVE  Told(channel', in_flight') /\ Held(channel', in_flight', blobs')
    BY <2>2 DEF LatencyInv
  <2>4. Told(channel, in_flight) /\ Held(channel, in_flight, blobs)
    BY <2>3 DEF LatencyInv
  <2>5. Told(channel, in_flight') /\ Held(channel, in_flight', blobs)
    BY <2>1, <2>4, Forgetting
  <2>6. QED
    BY <2>2, <2>5
<1>2. CASE OnPublished
  <2>1. Next_event.status = "Published" /\ Next_event.blob \in Blob
    BY <1>2, OnPublishedType DEF OnPublished, Receive
  <2>2. PICK evicted \in Evictions : Insert(Next_event.blob, evicted)
    BY <1>2 DEF OnPublished
  <2>3. \A b \in Blob :
          \/ About(Next_event, "Published", b) /\ in_flight'[b] = 0
          \/ ~About(Next_event, "Published", b) /\ in_flight'[b] \in {in_flight[b], None}
    BY <2>1, <2>2 DEF Insert, About
  <2>4. QED
    BY <1>2, <2>3, OnPublishedType, ReceiveKeepsLatency DEF OnPublished
<1>3. ASSUME NEW status, Receive(status), status # "Published",
             metrics'.dropped = metrics.dropped,
             \A b \in Blob : in_flight'[b] \in {in_flight[b], None}
      PROVE  LatencyInv'
  <2>1. \A b \in Blob : ~About(Next_event, "Published", b)
    BY <1>3 DEF Receive, About
  <2>2. QED
    BY <1>3, <2>1, ReceiveKeepsLatency
<1>4. CASE OnFinalized
  <2>1. \A b \in Blob : in_flight'[b] \in {in_flight[b], None}
    BY <1>0, <1>4 DEF OnFinalized
  <2>2. QED
    BY <1>3, <1>4, <2>1, OnFinalizedType DEF OnFinalized
<1>5. CASE OnFailed
  BY <1>3, <1>5, OnFailedType DEF OnFailed
<1>6. CASE OnOther
  BY <1>3, <1>6 DEF OnOther
<1>7. CASE OnLagged
  BY <1>7, OnLaggedType DEF LatencyInv
<1>8. CASE UNCHANGED <<channel, missed, in_flight, blobs, metrics>>
  BY <1>8 DEF LatencyInv
<1>9. QED
  BY <1>1, <1>2, <1>4, <1>5, <1>6, <1>7, <1>8, SenderKeepsLatency, TickKeepsLatency
  DEF Next, Task, Close, OnClosed, vars, sender

\* A latency that is observed is the real one, unless drops were reported.
THEOREM LatenciesAreReal == Spec => LatencyIsReal
<1>1. Init => LatencyInv
  BY DEF Init, LatencyInv, Told, Held
<1>2. TypeOK /\ LatencyInv /\ [Next]_vars => [LatencyIsRealStep]_vars
  <2> SUFFICES ASSUME TypeOK, LatencyInv, [Next]_vars, metrics'.latencies # metrics.latencies,
                      metrics.dropped = 0
               PROVE  in_flight[Next_event.blob] = Next_event.took
    BY DEF LatencyIsRealStep
  <2>1. CASE OnFinalized
    <3> DEFINE b == Next_event.blob
    <3>1. b \in Blob /\ in_flight[b] # None
      BY <2>1, OnFinalizedType DEF OnFinalized, TypeOK
    <3>2. missed = 0 /\ channel # <<>> /\ Next_event.status = "Finalized" /\ channel \in Seq(Event)
      BY <2>1 DEF OnFinalized, Receive, TypeOK
    <3>3. 1 \in 1 .. Len(channel) /\ About(channel[1], "Finalized", b)
      BY <3>2 DEF About, Next_event
    <3>4. Told(channel, in_flight)
      BY <3>2 DEF LatencyInv
    <3>5. Fits(channel, in_flight, b, 1, channel[1].took)
      BY <3>1, <3>3, <3>4 DEF Told
    <3>6. ~Announced(channel, b, 1)
      BY DEF Announced
    <3>7. QED
      BY <3>1, <3>5, <3>6 DEF Fits, Next_event
  <2>2. CASE metrics' = metrics
    BY <2>2
  <2>3. QED
    BY <2>1, <2>2, OnPublishedType, OnFailedType, OnLaggedType
    DEF Next, Task, Publish, Process, Finalize, Fail, Broadcast, Close, Sweep, OnOther, OnClosed,
        Tick, vars
<1>3. Init => EntriesExpire
  BY DEF Init, EntriesExpire, Tracked
<1>4. QED
  BY <1>1, <1>2, <1>3, NextKeepsLatency, TypeCorrect, EntriesDoExpire, PTL DEF Spec, LatencyIsReal

-----------------------------------------------------------------------------
(* Nothing is lost in silence                                              *)

\* The positions of a list that hold one of the events X.
Hits(list, X) == {i \in DOMAIN list : list[i] \in X}
One(P) == IF P THEN 1 ELSE 0

LEMMA HitsType ==
  ASSUME NEW E, NEW list \in Seq(E), NEW X
  PROVE  IsFiniteSet(Hits(list, X)) /\ Cardinality(Hits(list, X)) \in Nat
<1>1. DOMAIN list = 1 .. Len(list) /\ Len(list) \in Nat
  OBVIOUS
<1>2. IsFiniteSet(1 .. Len(list)) /\ Hits(list, X) \subseteq 1 .. Len(list)
  BY <1>1, Positions DEF Hits
<1>3. QED
  BY <1>2, FS_Subset, FS_CardinalityType

LEMMA HitsOfAppend ==
  ASSUME NEW E, NEW list \in Seq(E), NEW X, NEW e \in E
  PROVE  Cardinality(Hits(Append(list, e), X)) = Cardinality(Hits(list, X)) + One(e \in X)
<1> DEFINE n == Len(list) + 1
           longer == Append(list, e)
<1>1. /\ DOMAIN list = 1 .. Len(list) /\ Len(list) \in Nat /\ DOMAIN longer = 1 .. n
      /\ longer[n] = e /\ \A i \in 1 .. Len(list) : longer[i] = list[i]
  OBVIOUS
<1> HIDE DEF longer
<1>2. n \notin Hits(list, X)
  BY <1>1 DEF Hits
<1>3. IsFiniteSet(Hits(list, X)) /\ Cardinality(Hits(list, X)) \in Nat
  BY HitsType
<1>4. CASE e \in X
  <2>1. Hits(longer, X) = Hits(list, X) \cup {n}
    BY <1>1, <1>4 DEF Hits
  <2>2. Cardinality(Hits(list, X) \cup {n}) = Cardinality(Hits(list, X)) + 1
    BY <1>2, <1>3, FS_AddElement
  <2>3. QED
    BY <1>4, <2>1, <2>2 DEF One, longer
<1>5. CASE e \notin X
  <2>1. Hits(longer, X) = Hits(list, X)
    BY <1>1, <1>5 DEF Hits
  <2>2. QED
    BY <1>3, <1>5, <2>1 DEF One, longer
<1>6. QED
  BY <1>4, <1>5

LEMMA HitsOfTail ==
  ASSUME NEW E, NEW list \in Seq(E), list # <<>>, NEW X
  PROVE  Cardinality(Hits(Tail(list), X)) = Cardinality(Hits(list, X)) - One(list[1] \in X)
<1> DEFINE rest == Tail(list)
           behind == Hits(list, X) \ {1}
           f == [i \in Hits(rest, X) |-> i + 1]
<1>1. /\ DOMAIN list = 1 .. Len(list) /\ Len(list) \in Nat \ {0} /\ rest \in Seq(E)
      /\ DOMAIN rest = 1 .. Len(list) - 1 /\ \A i \in 1 .. Len(list) - 1 : rest[i] = list[i + 1]
  OBVIOUS
<1> HIDE DEF rest
<1>2. IsFiniteSet(Hits(rest, X)) /\ IsFiniteSet(Hits(list, X)) /\ Cardinality(Hits(list, X)) \in Nat
  BY <1>1, HitsType
<1>3. Cardinality(Hits(rest, X)) = Cardinality(behind)
  <2>1. \A i \in Hits(rest, X) : i \in Nat /\ i + 1 \in behind
    BY <1>1 DEF Hits
  <2>2. \A j \in behind : j - 1 \in Hits(rest, X) /\ (j - 1) + 1 = j
    BY <1>1 DEF Hits
  <2> HIDE DEF behind
  <2>3. f \in [Hits(rest, X) -> behind]
    BY <2>1
  <2>4. \A i, j \in Hits(rest, X) : f[i] = f[j] => i = j
    BY <2>1
  <2>5. \A j \in behind : \E i \in Hits(rest, X) : f[i] = j
    BY <2>2
  <2> HIDE DEF f
  <2>6. f \in Bijection(Hits(rest, X), behind)
    BY <2>3, <2>4, <2>5 DEF Bijection, Injection, Surjection, IsInjective
  <2>7. QED
    BY <1>2, <2>6, FS_Bijection DEF ExistsBijection
<1>4. CASE list[1] \in X
  <2>1. 1 \in Hits(list, X)
    BY <1>1, <1>4 DEF Hits
  <2>2. Cardinality(behind) = Cardinality(Hits(list, X)) - 1
    BY <1>2, <2>1, FS_RemoveElement
  <2>3. QED
    BY <1>3, <1>4, <2>2 DEF One, rest
<1>5. CASE list[1] \notin X
  <2>1. behind = Hits(list, X)
    BY <1>5 DEF Hits
  <2> HIDE DEF behind
  <2>2. Cardinality(Hits(rest, X)) = Cardinality(Hits(list, X)) /\ One(list[1] \in X) = 0
    BY <1>3, <1>5, <2>1 DEF One
  <2>3. QED
    BY <1>2, <2>2 DEF rest
<1>6. QED
  BY <1>4, <1>5

\* The events that are counted, and how many of each kind are still to be read.
Publications == {e \in Event : e.status = "Published"}
FailuresFor(r) == {e \in Event : e.status = "Failed" /\ e.reason = r}

LEMMA UnreadAreHits ==
  ASSUME NEW list \in Seq(Event)
  PROVE  /\ {i \in DOMAIN list : list[i].status = "Published"} = Hits(list, Publications)
         /\ \A r : {i \in {j \in DOMAIN list : list[j].status = "Failed"} : list[i].reason = r}
                     = Hits(list, FailuresFor(r))
<1>1. \A i \in DOMAIN list : list[i] \in Event
  OBVIOUS
<1>2. QED
  BY <1>1 DEF Hits, Publications, FailuresFor

Sent == [events: Nat, published: Nat, bytes: Nat, failures: [Reason -> Nat]]
Lost == [r \in Reason |-> UncountedFailures(r)]

\* What the task owes the registry, kind by kind, and what it has said about it.
LossInv ==
  /\ sent \in Sent
  /\ Uncounted \in Nat /\ Lost \in [Reason -> Nat]
  /\ Uncounted + SumFunction(Lost) <= metrics.dropped + missed

LEMMA Owing ==
  ASSUME channel \in Seq(Event)
  PROVE  /\ Uncounted = sent.published - metrics.published
                          - Cardinality(Hits(channel, Publications))
         /\ DOMAIN Lost = Reason /\ Lost = [r \in Reason |-> Lost[r]]
         /\ \A r \in Reason : Lost[r] = sent.failures[r] - metrics.failures[r]
                                          - Cardinality(Hits(channel, FailuresFor(r)))
BY UnreadAreHits DEF Uncounted, Lost, UncountedFailures, UnreadFailures, Unread

LEMMA OwingNext ==
  ASSUME channel' \in Seq(Event)
  PROVE  /\ Uncounted' = sent'.published - metrics'.published
                          - Cardinality(Hits(channel', Publications))
         /\ DOMAIN Lost' = Reason /\ Lost' = [r \in Reason |-> Lost'[r]]
         /\ \A r \in Reason : Lost'[r] = sent'.failures[r] - metrics'.failures[r]
                                          - Cardinality(Hits(channel', FailuresFor(r)))
BY UnreadAreHits DEF Uncounted, Lost, UncountedFailures, UnreadFailures, Unread

\* An event is of one kind at most.
LEMMA OneKind ==
  ASSUME NEW e \in Event
  PROVE  \/ e \in Publications /\ \A r : e \notin FailuresFor(r)
         \/ e \notin Publications /\ \A r : e \notin FailuresFor(r)
         \/ \E r \in Reason : /\ e \notin Publications /\ e \in FailuresFor(r)
                              /\ \A q : q # r => e \notin FailuresFor(q)
<1>1. CASE e.status = "Failed"
  <2>1. e.reason \in Reason
    BY <1>1, EventFields
  <2>2. QED
    BY <1>1, <2>1 DEF Publications, FailuresFor
<1>2. CASE e.status # "Failed"
  BY <1>2 DEF Publications, FailuresFor
<1>3. QED
  BY <1>1, <1>2

\* One event more is lost, of whatever kind, and one more drop is to be reported.
LEMMA OneMoreLost ==
  ASSUME LossInv, metrics.dropped \in Nat, missed \in Nat, NEW e \in Event,
         Uncounted' = Uncounted + One(e \in Publications),
         Lost' = [r \in Reason |-> Lost'[r]],
         \A r \in Reason : Lost'[r] = Lost[r] + One(e \in FailuresFor(r))
  PROVE  /\ Uncounted' \in Nat /\ Lost' \in [Reason -> Nat]
         /\ Uncounted' + SumFunction(Lost') <= metrics.dropped + missed + 1
<1>1. /\ Uncounted \in Nat /\ Lost \in [Reason -> Nat]
      /\ Uncounted + SumFunction(Lost) <= metrics.dropped + missed
  BY DEF LossInv
<1>2. \A r \in Reason : Lost[r] \in Nat /\ Lost'[r] \in Nat
  BY <1>1 DEF One
<1>3. Uncounted' \in Nat /\ Lost' \in [Reason -> Nat]
  BY <1>1, <1>2 DEF One
<1>4. SumFunction(Lost) \in Nat /\ SumFunction(Lost') \in Nat
  BY <1>1, <1>3, FinitenessAssumption, SumOfNats
<1>5. CASE \A r : e \notin FailuresFor(r)
  <2>1. \A r \in Reason : Lost'[r] = Lost[r]
    BY <1>2, <1>5 DEF One
  <2>2. Lost' = Lost
    BY <1>1, <1>3, <2>1
  <2>3. Uncounted' <= Uncounted + 1
    BY <1>1 DEF One
  <2>4. QED
    BY <1>1, <1>3, <1>4, <2>2, <2>3
<1>6. ASSUME NEW r \in Reason, e \notin Publications, e \in FailuresFor(r),
             \A q : q # r => e \notin FailuresFor(q)
      PROVE  Uncounted' + SumFunction(Lost') <= metrics.dropped + missed + 1
  <2>1. Lost'[r] = Lost[r] + 1 /\ \A q \in Reason \ {r} : Lost'[q] = Lost[q]
    BY <1>2, <1>6 DEF One
  <2>2. Lost \in [Reason -> Int] /\ Lost' \in [Reason -> Int]
    BY <1>1, <1>3
  <2>3. SumFunction(Lost') = SumFunction(Lost) + Lost'[r] - Lost[r]
    BY <1>6, <2>1, <2>2, FinitenessAssumption, SumUpdate
  <2>4. Uncounted' = Uncounted
    BY <1>1, <1>6 DEF One
  <2>5. QED
    BY <1>1, <1>2, <1>4, <2>1, <2>3, <2>4
<1>7. QED
  BY <1>3, <1>5, <1>6, OneKind

\* An event is sent, counted by history, and perhaps another one overwritten.
LEMMA BroadcastKeepsLoss ==
  ASSUME TypeOK, LossInv, NEW e \in Event, Broadcast(e), sent' \in Sent,
         sent'.published = sent.published + One(e \in Publications),
         \A r \in Reason : sent'.failures[r] = sent.failures[r] + One(e \in FailuresFor(r))
  PROVE  LossInv'
<1>1. /\ channel \in Seq(Event) /\ channel' \in Seq(Event) /\ metrics' = metrics
      /\ missed \in Nat
  BY BroadcastType DEF TypeOK
<1>2. /\ metrics.published \in Nat /\ metrics.dropped \in Nat
      /\ metrics.failures \in [Reason -> Nat]
  BY DEF TypeOK, Counts
<1>3. /\ sent.published \in Nat /\ sent.failures \in [Reason -> Nat]
      /\ \A r \in Reason : sent.failures[r] \in Nat /\ metrics.failures[r] \in Nat
  BY <1>2 DEF LossInv, Sent
<1>4. \A X : /\ Cardinality(Hits(channel, X)) \in Nat
             /\ Cardinality(Hits(Append(channel, e), X)) = Cardinality(Hits(channel, X)) + One(e \in X)
  BY <1>1, HitsType, HitsOfAppend
<1>5. CASE channel' = Append(channel, e) /\ UNCHANGED missed
  <2>1. Uncounted' = Uncounted
    BY <1>1, <1>2, <1>3, <1>4, <1>5, Owing, OwingNext DEF One
  <2>2. ASSUME NEW r \in Reason
        PROVE  Lost'[r] = Lost[r]
    <3> DEFINE hits == Cardinality(Hits(channel, FailuresFor(r)))
               hits_ == Cardinality(Hits(channel', FailuresFor(r)))
               one == One(e \in FailuresFor(r))
    <3>1. hits \in Nat /\ hits_ = hits + one /\ one \in Nat
      BY <1>4, <1>5 DEF One
    <3>2. Lost[r] = sent.failures[r] - metrics.failures[r] - hits
      BY <1>1, Owing
    <3>3. Lost'[r] = sent'.failures[r] - metrics.failures[r] - hits_
      BY <1>1, OwingNext
    <3>4. sent'.failures[r] = sent.failures[r] + one
      OBVIOUS
    <3> HIDE DEF hits, hits_, one
    <3>5. QED
      BY <1>3, <3>1, <3>2, <3>3, <3>4
  <2>3. Lost' = Lost
    BY <1>1, <2>2, Owing, OwingNext
  <2>4. QED
    BY <1>1, <1>5, <2>1, <2>3 DEF LossInv
<1>6. CASE channel' = Append(Tail(channel), e) /\ missed' = missed + 1 /\ channel # <<>>
  <2> DEFINE lost == channel[1]
  <2>1. lost \in Event /\ Tail(channel) \in Seq(Event)
    BY <1>6, HeadAndTail
  <2>2. \A X : Cardinality(Hits(channel', X))
                 = Cardinality(Hits(channel, X)) - One(lost \in X) + One(e \in X)
    <3>1. \A X : Cardinality(Hits(Tail(channel), X)) = Cardinality(Hits(channel, X)) - One(lost \in X)
      BY <1>1, <1>6, HitsOfTail
    <3>2. \A X : Cardinality(Hits(Append(Tail(channel), e), X))
                   = Cardinality(Hits(Tail(channel), X)) + One(e \in X)
      BY <2>1, HitsOfAppend
    <3>3. QED
      BY <1>6, <3>1, <3>2
  <2> HIDE DEF lost
  <2>3. Uncounted' = Uncounted + One(lost \in Publications)
    <3> DEFINE hits == Cardinality(Hits(channel, Publications))
               hits_ == Cardinality(Hits(channel', Publications))
               one == One(e \in Publications)
               gone == One(lost \in Publications)
    <3>1. hits \in Nat /\ hits_ = hits - gone + one /\ one \in Nat /\ gone \in Nat
      BY <1>4, <2>2 DEF One
    <3>2. Uncounted = sent.published - metrics.published - hits
      BY <1>1, Owing
    <3>3. Uncounted' = sent'.published - metrics.published - hits_
      BY <1>1, OwingNext
    <3>4. sent'.published = sent.published + one
      OBVIOUS
    <3> HIDE DEF hits, hits_, one, gone
    <3>5. Uncounted' = Uncounted + gone
      BY <1>2, <1>3, <3>1, <3>2, <3>3, <3>4
    <3>6. QED
      BY <3>5 DEF gone
  <2>4. ASSUME NEW r \in Reason
        PROVE  Lost'[r] = Lost[r] + One(lost \in FailuresFor(r))
    <3> DEFINE hits == Cardinality(Hits(channel, FailuresFor(r)))
               hits_ == Cardinality(Hits(channel', FailuresFor(r)))
               one == One(e \in FailuresFor(r))
               gone == One(lost \in FailuresFor(r))
    <3>1. hits \in Nat /\ hits_ = hits - gone + one /\ one \in Nat /\ gone \in Nat
      BY <1>4, <2>2 DEF One
    <3>2. Lost[r] = sent.failures[r] - metrics.failures[r] - hits
      BY <1>1, Owing
    <3>3. Lost'[r] = sent'.failures[r] - metrics.failures[r] - hits_
      BY <1>1, OwingNext
    <3>4. sent'.failures[r] = sent.failures[r] + one
      OBVIOUS
    <3> HIDE DEF hits, hits_, one, gone
    <3>5. Lost'[r] = Lost[r] + gone
      BY <1>3, <3>1, <3>2, <3>3, <3>4
    <3>6. QED
      BY <3>5 DEF gone
  <2>5. Lost' = [r \in Reason |-> Lost'[r]]
    BY <1>1, OwingNext
  <2>6. /\ Uncounted' \in Nat /\ Lost' \in [Reason -> Nat]
        /\ Uncounted' + SumFunction(Lost') <= metrics.dropped + missed + 1
    BY <1>1, <1>2, <2>1, <2>3, <2>4, <2>5, OneMoreLost
  <2>7. metrics'.dropped = metrics.dropped /\ missed' = missed + 1
    BY <1>1, <1>6
  <2>8. Uncounted' + SumFunction(Lost') <= metrics'.dropped + missed'
    <3>1. \A d, m \in Nat : d + (m + 1) = d + m + 1
      OBVIOUS
    <3>2. metrics.dropped + (missed + 1) = metrics.dropped + missed + 1
      <4>1. metrics.dropped \in Nat /\ missed \in Nat
        BY <1>1, <1>2
      <4>2. QED
        BY <3>1, <4>1
    <3>3. QED
      BY <2>6, <2>7, <3>2, Zenon
  <2>9. QED
    BY <2>6, <2>8 DEF LossInv
<1>7. Len(channel) = CHANNEL_CAP => channel # <<>>
  BY CapsAssumption
<1>8. QED
  BY <1>5, <1>6, <1>7 DEF Broadcast

\* The task counts what it reads.
LEMMA ReceiveKeepsLoss ==
  ASSUME TypeOK, LossInv, NEW status, Receive(status), metrics' \in Counts,
         metrics'.dropped = metrics.dropped,
         metrics'.published = metrics.published + One(Next_event \in Publications),
         \A r \in Reason : metrics'.failures[r] = metrics.failures[r]
                                                    + One(Next_event \in FailuresFor(r))
  PROVE  LossInv'
<1>1. /\ channel \in Seq(Event) /\ channel' \in Seq(Event) /\ channel # <<>>
      /\ channel' = Tail(channel) /\ sent' = sent /\ missed' = missed
  BY ReceiveType DEF TypeOK, sender
<1>2. metrics.published \in Nat /\ metrics.failures \in [Reason -> Nat]
  BY DEF TypeOK, Counts
<1>3. /\ sent.published \in Nat /\ sent.failures \in [Reason -> Nat]
      /\ \A r \in Reason : sent.failures[r] \in Nat /\ metrics.failures[r] \in Nat
  BY <1>2 DEF LossInv, Sent
<1>4. \A X : /\ Cardinality(Hits(channel, X)) \in Nat
             /\ Cardinality(Hits(channel', X))
                  = Cardinality(Hits(channel, X)) - One(Next_event \in X)
  BY <1>1, HitsType, HitsOfTail DEF Next_event
<1>5. Uncounted' = Uncounted
  BY <1>1, <1>2, <1>3, <1>4, Owing, OwingNext DEF One
<1>6. ASSUME NEW r \in Reason
      PROVE  Lost'[r] = Lost[r]
  <2> DEFINE hits == Cardinality(Hits(channel, FailuresFor(r)))
             hits_ == Cardinality(Hits(channel', FailuresFor(r)))
             one == One(Next_event \in FailuresFor(r))
  <2>1. hits \in Nat /\ hits_ = hits - one /\ one \in Nat
    BY <1>4 DEF One
  <2>2. Lost[r] = sent.failures[r] - metrics.failures[r] - hits
    BY <1>1, Owing
  <2>3. Lost'[r] = sent.failures[r] - metrics'.failures[r] - hits_
    BY <1>1, OwingNext
  <2>4. metrics'.failures[r] = metrics.failures[r] + one
    OBVIOUS
  <2> HIDE DEF hits, hits_, one
  <2>5. QED
    BY <1>3, <2>1, <2>2, <2>3, <2>4
<1>7. Lost' = Lost
  BY <1>1, <1>6, Owing, OwingNext
<1>8. QED
  BY <1>1, <1>5, <1>7 DEF LossInv

LEMMA NextKeepsLoss ==
  ASSUME TypeOK, LossInv, [Next]_vars
  PROVE  LossInv'
<1>0. /\ sent \in Sent /\ metrics \in Counts
      /\ sent.events \in Nat /\ sent.published \in Nat /\ sent.bytes \in Nat
      /\ sent.failures \in [Reason -> Nat] /\ metrics.published \in Nat
      /\ metrics.dropped \in Nat /\ metrics.failures \in [Reason -> Nat]
  <2>1. sent \in Sent /\ metrics \in Counts
    BY DEF LossInv, TypeOK
  <2>2. QED
    BY <2>1 DEF Sent, Counts
<1>1. ASSUME NEW b \in Blob, Publish(b)
      PROVE  LossInv'
  <2> DEFINE e == [status |-> "Published", blob |-> b]
  <2>1. e \in Event /\ e \in Publications /\ \A r : e \notin FailuresFor(r)
    BY DEF Event, Publications, FailuresFor
  <2>2. ReceiptOf[b].size_in_bytes \in Nat
    BY ReceiptFields
  <2>3. sent' = [sent EXCEPT !.events = @ + 1, !.published = @ + 1,
                             !.bytes = @ + ReceiptOf[b].size_in_bytes]
    BY <1>1 DEF Publish
  <2>4. sent' \in Sent /\ sent'.published = sent.published + 1 /\ sent'.failures = sent.failures
    <3>1. sent' = [events |-> sent.events + 1, published |-> sent.published + 1,
                   bytes |-> sent.bytes + ReceiptOf[b].size_in_bytes, failures |-> sent.failures]
      BY <1>0, <2>3 DEF Sent
    <3>2. QED
      BY <1>0, <2>2, <3>1 DEF Sent
  <2>5. Broadcast(e)
    BY <1>1 DEF Publish
  <2> HIDE DEF e
  <2>6. /\ sent'.published = sent.published + One(e \in Publications)
        /\ \A r \in Reason : sent'.failures[r] = sent.failures[r] + One(e \in FailuresFor(r))
    BY <1>0, <2>1, <2>4 DEF One
  <2>7. QED
    BY <2>1, <2>4, <2>5, <2>6, BroadcastKeepsLoss
<1>2. ASSUME NEW e \in Event, Broadcast(e), sent' = [sent EXCEPT !.events = @ + 1],
             e.status \notin {"Published", "Failed"}
      PROVE  LossInv'
  <2>1. e \notin Publications /\ \A r : e \notin FailuresFor(r)
    BY <1>2 DEF Publications, FailuresFor
  <2>2. sent' \in Sent /\ sent'.published = sent.published /\ sent'.failures = sent.failures
    BY <1>0, <1>2 DEF Sent
  <2>3. /\ sent'.published = sent.published + One(e \in Publications)
        /\ \A r \in Reason : sent'.failures[r] = sent.failures[r] + One(e \in FailuresFor(r))
    BY <1>0, <2>1, <2>2 DEF One
  <2>4. QED
    BY <1>2, <2>2, <2>3, BroadcastKeepsLoss
<1>3. ASSUME NEW b \in Blob, Process(b)
      PROVE  LossInv'
  <2>1. [status |-> "Processed"] \in Event
    BY DEF Event
  <2>2. QED
    BY <1>2, <1>3, <2>1 DEF Process
<1>4. ASSUME NEW b \in Blob, Finalize(b)
      PROVE  LossInv'
  <2>1. blobs[b].age \in 0 .. MaxAge
    BY DEF TypeOK
  <2>2. [status |-> "Finalized", blob |-> b, took |-> blobs[b].age] \in Event
    BY <2>1 DEF Event
  <2>3. QED
    BY <1>2, <1>4, <2>2 DEF Finalize
<1>5. ASSUME NEW b \in Blob, NEW reason \in Reason, NEW will_retry, Fail(b, reason, will_retry)
      PROVE  LossInv'
  <2> DEFINE e == [status |-> "Failed", reason |-> reason, blob |-> b]
  <2>1. /\ e \in Event /\ e \notin Publications
        /\ \A r : e \in FailuresFor(r) <=> r = reason
    BY DEF Event, Publications, FailuresFor
  <2>2. Broadcast(e) /\ sent' = [sent EXCEPT !.events = @ + 1, !.failures[reason] = @ + 1]
    BY <1>5 DEF Fail
  <2>3. sent' = [events |-> sent.events + 1, published |-> sent.published, bytes |-> sent.bytes,
                 failures |-> [sent.failures EXCEPT ![reason] = @ + 1]]
    BY <1>0, <2>2 DEF Sent
  <2>4. [sent.failures EXCEPT ![reason] = @ + 1] \in [Reason -> Nat]
    BY <1>0
  <2>5. sent' \in Sent
    BY <1>0, <2>3, <2>4 DEF Sent
  <2> HIDE DEF e
  <2>6. /\ sent'.published = sent.published + One(e \in Publications)
        /\ \A r \in Reason : sent'.failures[r] = sent.failures[r] + One(e \in FailuresFor(r))
    BY <1>0, <2>1, <2>3 DEF One
  <2>7. QED
    BY <2>1, <2>2, <2>5, <2>6, BroadcastKeepsLoss
<1>6. CASE OnPublished
  <2>1. metrics' \in Counts /\ metrics'.dropped = metrics.dropped /\ Receive("Published")
    BY <1>6, OnPublishedType DEF OnPublished, TypeOK
  <2>2. Next_event \in Publications /\ \A r : Next_event \notin FailuresFor(r)
    BY <2>1, ReceiveType DEF Publications, FailuresFor
  <2>3. metrics'.published = metrics.published + 1 /\ metrics'.failures = metrics.failures
    BY <1>0, <1>6 DEF OnPublished, RecordDaBlobPublished, Counts
  <2>4. /\ metrics'.published = metrics.published + One(Next_event \in Publications)
        /\ \A r \in Reason : metrics'.failures[r] = metrics.failures[r]
                                                      + One(Next_event \in FailuresFor(r))
    BY <1>0, <2>2, <2>3 DEF One
  <2>5. QED
    BY <2>1, <2>4, ReceiveKeepsLoss
<1>7. CASE OnFailed
  <2>1. metrics' \in Counts /\ metrics'.dropped = metrics.dropped /\ Receive("Failed")
    BY <1>7, OnFailedType DEF OnFailed, TypeOK
  <2>2. /\ Next_event \notin Publications /\ Next_event.reason \in Reason
        /\ \A r : Next_event \in FailuresFor(r) <=> r = Next_event.reason
    BY <2>1, ReceiveType, EventFields DEF Publications, FailuresFor
  <2>3. /\ metrics'.published = metrics.published
        /\ metrics'.failures = [metrics.failures EXCEPT ![Next_event.reason] = @ + 1]
    BY <1>0, <1>7 DEF OnFailed, Counts
  <2>4. /\ metrics'.published = metrics.published + One(Next_event \in Publications)
        /\ \A r \in Reason : metrics'.failures[r] = metrics.failures[r]
                                                      + One(Next_event \in FailuresFor(r))
    BY <1>0, <2>2, <2>3 DEF One
  <2>5. QED
    BY <2>1, <2>4, ReceiveKeepsLoss
<1>8. ASSUME NEW status \in {"Finalized", "Processed"}, Receive(status), metrics' \in Counts,
             metrics'.dropped = metrics.dropped, metrics'.published = metrics.published,
             metrics'.failures = metrics.failures
      PROVE  LossInv'
  <2>1. Next_event \notin Publications /\ \A r : Next_event \notin FailuresFor(r)
    BY <1>8, ReceiveType DEF Publications, FailuresFor
  <2>2. /\ metrics'.published = metrics.published + One(Next_event \in Publications)
        /\ \A r \in Reason : metrics'.failures[r] = metrics.failures[r]
                                                      + One(Next_event \in FailuresFor(r))
    BY <1>0, <1>8, <2>1 DEF One
  <2>3. QED
    BY <1>8, <2>2, ReceiveKeepsLoss
<1>9. CASE OnFinalized
  <2>1. metrics' \in Counts /\ metrics'.dropped = metrics.dropped /\ Receive("Finalized")
    BY <1>9, OnFinalizedType DEF OnFinalized, TypeOK
  <2>2. metrics'.published = metrics.published /\ metrics'.failures = metrics.failures
    BY <1>0, <1>9 DEF OnFinalized, Counts
  <2>3. QED
    BY <1>8, <2>1, <2>2
<1>10. CASE OnOther
  BY <1>0, <1>8, <1>10 DEF OnOther
<1>11. CASE OnLagged
  <2>1. UNCHANGED <<sent, channel>>
    BY <1>11 DEF OnLagged, sender
  <2>2. /\ metrics' = [metrics EXCEPT !.dropped = @ + missed] /\ missed' = 0 /\ missed \in Nat
    BY <1>11 DEF OnLagged, TypeOK
  <2>3. /\ metrics'.published = metrics.published /\ metrics'.failures = metrics.failures
        /\ metrics'.dropped + missed' = metrics.dropped + missed
    BY <1>0, <2>2 DEF Counts
  <2>4. Uncounted' = Uncounted /\ Lost' = Lost
    BY <2>1, <2>3 DEF Uncounted, Lost, UncountedFailures, UnreadFailures, Unread
  <2>5. QED
    BY <2>1, <2>3, <2>4 DEF LossInv
<1>12. ASSUME UNCHANGED <<sent, channel, missed, metrics>>
       PROVE  LossInv'
  <2>1. Uncounted' = Uncounted /\ Lost' = Lost
    BY <1>12 DEF Uncounted, Lost, UncountedFailures, UnreadFailures, Unread
  <2>2. QED
    BY <1>12, <2>1 DEF LossInv
<1>13. CASE Close \/ Sweep \/ OnClosed \/ Tick \/ UNCHANGED vars
  BY <1>12, <1>13 DEF Close, Sweep, OnClosed, Tick, vars, sender
<1>14. QED
  BY <1>1, <1>3, <1>4, <1>5, <1>6, <1>7, <1>9, <1>10, <1>11, <1>13 DEF Next, Task

LEMMA InitLoss ==
  ASSUME Init
  PROVE  LossInv
<1>1. /\ channel = <<>> /\ missed = 0 /\ metrics.dropped = 0
      /\ metrics.published = 0 /\ metrics.failures = Zeros
      /\ sent = [events |-> 0, published |-> 0, bytes |-> 0, failures |-> Zeros]
  BY DEF Init
<1>2. sent \in Sent
  BY <1>1 DEF Sent, Zeros
<1>3. Unread("Published") = {} /\ \A r : UnreadFailures(r) = {}
  BY <1>1 DEF Unread, UnreadFailures
<1>4. Uncounted = 0 /\ \A r \in Reason : Lost[r] = 0
  <2>1. Cardinality(Unread("Published")) = 0 /\ \A r : Cardinality(UnreadFailures(r)) = 0
    BY <1>3, FS_EmptySet
  <2>2. sent.published = 0 /\ \A r \in Reason : sent.failures[r] = 0 /\ metrics.failures[r] = 0
    BY <1>1 DEF Zeros
  <2>3. Uncounted = 0
    BY <1>1, <2>1, <2>2 DEF Uncounted
  <2>4. \A r \in Reason : UncountedFailures(r) = 0
    BY <2>1, <2>2 DEF UncountedFailures
  <2>5. QED
    BY <2>3, <2>4 DEF Lost
<1>5. Lost = [r \in Reason |-> Lost[r]]
  BY DEF Lost
<1>6. Lost \in [Reason -> Nat] /\ Lost \in [Reason -> Int]
  BY <1>4, <1>5
<1>7. SumFunction(Lost) = 0
  BY <1>4, <1>6, FinitenessAssumption, SumZero
<1>8. QED
  BY <1>1, <1>2, <1>4, <1>6, <1>7 DEF LossInv

\* Publications and failures of every kind that escaped the counters are at most as many
\* as the drops the task has reported, or is about to report; nothing is counted twice.
THEOREM LossesAreReported == Spec => []UndercountIsReported
<1>1. LossInv => UndercountIsReported
  BY DEF LossInv, UndercountIsReported, Lost
<1>2. TypeOK /\ LossInv /\ [Next]_vars => LossInv'
  BY NextKeepsLoss
<1>3. Init => LossInv
  BY InitLoss
<1>4. QED
  BY <1>1, <1>2, <1>3, TypeCorrect, PTL DEF Spec

\* The task ends in one place only: it has read to the end by then, and there is nobody
\* left to send anything more.
EndInv == ~running => ~open /\ channel = <<>> /\ missed = 0

LEMMA NextKeepsEnd ==
  ASSUME EndInv, [Next]_vars
  PROVE  EndInv'
<1>1. CASE running /\ UNCHANGED running
  BY <1>1 DEF EndInv
<1>2. CASE OnClosed
  BY <1>2 DEF OnClosed, sender, EndInv
<1>3. CASE ~running /\ UNCHANGED <<open, channel, missed, running>>
  BY <1>3 DEF EndInv
<1>4. ASSUME NEW event, Broadcast(event) PROVE running /\ UNCHANGED running
  BY <1>4 DEF Broadcast, EndInv
<1>5. ASSUME NEW b \in Blob,
             \/ Publish(b) \/ Process(b) \/ Finalize(b)
             \/ \E reason \in Reason, will_retry \in BOOLEAN : Fail(b, reason, will_retry)
      PROVE  running /\ UNCHANGED running
  BY <1>4, <1>5 DEF Publish, Process, Finalize, Fail
<1>6. CASE Close
  BY <1>6 DEF Close, EndInv
<1>7. CASE Sweep \/ OnPublished \/ OnFinalized \/ OnFailed \/ OnOther \/ OnLagged \/ Tick
  <2>1. running /\ UNCHANGED running
    BY <1>7 DEF Sweep, OnPublished, OnFinalized, OnFailed, OnOther, OnLagged, Receive, Tick
  <2>2. QED
    BY <1>1, <2>1
<1>8. CASE UNCHANGED vars
  BY <1>8 DEF vars, sender, EndInv
<1>9. QED
  BY <1>1, <1>2, <1>5, <1>6, <1>7, <1>8 DEF Next, Task

\* A task that has stopped has counted, passed over for its kind or reported as dropped
\* everything that was ever sent: whatever the orders in which the sender closes, the
\* channel overflows and the task reads, nothing is left behind when it ends.
THEOREM AStoppedTaskIsDone == Spec => [](~running => AllIsAccounted)
<1>1. Init => EndInv
  BY DEF Init, EndInv
<1>2. EndInv /\ [Next]_vars => EndInv'
  BY NextKeepsEnd
<1>3. TypeOK /\ EndInv /\ UndercountIsReported => (~running => AllIsAccounted)
  <2> SUFFICES ASSUME TypeOK, EndInv, UndercountIsReported, ~running
               PROVE  AllIsAccounted
    OBVIOUS
  <2>1. missed = 0 /\ channel = <<>>
    BY DEF EndInv
  <2>2. metrics.dropped + missed = metrics.dropped
    BY <2>1 DEF TypeOK, Counts
  <2>3. QED
    BY <2>1, <2>2 DEF UndercountIsReported, AllIsAccounted
<1>4. QED
  BY <1>1, <1>2, <1>3, TypeCorrect, LossesAreReported, PTL DEF Spec

\* What the task still has to do, counted in steps.
Left == Len(channel) + One(missed > 0) + One(sweep_due) + One(running)

\* One of the task's branches is ready: for a publication that has to displace an entry,
\* there is an entry to displace.
TaskIsReady ==
  \/ sweep_due \/ missed > 0 \/ (channel = <<>> /\ ~open)
  \/ /\ channel # <<>> /\ Next_event.status \in {"Published", "Finalized", "Failed", "Processed"}
     /\ Next_event.status = "Published" => Evictions # {}

LEMMA LeftType == ASSUME TypeOK PROVE Left \in 0 .. CHANNEL_CAP + 3
<1>1. Len(channel) \in Nat /\ Len(channel) <= CHANNEL_CAP /\ CHANNEL_CAP \in Nat
  BY CapsAssumption DEF TypeOK
<1>2. One(missed > 0) \in 0 .. 1 /\ One(sweep_due) \in 0 .. 1 /\ One(running) \in 0 .. 1
  BY DEF One
<1>3. QED
  BY <1>1, <1>2 DEF Left

LEMMA EachStepTells ==
  ASSUME TypeOK, ~open, [Next]_vars, ~UNCHANGED vars
  PROVE  Left' < Left
<1>1. /\ Len(channel) \in Nat /\ missed \in Nat
      /\ One(missed > 0) \in 0 .. 1 /\ One(sweep_due) \in 0 .. 1 /\ One(running) \in 0 .. 1
  BY DEF TypeOK, One
<1>2. Task
  <2>1. \A event : ~Broadcast(event)
    BY DEF Broadcast
  <2>2. \A b \in Blob :
          /\ ~Publish(b) /\ ~Process(b) /\ ~Finalize(b)
          /\ \A reason \in Reason, will_retry \in BOOLEAN : ~Fail(b, reason, will_retry)
    BY <2>1 DEF Publish, Process, Finalize, Fail
  <2>3. QED
    BY <2>2 DEF Next, Close, Tick
<1>3. ASSUME NEW status, Receive(status) PROVE Left' < Left
  <2>1. /\ channel # <<>> /\ channel' = Tail(channel)
        /\ missed' = missed /\ sweep_due' = sweep_due /\ running' = running
    BY <1>3 DEF Receive, sweep
  <2>2. Len(channel') = Len(channel) - 1
    BY <2>1, HeadAndTail
  <2>3. Left' = Len(channel') + One(missed > 0) + One(sweep_due) + One(running)
    BY <2>1 DEF Left
  <2>4. QED
    BY <1>1, <2>2, <2>3 DEF Left
<1>4. CASE OnPublished \/ OnFinalized \/ OnFailed \/ OnOther
  BY <1>3, <1>4 DEF OnPublished, OnFinalized, OnFailed, OnOther
<1>5. CASE Sweep
  BY <1>1, <1>5 DEF Sweep, Left, One
<1>6. CASE OnLagged
  BY <1>1, <1>6 DEF OnLagged, Left, sweep, One
<1>7. CASE OnClosed
  BY <1>1, <1>7 DEF OnClosed, Left, sweep, One
<1>8. QED
  BY <1>2, <1>4, <1>5, <1>6, <1>7 DEF Task

LEMMA OneIsReady == ASSUME TypeOK, ~open PROVE TaskIsReady
<1>1. CASE channel = <<>>
  BY <1>1 DEF TaskIsReady
<1>2. CASE channel # <<>>
  <2>1. Next_event \in Event
    BY <1>2, HeadAndTail DEF Next_event
  <2>2. Next_event.status \in {"Published", "Finalized", "Failed", "Processed"}
    BY <2>1 DEF Event
  <2>3. Evictions # {}
    \* The map has room for at least one entry, so that a full one has one to lose.
    <3>1. CASE Cardinality(Tracked) >= INFLIGHT_CAP
      <4>1. Cardinality(Tracked) # 0
        BY <3>1, TrackedIsFinite, CapsAssumption
      <4>2. Tracked # {}
        BY <4>1, FS_EmptySet
      <4>3. QED
        BY <3>1, <4>2 DEF Evictions
    <3>2. CASE ~(Cardinality(Tracked) >= INFLIGHT_CAP)
      BY <3>2 DEF Evictions
    <3>3. QED
      BY <3>1, <3>2
  <2>4. QED
    BY <1>2, <2>2, <2>3 DEF TaskIsReady
<1>3. QED
  BY <1>1, <1>2

\* The shutdown is finite: once the sender is gone every step is one of the task's and
\* brings it nearer to its end, which is at most as many steps away as the channel holds
\* events and three more; and at no point on the way has it nothing it can do.  What
\* TaskDrains adds is only that the task is given its turns.
THEOREM ShutdownIsFinite ==
  /\ Spec => [][~open => Left' < Left]_vars
  /\ Spec => [](Left \in 0 .. CHANNEL_CAP + 3 /\ (~open => TaskIsReady))
<1> DEFINE Countdown == ~open => Left' < Left
           Ready == Left \in 0 .. CHANNEL_CAP + 3 /\ (~open => TaskIsReady)
<1>1. TypeOK /\ [Next]_vars => (Countdown \/ UNCHANGED vars)
  BY EachStepTells
<1>2. TypeOK => Ready
  BY LeftType, OneIsReady
<1> HIDE DEF Countdown, Ready
<1>3. Spec => [][Countdown]_vars
  BY <1>1, TypeCorrect, PTL DEF Spec
<1>4. Spec => []Ready
  BY <1>2, TypeCorrect, PTL
<1>5. QED
  BY <1>3, <1>4 DEF Countdown, Ready

=============================================================================
