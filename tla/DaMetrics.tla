------------------------------ MODULE DaMetrics -----------------------------
(***************************************************************************)
(* The task that turns the blob sender's status events into DA metrics.    *)
(* The sender publishes on a bounded broadcast channel which overwrites    *)
(* what a slow reader has not read; the task keeps the blobs it has seen   *)
(* published in a map with a cap, sweeps the map by age, and counts.  The  *)
(* sender belongs to the SDK and is modelled by the events it can send.    *)
(***************************************************************************)
EXTENDS Integers, Sequences, FiniteSets, Functions

CONSTANTS
  Blob, None,
  Reason,             \* discriminants of BlobSubmissionError
  ReceiptOf,          \* what the DA layer says a blob has cost
  CHANNEL_CAP,        \* of the broadcast channel, 1024 in the SDK
  INFLIGHT_CAP,
  INFLIGHT_TTL, SWEEP_INTERVAL,
  DA_BLOB_TIA_ESTIMATE_NANO,
  MaxSent             \* bound: events the sender sends in all

Receipt == [fee_paid: Nat \cup {None}, gas_used: Nat \cup {None}, size_in_bytes: Nat]

ASSUME BlobAssumption == IsFiniteSet(Blob) /\ None \notin Nat /\ ReceiptOf \in [Blob -> Receipt]
ASSUME FinitenessAssumption == IsFiniteSet(Reason)    \* the variants of an enum
ASSUME CapsAssumption ==
  /\ CHANNEL_CAP \in Nat \ {0} /\ INFLIGHT_CAP \in Nat \ {0}
  /\ INFLIGHT_TTL \in Nat \ {0} /\ SWEEP_INTERVAL \in Nat \ {0}
ASSUME EstimateAssumption == DA_BLOB_TIA_ESTIMATE_NANO \in Nat /\ MaxSent \in Nat

VARIABLES
  blobs,       \* the sender's view: where each blob is, and the age of its publication
  channel,     \* events the task can still read
  missed,      \* events overwritten since the task last read
  open,        \* the sender still exists
  sent,        \* history: what a reader who misses nothing would have counted
  in_flight,   \* blob hash -> age of the entry, None without one
  since_sweep, \* time since the sweep's last deadline
  sweep_due,   \* that deadline has not been served yet
  running,     \* the task
  metrics      \* the registry

sender == <<blobs, open, sent>>
sweep == <<since_sweep, sweep_due>>
vars == <<sender, channel, missed, in_flight, sweep, running, metrics>>

Zeros == [r \in Reason |-> 0]

Init ==
  /\ blobs = [b \in Blob |-> [stage |-> "new", age |-> 0]]
  /\ channel = <<>> /\ missed = 0 /\ open = TRUE
  /\ sent = [events |-> 0, published |-> 0, bytes |-> 0, failures |-> Zeros]
  /\ in_flight = [b \in Blob |-> None]
  /\ since_sweep = 0 /\ sweep_due = TRUE      \* an interval's first tick is at once
  /\ running = TRUE
  /\ metrics = [published |-> 0, tia_burned |-> 0, bytes |-> 0, gas |-> 0, failures |-> Zeros,
                latencies |-> 0, dropped |-> 0]

-----------------------------------------------------------------------------
(* The sender                                                              *)

\* A full channel loses its oldest event, and tells the reader how many it lost.
Broadcast(event) ==
  /\ open /\ sent.events < MaxSent
  /\ \/ /\ Len(channel) < CHANNEL_CAP
        /\ channel' = Append(channel, event) /\ UNCHANGED missed
     \/ /\ Len(channel) = CHANNEL_CAP
        /\ channel' = Append(Tail(channel), event) /\ missed' = missed + 1
  /\ UNCHANGED <<open, in_flight, sweep, running, metrics>>

Publish(b) ==
  /\ blobs[b].stage = "new"
  /\ blobs' = [blobs EXCEPT ![b] = [stage |-> "published", age |-> 0]]
  /\ sent' = [sent EXCEPT !.events = @ + 1, !.published = @ + 1,
                          !.bytes = @ + ReceiptOf[b].size_in_bytes]
  /\ Broadcast([status |-> "Published", blob |-> b])

\* Executed by the node; also stands for MustSubmit, which the task ignores as well.
Process(b) ==
  /\ blobs[b].stage = "published"
  /\ sent' = [sent EXCEPT !.events = @ + 1]
  /\ Broadcast([status |-> "Processed"]) /\ UNCHANGED blobs

\* The event says which blob, not how long it took: that part is history.
Finalize(b) ==
  /\ blobs[b].stage = "published"
  /\ blobs' = [blobs EXCEPT ![b].stage = "finalized"]
  /\ sent' = [sent EXCEPT !.events = @ + 1]
  /\ Broadcast([status |-> "Finalized", blob |-> b, took |-> blobs[b].age])

\* Before or after publication (a reorg); a blob to be retried starts over.  The event
\* carries the error alone: which blob failed is history.
Fail(b, reason, will_retry) ==
  /\ blobs[b].stage \in {"new", "published"}
  /\ blobs' = [blobs EXCEPT ![b].stage = IF will_retry THEN "new" ELSE "failed"]
  /\ sent' = [sent EXCEPT !.events = @ + 1, !.failures[reason] = @ + 1]
  /\ Broadcast([status |-> "Failed", reason |-> reason, blob |-> b])

\* The sequencer shuts down.
Close == open /\ open' = FALSE
         /\ UNCHANGED <<blobs, sent, channel, missed, in_flight, sweep, running, metrics>>

-----------------------------------------------------------------------------
(* The task: whichever branch of its select is ready                       *)

Tracked == {b \in Blob : in_flight[b] # None}

MutKeepsAtTTL(b) == in_flight[b] # None /\ in_flight[b] > INFLIGHT_TTL
Stale(b) == in_flight[b] # None /\ in_flight[b] >= INFLIGHT_TTL

Sweep ==
  /\ running /\ sweep_due /\ sweep_due' = FALSE
  /\ in_flight' = [b \in Blob |-> IF Stale(b) THEN None ELSE in_flight[b]]
  /\ UNCHANGED <<sender, channel, missed, since_sweep, running, metrics>>

\* recv() hands out the oldest event, unless some were lost before it.
Next_event == channel[1]
Receive(status) ==
  /\ running /\ missed = 0 /\ channel # <<>> /\ Next_event.status = status
  /\ channel' = Tail(channel)
  /\ UNCHANGED <<sender, missed, sweep, running>>

RecordDaBlobPublished(receipt) ==
  metrics' = [metrics EXCEPT
    !.published = @ + 1,
    !.tia_burned = @ + (IF receipt.fee_paid = None THEN DA_BLOB_TIA_ESTIMATE_NANO
                                                   ELSE receipt.fee_paid),
    !.bytes = @ + receipt.size_in_bytes,
    !.gas = @ + (IF receipt.gas_used = None THEN 0 ELSE receipt.gas_used)]

MutKeepsFirstPublication(b, evicted) ==
  in_flight' = [x \in Blob |-> IF x \in evicted THEN None
                               ELSE IF x = b /\ in_flight[b] = None THEN 0 ELSE in_flight[x]]
\* A blob published again gets a fresh entry, also when it is the one evicted for it.
Insert(b, evicted) ==
  in_flight' = [x \in Blob |-> IF x = b THEN 0 ELSE IF x \in evicted THEN None ELSE in_flight[x]]

MutEvictsPastCap == IF Cardinality(Tracked) > INFLIGHT_CAP THEN {{b} : b \in Tracked} ELSE {{}}
\* A full map loses one entry, and a HashMap's first key is any key.
Evictions == IF Cardinality(Tracked) >= INFLIGHT_CAP THEN {{b} : b \in Tracked} ELSE {{}}

OnPublished ==
  /\ Receive("Published")
  /\ \E evicted \in Evictions : Insert(Next_event.blob, evicted)
  /\ RecordDaBlobPublished(ReceiptOf[Next_event.blob])

OnFinalized ==
  LET b == Next_event.blob
  IN  /\ Receive("Finalized")
      /\ in_flight' = [in_flight EXCEPT ![b] = None]
      /\ metrics' = [metrics EXCEPT !.latencies = IF in_flight[b] = None THEN @ ELSE @ + 1]

OnFailed ==
  /\ Receive("Failed")
  /\ metrics' = [metrics EXCEPT !.failures[Next_event.reason] = @ + 1]
  /\ UNCHANGED in_flight

OnOther == Receive("Processed") /\ UNCHANGED <<in_flight, metrics>>

MutLagIsSilent ==
  /\ running /\ missed > 0 /\ missed' = 0
  /\ UNCHANGED <<sender, channel, in_flight, sweep, running, metrics>>
OnLagged ==
  /\ running /\ missed > 0 /\ missed' = 0
  /\ metrics' = [metrics EXCEPT !.dropped = @ + missed]
  /\ UNCHANGED <<sender, channel, in_flight, sweep, running>>

MutStopsAtOnce ==
  /\ running /\ ~open
  /\ running' = FALSE
  /\ UNCHANGED <<sender, channel, missed, in_flight, sweep, metrics>>
\* Closed is what recv() says once the channel is empty.
OnClosed ==
  /\ running /\ ~open /\ missed = 0 /\ channel = <<>>
  /\ running' = FALSE
  /\ UNCHANGED <<sender, channel, missed, in_flight, sweep, metrics>>

\* A unit of time is long for the task: it passes once everything ready is served.
MaxAge == INFLIGHT_TTL + SWEEP_INTERVAL    \* bound: how long history follows a publication
Older(age) == IF age = None THEN None ELSE age + 1
Tick ==
  /\ running /\ ~sweep_due /\ missed = 0 /\ channel = <<>> /\ open
  /\ in_flight' = [b \in Blob |-> Older(in_flight[b])]
  /\ blobs' = [b \in Blob |-> IF blobs[b].stage = "published" /\ blobs[b].age < MaxAge
                              THEN [blobs[b] EXCEPT !.age = @ + 1] ELSE blobs[b]]
  /\ since_sweep' = (since_sweep + 1) % SWEEP_INTERVAL
  /\ sweep_due' = (since_sweep' = 0)
  /\ UNCHANGED <<open, sent, channel, missed, running, metrics>>

Task == Sweep \/ OnPublished \/ OnFinalized \/ OnFailed \/ OnOther \/ OnLagged \/ OnClosed

Next ==
  \/ \E b \in Blob : \/ Publish(b) \/ Process(b) \/ Finalize(b)
                     \/ \E reason \in Reason, will_retry \in BOOLEAN : Fail(b, reason, will_retry)
  \/ Close
  \/ Task
  \/ Tick

Spec == Init /\ [][Next]_vars

\* The task runs when it has something to do.
FairSpec == Spec /\ WF_vars(Task)

-----------------------------------------------------------------------------
(* Properties                                                              *)

Ages == 0 .. INFLIGHT_TTL - 1 + SWEEP_INTERVAL
Event ==
  [status: {"Published"}, blob: Blob] \cup [status: {"Processed"}]
    \cup [status: {"Finalized"}, blob: Blob, took: 0 .. MaxAge]
    \cup [status: {"Failed"}, reason: Reason, blob: Blob]
Counts == [published: Nat, tia_burned: Nat, bytes: Nat, gas: Nat, failures: [Reason -> Nat],
           latencies: Nat, dropped: Nat]

\* Every entry of the map has an age, the registry holds counters, and the channel
\* never holds more than it has room for.
TypeOK ==
  /\ blobs \in [Blob -> [stage: {"new", "published", "finalized", "failed"}, age: 0 .. MaxAge]]
  /\ channel \in Seq(Event) /\ Len(channel) <= CHANNEL_CAP
  /\ missed \in Nat /\ open \in BOOLEAN /\ running \in BOOLEAN
  /\ in_flight \in [Blob -> Nat \cup {None}]
  /\ since_sweep \in 0 .. SWEEP_INTERVAL - 1 /\ sweep_due \in BOOLEAN
  /\ metrics \in Counts

\* What was sent and is neither counted nor still to be read.
Unread(status) == {i \in DOMAIN channel : channel[i].status = status}
UnreadFailures(r) == {i \in Unread("Failed") : channel[i].reason = r}
Uncounted == sent.published - metrics.published - Cardinality(Unread("Published"))
UncountedFailures(r) == sent.failures[r] - metrics.failures[r] - Cardinality(UnreadFailures(r))

\* Nothing is undercounted in silence: publications and failures of every kind that
\* escaped the counters are at most as many as the drops the task has reported, or is
\* about to report; and nothing is counted twice.
UndercountIsReported ==
  /\ Uncounted >= 0 /\ \A r \in Reason : UncountedFailures(r) >= 0
  /\ Uncounted + SumFunction([r \in Reason |-> UncountedFailures(r)]) <= metrics.dropped + missed

\* The map never outgrows its cap, however many blobs are under way.
InFlightIsBounded == Cardinality(Tracked) <= INFLIGHT_CAP

\* An entry is gone one sweep after its lifetime at the latest: a blob that neither
\* finalizes nor comes back, or whose events were lost, does not stay in the map.
EntriesExpire ==
  \A b \in Tracked :
    in_flight[b] < INFLIGHT_TTL + (IF sweep_due THEN SWEEP_INTERVAL ELSE since_sweep)

\* A latency that is observed is the real one, from the blob's last publication to its
\* finality, retries and evictions notwithstanding, unless drops were reported.
LatencyIsRealStep ==
  metrics'.latencies # metrics.latencies /\ metrics.dropped = 0
    => in_flight[Next_event.blob] = Next_event.took
LatencyIsReal == [][LatencyIsRealStep]_vars

\* When the sequencer is gone the task reads on to the end and stops: in the end each
\* event sent is counted, ignored for its kind, or reported as dropped.
AllIsAccounted ==
  /\ ~running /\ channel = <<>> /\ missed = 0
  /\ Uncounted + SumFunction([r \in Reason |-> UncountedFailures(r)]) <= metrics.dropped
TaskDrains == ~open ~> AllIsAccounted

=============================================================================
