-------------------------- MODULE ClusterTopology ---------------------------
(***************************************************************************)
(* GET /v1/cluster/nodes: concurrent requests around a one-slot cache.  A  *)
(* request that finds no fresh entry reads Postgres in two statements, the *)
(* clock and then the rows, and writes the slot without looking at it      *)
(* again.  Heartbeats and elections, which the SDK's sequencers write into *)
(* the two tables, go on between any two of these steps.                   *)
(***************************************************************************)
EXTENDS Integers

CONSTANTS
  Node, Request, None,
  CACHE_TTL,
  MaxLatency,     \* bound: how long a request can spend from the first statement on
  MaxClock,       \* bound: the clock stops there
  MaxHeartbeat    \* bound: nodes send no heartbeat after that time

ASSUME NoneAssumption == None \notin Node \cup Int
ASSUME TimesAssumption == CACHE_TTL \in Nat \ {0} /\ MaxLatency \in Nat
ASSUME BoundsAssumption == MaxClock \in Nat /\ MaxHeartbeat \in Nat

VARIABLES
  clock,              \* Postgres and the node measure time at the same pace
  nodes,              \* the table: node_id -> last_updated, None without a row
  sequencer_leader,   \* the lock's row; with no holder, when it was given up
  cache,              \* the slot: None, or a topology and when it was stored
  requests,           \* where each request is, and what it has read
  answer              \* the topology this step has answered with, or None

tables == <<nodes, sequencer_leader>>
vars == <<clock, tables, cache, requests, answer>>

Time == 0 .. MaxClock
Lock == [node_id: Node \cup {None}, leader_acquired_at: Time]
Topology ==
  [generated_at: Time,
   last_heartbeat_age: [Node -> Int \cup {None}],
   leader_node_id: Node \cup {None}, leader_acquired_at: Time \cup {None}]

Stage ==
  [phase: {"idle", "reading NOW()"}]
    \cup [phase: {"listing nodes"}, now: Time]
    \cup [phase: {"storing"}, now: Time, topology: Topology]
Idle == [phase |-> "idle"]

Init ==
  /\ clock = 0
  /\ nodes = [n \in Node |-> None]
  /\ sequencer_leader = [node_id |-> None, leader_acquired_at |-> 0]
  /\ cache = None
  /\ requests = [r \in Request |-> Idle]
  /\ answer = None

Become(r, state) == requests' = [requests EXCEPT ![r] = state]

\* What a request has read, once it has read it.
Reading(r) == requests[r].phase \in {"listing nodes", "storing"}

-----------------------------------------------------------------------------
(* A request                                                               *)

MutFresh(stamped_at) == clock - stamped_at <= CACHE_TTL
Fresh(stamped_at) == clock - stamped_at < CACHE_TTL

MutRenewedHit(r) ==
  /\ requests[r] = Idle /\ cache # None /\ Fresh(cache.stamped_at)
  /\ cache' = [cache EXCEPT !.stamped_at = clock]
  /\ answer' = cache.topology /\ UNCHANGED <<clock, tables, requests>>

Hit(r) ==
  /\ requests[r] = Idle /\ cache # None /\ Fresh(cache.stamped_at)
  /\ answer' = cache.topology /\ UNCHANGED <<clock, tables, cache, requests>>

Miss(r) ==
  /\ requests[r] = Idle /\ (cache # None => ~Fresh(cache.stamped_at))
  /\ Become(r, [phase |-> "reading NOW()"])
  /\ answer' = None /\ UNCHANGED <<clock, tables, cache>>

ReadNow(r) ==
  /\ requests[r].phase = "reading NOW()"
  /\ Become(r, [phase |-> "listing nodes", now |-> clock])
  /\ answer' = None /\ UNCHANGED <<clock, tables, cache>>

\* The join: every node with a row, and the lock's holder if it is one of them.
TopologyAt(now) ==
  LET led == sequencer_leader.node_id \in {n \in Node : nodes[n] # None}
  IN  [generated_at |-> now,
       last_heartbeat_age |-> [n \in Node |-> IF nodes[n] = None THEN None ELSE now - nodes[n]],
       leader_node_id |-> IF led THEN sequencer_leader.node_id ELSE None,
       leader_acquired_at |-> IF led THEN sequencer_leader.leader_acquired_at ELSE None]

ListNodes(r) ==
  /\ requests[r].phase = "listing nodes"
  /\ Become(r, [phase |-> "storing", now |-> requests[r].now,
                topology |-> TopologyAt(requests[r].now)])
  /\ answer' = None /\ UNCHANGED <<clock, tables, cache>>

\* The slot is overwritten, whatever it holds by now, and stamped with this instant.
StoreCache(r) ==
  /\ requests[r].phase = "storing"
  /\ cache' = [stamped_at |-> clock, topology |-> requests[r].topology]
  /\ answer' = requests[r].topology
  /\ Become(r, Idle) /\ UNCHANGED <<clock, tables>>

\* 503, and the slot is left alone.
QueryFails(r) ==
  /\ requests[r].phase \in {"reading NOW()", "listing nodes"}
  /\ Become(r, Idle) /\ answer' = None /\ UNCHANGED <<clock, tables, cache>>

-----------------------------------------------------------------------------
(* The sequencers, and time                                                *)

Heartbeat(n) ==
  /\ clock <= MaxHeartbeat /\ nodes' = [nodes EXCEPT ![n] = clock]
  /\ answer' = None /\ UNCHANGED <<clock, sequencer_leader, cache, requests>>

\* A node takes the lock, or its holder gives it up.  It has its row in nodes by then.
Elect(n) ==
  /\ n # sequencer_leader.node_id /\ (n # None => nodes[n] # None)
  /\ sequencer_leader' = [node_id |-> n, leader_acquired_at |-> clock]
  /\ answer' = None /\ UNCHANGED <<clock, nodes, cache, requests>>

Tick ==
  /\ clock < MaxClock
  /\ \A r \in Request : Reading(r) => clock < requests[r].now + MaxLatency
  /\ clock' = clock + 1
  /\ answer' = None /\ UNCHANGED <<tables, cache, requests>>

Next ==
  \/ \E r \in Request : \/ Hit(r) \/ Miss(r) \/ ReadNow(r) \/ ListNodes(r)
                        \/ StoreCache(r) \/ QueryFails(r)
  \/ \E n \in Node : Heartbeat(n)
  \/ \E n \in Node \cup {None} : Elect(n)
  \/ Tick

Spec == Init /\ [][Next]_vars

-----------------------------------------------------------------------------
(* Properties                                                              *)

\* Every request is in one of the handler's stages with what it has read by then, and
\* the slot holds a whole topology.
TypeOK ==
  /\ clock \in Time
  /\ nodes \in [Node -> Time \cup {None}] /\ sequencer_leader \in Lock
  /\ cache = None \/ cache \in [stamped_at: Time, topology: Topology]
  /\ requests \in [Request -> Stage]
  /\ answer \in Topology \cup {None}

\* The longest an answer can lag: the cache's lifetime on top of a slow query.
MaxAge == CACHE_TTL - 1 + MaxLatency

\* No answer is older than the cache's lifetime and one query together, however many
\* slow requests have overwritten the slot of a faster one.
AnswersAreRecent == answer # None => clock - answer.generated_at <= MaxAge

\* Once the lock has kept its holder, or has had none, for that long, every answer
\* says so: nobody is told of a leader from before the failover.
StableLeaderIsReported ==
  answer # None /\ clock - sequencer_leader.leader_acquired_at > MaxAge =>
    answer.leader_node_id = sequencer_leader.node_id

\* The comment on the snapshot's time: the same instant for every field.  Nothing in
\* a topology is then later than its time.
SnapshotIsOneInstant ==
  answer # None =>
    /\ \A n \in Node : answer.last_heartbeat_age[n] # None => answer.last_heartbeat_age[n] >= 0
    /\ answer.leader_node_id # None => answer.leader_acquired_at <= answer.generated_at

=============================================================================
