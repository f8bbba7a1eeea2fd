----------------------- MODULE ClusterTopologyProofs ------------------------
(***************************************************************************)
(* How old an answer of GET /v1/cluster/nodes can be, for any number of    *)
(* nodes and overlapping requests and any lifetime of the cache.           *)
(***************************************************************************)
EXTENDS ClusterTopology, TLAPS

\* A topology that does not name the lock's holder was read before the lock changed.
Truthful(topology) ==
  topology.leader_node_id # sequencer_leader.node_id =>
    topology.generated_at <= sequencer_leader.leader_acquired_at

LeaderIsListed ==
  /\ sequencer_leader.node_id # None => nodes[sequencer_leader.node_id] # None
  /\ sequencer_leader.leader_acquired_at <= clock

\* What a request has read is not older than a query can be.
Timely(request) ==
  /\ request.phase \in {"listing nodes", "storing"} =>
       request.now <= clock /\ clock - request.now <= MaxLatency
  /\ request.phase = "storing" =>
       request.topology.generated_at = request.now /\ Truthful(request.topology)

QueriesAreTimely == \A r \in Request : Timely(requests[r])

CacheIsTimely ==
  cache # None =>
    /\ cache.stamped_at <= clock /\ cache.topology.generated_at <= clock
    /\ cache.stamped_at - cache.topology.generated_at <= MaxLatency
    /\ Truthful(cache.topology)

AnswerIsTruthful == answer # None => Truthful(answer)

IndInv ==
  /\ TypeOK /\ LeaderIsListed /\ QueriesAreTimely /\ CacheIsTimely
  /\ AnswerIsTruthful /\ AnswersAreRecent

-----------------------------------------------------------------------------
(* What a request holds                                                    *)

LEMMA NoneIsNoTime == None \notin Int /\ None \notin Time /\ Time \subseteq Int
BY NoneAssumption, BoundsAssumption DEF Time

LEMMA TopologyFields ==
  \A t \in Topology : /\ t.generated_at \in Time /\ t.generated_at \in Int
                      /\ t.leader_node_id \in Node \cup {None}
BY NoneIsNoTime DEF Topology

\* What a stage has read is there, and is of its type.
LEMMA Stages ==
  ASSUME TypeOK, NEW r \in Request
  PROVE  /\ requests[r].phase = "listing nodes" =>
              requests[r].now \in Time /\ requests[r].now \in Int
         /\ requests[r].phase = "storing" =>
              requests[r].now \in Time /\ requests[r].now \in Int /\ requests[r].topology \in Topology
BY NoneIsNoTime DEF TypeOK, Stage

LEMMA TypesOf ==
  ASSUME TypeOK
  PROVE  /\ clock \in Time /\ clock \in Int
         /\ sequencer_leader.node_id \in Node \cup {None}
         /\ sequencer_leader.leader_acquired_at \in Time /\ sequencer_leader.leader_acquired_at \in Int
         /\ cache # None => cache.stamped_at \in Time /\ cache.stamped_at \in Int
                            /\ cache.topology \in Topology
         /\ answer # None => answer \in Topology
BY NoneIsNoTime DEF TypeOK, Lock

LEMMA TopologyIsTyped ==
  ASSUME TypeOK, NEW now \in Time
  PROVE  TopologyAt(now) \in Topology /\ TopologyAt(now).generated_at = now
<1> DEFINE led == sequencer_leader.node_id \in {n \in Node : nodes[n] # None}
           age == [n \in Node |-> IF nodes[n] = None THEN None ELSE now - nodes[n]]
           who == IF led THEN sequencer_leader.node_id ELSE None
           since == IF led THEN sequencer_leader.leader_acquired_at ELSE None
<1>1. \A n \in Node : nodes[n] = None \/ nodes[n] \in Int
  BY NoneIsNoTime DEF TypeOK
<1>2. age \in [Node -> Int \cup {None}]
  BY <1>1, NoneIsNoTime
<1>3. who \in Node \cup {None} /\ since \in Time \cup {None}
  BY TypesOf
<1>4. TopologyAt(now) = [generated_at |-> now, last_heartbeat_age |-> age,
                         leader_node_id |-> who, leader_acquired_at |-> since]
  BY DEF TopologyAt
<1> HIDE DEF age, who, since
<1> QED BY <1>2, <1>3, <1>4 DEF Topology

\* The join names the holder of the lock, who has a row.
LEMMA TopologyNamesLeader ==
  ASSUME TypeOK, LeaderIsListed, NEW now
  PROVE  TopologyAt(now).leader_node_id = sequencer_leader.node_id
<1> DEFINE led == sequencer_leader.node_id \in {n \in Node : nodes[n] # None}
<1>1. TopologyAt(now).leader_node_id = IF led THEN sequencer_leader.node_id ELSE None
  BY DEF TopologyAt
<1>2. led \/ sequencer_leader.node_id = None
  BY TypesOf DEF LeaderIsListed
<1> QED BY <1>1, <1>2

\* A topology as old as the cache lets one be is recent enough to be answered with.
LEMMA CachedIsRecent ==
  ASSUME IndInv, cache # None, Fresh(cache.stamped_at)
  PROVE  clock - cache.topology.generated_at <= MaxAge
<1>1. /\ clock \in Int /\ cache.stamped_at \in Int /\ cache.topology.generated_at \in Int
  BY TypesOf, TopologyFields DEF IndInv
<1>2. clock - cache.stamped_at < CACHE_TTL
  BY DEF Fresh
<1>3. cache.stamped_at - cache.topology.generated_at <= MaxLatency
  BY DEF IndInv, CacheIsTimely
<1> QED BY <1>1, <1>2, <1>3, TimesAssumption DEF MaxAge

-----------------------------------------------------------------------------
(* Every step keeps the invariant                                          *)

LEMMA InitHolds == Init => IndInv
<1> SUFFICES ASSUME Init PROVE IndInv
  OBVIOUS
<1>1. 0 \in Time
  BY BoundsAssumption DEF Time
<1>2. TypeOK
  BY <1>1 DEF Init, Idle, Stage, TypeOK, Lock
<1>3. LeaderIsListed
  BY DEF Init, LeaderIsListed
<1>4. QueriesAreTimely
  <2>1. \A r \in Request : requests[r].phase = "idle"
    BY DEF Init, Idle
  <2> QED BY <2>1 DEF QueriesAreTimely, Timely
<1> QED BY <1>2, <1>3, <1>4 DEF Init, IndInv, CacheIsTimely, AnswerIsTruthful, AnswersAreRecent

\* A step of one request that leaves everything but the request alone.
LEMMA RequestMoves ==
  ASSUME IndInv, NEW r \in Request, NEW stage \in Stage, Timely(stage), Become(r, stage),
         UNCHANGED <<clock, tables, cache>>, answer' = None
  PROVE  IndInv'
<1>1. TypeOK
  BY DEF IndInv
<1>2. /\ requests' = [requests EXCEPT ![r] = stage] /\ requests'[r] = stage
      /\ \A q \in Request : q # r => requests'[q] = requests[q]
  BY <1>1 DEF Become, TypeOK
<1>3. TypeOK'
  BY <1>1, <1>2 DEF TypeOK, tables
<1>4. LeaderIsListed' /\ CacheIsTimely' /\ AnswerIsTruthful' /\ AnswersAreRecent'
  BY DEF IndInv, tables, LeaderIsListed, CacheIsTimely, AnswerIsTruthful, AnswersAreRecent, Truthful
<1>5. \A q \in Request : Timely(requests'[q])
  BY <1>2 DEF IndInv, QueriesAreTimely
<1>6. QueriesAreTimely'
  BY <1>5 DEF QueriesAreTimely, Timely, Truthful, tables
<1> QED BY <1>3, <1>4, <1>6 DEF IndInv

LEMMA EmptyStage ==
  ASSUME NEW name \in {"idle", "reading NOW()"}
  PROVE  [phase |-> name] \in Stage /\ Timely([phase |-> name])
<1> DEFINE stage == [phase |-> name]
<1>1. stage \in [phase: {"idle", "reading NOW()"}] /\ stage.phase = name
  OBVIOUS
<1> HIDE DEF stage
<1>2. stage \in Stage
  BY <1>1 DEF Stage
<1>3. Timely(stage)
  BY <1>1 DEF Timely
<1> QED BY <1>2, <1>3 DEF stage

LEMMA ReadNowKeeps ==
  ASSUME IndInv, NEW r \in Request, ReadNow(r)
  PROVE  IndInv'
<1> DEFINE stage == [phase |-> "listing nodes", now |-> clock]
<1>1. clock \in Time /\ clock \in Int
  BY TypesOf DEF IndInv
<1>2. stage \in Stage
  BY <1>1 DEF Stage
<1>3. clock <= clock /\ clock - clock <= MaxLatency
  BY <1>1, TimesAssumption
<1>4. stage.phase = "listing nodes" /\ stage.now = clock
  OBVIOUS
<1> HIDE DEF stage
<1>5. Timely(stage)
  BY <1>3, <1>4 DEF Timely
<1>6. Become(r, stage) /\ UNCHANGED <<clock, tables, cache>> /\ answer' = None
  BY DEF ReadNow, stage
<1> QED BY <1>2, <1>5, <1>6, RequestMoves

LEMMA ListNodesKeeps ==
  ASSUME IndInv, NEW r \in Request, ListNodes(r)
  PROVE  IndInv'
<1> DEFINE now == requests[r].now
           stage == [phase |-> "storing", now |-> now, topology |-> TopologyAt(now)]
<1>1. requests[r].phase = "listing nodes" /\ TypeOK /\ LeaderIsListed
  BY DEF ListNodes, IndInv
<1>2. now \in Time
  BY <1>1, Stages
<1>3. now <= clock /\ clock - now <= MaxLatency
  BY <1>1 DEF IndInv, QueriesAreTimely, Timely
<1>4. TopologyAt(now) \in Topology /\ TopologyAt(now).generated_at = now
  BY <1>1, <1>2, TopologyIsTyped
<1>5. Truthful(TopologyAt(now))
  BY <1>1, TopologyNamesLeader DEF Truthful
<1>6. stage \in Stage
  BY <1>2, <1>4 DEF Stage
<1>7. stage.phase = "storing" /\ stage.now = now /\ stage.topology = TopologyAt(now)
  OBVIOUS
<1>8. Become(r, stage) /\ UNCHANGED <<clock, tables, cache>> /\ answer' = None
  BY DEF ListNodes
<1> HIDE DEF stage, now
<1>9. Timely(stage)
  BY <1>3, <1>4, <1>5, <1>7 DEF Timely
<1> QED BY <1>6, <1>8, <1>9, RequestMoves

LEMMA HitKeeps ==
  ASSUME IndInv, NEW r \in Request, Hit(r)
  PROVE  IndInv'
<1>1. /\ cache # None /\ Fresh(cache.stamped_at) /\ answer' = cache.topology
      /\ UNCHANGED <<clock, nodes, sequencer_leader, cache, requests>>
  BY DEF Hit, tables
<1>2. TypeOK /\ cache.topology \in Topology
  BY <1>1, TypesOf DEF IndInv
<1>3. TypeOK'
  BY <1>1, <1>2 DEF TypeOK
<1>4. LeaderIsListed' /\ QueriesAreTimely' /\ CacheIsTimely'
  BY <1>1 DEF IndInv, LeaderIsListed, QueriesAreTimely, CacheIsTimely, Timely, Truthful
<1>5. Truthful(cache.topology) /\ clock - cache.topology.generated_at <= MaxAge
  BY <1>1, CachedIsRecent DEF IndInv, CacheIsTimely
<1>6. AnswerIsTruthful' /\ AnswersAreRecent'
  BY <1>1, <1>5 DEF AnswerIsTruthful, AnswersAreRecent, Truthful
<1> QED BY <1>3, <1>4, <1>6 DEF IndInv

LEMMA StoreCacheKeeps ==
  ASSUME IndInv, NEW r \in Request, StoreCache(r)
  PROVE  IndInv'
<1> DEFINE topology == requests[r].topology
           entry == [stamped_at |-> clock, topology |-> topology]
<1>1. /\ requests[r].phase = "storing" /\ cache' = entry
      /\ answer' = topology /\ requests' = [requests EXCEPT ![r] = Idle]
      /\ UNCHANGED <<clock, nodes, sequencer_leader>>
  BY DEF StoreCache, Become, tables
<1>2. TypeOK /\ clock \in Time /\ clock \in Int /\ topology \in Topology /\ requests[r].now \in Int
  BY <1>1, TypesOf, Stages DEF IndInv
<1>3. /\ clock - requests[r].now <= MaxLatency /\ requests[r].now <= clock
      /\ topology.generated_at = requests[r].now /\ Truthful(topology)
  BY <1>1 DEF IndInv, QueriesAreTimely, Timely
<1>4. Idle \in Stage /\ Timely(Idle)
  BY EmptyStage DEF Idle
<1>5. entry.stamped_at = clock /\ entry.topology = topology
  OBVIOUS
<1>6. entry \in [stamped_at: Time, topology: Topology]
  BY <1>2
<1> HIDE DEF entry, topology
<1>7. TypeOK'
  BY <1>1, <1>2, <1>4, <1>6 DEF TypeOK
<1>8. LeaderIsListed'
  BY <1>1 DEF IndInv, LeaderIsListed
<1>9. QueriesAreTimely'
  <2>1. \A q \in Request : requests'[q] = Idle \/ requests'[q] = requests[q]
    BY <1>1, <1>2 DEF TypeOK
  <2>2. \A q \in Request : Timely(requests'[q])
    BY <1>4, <2>1 DEF IndInv, QueriesAreTimely
  <2> QED BY <1>1, <2>2 DEF QueriesAreTimely, Timely, Truthful
<1>10. CacheIsTimely'
  <2>1. clock <= clock
    BY <1>2
  <2>2. clock - topology.generated_at <= MaxLatency /\ topology.generated_at <= clock
    BY <1>3
  <2> QED BY <1>1, <1>3, <1>5, <2>1, <2>2 DEF CacheIsTimely, Truthful
<1>11. AnswerIsTruthful'
  BY <1>1, <1>3 DEF AnswerIsTruthful, Truthful
<1>12. clock - topology.generated_at <= MaxAge
  BY <1>2, <1>3, TimesAssumption DEF MaxAge
<1>13. AnswersAreRecent'
  BY <1>1, <1>12 DEF AnswersAreRecent, MaxAge
<1> QED BY <1>7, <1>8, <1>9, <1>10, <1>11, <1>13 DEF IndInv

LEMMA HeartbeatKeeps ==
  ASSUME IndInv, NEW n \in Node, Heartbeat(n)
  PROVE  IndInv'
<1>1. /\ nodes' = [nodes EXCEPT ![n] = clock] /\ answer' = None
      /\ UNCHANGED <<clock, sequencer_leader, cache, requests>>
  BY DEF Heartbeat
<1>2. TypeOK /\ clock \in Time /\ clock # None
  BY TypesOf, NoneIsNoTime DEF IndInv
<1>3. TypeOK'
  BY <1>1, <1>2 DEF TypeOK
<1>4. \A m \in Node : nodes[m] # None => nodes'[m] # None
  BY <1>1, <1>2 DEF TypeOK
<1>5. LeaderIsListed'
  BY <1>1, <1>2, <1>4, TypesOf DEF IndInv, LeaderIsListed
<1>6. QueriesAreTimely' /\ CacheIsTimely'
  BY <1>1 DEF IndInv, QueriesAreTimely, CacheIsTimely, Timely, Truthful
<1> QED BY <1>1, <1>3, <1>5, <1>6 DEF IndInv, AnswerIsTruthful, AnswersAreRecent

\* The lock changes now, and everything read was read before.
LEMMA ElectKeeps ==
  ASSUME IndInv, NEW n \in Node \cup {None}, Elect(n)
  PROVE  IndInv'
<1>1. /\ sequencer_leader' = [node_id |-> n, leader_acquired_at |-> clock] /\ answer' = None
      /\ n # None => nodes[n] # None
      /\ UNCHANGED <<clock, nodes, cache, requests>>
  BY DEF Elect
<1>2. TypeOK /\ clock \in Time /\ clock \in Int
  BY TypesOf DEF IndInv
<1>3. sequencer_leader' \in Lock /\ sequencer_leader'.node_id = n /\ sequencer_leader'.leader_acquired_at = clock
  BY <1>1, <1>2 DEF Lock
<1>4. TypeOK'
  BY <1>1, <1>2, <1>3 DEF TypeOK
<1>5. LeaderIsListed'
  BY <1>1, <1>2, <1>3 DEF LeaderIsListed
<1>6. \A t \in Topology : t.generated_at <= clock => Truthful(t)'
  BY <1>3 DEF Truthful
<1>7. QueriesAreTimely'
  <2>1. SUFFICES ASSUME NEW r \in Request PROVE Timely(requests[r])'
    BY <1>1 DEF QueriesAreTimely
  <2>2. Timely(requests[r])
    BY DEF IndInv, QueriesAreTimely
  <2>3. requests[r].phase = "storing" => Truthful(requests[r].topology)'
    <3>1. SUFFICES ASSUME requests[r].phase = "storing" PROVE Truthful(requests[r].topology)'
      OBVIOUS
    <3>2. requests[r].topology \in Topology /\ requests[r].topology.generated_at <= clock
      BY <1>2, <2>2, <3>1, Stages DEF Timely
    <3> QED BY <1>1, <1>6, <3>2 DEF Truthful
  <2> QED BY <1>1, <2>2, <2>3 DEF Timely
<1>8. CacheIsTimely'
  <2>1. SUFFICES ASSUME cache # None PROVE Truthful(cache.topology)'
    BY <1>1 DEF IndInv, CacheIsTimely
  <2>2. cache.topology \in Topology /\ cache.topology.generated_at <= clock
    BY <1>2, <2>1, TypesOf DEF IndInv, CacheIsTimely
  <2> QED BY <1>1, <1>6, <2>2 DEF Truthful
<1> QED BY <1>1, <1>4, <1>5, <1>7, <1>8 DEF IndInv, AnswerIsTruthful, AnswersAreRecent

\* Time waits for the queries under way, so that none of them outlives its bound.
LEMMA TickKeeps ==
  ASSUME IndInv, Tick
  PROVE  IndInv'
<1>1. /\ clock < MaxClock /\ clock' = clock + 1 /\ answer' = None
      /\ \A r \in Request : Reading(r) => clock < requests[r].now + MaxLatency
      /\ UNCHANGED <<nodes, sequencer_leader, cache, requests>>
  BY DEF Tick, tables
<1>2. TypeOK /\ clock \in Time /\ clock \in Int /\ MaxLatency \in Int
  BY TypesOf, TimesAssumption DEF IndInv
<1>3. clock' \in Time
  BY <1>1, <1>2, BoundsAssumption DEF Time
<1>4. TypeOK'
  BY <1>1, <1>2, <1>3 DEF TypeOK
<1>5. LeaderIsListed'
  BY <1>1, <1>2, TypesOf DEF IndInv, LeaderIsListed
<1>6. QueriesAreTimely'
  <2>1. SUFFICES ASSUME NEW r \in Request PROVE Timely(requests[r])'
    BY <1>1 DEF QueriesAreTimely
  <2>2. Timely(requests[r])
    BY DEF IndInv, QueriesAreTimely
  <2>3. ASSUME Reading(r)
        PROVE  requests[r].now <= clock + 1 /\ (clock + 1) - requests[r].now <= MaxLatency
    <3>1. requests[r].now \in Int
      BY <1>2, <2>3, Stages DEF Reading
    <3>2. clock < requests[r].now + MaxLatency /\ requests[r].now <= clock
      BY <1>1, <2>2, <2>3 DEF Timely, Reading
    <3> QED BY <1>2, <3>1, <3>2
  <2>4. requests[r].phase = "storing" =>
          /\ requests[r].topology.generated_at = requests[r].now
          /\ Truthful(requests[r].topology)'
    BY <1>1, <2>2 DEF Timely, Truthful
  <2> QED BY <1>1, <2>3, <2>4 DEF Timely, Reading, Truthful
<1>7. CacheIsTimely'
  <2>1. SUFFICES ASSUME cache # None
                 PROVE  cache.stamped_at <= clock + 1 /\ cache.topology.generated_at <= clock + 1
    BY <1>1 DEF IndInv, CacheIsTimely, Truthful
  <2>2. cache.stamped_at \in Int /\ cache.topology.generated_at \in Int
    BY <1>2, <2>1, TypesOf, TopologyFields
  <2> QED BY <1>2, <2>1, <2>2 DEF IndInv, CacheIsTimely
<1> QED BY <1>1, <1>4, <1>5, <1>6, <1>7 DEF IndInv, AnswerIsTruthful, AnswersAreRecent

LEMMA NextKeeps == IndInv /\ [Next]_vars => IndInv'
<1> SUFFICES ASSUME IndInv, [Next]_vars PROVE IndInv'
  OBVIOUS
<1>1. ASSUME NEW r \in Request, Hit(r) PROVE IndInv'
  BY <1>1, HitKeeps
<1>2. ASSUME NEW r \in Request, Miss(r) PROVE IndInv'
  BY <1>2, EmptyStage, RequestMoves DEF Miss
<1>3. ASSUME NEW r \in Request, ReadNow(r) PROVE IndInv'
  BY <1>3, ReadNowKeeps
<1>4. ASSUME NEW r \in Request, ListNodes(r) PROVE IndInv'
  BY <1>4, ListNodesKeeps
<1>5. ASSUME NEW r \in Request, StoreCache(r) PROVE IndInv'
  BY <1>5, StoreCacheKeeps
<1>6. ASSUME NEW r \in Request, QueryFails(r) PROVE IndInv'
  BY <1>6, EmptyStage, RequestMoves DEF QueryFails, Idle
<1>7. ASSUME NEW n \in Node, Heartbeat(n) PROVE IndInv'
  BY <1>7, HeartbeatKeeps
<1>8. ASSUME NEW n \in Node \cup {None}, Elect(n) PROVE IndInv'
  BY <1>8, ElectKeeps
<1>9. CASE Tick
  BY <1>9, TickKeeps
<1>10. CASE UNCHANGED vars
  <2>1. UNCHANGED <<clock, nodes, sequencer_leader, cache, requests, answer>>
    BY <1>10 DEF vars, tables
  <2>2. TypeOK' /\ LeaderIsListed' /\ AnswersAreRecent'
    BY <2>1 DEF IndInv, TypeOK, LeaderIsListed, AnswersAreRecent
  <2>3. QueriesAreTimely' /\ CacheIsTimely' /\ AnswerIsTruthful'
    BY <2>1 DEF IndInv, QueriesAreTimely, CacheIsTimely, AnswerIsTruthful, Timely, Truthful
  <2> QED BY <2>2, <2>3 DEF IndInv
<1> QED BY <1>1, <1>2, <1>3, <1>4, <1>5, <1>6, <1>7, <1>8, <1>9, <1>10 DEF Next

LEMMA Invariance == Spec => []IndInv
<1>1. Init => IndInv
  BY InitHolds
<1>2. IndInv /\ [Next]_vars => IndInv'
  BY NextKeeps
<1> QED BY <1>1, <1>2, PTL DEF Spec

-----------------------------------------------------------------------------
(* The results                                                             *)

\* Every request is in one of the handler's stages, with what it has read by then.
THEOREM TypeCorrect == Spec => []TypeOK
<1>1. IndInv => TypeOK
  BY DEF IndInv
<1> QED BY <1>1, Invariance, PTL

\* With any number of overlapping requests, no answer is older than the cache's
\* lifetime and one query together.
THEOREM NoAnswerIsOld == Spec => []AnswersAreRecent
<1>1. IndInv => AnswersAreRecent
  BY DEF IndInv
<1> QED BY <1>1, Invariance, PTL

\* A holder of the lock that has held it for that long is in every answer.
THEOREM FailoverIsSeen == Spec => []StableLeaderIsReported
<1>1. IndInv => StableLeaderIsReported
  <2>1. SUFFICES ASSUME IndInv, answer # None,
                        clock - sequencer_leader.leader_acquired_at > MaxAge
                 PROVE  answer.leader_node_id = sequencer_leader.node_id
    BY DEF StableLeaderIsReported
  <2>2. clock - answer.generated_at <= MaxAge /\ Truthful(answer)
    BY <2>1 DEF IndInv, AnswersAreRecent, AnswerIsTruthful
  <2>3. /\ clock \in Int /\ sequencer_leader.leader_acquired_at \in Int
        /\ answer.generated_at \in Int /\ MaxAge \in Int
    BY <2>1, TypesOf, TopologyFields, TimesAssumption DEF IndInv, MaxAge
  <2>4. ~(answer.generated_at <= sequencer_leader.leader_acquired_at)
    BY <2>1, <2>2, <2>3
  <2> QED BY <2>2, <2>4 DEF Truthful
<1> QED BY <1>1, Invariance, PTL

=============================================================================
