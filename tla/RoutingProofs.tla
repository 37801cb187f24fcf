--------------------------- MODULE RoutingProofs ---------------------------
(***************************************************************************)
(* Proofs about Routing, for any number of nodes, requests and breakers.   *)
(***************************************************************************)
EXTENDS Routing, FiniteSetTheorems, TLAPS

\* What the handlers' and the health thread's program counters imply about
\* their locals.
LocalsOK ==
    /\ \A r \in Requests :
         /\ pc[r] \in {"idle", "retry", "record"} => r \notin held
         /\ pc[r] = "idle"  => attempts[r] = 0
         /\ pc[r] = "retry" => attempts[r] < MaxAttempts
         /\ pc[r] # "idle"  => node[r] \in Nodes
         /\ r \in held         => node[r] \in Nodes
    /\ hpc \notin {"cycle", "snapshot"} => hnode \in Nodes
    /\ hpc \in {"tryhalf"} \cup TrialPCs => hbreaker \in Breakers
    /\ hpc \notin {"tryhalf"} \cup TrialPCs => hbreaker = NoBreaker

USE DEF Absent, Liveness, Idle, Protected, Status

\* The breaker operations keep a breaker's type; none but try_half_open makes one
\* HALF_OPEN.
LEMMA BreakerOps ==
    ASSUME NEW b \in BreakerType
    PROVE  /\ NewBreaker \in BreakerType /\ NewBreaker.state # "half_open"
           /\ AfterFailure(b) \in BreakerType /\ AfterFailure(b).state # "half_open"
           /\ AfterSuccess(b) \in BreakerType /\ AfterSuccess(b).state # "half_open"
           /\ AfterHalfOpen(b) \in BreakerType
           /\ AfterReopen(b) \in BreakerType /\ AfterReopen(b).state # "half_open"
  BY RoutingAssumption
     DEF BreakerType, BreakerStates, NewBreaker, AfterFailure, AfterSuccess, AfterHalfOpen,
         AfterReopen

\* What recording on a node's breaker does to the two breaker variables.
LEMMA RecordType ==
    ASSUME TypeOK, NEW n \in Nodes, NEW b \in BreakerType, Record(n, b)
    PROVE  /\ BreakerId(n) \in Breakers
           /\ BreakerValue(n) \in BreakerType
           /\ breakerOf' \in [Nodes -> Breakers \cup {NoBreaker}]
           /\ breaker' \in [Breakers -> BreakerType]
           /\ \A c \in Breakers : breaker'[c] \in {breaker[c], b}
  <1>1. BreakerId(n) \in Breakers
    BY DEF Record, BreakerId, TypeOK
  <1>2. BreakerValue(n) \in BreakerType
    BY RoutingAssumption DEF BreakerValue, TypeOK, BreakerType, NewBreaker, BreakerStates
  <1> QED
    BY <1>1, <1>2 DEF Record, TypeOK

\* The value a breaker has before it records something is well typed.
LEMMA BreakerValueType ==
    ASSUME TypeOK, NEW n \in Nodes
    PROVE  BreakerValue(n) \in BreakerType
  BY RoutingAssumption DEF BreakerValue, TypeOK, BreakerType, NewBreaker, BreakerStates

\* The invariant's parts that need no counting hold initially.
LEMMA InitInv == Init => TypeOK /\ LocalsOK /\ HalfOpenOwned
  <1> SUFFICES ASSUME Init PROVE TypeOK /\ LocalsOK /\ HalfOpenOwned
    OBVIOUS
  <1> USE RoutingAssumption DEF Init, PCs, Suspended, HPCs, TrialPCs
  <1>1. NewBreaker \in BreakerType /\ NewBreaker.state # "half_open"
    BY DEF NewBreaker, BreakerType, BreakerStates
  <1>2. TypeOK
    <2>1. status \in [Nodes -> Status \cup {Absent}]
      OBVIOUS
    <2>2. counts \in [Nodes -> Nat] /\ probeFails \in [Nodes -> 0..HealthThreshold]
      OBVIOUS
    <2>3. attempts \in [Requests -> 0..MaxAttempts]
      OBVIOUS
    <2>4. breaker \in [Breakers -> BreakerType]
      BY <1>1
    <2> QED
      BY <2>1, <2>2, <2>3, <2>4 DEF TypeOK
  <1>3. LocalsOK
    BY DEF LocalsOK
  <1>4. HalfOpenOwned
    BY <1>1 DEF HalfOpenOwned
  <1> QED
    BY <1>2, <1>3, <1>4

(***************************************************************************)
(* Types of the composite effects                                          *)
(***************************************************************************)
RegistryType ==
    /\ status     \in [Nodes -> Status \cup {Absent}]
    /\ breakerOf  \in [Nodes -> Breakers \cup {NoBreaker}]
    /\ probeFails \in [Nodes -> 0..HealthThreshold]

HandlerType ==
    /\ pc       \in [Requests -> PCs]
    /\ node     \in [Requests -> Nodes \cup {NoNode}]
    /\ excluded \in [Requests -> SUBSET Nodes]
    /\ attempts \in [Requests -> 0..MaxAttempts]

\* Removing nodes keeps the registry's types.
LEMMA RemoveNodesType ==
    ASSUME TypeOK, NEW S, RemoveNodes(S)
    PROVE  RegistryType'
  BY RoutingAssumption DEF TypeOK, RemoveNodes, RegistryType

\* A release keeps the types of the counters, the reservations and the registry, and
\* takes at most its own count away: the swept nodes' counts are already 0.
LEMMA ReleasedEffect ==
    ASSUME TypeOK, LocalsOK, NEW r \in Requests, Released(r)
    PROVE  /\ RegistryType'
           /\ counts' \in [Nodes -> Nat]
           /\ held' = held \ {r}
           /\ \A n \in Nodes :
                 counts'[n] = IF r \in held /\ node[r] = n /\ counts[n] > 0
                                THEN counts[n] - 1 ELSE counts[n]
  <1> DEFINE c == IF r \in held /\ counts[node[r]] > 0
                    THEN [counts EXCEPT ![node[r]] = @ - 1] ELSE counts
  <1>1. c \in [Nodes -> Nat]
    BY DEF TypeOK, LocalsOK
  <1>2. RegistryType'
    BY RemoveNodesType DEF Released
  <1>3. counts' = [m \in Nodes |-> IF r \in held /\ m \in Drained(c) THEN 0 ELSE c[m]]
    BY DEF Released
  <1>4. \A m \in Nodes : counts'[m] = c[m]
    BY <1>3 DEF Drained
  <1>5. counts' \in [Nodes -> Nat]
    BY <1>1, <1>3
  <1>6. \A n \in Nodes : c[n] = IF r \in held /\ node[r] = n /\ counts[n] > 0
                                  THEN counts[n] - 1 ELSE counts[n]
    BY DEF TypeOK, LocalsOK
  <1> QED
    BY <1>2, <1>4, <1>5, <1>6 DEF Released

\* Returning from a handler, or going on to the next attempt, keeps its locals' types.
LEMMA ContinuedType ==
    ASSUME TypeOK, NEW r \in Requests, Finished(r) \/ Continued(r) \/ AfterTrip(r)
    PROVE  HandlerType'
  <1>1. CASE Finished(r)
    BY <1>1, RoutingAssumption DEF TypeOK, Finished, Moved, HandlerType, PCs, Suspended
  <1>2. CASE Continued(r)
    BY <1>1, <1>2 DEF TypeOK, Continued, Moved, HandlerType, PCs, Suspended
  <1>3. CASE AfterTrip(r)
    BY <1>2, <1>3 DEF TypeOK, AfterTrip, Moved, HandlerType, PCs, Suspended
  <1> QED
    BY <1>1, <1>2, <1>3

\* Recording a failure keeps the types.
LEMMA RecordFailureType ==
    ASSUME TypeOK, LocalsOK, NEW r \in Requests, node[r] \in Nodes, RecordFailure(r),
           excluded' \in [Requests -> SUBSET Nodes]
    PROVE  TypeOK'
  <1>1. BreakerValue(node[r]) \in BreakerType
    BY BreakerValueType
  <1>2. AfterFailure(BreakerValue(node[r])) \in BreakerType
    BY <1>1, BreakerOps
  <1>3. /\ BreakerId(node[r]) \in Breakers
        /\ breakerOf' \in [Nodes -> Breakers \cup {NoBreaker}]
        /\ breaker' \in [Breakers -> BreakerType]
    BY <1>2, RecordType DEF RecordFailure
  <1> QED
    BY <1>3 DEF RecordFailure, TypeOK, Moved, PCs, Suspended, healthVars

(***************************************************************************)
(* Every step preserves TypeOK                                             *)
(***************************************************************************)
\* A step of a request handler keeps every type; the attempt budget bounds Reserve.
LEMMA RequestKeepsType ==
    ASSUME TypeOK, LocalsOK, NEW r \in Requests, RequestStep(r)
    PROVE  TypeOK'
  <1> USE DEF registryVars, requestVars, healthVars
  <1>a. TypeOK => RegistryType /\ HandlerType
    BY DEF TypeOK, RegistryType, HandlerType
  <1>1. CASE Reserve(r)
    <2> PICK n \in LeastLoaded(r) : /\ counts' = [counts EXCEPT ![n] = @ + 1]
                                   /\ node' = [node EXCEPT ![r] = n]
      BY <1>1 DEF Reserve
    <2>1. n \in Nodes
      BY RoutingAssumption DEF LeastLoaded, Candidates
    <2>2. attempts[r] + 1 \in 0..MaxAttempts
      BY <1>1, RoutingAssumption DEF Reserve, LocalsOK, TypeOK
    <2> QED
      BY <1>1, <2>1, <2>2 DEF Reserve, TypeOK, Moved, PCs, Suspended
  <1>2. CASE GiveUp(r)
    BY <1>2, ContinuedType DEF GiveUp, TypeOK, HandlerType
  <1>3. CASE Succeed(r) \/ StreamDone(r)
    <2>1. node[r] \in Nodes
      BY <1>3 DEF Succeed, StreamDone, LocalsOK
    <2>2. AfterSuccess(BreakerValue(node[r])) \in BreakerType
      BY <2>1, BreakerValueType, BreakerOps
    <2>3. /\ breakerOf' \in [Nodes -> Breakers \cup {NoBreaker}]
          /\ breaker' \in [Breakers -> BreakerType]
      BY <1>3, <2>1, <2>2, RecordType DEF Succeed, StreamDone
    <2> QED
      BY <1>3, <2>3 DEF Succeed, StreamDone, TypeOK, Moved, PCs, Suspended
  <1>4. CASE Respond(r) \/ ReleaseFailed(r)
    <2>1. HandlerType'
      BY <1>4, ContinuedType DEF Respond, ReleaseFailed
    <2>2. RegistryType' /\ counts' \in [Nodes -> Nat] /\ held' = held \ {r}
      BY <1>4, ReleasedEffect DEF Respond, ReleaseFailed
    <2> QED
      BY <1>4, <2>1, <2>2 DEF Respond, ReleaseFailed, TypeOK, HandlerType, RegistryType
  <1>5. CASE \E retryable \in BOOLEAN : Fail(r, retryable)
    <2> PICK retryable \in BOOLEAN : Fail(r, retryable)
      BY <1>5
    <2>1. node[r] \in Nodes
      BY DEF Fail, LocalsOK
    <2>2. excluded' \in [Requests -> SUBSET Nodes]
      BY <2>1 DEF Fail, TypeOK
    <2> QED
      BY <2>1, <2>2, RecordFailureType DEF Fail
  <1>6. CASE RecordHandshake(r) \/ StreamFail(r)
    <2>1. node[r] \in Nodes
      BY <1>6 DEF RecordHandshake, StreamFail, LocalsOK
    <2> QED
      BY <1>6, <2>1, RecordFailureType DEF RecordHandshake, StreamFail, TypeOK
  <1>7. CASE CheckOpen(r)
    <2>1. HandlerType'
      BY <1>7, <1>a, ContinuedType DEF CheckOpen, HandlerType, Moved, PCs
    <2> QED
      BY <1>7, <2>1 DEF CheckOpen, TypeOK, HandlerType
  <1>8. CASE Trip(r)
    <2>1. HandlerType'
      BY <1>8, ContinuedType DEF Trip
    <2> QED
      BY <1>8, <2>1 DEF Trip, TypeOK, HandlerType, Updated
  <1>9. CASE \E retryable \in BOOLEAN : HandshakeFail(r, retryable)
    <2> PICK retryable \in BOOLEAN : HandshakeFail(r, retryable)
      BY <1>9
    <2>1. node[r] \in Nodes
      BY DEF HandshakeFail, LocalsOK
    <2> QED
      BY <2>1 DEF HandshakeFail, TypeOK, Moved, PCs, Suspended
  <1>10. CASE ReleaseHandshake(r)
    <2>1. RegistryType' /\ counts' \in [Nodes -> Nat] /\ held' = held \ {r}
      BY <1>10, ReleasedEffect DEF ReleaseHandshake
    <2> QED
      BY <1>10, <2>1 DEF ReleaseHandshake, TypeOK, RegistryType, Moved, PCs
  <1>11. CASE HandshakeRejected(r) \/ HandshakeOk(r)
    BY <1>11 DEF HandshakeRejected, HandshakeOk, TypeOK, Moved, PCs, Suspended
  <1>12. CASE StreamEnd(r)
    BY <1>12 DEF StreamEnd, TypeOK, Moved, PCs, Suspended
  <1>13. CASE \E f \in {"generator", "background"} : CloseSession(r, f)
    BY <1>13 DEF CloseSession, TypeOK, Moved, PCs, Suspended
  <1>14. CASE CloseTask(r)
    <2>1. RegistryType' /\ counts' \in [Nodes -> Nat] /\ held' = held \ {r}
      BY <1>14, ReleasedEffect DEF CloseTask
    <2> QED
      BY <1>14, <2>1 DEF CloseTask, TypeOK, RegistryType
  <1>15. CASE StreamClosed(r)
    BY <1>15, ContinuedType DEF StreamClosed, TypeOK, HandlerType
  <1> QED
    BY <1>1, <1>2, <1>3, <1>4, <1>5, <1>6, <1>7, <1>8, <1>9, <1>10, <1>11, <1>12, <1>13,
       <1>14, <1>15
       DEF RequestStep, NonStreamingStep, StreamingStep

\* So does a step of the health thread, the saturated failure counts included.
LEMMA HealthKeepsType ==
    ASSUME TypeOK, LocalsOK, HealthStep
    PROVE  TypeOK'
  <1> USE DEF registryVars, requestVars, healthVars, HealthAt, HealthGoes, HealthNext,
              HealthOnly
  <1>1. CASE HealthSweep
    <2>1. RegistryType'
      BY <1>1, RemoveNodesType DEF HealthSweep
    <2> QED
      BY <1>1, <2>1 DEF HealthSweep, TypeOK, RegistryType, HPCs
  <1>2. CASE HealthSnapshot
    BY <1>2 DEF HealthSnapshot, TypeOK, HPCs
  <1>3. ASSUME NEW n \in Nodes, ProbeAlive(n) PROVE TypeOK'
    BY <1>3, RoutingAssumption DEF ProbeAlive, TypeOK, HPCs
  <1>4. ASSUME NEW n \in Nodes, ProbeFailed(n) PROVE TypeOK'
    BY <1>4, RoutingAssumption DEF ProbeFailed, TypeOK, HPCs
  <1>5. CASE Demote \/ Promote
    BY <1>5 DEF Demote, Promote, TypeOK, HPCs, Updated
  <1>6. CASE ReadStatus
    BY <1>6 DEF ReadStatus, TypeOK, HPCs
  <1>7. CASE ReadBreaker
    BY <1>7 DEF ReadBreaker, TypeOK, HPCs, LocalsOK
  <1>8. CASE TryHalfOpen \/ TrialSkipped \/ TrialFailed \/ Recovered \/ Changed
    <2>1. hbreaker \in Breakers /\ breaker[hbreaker] \in BreakerType
      BY <1>8 DEF TryHalfOpen, TrialSkipped, TrialFailed, Recovered, Changed, LocalsOK,
                  TrialPCs, TypeOK
    <2>2. breaker' \in [Breakers -> BreakerType]
      BY <1>8, <2>1, BreakerOps
         DEF TryHalfOpen, TrialSkipped, TrialFailed, Recovered, Changed, TypeOK
    <2> QED
      BY <1>8, <2>2
         DEF TryHalfOpen, TrialSkipped, TrialFailed, Recovered, Changed, TypeOK, HPCs
  <1>9. CASE TrialOk
    BY <1>9 DEF TrialOk, TypeOK, HPCs, Updated
  <1> QED
    BY <1>1, <1>2, <1>3, <1>4, <1>5, <1>6, <1>7, <1>8, <1>9 DEF HealthStep

\* So does a discovery event or a lifecycle operation.
LEMMA DiscoveryKeepsType ==
    ASSUME TypeOK, DiscoveryStep
    PROVE  TypeOK'
  <1> USE RoutingAssumption DEF registryVars, requestVars, healthVars, RegistryOnly
  <1> PICK n \in Churning : \/ \E s \in DiscoveredStatuses : Discover(n, s)
                            \/ DrainNode(n)
                            \/ \E s \in AddedStatuses : Add(n, s)
                            \/ Deregister(n)
                            \/ RemoveAvailable(n)
    BY DEF DiscoveryStep
  <1>1. CASE \E s \in DiscoveredStatuses : Discover(n, s)
    BY <1>1 DEF Discover, TypeOK, Merged
  <1>2. CASE DrainNode(n)
    BY <1>2 DEF DrainNode, TypeOK
  <1>3. CASE \E s \in AddedStatuses : Add(n, s)
    BY <1>3 DEF Add, TypeOK
  <1>4. CASE Deregister(n) \/ RemoveAvailable(n)
    <2>1. RegistryType'
      BY <1>4, RemoveNodesType DEF Deregister, RemoveAvailable
    <2> QED
      BY <1>4, <2>1 DEF Deregister, RemoveAvailable, TypeOK, RegistryType
  <1> QED
    BY <1>1, <1>2, <1>3, <1>4

(***************************************************************************)
(* Every step preserves LocalsOK                                           *)
(***************************************************************************)
\* A request handler keeps its own reservation and the shared locals consistent.
LEMMA RequestKeepsLocals ==
    ASSUME TypeOK, LocalsOK, NEW r \in Requests, RequestStep(r)
    PROVE  LocalsOK'
  <1> USE DEF healthVars
  <1>a. UNCHANGED healthVars
    BY DEF RequestStep, NonStreamingStep, StreamingStep, Reserve, GiveUp, CheckOpen, Trip,
           Succeed, Respond, Fail, RecordFailure, ReleaseFailed, HandshakeFail,
           ReleaseHandshake, RecordHandshake, HandshakeRejected, HandshakeOk, StreamDone,
           StreamEnd, StreamFail, CloseSession, CloseTask, StreamClosed
  <1> SUFFICES \A q \in Requests :
                 /\ pc'[q] \in {"idle", "retry", "record"} => q \notin held'
                 /\ pc'[q] = "idle"  => attempts'[q] = 0
                 /\ pc'[q] = "retry" => attempts'[q] < MaxAttempts
                 /\ pc'[q] # "idle"  => node'[q] \in Nodes
                 /\ q \in held'      => node'[q] \in Nodes
    BY <1>a DEF LocalsOK, TrialPCs
  <1> USE DEF TypeOK, LocalsOK, Moved
  <1>1. CASE Reserve(r)
    <2> PICK n \in LeastLoaded(r) : node' = [node EXCEPT ![r] = n]
      BY <1>1 DEF Reserve
    <2>1. n \in Nodes
      BY RoutingAssumption DEF LeastLoaded, Candidates
    <2> QED
      BY <1>1, <2>1 DEF Reserve
  <1>2. CASE GiveUp(r)
    BY <1>2 DEF GiveUp, Finished
  <1>3. CASE Succeed(r) \/ StreamDone(r)
    BY <1>3 DEF Succeed, StreamDone
  <1>4. CASE Respond(r)
    BY <1>4 DEF Respond, Released, Finished
  <1>5. CASE ReleaseFailed(r)
    BY <1>5 DEF ReleaseFailed, Released, Continued, Finished
  <1>6. CASE \/ \E retryable \in BOOLEAN : Fail(r, retryable)
             \/ RecordHandshake(r) \/ StreamFail(r)
    BY <1>6 DEF Fail, RecordHandshake, StreamFail, RecordFailure
  <1>7. CASE CheckOpen(r)
    BY <1>7 DEF CheckOpen, AfterTrip, Continued, Finished
  <1>8. CASE Trip(r)
    BY <1>8 DEF Trip, AfterTrip, Continued, Finished
  <1>9. CASE \E retryable \in BOOLEAN : HandshakeFail(r, retryable)
    BY <1>9 DEF HandshakeFail
  <1>10. CASE ReleaseHandshake(r)
    BY <1>10 DEF ReleaseHandshake, Released
  <1>11. CASE HandshakeRejected(r) \/ HandshakeOk(r) \/ StreamEnd(r)
    BY <1>11 DEF HandshakeRejected, HandshakeOk, StreamEnd
  <1>12. CASE \E f \in {"generator", "background"} : CloseSession(r, f)
    BY <1>12 DEF CloseSession
  <1>13. CASE CloseTask(r)
    BY <1>13 DEF CloseTask, Released
  <1>14. CASE StreamClosed(r)
    BY <1>14 DEF StreamClosed, Finished
  <1> QED
    BY <1>1, <1>2, <1>3, <1>4, <1>5, <1>6, <1>7, <1>8, <1>9, <1>10, <1>11, <1>12, <1>13, <1>14
       DEF RequestStep, NonStreamingStep, StreamingStep

\* The health thread holds a node and a breaker exactly where its steps use them.
LEMMA HealthKeepsLocals ==
    ASSUME TypeOK, LocalsOK, HealthStep
    PROVE  LocalsOK'
  <1> USE DEF HealthAt, HealthGoes, HealthNext, HealthOnly, requestVars
  <1>a. UNCHANGED requestVars
    BY DEF HealthStep, HealthSweep, HealthSnapshot, ProbeAlive, ProbeFailed, Demote, ReadStatus,
           ReadBreaker, Promote, TryHalfOpen, TrialSkipped, TrialFailed, TrialOk, Recovered,
           Changed
  <1> SUFFICES /\ hpc' \notin {"cycle", "snapshot"} => hnode' \in Nodes
               /\ hpc' \in {"tryhalf"} \cup TrialPCs => hbreaker' \in Breakers
               /\ hpc' \notin {"tryhalf"} \cup TrialPCs => hbreaker' = NoBreaker
    BY <1>a DEF LocalsOK
  <1> USE DEF TypeOK, LocalsOK, TrialPCs
  <1>1. CASE HealthSweep \/ HealthSnapshot \/ Demote \/ ReadStatus \/ Promote
    BY <1>1 DEF HealthSweep, HealthSnapshot, Demote, ReadStatus, Promote
  <1>2. CASE \E n \in Nodes : ProbeAlive(n) \/ ProbeFailed(n)
    BY <1>2 DEF ProbeAlive, ProbeFailed
  <1>3. CASE ReadBreaker
    BY <1>3 DEF ReadBreaker
  <1>4. CASE TryHalfOpen \/ TrialSkipped \/ TrialFailed
    BY <1>4 DEF TryHalfOpen, TrialSkipped, TrialFailed
  <1>5. CASE TrialOk \/ Recovered \/ Changed
    BY <1>5 DEF TrialOk, Recovered, Changed
  <1> QED
    BY <1>1, <1>2, <1>3, <1>4, <1>5 DEF HealthStep

(***************************************************************************)
(* Every step preserves HalfOpenOwned                                      *)
(***************************************************************************)

\* A request never leaves a breaker HALF_OPEN that was not.
LEMMA RequestKeepsHalfOpen ==
    ASSUME TypeOK, LocalsOK, HalfOpenOwned, NEW r \in Requests, RequestStep(r)
    PROVE  HalfOpenOwned'
  <1> USE DEF registryVars, healthVars
  <1>1. CASE \/ Succeed(r) \/ StreamDone(r) \/ RecordHandshake(r) \/ StreamFail(r)
             \/ \E retryable \in BOOLEAN : Fail(r, retryable)
    <2>1. node[r] \in Nodes
      BY <1>1 DEF Succeed, StreamDone, RecordHandshake, StreamFail, Fail, LocalsOK
    <2>2. BreakerValue(node[r]) \in BreakerType
      BY <2>1, BreakerValueType
    <2>3. PICK b \in BreakerType : Record(node[r], b) /\ b.state # "half_open"
      BY <1>1, <2>2, BreakerOps
         DEF Succeed, StreamDone, RecordHandshake, StreamFail, Fail, RecordFailure
    <2>4. \A c \in Breakers : breaker'[c] \in {breaker[c], b}
      BY <2>1, <2>3, RecordType
    <2>5. UNCHANGED healthVars
      BY <1>1 DEF Succeed, StreamDone, RecordHandshake, StreamFail, Fail, RecordFailure
    <2> QED
      BY <2>3, <2>4, <2>5 DEF HalfOpenOwned
  <1>2. CASE UNCHANGED <<breaker, healthVars>>
    BY <1>2 DEF HalfOpenOwned
  <1> QED
    BY <1>1, <1>2
       DEF RequestStep, NonStreamingStep, StreamingStep, Reserve, GiveUp, CheckOpen, Trip,
           Respond, ReleaseFailed, HandshakeFail, ReleaseHandshake, HandshakeRejected,
           HandshakeOk, StreamEnd, CloseSession, CloseTask, StreamClosed

\* The health thread lets go of a breaker only after closing or reopening it.
LEMMA HealthKeepsHalfOpen ==
    ASSUME TypeOK, LocalsOK, HalfOpenOwned, HealthStep
    PROVE  HalfOpenOwned'
  <1> USE DEF HealthAt, HealthGoes, HealthNext, HealthOnly, TrialPCs
  <1>1. CASE HealthSweep \/ HealthSnapshot \/ Demote \/ ReadStatus \/ Promote \/ ReadBreaker
             \/ \E n \in Nodes : ProbeAlive(n) \/ ProbeFailed(n)
    BY <1>1 DEF HealthSweep, HealthSnapshot, Demote, ReadStatus, Promote, ReadBreaker,
                ProbeAlive, ProbeFailed, HalfOpenOwned
  <1>2. CASE TryHalfOpen
    BY <1>2 DEF TryHalfOpen, HalfOpenOwned, AfterHalfOpen, TypeOK, LocalsOK, BreakerType
  <1>3. CASE TrialSkipped \/ TrialFailed \/ Recovered \/ Changed
    <2>1. hbreaker \in Breakers /\ breaker[hbreaker] \in BreakerType
      BY <1>3 DEF TrialSkipped, TrialFailed, Recovered, Changed, LocalsOK, TypeOK
    <2>2. breaker'[hbreaker].state # "half_open"
      BY <1>3, <2>1, BreakerOps DEF TrialSkipped, TrialFailed, Recovered, Changed, TypeOK
    <2> QED
      BY <1>3, <2>1, <2>2 DEF TrialSkipped, TrialFailed, Recovered, Changed, HalfOpenOwned, TypeOK
  <1>4. CASE TrialOk
    BY <1>4 DEF TrialOk, HalfOpenOwned
  <1> QED
    BY <1>1, <1>2, <1>3, <1>4 DEF HealthStep

(***************************************************************************)
(* The connection counters                                                 *)
(***************************************************************************)
Counting ==
    \A n \in Nodes : /\ counts[n] <= Cardinality(Holders(n))
                     /\ n \notin Removable => counts[n] = Cardinality(Holders(n))

\* The holders of a node are finitely many requests.
LEMMA HoldersFinite ==
    ASSUME TypeOK, NEW n
    PROVE  IsFiniteSet(Holders(n)) /\ Cardinality(Holders(n)) \in Nat
  <1>1. Holders(n) \subseteq Requests
    BY DEF Holders, TypeOK
  <1>2. IsFiniteSet(Requests)
    BY RoutingAssumption
  <1> QED
    BY <1>1, <1>2, FS_Subset, FS_CardinalityType

\* A step that touches neither the reservations nor the counters keeps Counting.
LEMMA QuietCounting ==
    ASSUME Counting, held' = held, counts' = counts,
           \A q \in held : node'[q] = node[q]
    PROVE  Counting'
  <1>1. \A n : Holders(n)' = Holders(n)
    BY DEF Holders
  <1> QED
    BY <1>1 DEF Counting

\* A new reservation adds itself to the holders of its node.
LEMMA ReserveCounting ==
    ASSUME TypeOK, LocalsOK, Counting, NEW r \in Requests, Reserve(r)
    PROVE  Counting'
  <1> PICK n \in LeastLoaded(r) : /\ counts' = [counts EXCEPT ![n] = @ + 1]
                                 /\ node' = [node EXCEPT ![r] = n]
    BY DEF Reserve
  <1>1. n \in Nodes /\ r \notin held /\ held' = held \cup {r}
    BY RoutingAssumption DEF LeastLoaded, Candidates, Reserve, LocalsOK
  <1>2. Holders(n)' = Holders(n) \cup {r} /\ r \notin Holders(n)
    BY <1>1 DEF Holders, TypeOK
  <1>3. \A m \in Nodes \ {n} : Holders(m)' = Holders(m)
    BY <1>1 DEF Holders, TypeOK
  <1>4. Cardinality(Holders(n)') = Cardinality(Holders(n)) + 1
    BY <1>2, HoldersFinite, FS_AddElement
  <1>5. counts'[n] = counts[n] + 1 /\ \A m \in Nodes \ {n} : counts'[m] = counts[m]
    BY <1>1 DEF TypeOK
  <1>6. counts[n] \in Nat /\ Cardinality(Holders(n)) \in Nat
    BY <1>1, HoldersFinite DEF TypeOK
  <1>7. /\ counts'[n] <= Cardinality(Holders(n)')
        /\ n \notin Removable => counts'[n] = Cardinality(Holders(n)')
    BY <1>1, <1>4, <1>5, <1>6 DEF Counting
  <1>8. \A m \in Nodes \ {n} : /\ counts'[m] <= Cardinality(Holders(m)')
                               /\ m \notin Removable => counts'[m] = Cardinality(Holders(m)')
    BY <1>3, <1>5 DEF Counting
  <1> QED
    BY <1>7, <1>8 DEF Counting

\* A release takes itself away, whatever becomes of the handler's own node variable.
LEMMA ReleaseCounting ==
    ASSUME TypeOK, LocalsOK, Counting, NEW r \in Requests, Released(r),
           \A q \in Requests \ {r} : node'[q] = node[q]
    PROVE  Counting'
  <1>1. held' = held \ {r}
    BY DEF Released
  <1>2. \A n \in Nodes : counts'[n] = IF r \in held /\ node[r] = n /\ counts[n] > 0
                                        THEN counts[n] - 1 ELSE counts[n]
    BY ReleasedEffect
  <1> SUFFICES ASSUME NEW n \in Nodes
               PROVE  /\ counts'[n] <= Cardinality(Holders(n)')
                      /\ n \notin Removable => counts'[n] = Cardinality(Holders(n)')
    BY DEF Counting
  <1>3. counts[n] \in Nat /\ Cardinality(Holders(n)) \in Nat /\ IsFiniteSet(Holders(n))
    BY HoldersFinite DEF TypeOK
  <1>4. /\ counts[n] <= Cardinality(Holders(n))
        /\ n \notin Removable => counts[n] = Cardinality(Holders(n))
    BY DEF Counting
  <1>5. CASE r \in held /\ node[r] = n
    <2>1. Holders(n)' = Holders(n) \ {r} /\ r \in Holders(n)
      BY <1>1, <1>5 DEF Holders, TypeOK
    <2>2. Cardinality(Holders(n)') = Cardinality(Holders(n)) - 1
      BY <1>3, <2>1, FS_RemoveElement
    <2>3. Cardinality(Holders(n)) > 0
      BY <1>3, <2>1, FS_EmptySet
    <2> QED
      BY <1>2, <1>3, <1>4, <1>5, <2>2, <2>3
  <1>6. CASE ~(r \in held /\ node[r] = n)
    <2>1. Holders(n)' = Holders(n)
      BY <1>1, <1>6 DEF Holders, TypeOK
    <2>2. counts'[n] = counts[n]
      BY <1>2, <1>6
    <2> QED
      BY <1>4, <2>1, <2>2
  <1> QED
    BY <1>5, <1>6

\* Reservation and release are the only request steps that move a counter.
LEMMA RequestKeepsCounting ==
    ASSUME TypeOK, LocalsOK, Counting, NEW r \in Requests, RequestStep(r)
    PROVE  Counting'
  <1>1. CASE Reserve(r)
    BY <1>1, ReserveCounting
  <1>2. CASE Respond(r) \/ ReleaseFailed(r) \/ ReleaseHandshake(r) \/ CloseTask(r)
    <2>1. Released(r)
      BY <1>2 DEF Respond, ReleaseFailed, ReleaseHandshake, CloseTask
    <2>2. \A q \in Requests \ {r} : node'[q] = node[q]
      BY <1>2 DEF Respond, ReleaseFailed, ReleaseHandshake, CloseTask, Continued, Finished,
                  TypeOK
    <2> QED
      BY <2>1, <2>2, ReleaseCounting
  <1>3. CASE GiveUp(r) \/ StreamClosed(r) \/ CheckOpen(r) \/ Trip(r)
    <2>1. held' = held /\ counts' = counts
      BY <1>3 DEF GiveUp, StreamClosed, CheckOpen, Trip
    <2>2. \A q \in held : node'[q] = node[q]
      BY <1>3 DEF GiveUp, StreamClosed, CheckOpen, Trip, AfterTrip, Continued, Finished, Moved,
                  TypeOK, LocalsOK
    <2> QED
      BY <2>1, <2>2, QuietCounting
  <1>4. CASE \/ Succeed(r) \/ StreamDone(r) \/ RecordHandshake(r) \/ StreamFail(r)
             \/ \E retryable \in BOOLEAN : Fail(r, retryable) \/ HandshakeFail(r, retryable)
             \/ HandshakeRejected(r) \/ HandshakeOk(r) \/ StreamEnd(r)
             \/ \E f \in {"generator", "background"} : CloseSession(r, f)
    <2>1. held' = held /\ counts' = counts /\ node' = node
      BY <1>4 DEF Succeed, StreamDone, RecordHandshake, StreamFail, Fail, RecordFailure,
                  HandshakeFail, HandshakeRejected, HandshakeOk, StreamEnd, CloseSession
    <2> QED
      BY <2>1, QuietCounting
  <1> QED
    BY <1>1, <1>2, <1>3, <1>4 DEF RequestStep, NonStreamingStep, StreamingStep

\* Sweeps drop counters that are 0; only remove_available drops one that is not.
LEMMA OthersKeepCounting ==
    ASSUME TypeOK, Counting, HealthStep \/ DiscoveryStep
    PROVE  Counting'
  <1>1. CASE HealthStep
    <2>1. held' = held /\ counts' = counts /\ node' = node
      BY <1>1 DEF HealthStep, HealthSweep, HealthSnapshot, ProbeAlive, ProbeFailed, Demote,
             ReadStatus, ReadBreaker, Promote, TryHalfOpen, TrialSkipped, TrialFailed, TrialOk,
             Recovered, Changed, HealthOnly, requestVars
    <2> QED
      BY <2>1, QuietCounting
  <1>2. ASSUME NEW n \in Nodes, RemoveAvailable(n) PROVE Counting'
    <2>1. held' = held /\ node' = node /\ n \in Removable
      BY <1>2 DEF RemoveAvailable, requestVars
    <2>2. \A m : Holders(m)' = Holders(m)
      BY <2>1 DEF Holders
    <2>3. counts'[n] = 0 /\ \A m \in Nodes \ {n} : counts'[m] = counts[m]
      BY <1>2 DEF RemoveAvailable, TypeOK
    <2>4. 0 <= Cardinality(Holders(n))
      BY HoldersFinite
    <2> QED
      BY <2>1, <2>2, <2>3, <2>4 DEF Counting
  <1>3. CASE DiscoveryStep /\ held' = held /\ counts' = counts /\ node' = node
    BY <1>3, QuietCounting
  <1> QED
    BY <1>1, <1>2, <1>3, RoutingAssumption
       DEF DiscoveryStep, Discover, DrainNode, Add, Deregister, RegistryOnly, requestVars

(***************************************************************************)
(* The theorems                                                            *)
(***************************************************************************)
Inv == TypeOK /\ LocalsOK /\ HalfOpenOwned /\ Counting

\* No reservation and no count exists initially.
LEMMA InitCounting == Init => Counting
  <1> SUFFICES ASSUME Init PROVE Counting
    OBVIOUS
  <1>1. \A n \in Nodes : Holders(n) = {} /\ counts[n] = 0
    BY DEF Init, Holders
  <1> QED
    BY <1>1, FS_EmptySet DEF Counting

\* Inv is inductive.
LEMMA StepInv ==
    ASSUME Inv, [Next]_vars
    PROVE  Inv'
  <1>1. ASSUME NEW r \in Requests, RequestStep(r) PROVE Inv'
    BY <1>1, RequestKeepsType, RequestKeepsLocals, RequestKeepsHalfOpen, RequestKeepsCounting
       DEF Inv
  <1>2. CASE HealthStep
    BY <1>2, HealthKeepsType, HealthKeepsLocals, HealthKeepsHalfOpen, OthersKeepCounting
       DEF Inv
  <1>3. CASE DiscoveryStep
    <2>1. UNCHANGED <<breaker, requestVars, healthVars>>
      BY <1>3 DEF DiscoveryStep, Discover, DrainNode, Add, Deregister, RemoveAvailable,
                  RegistryOnly
    <2>2. LocalsOK' /\ HalfOpenOwned'
      BY <2>1 DEF Inv, LocalsOK, HalfOpenOwned, requestVars, healthVars
    <2> QED
      BY <1>3, <2>2, DiscoveryKeepsType, OthersKeepCounting DEF Inv
  <1>4. CASE UNCHANGED vars
    BY <1>4, QuietCounting
       DEF Inv, TypeOK, LocalsOK, HalfOpenOwned, vars, registryVars, requestVars, healthVars
  <1> QED
    BY <1>1, <1>2, <1>3, <1>4 DEF Next

\* The inductive invariant holds in every reachable state.
THEOREM InvHolds == Spec => []Inv
  <1>1. Init => Inv
    BY InitInv, InitCounting DEF Inv
  <1>2. Inv /\ [Next]_vars => Inv'
    BY StepInv
  <1> QED
    BY <1>1, <1>2, PTL DEF Spec

\* The variables of the routing core keep their types: in particular no request makes
\* more than MaxAttempts attempts and no counter becomes negative.
THEOREM TypeCorrect == Spec => []TypeOK
  <1>1. Inv => TypeOK
    BY DEF Inv
  <1> QED
    BY <1>1, InvHolds, PTL

\* No breaker is left HALF_OPEN without a trial of the health thread under way.
THEOREM HalfOpenIsOwned == Spec => []HalfOpenOwned
  <1>1. Inv => HalfOpenOwned
    BY DEF Inv
  <1> QED
    BY <1>1, InvHolds, PTL

\* The connection counter of a node that cannot be removed while it serves is exactly
\* the number of its live reservations.
THEOREM CountersExact == Spec => []ReservationsCounted
  <1>1. Inv => ReservationsCounted
    BY DEF Inv, Counting, ReservationsCounted
  <1> QED
    BY <1>1, InvHolds, PTL

\* No node, self-setup ones included, is ever charged for more reservations than it has.
THEOREM CountersNeverOver == Spec => []NeverOverCounted
  <1>1. Inv => NeverOverCounted
    BY DEF Inv, Counting, NeverOverCounted
  <1> QED
    BY <1>1, InvHolds, PTL

\* Whatever takes a draining node out of the registry, except a teardown of that node
\* or the removal of a self-setup node, has found its counter at 0.
LEMMA SweptAtZero ==
    ASSUME Inv, Next, NEW n \in Nodes \ Removable, ~Deregister(n),
           status[n] = "draining", status'[n] = Absent
    PROVE  counts'[n] = 0
  <1> USE RoutingAssumption DEF Inv, TypeOK
  <1>1. ASSUME NEW r \in Requests, RequestStep(r) PROVE counts'[n] = 0
    <2>1. CASE Released(r)
      BY <2>1 DEF Released, RemoveNodes, Drained
    <2>2. CASE status' = status
      BY <2>2
    <2>3. CASE Trip(r)
      BY <2>3 DEF Trip, Updated
    <2> QED
      BY <1>1, <2>1, <2>2, <2>3
         DEF RequestStep, NonStreamingStep, StreamingStep, Reserve, GiveUp, CheckOpen, Succeed,
             Respond, Fail, RecordFailure, ReleaseFailed, HandshakeFail, ReleaseHandshake,
             RecordHandshake, HandshakeRejected, HandshakeOk, StreamDone, StreamEnd, StreamFail,
             CloseSession, CloseTask, StreamClosed, registryVars
  <1>2. CASE HealthStep
    <2>1. CASE HealthSweep
      BY <2>1 DEF HealthSweep, RemoveNodes, Drained, HealthOnly
    <2>2. CASE Demote \/ Promote \/ TrialOk
      BY <2>2 DEF Demote, Promote, TrialOk, Updated
    <2>3. CASE status' = status
      BY <2>3
    <2> QED
      BY <1>2, <2>1, <2>2, <2>3
         DEF HealthStep, HealthSnapshot, ProbeAlive, ProbeFailed, ReadStatus, ReadBreaker,
             TryHalfOpen, TrialSkipped, TrialFailed, Recovered, Changed, registryVars
  <1>3. CASE DiscoveryStep
    <2> PICK m \in Churning : \/ \E s \in DiscoveredStatuses : Discover(m, s)
                              \/ DrainNode(m)
                              \/ \E s \in AddedStatuses : Add(m, s)
                              \/ Deregister(m)
                              \/ RemoveAvailable(m)
      BY <1>3 DEF DiscoveryStep
    <2>1. CASE \E s \in DiscoveredStatuses : Discover(m, s)
      BY <2>1 DEF Discover, Merged
    <2>2. CASE DrainNode(m)
      BY <2>2 DEF DrainNode
    <2>3. CASE \E s \in AddedStatuses : Add(m, s)
      BY <2>3 DEF Add
    <2>4. CASE Deregister(m) \/ RemoveAvailable(m)
      BY <2>4 DEF Deregister, RemoveAvailable, RemoveNodes
    <2> QED
      BY <2>1, <2>2, <2>3, <2>4
  <1> QED
    BY <1>1, <1>2, <1>3 DEF Next

\* A sweep never removes a node that still serves a request.
THEOREM SweepsAreSafe == Spec => SweepsIdleNodes
  <1> DEFINE Swept(n) == status[n] = "draining" /\ status'[n] = Absent /\ ~Deregister(n)
  <1>1. ASSUME Inv, Inv', [Next]_vars, NEW n \in Nodes \ Removable, Swept(n)
        PROVE  Holders(n)' = {}
    <2>1. Next
      BY <1>1 DEF vars, registryVars
    <2>2. counts'[n] = 0
      BY <1>1, <2>1, SweptAtZero
    <2>3. Cardinality(Holders(n)') = 0
      BY <1>1, <2>2 DEF Inv, Counting
    <2>4. IsFiniteSet(Holders(n)')
      <3>1. Holders(n)' \subseteq Requests
        BY <1>1 DEF Inv, TypeOK, Holders
      <3> QED
        BY <3>1, RoutingAssumption, FS_Subset
    <2> QED
      BY <2>3, <2>4, FS_EmptySet
  <1>2. Inv /\ Inv' /\ [Next]_vars => [\A n \in Nodes \ Removable : Swept(n) => Holders(n)' = {}]_vars
    BY <1>1
  <1>3. Spec => [][\A n \in Nodes \ Removable : Swept(n) => Holders(n)' = {}]_vars
    BY <1>2, InvHolds, PTL DEF Spec
  <1> QED
    BY <1>3 DEF SweepsIdleNodes

(***************************************************************************)
(* Recovery                                                                *)
(***************************************************************************)
\* Whatever turns an unhealthy node healthy is the health thread after a probe or a trial
\* of that node, or a registration; a request and a discovery event never do.
LEMMA RecoveredBy ==
    ASSUME Inv, Next, NEW n \in Nodes, status[n] = "unhealthy", status'[n] = "healthy"
    PROVE  \/ hnode = n /\ hpc \in {"promote", "trial"}
           \/ "healthy" \in AddedStatuses /\ Add(n, "healthy")
  <1> USE RoutingAssumption
  <1>t. status \in [Nodes -> Status \cup {Absent}] /\ Absent # "healthy"
    BY DEF Inv, TypeOK, Status, Absent
  <1>1. ASSUME NEW r \in Requests, RequestStep(r) PROVE FALSE
    <2>1. CASE Released(r)
      BY <1>t, <2>1 DEF Released, RemoveNodes
    <2>2. CASE status' = status
      BY <2>2
    <2>3. CASE Trip(r)
      BY <1>t, <2>3 DEF Trip, Updated
    <2> QED
      BY <1>1, <2>1, <2>2, <2>3
         DEF RequestStep, NonStreamingStep, StreamingStep, Reserve, GiveUp, CheckOpen, Succeed,
             Respond, Fail, RecordFailure, ReleaseFailed, HandshakeFail, ReleaseHandshake,
             RecordHandshake, HandshakeRejected, HandshakeOk, StreamDone, StreamEnd, StreamFail,
             CloseSession, CloseTask, StreamClosed, registryVars
  <1>2. ASSUME HealthStep PROVE hnode = n /\ hpc \in {"promote", "trial"}
    <2>1. CASE HealthSweep
      BY <1>t, <2>1 DEF HealthSweep, RemoveNodes
    <2>2. CASE Demote
      BY <1>t, <2>2 DEF Demote, Updated
    <2>3. CASE Promote \/ TrialOk
      BY <1>t, <2>3 DEF Promote, TrialOk, Updated, HealthAt
    <2>4. CASE status' = status
      BY <2>4
    <2> QED
      BY <1>2, <2>1, <2>2, <2>3, <2>4
         DEF HealthStep, HealthSnapshot, ProbeAlive, ProbeFailed, ReadStatus, ReadBreaker,
             TryHalfOpen, TrialSkipped, TrialFailed, Recovered, Changed, registryVars
  <1>3. ASSUME DiscoveryStep PROVE "healthy" \in AddedStatuses /\ Add(n, "healthy")
    <2> PICK m \in Churning : \/ \E s \in DiscoveredStatuses : Discover(m, s)
                              \/ DrainNode(m)
                              \/ \E s \in AddedStatuses : Add(m, s)
                              \/ Deregister(m)
                              \/ RemoveAvailable(m)
      BY <1>3 DEF DiscoveryStep
    <2>1. CASE \E s \in DiscoveredStatuses : Discover(m, s)
      BY <1>t, <2>1 DEF Discover, Merged, Liveness
    <2>2. CASE DrainNode(m)
      BY <1>t, <2>2 DEF DrainNode
    <2>3. CASE \E s \in AddedStatuses : Add(m, s)
      <3>1. PICK s \in AddedStatuses : Add(m, s)
        BY <2>3
      <3>2. m = n /\ s = "healthy"
        BY <1>t, <3>1 DEF Add
      <3> QED
        BY <3>1, <3>2
    <2>4. CASE Deregister(m) \/ RemoveAvailable(m)
      BY <1>t, <2>4 DEF Deregister, RemoveAvailable, RemoveNodes
    <2> QED
      BY <2>1, <2>2, <2>3, <2>4
  <1> QED
    BY <1>1, <1>2, <1>3 DEF Next

\* An unhealthy node returns to rotation on the health thread's evidence or by a
\* registration, never because a discovery event carries an older opinion.
THEOREM RecoveryIsEarned == Spec => RecoveryNeedsEvidence
  <1> DEFINE Earned(n) == \/ hnode = n /\ hpc \in {"promote", "trial"}
                          \/ "healthy" \in AddedStatuses /\ Add(n, "healthy")
  <1>1. ASSUME Inv, [Next]_vars, NEW n \in Nodes, status[n] = "unhealthy", status'[n] = "healthy"
        PROVE  Earned(n)
    <2>1. Next
      BY <1>1 DEF vars, registryVars
    <2> QED
      BY <1>1, <2>1, RecoveredBy
  <1>2. Inv /\ [Next]_vars =>
           [\A n \in Nodes : status[n] = "unhealthy" /\ status'[n] = "healthy" => Earned(n)]_vars
    BY <1>1
  <1>3. Spec => [][\A n \in Nodes : status[n] = "unhealthy" /\ status'[n] = "healthy" => Earned(n)]_vars
    BY <1>2, InvHolds, PTL DEF Spec
  <1> QED
    BY <1>3 DEF RecoveryNeedsEvidence

(***************************************************************************)
(* Failover                                                                *)
(***************************************************************************)
Tried(r) ==
    /\ IsFiniteSet(excluded[r])
    /\ pc[r] = "idle"  => excluded[r] = {}
    /\ pc[r] = "retry" => Cardinality(excluded[r]) = attempts[r]
    /\ pc[r] \notin {"idle", "retry"} =>
          IF node[r] \in excluded[r] THEN Cardinality(excluded[r]) = attempts[r]
                                     ELSE Cardinality(excluded[r]) + 1 = attempts[r]
    /\ pc[r] \in {"await", "usage", "stream"} => node[r] \notin excluded[r]

\* A handler that only moves on, with its locals as they were, keeps Tried.
LEMMA QuietTried ==
    ASSUME NEW r, Tried(r), pc[r] \notin {"idle", "retry"}, pc'[r] \notin {"idle", "retry"},
           node'[r] = node[r], excluded'[r] = excluded[r], attempts'[r] = attempts[r],
           pc'[r] \in {"await", "usage", "stream"} => pc[r] \in {"await", "usage", "stream"}
    PROVE  Tried(r)'
  BY DEF Tried

\* Excluding the node that has just failed, or not, keeps Tried.
LEMMA FailedTried ==
    ASSUME NEW r, Tried(r), pc[r] = "await", NEW retryable \in BOOLEAN,
           pc'[r] \notin {"idle", "retry", "await", "usage", "stream"},
           node'[r] = node[r], attempts'[r] = attempts[r],
           excluded'[r] = excluded[r] \cup IF retryable THEN {node[r]} ELSE {}
    PROVE  Tried(r)'
  <1>1. CASE retryable
    <2>1. node[r] \notin excluded[r] /\ Cardinality(excluded[r]) + 1 = attempts[r]
      BY DEF Tried
    <2>2. excluded'[r] = excluded[r] \cup {node[r]}
      BY <1>1
    <2>3. /\ IsFiniteSet(excluded'[r])
          /\ Cardinality(excluded'[r]) = Cardinality(excluded[r]) + 1
      BY SMTT(30), <2>1, <2>2, FS_AddElement DEF Tried
    <2> QED
      BY <2>1, <2>2, <2>3 DEF Tried
  <1>2. CASE ~retryable
    <2>1. excluded'[r] = excluded[r]
      BY <1>2
    <2> QED
      BY <2>1 DEF Tried
  <1> QED
    BY <1>1, <1>2

\* Returning or retrying keeps Tried.
LEMMA ContinuedTried ==
    ASSUME TypeOK, NEW r \in Requests, Tried(r), pc[r] # "idle",
           \/ Finished(r)
           \/ pc[r] # "retry" /\ Continued(r)
    PROVE  Tried(r)'
  <1>1. CASE Finished(r)
    BY <1>1, FS_EmptySet DEF Finished, Moved, Tried, TypeOK
  <1>2. CASE pc[r] # "retry" /\ Continued(r) /\ ~Finished(r)
    BY <1>2 DEF Continued, Moved, Tried, TypeOK
  <1> QED
    BY <1>1, <1>2

\* A step of a request keeps Tried for that request and for the others.
LEMMA StepTried ==
    ASSUME TypeOK, LocalsOK, NEW r \in Requests, Tried(r), RequestStep(r)
    PROVE  Tried(r)'
  <1> USE DEF TypeOK, Moved
  <1>1. CASE Reserve(r)
    <2> PICK n \in LeastLoaded(r) : node' = [node EXCEPT ![r] = n]
      BY <1>1 DEF Reserve
    <2>1. n \in Nodes /\ n \notin excluded[r]
      BY RoutingAssumption DEF LeastLoaded, Candidates
    <2>2. node'[r] = n /\ excluded'[r] = excluded[r] /\ attempts'[r] = attempts[r] + 1
          /\ pc'[r] = "await"
      BY <1>1 DEF Reserve
    <2>3. IsFiniteSet(excluded[r]) /\ Cardinality(excluded[r]) = attempts[r]
      BY <1>1, FS_EmptySet DEF Reserve, Tried, LocalsOK
    <2> QED
      BY <2>1, <2>2, <2>3 DEF Tried
  <1>2. CASE GiveUp(r) \/ Respond(r) \/ StreamClosed(r) \/ ReleaseFailed(r)
    BY <1>2, ContinuedTried DEF GiveUp, Respond, StreamClosed, ReleaseFailed
  <1>3. CASE \E retryable \in BOOLEAN : Fail(r, retryable) \/ HandshakeFail(r, retryable)
    <2> PICK retryable \in BOOLEAN : Fail(r, retryable) \/ HandshakeFail(r, retryable)
      BY <1>3
    <2> QED
      BY FailedTried DEF Fail, HandshakeFail, RecordFailure
  <1>4. CASE CheckOpen(r) \/ Trip(r)
    <2>1. CASE Continued(r)
      BY <1>4, <2>1, ContinuedTried DEF CheckOpen, Trip
    <2>2. CASE ~Continued(r)
      BY <1>4, <2>2, QuietTried DEF CheckOpen, Trip, AfterTrip
    <2> QED
      BY <2>1, <2>2
  <1>5. CASE \/ Succeed(r) \/ StreamDone(r) \/ RecordHandshake(r) \/ StreamFail(r)
             \/ ReleaseHandshake(r) \/ HandshakeRejected(r) \/ HandshakeOk(r) \/ StreamEnd(r)
             \/ \E f \in {"generator", "background"} : CloseSession(r, f)
             \/ CloseTask(r)
    BY <1>5, QuietTried
       DEF Succeed, StreamDone, RecordHandshake, StreamFail, RecordFailure, ReleaseHandshake,
           HandshakeRejected, HandshakeOk, StreamEnd, CloseSession, CloseTask
  <1> QED
    BY <1>1, <1>2, <1>3, <1>4, <1>5 DEF RequestStep, NonStreamingStep, StreamingStep

\* Tried is inductive relative to Inv.
LEMMA TriedInvariant ==
    ASSUME Inv, \A r \in Requests : Tried(r), [Next]_vars
    PROVE  \A r \in Requests : Tried(r)'
  <1> SUFFICES ASSUME NEW q \in Requests PROVE Tried(q)'
    OBVIOUS
  <1>1. ASSUME NEW r \in Requests, RequestStep(r) PROVE Tried(q)'
    <2>1. CASE q = r
      BY <1>1, <2>1, StepTried DEF Inv
    <2>2. CASE q # r
      <3>1. /\ pc'[q] = pc[q] /\ node'[q] = node[q] /\ excluded'[q] = excluded[q]
            /\ attempts'[q] = attempts[q]
        BY <1>1, <2>2
           DEF RequestStep, NonStreamingStep, StreamingStep, Reserve, GiveUp, CheckOpen, Trip,
               Succeed, Respond, Fail, RecordFailure, ReleaseFailed, HandshakeFail,
               ReleaseHandshake, RecordHandshake, HandshakeRejected, HandshakeOk, StreamDone,
               StreamEnd, StreamFail, CloseSession, CloseTask, StreamClosed, AfterTrip,
               Continued, Finished, Moved, Inv, TypeOK
      <3> QED
        BY <3>1 DEF Tried
    <2> QED
      BY <2>1, <2>2
  <1>2. CASE HealthStep \/ DiscoveryStep \/ UNCHANGED vars
    <2>1. UNCHANGED requestVars
      BY <1>2 DEF HealthStep, HealthSweep, HealthSnapshot, ProbeAlive, ProbeFailed, Demote,
             ReadStatus, ReadBreaker, Promote, TryHalfOpen, TrialSkipped, TrialFailed, TrialOk,
             Recovered, Changed, HealthOnly, DiscoveryStep, Discover, DrainNode, Add,
             Deregister, RemoveAvailable, RegistryOnly, vars
    <2> QED
      BY <2>1 DEF Tried, requestVars
  <1> QED
    BY <1>1, <1>2 DEF Next

\* Every retry goes to a node the request has not tried, within the attempt budget.
THEOREM FailoverIsDistinct == Spec => []RetriesDistinct
  <1> DEFINE AllTried == \A r \in Requests : Tried(r)
  <1>1. Init => AllTried
    BY FS_EmptySet DEF Init, Tried
  <1>2. Inv /\ AllTried /\ [Next]_vars => AllTried'
    BY TriedInvariant
  <1>3. Inv /\ AllTried => RetriesDistinct
    BY DEF Inv, LocalsOK, Tried, RetriesDistinct
  <1> QED
    BY <1>1, <1>2, <1>3, InvHolds, PTL DEF Spec
============================================================================
