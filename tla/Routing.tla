------------------------------ MODULE Routing ------------------------------
(***************************************************************************)
(* The routing core of QIIP: the node registry, the per-node connection    *)
(* counters, the per-node circuit breakers, the request handlers that      *)
(* reserve a node and fail over to another one, the health-checker thread  *)
(* and the discovery and lifecycle operations that change the registry     *)
(* under them.                                                             *)
(*                                                                         *)
(* Threads.  Request handlers and lifecycle operations are coroutines of   *)
(* one event loop: a coroutine runs alone between two awaits.  The health  *)
(* checker and the etcd watcher are threads of their own.  A step of this  *)
(* module is one critical section (registry lock, breaker lock or counter  *)
(* lock); a request whose pc is not in Suspended is in the middle of a     *)
(* loop segment, and no other coroutine moves until it suspends.           *)
(***************************************************************************)
EXTENDS Integers, FiniteSets

CONSTANTS
    Nodes,               \* node ids
    Requests,            \* concurrent client requests
    Streaming,           \* the requests with stream=true
    Reach,               \* Reach[r]: nodes that pass r's scope and model filters
    MaxAttempts,         \* routing.max_attempts: first try included
    BreakerThreshold,    \* circuit_breaker.threshold
    HealthThreshold,     \* health_check.failure_threshold
    DiscoveredStatuses,  \* statuses a discovery event may carry
    AddedStatuses,       \* statuses a lifecycle operation registers
    Churning,            \* bound: nodes whose registration may change
    Removable,           \* self-setup nodes, which an admin may remove at any time
    Breakers,            \* identities of CircuitBreaker objects
    NoNode, NoBreaker

(***************************************************************************)
(* models/node.py NodeStatus; Absent stands for "no registry entry".       *)
(***************************************************************************)
Absent    == "absent"
Liveness  == {"healthy", "unhealthy", "unknown"}
Idle      == {"available", "provisioning"}
Protected == Idle \cup {"draining", "relaunching", "relaunch_failed", "failed"}
Status    == Liveness \cup Protected

ASSUME RoutingAssumption ==
    /\ IsFiniteSet(Requests)
    /\ Streaming \subseteq Requests
    /\ Reach \in [Requests -> SUBSET Nodes]
    /\ MaxAttempts \in Nat \ {0}
    /\ BreakerThreshold \in Nat \ {0}
    /\ HealthThreshold \in Nat \ {0}
    /\ DiscoveredStatuses \subseteq Status
    /\ AddedStatuses \subseteq Status
    /\ Churning \subseteq Nodes
    /\ Removable \subseteq Nodes
    /\ NoNode \notin Nodes
    /\ NoBreaker \notin Breakers

VARIABLES
    status,      \* NodeRegistry: status of each node, or Absent
    counts,      \* ConnectionTracker._counts (a missing key is 0)
    breakerOf,   \* CircuitBreakerRegistry._breakers: object of a node, or NoBreaker
    breaker,     \* the CircuitBreaker objects
    probeFails,  \* _ConsecutiveFailures._counts
    pc,          \* where each request handler is
    node,        \* node of the handler's current reservation (kept after release)
    held,        \* the handlers whose reservation is not released yet
    excluded,    \* nodes this request must not retry
    attempts,    \* attempts made by this request
    closers,     \* finalizers of a stream that have yet to call session.close()
    loopBreaker, \* breaker whose failure the running coroutine has just recorded
    hpc,         \* where the health thread is
    htodo,       \* nodes of this cycle's snapshot still to be probed
    hnode,       \* node being handled
    hbreaker     \* breaker object the health thread holds

registryVars == <<status, breakerOf, probeFails>>
requestVars  == <<pc, node, held, excluded, attempts, closers>>
healthVars   == <<hpc, htodo, hnode, hbreaker>>
vars == <<registryVars, counts, breaker, requestVars, loopBreaker, healthVars>>

(***************************************************************************)
(* Circuit breakers.  The failure count is saturated at the threshold: the *)
(* code only asks whether it has reached it.                               *)
(***************************************************************************)
BreakerStates == {"closed", "open", "half_open"}
BreakerType   == [state : BreakerStates, failures : 0..BreakerThreshold]
NewBreaker    == [state |-> "closed", failures |-> 0]

AfterFailure(b) ==
    LET count == IF b.failures < BreakerThreshold THEN b.failures + 1
                                                  ELSE b.failures
    IN  [state    |-> IF count >= BreakerThreshold \/ b.state = "half_open"
                        THEN "open" ELSE b.state,
         failures |-> count]

AfterSuccess(b)  == NewBreaker
AfterHalfOpen(b) == [b EXCEPT !.state = IF @ = "open" THEN "half_open" ELSE @]
AfterReopen(b)   == [b EXCEPT !.state = IF @ = "half_open" THEN "open" ELSE @]
IsOpen(b)        == b.state # "closed"

Referenced == {breakerOf[n] : n \in Nodes} \cup {loopBreaker, hbreaker}

\* get_or_create: the registered object, or a new one
BreakerId(n) == IF breakerOf[n] # NoBreaker
                  THEN breakerOf[n]
                  ELSE CHOOSE b \in Breakers : b \notin Referenced
BreakerValue(n) == IF breakerOf[n] # NoBreaker THEN breaker[breakerOf[n]] ELSE NewBreaker

\* get_or_create(n).record_failure() or .record_success(), with result b
Record(n, b) ==
    /\ breakerOf[n] # NoBreaker \/ Breakers \ Referenced # {}
    /\ breakerOf' = [breakerOf EXCEPT ![n] = BreakerId(n)]
    /\ breaker'   = [breaker EXCEPT ![BreakerId(n)] = b]

(***************************************************************************)
(* The registry.  Removing a node runs the removal listeners under the     *)
(* registry lock: they drop its breaker and its probe-failure count.       *)
(***************************************************************************)
RemoveNodes(S) ==
    /\ status'     = [n \in Nodes |-> IF n \in S THEN Absent ELSE status[n]]
    /\ breakerOf'  = [n \in Nodes |-> IF n \in S THEN NoBreaker ELSE breakerOf[n]]
    /\ probeFails' = [n \in Nodes |-> IF n \in S THEN 0 ELSE probeFails[n]]

\* What update_status makes of status s; an absent node is never resurrected.
Updated(s, new, allowedFrom) == IF s \in allowedFrom THEN new ELSE s

\* Defect: the discovered status always wins.
MergedOverwrites(s, new) == new

\* What add_discovered stores over status s when the event carries new
Merged(s, new) == IF s \in Liveness /\ new \in Liveness THEN s ELSE new

\* Defect: the sweep forgets to look at the counters.
DrainedWhileServing(c) == {n \in Nodes : status[n] = "draining"}

\* sweep_drained_nodes, given the counters: the nodes it removes
Drained(c) == {n \in Nodes : status[n] = "draining" /\ c[n] = 0}

(***************************************************************************)
(* Request handlers                                                        *)
(***************************************************************************)
Suspended == {"idle", "await", "usage", "aclose", "stream", "ending", "closing"}
LoopFree(r) == \A q \in Requests \ {r} : pc[q] \in Suspended

\* Defect: the failed nodes of this request are not excluded.
CandidatesAll(r) == {n \in Reach[r] : status[n] = "healthy"}

Candidates(r) == {n \in Reach[r] \ excluded[r] : status[n] = "healthy"}
LeastLoaded(r) ==
    {n \in Candidates(r) : \A m \in Candidates(r) : counts[n] <= counts[m]}

Moved(r, to) == pc' = [pc EXCEPT ![r] = to]

\* Defect: the attempt count survives the request.
FinishedKeepsAttempts(r) ==
    /\ Moved(r, "idle")
    /\ node'     = [node EXCEPT ![r] = NoNode]
    /\ excluded' = [excluded EXCEPT ![r] = {}]
    /\ UNCHANGED attempts

\* The handler returns: its locals are gone.
Finished(r) ==
    /\ Moved(r, "idle")
    /\ node'     = [node EXCEPT ![r] = NoNode]
    /\ excluded' = [excluded EXCEPT ![r] = {}]
    /\ attempts' = [attempts EXCEPT ![r] = 0]

\* After a failed attempt: another one, or the error response.
Continued(r) ==
    IF node[r] \in excluded[r] /\ attempts[r] < MaxAttempts
      THEN Moved(r, "retry") /\ UNCHANGED <<node, excluded, attempts>>
      ELSE Finished(r)

\* NodeReservation.release: decrement (never below 0) and sweep, once
Released(r) ==
    LET n == node[r]
        c == IF r \in held /\ counts[n] > 0 THEN [counts EXCEPT ![n] = @ - 1] ELSE counts
    IN  /\ held'   = held \ {r}
        /\ counts' = [m \in Nodes |-> IF r \in held /\ m \in Drained(c) THEN 0 ELSE c[m]]
        /\ RemoveNodes(IF r \in held THEN Drained(c) ELSE {})

\* select_and_reserve: filter, pick a least-loaded node, count, in one lock
Reserve(r) ==
    /\ pc[r] \in {"idle", "retry"}
    /\ LoopFree(r)
    /\ \E n \in LeastLoaded(r) :
         /\ counts' = [counts EXCEPT ![n] = @ + 1]
         /\ node'   = [node EXCEPT ![r] = n]
    /\ held'     = held \cup {r}
    /\ attempts' = [attempts EXCEPT ![r] = @ + 1]
    /\ Moved(r, "await")
    /\ UNCHANGED <<registryVars, breaker, excluded, closers, loopBreaker, healthVars>>

\* No candidate is left for a retry (a first attempt without one changes nothing),
\* or the handshake deadline of a stream has passed.
GiveUp(r) ==
    /\ pc[r] = "retry"
    /\ Candidates(r) = {} \/ r \in Streaming
    /\ Finished(r)
    /\ UNCHANGED <<registryVars, counts, breaker, held, closers, loopBreaker, healthVars>>

\* A 2xx answer: the breaker learns of it, then usage is recorded off the loop.
Succeed(r) ==
    /\ pc[r] = "await" /\ r \notin Streaming
    /\ LoopFree(r)
    /\ Record(node[r], AfterSuccess(BreakerValue(node[r])))
    /\ Moved(r, "usage")
    /\ UNCHANGED <<status, probeFails, counts, node, held, excluded, attempts, closers,
                   loopBreaker, healthVars>>

\* Return from the handler: a 2xx whose usage is recorded, or a 4xx, which the
\* breaker ignores.
Respond(r) ==
    /\ pc[r] \in {"await", "usage"} /\ r \notin Streaming
    /\ LoopFree(r)
    /\ Released(r)
    /\ Finished(r)
    /\ UNCHANGED <<breaker, closers, loopBreaker, healthVars>>

\* The first half of _record_failure_and_trip.
RecordFailure(r) ==
    /\ Record(node[r], AfterFailure(BreakerValue(node[r])))
    /\ loopBreaker' = BreakerId(node[r])
    /\ Moved(r, "check")
    /\ UNCHANGED <<status, probeFails, counts, node, held, attempts, closers, healthVars>>

\* A failed non-streaming attempt: recorded first, released in the finally block.
Fail(r, retryable) ==
    /\ pc[r] = "await" /\ r \notin Streaming
    /\ LoopFree(r)
    /\ excluded' = [excluded EXCEPT ![r] = @ \cup IF retryable THEN {node[r]} ELSE {}]
    /\ RecordFailure(r)

\* Where _record_failure_and_trip returns to
AfterTrip(r) ==
    IF r \notin Streaming
      THEN Moved(r, "release") /\ UNCHANGED <<node, excluded, attempts>>
    ELSE IF r \in held
      THEN Moved(r, "ending") /\ UNCHANGED <<node, excluded, attempts>>
    ELSE Continued(r)

\* breaker.is_open, read after the failure was recorded
CheckOpen(r) ==
    /\ pc[r] = "check"
    /\ loopBreaker' = NoBreaker
    /\ IF IsOpen(breaker[loopBreaker])
         THEN Moved(r, "trip") /\ UNCHANGED <<node, excluded, attempts>>
         ELSE AfterTrip(r)
    /\ UNCHANGED <<registryVars, counts, breaker, held, closers, healthVars>>

Trip(r) ==
    /\ pc[r] = "trip"
    /\ status' = [status EXCEPT ![node[r]] = Updated(@, "unhealthy", {"healthy"})]
    /\ AfterTrip(r)
    /\ UNCHANGED <<breakerOf, probeFails, counts, breaker, held, closers, loopBreaker,
                   healthVars>>

\* Defect: no finally block around a failed attempt.
ReleaseFailedLeaks(r) ==
    /\ pc[r] = "release"
    /\ held' = held \ {r}
    /\ Continued(r)
    /\ UNCHANGED <<registryVars, counts, breaker, closers, loopBreaker, healthVars>>

\* finally: reservation.release() of a failed non-streaming attempt
ReleaseFailed(r) ==
    /\ pc[r] = "release"
    /\ Released(r)
    /\ Continued(r)
    /\ UNCHANGED <<breaker, closers, loopBreaker, healthVars>>

\* A failed handshake first closes its upstream context, which suspends ...
HandshakeFail(r, retryable) ==
    /\ pc[r] = "await" /\ r \in Streaming
    /\ LoopFree(r)
    /\ excluded' = [excluded EXCEPT ![r] = @ \cup IF retryable THEN {node[r]} ELSE {}]
    /\ Moved(r, "aclose")
    /\ UNCHANGED <<registryVars, counts, breaker, node, held, attempts, closers, loopBreaker,
                   healthVars>>

\* ... then releases the reservation ...
ReleaseHandshake(r) ==
    /\ pc[r] = "aclose"
    /\ LoopFree(r)
    /\ Released(r)
    /\ Moved(r, "record")
    /\ UNCHANGED <<breaker, node, excluded, attempts, closers, loopBreaker, healthVars>>

\* ... and only then records the failure.
RecordHandshake(r) ==
    /\ pc[r] = "record"
    /\ RecordFailure(r)
    /\ UNCHANGED excluded

\* Defect: a 4xx handshake returns without closing its attempt.
HandshakeRejectedLeaks(r) ==
    /\ pc[r] = "await" /\ r \in Streaming
    /\ LoopFree(r)
    /\ Finished(r)
    /\ held' = held \ {r}
    /\ UNCHANGED <<registryVars, counts, breaker, closers, loopBreaker, healthVars>>

\* A 4xx handshake is closed and returned; nothing runs it a second time.
HandshakeRejected(r) ==
    /\ pc[r] = "await" /\ r \in Streaming
    /\ LoopFree(r)
    /\ Moved(r, "closing")
    /\ UNCHANGED <<registryVars, counts, breaker, node, held, excluded, attempts, closers,
                   loopBreaker, healthVars>>

HandshakeOk(r) ==
    /\ pc[r] = "await" /\ r \in Streaming
    /\ LoopFree(r)
    /\ Moved(r, "stream")
    /\ closers' = [closers EXCEPT ![r] = {"generator", "background"}]
    /\ UNCHANGED <<registryVars, counts, breaker, node, held, excluded, attempts,
                   loopBreaker, healthVars>>

\* The terminal event of the dialect is proof of a served request.
StreamDone(r) ==
    /\ pc[r] = "stream"
    /\ LoopFree(r)
    /\ Record(node[r], AfterSuccess(BreakerValue(node[r])))
    /\ Moved(r, "ending")
    /\ UNCHANGED <<status, probeFails, counts, node, held, excluded, attempts, closers,
                   loopBreaker, healthVars>>

\* Defect: no background task, and the generator never started.
StreamEndUnfinalized(r) ==
    /\ pc[r] = "stream"
    /\ LoopFree(r)
    /\ Moved(r, "ending")
    /\ closers' = [closers EXCEPT ![r] = {}]
    /\ UNCHANGED <<registryVars, counts, breaker, node, held, excluded, attempts,
                   loopBreaker, healthVars>>

\* The stream ends without a terminal event, or the client goes away; a generator
\* that never started does not run its finally block.
StreamEnd(r) ==
    /\ pc[r] = "stream"
    /\ LoopFree(r)
    /\ Moved(r, "ending")
    /\ \E f \in {{"background"}, {"generator", "background"}} :
          closers' = [closers EXCEPT ![r] = f]
    /\ UNCHANGED <<registryVars, counts, breaker, node, held, excluded, attempts,
                   loopBreaker, healthVars>>

StreamFail(r) ==
    /\ pc[r] = "stream"
    /\ LoopFree(r)
    /\ RecordFailure(r)
    /\ UNCHANGED excluded

\* session.close() by the generator's finally block or by the background task:
\* the first caller creates the close task, the other one finds it and waits.
CloseSession(r, f) ==
    /\ pc[r] \in {"ending", "closing"}
    /\ LoopFree(r)
    /\ f \in closers[r]
    /\ closers' = [closers EXCEPT ![r] = @ \ {f}]
    /\ Moved(r, "closing")
    /\ UNCHANGED <<registryVars, counts, breaker, node, held, excluded, attempts,
                   loopBreaker, healthVars>>

\* The close task has closed the upstream context and releases the reservation.
CloseTask(r) ==
    /\ pc[r] = "closing" /\ r \in held
    /\ LoopFree(r)
    /\ Released(r)
    /\ UNCHANGED <<breaker, pc, node, excluded, attempts, closers, loopBreaker, healthVars>>

StreamClosed(r) ==
    /\ pc[r] = "closing" /\ r \notin held /\ closers[r] = {}
    /\ Finished(r)
    /\ UNCHANGED <<registryVars, counts, breaker, held, closers, loopBreaker, healthVars>>

(***************************************************************************)
(* The health thread                                                       *)
(***************************************************************************)
HealthAt(at)    == hpc = at
HealthGoes(to)  == hpc' = to /\ UNCHANGED <<htodo, hnode, hbreaker>>
HealthNext      == hpc' = "cycle" /\ hnode' = NoNode /\ hbreaker' = NoBreaker /\ UNCHANGED htodo
HealthOnly      == UNCHANGED <<counts, requestVars, loopBreaker>>

\* Defect: only a release sweeps.
HealthSweepNothing ==
    /\ HealthAt("cycle") /\ htodo = {}
    /\ HealthGoes("snapshot")
    /\ UNCHANGED <<registryVars, breaker>> /\ HealthOnly

HealthSweep ==
    /\ HealthAt("cycle") /\ htodo = {}
    /\ RemoveNodes(Drained(counts))
    /\ HealthGoes("snapshot")
    /\ UNCHANGED breaker /\ HealthOnly

HealthSnapshot ==
    /\ HealthAt("snapshot")
    /\ htodo' = {n \in Nodes : status[n] \in Status \ Idle}
    /\ hpc' = "cycle"
    /\ UNCHANGED <<registryVars, breaker, hnode, hbreaker>> /\ HealthOnly

\* GET /health answered 200; the failure count is reset before anything is read.
ProbeAlive(n) ==
    /\ HealthAt("cycle") /\ n \in htodo
    /\ htodo' = htodo \ {n} /\ hnode' = n /\ hpc' = "alive"
    /\ probeFails' = [probeFails EXCEPT ![n] = 0]
    /\ UNCHANGED <<status, breakerOf, breaker, hbreaker>> /\ HealthOnly

\* The probe failed: count it (saturated at the threshold), demote at the threshold.
ProbeFailed(n) ==
    /\ HealthAt("cycle") /\ n \in htodo
    /\ probeFails' = [probeFails EXCEPT ![n] = IF @ < HealthThreshold THEN @ + 1 ELSE @]
    /\ htodo' = htodo \ {n}
    /\ IF probeFails'[n] >= HealthThreshold
         THEN hpc' = "demote" /\ hnode' = n
         ELSE hpc' = "cycle"  /\ hnode' = NoNode
    /\ UNCHANGED <<status, breakerOf, breaker, hbreaker>> /\ HealthOnly

Demote ==
    /\ HealthAt("demote")
    /\ status' = [status EXCEPT ![hnode] = Updated(@, "unhealthy", {"healthy", "unknown"})]
    /\ HealthNext
    /\ UNCHANGED <<breakerOf, probeFails, breaker>> /\ HealthOnly

\* registry.get: only an unhealthy or unknown node has something to recover from.
ReadStatus ==
    /\ HealthAt("alive")
    /\ IF status[hnode] \in {"unhealthy", "unknown"}
         THEN HealthGoes("breaker")
         ELSE HealthNext
    /\ UNCHANGED <<registryVars, breaker>> /\ HealthOnly

ReadBreaker ==
    /\ HealthAt("breaker")
    /\ IF breakerOf[hnode] # NoBreaker /\ IsOpen(breaker[breakerOf[hnode]])
         THEN hpc' = "tryhalf" /\ hbreaker' = breakerOf[hnode]
         ELSE hpc' = "promote" /\ UNCHANGED hbreaker
    /\ UNCHANGED <<registryVars, breaker, htodo, hnode>> /\ HealthOnly

\* The breaker was closed when it was read: the liveness probe is enough.
Promote ==
    /\ HealthAt("promote")
    /\ status' = [status EXCEPT ![hnode] = Updated(@, "healthy", {"unhealthy", "unknown"})]
    /\ HealthNext
    /\ UNCHANGED <<breakerOf, probeFails, breaker>> /\ HealthOnly

TryHalfOpen ==
    /\ HealthAt("tryhalf")
    /\ breaker' = [breaker EXCEPT ![hbreaker] = AfterHalfOpen(@)]
    /\ IF breaker[hbreaker].state = "open" THEN HealthGoes("trial") ELSE HealthNext
    /\ UNCHANGED registryVars /\ HealthOnly

\* The node has no model to try.
TrialSkipped ==
    /\ HealthAt("trial")
    /\ breaker' = [breaker EXCEPT ![hbreaker] = AfterReopen(@)]
    /\ HealthNext
    /\ UNCHANGED registryVars /\ HealthOnly

TrialFailed ==
    /\ HealthAt("trial")
    /\ breaker' = [breaker EXCEPT ![hbreaker] = AfterFailure(@)]
    /\ HealthNext
    /\ UNCHANGED registryVars /\ HealthOnly

TrialOk ==
    /\ HealthAt("trial")
    /\ status' = [status EXCEPT ![hnode] = Updated(@, "healthy", {"unhealthy", "unknown"})]
    /\ HealthGoes(IF status[hnode] \in {"unhealthy", "unknown"} THEN "recovered" ELSE "changed")
    /\ UNCHANGED <<breakerOf, probeFails, breaker>> /\ HealthOnly

Recovered ==
    /\ HealthAt("recovered")
    /\ breaker' = [breaker EXCEPT ![hbreaker] = AfterSuccess(@)]
    /\ HealthNext
    /\ UNCHANGED registryVars /\ HealthOnly

\* Defect: the trial is not undone.
ChangedKeepsHalfOpen ==
    /\ HealthAt("changed")
    /\ HealthNext
    /\ UNCHANGED <<registryVars, breaker>> /\ HealthOnly

\* The trial succeeded but the node's status had changed meanwhile.
Changed ==
    /\ HealthAt("changed")
    /\ breaker' = [breaker EXCEPT ![hbreaker] = AfterReopen(@)]
    /\ HealthNext
    /\ UNCHANGED registryVars /\ HealthOnly

(***************************************************************************)
(* Discovery events (watcher thread) and lifecycle operations (coroutines) *)
(***************************************************************************)
RegistryOnly == UNCHANGED <<counts, breaker, requestVars, loopBreaker, healthVars>>
LifecycleFree == \A r \in Requests : pc[r] \in Suspended

\* A PUT event or a snapshot record
Discover(n, s) ==
    /\ status' = [status EXCEPT ![n] = Merged(@, s)]
    /\ UNCHANGED <<breakerOf, probeFails>> /\ RegistryOnly

\* A DELETE event, a key missing from a snapshot, or the first step of a teardown
DrainNode(n) ==
    /\ status[n] # Absent
    /\ status' = [status EXCEPT ![n] = "draining"]
    /\ UNCHANGED <<breakerOf, probeFails>> /\ RegistryOnly

\* registry.add by registration or relaunch
Add(n, s) ==
    /\ LifecycleFree
    /\ status' = [status EXCEPT ![n] = s]
    /\ UNCHANGED <<breakerOf, probeFails>> /\ RegistryOnly

\* The last step of a teardown, whether or not the drain timed out; the counter stays.
Deregister(n) ==
    /\ LifecycleFree
    /\ status[n] # Absent
    /\ RemoveNodes({n})
    /\ RegistryOnly

\* remove_available of a self-setup node, which may be serving: the registry entry,
\* its breaker and its counter go.  (The three lock sections run in one loop segment.)
RemoveAvailable(n) ==
    /\ LifecycleFree
    /\ n \in Removable /\ status[n] # Absent
    /\ RemoveNodes({n})
    /\ counts' = [counts EXCEPT ![n] = 0]
    /\ UNCHANGED <<breaker, requestVars, loopBreaker, healthVars>>

(***************************************************************************)
(* The specification                                                       *)
(***************************************************************************)
Init ==
    /\ status \in [Nodes -> {Absent} \cup DiscoveredStatuses]
    /\ counts      = [n \in Nodes |-> 0]
    /\ breakerOf   = [n \in Nodes |-> NoBreaker]
    /\ breaker     = [b \in Breakers |-> NewBreaker]
    /\ probeFails  = [n \in Nodes |-> 0]
    /\ pc          = [r \in Requests |-> "idle"]
    /\ node        = [r \in Requests |-> NoNode]
    /\ held        = {}
    /\ excluded    = [r \in Requests |-> {}]
    /\ attempts    = [r \in Requests |-> 0]
    /\ closers     = [r \in Requests |-> {}]
    /\ loopBreaker = NoBreaker
    /\ hpc = "cycle" /\ htodo = {} /\ hnode = NoNode /\ hbreaker = NoBreaker

NonStreamingStep(r) ==
    \/ Succeed(r) \/ Respond(r)
    \/ \E retryable \in BOOLEAN : Fail(r, retryable)
    \/ ReleaseFailed(r)

StreamingStep(r) ==
    \/ \E retryable \in BOOLEAN : HandshakeFail(r, retryable)
    \/ ReleaseHandshake(r) \/ RecordHandshake(r)
    \/ HandshakeRejected(r) \/ HandshakeOk(r)
    \/ StreamDone(r) \/ StreamEnd(r) \/ StreamFail(r)
    \/ \E f \in {"generator", "background"} : CloseSession(r, f)
    \/ CloseTask(r) \/ StreamClosed(r)

RequestStep(r) ==
    \/ Reserve(r) \/ GiveUp(r)
    \/ CheckOpen(r) \/ Trip(r)
    \/ NonStreamingStep(r)
    \/ StreamingStep(r)

HealthStep ==
    \/ HealthSweep \/ HealthSnapshot
    \/ \E n \in Nodes : ProbeAlive(n) \/ ProbeFailed(n)
    \/ Demote \/ ReadStatus \/ ReadBreaker \/ Promote
    \/ TryHalfOpen \/ TrialSkipped \/ TrialFailed \/ TrialOk
    \/ Recovered \/ Changed

DiscoveryStep ==
    \E n \in Churning :
        \/ \E s \in DiscoveredStatuses : Discover(n, s)
        \/ DrainNode(n)
        \/ \E s \in AddedStatuses : Add(n, s)
        \/ Deregister(n)
        \/ RemoveAvailable(n)

Next ==
    \/ \E r \in Requests : RequestStep(r)
    \/ HealthStep
    \/ DiscoveryStep

Spec == Init /\ [][Next]_vars

(***************************************************************************)
(* Fairness: the loop runs its ready coroutines first in, first out and    *)
(* every await is bounded (client and handshake timeouts, the engine's own *)
(* generation limit), so a request under way that can move again and again *)
(* moves; nothing obliges a client to send a request.  The health thread   *)
(* loops until shutdown and bounds every probe with a timeout.             *)
(***************************************************************************)
Progress(r) == pc[r] # "idle" /\ RequestStep(r)

FairSpec ==
    /\ Spec
    /\ WF_vars(HealthStep)
    /\ \A r \in Requests : SF_vars(Progress(r))

(***************************************************************************)
(* Properties                                                              *)
(***************************************************************************)
PCs  == Suspended \cup {"retry", "check", "trip", "release", "record"}
HPCs == {"cycle", "snapshot", "alive", "demote", "breaker", "promote", "tryhalf",
         "trial", "recovered", "changed"}
TrialPCs == {"trial", "recovered", "changed"}

\* Types of the variables, with the ranges the saturated counters keep.
TypeOK ==
    /\ status      \in [Nodes -> Status \cup {Absent}]
    /\ counts      \in [Nodes -> Nat]
    /\ breakerOf   \in [Nodes -> Breakers \cup {NoBreaker}]
    /\ breaker     \in [Breakers -> BreakerType]
    /\ probeFails  \in [Nodes -> 0..HealthThreshold]
    /\ pc          \in [Requests -> PCs]
    /\ node        \in [Requests -> Nodes \cup {NoNode}]
    /\ held        \in SUBSET Requests
    /\ excluded    \in [Requests -> SUBSET Nodes]
    /\ attempts    \in [Requests -> 0..MaxAttempts]
    /\ closers     \in [Requests -> SUBSET {"generator", "background"}]
    /\ loopBreaker \in Breakers \cup {NoBreaker}
    /\ hpc         \in HPCs
    /\ htodo       \in SUBSET Nodes
    /\ hnode       \in Nodes \cup {NoNode}
    /\ hbreaker    \in Breakers \cup {NoBreaker}

\* The live reservations of a node.
Holders(n) == {r \in held : node[r] = n}

\* The connection counter of a node is exactly the number of its live reservations,
\* whatever mix of retries, competing stream finalizers, drains, sweeps, teardowns
\* and re-registrations has happened: release() runs once per reservation and no
\* cleanup path drops or resurrects a count.  Self-setup nodes are left out:
\* remove_available resets their counter while they serve.
ReservationsCounted == \A n \in Nodes \ Removable : counts[n] = Cardinality(Holders(n))

\* On every node, self-setup ones included, the counter never exceeds the live
\* reservations: an overcount would keep a draining node forever.
NeverOverCounted == \A n \in Nodes : counts[n] <= Cardinality(Holders(n))

\* Sweeping a drained node never removes one that still serves a request; only an
\* explicit teardown may.
SweepsIdleNodes ==
    [][\A n \in Nodes \ Removable :
          status[n] = "draining" /\ status'[n] = Absent /\ ~Deregister(n)
             => Holders(n)' = {}]_vars

\* try_half_open refuses a breaker that is already HALF_OPEN, so a HALF_OPEN breaker
\* that nobody is trying would keep its node out forever.  Every HALF_OPEN breaker is
\* one the health thread holds and is about to close or reopen - also when its node
\* was removed or re-registered during the trial.
HalfOpenOwned ==
    \A b \in Breakers : breaker[b].state = "half_open" => hbreaker = b /\ hpc \in TrialPCs

\* Failover: each retry goes to a node this request has not tried, and the attempt
\* budget covers the first try too.
RetriesDistinct ==
    \A r \in Requests :
        /\ pc[r] = "retry" => /\ Cardinality(excluded[r]) = attempts[r]
                              /\ attempts[r] < MaxAttempts
        /\ pc[r] \in {"await", "usage", "stream"} =>
              /\ node[r] \notin excluded[r]
              /\ Cardinality(excluded[r]) + 1 = attempts[r]

\* An unhealthy node returns to rotation on evidence of the health thread or by a
\* lifecycle operation that registers it anew, never because a discovery event
\* carries an older opinion.
RecoveryNeedsEvidence ==
    [][\A n \in Nodes :
          status[n] = "unhealthy" /\ status'[n] = "healthy"
             => \/ hnode = n /\ hpc \in {"promote", "trial"}
                \/ "healthy" \in AddedStatuses /\ Add(n, "healthy")]_vars

\* A draining node leaves the draining state: its reservations end and then a release
\* or the next health cycle sweeps it.
DrainCompletes ==
    \A n \in Nodes : status[n] = "draining" ~> status[n] # "draining"

\* Every request that has reserved a node returns, also when every node keeps failing.
RequestsFinish == \A r \in Requests : pc[r] # "idle" ~> pc[r] = "idle"

BadProbe(n) == ProbeFailed(n) \/ (hnode = n /\ (TrialFailed \/ TrialSkipped))

\* If from some time on the probes and recovery trials of a node succeed, it does not
\* stay unhealthy: no interleaving of requests, drains and trials leaves its breaker
\* in a state the health thread cannot leave.
Recovers ==
    \A n \in Nodes :
        (<>[][~BadProbe(n)]_vars)
            => [](status[n] = "unhealthy" => <>(status[n] # "unhealthy"))
=============================================================================
