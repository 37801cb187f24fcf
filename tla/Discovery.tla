----------------------------- MODULE Discovery -----------------------------
(***************************************************************************)
(* Discovery in QIIP: the etcd store the gateways share, the watcher       *)
(* thread that mirrors its node keys into the registry, the lease manager  *)
(* that keeps managed keys alive on the health thread's evidence, and the  *)
(* local operations (registration, teardown, removal) that change the      *)
(* store and the registry in separate steps.                               *)
(*                                                                         *)
(* The store is external: it is modelled by what the gateway's client      *)
(* relies on.  A write gets the next revision, one event each; a watch     *)
(* delivers the events after its start revision in responses whose header  *)
(* revision covers everything before it; a lease that ends deletes the key *)
(* it is attached to.  A step is one critical section or one etcd call.    *)
(***************************************************************************)
EXTENDS Integers, Sequences

CONSTANTS
    Nodes,       \* node ids: the keys under the watched prefix
    Managed,     \* registrations (node values) this gateway keeps alive with a lease
    SelfSetup,   \* registrations adopted by register_self_setup, never leased
    Malformed,   \* values node_from_etcd rejects
    Probed,      \* bound: nodes whose probes are followed
    Local,       \* nodes this gateway registers, removes and tears down
    Contended,   \* nodes others may write while this gateway operates on them
    MaxRev,      \* bound: no write starts once the store has this revision
    MaxLeases,   \* bound: leases granted
    MaxFaults,   \* bound: lost connections and lost answers
    NoVal, NoNode

Valid  == Managed \cup SelfSetup
Values == Valid \cup Malformed

ASSUME DiscoveryAssumption ==
    /\ Probed \subseteq Nodes /\ Local \subseteq Nodes /\ Contended \subseteq Nodes
    /\ MaxRev \in Nat /\ MaxLeases \in Nat /\ MaxFaults \in Nat
    /\ Managed \cap SelfSetup = {} /\ Valid \cap Malformed = {}
    /\ NoVal \notin Values /\ NoNode \notin Nodes

VARIABLES
    log,       \* the store's events; the revision of an event is its position
    kv,        \* the store's current records
    leases,    \* leases that are alive
    granted,   \* number of leases granted so far
    compacted, \* events up to this revision can no longer be watched
    faults,    \* faults that have happened
    status,    \* registry: status of each node, or "absent"
    regVal,    \* registry: the registration of each node
    records,   \* NodeLeaseManager._records
    ready,     \* NodeLeaseManager._snapshot_ready
    wpc,       \* where the watcher thread is
    snap,      \* the snapshot it is applying
    resume,    \* resume_revision
    gates,     \* key_revisions (a missing key is 0)
    batch,     \* revisions of the current response that are not handled yet
    hi,        \* header revision of the current response
    wrev,      \* event being applied
    lpc,       \* where the health thread's lease maintenance is
    lnode,     \* node being probed
    lval,      \* registration (endpoint) that was probed
    lobs,      \* observation the lease manager acts on
    lid,       \* lease it has been granted
    opc,       \* where the local operation on each node is
    oval       \* registration it adds

storeVars   == <<log, kv, leases, granted, compacted>>
registryVars == <<status, regVal>>
leaseVars   == <<records, ready>>
watcherVars == <<wpc, snap, resume, gates, batch, hi, wrev>>
healthVars  == <<lpc, lnode, lval, lobs, lid>>
localVars   == <<opc, oval>>
vars == <<storeVars, faults, registryVars, leaseVars, watcherVars, healthVars, localVars>>

Statuses == {"absent", "healthy", "unhealthy", "draining"}
NoLease  == 0
NoRecord == [val |-> NoVal, rev |-> 0, lease |-> NoLease]
Rev      == Len(log)
NoSnap   == [kv |-> [n \in Nodes |-> NoRecord], rev |-> 0]
Larger(a, b) == IF a < b THEN b ELSE a

(***************************************************************************)
(* The store                                                               *)
(***************************************************************************)
Event(n, v, l) == [node |-> n, val |-> v, lease |-> l]

Put(n, v, l) ==
    /\ log' = Append(log, Event(n, v, l))
    /\ kv'  = [kv EXCEPT ![n] = [val |-> v, rev |-> Rev + 1, lease |-> l]]

\* Deleting a key that is not there is no event.
Erase(n) ==
    IF kv[n].val = NoVal
      THEN UNCHANGED <<log, kv>>
      ELSE /\ log' = Append(log, Event(n, NoVal, NoLease))
           /\ kv'  = [kv EXCEPT ![n] = NoRecord]

AttachedTo(l) == {n \in Nodes : kv[n].val # NoVal /\ kv[n].lease = l}

\* A lease ends: its key, if any, is deleted.
EndLease(l) ==
    /\ leases' = leases \ {l}
    /\ \/ AttachedTo(l) = {} /\ UNCHANGED <<log, kv>>
       \/ \E n \in AttachedTo(l) : Erase(n)

Room == Rev < MaxRev
Fault == faults < MaxFaults /\ faults' = faults + 1

\* Another writer: a registrant, or a gateway that provisions (with a lease or,
\* when the grant failed, without one), tears down or adopts.
OtherPut(n, v, leased) ==
    /\ Room
    /\ opc[n] = "none" \/ n \in Contended
    /\ IF leased
         THEN /\ v \in Managed
              /\ granted < MaxLeases
              /\ granted' = granted + 1
              /\ leases'  = leases \cup {granted + 1}
              /\ Put(n, v, granted + 1)
         ELSE Put(n, v, NoLease) /\ UNCHANGED <<leases, granted>>
    /\ UNCHANGED <<compacted, faults, registryVars, leaseVars, watcherVars, healthVars, localVars>>

OtherDelete(n) ==
    /\ Room /\ kv[n].val # NoVal
    /\ opc[n] = "none" \/ n \in Contended
    /\ Erase(n)
    /\ UNCHANGED <<leases, granted, compacted, faults, registryVars, leaseVars, watcherVars,
                   healthVars, localVars>>

\* The time to live of a lease runs out.
LeaseExpires(l) ==
    /\ l \in leases
    /\ EndLease(l)
    /\ UNCHANGED <<granted, compacted, faults, registryVars, leaseVars, watcherVars, healthVars,
                   localVars>>

Compact ==
    /\ compacted < Rev
    /\ compacted' = Rev
    /\ UNCHANGED <<log, kv, leases, granted, faults, registryVars, leaseVars, watcherVars,
                   healthVars, localVars>>

(***************************************************************************)
(* The registry                                                            *)
(***************************************************************************)

\* add_discovered keeps a local liveness decision.
Discovered(s) == IF s \in {"healthy", "unhealthy"} THEN s ELSE "healthy"
Draining(s)   == IF s = "absent" THEN s ELSE "draining"

\* sweep_drained_nodes: the last request of a drained node has ended.
Sweep(n) ==
    /\ status[n] = "draining"
    /\ status' = [status EXCEPT ![n] = "absent"]
    /\ regVal' = [regVal EXCEPT ![n] = NoVal]
    /\ UNCHANGED <<storeVars, faults, leaseVars, watcherVars, healthVars, localVars>>

(***************************************************************************)
(* The watcher thread                                                      *)
(***************************************************************************)
WatcherOnly == UNCHANGED <<storeVars, healthVars, localVars>>

\* _initial_load, before the threads start; it may fail.
InitialLoad(loads) ==
    /\ wpc = "boot"
    /\ wpc' = "snapshot"
    /\ IF loads
         THEN /\ status' = [n \in Nodes |-> IF kv[n].val \in Valid THEN "healthy" ELSE "absent"]
              /\ regVal' = [n \in Nodes |-> IF kv[n].val \in Valid THEN kv[n].val ELSE NoVal]
              /\ UNCHANGED faults
         ELSE Fault /\ UNCHANGED registryVars
    /\ UNCHANGED <<leaseVars, snap, resume, gates, batch, hi, wrev>>
    /\ WatcherOnly

TakeSnapshot ==
    /\ wpc = "snapshot"
    /\ snap' = [kv |-> kv, rev |-> Rev]
    /\ wpc'  = "reconcile"
    /\ UNCHANGED <<faults, registryVars, leaseVars, resume, gates, batch, hi, wrev>>
    /\ WatcherOnly

\* Defect: keys that are missing from the snapshot stay in the registry.
MissingIgnored == {}

\* Registered nodes whose key the snapshot does not have
Missing == {n \in Nodes : status[n] # "absent" /\ snap.kv[n].val = NoVal}

\* reconcile_discovered, and the per-key gates: malformed entries count as present
\* but are left alone; missing ones get a tombstone at the snapshot's revision.
Reconcile ==
    /\ wpc = "reconcile"
    /\ status' = [n \in Nodes |-> IF snap.kv[n].val \in Valid THEN Discovered(status[n])
                                  ELSE IF n \in Missing THEN "draining" ELSE status[n]]
    /\ regVal' = [n \in Nodes |-> IF snap.kv[n].val \in Valid THEN snap.kv[n].val ELSE regVal[n]]
    /\ gates'  = [n \in Nodes |-> IF n \in Missing THEN snap.rev ELSE snap.kv[n].rev]
    /\ wpc' = "leases"
    /\ UNCHANGED <<faults, leaseVars, snap, resume, batch, hi, wrev>>
    /\ WatcherOnly

ReconcileLeases ==
    /\ wpc = "leases"
    /\ records' = [n \in Nodes |-> IF snap.kv[n].val \in Valid THEN snap.kv[n] ELSE NoRecord]
    /\ ready'  = TRUE
    /\ resume' = snap.rev
    /\ snap'   = NoSnap
    /\ wpc'    = "open"
    /\ UNCHANGED <<faults, registryVars, gates, batch, hi, wrev>>
    /\ WatcherOnly

\* watch_prefix(start_revision = resume + 1)
OpenStream ==
    /\ wpc = "open" /\ resume >= compacted
    /\ wpc' = "stream"
    /\ UNCHANGED <<faults, registryVars, leaseVars, snap, resume, gates, batch, hi, wrev>>
    /\ WatcherOnly

\* WatchCompactedError: the next snapshot resets the resume point and the gates.
WatchCompacted ==
    /\ wpc \in {"open", "stream"} /\ resume < compacted
    /\ wpc'   = "snapshot"
    /\ gates' = [n \in Nodes |-> 0]
    /\ UNCHANGED <<faults, registryVars, leaseVars, snap, resume, batch, hi, wrev>>
    /\ WatcherOnly

\* Defect: the resume point moves to the end of a response when it arrives.
ReceiveBatchAdvances ==
    /\ wpc = "stream"
    /\ \E r \in resume + 1 .. Rev :
         /\ hi' = r
         /\ batch' = resume + 1 .. r
         /\ resume' = r
    /\ wpc' = "batch"
    /\ UNCHANGED <<faults, registryVars, leaseVars, snap, gates, wrev>>
    /\ WatcherOnly

\* A response with the next events; their order inside it is not relied on.
ReceiveBatch ==
    /\ wpc = "stream"
    /\ \E r \in resume + 1 .. Rev :
         /\ hi' = r
         /\ batch' = resume + 1 .. r
    /\ wpc' = "batch"
    /\ UNCHANGED <<faults, registryVars, leaseVars, snap, resume, gates, wrev>>
    /\ WatcherOnly

\* The event is not newer than what was applied to its key.
Stale(k) == k <= gates[log[k].node]

\* The gate skips the event, or its value is malformed and only the gate advances.
SkipEvent(k) ==
    /\ wpc = "batch" /\ k \in batch
    /\ Stale(k) \/ log[k].val \in Malformed
    /\ batch' = batch \ {k}
    /\ gates' = IF Stale(k) THEN gates ELSE [gates EXCEPT ![log[k].node] = k]
    /\ UNCHANGED <<faults, registryVars, leaseVars, wpc, snap, resume, hi, wrev>>
    /\ WatcherOnly

\* A PUT: the registry first ...
ApplyPut(k) ==
    /\ wpc = "batch" /\ k \in batch
    /\ ~Stale(k) /\ log[k].val \in Valid
    /\ status'  = [status EXCEPT ![log[k].node] = Discovered(@)]
    /\ regVal'  = [regVal EXCEPT ![log[k].node] = log[k].val]
    /\ wpc' = "observe" /\ wrev' = k
    /\ UNCHANGED <<faults, leaseVars, snap, resume, gates, batch, hi>>
    /\ WatcherOnly

\* The event is done: its key's gate moves to it.
EventDone ==
    /\ wpc'   = "batch"
    /\ batch' = batch \ {wrev}
    /\ wrev'  = 0
    /\ gates' = [gates EXCEPT ![log[wrev].node] = wrev]

\* ... then the lease metadata.
ObservePut ==
    /\ wpc = "observe"
    /\ LET e == log[wrev] IN
         records' = [records EXCEPT ![e.node] =
                       IF @.val = NoVal \/ wrev >= @.rev
                         THEN [val |-> e.val, rev |-> wrev, lease |-> e.lease] ELSE @]
    /\ EventDone
    /\ UNCHANGED <<faults, registryVars, ready, snap, resume, hi>>
    /\ WatcherOnly

\* A DELETE: the lease metadata first ...
ObserveDelete(k) ==
    /\ wpc = "batch" /\ k \in batch
    /\ ~Stale(k) /\ log[k].val = NoVal
    /\ records' = [records EXCEPT ![log[k].node] =
                     IF @.val = NoVal \/ k >= @.rev THEN NoRecord ELSE @]
    /\ wpc' = "drain" /\ wrev' = k
    /\ UNCHANGED <<faults, registryVars, ready, snap, resume, gates, batch, hi>>
    /\ WatcherOnly

\* ... then the registry.
DrainDeleted ==
    /\ wpc = "drain"
    /\ LET n == log[wrev].node IN
         /\ status'  = [status EXCEPT ![n] = Draining(@)]
    /\ EventDone
    /\ UNCHANGED <<faults, regVal, leaseVars, snap, resume, hi>>
    /\ WatcherOnly

\* Defect: the resume point is the next revision instead of the last one.
BatchDoneOffByOne ==
    /\ wpc = "batch" /\ batch = {}
    /\ resume' = Larger(resume, hi + 1)
    /\ hi'  = 0
    /\ wpc' = "stream"
    /\ UNCHANGED <<faults, registryVars, leaseVars, snap, gates, batch, wrev>>
    /\ WatcherOnly

\* Advance only after the whole batch succeeds.
BatchDone ==
    /\ wpc = "batch" /\ batch = {}
    /\ resume' = Larger(resume, hi)
    /\ hi'  = 0
    /\ wpc' = "stream"
    /\ UNCHANGED <<faults, registryVars, leaseVars, snap, gates, batch, wrev>>
    /\ WatcherOnly

\* No response came within the read timeout: watch again from the same revision.
ReadTimeout ==
    /\ wpc = "stream" /\ resume = Rev
    /\ wpc' = "open"
    /\ UNCHANGED <<faults, registryVars, leaseVars, snap, resume, gates, batch, hi, wrev>>
    /\ WatcherOnly

\* The stream ends or fails, or handling an event fails.
Disconnect ==
    /\ wpc \in {"stream", "batch"}
    /\ Fault
    /\ wpc' = "open"
    /\ batch' = {} /\ hi' = 0
    /\ UNCHANGED <<registryVars, leaseVars, snap, resume, gates, wrev>>
    /\ WatcherOnly

(***************************************************************************)
(* Lease maintenance on the health thread.  Breakers, thresholds and       *)
(* recovery trials are in module Routing; here a probe fails, or succeeds  *)
(* and is evidence for the registration that was probed.                   *)
(***************************************************************************)
HealthOnly == UNCHANGED <<compacted, watcherVars, localVars>>
Quiet      == UNCHANGED <<log, kv, leases, granted>>
Goes(to)   == lpc' = to /\ UNCHANGED <<lnode, lval, lobs, lid>>
LeaseIdle  == lpc' = "idle" /\ lnode' = NoNode /\ lval' = NoVal /\ lobs' = NoRecord
                            /\ lid' = NoLease

Probe(n) ==
    /\ lpc = "idle" /\ status[n] # "absent"
    /\ lpc' = "probe" /\ lnode' = n /\ lval' = regVal[n]
    /\ UNCHANGED <<lobs, lid, faults, registryVars, leaseVars>> /\ Quiet /\ HealthOnly

ProbeFailed ==
    /\ lpc = "probe"
    /\ status' = [status EXCEPT ![lnode] = IF @ = "healthy" THEN "unhealthy" ELSE @]
    /\ LeaseIdle
    /\ UNCHANGED <<faults, regVal, leaseVars>> /\ Quiet /\ HealthOnly

\* _handle_probe_success: evidence only for a healthy or recovering node
ProbeOk ==
    /\ lpc = "probe"
    /\ IF status[lnode] \in {"healthy", "unhealthy"}
         THEN status' = [status EXCEPT ![lnode] = "healthy"] /\ Goes("fetch")
         ELSE UNCHANGED status /\ LeaseIdle
    /\ UNCHANGED <<faults, regVal, leaseVars>> /\ Quiet /\ HealthOnly

\* registry.get: the endpoint must be the probed one, the node healthy and managed.
FetchNode ==
    /\ lpc = "fetch"
    /\ IF status[lnode] = "healthy" /\ regVal[lnode] = lval /\ lval \in Managed
         THEN Goes("lookup")
         ELSE LeaseIdle
    /\ UNCHANGED <<faults, registryVars, leaseVars>> /\ Quiet /\ HealthOnly

\* The observation is read under the manager's lock.
LookUp ==
    /\ lpc = "lookup"
    /\ IF ready /\ records[lnode].val # NoVal
         THEN /\ lpc'  = IF records[lnode].lease # NoLease THEN "refresh" ELSE "grant"
              /\ lobs' = records[lnode]
              /\ UNCHANGED <<lnode, lval, lid>>
         ELSE LeaseIdle
    /\ UNCHANGED <<faults, registryVars, leaseVars>> /\ Quiet /\ HealthOnly

\* The keepalive: an ended lease is forgotten unless the observation has changed.
Refresh ==
    /\ lpc = "refresh"
    /\ records' = IF lobs.lease \notin leases /\ records[lnode] = lobs
                    THEN [records EXCEPT ![lnode] = NoRecord] ELSE records
    /\ LeaseIdle
    /\ UNCHANGED <<faults, registryVars, ready>> /\ Quiet /\ HealthOnly

Grant ==
    /\ lpc = "grant"
    /\ granted < MaxLeases
    /\ granted' = granted + 1
    /\ leases'  = leases \cup {granted + 1}
    /\ lid'     = granted + 1
    /\ lpc'     = "attach"
    /\ UNCHANGED <<lnode, lval, lobs, log, kv, faults, registryVars, leaseVars>> /\ HealthOnly

\* refresh_lease or grant_node_lease raises.
CallFails ==
    /\ lpc \in {"refresh", "grant"}
    /\ Fault \/ (lpc = "grant" /\ granted >= MaxLeases /\ UNCHANGED faults)
    /\ LeaseIdle
    /\ UNCHANGED <<registryVars, leaseVars>> /\ Quiet /\ HealthOnly

\* Defect: the transaction compares nothing.
ObservedAlways == kv[lnode].val # NoVal

\* The transaction's comparisons: modification revision and lease as observed
Observed == /\ kv[lnode].val # NoVal
            /\ kv[lnode].rev = lobs.rev /\ kv[lnode].lease = lobs.lease

\* attach_lease_if_current; the store refuses a lease that has ended, and the answer
\* of a transaction may be lost.
Attach(answered) ==
    /\ lpc = "attach"
    /\ IF answered THEN UNCHANGED faults ELSE Fault
    /\ IF Observed /\ lid \in leases
         THEN Put(lnode, lobs.val, lid) /\ Goes(IF answered THEN "keep" ELSE "revoke")
         ELSE UNCHANGED <<log, kv>> /\ Goes("revoke")
    /\ UNCHANGED <<leases, granted, registryVars, leaseVars>> /\ HealthOnly

\* The request never reaches the store.
AttachFails ==
    /\ lpc = "attach"
    /\ Fault
    /\ Goes("revoke")
    /\ UNCHANGED <<registryVars, leaseVars>> /\ Quiet /\ HealthOnly

\* Defect: the adopted lease is recorded over whatever is observed now.
KeepLeaseAlways ==
    /\ lpc = "keep"
    /\ records' = [records EXCEPT ![lnode] = [lobs EXCEPT !.lease = lid]]
    /\ LeaseIdle
    /\ UNCHANGED <<faults, registryVars, ready>> /\ Quiet /\ HealthOnly

\* The adopted lease is recorded unless the watcher has already done it.
KeepLease ==
    /\ lpc = "keep"
    /\ records' = IF records[lnode] = lobs
                    THEN [records EXCEPT ![lnode] = [lobs EXCEPT !.lease = lid]] ELSE records
    /\ LeaseIdle
    /\ UNCHANGED <<faults, registryVars, ready>> /\ Quiet /\ HealthOnly

\* _revoke_unused
Revoke ==
    /\ lpc = "revoke"
    /\ EndLease(lid)
    /\ LeaseIdle
    /\ UNCHANGED <<granted, faults, registryVars, leaseVars>> /\ HealthOnly

RevokeFails ==
    /\ lpc = "revoke"
    /\ Fault
    /\ LeaseIdle
    /\ UNCHANGED <<registryVars, leaseVars>> /\ Quiet /\ HealthOnly

(***************************************************************************)
(* Local operations; the host's lifecycle lock allows one at a time.       *)
(***************************************************************************)
LocalOnly == UNCHANGED <<leases, granted, compacted, faults, leaseVars, watcherVars, healthVars>>
Step(n, to) == opc' = [opc EXCEPT ![n] = to]

\* register_self_setup: the store first ...
RegisterPut(n, v) ==
    /\ opc[n] = "none" /\ Room
    /\ Put(n, v, NoLease)
    /\ Step(n, "add") /\ oval' = [oval EXCEPT ![n] = v]
    /\ UNCHANGED registryVars /\ LocalOnly

\* ... then the registry.
RegisterAdd(n) ==
    /\ opc[n] = "add"
    /\ status' = [status EXCEPT ![n] = "healthy"]
    /\ regVal' = [regVal EXCEPT ![n] = oval[n]]
    /\ Step(n, "none") /\ oval' = [oval EXCEPT ![n] = NoVal]
    /\ UNCHANGED <<log, kv>> /\ LocalOnly

\* A graceful teardown drains ...
TeardownDrain(n) ==
    /\ opc[n] = "none" /\ Room /\ status[n] # "absent"
    /\ status' = [status EXCEPT ![n] = "draining"]
    /\ Step(n, "stop")
    /\ UNCHANGED <<regVal, oval, log, kv>> /\ LocalOnly

\* ... waits, stops the engine and deletes the key; a removal starts here.
DeleteKey(n) ==
    /\ opc[n] = "stop" \/ (opc[n] = "none" /\ Room /\ status[n] # "absent")
    /\ Erase(n)
    /\ Step(n, "remove")
    /\ UNCHANGED <<registryVars, oval>> /\ LocalOnly

RemoveNode(n) ==
    /\ opc[n] = "remove"
    /\ status' = [status EXCEPT ![n] = "absent"]
    /\ regVal' = [regVal EXCEPT ![n] = NoVal]
    /\ Step(n, "none")
    /\ UNCHANGED <<oval, log, kv>> /\ LocalOnly

(***************************************************************************)
(* The specification                                                       *)
(***************************************************************************)
Init ==
    /\ log = <<>> /\ kv = [n \in Nodes |-> NoRecord]
    /\ leases = {} /\ granted = 0 /\ compacted = 0 /\ faults = 0
    /\ status = [n \in Nodes |-> "absent"] /\ regVal = [n \in Nodes |-> NoVal]
    /\ records = [n \in Nodes |-> NoRecord] /\ ready = FALSE
    /\ wpc = "boot" /\ snap = NoSnap /\ resume = 0
    /\ gates = [n \in Nodes |-> 0] /\ batch = {} /\ hi = 0 /\ wrev = 0
    /\ lpc = "idle" /\ lnode = NoNode /\ lval = NoVal /\ lobs = NoRecord /\ lid = NoLease
    /\ opc = [n \in Nodes |-> "none"] /\ oval = [n \in Nodes |-> NoVal]

StoreStep ==
    \/ \E n \in Nodes, v \in Values, leased \in BOOLEAN : OtherPut(n, v, leased)
    \/ \E n \in Nodes : OtherDelete(n)
    \/ \E l \in leases : LeaseExpires(l)
    \/ Compact

WatcherStep ==
    \/ InitialLoad(TRUE) \/ TakeSnapshot \/ Reconcile \/ ReconcileLeases
    \/ OpenStream \/ WatchCompacted \/ ReceiveBatch
    \/ \E k \in batch : SkipEvent(k) \/ ApplyPut(k) \/ ObserveDelete(k)
    \/ ObservePut \/ DrainDeleted \/ BatchDone \/ ReadTimeout

WatcherFault == InitialLoad(FALSE) \/ Disconnect

LeaseStep ==
    \/ \E n \in Probed : Probe(n)
    \/ ProbeFailed \/ ProbeOk \/ FetchNode \/ LookUp
    \/ Refresh \/ Grant \/ CallFails
    \/ \E answered \in BOOLEAN : Attach(answered)
    \/ AttachFails \/ KeepLease \/ Revoke \/ RevokeFails

LocalStep(n) == RegisterAdd(n) \/ DeleteKey(n) \/ RemoveNode(n)

Next ==
    \/ StoreStep
    \/ \E n \in Nodes : Sweep(n)
    \/ WatcherStep \/ WatcherFault
    \/ LeaseStep
    \/ \E n \in Local : \/ \E v \in SelfSetup : RegisterPut(n, v)
                        \/ TeardownDrain(n)
                        \/ LocalStep(n)

Spec == Init /\ [][Next]_vars

(***************************************************************************)
(* Fairness: the watcher loops until shutdown and every etcd call and      *)
(* stream read has a timeout; a lifecycle operation under way continues.   *)
(* Faults are bounded, so from some time on the store answers.             *)
(***************************************************************************)
FairSpec ==
    /\ Spec
    /\ WF_vars(WatcherStep)
    /\ \A n \in Local : WF_vars(opc[n] # "none" /\ LocalStep(n))

(***************************************************************************)
(* Properties                                                              *)
(***************************************************************************)
Record == [val : Values \cup {NoVal}, rev : Nat, lease : Nat]
WPCs == {"boot", "snapshot", "reconcile", "leases", "open", "stream", "batch", "observe", "drain"}
LPCs == {"idle", "probe", "fetch", "lookup", "refresh", "grant", "attach", "keep", "revoke"}
OPCs == {"none", "add", "stop", "remove"}

\* Types of the variables.
TypeOK ==
    /\ log \in Seq([node : Nodes, val : Values \cup {NoVal}, lease : Nat])
    /\ kv \in [Nodes -> Record] /\ records \in [Nodes -> Record] /\ lobs \in Record
    /\ snap \in [kv : [Nodes -> Record], rev : Nat]
    /\ leases \in SUBSET (1..granted) /\ granted \in 0..MaxLeases /\ lid \in 0..granted
    /\ compacted \in 0..Rev /\ faults \in 0..MaxFaults
    /\ status \in [Nodes -> Statuses] /\ regVal \in [Nodes -> Valid \cup {NoVal}]
    /\ ready \in BOOLEAN /\ wpc \in WPCs /\ lpc \in LPCs /\ opc \in [Nodes -> OPCs]
    /\ resume \in 0..Rev /\ hi \in 0..Rev /\ wrev \in 0..Rev /\ batch \in SUBSET (1..Rev)
    /\ gates \in [Nodes -> 0..Rev]
    /\ lnode \in Nodes \cup {NoNode} /\ lval \in Valid \cup {NoVal}
    /\ oval \in [Nodes -> SelfSetup \cup {NoVal}]

\* The last event of node n up to revision k (none if there is none)
LastEvent(n, k) ==
    {i \in 1..k : log[i].node = n /\ \A j \in i + 1 .. k : log[j].node # n}

\* The registry shows node n as the store had it at revision k; a malformed value
\* leaves the registry as it was.
Mirrors(n, k) ==
    /\ LastEvent(n, k) = {} => status[n] \in {"absent", "draining"}
    /\ \A i \in LastEvent(n, k) :
         /\ log[i].val = NoVal => status[n] \in {"absent", "draining"}
         /\ log[i].val \in Valid => /\ status[n] \in {"healthy", "unhealthy"}
                                    /\ regVal[n] = log[i].val

\* While the watcher reads or handles responses, the registry shows each node exactly
\* as the store had it at the revision the watcher has reached for that node: no event
\* is lost and none is undone, whatever was interrupted, replayed or compacted.
RegistryMirrorsStore ==
    wpc \in {"open", "stream", "batch"} =>
        \A n \in Nodes \ Local : Mirrors(n, Larger(resume, gates[n]))

\* A watcher that has seen everything has left the lease manager with the store's
\* current records: an adoption, an expiry or a revocation that overlapped with the
\* watcher's own updates leaves no observation that would refresh the wrong lease.
LeasesObserved ==
    wpc = "stream" /\ resume = Rev =>
        \A n \in Nodes :
            /\ kv[n].val \in Valid => records[n] = kv[n]
            /\ kv[n].val = NoVal => records[n] = NoRecord

\* Adopting a key never changes what it registers: a registration that arrived after
\* the observation is not overwritten by the observed value.
AdoptionKeepsValue ==
    [][lpc = "attach" /\ lpc' # "attach" => \A n \in Nodes : kv'[n].val = kv[n].val]_vars

\* The registry and the store agree on node n; a drained node may still be sweeping.
Agrees(n) ==
    /\ kv[n].val \in Valid => status[n] \in {"healthy", "unhealthy"} /\ regVal[n] = kv[n].val
    /\ kv[n].val = NoVal => status[n] \in {"absent", "draining"}

\* Once the writers rest, the registry agrees with the store and stays so: local
\* operations that overlap with the watcher leave nothing behind.
Converges == <>[](\A n \in Nodes \ Contended : Agrees(n))
=============================================================================
