-------------------------- MODULE DiscoveryProofs --------------------------
(***************************************************************************)
(* Proofs about Discovery, for any nodes, registrations, leases, faults    *)
(* and length of the store's history: the registry mirrors the store, the  *)
(* lease manager ends with the store's records, and adopting a lease keeps *)
(* the registration.                                                       *)
(***************************************************************************)
EXTENDS Discovery, TLAPS

-----------------------------------------------------------------------------
(* The inductive invariant.                                                *)

Events == [node : Nodes, val : Values \cup {NoVal}, lease : Nat]

\* The record that event i of the store's history leaves, and the last event of a node
\* in a history up to revision k.
Rec(lg, i) == [val |-> lg[i].val, rev |-> i, lease |-> lg[i].lease]
Last(lg, n, k) == {i \in 1..k : lg[i].node = n /\ \A j \in i + 1 .. k : lg[j].node # n}

\* The record r of node n is what the history up to k says.
Shows(lg, r, n, k) ==
    /\ Last(lg, n, k) = {} => r = NoRecord
    /\ \A i \in Last(lg, n, k) : r = IF lg[i].val = NoVal THEN NoRecord ELSE Rec(lg, i)

\* The node has an event after revision i.
Moved(lg, n, i) == \E j \in i + 1 .. Len(lg) : lg[j].node = n

Probing == {"probe", "fetch", "lookup", "refresh", "grant", "attach", "keep", "revoke"}
Leasing == {"attach", "keep", "revoke"}
Acting  == {"refresh", "grant", "attach", "keep", "revoke"}
Reading == {"batch", "observe", "drain"}
Mirroring == {"open", "stream", "batch", "observe", "drain"}

\* The types of all variables.
Typed ==
    /\ TypeOK
    /\ snap.rev \in 0..Rev
    /\ lpc # "idle" => lnode \in Nodes
    /\ lpc \in Leasing => lid \in 1..granted

\* The store: the records are what the history says; a lease that a key has is alive
\* and no other key has it; the lease to be attached is on no key.
StoreOK ==
    /\ \A n \in Nodes : Shows(log, kv[n], n, Rev)
    /\ \A n \in Nodes : kv[n].lease # NoLease => kv[n].lease \in leases
    /\ \A m, n \in Nodes : kv[m].lease # NoLease /\ kv[m].lease = kv[n].lease => m = n
    /\ lpc = "attach" => \A n \in Nodes : kv[n].lease # lid

\* What the watcher works on: the snapshot is the store's at its revision; what is
\* left of a response are events that are not behind the gates, or are still to come.
WatchOK ==
    /\ wpc \in {"reconcile", "leases"} => \A n \in Nodes : Shows(log, snap.kv[n], n, snap.rev)
    /\ wpc = "leases" => \A n \in Nodes : gates[n] <= snap.rev
    /\ wpc \in Reading =>
          /\ resume < hi
          /\ batch \subseteq resume + 1 .. hi
          /\ \A k \in resume + 1 .. hi : k \in batch \/ k <= gates[log[k].node]
    /\ wpc \in {"observe", "drain"} =>
          wrev \in batch /\ gates[log[wrev].node] < wrev
    /\ wpc = "observe" => log[wrev].val \in Valid
    /\ wpc = "drain" => log[wrev].val = NoVal

\* How far the watcher has come for a node.
Reached(n) == Larger(resume, gates[n])

Down == {"absent", "draining"}
Up   == {"healthy", "unhealthy"}

\* Status s and registration v show node n as history lg had it at revision k.
MirrorsAt(lg, s, v, n, k) ==
    /\ Last(lg, n, k) = {} => s \in Down
    /\ \A i \in Last(lg, n, k) :
         /\ lg[i].val = NoVal => s \in Down
         /\ lg[i].val \in Valid => s \in Up /\ v = lg[i].val

\* The registry shows node n as the store had it at revision k.
Shown(n, k) == MirrorsAt(log, status[n], regVal[n], n, k)

\* The registry between the watcher's steps: the node whose event is half applied
\* shows the event, or is about to be drained.
RegistryOK ==
    \A n \in Nodes \ Local :
        /\ wpc = "leases" => Shown(n, snap.rev)
        /\ wpc \in {"open", "stream", "batch"} => Shown(n, Reached(n))
        /\ wpc \in {"observe", "drain"} /\ log[wrev].node # n => Shown(n, Reached(n))
        /\ wpc = "observe" /\ log[wrev].node = n => status[n] \in Up /\ regVal[n] = log[wrev].val

\* An observation of node n is one of its events, but for the lease.
Observation(lg, r, n) ==
    r.val # NoVal =>
        r.rev \in 1..Len(lg) /\ lg[r.rev].node = n /\ r.val = lg[r.rev].val

\* The lease manager's observation of node n when the watcher has come to k: the
\* last event, unless there is a later one that the watcher will see.
Observes(lg, r, n, k) ==
    /\ r.rev <= k
    /\ Last(lg, n, k) = {} => r = NoRecord
    /\ \A i \in Last(lg, n, k) :
          /\ lg[i].val = NoVal => r = NoRecord
          /\ lg[i].val \in Valid =>
                \/ r = Rec(lg, i)
                \/ Moved(lg, n, i) /\ (r = NoRecord \/ r = [Rec(lg, i) EXCEPT !.lease = r.lease])

\* What the lease manager and the health thread have observed are events; an adopted
\* key has an event after the observation.
Told ==
    /\ \A n \in Nodes : Observation(log, records[n], n)
    /\ lpc \in Acting => lobs.val # NoVal /\ Observation(log, lobs, lnode)
    /\ lpc = "refresh" => lobs.lease # NoLease
    /\ lpc = "keep" => Moved(log, lnode, lobs.rev)

\* The lease manager's observations are what the watcher has come to.
Seen ==
    \A n \in Nodes :
        /\ wpc \in Mirroring /\ ~(wpc = "drain" /\ log[wrev].node = n) =>
              Observes(log, records[n], n, Reached(n))
        /\ wpc = "drain" /\ log[wrev].node = n => records[n] = NoRecord

LeasesOK == Told /\ Seen

Inv == Typed /\ StoreOK /\ WatchOK /\ RegistryOK /\ LeasesOK

-----------------------------------------------------------------------------
(* Histories.                                                              *)

\* A later history of the store: events are only appended.
Grown(lh, lg) ==
    /\ Len(lg) <= Len(lh)
    /\ \A i \in 1..Len(lg) : lh[i] = lg[i]

\* A node has at most one last event.
LEMMA LastUnique ==
    ASSUME NEW lg, NEW n, NEW k \in Nat, NEW i \in Last(lg, n, k), NEW j \in Last(lg, n, k)
    PROVE  i = j
BY DEF Last

\* An event of the node at k is its last one up to k.
LEMMA LastHere ==
    ASSUME NEW lg, NEW k \in Nat \ {0}
    PROVE  Last(lg, lg[k].node, k) = {k}
BY DEF Last

\* Without events in between the last event stays.
LEMMA LastStays ==
    ASSUME NEW lg, NEW n, NEW k \in Nat, NEW m \in Nat, k <= m,
           \A i \in k + 1 .. m : lg[i].node # n
    PROVE  Last(lg, n, m) = Last(lg, n, k)
BY DEF Last

\* What was last up to a revision stays so as the history grows.
LEMMA LastKept ==
    ASSUME NEW lg \in Seq(Events), NEW lh \in Seq(Events), Grown(lh, lg), NEW n,
           NEW k \in 0..Len(lg)
    PROVE  Last(lh, n, k) = Last(lg, n, k)
BY DEF Last, Grown

\* So a record goes on showing what it showed ...
LEMMA ShowsKept ==
    ASSUME NEW lg \in Seq(Events), NEW lh \in Seq(Events), Grown(lh, lg), NEW n, NEW r,
           NEW k \in 0..Len(lg), Shows(lg, r, n, k)
    PROVE  Shows(lh, r, n, k)
<1>1. Last(lh, n, k) = Last(lg, n, k)
  BY LastKept
<1>2. \A i \in Last(lg, n, k) : lh[i] = lg[i]
  BY DEF Last, Grown
<1>3. QED
  BY <1>1, <1>2 DEF Shows, Rec

\* ... and an observation what it observed ...
LEMMA ObservationKept ==
    ASSUME NEW lg \in Seq(Events), NEW lh \in Seq(Events), Grown(lh, lg), NEW n, NEW r,
           Observation(lg, r, n)
    PROVE  Observation(lh, r, n)
BY DEF Observation, Grown

\* ... and a node that had an event after i has it.
LEMMA MovedKept ==
    ASSUME NEW lg \in Seq(Events), NEW lh \in Seq(Events), Grown(lh, lg), NEW n, NEW i \in Nat,
           Moved(lg, n, i)
    PROVE  Moved(lh, n, i)
<1>1. PICK j \in i + 1 .. Len(lg) : lg[j].node = n
  BY DEF Moved
<1>2. j \in i + 1 .. Len(lh) /\ lh[j] = lg[j]
  BY DEF Grown
<1>3. QED
  BY <1>1, <1>2 DEF Moved

\* The lease manager's observation stays good as the history grows.
LEMMA ObservesKept ==
    ASSUME NEW lg \in Seq(Events), NEW lh \in Seq(Events), Grown(lh, lg), NEW n, NEW r,
           NEW k \in 0..Len(lg), Observes(lg, r, n, k)
    PROVE  Observes(lh, r, n, k)
<1>1. Last(lh, n, k) = Last(lg, n, k)
  BY LastKept
<1>2. \A i \in Last(lg, n, k) : lh[i] = lg[i] /\ i \in Nat
  BY DEF Last, Grown
<1>3. \A i \in Last(lg, n, k) : Rec(lh, i) = Rec(lg, i) /\ (Moved(lg, n, i) => Moved(lh, n, i))
  BY <1>2, MovedKept DEF Rec
<1>4. QED
  BY <1>1, <1>2, <1>3 DEF Observes

\* The status stays up or stays down, and an up node keeps its registration.
SameSide(s, v, t, w) ==
    /\ s \in Down => t \in Down
    /\ s \in Up => t \in Up /\ w = v

\* A mirrored node is mirrored in the grown history.
LEMMA MirrorsKept ==
    ASSUME NEW lg \in Seq(Events), NEW lh \in Seq(Events), Grown(lh, lg), NEW n,
           NEW s, NEW v, NEW t, NEW w, SameSide(s, v, t, w),
           NEW k \in 0..Len(lg), MirrorsAt(lg, s, v, n, k)
    PROVE  MirrorsAt(lh, t, w, n, k)
<1>1. Last(lh, n, k) = Last(lg, n, k)
  BY LastKept
<1>2. \A i \in Last(lg, n, k) : lh[i] = lg[i]
  BY DEF Last, Grown
<1>3. QED
  BY <1>1, <1>2 DEF MirrorsAt, SameSide

-----------------------------------------------------------------------------
(* The store.                                                              *)

Puts(n, v, l)  == n \in Nodes /\ v \in Values /\ l \in Nat /\ Put(n, v, l)
Erases(n) ==
    /\ n \in Nodes
    /\ log' = Append(log, Event(n, NoVal, NoLease))
    /\ kv'  = [kv EXCEPT ![n] = NoRecord]

\* A step of the store is a write of one record, or none.
Written == UNCHANGED <<log, kv>> \/ (\E n, v, l : Puts(n, v, l)) \/ (\E n : Erases(n))

\* Deleting a key is one event or none.
LEMMA EraseIs ==
    ASSUME NEW n \in Nodes, Erase(n)
    PROVE  UNCHANGED <<log, kv>> \/ Erases(n)
BY DEF Erase, Erases

\* A lease that ends deletes its key or nothing.
LEMMA EndLeaseIs ==
    ASSUME NEW l, EndLease(l)
    PROVE  Written
<1>1. CASE UNCHANGED <<log, kv>>
  BY <1>1 DEF Written
<1>2. CASE \E n \in AttachedTo(l) : Erase(n)
  BY <1>2, EraseIs DEF Written, AttachedTo
<1>3. QED
  BY <1>1, <1>2 DEF EndLease

\* Every step writes one record at most.
LEMMA WrittenNext ==
    ASSUME Inv, Next
    PROVE  Written
<1>1. CASE UNCHANGED <<log, kv>>
  BY <1>1 DEF Written
<1>2. ASSUME NEW n \in Nodes, NEW v \in Values, NEW leased \in BOOLEAN, OtherPut(n, v, leased)
      PROVE  Written
  <2>1. granted + 1 \in Nat /\ NoLease \in Nat
    BY DEF Inv, Typed, TypeOK, NoLease
  <2>2. Put(n, v, granted + 1) \/ Put(n, v, NoLease)
    BY <1>2 DEF OtherPut
  <2>3. QED
    BY <2>1, <2>2 DEF Written, Puts
<1>3. ASSUME NEW n \in Nodes, OtherDelete(n) \/ DeleteKey(n)
      PROVE  Written
  BY <1>1, <1>3, EraseIs DEF OtherDelete, DeleteKey, Written
<1>4. ASSUME NEW l, LeaseExpires(l)
      PROVE  Written
  BY <1>4, EndLeaseIs DEF LeaseExpires
<1>5. ASSUME NEW answered, Attach(answered)
      PROVE  Written
  <2>1. CASE Put(lnode, lobs.val, lid)
    <3>1. lnode \in Nodes /\ lid \in Nat /\ lobs.val \in Values
      BY <1>5 DEF Attach, Inv, Typed, TypeOK, LeasesOK, Told, Leasing, Acting, Record
    <3>2. QED
      BY <2>1, <3>1 DEF Written, Puts
  <2>2. QED
    BY <1>1, <1>5, <2>1 DEF Attach
<1>6. CASE Revoke
  BY <1>6, EndLeaseIs DEF Revoke
<1>7. ASSUME NEW n \in Nodes, NEW v \in SelfSetup, RegisterPut(n, v)
      PROVE  Written
  BY <1>7 DEF RegisterPut, Written, Puts, NoLease, Values, Valid
<1>8. CASE StoreStep
  BY <1>1, <1>2, <1>3, <1>4, <1>8 DEF StoreStep, Compact
<1>9. CASE WatcherStep \/ WatcherFault
  BY <1>1, <1>9
     DEF WatcherStep, WatcherFault, WatcherOnly, storeVars, InitialLoad, TakeSnapshot, Reconcile,
         ReconcileLeases, OpenStream, WatchCompacted, ReceiveBatch, SkipEvent, ApplyPut,
         ObservePut, ObserveDelete, DrainDeleted, BatchDone, ReadTimeout, Disconnect
<1>10. CASE LeaseStep
  BY <1>1, <1>5, <1>6, <1>10
     DEF LeaseStep, Quiet, Probe, ProbeFailed, ProbeOk, FetchNode, LookUp, Refresh, Grant,
         CallFails, AttachFails, KeepLease, RevokeFails
<1>11. ASSUME NEW n \in Local, TeardownDrain(n) \/ LocalStep(n)
       PROVE  Written
  BY <1>1, <1>3, <1>11, DiscoveryAssumption DEF LocalStep, TeardownDrain, RegisterAdd, RemoveNode
<1>12. CASE \E n \in Nodes : Sweep(n)
  BY <1>1, <1>12 DEF Sweep, storeVars
<1>13. QED
  BY <1>7, <1>8, <1>9, <1>10, <1>11, <1>12, DiscoveryAssumption DEF Next

\* A write appends one event and leaves the record that the event says.
LEMMA WrittenGrows ==
    ASSUME Inv, Written
    PROVE  /\ log' \in Seq(Events) /\ Grown(log', log)
           /\ kv' \in [Nodes -> Record]
           /\ \A n \in Nodes : Shows(log', kv'[n], n, Len(log'))
<1>1. log \in Seq(Events) /\ kv \in [Nodes -> Record]
  BY DEF Inv, Typed, TypeOK, Events
<1>2. \A n \in Nodes : Shows(log, kv[n], n, Len(log))
  BY DEF Inv, StoreOK, Rev
<1>3. CASE UNCHANGED <<log, kv>>
  BY <1>1, <1>2, <1>3 DEF Grown
<1>4. ASSUME NEW m \in Nodes, NEW e \in Events, NEW r \in Record, e.node = m,
             log' = Append(log, e), kv' = [kv EXCEPT ![m] = r],
             r = IF e.val = NoVal THEN NoRecord
                 ELSE [val |-> e.val, rev |-> Len(log) + 1, lease |-> e.lease]
      PROVE  /\ log' \in Seq(Events) /\ Grown(log', log)
             /\ kv' \in [Nodes -> Record]
             /\ \A n \in Nodes : Shows(log', kv'[n], n, Len(log'))
  <2>1. /\ log' \in Seq(Events) /\ Grown(log', log) /\ kv' \in [Nodes -> Record]
        /\ Len(log') = Len(log) + 1 /\ log'[Len(log) + 1] = e /\ Len(log) \in Nat
    BY <1>1, <1>4 DEF Grown
  <2>2. ASSUME NEW n \in Nodes, n # m
        PROVE  Shows(log', kv'[n], n, Len(log'))
    <3>1. Shows(log', kv[n], n, Len(log))
      BY <1>1, <1>2, <2>1, ShowsKept
    <3>2. Last(log', n, Len(log')) = Last(log', n, Len(log))
      <4>1. \A i \in Len(log) + 1 .. Len(log') : log'[i].node # n
        BY <1>4, <2>1, <2>2
      <4>2. QED
        BY <2>1, <4>1, LastStays
    <3>3. kv'[n] = kv[n]
      BY <1>1, <1>4, <2>2
    <3>4. QED
      BY <3>1, <3>2, <3>3 DEF Shows
  <2>3. Shows(log', kv'[m], m, Len(log'))
    <3>1. Last(log', m, Len(log) + 1) = {Len(log) + 1}
      <4>1. log'[Len(log) + 1].node = m /\ Len(log) + 1 \in Nat \ {0}
        BY <1>4, <2>1
      <4>2. Last(log', log'[Len(log) + 1].node, Len(log) + 1) = {Len(log) + 1}
        BY <4>1, LastHere
      <4>3. QED
        BY <4>1, <4>2
    <3>2. kv'[m] = r
      BY <1>1, <1>4
    <3>3. QED
      BY <1>4, <2>1, <3>1, <3>2 DEF Shows, Rec
  <2>4. QED
    BY <2>1, <2>2, <2>3
<1>5. ASSUME NEW n, NEW v, NEW l, Puts(n, v, l)
      PROVE  /\ log' \in Seq(Events) /\ Grown(log', log)
             /\ kv' \in [Nodes -> Record]
             /\ \A m \in Nodes : Shows(log', kv'[m], m, Len(log'))
  <2>1. /\ n \in Nodes /\ v \in Values /\ l \in Nat /\ v # NoVal
        /\ Event(n, v, l) \in Events /\ Event(n, v, l).node = n /\ Event(n, v, l).val = v
        /\ Event(n, v, l).lease = l
        /\ [val |-> v, rev |-> Len(log) + 1, lease |-> l] \in Record
        /\ log' = Append(log, Event(n, v, l))
        /\ kv' = [kv EXCEPT ![n] = [val |-> v, rev |-> Len(log) + 1, lease |-> l]]
    BY <1>1, <1>5, DiscoveryAssumption DEF Puts, Put, Event, Events, Record, Rev
  <2>2. QED
    BY <1>4, <2>1
<1>6. ASSUME NEW n, Erases(n)
      PROVE  /\ log' \in Seq(Events) /\ Grown(log', log)
             /\ kv' \in [Nodes -> Record]
             /\ \A m \in Nodes : Shows(log', kv'[m], m, Len(log'))
  <2>1. /\ n \in Nodes /\ Event(n, NoVal, NoLease) \in Events /\ NoRecord \in Record
        /\ Event(n, NoVal, NoLease).node = n /\ Event(n, NoVal, NoLease).val = NoVal
        /\ log' = Append(log, Event(n, NoVal, NoLease))
        /\ kv' = [kv EXCEPT ![n] = NoRecord]
    BY <1>6 DEF Erases, Event, Events, Record, NoRecord, NoLease
  <2>2. QED
    BY <1>4, <2>1
<1>7. QED
  BY <1>3, <1>5, <1>6 DEF Written

-----------------------------------------------------------------------------
(* Types.                                                                  *)

RegistryTypes ==
    /\ faults \in 0..MaxFaults
    /\ status \in [Nodes -> Statuses] /\ regVal \in [Nodes -> Valid \cup {NoVal}]
    /\ opc \in [Nodes -> OPCs] /\ oval \in [Nodes -> SelfSetup \cup {NoVal}]

WatchTypes ==
    /\ compacted \in 0..Rev /\ ready \in BOOLEAN /\ wpc \in WPCs
    /\ snap \in [kv : [Nodes -> Record], rev : Nat] /\ snap.rev \in 0..Rev
    /\ resume \in 0..Rev /\ hi \in 0..Rev /\ wrev \in 0..Rev /\ batch \in SUBSET (1..Rev)
    /\ gates \in [Nodes -> 0..Rev]

LeaseTypes ==
    /\ records \in [Nodes -> Record] /\ lobs \in Record
    /\ granted \in 0..MaxLeases /\ leases \in SUBSET (1..granted) /\ lid \in 0..granted
    /\ lpc \in LPCs /\ lnode \in Nodes \cup {NoNode} /\ lval \in Valid \cup {NoVal}
    /\ lpc # "idle" => lnode \in Nodes
    /\ lpc \in Leasing => lid \in 1..granted

\* The types fall into the store's, the registry's, the watcher's and the lease manager's.
LEMMA TypedParts ==
    Typed <=> /\ log \in Seq(Events) /\ kv \in [Nodes -> Record]
              /\ RegistryTypes /\ WatchTypes /\ LeaseTypes
BY DEF Typed, TypeOK, Events, RegistryTypes, WatchTypes, LeaseTypes

\* The records that there can be.
LEMMA Records ==
    /\ NoRecord \in Record
    /\ NoSnap \in [kv : [Nodes -> Record], rev : Nat] /\ NoSnap.rev = 0
    /\ \A v \in Values \cup {NoVal}, k \in Nat, l \in Nat : [val |-> v, rev |-> k, lease |-> l] \in Record
    /\ \A r \in Record, l \in Nat : [r EXCEPT !.lease = l] \in Record
<1>1. NoRecord \in Record
  BY DEF NoRecord, Record, NoLease
<1>2. QED
  BY <1>1 DEF Record, NoSnap

\* A gate moves to a revision of the history.
LEMMA GateMoves ==
    ASSUME NEW m \in Nat, NEW p \in Nat, m <= p, NEW g \in [Nodes -> 0..m], NEW k \in 0..m, NEW x
    PROVE  g \in [Nodes -> 0..p] /\ [g EXCEPT ![x] = k] \in [Nodes -> 0..p]
<1>1. \A n \in Nodes : g[n] \in 0..p
  OBVIOUS
<1>2. g \in [Nodes -> 0..p] /\ k \in 0..p
  BY <1>1
<1>3. QED
  BY <1>2

\* Every step keeps the types.
LEMMA TypedNext ==
    ASSUME Inv, Next
    PROVE  Typed'
<1>1. /\ log \in Seq(Events) /\ kv \in [Nodes -> Record]
      /\ RegistryTypes /\ WatchTypes /\ LeaseTypes
  BY TypedParts DEF Inv
<1>2. log' \in Seq(Events) /\ kv' \in [Nodes -> Record] /\ Grown(log', log)
  BY WrittenNext, WrittenGrows
<1>3. Rev \in Nat /\ Rev' \in Nat /\ Rev <= Rev'
  BY <1>1, <1>2 DEF Rev, Grown
<1>4. ASSUME RegistryTypes', WatchTypes', LeaseTypes'
      PROVE  Typed'
  BY <1>2, <1>4 DEF Typed, TypeOK, Events, RegistryTypes, WatchTypes, LeaseTypes
<1> USE DEF storeVars, registryVars, leaseVars, watcherVars, healthVars, localVars
<1>5. ASSUME NEW n \in Nodes, NEW v \in Values, NEW leased \in BOOLEAN, OtherPut(n, v, leased)
      PROVE  Typed'
  <2>1. RegistryTypes'
    BY <1>1, <1>5, DiscoveryAssumption DEF RegistryTypes, Statuses, OPCs, OtherPut
  <2>2. WatchTypes'
    BY <1>1, <1>3, <1>5 DEF WatchTypes, WPCs, OtherPut
  <2>3. LeaseTypes'
    BY <1>1, <1>5, DiscoveryAssumption, Records DEF LeaseTypes, LPCs, Leasing, NoLease, OtherPut
  <2>4. QED
    BY <1>4, <2>1, <2>2, <2>3
<1>6. ASSUME NEW n \in Nodes, OtherDelete(n)
      PROVE  Typed'
  <2>1. RegistryTypes'
    BY <1>1, <1>6, DiscoveryAssumption DEF RegistryTypes, Statuses, OPCs, OtherDelete
  <2>2. WatchTypes'
    BY <1>1, <1>3, <1>6 DEF WatchTypes, WPCs, OtherDelete
  <2>3. LeaseTypes'
    BY <1>1, <1>6, DiscoveryAssumption, Records DEF LeaseTypes, LPCs, Leasing, NoLease, OtherDelete
  <2>4. QED
    BY <1>4, <2>1, <2>2, <2>3
<1>7. ASSUME NEW l \in leases, LeaseExpires(l)
      PROVE  Typed'
  <2>1. RegistryTypes'
    BY <1>1, <1>7, DiscoveryAssumption DEF RegistryTypes, Statuses, OPCs, LeaseExpires, EndLease
  <2>2. WatchTypes'
    BY <1>1, <1>3, <1>7 DEF WatchTypes, WPCs, LeaseExpires, EndLease
  <2>3. LeaseTypes'
    BY <1>1, <1>7, DiscoveryAssumption, Records DEF LeaseTypes, LPCs, Leasing, NoLease,
       LeaseExpires, EndLease
  <2>4. QED
    BY <1>4, <2>1, <2>2, <2>3
<1>8. ASSUME Compact
      PROVE  Typed'
  <2>1. RegistryTypes'
    BY <1>1, <1>8, DiscoveryAssumption DEF RegistryTypes, Statuses, OPCs, Compact
  <2>2. WatchTypes'
    BY <1>1, <1>3, <1>8 DEF WatchTypes, WPCs, Compact
  <2>3. LeaseTypes'
    BY <1>1, <1>8, DiscoveryAssumption, Records DEF LeaseTypes, LPCs, Leasing, NoLease, Compact
  <2>4. QED
    BY <1>4, <2>1, <2>2, <2>3
<1>9. ASSUME NEW n \in Nodes, Sweep(n)
      PROVE  Typed'
  <2>1. RegistryTypes'
    BY <1>1, <1>9, DiscoveryAssumption DEF RegistryTypes, Statuses, OPCs, Sweep
  <2>2. WatchTypes'
    BY <1>1, <1>3, <1>9 DEF WatchTypes, WPCs, Sweep
  <2>3. LeaseTypes'
    BY <1>1, <1>9, DiscoveryAssumption, Records DEF LeaseTypes, LPCs, Leasing, NoLease, Sweep
  <2>4. QED
    BY <1>4, <2>1, <2>2, <2>3
<1>10. ASSUME NEW loads \in BOOLEAN, InitialLoad(loads)
      PROVE  Typed'
  <2>1. RegistryTypes'
    BY <1>1, <1>10, DiscoveryAssumption DEF RegistryTypes, Statuses, OPCs, InitialLoad, Fault,
       WatcherOnly
  <2>2. WatchTypes'
    BY <1>1, <1>3, <1>10 DEF WatchTypes, WPCs, InitialLoad, Fault, WatcherOnly
  <2>3. LeaseTypes'
    BY <1>1, <1>10, DiscoveryAssumption, Records DEF LeaseTypes, LPCs, Leasing, NoLease,
       InitialLoad, Fault, WatcherOnly
  <2>4. QED
    BY <1>4, <2>1, <2>2, <2>3
<1>11. ASSUME TakeSnapshot
      PROVE  Typed'
  <2>1. RegistryTypes'
    BY <1>1, <1>11, DiscoveryAssumption DEF RegistryTypes, Statuses, OPCs, TakeSnapshot, WatcherOnly
  <2>2. WatchTypes'
    BY <1>1, <1>3, <1>11 DEF WatchTypes, WPCs, TakeSnapshot, WatcherOnly
  <2>3. LeaseTypes'
    BY <1>1, <1>11, DiscoveryAssumption, Records DEF LeaseTypes, LPCs, Leasing, NoLease,
       TakeSnapshot, WatcherOnly
  <2>4. QED
    BY <1>4, <2>1, <2>2, <2>3
<1>12. ASSUME Reconcile
      PROVE  Typed'
  <2>1. RegistryTypes'
    BY <1>1, <1>12, DiscoveryAssumption DEF RegistryTypes, Statuses, OPCs, Reconcile, Discovered,
       WatcherOnly
  <2>2. WatchTypes'
    <3>1. \A n \in Nodes : snap.kv[n].rev \in 0..Rev
      <4>1. TAKE n \in Nodes
      <4>2. Shows(log, snap.kv[n], n, snap.rev) /\ snap.rev \in 0..Rev
        BY <1>1, <1>12 DEF Inv, WatchOK, WatchTypes, Reconcile
      <4>3. snap.kv[n] = NoRecord \/ \E i \in 1..snap.rev : snap.kv[n] = Rec(log, i)
        BY <4>2 DEF Shows, Last
      <4>4. snap.kv[n].rev = 0 \/ snap.kv[n].rev \in 1..snap.rev
        <5>1. NoRecord.rev = 0
          BY DEF NoRecord
        <5>2. \A i : Rec(log, i).rev = i
          BY DEF Rec
        <5>3. QED
          BY <4>3, <5>1, <5>2
      <4>5. QED
        BY <1>3, <4>2, <4>4
    <3>2. gates' \in [Nodes -> 0..Rev']
      BY <1>1, <1>3, <1>12, <3>1 DEF WatchTypes, Reconcile
    <3>3. QED
      BY <1>1, <1>3, <1>12, <3>2 DEF WatchTypes, WPCs, Reconcile, WatcherOnly
  <2>3. LeaseTypes'
    BY <1>1, <1>12, DiscoveryAssumption, Records DEF LeaseTypes, LPCs, Leasing, NoLease,
       Reconcile, Discovered, WatcherOnly
  <2>4. QED
    BY <1>4, <2>1, <2>2, <2>3
<1>13. ASSUME ReconcileLeases
      PROVE  Typed'
  <2>1. RegistryTypes'
    BY <1>1, <1>13, DiscoveryAssumption DEF RegistryTypes, Statuses, OPCs, ReconcileLeases,
       NoSnap, WatcherOnly
  <2>2. WatchTypes'
    <3>1. snap' \in [kv : [Nodes -> Record], rev : Nat] /\ snap'.rev = 0
      BY <1>13, Records DEF ReconcileLeases
    <3>2. QED
      BY <1>1, <1>3, <1>13, <3>1 DEF WatchTypes, WPCs, ReconcileLeases, WatcherOnly
  <2>3. LeaseTypes'
    <3>1. \A n \in Nodes : snap.kv[n] \in Record
      BY <1>1 DEF WatchTypes
    <3>2. records' \in [Nodes -> Record]
      BY <1>13, <3>1, Records DEF ReconcileLeases
    <3>3. QED
      BY <1>1, <1>13, <3>2 DEF LeaseTypes, ReconcileLeases, WatcherOnly
  <2>4. QED
    BY <1>4, <2>1, <2>2, <2>3
<1>14. ASSUME OpenStream
      PROVE  Typed'
  <2>1. RegistryTypes'
    BY <1>1, <1>14, DiscoveryAssumption DEF RegistryTypes, Statuses, OPCs, OpenStream, WatcherOnly
  <2>2. WatchTypes'
    BY <1>1, <1>3, <1>14 DEF WatchTypes, WPCs, OpenStream, WatcherOnly
  <2>3. LeaseTypes'
    BY <1>1, <1>14, DiscoveryAssumption, Records DEF LeaseTypes, LPCs, Leasing, NoLease,
       OpenStream, WatcherOnly
  <2>4. QED
    BY <1>4, <2>1, <2>2, <2>3
<1>15. ASSUME WatchCompacted
      PROVE  Typed'
  <2>1. RegistryTypes'
    BY <1>1, <1>15, DiscoveryAssumption DEF RegistryTypes, Statuses, OPCs, WatchCompacted,
       WatcherOnly
  <2>2. WatchTypes'
    BY <1>1, <1>3, <1>15 DEF WatchTypes, WPCs, WatchCompacted, WatcherOnly
  <2>3. LeaseTypes'
    BY <1>1, <1>15, DiscoveryAssumption, Records DEF LeaseTypes, LPCs, Leasing, NoLease,
       WatchCompacted, WatcherOnly
  <2>4. QED
    BY <1>4, <2>1, <2>2, <2>3
<1>16. ASSUME ReceiveBatch
      PROVE  Typed'
  <2>1. RegistryTypes'
    BY <1>1, <1>16, DiscoveryAssumption DEF RegistryTypes, Statuses, OPCs, ReceiveBatch, WatcherOnly
  <2>2. WatchTypes'
    BY <1>1, <1>3, <1>16 DEF WatchTypes, WPCs, ReceiveBatch, WatcherOnly
  <2>3. LeaseTypes'
    BY <1>1, <1>16, DiscoveryAssumption, Records DEF LeaseTypes, LPCs, Leasing, NoLease,
       ReceiveBatch, WatcherOnly
  <2>4. QED
    BY <1>4, <2>1, <2>2, <2>3
<1>17. ASSUME NEW k \in batch, SkipEvent(k)
      PROVE  Typed'
  <2>1. RegistryTypes'
    BY <1>1, <1>17, DiscoveryAssumption DEF RegistryTypes, Statuses, OPCs, SkipEvent, WatcherOnly
  <2>2. WatchTypes'
    <3>1. k \in 0..Rev
      BY <1>1 DEF WatchTypes
    <3>2. gates' \in [Nodes -> 0..Rev'] /\ batch' \in SUBSET (1..Rev')
      <4>1. gates \in [Nodes -> 0..Rev] /\ batch \in SUBSET (1..Rev)
        BY <1>1 DEF WatchTypes
      <4>2. /\ gates' = gates \/ gates' = [gates EXCEPT ![log[k].node] = k]
            /\ batch' = batch \ {k}
        BY <1>17 DEF SkipEvent
      <4>3. QED
        BY <1>3, <3>1, <4>1, <4>2, GateMoves
    <3>3. QED
      BY <1>1, <1>3, <1>17, <3>2 DEF WatchTypes, WPCs, SkipEvent, WatcherOnly
  <2>3. LeaseTypes'
    BY <1>1, <1>17, DiscoveryAssumption, Records DEF LeaseTypes, LPCs, Leasing, NoLease,
       SkipEvent, WatcherOnly
  <2>4. QED
    BY <1>4, <2>1, <2>2, <2>3
<1>18. ASSUME NEW k \in batch, ApplyPut(k)
      PROVE  Typed'
  <2>1. RegistryTypes'
    BY <1>1, <1>18, DiscoveryAssumption DEF RegistryTypes, Statuses, OPCs, ApplyPut, Discovered,
       WatcherOnly
  <2>2. WatchTypes'
    BY <1>1, <1>3, <1>18 DEF WatchTypes, WPCs, ApplyPut, Discovered, WatcherOnly
  <2>3. LeaseTypes'
    BY <1>1, <1>18, DiscoveryAssumption, Records DEF LeaseTypes, LPCs, Leasing, NoLease, ApplyPut,
       Discovered, WatcherOnly
  <2>4. QED
    BY <1>4, <2>1, <2>2, <2>3
<1>19. ASSUME ObservePut
      PROVE  Typed'
  <2>1. RegistryTypes'
    BY <1>1, <1>19, DiscoveryAssumption DEF RegistryTypes, Statuses, OPCs, ObservePut, EventDone,
       WatcherOnly
  <2>2. WatchTypes'
    <3>1. gates' \in [Nodes -> 0..Rev'] /\ batch' \in SUBSET (1..Rev')
      <4>1. gates \in [Nodes -> 0..Rev] /\ wrev \in 0..Rev /\ batch \in SUBSET (1..Rev)
        BY <1>1 DEF WatchTypes
      <4>2. gates' = [gates EXCEPT ![log[wrev].node] = wrev] /\ batch' = batch \ {wrev}
        BY <1>19 DEF ObservePut, EventDone
      <4>3. QED
        BY <1>3, <4>1, <4>2, GateMoves
    <3>2. QED
      BY <1>1, <1>3, <1>19, <3>1 DEF WatchTypes, WPCs, ObservePut, EventDone, WatcherOnly
  <2>3. LeaseTypes'
    <3>1. wrev \in 1..Rev
      BY <1>1, <1>19 DEF Inv, WatchOK, WatchTypes, ObservePut
    <3>2. log[wrev] \in Events
      BY <1>1, <3>1 DEF Rev
    <3>3. [val |-> log[wrev].val, rev |-> wrev, lease |-> log[wrev].lease] \in Record
      BY <3>1, <3>2, <1>3, Records DEF Events
    <3>4. records' \in [Nodes -> Record]
      BY <1>1, <1>19, <3>3 DEF LeaseTypes, ObservePut
    <3>5. QED
      BY <1>1, <1>19, <3>4 DEF LeaseTypes, ObservePut, WatcherOnly
  <2>4. QED
    BY <1>4, <2>1, <2>2, <2>3
<1>20. ASSUME NEW k \in batch, ObserveDelete(k)
      PROVE  Typed'
  <2>1. RegistryTypes'
    BY <1>1, <1>20, DiscoveryAssumption DEF RegistryTypes, Statuses, OPCs, ObserveDelete,
       WatcherOnly
  <2>2. WatchTypes'
    BY <1>1, <1>3, <1>20 DEF WatchTypes, WPCs, ObserveDelete, WatcherOnly
  <2>3. LeaseTypes'
    BY <1>1, <1>20, DiscoveryAssumption, Records DEF LeaseTypes, LPCs, Leasing, NoLease,
       ObserveDelete, WatcherOnly
  <2>4. QED
    BY <1>4, <2>1, <2>2, <2>3
<1>21. ASSUME DrainDeleted
      PROVE  Typed'
  <2>1. RegistryTypes'
    BY <1>1, <1>21, DiscoveryAssumption DEF RegistryTypes, Statuses, OPCs, DrainDeleted, Draining,
       EventDone, WatcherOnly
  <2>2. WatchTypes'
    <3>1. gates' \in [Nodes -> 0..Rev'] /\ batch' \in SUBSET (1..Rev')
      <4>1. gates \in [Nodes -> 0..Rev] /\ wrev \in 0..Rev /\ batch \in SUBSET (1..Rev)
        BY <1>1 DEF WatchTypes
      <4>2. gates' = [gates EXCEPT ![log[wrev].node] = wrev] /\ batch' = batch \ {wrev}
        BY <1>21 DEF DrainDeleted, Draining, EventDone
      <4>3. QED
        BY <1>3, <4>1, <4>2, GateMoves
    <3>2. QED
      BY <1>1, <1>3, <1>21, <3>1 DEF WatchTypes, WPCs, DrainDeleted, Draining, EventDone,
         WatcherOnly
  <2>3. LeaseTypes'
    BY <1>1, <1>21, DiscoveryAssumption, Records DEF LeaseTypes, LPCs, Leasing, NoLease,
       DrainDeleted, Draining, EventDone, WatcherOnly
  <2>4. QED
    BY <1>4, <2>1, <2>2, <2>3
<1>22. ASSUME BatchDone
      PROVE  Typed'
  <2>1. RegistryTypes'
    BY <1>1, <1>22, DiscoveryAssumption DEF RegistryTypes, Statuses, OPCs, BatchDone, Larger,
       WatcherOnly
  <2>2. WatchTypes'
    BY <1>1, <1>3, <1>22 DEF WatchTypes, WPCs, BatchDone, Larger, WatcherOnly
  <2>3. LeaseTypes'
    BY <1>1, <1>22, DiscoveryAssumption, Records DEF LeaseTypes, LPCs, Leasing, NoLease,
       BatchDone, Larger, WatcherOnly
  <2>4. QED
    BY <1>4, <2>1, <2>2, <2>3
<1>23. ASSUME ReadTimeout
      PROVE  Typed'
  <2>1. RegistryTypes'
    BY <1>1, <1>23, DiscoveryAssumption DEF RegistryTypes, Statuses, OPCs, ReadTimeout, WatcherOnly
  <2>2. WatchTypes'
    BY <1>1, <1>3, <1>23 DEF WatchTypes, WPCs, ReadTimeout, WatcherOnly
  <2>3. LeaseTypes'
    BY <1>1, <1>23, DiscoveryAssumption, Records DEF LeaseTypes, LPCs, Leasing, NoLease,
       ReadTimeout, WatcherOnly
  <2>4. QED
    BY <1>4, <2>1, <2>2, <2>3
<1>24. ASSUME Disconnect
      PROVE  Typed'
  <2>1. RegistryTypes'
    BY <1>1, <1>24, DiscoveryAssumption DEF RegistryTypes, Statuses, OPCs, Disconnect, Fault,
       WatcherOnly
  <2>2. WatchTypes'
    BY <1>1, <1>3, <1>24 DEF WatchTypes, WPCs, Disconnect, Fault, WatcherOnly
  <2>3. LeaseTypes'
    BY <1>1, <1>24, DiscoveryAssumption, Records DEF LeaseTypes, LPCs, Leasing, NoLease,
       Disconnect, Fault, WatcherOnly
  <2>4. QED
    BY <1>4, <2>1, <2>2, <2>3
<1>25. ASSUME NEW n \in Probed, Probe(n)
      PROVE  Typed'
  <2>1. RegistryTypes'
    BY <1>1, <1>25, DiscoveryAssumption DEF RegistryTypes, Statuses, OPCs, Probe, HealthOnly, Quiet
  <2>2. WatchTypes'
    BY <1>1, <1>3, <1>25 DEF WatchTypes, WPCs, Probe, HealthOnly, Quiet
  <2>3. LeaseTypes'
    BY <1>1, <1>25, DiscoveryAssumption, Records DEF LeaseTypes, RegistryTypes, LPCs, Leasing,
       NoLease, Probe, HealthOnly, Quiet
  <2>4. QED
    BY <1>4, <2>1, <2>2, <2>3
<1>26. ASSUME ProbeFailed
      PROVE  Typed'
  <2>1. RegistryTypes'
    BY <1>1, <1>26, DiscoveryAssumption DEF RegistryTypes, Statuses, OPCs, ProbeFailed, LeaseIdle,
       HealthOnly, Quiet
  <2>2. WatchTypes'
    BY <1>1, <1>3, <1>26 DEF WatchTypes, WPCs, ProbeFailed, LeaseIdle, HealthOnly, Quiet
  <2>3. LeaseTypes'
    BY <1>1, <1>26, DiscoveryAssumption, Records DEF LeaseTypes, LPCs, Leasing, NoLease,
       ProbeFailed, LeaseIdle, HealthOnly, Quiet
  <2>4. QED
    BY <1>4, <2>1, <2>2, <2>3
<1>27. ASSUME ProbeOk
      PROVE  Typed'
  <2>1. RegistryTypes'
    BY <1>1, <1>27, DiscoveryAssumption DEF RegistryTypes, Statuses, OPCs, ProbeOk, Goes,
       LeaseIdle, HealthOnly, Quiet
  <2>2. WatchTypes'
    BY <1>1, <1>3, <1>27 DEF WatchTypes, WPCs, ProbeOk, Goes, LeaseIdle, HealthOnly, Quiet
  <2>3. LeaseTypes'
    BY <1>1, <1>27, DiscoveryAssumption, Records DEF LeaseTypes, LPCs, Leasing, NoLease, ProbeOk,
       Goes, LeaseIdle, HealthOnly, Quiet
  <2>4. QED
    BY <1>4, <2>1, <2>2, <2>3
<1>28. ASSUME FetchNode
      PROVE  Typed'
  <2>1. RegistryTypes'
    BY <1>1, <1>28, DiscoveryAssumption DEF RegistryTypes, Statuses, OPCs, FetchNode, Goes,
       LeaseIdle, HealthOnly, Quiet
  <2>2. WatchTypes'
    BY <1>1, <1>3, <1>28 DEF WatchTypes, WPCs, FetchNode, Goes, LeaseIdle, HealthOnly, Quiet
  <2>3. LeaseTypes'
    BY <1>1, <1>28, DiscoveryAssumption, Records DEF LeaseTypes, LPCs, Leasing, NoLease,
       FetchNode, Goes, LeaseIdle, HealthOnly, Quiet
  <2>4. QED
    BY <1>4, <2>1, <2>2, <2>3
<1>29. ASSUME LookUp
      PROVE  Typed'
  <2>1. RegistryTypes'
    BY <1>1, <1>29, DiscoveryAssumption DEF RegistryTypes, Statuses, OPCs, LookUp, LeaseIdle,
       HealthOnly, Quiet
  <2>2. WatchTypes'
    BY <1>1, <1>3, <1>29 DEF WatchTypes, WPCs, LookUp, LeaseIdle, HealthOnly, Quiet
  <2>3. LeaseTypes'
    BY <1>1, <1>29, DiscoveryAssumption, Records DEF LeaseTypes, LPCs, Leasing, NoLease, LookUp,
       LeaseIdle, HealthOnly, Quiet
  <2>4. QED
    BY <1>4, <2>1, <2>2, <2>3
<1>30. ASSUME Refresh
      PROVE  Typed'
  <2>1. RegistryTypes'
    BY <1>1, <1>30, DiscoveryAssumption DEF RegistryTypes, Statuses, OPCs, Refresh, LeaseIdle,
       HealthOnly, Quiet
  <2>2. WatchTypes'
    BY <1>1, <1>3, <1>30 DEF WatchTypes, WPCs, Refresh, LeaseIdle, HealthOnly, Quiet
  <2>3. LeaseTypes'
    BY <1>1, <1>30, DiscoveryAssumption, Records DEF LeaseTypes, LPCs, Leasing, NoLease, Refresh,
       LeaseIdle, HealthOnly, Quiet
  <2>4. QED
    BY <1>4, <2>1, <2>2, <2>3
<1>31. ASSUME Grant
      PROVE  Typed'
  <2>1. RegistryTypes'
    BY <1>1, <1>31, DiscoveryAssumption DEF RegistryTypes, Statuses, OPCs, Grant, HealthOnly
  <2>2. WatchTypes'
    BY <1>1, <1>3, <1>31 DEF WatchTypes, WPCs, Grant, HealthOnly
  <2>3. LeaseTypes'
    BY <1>1, <1>31, DiscoveryAssumption, Records DEF LeaseTypes, LPCs, Leasing, NoLease, Grant,
       HealthOnly
  <2>4. QED
    BY <1>4, <2>1, <2>2, <2>3
<1>32. ASSUME CallFails
      PROVE  Typed'
  <2>1. RegistryTypes'
    BY <1>1, <1>32, DiscoveryAssumption DEF RegistryTypes, Statuses, OPCs, CallFails, Fault,
       LeaseIdle, HealthOnly, Quiet
  <2>2. WatchTypes'
    BY <1>1, <1>3, <1>32 DEF WatchTypes, WPCs, CallFails, Fault, LeaseIdle, HealthOnly, Quiet
  <2>3. LeaseTypes'
    BY <1>1, <1>32, DiscoveryAssumption, Records DEF LeaseTypes, LPCs, Leasing, NoLease,
       CallFails, Fault, LeaseIdle, HealthOnly, Quiet
  <2>4. QED
    BY <1>4, <2>1, <2>2, <2>3
<1>33. ASSUME NEW answered \in BOOLEAN, Attach(answered)
      PROVE  Typed'
  <2>1. RegistryTypes'
    BY <1>1, <1>33, DiscoveryAssumption DEF RegistryTypes, Statuses, OPCs, Attach, Fault, Goes,
       HealthOnly
  <2>2. WatchTypes'
    BY <1>1, <1>3, <1>33 DEF WatchTypes, WPCs, Attach, Fault, Goes, HealthOnly
  <2>3. LeaseTypes'
    BY <1>1, <1>33, DiscoveryAssumption, Records DEF LeaseTypes, LPCs, Leasing, NoLease, Attach,
       Fault, Goes, HealthOnly
  <2>4. QED
    BY <1>4, <2>1, <2>2, <2>3
<1>34. ASSUME AttachFails
      PROVE  Typed'
  <2>1. RegistryTypes'
    BY <1>1, <1>34, DiscoveryAssumption DEF RegistryTypes, Statuses, OPCs, AttachFails, Fault,
       Goes, HealthOnly, Quiet
  <2>2. WatchTypes'
    BY <1>1, <1>3, <1>34 DEF WatchTypes, WPCs, AttachFails, Fault, Goes, HealthOnly, Quiet
  <2>3. LeaseTypes'
    BY <1>1, <1>34, DiscoveryAssumption, Records DEF LeaseTypes, LPCs, Leasing, NoLease,
       AttachFails, Fault, Goes, HealthOnly, Quiet
  <2>4. QED
    BY <1>4, <2>1, <2>2, <2>3
<1>35. ASSUME KeepLease
      PROVE  Typed'
  <2>1. RegistryTypes'
    BY <1>1, <1>35, DiscoveryAssumption DEF RegistryTypes, Statuses, OPCs, KeepLease, LeaseIdle,
       HealthOnly, Quiet
  <2>2. WatchTypes'
    BY <1>1, <1>3, <1>35 DEF WatchTypes, WPCs, KeepLease, LeaseIdle, HealthOnly, Quiet
  <2>3. LeaseTypes'
    BY <1>1, <1>35, DiscoveryAssumption, Records DEF LeaseTypes, LPCs, Leasing, NoLease,
       KeepLease, LeaseIdle, HealthOnly, Quiet
  <2>4. QED
    BY <1>4, <2>1, <2>2, <2>3
<1>36. ASSUME Revoke
      PROVE  Typed'
  <2>1. RegistryTypes'
    BY <1>1, <1>36, DiscoveryAssumption DEF RegistryTypes, Statuses, OPCs, Revoke, EndLease,
       LeaseIdle, HealthOnly
  <2>2. WatchTypes'
    BY <1>1, <1>3, <1>36 DEF WatchTypes, WPCs, Revoke, EndLease, LeaseIdle, HealthOnly
  <2>3. LeaseTypes'
    BY <1>1, <1>36, DiscoveryAssumption, Records DEF LeaseTypes, LPCs, Leasing, NoLease, Revoke,
       EndLease, LeaseIdle, HealthOnly
  <2>4. QED
    BY <1>4, <2>1, <2>2, <2>3
<1>37. ASSUME RevokeFails
      PROVE  Typed'
  <2>1. RegistryTypes'
    BY <1>1, <1>37, DiscoveryAssumption DEF RegistryTypes, Statuses, OPCs, RevokeFails, Fault,
       LeaseIdle, HealthOnly, Quiet
  <2>2. WatchTypes'
    BY <1>1, <1>3, <1>37 DEF WatchTypes, WPCs, RevokeFails, Fault, LeaseIdle, HealthOnly, Quiet
  <2>3. LeaseTypes'
    BY <1>1, <1>37, DiscoveryAssumption, Records DEF LeaseTypes, LPCs, Leasing, NoLease,
       RevokeFails, Fault, LeaseIdle, HealthOnly, Quiet
  <2>4. QED
    BY <1>4, <2>1, <2>2, <2>3
<1>38. ASSUME NEW n \in Local, NEW v \in SelfSetup, RegisterPut(n, v)
      PROVE  Typed'
  <2>1. RegistryTypes'
    BY <1>1, <1>38, DiscoveryAssumption DEF RegistryTypes, Statuses, OPCs, RegisterPut, Step,
       LocalOnly
  <2>2. WatchTypes'
    BY <1>1, <1>3, <1>38 DEF WatchTypes, WPCs, RegisterPut, Step, LocalOnly
  <2>3. LeaseTypes'
    BY <1>1, <1>38, DiscoveryAssumption, Records DEF LeaseTypes, LPCs, Leasing, NoLease,
       RegisterPut, Step, LocalOnly
  <2>4. QED
    BY <1>4, <2>1, <2>2, <2>3
<1>39. ASSUME NEW n \in Local, TeardownDrain(n)
      PROVE  Typed'
  <2>1. RegistryTypes'
    BY <1>1, <1>39, DiscoveryAssumption DEF RegistryTypes, Statuses, OPCs, TeardownDrain, Step,
       LocalOnly
  <2>2. WatchTypes'
    BY <1>1, <1>3, <1>39 DEF WatchTypes, WPCs, TeardownDrain, Step, LocalOnly
  <2>3. LeaseTypes'
    BY <1>1, <1>39, DiscoveryAssumption, Records DEF LeaseTypes, LPCs, Leasing, NoLease,
       TeardownDrain, Step, LocalOnly
  <2>4. QED
    BY <1>4, <2>1, <2>2, <2>3
<1>40. ASSUME NEW n \in Local, RegisterAdd(n)
      PROVE  Typed'
  <2>1. RegistryTypes'
    BY <1>1, <1>40, DiscoveryAssumption DEF RegistryTypes, Statuses, OPCs, Valid, RegisterAdd,
       Step, LocalOnly
  <2>2. WatchTypes'
    BY <1>1, <1>3, <1>40 DEF WatchTypes, WPCs, RegisterAdd, Step, LocalOnly
  <2>3. LeaseTypes'
    BY <1>1, <1>40, DiscoveryAssumption, Records DEF LeaseTypes, LPCs, Leasing, NoLease,
       RegisterAdd, Step, LocalOnly
  <2>4. QED
    BY <1>4, <2>1, <2>2, <2>3
<1>41. ASSUME NEW n \in Local, DeleteKey(n)
      PROVE  Typed'
  <2>1. RegistryTypes'
    BY <1>1, <1>41, DiscoveryAssumption DEF RegistryTypes, Statuses, OPCs, DeleteKey, Step,
       LocalOnly
  <2>2. WatchTypes'
    BY <1>1, <1>3, <1>41 DEF WatchTypes, WPCs, DeleteKey, Step, LocalOnly
  <2>3. LeaseTypes'
    BY <1>1, <1>41, DiscoveryAssumption, Records DEF LeaseTypes, LPCs, Leasing, NoLease,
       DeleteKey, Step, LocalOnly
  <2>4. QED
    BY <1>4, <2>1, <2>2, <2>3
<1>42. ASSUME NEW n \in Local, RemoveNode(n)
      PROVE  Typed'
  <2>1. RegistryTypes'
    BY <1>1, <1>42, DiscoveryAssumption DEF RegistryTypes, Statuses, OPCs, RemoveNode, Step,
       LocalOnly
  <2>2. WatchTypes'
    BY <1>1, <1>3, <1>42 DEF WatchTypes, WPCs, RemoveNode, Step, LocalOnly
  <2>3. LeaseTypes'
    BY <1>1, <1>42, DiscoveryAssumption, Records DEF LeaseTypes, LPCs, Leasing, NoLease,
       RemoveNode, Step, LocalOnly
  <2>4. QED
    BY <1>4, <2>1, <2>2, <2>3
<1>43. QED
  BY <1>5, <1>6, <1>7, <1>8, <1>9, <1>10, <1>11, <1>12, <1>13, <1>14, <1>15, <1>16, <1>17, <1>18,
     <1>19, <1>20, <1>21, <1>22, <1>23, <1>24, <1>25, <1>26, <1>27, <1>28, <1>29, <1>30, <1>31,
     <1>32, <1>33, <1>34, <1>35, <1>36, <1>37, <1>38, <1>39, <1>40, <1>41, <1>42 DEF Next,
     StoreStep, WatcherStep, WatcherFault, LeaseStep, LocalStep

-----------------------------------------------------------------------------
(* Leases in the store.                                                    *)

\* A lease on a key is alive, on no other key, and not the one about to be attached.
Attached ==
    /\ \A n \in Nodes : kv[n].lease # NoLease => kv[n].lease \in leases
    /\ \A m, n \in Nodes : kv[m].lease # NoLease /\ kv[m].lease = kv[n].lease => m = n
    /\ lpc = "attach" => \A n \in Nodes : kv[n].lease # lid

\* A record without a value is no record.
LEMMA ShowsNone ==
    ASSUME NEW lg, NEW r, NEW n, NEW k, Shows(lg, r, n, k), r.val = NoVal
    PROVE  r = NoRecord
<1>1. CASE Last(lg, n, k) = {}
  BY <1>1 DEF Shows
<1>2. ASSUME NEW i \in Last(lg, n, k)
      PROVE  r = NoRecord
  <2>1. r = NoRecord \/ (lg[i].val # NoVal /\ r = Rec(lg, i))
    BY DEF Shows
  <2>2. Rec(lg, i).val = lg[i].val
    BY DEF Rec
  <2>3. QED
    BY <2>1, <2>2
<1>3. QED
  BY <1>1, <1>2

\* Deleting a key, and ending its lease, leaves no lease without its key.
LEMMA ErasedAttached ==
    ASSUME Inv, NEW n \in Nodes, Erase(n), leases' = leases \/ leases' = leases \ {kv[n].lease},
           lpc' = "attach" => lpc = "attach" /\ lid' = lid
    PROVE  Attached'
<1>1. kv \in [Nodes -> Record] /\ Attached
  BY DEF Inv, Typed, TypeOK, StoreOK, Attached
<1>2. CASE kv[n].val = NoVal
  <2>1. kv[n] = NoRecord
    BY <1>2, ShowsNone DEF Inv, StoreOK
  <2>2. kv' = kv /\ kv[n].lease = NoLease
    BY <1>2, <2>1 DEF Erase, NoRecord
  <2>3. QED
    BY <1>1, <2>2 DEF Attached
<1>3. CASE kv[n].val # NoVal
  <2>1. kv' = [kv EXCEPT ![n] = NoRecord]
    BY <1>3 DEF Erase
  <2>2. kv'[n].lease = NoLease /\ \A m \in Nodes : m # n => kv'[m] = kv[m]
    BY <1>1, <2>1 DEF NoRecord
  <2>3. lpc = "attach" => lid # NoLease
    BY DEF Inv, Typed, TypeOK, Leasing, NoLease
  <2>4. QED
    BY <1>1, <2>2, <2>3 DEF Attached
<1>4. QED
  BY <1>2, <1>3

\* The end of a lease.
LEMMA EndedAttached ==
    ASSUME Inv, NEW l \in Nat \ {0}, EndLease(l), lpc' = "attach" => lpc = "attach" /\ lid' = lid
    PROVE  Attached'
<1>1. CASE AttachedTo(l) = {} /\ UNCHANGED <<log, kv>>
  <2>1. \A n \in Nodes : kv[n].lease # l
    <3>1. TAKE n \in Nodes
    <3>2. CASE kv[n].val = NoVal
      <4>1. kv[n] = NoRecord
        BY <3>2, ShowsNone DEF Inv, StoreOK
      <4>2. QED
        BY <4>1 DEF NoRecord, NoLease
    <3>3. CASE kv[n].val # NoVal
      BY <1>1, <3>3 DEF AttachedTo
    <3>4. QED
      BY <3>2, <3>3
  <2>2. QED
    BY <1>1, <2>1 DEF Inv, StoreOK, Attached, EndLease
<1>2. CASE \E n \in AttachedTo(l) : Erase(n)
  <2>1. PICK n \in AttachedTo(l) : Erase(n)
    BY <1>2
  <2>2. n \in Nodes /\ kv[n].lease = l
    BY DEF AttachedTo
  <2>3. QED
    BY <2>1, <2>2, ErasedAttached DEF EndLease
<1>3. QED
  BY <1>1, <1>2 DEF EndLease

\* Every step keeps the store's records and leases together.
LEMMA StoreNext ==
    ASSUME Inv, Next
    PROVE  StoreOK'
<1>1. /\ kv \in [Nodes -> Record] /\ Attached /\ granted \in Nat /\ leases \in SUBSET (1..granted)
      /\ lpc \in Leasing => lid \in 1..granted
  BY DEF Inv, Typed, TypeOK, StoreOK, Attached
<1>2. SUFFICES Attached'
  <2>1. \A n \in Nodes : Shows(log', kv'[n], n, Len(log'))
    BY WrittenNext, WrittenGrows
  <2>2. QED
    BY <2>1 DEF StoreOK, Attached, Rev
<1>3. ASSUME UNCHANGED <<kv, leases>>, lpc' = "attach" => lpc = "attach" /\ lid' = lid
      PROVE  Attached'
  BY <1>1, <1>3 DEF Attached
<1>4. ASSUME NEW n \in Nodes, NEW v, Put(n, v, NoLease), UNCHANGED <<leases, lpc, lid>>
      PROVE  Attached'
  <2>1. kv'[n].lease = NoLease /\ \A m \in Nodes : m # n => kv'[m] = kv[m]
    BY <1>1, <1>4 DEF Put
  <2>2. lpc = "attach" => lid # NoLease
    BY <1>1 DEF Leasing, NoLease
  <2>3. QED
    BY <1>1, <1>4, <2>1, <2>2 DEF Attached
<1>5. \A n \in Nodes : kv[n].lease # granted + 1
  <2>1. TAKE n \in Nodes
  <2>2. kv[n].lease = 0 \/ kv[n].lease \in 1..granted
    BY <1>1 DEF Attached, NoLease
  <2>3. QED
    BY <1>1, <2>2
<1>6. ASSUME NEW n \in Nodes, NEW v, NEW leased, OtherPut(n, v, leased)
      PROVE  Attached'
  <2>1. UNCHANGED <<lpc, lid>>
    BY <1>6 DEF OtherPut, healthVars
  <2>2. CASE Put(n, v, NoLease) /\ UNCHANGED leases
    BY <1>4, <2>1, <2>2
  <2>3. CASE Put(n, v, granted + 1) /\ leases' = leases \cup {granted + 1}
    <3>1. kv'[n].lease = granted + 1 /\ \A m \in Nodes : m # n => kv'[m] = kv[m]
      BY <1>1, <2>3 DEF Put
    <3>2. lpc = "attach" => lid # granted + 1
      BY <1>1 DEF Leasing
    <3>3. QED
      BY <1>1, <1>5, <2>1, <2>3, <3>1, <3>2 DEF Attached
  <2>4. QED
    BY <1>6, <2>2, <2>3 DEF OtherPut
<1>7. ASSUME NEW n \in Nodes, OtherDelete(n) \/ DeleteKey(n)
      PROVE  Attached'
  BY <1>7, ErasedAttached DEF OtherDelete, DeleteKey, LocalOnly, healthVars
<1>8. ASSUME NEW l \in leases, LeaseExpires(l)
      PROVE  Attached'
  <2>1. l \in Nat \ {0}
    BY <1>1
  <2>2. QED
    BY <1>8, <2>1, EndedAttached DEF LeaseExpires, healthVars
<1>9. CASE Grant
  <2>1. kv' = kv /\ leases' = leases \cup {granted + 1} /\ lid' = granted + 1
    BY <1>9 DEF Grant
  <2>2. QED
    BY <1>1, <1>5, <2>1 DEF Attached
<1>10. ASSUME NEW answered, Attach(answered)
       PROVE  Attached'
  <2>1. UNCHANGED leases /\ lpc' # "attach" /\ lpc = "attach" /\ lnode \in Nodes
    BY <1>10 DEF Attach, Goes, Inv, Typed
  <2>2. CASE lid \in leases /\ Put(lnode, lobs.val, lid)
    <3>1. kv'[lnode].lease = lid /\ \A m \in Nodes : m # lnode => kv'[m] = kv[m]
      BY <1>1, <2>1, <2>2 DEF Put
    <3>2. QED
      BY <1>1, <2>1, <2>2, <3>1 DEF Attached
  <2>3. CASE UNCHANGED kv
    BY <1>3, <2>1, <2>3
  <2>4. QED
    BY <1>10, <2>2, <2>3 DEF Attach
<1>11. CASE Revoke
  <2>1. lid \in Nat \ {0} /\ EndLease(lid) /\ lpc' = "idle"
    BY <1>1, <1>11 DEF Revoke, Leasing, LeaseIdle
  <2>2. QED
    BY <2>1, EndedAttached
<1>12. ASSUME NEW n \in Nodes, NEW v \in SelfSetup, RegisterPut(n, v)
       PROVE  Attached'
  BY <1>4, <1>12 DEF RegisterPut, LocalOnly, healthVars
<1>13. CASE StoreStep
  BY <1>3, <1>6, <1>7, <1>8, <1>13 DEF StoreStep, Compact, healthVars
<1>14. CASE WatcherStep \/ WatcherFault
  BY <1>3, <1>14
     DEF WatcherStep, WatcherFault, WatcherOnly, storeVars, healthVars, InitialLoad, TakeSnapshot,
         Reconcile, ReconcileLeases, OpenStream, WatchCompacted, ReceiveBatch, SkipEvent, ApplyPut,
         ObservePut, ObserveDelete, DrainDeleted, BatchDone, ReadTimeout, Disconnect
<1>15. CASE LeaseStep
  BY <1>3, <1>9, <1>10, <1>11, <1>15
     DEF LeaseStep, Quiet, Goes, LeaseIdle, Probe, ProbeFailed, ProbeOk, FetchNode, LookUp, Refresh,
         CallFails, AttachFails, KeepLease, RevokeFails
<1>16. ASSUME NEW n \in Local, TeardownDrain(n) \/ LocalStep(n)
       PROVE  Attached'
  BY <1>3, <1>7, <1>16, DiscoveryAssumption
     DEF LocalStep, TeardownDrain, RegisterAdd, RemoveNode, LocalOnly, healthVars
<1>17. CASE \E n \in Nodes : Sweep(n)
  BY <1>3, <1>17 DEF Sweep, storeVars, healthVars
<1>18. QED
  BY <1>12, <1>13, <1>14, <1>15, <1>16, <1>17, DiscoveryAssumption DEF Next

-----------------------------------------------------------------------------
(* The watcher's snapshot, gates and responses.                            *)

\* Every step keeps what the watcher works on.
LEMMA WatchNext ==
    ASSUME Inv, Next
    PROVE  WatchOK'
<1>1. /\ log \in Seq(Events) /\ log' \in Seq(Events) /\ Grown(log', log) /\ WatchOK
      /\ Rev \in Nat /\ snap.rev \in 0..Rev /\ resume \in 0..Rev /\ hi \in 0..Rev
      /\ wrev \in 0..Rev /\ batch \in SUBSET (1..Rev) /\ gates \in [Nodes -> 0..Rev] /\ wpc \in WPCs
  <2>1. log' \in Seq(Events) /\ Grown(log', log)
    BY WrittenNext, WrittenGrows
  <2>2. log \in Seq(Events) /\ WatchTypes
    BY TypedParts DEF Inv
  <2>3. Rev \in Nat
    BY <2>2 DEF Rev
  <2>4. QED
    BY <2>1, <2>2, <2>3 DEF Inv, WatchTypes
<1>2. \A i \in 1..Rev : log'[i] = log[i] /\ log[i] \in Events
  BY <1>1 DEF Grown, Rev
<1>3. CASE UNCHANGED watcherVars
  <2>1. UNCHANGED <<wpc, snap, resume, gates, batch, hi, wrev>>
    BY <1>3 DEF watcherVars
  <2>2. wpc \in {"reconcile", "leases"} => \A n \in Nodes : Shows(log', snap.kv[n], n, snap.rev)
    <3>1. snap.rev \in 0..Len(log)
      BY <1>1 DEF Rev
    <3>2. QED
      BY <1>1, <3>1, ShowsKept DEF WatchOK
  <2>3. wpc \in Reading =>
          \A k \in resume + 1 .. hi : k \in batch \/ k <= gates[log'[k].node]
    BY <1>1, <1>2 DEF WatchOK
  <2>4. wpc \in {"observe", "drain"} => log'[wrev] = log[wrev]
    BY <1>1, <1>2 DEF WatchOK
  <2>5. QED
    BY <1>1, <2>1, <2>2, <2>3, <2>4 DEF WatchOK
<1> USE DEF WatcherOnly, storeVars
<1>4. CASE \E loads \in BOOLEAN : InitialLoad(loads)
  BY <1>4 DEF InitialLoad, WatchOK, Reading
<1>5. CASE TakeSnapshot
  <2>1. wpc' = "reconcile" /\ snap' = [kv |-> kv, rev |-> Rev] /\ log' = log
    BY <1>5 DEF TakeSnapshot
  <2>2. QED
    BY <2>1 DEF Inv, StoreOK, WatchOK, Reading, Rev
<1>6. CASE Reconcile
  <2>1. wpc' = "leases" /\ snap' = snap /\ log' = log /\ wpc = "reconcile"
        /\ gates' = [n \in Nodes |-> IF n \in Missing THEN snap.rev ELSE snap.kv[n].rev]
    BY <1>6 DEF Reconcile
  <2>2. \A n \in Nodes : snap.kv[n].rev <= snap.rev
    <3>1. TAKE n \in Nodes
    <3>2. Shows(log, snap.kv[n], n, snap.rev)
      BY <1>1, <2>1 DEF WatchOK
    <3>3. snap.kv[n] = NoRecord \/ \E i \in 1..snap.rev : snap.kv[n] = Rec(log, i)
      BY <3>2 DEF Shows, Last
    <3>4. NoRecord.rev = 0 /\ \A i : Rec(log, i).rev = i
      BY DEF NoRecord, Rec
    <3>5. QED
      BY <1>1, <3>3, <3>4
  <2>3. QED
    BY <1>1, <2>1, <2>2 DEF WatchOK, Reading
<1>7. CASE ReconcileLeases \/ OpenStream \/ WatchCompacted \/ BatchDone \/ ReadTimeout \/ Disconnect
  BY <1>7 DEF ReconcileLeases, OpenStream, WatchCompacted, BatchDone, ReadTimeout, Disconnect,
         WatchOK, Reading
<1>8. CASE ReceiveBatch
  <2>1. PICK r \in resume + 1 .. Rev : hi' = r /\ batch' = resume + 1 .. r
    BY <1>8 DEF ReceiveBatch
  <2>2. wpc' = "batch" /\ resume' = resume
    BY <1>8 DEF ReceiveBatch
  <2>3. QED
    BY <1>1, <2>1, <2>2 DEF WatchOK
<1>9. ASSUME NEW k \in batch, SkipEvent(k)
      PROVE  WatchOK'
  <2>1. /\ wpc = "batch" /\ wpc' = "batch" /\ log' = log /\ UNCHANGED <<resume, hi>>
        /\ batch' = batch \ {k}
        /\ gates' = IF Stale(k) THEN gates ELSE [gates EXCEPT ![log[k].node] = k]
    BY <1>9 DEF SkipEvent
  <2>2. k \in 1..Rev /\ log[k].node \in Nodes
    BY <1>1, <1>2 DEF Events
  <2>3. \A n \in Nodes : gates[n] <= gates'[n]
    BY <1>1, <2>1, <2>2 DEF Stale
  <2>4. k <= gates'[log[k].node]
    BY <1>1, <2>1, <2>2 DEF Stale
  <2>5. gates' \in [Nodes -> 0..Rev]
    BY <1>1, <2>1, <2>2, GateMoves
  <2>6. \A j \in resume + 1 .. hi : j \in batch' \/ j <= gates'[log[j].node]
    <3>1. TAKE j \in resume + 1 .. hi
    <3>2. log[j].node \in Nodes /\ (j \in batch \/ j <= gates[log[j].node])
      BY <1>1, <1>2, <2>1 DEF WatchOK, Reading, Events
    <3>3. QED
      BY <1>1, <2>1, <2>3, <2>4, <2>5, <3>2
  <2>7. QED
    BY <1>1, <2>1, <2>6 DEF WatchOK, Reading
<1>10. ASSUME NEW k \in batch, ApplyPut(k) \/ ObserveDelete(k)
       PROVE  WatchOK'
  <2>1. /\ wpc = "batch" /\ wpc' \in {"observe", "drain"} /\ log' = log
        /\ UNCHANGED <<resume, hi, batch, gates>> /\ wrev' = k /\ ~(k <= gates[log[k].node])
        /\ wpc' = "observe" => log[k].val \in Valid
        /\ wpc' = "drain" => log[k].val = NoVal
    BY <1>10 DEF ApplyPut, ObserveDelete, Stale
  <2>2. gates[log[k].node] < k
    BY <1>1, <1>2, <2>1 DEF Events
  <2>3. QED
    BY <1>1, <2>1, <2>2 DEF WatchOK, Reading
<1>11. CASE ObservePut \/ DrainDeleted
  <2>1. /\ wpc \in {"observe", "drain"} /\ wpc' = "batch" /\ log' = log /\ UNCHANGED <<resume, hi>>
        /\ batch' = batch \ {wrev}
        /\ gates' = [gates EXCEPT ![log[wrev].node] = wrev]
    BY <1>11 DEF ObservePut, DrainDeleted, EventDone
  <2>2. wrev \in 1..Rev /\ log[wrev].node \in Nodes /\ gates[log[wrev].node] < wrev
    BY <1>1, <1>2, <2>1 DEF WatchOK, Events
  <2>3. \A n \in Nodes : gates[n] <= gates'[n]
    BY <1>1, <2>1, <2>2
  <2>4. gates' \in [Nodes -> 0..Rev] /\ gates'[log[wrev].node] = wrev
    BY <1>1, <2>1, <2>2, GateMoves
  <2>5. \A j \in resume + 1 .. hi : j \in batch' \/ j <= gates'[log[j].node]
    <3>1. TAKE j \in resume + 1 .. hi
    <3>2. log[j].node \in Nodes /\ (j \in batch \/ j <= gates[log[j].node])
      BY SMTT(30), <1>1, <1>2, <2>1 DEF WatchOK, Reading, Events
    <3>3. QED
      BY <1>1, <2>1, <2>3, <2>4, <3>2
  <2>6. QED
    BY <1>1, <2>1, <2>5 DEF WatchOK, Reading
<1>12. CASE StoreStep \/ LeaseStep \/ (\E n \in Nodes : Sweep(n))
  BY <1>3, <1>12
     DEF StoreStep, OtherPut, OtherDelete, LeaseExpires, Compact, LeaseStep, HealthOnly, Probe,
         ProbeFailed, ProbeOk, FetchNode, LookUp, Refresh, Grant, CallFails, Attach, AttachFails,
         KeepLease, Revoke, RevokeFails, Sweep
<1>13. ASSUME NEW n \in Local, (\E v \in SelfSetup : RegisterPut(n, v)) \/ TeardownDrain(n) \/ LocalStep(n)
       PROVE  WatchOK'
  BY <1>3, <1>13 DEF RegisterPut, TeardownDrain, LocalStep, RegisterAdd, DeleteKey, RemoveNode,
     LocalOnly
<1>14. QED
  BY <1>4, <1>5, <1>6, <1>7, <1>8, <1>9, <1>10, <1>11, <1>12, <1>13
     DEF Next, WatcherStep, WatcherFault

-----------------------------------------------------------------------------
(* The registry.                                                           *)

\* What the watcher's steps work on, before and after a step.
LEMMA Watching ==
    ASSUME Inv, Next
    PROVE  /\ log \in Seq(Events) /\ log' \in Seq(Events) /\ Grown(log', log)
           /\ Len(log) \in Nat /\ Rev = Len(log)
           /\ WatchTypes /\ WatchOK /\ RegistryOK
           /\ status \in [Nodes -> Statuses] /\ regVal \in [Nodes -> Valid \cup {NoVal}]
           /\ \A i \in 1..Len(log) : log'[i] = log[i] /\ log[i] \in Events
           /\ \A n \in Nodes : Reached(n) \in 0..Len(log)
<1>1. log' \in Seq(Events) /\ Grown(log', log)
  BY WrittenNext, WrittenGrows
<1>2. log \in Seq(Events) /\ WatchTypes /\ RegistryTypes
  BY TypedParts DEF Inv
<1>3. Len(log) \in Nat /\ Rev = Len(log)
  BY <1>2 DEF Rev
<1>4. \A i \in 1..Len(log) : log'[i] = log[i] /\ log[i] \in Events
  BY <1>1, <1>2 DEF Grown
<1>5. \A n \in Nodes : Reached(n) \in 0..Len(log)
  <2>1. resume \in 0..Len(log) /\ \A n \in Nodes : gates[n] \in 0..Len(log)
    BY <1>2, <1>3 DEF WatchTypes
  <2>2. QED
    BY <1>3, <2>1 DEF Reached, Larger
<1>6. QED
  BY <1>1, <1>2, <1>3, <1>4, <1>5 DEF Inv, RegistryTypes

\* Nothing of a node is left between where the watcher has come and the end of a
\* response that is done.
LEMMA NoneLeft ==
    ASSUME Inv, Next, BatchDone, NEW n \in Nodes
    PROVE  /\ Reached(n)' \in 0..Len(log) /\ Reached(n) <= Reached(n)'
           /\ Last(log, n, Reached(n)') = Last(log, n, Reached(n))
<1>1. /\ wpc = "batch" /\ batch = {} /\ resume' = Larger(resume, hi) /\ gates' = gates
      /\ wpc \in Reading
  BY DEF BatchDone, Reading
<1>2. /\ Len(log) \in Nat /\ resume \in 0..Len(log) /\ hi \in 0..Len(log)
      /\ \A m \in Nodes : gates[m] \in 0..Len(log)
  BY Watching DEF WatchTypes
<1>3. resume < hi /\ \A k \in resume + 1 .. hi : k <= gates[log[k].node]
  BY <1>1, Watching DEF WatchOK
<1>4. resume' = hi
  BY <1>1, <1>2, <1>3 DEF Larger
<1>5. PICK g \in 0..Len(log) : g = gates[n]
  BY <1>2
<1>6. Reached(n) = Larger(resume, g) /\ Reached(n)' = Larger(hi, g)
  BY <1>1, <1>4, <1>5 DEF Reached
<1>7. /\ Reached(n) \in Nat /\ Reached(n)' \in 0..Len(log) /\ Reached(n) <= Reached(n)'
  BY <1>2, <1>3, <1>6 DEF Larger
<1>8. \A k \in Reached(n) + 1 .. Reached(n)' : log[k].node # n
  <2>1. SUFFICES ASSUME NEW k \in Reached(n) + 1 .. Reached(n)', log[k].node = n
                 PROVE  FALSE
    OBVIOUS
  <2>2. k \in resume + 1 .. hi /\ ~(k <= g)
    BY <1>2, <1>3, <1>6, <1>7 DEF Larger
  <2>3. QED
    BY <1>3, <1>5, <2>1, <2>2
<1>9. QED
  BY <1>7, <1>8, LastStays

\* Every step keeps the registry in line with the watcher.
LEMMA RegistryNext ==
    ASSUME Inv, Next
    PROVE  RegistryOK'
<1>1. /\ log \in Seq(Events) /\ log' \in Seq(Events) /\ Grown(log', log)
      /\ Len(log) \in Nat /\ Rev = Len(log)
      /\ WatchTypes /\ WatchOK /\ RegistryOK
      /\ status \in [Nodes -> Statuses] /\ regVal \in [Nodes -> Valid \cup {NoVal}]
      /\ \A i \in 1..Len(log) : log'[i] = log[i] /\ log[i] \in Events
      /\ \A n \in Nodes : Reached(n) \in 0..Len(log)
  BY Watching
<1>2. ASSUME UNCHANGED watcherVars,
             \A n \in Nodes \ Local : SameSide(status[n], regVal[n], status'[n], regVal'[n])
      PROVE  RegistryOK'
  <2>1. UNCHANGED <<wpc, snap, resume, gates, batch, hi, wrev>>
    BY <1>2 DEF watcherVars
  <2>2. snap.rev \in 0..Len(log) /\ wrev \in 0..Len(log)
    BY <1>1 DEF WatchTypes
  <2>3. wpc \in {"observe", "drain"} => log'[wrev] = log[wrev]
    BY <1>1, <2>2 DEF WatchOK, WatchTypes
  <2>4. SUFFICES ASSUME NEW n \in Nodes \ Local
                 PROVE  /\ wpc = "leases" => Shown(n, snap.rev)'
                        /\ wpc \in {"open", "stream", "batch"} => Shown(n, Reached(n))'
                        /\ wpc \in {"observe", "drain"} /\ log[wrev].node # n => Shown(n, Reached(n))'
                        /\ wpc = "observe" /\ log[wrev].node = n =>
                              status'[n] \in Up /\ regVal'[n] = log[wrev].val
    BY <2>1, <2>3 DEF RegistryOK
  <2>5. \A k \in 0..Len(log) : MirrorsAt(log, status[n], regVal[n], n, k)
                                => MirrorsAt(log', status'[n], regVal'[n], n, k)
    BY <1>1, <1>2, MirrorsKept
  <2>6. Reached(n)' = Reached(n) /\ Reached(n) \in 0..Len(log)
    BY <1>1, <2>1 DEF Reached
  <2>7. QED
    BY <1>1, <1>2, <2>1, <2>2, <2>5, <2>6 DEF RegistryOK, Shown, SameSide
<1>3. ASSUME UNCHANGED registryVars, UNCHANGED watcherVars
      PROVE  RegistryOK'
  BY <1>2, <1>3 DEF registryVars, SameSide
<1> USE DEF WatcherOnly, storeVars, registryVars, leaseVars
<1>4. CASE (\E loads \in BOOLEAN : InitialLoad(loads)) \/ TakeSnapshot \/ WatchCompacted
  BY <1>4 DEF InitialLoad, TakeSnapshot, WatchCompacted, RegistryOK
<1>5. CASE Reconcile
  <2>1. wpc = "reconcile" /\ wpc' = "leases" /\ snap' = snap /\ log' = log
    BY <1>5 DEF Reconcile
  <2>2. SUFFICES ASSUME NEW n \in Nodes
                 PROVE  MirrorsAt(log, status'[n], regVal'[n], n, snap.rev)
    BY <2>1 DEF RegistryOK, Shown
  <2>3. Shows(log, snap.kv[n], n, snap.rev)
    BY <1>1, <2>1 DEF WatchOK
  <2>4. /\ snap.kv[n].val \in Valid => status'[n] \in Up /\ regVal'[n] = snap.kv[n].val
        /\ snap.kv[n].val = NoVal => status'[n] \in Down
    BY <1>1, <1>5, DiscoveryAssumption DEF Reconcile, Missing, Discovered, Statuses, Up, Down,
       Values
  <2>5. NoRecord.val = NoVal /\ \A i : Rec(log, i).val = log[i].val
    BY DEF NoRecord, Rec
  <2>6. QED
    BY <2>3, <2>4, <2>5, DiscoveryAssumption DEF MirrorsAt, Shows, Values
<1>6. CASE ReconcileLeases
  <2>1. /\ wpc = "leases" /\ wpc' = "open" /\ log' = log /\ UNCHANGED <<status, regVal, gates>>
        /\ resume' = snap.rev
    BY <1>6 DEF ReconcileLeases
  <2>2. SUFFICES ASSUME NEW n \in Nodes \ Local
                 PROVE  Shown(n, Reached(n))'
    BY <2>1 DEF RegistryOK
  <2>3. Reached(n)' = snap.rev
    BY <1>1, <2>1 DEF WatchOK, WatchTypes, Reached, Larger
  <2>4. QED
    BY <1>1, <2>1, <2>3 DEF RegistryOK, Shown
<1>7. CASE OpenStream \/ ReceiveBatch \/ ReadTimeout \/ Disconnect
  <2>1. /\ wpc \in {"open", "stream", "batch"} /\ wpc' \in {"open", "stream", "batch"}
        /\ log' = log /\ UNCHANGED <<status, regVal, gates, resume>>
    BY <1>7 DEF OpenStream, ReceiveBatch, ReadTimeout, Disconnect
  <2>2. QED
    BY <1>1, <2>1 DEF RegistryOK, Shown, Reached
<1>8. CASE BatchDone
  <2>1. wpc = "batch" /\ wpc' = "stream" /\ log' = log /\ UNCHANGED <<status, regVal>>
    BY <1>8 DEF BatchDone
  <2>2. SUFFICES ASSUME NEW n \in Nodes \ Local
                 PROVE  Shown(n, Reached(n))'
    BY <2>1 DEF RegistryOK
  <2>3. Last(log, n, Reached(n)') = Last(log, n, Reached(n))
    BY <1>8, NoneLeft
  <2>4. QED
    BY <1>1, <2>1, <2>3 DEF RegistryOK, Shown, MirrorsAt
<1>9. ASSUME NEW k \in batch, SkipEvent(k)
      PROVE  RegistryOK'
  <2>1. /\ wpc = "batch" /\ wpc' = "batch" /\ log' = log /\ UNCHANGED <<status, regVal, resume>>
        /\ gates' = gates \/ (log[k].val \in Malformed /\ gates' = [gates EXCEPT ![log[k].node] = k])
    BY <1>9 DEF SkipEvent
  <2>2. SUFFICES ASSUME NEW n \in Nodes \ Local
                 PROVE  Shown(n, Reached(n))'
    BY <2>1 DEF RegistryOK
  <2>3. CASE gates'[n] = gates[n]
    BY <1>1, <2>1, <2>3 DEF RegistryOK, Shown, Reached
  <2>4. CASE gates'[n] # gates[n]
    <3>1. k \in Nat \ {0} /\ resume \in Nat /\ resume < k
      BY <1>1, <2>1 DEF WatchTypes, WatchOK, Reading
    <3>2. n = log[k].node /\ gates'[n] = k /\ log[k].val \in Malformed
      BY <1>1, <2>1, <2>4 DEF WatchTypes
    <3>3. Reached(n)' = k
      BY <2>1, <3>1, <3>2 DEF Reached, Larger
    <3>4. Last(log, n, k) = {k}
      BY <3>1, <3>2, LastHere
    <3>5. QED
      BY <2>1, <3>2, <3>3, <3>4, DiscoveryAssumption DEF Shown, MirrorsAt, Values
  <2>5. QED
    BY <2>3, <2>4
<1>10. ASSUME NEW k \in batch, ApplyPut(k) \/ ObserveDelete(k)
       PROVE  RegistryOK'
  <2>1. /\ wpc = "batch" /\ wpc' \in {"observe", "drain"} /\ log' = log
        /\ UNCHANGED <<gates, resume>> /\ wrev' = k
    BY <1>10 DEF ApplyPut, ObserveDelete
  <2>2. \A n \in Nodes : n # log[k].node => status'[n] = status[n] /\ regVal'[n] = regVal[n]
    BY <1>1, <1>10 DEF ApplyPut, ObserveDelete
  <2>3. wpc' = "observe" => ApplyPut(k)
    BY <1>10 DEF ObserveDelete
  <2>4. \A n \in Nodes : wpc' = "observe" /\ n = log[k].node
                          => status'[n] \in Up /\ regVal'[n] = log[k].val
    BY <1>1, <2>3 DEF ApplyPut, Discovered, Up
  <2>5. QED
    BY <1>1, <2>1, <2>2, <2>4 DEF RegistryOK, Shown, Reached
<1>11. CASE ObservePut \/ DrainDeleted
  <2>1. /\ wpc \in {"observe", "drain"} /\ wpc' = "batch" /\ log' = log /\ UNCHANGED resume
        /\ gates' = [gates EXCEPT ![log[wrev].node] = wrev]
    BY <1>11 DEF ObservePut, DrainDeleted, EventDone
  <2>2. SUFFICES ASSUME NEW n \in Nodes \ Local
                 PROVE  MirrorsAt(log, status'[n], regVal'[n], n, Reached(n)')
    BY <2>1 DEF RegistryOK, Shown
  <2>3. CASE n # log[wrev].node
    <3>1. status'[n] = status[n] /\ regVal'[n] = regVal[n] /\ gates'[n] = gates[n]
      BY <1>1, <1>11, <2>1, <2>3 DEF ObservePut, DrainDeleted, WatchTypes
    <3>2. QED
      BY <1>1, <2>1, <2>3, <3>1 DEF RegistryOK, Shown, Reached
  <2>4. CASE n = log[wrev].node
    <3>1. wrev \in Nat \ {0} /\ resume \in Nat /\ resume < wrev
      BY <1>1, <2>1 DEF WatchTypes, WatchOK, Reading
    <3>2. Reached(n)' = wrev
      BY <1>1, <2>1, <2>4, <3>1 DEF WatchTypes, Reached, Larger
    <3>3. Last(log, n, wrev) = {wrev}
      BY <2>4, <3>1, LastHere
    <3>4. CASE ObservePut
      <4>1. log[wrev].val \in Valid /\ status'[n] \in Up /\ regVal'[n] = log[wrev].val
        BY <1>1, <2>4, <3>4 DEF ObservePut, WatchOK, RegistryOK
      <4>2. QED
        BY <3>2, <3>3, <4>1, DiscoveryAssumption DEF MirrorsAt, Values
    <3>5. CASE DrainDeleted
      <4>1. log[wrev].val = NoVal /\ status'[n] \in Down
        BY <1>1, <2>4, <3>5 DEF DrainDeleted, Draining, WatchOK, Down
      <4>2. QED
        BY <3>2, <3>3, <4>1, DiscoveryAssumption DEF MirrorsAt, Values
    <3>6. QED
      BY <1>11, <3>4, <3>5
  <2>5. QED
    BY <2>3, <2>4
<1>12. CASE StoreStep
  BY <1>3, <1>12 DEF StoreStep, OtherPut, OtherDelete, LeaseExpires, Compact
<1>13. CASE LeaseStep /\ UNCHANGED <<status, regVal>>
  BY <1>3, <1>13
     DEF LeaseStep, HealthOnly, Probe, ProbeFailed, ProbeOk, FetchNode, LookUp, Refresh, Grant,
         CallFails, Attach, AttachFails, KeepLease, Revoke, RevokeFails
<1>14. CASE ProbeFailed \/ ProbeOk \/ \E n \in Nodes : Sweep(n)
  <2>1. UNCHANGED watcherVars
    BY <1>14 DEF ProbeFailed, ProbeOk, Sweep, HealthOnly
  <2>2. \A n \in Nodes : SameSide(status[n], regVal[n], status'[n], regVal'[n])
    BY <1>1, <1>14 DEF ProbeFailed, ProbeOk, Sweep, SameSide, Up, Down
  <2>3. QED
    BY <1>2, <2>1, <2>2
<1>15. CASE LeaseStep
  BY <1>13, <1>14, <1>15
     DEF LeaseStep, Probe, FetchNode, LookUp, Refresh, Grant, CallFails, Attach, AttachFails,
         KeepLease, Revoke, RevokeFails
<1>16. ASSUME NEW m \in Local, (\E v \in SelfSetup : RegisterPut(m, v)) \/ TeardownDrain(m) \/ LocalStep(m)
       PROVE  RegistryOK'
  <2>1. UNCHANGED watcherVars
    BY <1>16 DEF RegisterPut, TeardownDrain, LocalStep, RegisterAdd, DeleteKey, RemoveNode,
       LocalOnly
  <2>2. \A n \in Nodes \ Local : status'[n] = status[n] /\ regVal'[n] = regVal[n]
    BY <1>1, <1>16 DEF RegisterPut, TeardownDrain, LocalStep, RegisterAdd, DeleteKey, RemoveNode
  <2>3. QED
    BY <1>2, <2>1, <2>2 DEF SameSide
<1>17. QED
  BY <1>4, <1>5, <1>6, <1>7, <1>8, <1>9, <1>10, <1>11, <1>12, <1>14, <1>15, <1>16
     DEF Next, WatcherStep, WatcherFault

-----------------------------------------------------------------------------
(* The lease manager's observations.                                       *)

\* The fields of the records that events leave.
LEMMA Fields ==
    /\ NoRecord.val = NoVal /\ NoRecord.rev = 0 /\ NoRecord.lease = NoLease
    /\ \A lg, i : Rec(lg, i).val = lg[i].val /\ Rec(lg, i).rev = i /\ Rec(lg, i).lease = lg[i].lease
    /\ \A r \in Record : \A l : /\ [r EXCEPT !.lease = l].val = r.val
                                /\ [r EXCEPT !.lease = l].rev = r.rev
                                /\ [r EXCEPT !.lease = l].lease = l
BY DEF NoRecord, Rec, Record

\* What has been observed goes on being events of the node.
LEMMA ToldNext ==
    ASSUME Inv, Next
    PROVE  Told'
<1>1. /\ log \in Seq(Events) /\ log' \in Seq(Events) /\ Grown(log', log)
      /\ Len(log) \in Nat /\ Rev = Len(log)
      /\ WatchTypes /\ WatchOK
      /\ \A i \in 1..Len(log) : log'[i] = log[i] /\ log[i] \in Events
  BY Watching
<1>2. /\ Told /\ records \in [Nodes -> Record] /\ lobs \in Record
      /\ lpc # "idle" => lnode \in Nodes
  BY DEF Inv, LeasesOK, Typed, TypeOK
<1>3. \A n, r : Observation(log, r, n) => Observation(log', r, n)
  BY <1>1, ObservationKept
<1>4. \A n : \A i \in Nat : Moved(log, n, i) => Moved(log', n, i)
  BY <1>1, MovedKept
<1>5. \A n : Observation(log', NoRecord, n)
  BY Fields DEF Observation
<1>6. ASSUME UNCHANGED <<lpc, lnode, lobs>>, \A n \in Nodes : Observation(log', records'[n], n)
      PROVE  Told'
  <2>1. lobs.rev \in Nat
    BY <1>2 DEF Record
  <2>2. QED
    BY <1>2, <1>3, <1>4, <1>6, <2>1 DEF Told
<1>7. ASSUME lpc' \notin Acting, \A n \in Nodes : Observation(log', records'[n], n)
      PROVE  Told'
  BY <1>7 DEF Told, Acting
<1>8. ASSUME UNCHANGED records
      PROVE  \A n \in Nodes : Observation(log', records'[n], n)
  BY <1>2, <1>3, <1>8 DEF Told
<1> USE DEF WatcherOnly, storeVars, registryVars, leaseVars, healthVars
<1>9. CASE ReconcileLeases
  <2>1. \A n \in Nodes : Observation(log', records'[n], n)
    <3>1. TAKE n \in Nodes
    <3>2. Shows(log, snap.kv[n], n, snap.rev) /\ snap.rev \in 0..Len(log) /\ log' = log
      BY <1>1, <1>9 DEF ReconcileLeases, WatchOK, WatchTypes
    <3>3. CASE snap.kv[n].val = NoVal
      <4>1. records'[n] = NoRecord
        BY <1>9, <3>3, DiscoveryAssumption DEF ReconcileLeases, Values
      <4>2. QED
        BY <1>5, <4>1
    <3>4. CASE snap.kv[n].val # NoVal
      <4>1. PICK i \in Last(log, n, snap.rev) : snap.kv[n] = Rec(log, i)
        BY <3>2, <3>4, Fields DEF Shows
      <4>2. i \in 1..Len(log) /\ log[i].node = n
        BY <3>2 DEF Last
      <4>3. Observation(log', Rec(log, i), n)
        BY <3>2, <4>2, Fields DEF Observation
      <4>4. records'[n] = Rec(log, i) \/ records'[n] = NoRecord
        BY <1>9, <4>1 DEF ReconcileLeases
      <4>5. QED
        BY <1>5, <4>3, <4>4
    <3>5. QED
      BY <3>3, <3>4
  <2>2. QED
    BY <1>6, <1>9, <2>1 DEF ReconcileLeases
<1>10. CASE ObservePut
  <2>1. wrev \in 1..Len(log) /\ log' = log
    BY <1>1, <1>10 DEF ObservePut, WatchOK, WatchTypes
  <2>2. Observation(log', Rec(log, wrev), log[wrev].node)
    BY <2>1, Fields DEF Observation
  <2>3. \A n \in Nodes : records'[n] = records[n] \/ (n = log[wrev].node /\ records'[n] = Rec(log, wrev))
    BY <1>2, <1>10 DEF ObservePut, Rec
  <2>4. QED
    BY <1>2, <1>3, <1>6, <1>10, <2>2, <2>3 DEF ObservePut, Told
<1>11. ASSUME NEW k \in batch, ObserveDelete(k)
       PROVE  Told'
  <2>1. \A n \in Nodes : records'[n] = records[n] \/ records'[n] = NoRecord
    BY <1>2, <1>11 DEF ObserveDelete
  <2>2. QED
    BY <1>2, <1>3, <1>5, <1>6, <1>11, <2>1 DEF ObserveDelete, Told
<1>12. CASE LookUp
  <2>1. \A n \in Nodes : Observation(log', records'[n], n)
    BY <1>8, <1>12 DEF LookUp
  <2>2. CASE lpc' \in Acting
    <3>1. /\ lpc' \in {"refresh", "grant"} /\ lobs' = records[lnode] /\ lnode' = lnode
          /\ records[lnode].val # NoVal /\ (lpc' = "refresh" => records[lnode].lease # NoLease)
          /\ lnode \in Nodes
      BY <1>2, <1>12, <2>2 DEF LookUp, LeaseIdle, Acting
    <3>2. Observation(log', records[lnode], lnode)
      BY <1>2, <1>3, <3>1 DEF Told
    <3>3. QED
      BY <2>1, <3>1, <3>2 DEF Told
  <2>3. QED
    BY <1>7, <2>1, <2>2
<1>13. CASE Refresh
  <2>1. \A n \in Nodes : records'[n] = records[n] \/ records'[n] = NoRecord
    BY <1>2, <1>13 DEF Refresh
  <2>2. lpc' = "idle"
    BY <1>13 DEF Refresh, LeaseIdle
  <2>3. QED
    BY <1>2, <1>3, <1>5, <1>7, <2>1, <2>2 DEF Told, Acting
<1>14. CASE KeepLease
  <2>1. lpc = "keep" /\ lpc' = "idle" /\ lnode \in Nodes /\ log' = log
    BY <1>2, <1>14 DEF KeepLease, LeaseIdle, Quiet
  <2>2. \A n \in Nodes : \/ records'[n] = records[n]
                         \/ n = lnode /\ records'[n] = [lobs EXCEPT !.lease = lid]
    BY <1>2, <1>14 DEF KeepLease
  <2>3. Observation(log', [lobs EXCEPT !.lease = lid], lnode)
    BY <1>2, <2>1, Fields DEF Told, Acting, Observation
  <2>4. QED
    BY <1>2, <1>3, <1>7, <2>1, <2>2, <2>3 DEF Told, Acting
<1>15. ASSUME NEW answered, Attach(answered)
       PROVE  Told'
  <2>1. /\ lpc = "attach" /\ lpc' \in {"keep", "revoke"} /\ UNCHANGED <<lnode, lobs, records>>
        /\ lpc' = "keep" => Put(lnode, lobs.val, lid)
    BY <1>15 DEF Attach, Goes
  <2>2. lobs.val # NoVal /\ Observation(log, lobs, lnode)
    BY <1>2, <2>1 DEF Told, Acting
  <2>3. lpc' = "keep" => Moved(log', lnode, lobs.rev)
    <3>1. SUFFICES ASSUME Put(lnode, lobs.val, lid) PROVE Moved(log', lnode, lobs.rev)
      BY <2>1
    <3>2. lobs.rev \in 1..Len(log)
      BY <2>2 DEF Observation
    <3>3. Len(log') = Len(log) + 1 /\ log'[Len(log) + 1].node = lnode
      BY <1>1, <3>1 DEF Put, Event
    <3>4. Len(log) + 1 \in lobs.rev + 1 .. Len(log')
      BY <1>1, <3>2, <3>3
    <3>5. QED
      BY <3>3, <3>4 DEF Moved
  <2>4. QED
    BY <1>3, <1>8, <2>1, <2>2, <2>3 DEF Told
<1>16. CASE StoreStep
  BY <1>6, <1>8, <1>16 DEF StoreStep, OtherPut, OtherDelete, LeaseExpires, Compact
<1>17. CASE WatcherStep \/ WatcherFault
  BY <1>6, <1>8, <1>9, <1>10, <1>11, <1>17
     DEF WatcherStep, WatcherFault, InitialLoad, TakeSnapshot, Reconcile, OpenStream,
         WatchCompacted, ReceiveBatch, SkipEvent, ApplyPut, DrainDeleted, BatchDone, ReadTimeout,
         Disconnect
<1>18. CASE \/ (\E n \in Probed : Probe(n)) \/ ProbeFailed \/ ProbeOk \/ FetchNode \/ CallFails
            \/ Revoke \/ RevokeFails
  BY <1>7, <1>8, <1>18
     DEF Probe, ProbeFailed, ProbeOk, FetchNode, CallFails, Revoke, RevokeFails, Goes, LeaseIdle,
         Acting
<1>19. CASE Grant \/ AttachFails
  <2>1. /\ lpc \in {"grant", "attach"} /\ lpc' \in {"attach", "revoke"}
        /\ UNCHANGED <<lnode, lobs, records>>
    BY <1>19 DEF Grant, AttachFails, Goes
  <2>2. QED
    BY <1>2, <1>3, <1>8, <2>1 DEF Told, Acting
<1>20. CASE LeaseStep
  BY <1>12, <1>13, <1>14, <1>15, <1>18, <1>19, <1>20 DEF LeaseStep
<1>21. ASSUME NEW m \in Local, (\E v \in SelfSetup : RegisterPut(m, v)) \/ TeardownDrain(m) \/ LocalStep(m)
       PROVE  Told'
  BY <1>6, <1>8, <1>21
     DEF RegisterPut, TeardownDrain, LocalStep, RegisterAdd, DeleteKey, RemoveNode, LocalOnly
<1>22. CASE \E n \in Nodes : Sweep(n)
  BY <1>6, <1>8, <1>22 DEF Sweep
<1>23. QED
  BY <1>16, <1>17, <1>20, <1>21, <1>22 DEF Next

\* A node whose observed lease has ended has an event that the observation is not of.
LEMMA EndedMoved ==
    ASSUME Inv, NEW n \in Nodes, NEW k \in 0..Len(log), NEW i \in Last(log, n, k),
           log[i].val # NoVal, log[i].lease # NoLease, log[i].lease \notin leases
    PROVE  Moved(log, n, i)
<1>1. log \in Seq(Events) /\ Len(log) \in Nat
  BY TypedParts DEF Inv
<1>2. SUFFICES ASSUME ~Moved(log, n, i) PROVE FALSE
  OBVIOUS
<1>3. i \in 1..Len(log) /\ log[i].node = n
  BY DEF Last
<1>4. i \in Last(log, n, Len(log))
  BY <1>1, <1>2, <1>3 DEF Last, Moved
<1>5. kv[n] = Rec(log, i)
  BY <1>4 DEF Inv, StoreOK, Shows, Rev
<1>6. kv[n].lease = log[i].lease
  BY <1>5, Fields
<1>7. QED
  BY <1>6 DEF Inv, StoreOK

\* Every step keeps the lease manager in line with the watcher.
LEMMA SeenNext ==
    ASSUME Inv, Next
    PROVE  Seen'
<1>1. /\ log \in Seq(Events) /\ log' \in Seq(Events) /\ Grown(log', log)
      /\ Len(log) \in Nat /\ Rev = Len(log)
      /\ WatchTypes /\ WatchOK
      /\ \A i \in 1..Len(log) : log'[i] = log[i] /\ log[i] \in Events
      /\ \A n \in Nodes : Reached(n) \in 0..Len(log)
  BY Watching
<1>2. /\ Told /\ Seen /\ records \in [Nodes -> Record] /\ lobs \in Record
      /\ lpc # "idle" => lnode \in Nodes
  BY DEF Inv, LeasesOK, Typed, TypeOK
<1>3. ASSUME UNCHANGED <<watcherVars, records>>
      PROVE  Seen'
  <2>1. UNCHANGED <<wpc, snap, resume, gates, batch, hi, wrev, records>>
    BY <1>3 DEF watcherVars
  <2>2. wpc = "drain" => log'[wrev] = log[wrev]
    BY <1>1 DEF WatchOK, WatchTypes
  <2>3. \A n \in Nodes : Reached(n)' = Reached(n)
    BY <2>1 DEF Reached
  <2>4. \A n \in Nodes : Observes(log, records[n], n, Reached(n))
                          => Observes(log', records[n], n, Reached(n))
    BY <1>1, ObservesKept
  <2>5. QED
    BY <1>2, <2>1, <2>2, <2>3, <2>4 DEF Seen
<1> USE DEF WatcherOnly, storeVars, registryVars, leaseVars, healthVars
<1>4. CASE (\E loads \in BOOLEAN : InitialLoad(loads)) \/ TakeSnapshot \/ Reconcile \/ WatchCompacted
  BY <1>4 DEF InitialLoad, TakeSnapshot, Reconcile, WatchCompacted, Seen, Mirroring
<1>5. CASE ReconcileLeases
  <2>1. /\ wpc = "leases" /\ wpc' = "open" /\ log' = log /\ UNCHANGED gates /\ resume' = snap.rev
        /\ records' = [n \in Nodes |-> IF snap.kv[n].val \in Valid THEN snap.kv[n] ELSE NoRecord]
    BY <1>5 DEF ReconcileLeases
  <2>2. SUFFICES ASSUME NEW n \in Nodes
                 PROVE  Observes(log, records'[n], n, Reached(n)')
    BY <2>1 DEF Seen
  <2>3. Reached(n)' = snap.rev /\ snap.rev \in Nat
    BY <1>1, <2>1 DEF WatchOK, WatchTypes, Reached, Larger
  <2>4. Shows(log, snap.kv[n], n, snap.rev)
    BY <1>1, <2>1 DEF WatchOK
  <2>5. \A i \in Last(log, n, snap.rev) : i <= snap.rev
    BY <2>3 DEF Last
  <2>6. records'[n] = IF snap.kv[n].val \in Valid THEN snap.kv[n] ELSE NoRecord
    BY <2>1
  <2>7. records'[n].rev <= snap.rev
    BY <2>3, <2>4, <2>5, <2>6, Fields DEF Shows
  <2>8. NoVal \notin Valid
    BY DiscoveryAssumption DEF Values
  <2>9. Last(log, n, snap.rev) = {} => records'[n] = NoRecord
    BY <2>4, <2>6 DEF Shows
  <2>10. ASSUME NEW i \in Last(log, n, snap.rev)
         PROVE  /\ log[i].val = NoVal => records'[n] = NoRecord
                /\ log[i].val \in Valid => records'[n] = Rec(log, i)
    BY <2>4, <2>6, <2>8, Fields DEF Shows
  <2>11. QED
    BY <2>3, <2>7, <2>9, <2>10 DEF Observes
<1>6. CASE OpenStream \/ ReceiveBatch \/ ReadTimeout \/ Disconnect
  <2>1. /\ wpc \in {"open", "stream", "batch"} /\ wpc' \in {"open", "stream", "batch"}
        /\ log' = log /\ UNCHANGED <<records, gates, resume>>
    BY <1>6 DEF OpenStream, ReceiveBatch, ReadTimeout, Disconnect
  <2>2. QED
    BY <1>2, <2>1 DEF Seen, Reached, Mirroring
<1>7. CASE BatchDone
  <2>1. wpc = "batch" /\ wpc' = "stream" /\ log' = log /\ UNCHANGED records
    BY <1>7 DEF BatchDone
  <2>2. SUFFICES ASSUME NEW n \in Nodes
                 PROVE  Observes(log, records[n], n, Reached(n)')
    BY <2>1 DEF Seen
  <2>3. /\ Reached(n)' \in 0..Len(log) /\ Reached(n) <= Reached(n)'
        /\ Last(log, n, Reached(n)') = Last(log, n, Reached(n))
    BY <1>7, NoneLeft
  <2>4. Observes(log, records[n], n, Reached(n)) /\ records[n].rev \in Nat /\ Reached(n) \in Nat
    BY <1>1, <1>2, <2>1 DEF Seen, Mirroring, Record
  <2>5. QED
    BY <2>3, <2>4 DEF Observes
<1>8. ASSUME NEW k \in batch, SkipEvent(k)
      PROVE  Seen'
  <2>1. /\ wpc = "batch" /\ wpc' = "batch" /\ log' = log /\ UNCHANGED <<records, resume>>
        /\ gates' = gates \/ (log[k].val \in Malformed /\ gates' = [gates EXCEPT ![log[k].node] = k])
        /\ ~(k <= gates[log[k].node]) \/ gates' = gates
    BY <1>8 DEF SkipEvent, Stale
  <2>2. SUFFICES ASSUME NEW n \in Nodes
                 PROVE  Observes(log, records[n], n, Reached(n)')
    BY <2>1 DEF Seen
  <2>3. Observes(log, records[n], n, Reached(n)) /\ records[n].rev \in Nat
    BY <1>2, <2>1 DEF Seen, Mirroring, Record
  <2>4. CASE gates'[n] = gates[n]
    BY <2>1, <2>3, <2>4 DEF Reached
  <2>5. CASE gates'[n] # gates[n]
    <3>1. k \in Nat \ {0} /\ resume \in Nat /\ resume < k /\ gates[n] \in Nat
      BY <1>1, <2>1 DEF WatchTypes, WatchOK, Reading
    <3>2. n = log[k].node /\ gates'[n] = k /\ log[k].val \in Malformed /\ gates[n] < k
      BY <1>1, <2>1, <2>5, <3>1 DEF WatchTypes
    <3>3. Reached(n)' = k /\ Reached(n) < k /\ Reached(n) \in Nat
      BY <2>1, <3>1, <3>2 DEF Reached, Larger
    <3>4. Last(log, n, k) = {k}
      BY <3>1, <3>2, LastHere
    <3>5. log[k].val # NoVal /\ log[k].val \notin Valid
      BY <3>2, DiscoveryAssumption DEF Values
    <3>6. records[n].rev <= k
      BY <2>3, <3>1, <3>3 DEF Observes
    <3>7. QED
      BY <3>3, <3>4, <3>5, <3>6 DEF Observes
  <2>6. QED
    BY <2>4, <2>5
<1>9. ASSUME NEW k \in batch, ApplyPut(k)
      PROVE  Seen'
  <2>1. /\ wpc = "batch" /\ wpc' = "observe" /\ log' = log /\ UNCHANGED <<records, gates, resume>>
    BY <1>9 DEF ApplyPut
  <2>2. QED
    BY <1>2, <2>1 DEF Seen, Reached, Mirroring
<1>10. CASE ObservePut
  <2>1. /\ wpc = "observe" /\ wpc' = "batch" /\ log' = log /\ UNCHANGED resume
        /\ gates' = [gates EXCEPT ![log[wrev].node] = wrev]
        /\ records' = [records EXCEPT ![log[wrev].node] =
                         IF @.val = NoVal \/ wrev >= @.rev THEN Rec(log, wrev) ELSE @]
    BY <1>10 DEF ObservePut, EventDone, Rec
  <2>2. SUFFICES ASSUME NEW n \in Nodes
                 PROVE  Observes(log, records'[n], n, Reached(n)')
    BY <2>1 DEF Seen
  <2>3. Observes(log, records[n], n, Reached(n)) /\ records[n].rev \in Nat
    BY <1>2, <2>1 DEF Seen, Mirroring, Record
  <2>4. CASE n # log[wrev].node
    <3>1. records'[n] = records[n] /\ gates'[n] = gates[n]
      BY <1>1, <1>2, <2>1, <2>4 DEF WatchTypes
    <3>2. QED
      BY <2>1, <2>3, <3>1 DEF Reached
  <2>5. CASE n = log[wrev].node
    <3>1. /\ wrev \in Nat \ {0} /\ resume \in Nat /\ resume < wrev
          /\ gates[n] \in Nat /\ gates[n] < wrev /\ log[wrev].val \in Valid
      BY <1>1, <2>1, <2>5 DEF WatchTypes, WatchOK, Reading
    <3>2. Reached(n)' = wrev /\ Reached(n) < wrev /\ Reached(n) \in Nat
      BY <1>1, <2>1, <2>5, <3>1 DEF WatchTypes, Reached, Larger
    <3>3. Last(log, n, wrev) = {wrev}
      BY <2>5, <3>1, LastHere
    <3>4. wrev >= records[n].rev
      BY <2>3, <3>1, <3>2 DEF Observes
    <3>5. records'[n] = Rec(log, wrev)
      BY <1>2, <2>1, <2>5, <3>4
    <3>6. records'[n].rev = wrev /\ log[wrev].val # NoVal
      BY <3>1, <3>5, Fields, DiscoveryAssumption DEF Values
    <3>7. QED
      BY <3>1, <3>2, <3>3, <3>5, <3>6 DEF Observes
  <2>6. QED
    BY <2>4, <2>5
<1>11. ASSUME NEW k \in batch, ObserveDelete(k)
       PROVE  Seen'
  <2>1. /\ wpc = "batch" /\ wpc' = "drain" /\ log' = log /\ UNCHANGED <<gates, resume>> /\ wrev' = k
        /\ ~(k <= gates[log[k].node])
        /\ records' = [records EXCEPT ![log[k].node] =
                         IF @.val = NoVal \/ k >= @.rev THEN NoRecord ELSE @]
    BY <1>11 DEF ObserveDelete, Stale
  <2>2. ASSUME NEW n \in Nodes
        PROVE  Observes(log, records[n], n, Reached(n)) /\ records[n].rev \in Nat
    BY <1>2, <2>1 DEF Seen, Mirroring, Record
  <2>3. ASSUME NEW n \in Nodes, n # log[k].node
        PROVE  Observes(log, records'[n], n, Reached(n)')
    <3>1. records'[n] = records[n] /\ gates'[n] = gates[n]
      BY <1>2, <2>1, <2>3
    <3>2. QED
      BY <2>1, <2>2, <3>1 DEF Reached
  <2>4. ASSUME NEW n \in Nodes, n = log[k].node
        PROVE  records'[n] = NoRecord
    <3>1. k \in Nat /\ resume \in Nat /\ resume < k /\ gates[n] \in Nat
      BY <1>1, <2>1 DEF WatchTypes, WatchOK, Reading
    <3>2. Reached(n) < k /\ Reached(n) \in Nat
      BY <2>1, <2>4, <3>1 DEF Reached, Larger
    <3>3. k >= records[n].rev
      BY <2>2, <3>1, <3>2 DEF Observes
    <3>4. QED
      BY <1>2, <2>1, <2>4, <3>3
  <2>5. QED
    BY <2>1, <2>3, <2>4 DEF Seen
<1>12. CASE DrainDeleted
  <2>1. /\ wpc = "drain" /\ wpc' = "batch" /\ log' = log /\ UNCHANGED <<resume, records>>
        /\ gates' = [gates EXCEPT ![log[wrev].node] = wrev]
    BY <1>12 DEF DrainDeleted, EventDone
  <2>2. SUFFICES ASSUME NEW n \in Nodes
                 PROVE  Observes(log, records[n], n, Reached(n)')
    BY <2>1 DEF Seen
  <2>3. CASE n # log[wrev].node
    <3>1. Observes(log, records[n], n, Reached(n)) /\ gates'[n] = gates[n]
      BY <1>1, <1>2, <2>1, <2>3 DEF Seen, Mirroring, WatchTypes
    <3>2. QED
      BY <2>1, <3>1 DEF Reached
  <2>4. CASE n = log[wrev].node
    <3>1. wrev \in Nat \ {0} /\ resume \in Nat /\ resume < wrev /\ log[wrev].val = NoVal
      BY <1>1, <2>1 DEF WatchTypes, WatchOK, Reading
    <3>2. Reached(n)' = wrev
      BY <1>1, <2>1, <2>4, <3>1 DEF WatchTypes, Reached, Larger
    <3>3. Last(log, n, wrev) = {wrev}
      BY <2>4, <3>1, LastHere
    <3>4. records[n] = NoRecord /\ records[n].rev = 0 /\ NoVal \notin Valid
      BY <1>2, <2>1, <2>4, Fields, DiscoveryAssumption DEF Seen, Values
    <3>5. QED
      BY <3>1, <3>2, <3>3, <3>4 DEF Observes
  <2>5. QED
    BY <2>3, <2>4
<1>13. ASSUME UNCHANGED watcherVars, log' = log, lpc \in Acting, records[lnode] = lobs, NEW r,
              records' = [records EXCEPT ![lnode] = r],
              \A k \in 0..Len(log) : Observes(log, lobs, lnode, k) => Observes(log, r, lnode, k)
       PROVE  Seen'
  <2>1. UNCHANGED <<wpc, resume, gates, wrev>>
    BY <1>13 DEF watcherVars
  <2>2. lnode \in Nodes /\ lobs # NoRecord
    BY <1>2, <1>13, Fields DEF Acting, Told
  <2>3. /\ records'[lnode] = r
        /\ \A n \in Nodes : n # lnode => records'[n] = records[n]
        /\ \A n \in Nodes : Reached(n)' = Reached(n) /\ Reached(n) \in 0..Len(log)
    BY <1>1, <1>2, <1>13, <2>1, <2>2 DEF Reached
  <2>4. ASSUME NEW n \in Nodes, n # lnode
        PROVE  /\ wpc \in Mirroring /\ ~(wpc = "drain" /\ log[wrev].node = n) =>
                     Observes(log, records'[n], n, Reached(n))
               /\ wpc = "drain" /\ log[wrev].node = n => records'[n] = NoRecord
    BY <1>2, <2>3, <2>4 DEF Seen
  <2>5. /\ wpc \in Mirroring => Observes(log, records'[lnode], lnode, Reached(lnode))
        /\ ~(wpc = "drain" /\ log[wrev].node = lnode)
    BY <1>2, <1>13, <2>2, <2>3 DEF Seen
  <2>6. QED
    BY <1>13, <2>1, <2>3, <2>4, <2>5 DEF Seen
<1>14. CASE Refresh
  <2>1. /\ lpc = "refresh" /\ log' = log /\ UNCHANGED watcherVars
        /\ \/ records' = records
           \/ /\ lobs.lease \notin leases /\ records[lnode] = lobs
              /\ records' = [records EXCEPT ![lnode] = NoRecord]
    BY <1>14 DEF Refresh, Quiet, HealthOnly
  <2>2. lpc \in Acting /\ lobs.val # NoVal /\ lobs.lease # NoLease /\ lnode \in Nodes
    BY <1>2, <2>1 DEF Told, Acting
  <2>3. ASSUME NEW k \in 0..Len(log), Observes(log, lobs, lnode, k), lobs.lease \notin leases
        PROVE  Observes(log, NoRecord, lnode, k)
    <3>1. ASSUME NEW i \in Last(log, lnode, k), log[i].val \in Valid
          PROVE  Moved(log, lnode, i)
      <4>1. CASE lobs = Rec(log, i)
        <5>1. log[i].val # NoVal /\ log[i].lease # NoLease /\ log[i].lease \notin leases
          BY <2>2, <2>3, <4>1, Fields
        <5>2. QED
          BY <2>2, <5>1, EndedMoved
      <4>2. QED
        BY <2>3, <3>1, <4>1 DEF Observes
    <3>2. NoRecord.rev <= k
      BY Fields
    <3>3. QED
      BY <2>3, <3>1, <3>2 DEF Observes
  <2>4. QED
    BY <1>3, <1>13, <2>1, <2>2, <2>3
<1>15. CASE KeepLease
  <2> DEFINE r == [lobs EXCEPT !.lease = lid]
  <2>1. /\ lpc = "keep" /\ log' = log /\ UNCHANGED watcherVars
        /\ \/ records' = records
           \/ records[lnode] = lobs /\ records' = [records EXCEPT ![lnode] = r]
    BY <1>15 DEF KeepLease, Quiet, HealthOnly
  <2>2. lpc \in Acting /\ lobs.val # NoVal /\ Moved(log, lnode, lobs.rev)
    BY <1>2, <2>1 DEF Told, Acting
  <2>3. ASSUME NEW k \in 0..Len(log), Observes(log, lobs, lnode, k)
        PROVE  Observes(log, r, lnode, k)
    <3>1. lobs # NoRecord
      BY <2>2, Fields
    <3>2. r.rev = lobs.rev /\ r.lease = lid
      BY <1>2, Fields
    <3>3. ASSUME NEW i \in Last(log, lnode, k), log[i].val \in Valid
          PROVE  Moved(log, lnode, i) /\ r = [Rec(log, i) EXCEPT !.lease = r.lease]
      <4>1. CASE lobs = Rec(log, i)
        <5>1. lobs.rev = i
          BY <4>1, Fields
        <5>2. QED
          BY <2>2, <3>2, <4>1, <5>1
      <4>2. CASE Moved(log, lnode, i) /\ lobs = [Rec(log, i) EXCEPT !.lease = lobs.lease]
        <5>1. r = [Rec(log, i) EXCEPT !.lease = lid]
          BY <4>2 DEF Rec
        <5>2. QED
          BY <3>2, <4>2, <5>1
      <4>3. QED
        BY <2>3, <3>1, <3>3, <4>1, <4>2 DEF Observes
    <3>4. QED
      BY <2>3, <3>1, <3>2, <3>3 DEF Observes
  <2>4. QED
    BY <1>3, <1>13, <2>1, <2>2, <2>3
<1>16. CASE StoreStep \/ \E n \in Nodes : Sweep(n)
  BY <1>3, <1>16 DEF StoreStep, OtherPut, OtherDelete, LeaseExpires, Compact, Sweep
<1>17. CASE LeaseStep
  BY <1>3, <1>14, <1>15, <1>17
     DEF LeaseStep, HealthOnly, Probe, ProbeFailed, ProbeOk, FetchNode, LookUp, Grant,
         CallFails, Attach, AttachFails, Revoke, RevokeFails
<1>18. ASSUME NEW m \in Local, (\E v \in SelfSetup : RegisterPut(m, v)) \/ TeardownDrain(m) \/ LocalStep(m)
       PROVE  Seen'
  BY <1>3, <1>18
     DEF RegisterPut, TeardownDrain, LocalStep, RegisterAdd, DeleteKey, RemoveNode, LocalOnly
<1>19. QED
  BY <1>4, <1>5, <1>6, <1>7, <1>8, <1>9, <1>10, <1>11, <1>12, <1>16, <1>17, <1>18
     DEF Next, WatcherStep, WatcherFault

-----------------------------------------------------------------------------
(* The theorems.                                                           *)

\* The invariant holds at the start ...
LEMMA InvInit ==
    ASSUME Init
    PROVE  Inv
<1>1. log = <<>> /\ Len(log) = 0 /\ Rev = 0 /\ log \in Seq(Events)
  BY DEF Init, Rev
<1>2. kv \in [Nodes -> Record] /\ records \in [Nodes -> Record] /\ lobs \in Record
      /\ snap \in [kv : [Nodes -> Record], rev : Nat] /\ snap.rev = 0
  BY Records DEF Init
<1>3. Typed
  <2>1. RegistryTypes
    BY DiscoveryAssumption DEF Init, RegistryTypes, Statuses, OPCs
  <2>2. WatchTypes
    <3>1. gates \in [Nodes -> 0..Rev] /\ batch \in SUBSET (1..Rev)
      BY <1>1 DEF Init
    <3>2. compacted \in 0..Rev /\ resume \in 0..Rev /\ hi \in 0..Rev /\ wrev \in 0..Rev
      BY <1>1 DEF Init
    <3>3. snap \in [kv : [Nodes -> Record], rev : Nat] /\ snap.rev \in 0..Rev
      BY <1>1, <1>2
    <3>4. ready \in BOOLEAN /\ wpc \in WPCs
      BY DEF Init, WPCs
    <3>5. QED
      BY <3>1, <3>2, <3>3, <3>4 DEF WatchTypes
  <2>3. LeaseTypes
    BY <1>2, DiscoveryAssumption DEF Init, LeaseTypes, LPCs, Leasing, NoLease
  <2>4. QED
    BY <1>1, <1>2, <2>1, <2>2, <2>3, TypedParts
<1>4. \A n \in Nodes : kv[n] = NoRecord /\ records[n] = NoRecord
  BY DEF Init
<1>5. StoreOK
  <2>1. \A n : Last(log, n, 0) = {}
    BY DEF Last
  <2>2. \A n \in Nodes : Shows(log, kv[n], n, Rev)
    BY <1>1, <1>4, <2>1 DEF Shows
  <2>3. QED
    BY <1>4, <2>2, Fields DEF StoreOK, Init
<1>6. WatchOK /\ RegistryOK
  BY DEF Init, WatchOK, RegistryOK, Reading
<1>7. LeasesOK
  BY <1>4, Fields DEF Init, LeasesOK, Told, Seen, Observation, Acting, Mirroring
<1>8. QED
  BY <1>3, <1>5, <1>6, <1>7 DEF Inv

\* ... and every step keeps it ...
LEMMA InvNext ==
    ASSUME Inv, [Next]_vars
    PROVE  Inv'
<1>1. CASE Next
  BY <1>1, TypedNext, StoreNext, WatchNext, RegistryNext, ToldNext, SeenNext DEF Inv, LeasesOK
<1>2. CASE UNCHANGED vars
  <2>1. UNCHANGED <<log, kv, leases, granted, compacted, faults, status, regVal, records, ready,
                    wpc, snap, resume, gates, batch, hi, wrev, lpc, lnode, lval, lobs, lid, opc, oval>>
    BY <1>2 DEF vars, storeVars, registryVars, leaseVars, watcherVars, healthVars, localVars
  <2>2. Typed'
    BY <2>1 DEF Inv, Typed, TypeOK, Rev
  <2>3. StoreOK' /\ WatchOK'
    BY <2>1 DEF Inv, StoreOK, WatchOK, Rev
  <2>4. RegistryOK' /\ LeasesOK'
    BY <2>1 DEF Inv, RegistryOK, Shown, Reached, LeasesOK, Told, Seen
  <2>5. QED
    BY <2>2, <2>3, <2>4 DEF Inv
<1>3. QED
  BY <1>1, <1>2

\* ... so it always holds.
THEOREM InvHolds == Spec => []Inv
BY InvInit, InvNext, PTL DEF Spec

\* Types: the watcher's gates, batches and resume points never pass the store's
\* history, and the leases that are used have been granted (etcd_watcher.py,
\* node_leases.py).
THEOREM TypesHold == Spec => []TypeOK
<1>1. Inv => TypeOK
  BY DEF Inv, Typed
<1>2. QED
  BY <1>1, InvHolds, PTL

\* The registry shows every node as the store had it where the watcher has come for
\* that node, however snapshots, replayed responses, interrupted batches, compactions
\* and sweeps interleave (EtcdWatcher._handle_response, reconcile_discovered).
THEOREM RegistryFollows == Spec => []RegistryMirrorsStore
<1>1. Inv => RegistryMirrorsStore
  <2>1. SUFFICES ASSUME Inv, wpc \in {"open", "stream", "batch"}, NEW n \in Nodes \ Local
                 PROVE  Mirrors(n, Larger(resume, gates[n]))
    BY DEF RegistryMirrorsStore
  <2>2. Shown(n, Reached(n))
    BY <2>1 DEF Inv, RegistryOK
  <2>3. \A k : LastEvent(n, k) = Last(log, n, k)
    BY DEF LastEvent, Last
  <2>4. QED
    BY <2>2, <2>3 DEF Shown, Reached, MirrorsAt, Mirrors, Up, Down
<1>2. QED
  BY <1>1, InvHolds, PTL

\* A watcher that has seen every event leaves the lease manager with the store's own
\* records, whatever adoptions, refreshes and expiries ran in between
\* (NodeLeaseManager.observe_put, observe_delete, refresh_or_adopt).
THEOREM LeasesFollow == Spec => []LeasesObserved
<1>1. Inv => LeasesObserved
  <2>1. SUFFICES ASSUME Inv, wpc = "stream", resume = Rev, NEW n \in Nodes
                 PROVE  /\ kv[n].val \in Valid => records[n] = kv[n]
                        /\ kv[n].val = NoVal => records[n] = NoRecord
    BY DEF LeasesObserved
  <2>2. /\ log \in Seq(Events) /\ Len(log) \in Nat /\ Rev = Len(log) /\ gates[n] \in 0..Len(log)
    <3>1. log \in Seq(Events) /\ WatchTypes
      BY <2>1, TypedParts DEF Inv
    <3>2. QED
      BY <2>1, <3>1 DEF WatchTypes, Rev
  <2>3. Reached(n) = Len(log)
    BY <2>1, <2>2 DEF Reached, Larger
  <2>4. Observes(log, records[n], n, Len(log)) /\ Shows(log, kv[n], n, Len(log))
    BY <2>1, <2>2, <2>3 DEF Inv, LeasesOK, Seen, Mirroring, StoreOK
  <2>5. CASE Last(log, n, Len(log)) = {}
    BY <2>4, <2>5, Fields, DiscoveryAssumption DEF Observes, Shows, Values
  <2>6. ASSUME NEW i \in Last(log, n, Len(log))
        PROVE  /\ kv[n].val \in Valid => records[n] = kv[n]
               /\ kv[n].val = NoVal => records[n] = NoRecord
    <3>1. ~Moved(log, n, i)
      BY <2>2 DEF Moved, Last
    <3>2. NoVal \notin Valid
      BY DiscoveryAssumption DEF Values
    <3>3. kv[n] = IF log[i].val = NoVal THEN NoRecord ELSE Rec(log, i)
      BY <2>4 DEF Shows
    <3>4. /\ log[i].val = NoVal => records[n] = NoRecord
          /\ log[i].val \in Valid => records[n] = Rec(log, i)
      BY <2>4, <3>1 DEF Observes
    <3>5. QED
      BY <3>2, <3>3, <3>4, Fields
  <2>7. QED
    BY <2>5, <2>6
<1>2. QED
  BY <1>1, InvHolds, PTL

\* Adopting a key never changes the registration it holds: the transaction compares the
\* modification revision of the observation (attach_lease_if_current).
THEOREM AdoptionsKeepValues == Spec => AdoptionKeepsValue
<1>1. ASSUME Inv, [Next]_vars, lpc = "attach", lpc' # "attach", NEW n \in Nodes
      PROVE  kv'[n].val = kv[n].val
  <2>1. CASE kv' = kv
    BY <2>1
  <2>2. ASSUME NEW answered \in BOOLEAN, Attach(answered), Observed, Put(lnode, lobs.val, lid)
        PROVE  kv'[n].val = kv[n].val
    <3>1. lnode \in Nodes /\ lobs.val # NoVal /\ Observation(log, lobs, lnode)
      BY <1>1 DEF Inv, Typed, LeasesOK, Told, Acting
    <3>2. kv[lnode].val # NoVal /\ kv[lnode].rev = lobs.rev /\ Shows(log, kv[lnode], lnode, Rev)
      BY <1>1, <2>2, <3>1 DEF Observed, Inv, StoreOK
    <3>3. PICK i \in Last(log, lnode, Rev) : kv[lnode] = Rec(log, i)
      BY <3>2, Fields DEF Shows
    <3>4. kv[lnode].val = lobs.val
      BY <3>1, <3>2, <3>3, Fields DEF Observation
    <3>5. kv \in [Nodes -> Record]
      BY <1>1 DEF Inv, Typed, TypeOK
    <3>6. kv'[lnode].val = lobs.val /\ (n # lnode => kv'[n] = kv[n])
      BY <2>2, <3>1, <3>5 DEF Put
    <3>7. QED
      BY <3>4, <3>6
  <2>3. CASE \E answered \in BOOLEAN : Attach(answered)
    BY <2>1, <2>2, <2>3 DEF Attach
  <2>4. CASE AttachFails
    BY <2>1, <2>4 DEF AttachFails, Quiet
  <2>5. CASE LeaseStep
    BY <1>1, <2>3, <2>4, <2>5
       DEF LeaseStep, Probe, ProbeFailed, ProbeOk, FetchNode, LookUp, Refresh, Grant, CallFails,
           KeepLease, Revoke, RevokeFails
  <2>6. CASE ~LeaseStep
    <3>1. lpc' = lpc
      BY <1>1, <2>6
         DEF Next, StoreStep, OtherPut, OtherDelete, LeaseExpires, Compact, Sweep, WatcherStep,
             WatcherFault, WatcherOnly, InitialLoad, TakeSnapshot, Reconcile, ReconcileLeases,
             OpenStream, WatchCompacted, ReceiveBatch, SkipEvent, ApplyPut, ObservePut,
             ObserveDelete, DrainDeleted, BatchDone, ReadTimeout, Disconnect, RegisterPut,
             TeardownDrain, LocalStep, RegisterAdd, DeleteKey, RemoveNode, LocalOnly, vars,
             healthVars
    <3>2. QED
      BY <1>1, <3>1
  <2>7. QED
    BY <2>5, <2>6
<1>2. Inv /\ [Next]_vars => [lpc = "attach" /\ lpc' # "attach" =>
                               \A n \in Nodes : kv'[n].val = kv[n].val]_vars
  BY <1>1
<1>3. QED
  BY <1>2, InvHolds, PTL DEF Spec, AdoptionKeepsValue
=============================================================================
