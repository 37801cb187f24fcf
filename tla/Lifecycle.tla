----------------------------- MODULE Lifecycle -----------------------------
(***************************************************************************)
(* The life of one host under one gateway: the admin requests that set it  *)
(* up, tear it down, relaunch its engine, register, remove or re-own it,   *)
(* the background task each of them starts, the lease that serialises      *)
(* them, the discovery record in etcd, the registry the watcher keeps, and *)
(* the detached command on the host itself.  Hosts meet only at the        *)
(* capacity limit, which is a choice here.                                 *)
(*                                                                         *)
(* A step is what runs between two awaits.  The writes of                  *)
(* _replace_node_revision are compared by value: its loop re-reads after a *)
(* change that left the node equal (an adopted lease) and gives up         *)
(* otherwise.                                                              *)
(***************************************************************************)
EXTENDS Naturals, FiniteSets

CONSTANTS
    Ops,          \* slots for requests under way
    Builds,       \* bound: the slots of setups, relaunches, pool and owner requests
    Teardowns,    \* bound: the slots of teardowns
    Offered,      \* bound: the kinds of host the requests name
    Owners,       \* owners a request may name
    NoOwner,      \* the empty owner
    None,         \* no operation, no node
    MaxAttempts   \* runs of setup.sh or of the engine start in one provision

\* The ways a host is in the fleet: provisioned by the gateway on a host of
\* the scheduler, provisioned on a standalone host, or adopted as it runs.
Kinds == {"managed", "pool", "self"}

ASSUME LifecycleAssumption ==
    /\ Offered \subseteq Kinds
    /\ MaxAttempts \in Nat \ {0}
    /\ NoOwner \notin Owners
    /\ None \notin Ops
    /\ Builds \cup Teardowns \subseteq Ops

VARIABLES
    store,      \* the discovery record of the host in etcd, or None
    reg,        \* its node in the registry, or None
    task,       \* the step of its /provisioning/ record
    holder,     \* the operation that holds the lifecycle lease, or None
    record,     \* the entry of _provisioning_tasks, or None
    pending,    \* whether the host is in pending_hosts
    op,         \* the requests under way
    remote,     \* whether a detached setup or start command runs on the host
    gateway,    \* "up", "stopping" or "down"
    initiated   \* whether the host is in ScheduleEnforcer._teardown_initiated

durable == <<store, task, remote>>
others == <<gateway, initiated>>
vars == <<store, reg, task, holder, record, pending, op, remote,
          gateway, initiated>>

----------------------------------------------------------------------------
(* Data                                                                    *)

Statuses == {"available", "provisioning", "healthy", "unhealthy", "failed",
             "draining", "relaunching", "relaunch_failed"}

Node(status, kind, owner, leased) ==
    [status |-> status, kind |-> kind, owner |-> owner, leased |-> leased]

Nodes == [status : Statuses, kind : Kinds, owner : Owners \cup {NoOwner},
          leased : BOOLEAN]

\* The registry does not know about leases.
Known(n) == [n EXCEPT !.leased = FALSE]

OwnerOf(n) == IF n = None THEN NoOwner ELSE n.owner

WithStatus(n, s) == [n EXCEPT !.status = s]

SameNode(a, b) ==
    /\ a # None
    /\ b # None
    /\ Known(a) = Known(b)

Liveness == {"healthy", "unhealthy"}

SetupRejected == {"healthy", "unhealthy", "relaunching", "relaunch_failed"}

\* What the requests tell apart in a task record: settled (none, or complete),
\* open (a setup or a relaunch under way, or failed), a teardown (or a failed one).
Tasks == {"settled", "open", "teardown"}

\* A request for the lifecycle of the host.  target is the provision a
\* teardown inspected, node the snapshot it works from, cancel how its task
\* was cancelled, tries the runs of the current stage, named whether the
\* request gave an owner or, to recover a host, its engine; a teardown may know
\* the engine without a node (known) as a setup may find a node to replace; a relaunch works from the
\* registry's node (local) and from the persisted one (node), and remembers
\* the status it last wrote.
Idle == [what |-> "none", pc |-> "idle", kind |-> "managed", owner |-> NoOwner,
         named |-> FALSE, target |-> None, force |-> FALSE, known |-> FALSE,
         node |-> None, local |-> None, written |-> "none",
         cancel |-> "no", tries |-> 0]

Goto(o, pc) == op' = [op EXCEPT ![o].pc = pc]

Busy(o) == op[o].pc # "idle"

\* A slot is free when no other request still looks at it.
Free(o) ==
    /\ ~Busy(o)
    /\ \A p \in Ops : op[p].target # o

\* Best effort: _update_state swallows a failed write.
Reported(step) == task' \in {step, task}

----------------------------------------------------------------------------
(* The lease of HostLifecycleCoordinator and the end of a background task  *)

\* Mutant: a release that does not look whose lease it is.
UnheldAlways(o) == IF holder # None THEN None ELSE holder

\* release() acts once: a lease that is not held any more is left alone.
Unheld(o) == IF holder = o THEN None ELSE holder

Release(o) == holder' = Unheld(o)

\* Mutant: an early return that does not release.
RefuseHolding(o) ==
    /\ op' = [op EXCEPT ![o] = Idle]
    /\ UNCHANGED holder

\* A request that ends before it has started a task.
Refuse(o) ==
    /\ Release(o)
    /\ op' = [op EXCEPT ![o] = Idle]

\* What a finished task still stands for.
Ended(o) == [Idle EXCEPT !.what = op[o].what, !.pc = "ended", !.cancel = op[o].cancel]

\* The wrapper of the task: its finally releases what the task held.  The
\* done callbacks come in a later iteration of the event loop.
End(o) ==
    /\ Release(o)
    /\ pending' = (pending /\ op[o].what # "setup")
    /\ op' = [op EXCEPT ![o] = Ended(o)]

\* What a teardown that waits for the task does next: cancel_provision
\* refuses a task that was not cancelled after all, and reports one that
\* never started.
Woken(o) ==
    CASE op[o].cancel = "unstarted" -> "t_report"
      [] op[o].cancel \in {"explicit", "shutdown"} -> "t_reserve"
      [] OTHER -> "t_refused"

\* The callbacks of a finished task: forget its record, release once more.
\* A task that was cancelled before it started releases only here.
Done(o) ==
    /\ op[o].pc = "ended"
    /\ record' = (IF record = o THEN None ELSE record)
    /\ pending' = (pending /\ op[o].what # "setup")
    /\ Release(o)
    /\ op' = [p \in Ops |->
                 IF p = o THEN Idle
                 ELSE IF op[p].pc = "t_wait" /\ op[p].target = o
                 THEN [op[p] EXCEPT !.pc = Woken(o), !.target = None]
                 ELSE op[p]]
    /\ initiated' = (initiated /\ ~(op[o].what = "enforced" /\ op[o].cancel = "unstarted"))
    /\ UNCHANGED <<durable, reg, gateway>>

\* active_provision: the recorded provision, unless its task is done.
Active ==
    IF /\ record # None
       /\ op[record].what = "setup"
       /\ op[record].pc # "ended"
    THEN record ELSE None

\* fire_background refuses when the other hosts use up the capacity, and
\* when a task of this host is recorded and not done.
Recordable == record # None => op[record].pc = "ended"

----------------------------------------------------------------------------
(* POST /nodes/setup                                                       *)

SetupRequest(o) ==
    /\ gateway = "up"
    /\ o \in Builds
    /\ Free(o)
    /\ reg # None => reg.kind # "self"
    /\ \E k \in Offered \ {"self"}, w \in Owners \cup {"inherit"} :
           op' = [op EXCEPT ![o] = [Idle EXCEPT !.what = "setup", !.pc = "validating",
                                        !.kind = k, !.named = (w # "inherit"),
                          !.owner = IF w # "inherit" THEN w ELSE OwnerOf(reg)]]
    /\ UNCHANGED <<durable, reg, holder, record, pending, others>>

\* try_reserve_host and the checks made again under the lease; a draining
\* node that still has requests is refused too.  Unless the request names an
\* owner, the one of the record it replaces is inherited.
SetupReserve(o) ==
    /\ op[o].what = "setup"
    /\ op[o].pc = "validating"
    /\ \/ /\ ~pending
          /\ holder = None
          /\ reg # None => reg.kind # "self" /\ reg.status \notin SetupRejected
          /\ holder' = o
          /\ op' = [op EXCEPT ![o].pc = "reserved", ![o].known = (reg # None),
                              ![o].owner = IF reg = None \/ op[o].named THEN @
                                           ELSE reg.owner]
       \/ /\ \/ pending
             \/ holder # None
             \/ /\ reg # None
                /\ \/ reg.kind = "self"
                   \/ reg.status \in SetupRejected \cup {"draining"}
          /\ op' = [op EXCEPT ![o] = Idle]
          /\ UNCHANGED holder
    /\ UNCHANGED <<durable, reg, record, pending, others>>

\* The task record, the selection and the schedule are inspected: a host
\* that is being torn down, or whose teardown failed, is refused.
SetupInspect(o) ==
    /\ op[o].what = "setup"
    /\ op[o].pc = "reserved"
    /\ \/ /\ task # "teardown"
          /\ Goto(o, IF op[o].known THEN "stale" ELSE "launch")
          /\ UNCHANGED holder
       \/ Refuse(o)
    /\ UNCHANGED <<durable, reg, record, pending, others>>

\* cleanup_stale_node: the key goes first, then the registry; a failed
\* delete is a 503 that keeps the registry.
SetupCleanup(o) ==
    /\ op[o].what = "setup"
    /\ op[o].pc = "stale"
    /\ \/ /\ store' = None
          /\ Goto(o, "launch")
          /\ UNCHANGED holder
       \/ /\ store' \in {store, None}
          /\ Refuse(o)
    /\ UNCHANGED <<reg, task, record, pending, remote, others>>

\* The host becomes pending and the provision is fired, or capacity is
\* reached and everything is taken back.  Callbacks of a finished task have
\* run: they were scheduled before the thread that answered this request.
SetupLaunch(o) ==
    /\ op[o].what = "setup"
    /\ op[o].pc = "launch"
    /\ \A p \in Ops : op[p].pc # "ended"
    /\ reg' = (IF op[o].known THEN None ELSE reg)
    /\ \/ /\ Recordable
          /\ pending' = TRUE
          /\ record' = o
          /\ Goto(o, "queued")
          /\ UNCHANGED holder
       \/ /\ pending' = FALSE
          /\ Refuse(o)
          /\ UNCHANGED record
    /\ UNCHANGED <<durable, others>>

----------------------------------------------------------------------------
(* The provision: provision() and _provision()                             *)

InProvision(o, pc) ==
    /\ op[o].what = "setup"
    /\ op[o].pc = pc
    /\ op[o].cancel \in {"no", "swallowed"}

\* The task starts: it validates its arguments again.
ProvisionStart(o) ==
    /\ InProvision(o, "queued")
    /\ \/ /\ Goto(o, "powering")
          /\ UNCHANGED <<holder, pending>>
       \/ End(o)
    /\ UNCHANGED <<durable, reg, record, others>>

\* A host that is off is powered on through its BMC and awaited.
PowerOn(o) ==
    /\ InProvision(o, "powering")
    /\ Reported("open")
    /\ \/ /\ Goto(o, "reconciling")
          /\ UNCHANGED <<holder, pending>>
       \/ End(o)
    /\ UNCHANGED <<store, reg, record, remote, others>>

\* _reconcile_host: the node is the authority on its own processes; a live or
\* unreachable one refuses.
Clear == ~remote

Reconcile(o) ==
    /\ InProvision(o, "reconciling")
    /\ Reported("open")
    /\ \/ /\ Clear
          /\ Goto(o, "preflight")
          /\ UNCHANGED <<holder, pending>>
       \/ End(o)
    /\ UNCHANGED <<store, reg, record, remote, others>>

\* A failed preflight has written nothing.
Preflight(o) ==
    /\ InProvision(o, "preflight")
    /\ \/ /\ Goto(o, "recording")
          /\ UNCHANGED <<task, holder, pending>>
       \/ /\ Reported("open")
          /\ End(o)
    /\ UNCHANGED <<store, reg, record, remote, others>>

\* The ownership record in discovery comes before any mutation of the host.
Ownership(o) == Node("provisioning", op[o].kind, NoOwner, FALSE)

ProvisionRecord(o) ==
    /\ InProvision(o, "recording")
    /\ \/ /\ store' = Ownership(o)
          /\ Goto(o, "uploading")
       \/ /\ store' \in {store, Ownership(o)}
          /\ Goto(o, "failing")
    /\ UNCHANGED <<reg, task, holder, record, pending, remote, others>>

UploadScripts(o) ==
    /\ InProvision(o, "uploading")
    /\ Reported("open")
    /\ \/ op' = [op EXCEPT ![o].pc = "setup", ![o].tries = 1]
       \/ Goto(o, "failing")
    /\ UNCHANGED <<store, reg, holder, record, pending, remote, others>>

\* setup.sh as a detached command; the node refuses a second one.
SetupRun(o) ==
    /\ InProvision(o, "setup")
    /\ \/ /\ ~remote
          /\ remote' = TRUE
          /\ Goto(o, "running")
       \/ /\ remote
          /\ Goto(o, "failing")
          /\ UNCHANGED remote
    /\ UNCHANGED <<store, reg, task, holder, record, pending, others>>

\* Mutant: one attempt too many.
LeftInclusive(o) == op[o].tries <= MaxAttempts

\* Whether the budget allows another attempt of the stage.
Left(o) == op[o].tries < MaxAttempts

\* The script succeeds; or it fails for good or for the last time, or in a way
\* that is worth another attempt.  Only the connection may be lost.
SetupResult(o) ==
    /\ InProvision(o, "running")
    /\ \/ /\ remote' = FALSE
          /\ Goto(o, "inventory")
       \/ /\ remote' \in {FALSE, remote}
          /\ \/ Goto(o, "failing")
             \/ Left(o) /\ Goto(o, "retrying")
    /\ UNCHANGED <<store, reg, task, holder, record, pending, others>>

\* Never a second live phase: the node is asked before the next attempt.
SetupRetry(o) ==
    /\ InProvision(o, "retrying")
    /\ \/ /\ Clear
          /\ op' = [op EXCEPT ![o].pc = "setup", ![o].tries = @ + 1]
       \/ Goto(o, "failing")
    /\ UNCHANGED <<durable, reg, holder, record, pending, others>>

\* GPUs are verified and measured, the incumbent engine is stopped and the
\* launch is planned; a plan that does not fit is an error.
PlanLaunch(o) ==
    /\ InProvision(o, "inventory")
    /\ Reported("open")
    /\ \/ op' = [op EXCEPT ![o].pc = "starting", ![o].tries = 1]
       \/ Goto(o, "failing")
    /\ UNCHANGED <<store, reg, holder, record, pending, remote, others>>

EngineStart(o) ==
    /\ InProvision(o, "starting")
    /\ \/ /\ ~remote
          /\ remote' = TRUE
          /\ Goto(o, "launching")
       \/ /\ Goto(o, "retry_start")
          /\ UNCHANGED remote
    /\ UNCHANGED <<store, reg, task, holder, record, pending, others>>

\* _poll_health: the engine answers, or the start fails, or the time is up.
EngineAnswer(o) ==
    /\ InProvision(o, "launching")
    /\ \/ /\ remote' = FALSE
          /\ Goto(o, "verifying")
       \/ /\ remote' \in {FALSE, remote}
          /\ Goto(o, "retry_start")
    /\ Reported("open")
    /\ UNCHANGED <<store, reg, holder, record, pending, others>>

\* A start that ran out of memory is stopped cleanly and planned anew within
\* the budget; any other failure, or an engine that does not stop, is final.
EngineRetry(o) ==
    /\ InProvision(o, "retry_start")
    /\ \/ /\ Left(o)
          /\ op' = [op EXCEPT ![o].pc = "starting", ![o].tries = @ + 1]
       \/ Goto(o, "failing")
    /\ UNCHANGED <<durable, reg, holder, record, pending, others>>

\* A vLLM server must answer real inference and, when its memory was planned,
\* show the planned runtime; one that cannot be verified is stopped and never
\* registered.
ServingVerify(o) ==
    /\ InProvision(o, "verifying")
    /\ \E pc \in {"registering", "verify_runtime", "failing"} : Goto(o, pc)
    /\ UNCHANGED <<durable, reg, holder, record, pending, others>>

RuntimeVerify(o) ==
    /\ InProvision(o, "verify_runtime")
    /\ \E pc \in {"registering", "failing"} : Goto(o, pc)
    /\ UNCHANGED <<durable, reg, holder, record, pending, others>>

\* A llama.cpp server must show the fit that was asked for.
FitVerify(o) ==
    /\ InProvision(o, "verifying")
    /\ \E pc \in {"registering", "failing"} : Goto(o, pc)
    /\ UNCHANGED <<durable, reg, holder, record, pending, others>>

Healthy(o, leased) == Node("healthy", op[o].kind, op[o].owner, leased)

\* _register_node: the HEALTHY record, with a lease when one was granted to a
\* managed node.  A put that seems to fail may have been applied; its lease is
\* then revoked, which deletes the key, unless the revocation fails too.
ProvisionRegister(o) ==
    /\ InProvision(o, "registering")
    /\ \E leased \in {FALSE, op[o].kind = "managed"} :
       \/ /\ store' = Healthy(o, leased)
          /\ Reported("settled")
          /\ Goto(o, "finishing")
       \/ /\ store' \in {store, Healthy(o, leased)} \cup (IF leased THEN {None} ELSE {})
          /\ Goto(o, "failing")
          /\ UNCHANGED task
    /\ UNCHANGED <<reg, holder, record, pending, remote, gateway,
                   initiated>>

\* The exception path: report the failure, then turn the record of this
\* provision, and no other, into FAILED.
ProvisionFail(o) ==
    /\ InProvision(o, "failing")
    /\ Reported("open")
    /\ Goto(o, "failed")
    /\ UNCHANGED <<store, reg, holder, record, pending, remote, others>>

FailedRecord(o) ==
    IF store = Ownership(o)
    THEN WithStatus(store, "failed") ELSE store

ProvisionFailed(o) ==
    /\ InProvision(o, "failed")
    /\ store' \in {store, FailedRecord(o)}
    /\ Goto(o, "finishing")
    /\ UNCHANGED <<reg, task, holder, record, pending, remote, others>>

ProvisionEnd(o) ==
    /\ InProvision(o, "finishing")
    /\ End(o)
    /\ UNCHANGED <<durable, reg, record, others>>

Provisioning == {"queued", "powering", "reconciling", "preflight", "recording",
                 "uploading", "setup", "running", "retrying", "inventory", "starting",
                 "launching", "retry_start", "verifying", "verify_runtime",
                 "registering", "failing", "failed", "finishing"}

\* CancelledError at whatever the provision awaits.  A write under way in a
\* thread may still be applied.  An explicit cancellation also ends the
\* detached command, which may survive; a shutdown leaves it running.  A
\* result that is already reported is kept.
ProvisionCancelled(o) ==
    /\ op[o].what = "setup"
    /\ op[o].cancel \in {"explicit", "shutdown"}
    /\ op[o].pc \in Provisioning \ {"queued"}
    /\ store' \in {store} \cup
          (IF op[o].pc = "recording" THEN {Ownership(o)} ELSE {}) \cup
          (IF op[o].pc = "registering" THEN {Healthy(o, FALSE)} ELSE {})
    /\ remote' \in {remote} \cup (IF op[o].cancel = "explicit" THEN {FALSE} ELSE {})
    /\ IF op[o].pc \in {"failed", "finishing"} THEN UNCHANGED task ELSE Reported("open")
    /\ End(o)
    /\ UNCHANGED <<reg, record, gateway, initiated>>

\* A task cancelled before its first step never runs: only the callbacks see it.
UnstartedCancelled(o) ==
    /\ op[o].pc \in {"queued", "t_queued", "r_queued"}
    /\ op[o].cancel \in {"explicit", "shutdown"}
    /\ op' = [op EXCEPT ![o] = [Ended(o) EXCEPT !.cancel = "unstarted"]]
    /\ UNCHANGED <<durable, reg, holder, record, pending, others>>

\* _poll_health awaits the tail of the engine's log under suppress: a
\* cancellation that arrives there is lost.
CancelSwallowed(o) ==
    /\ op[o].what = "setup"
    /\ op[o].pc = "launching"
    /\ op[o].cancel \in {"explicit", "shutdown"}
    /\ op' = [op EXCEPT ![o].cancel = "swallowed"]
    /\ UNCHANGED <<durable, reg, holder, record, pending, others>>

----------------------------------------------------------------------------
(* DELETE /nodes/{id}                                                      *)

\* The request looks at the registry and at the running provision; with
\* neither, at the task record, which names the engine of a stuck host.  A
\* forced recovery goes straight to the lease.
TeardownRequest(o) ==
    /\ gateway = "up"
    /\ o \in Teardowns
    /\ Free(o)
    /\ reg # None => reg.kind # "self"
    /\ \E force \in BOOLEAN :
       \/ /\ \/ reg # None
             \/ Active # None
             \/ task # "settled"
          /\ op' = [op EXCEPT ![o] = [Idle EXCEPT !.what = "teardown", !.force = force,
                       !.pc = IF Active # None THEN "t_suspend" ELSE "t_reserve",
                       !.target = Active,
                       !.known = (reg = None \/ Active # None)]]
       \/ /\ force
          /\ reg = None
          /\ op' = [op EXCEPT ![o] = [Idle EXCEPT !.what = "teardown", !.force = TRUE,
                       !.pc = "t_reserve", !.known = TRUE, !.named = TRUE]]
    /\ UNCHANGED <<durable, reg, holder, record, pending, others>>

\* The suspension of automatic placement is persisted before the provision is
\* touched, or the request ends.
TeardownSuspend(o) ==
    /\ op[o].pc = "t_suspend"
    /\ \/ Goto(o, "t_cancel")
       \/ op' = [op EXCEPT ![o] = Idle]
    /\ UNCHANGED <<durable, reg, holder, record, pending, others>>

\* cancel_provision: only the inspected provision, never its replacement.
TeardownCancel(o) ==
    /\ op[o].pc = "t_cancel"
    /\ IF Active = op[o].target
       THEN op' = [op EXCEPT ![o].pc = "t_wait",
                             ![op[o].target].cancel = "explicit"]
       ELSE op' = [op EXCEPT ![o] = Idle]
    /\ UNCHANGED <<durable, reg, holder, record, pending, others>>

\* The wake-up after the cancellation: report a task that never started, or
\* answer 503 because the provision went on.
TeardownWoken(o) ==
    /\ \/ /\ op[o].pc = "t_report"
          /\ Reported("open")
          /\ Goto(o, "t_reserve")
       \/ /\ op[o].pc = "t_refused"
          /\ op' = [op EXCEPT ![o] = Idle]
          /\ UNCHANGED task
    /\ UNCHANGED <<store, reg, holder, record, pending, remote, others>>

\* Whether the engine to stop is known: from the registry, or from the
\* cancelled provision or the task record; one that the request names never
\* overrides the registry.
EngineKnown(o) == IF reg = None THEN op[o].known ELSE ~op[o].named

\* The lease, and the checks under it.
TeardownReserve(o) ==
    /\ op[o].pc = "t_reserve"
    /\ \/ /\ holder = None
          /\ EngineKnown(o)
          /\ reg # None => reg.kind # "self"
          /\ holder' = o
          /\ Goto(o, "t_check")
       \/ /\ \/ holder # None
             \/ ~EngineKnown(o)
             \/ reg # None /\ reg.kind = "self"
          /\ op' = [op EXCEPT ![o] = Idle]
          /\ UNCHANGED holder
    /\ UNCHANGED <<durable, reg, record, pending, others>>

\* The suspension is made under the lease, or must still be there if it was
\* made before the cancellation.
TeardownCheck(o) ==
    /\ op[o].pc = "t_check"
    /\ \/ /\ Goto(o, "t_queued")
          /\ UNCHANGED holder
       \/ Refuse(o)
    /\ UNCHANGED <<durable, reg, record, pending, others>>

----------------------------------------------------------------------------
(* The teardown: teardown() and _teardown()                                *)

InTeardown(o, pc) ==
    /\ op[o].what \in {"teardown", "enforced"}
    /\ op[o].pc = pc
    /\ op[o].cancel = "no"

\* A live command on the node is only warned about.  Without an engine to
\* stop the teardown ends here; a forced one skips the drain.
TeardownStart(o) ==
    /\ InTeardown(o, "t_queued")
    /\ \/ /\ EngineKnown(o)
          /\ IF op[o].force
             THEN UNCHANGED <<reg, task>>
             ELSE /\ Reported("teardown")
                  /\ reg' = (IF reg = None THEN None ELSE WithStatus(reg, "draining"))
          /\ op' = [op EXCEPT ![o].pc = "t_stop", ![o].force = FALSE,
                              ![o].known = FALSE, ![o].named = FALSE]
          /\ UNCHANGED <<holder, pending>>
       \/ /\ ~EngineKnown(o)
          /\ End(o)
          /\ UNCHANGED <<reg, task>>
    /\ UNCHANGED <<store, record, remote, others>>

\* After the drain, complete or timed out: the verified stop of the engine.
TeardownStop(o) ==
    /\ InTeardown(o, "t_stop")
    /\ Reported("teardown")
    /\ \E pc \in {"t_delete", "t_fail"} : Goto(o, pc)
    /\ UNCHANGED <<store, reg, holder, record, pending, remote, others>>

KindOf(n) == IF n = None THEN "managed" ELSE n.kind

\* The key is deleted; whether the host returns to the pool is decided by
\* the registry's node before that.
TeardownDelete(o) ==
    /\ InTeardown(o, "t_delete")
    /\ Reported("teardown")
    /\ \/ /\ store' = None
          /\ op' = [op EXCEPT ![o].pc = "t_remove", ![o].kind = KindOf(reg)]
       \/ /\ store' \in {store, None}
          /\ Goto(o, "t_fail")
    /\ UNCHANGED <<reg, holder, record, pending, remote, gateway,
                   initiated>>

\* The registry forgets the node; a standalone host goes back to the pool.
TeardownRemove(o) ==
    /\ InTeardown(o, "t_remove")
    /\ reg' = None
    /\ Goto(o, IF op[o].kind = "managed" THEN "t_end" ELSE "t_repool")
    /\ UNCHANGED <<durable, holder, record, pending, others>>

TeardownRepool(o) ==
    /\ InTeardown(o, "t_repool")
    /\ \/ /\ store' = Node("available", "pool", NoOwner, FALSE)
          /\ reg' = store'
          /\ Goto(o, "t_end")
       \/ /\ store' \in {store, Node("available", "pool", NoOwner, FALSE)}
          /\ Goto(o, "t_fail")
          /\ UNCHANGED reg
    /\ UNCHANGED <<task, holder, record, pending, remote, others>>

TeardownEnd(o) ==
    /\ InTeardown(o, "t_end")
    /\ Reported("settled")
    /\ End(o)
    /\ UNCHANGED <<store, reg, record, remote, others>>

\* _record_teardown_failure: the enforcer may start its teardown again.
Retried(o) == initiated' = (initiated /\ op[o].what # "enforced")

\* A failed teardown is reported and its node marked FAILED, but not one
\* that only a teardown may leave.
TeardownFail(o) ==
    /\ InTeardown(o, "t_fail")
    /\ Reported("teardown")
    /\ reg' = (IF reg = None \/ reg.status = "relaunch_failed" THEN reg
               ELSE WithStatus(reg, "failed"))
    /\ Retried(o)
    /\ End(o)
    /\ UNCHANGED <<store, record, remote, gateway>>

\* A shutdown leaves the teardown where it is; the task record says so.
TeardownCancelled(o) ==
    /\ op[o].what \in {"teardown", "enforced"}
    /\ op[o].cancel = "shutdown"
    /\ op[o].pc \in {"t_stop", "t_delete", "t_remove", "t_repool", "t_end", "t_fail"}
    /\ Retried(o)
    /\ End(o)
    /\ UNCHANGED <<durable, reg, record, gateway>>

----------------------------------------------------------------------------
(* POST /nodes/{id}/llamacpp/relaunch                                      *)

Relaunchable(n) == n # None /\ n.kind = "managed" /\ n.status = "healthy"

\* The node is validated before and after the lease is taken, in one segment
\* when the lease is free; then the task is fired or capacity is reached.
RelaunchRequest(o) ==
    /\ gateway = "up"
    /\ o \in Builds
    /\ Free(o)
    /\ Relaunchable(reg)
    /\ holder = None
    /\ Recordable
    /\ holder' = o
    /\ record' = o
    /\ op' = [op EXCEPT ![o] = [Idle EXCEPT !.what = "relaunch", !.pc = "r_queued"]]
    /\ UNCHANGED <<durable, reg, pending, others>>

InRelaunch(o, pc) ==
    /\ op[o].what = "relaunch"
    /\ op[o].pc = pc
    /\ op[o].cancel \in {"no", "swallowed"}

\* A live or unreachable command on the node refuses the relaunch.
RelaunchStart(o) ==
    /\ InRelaunch(o, "r_queued")
    /\ \/ /\ Clear
          /\ Reported("open")
          /\ Goto(o, "r_validate")
          /\ UNCHANGED <<holder, pending>>
       \/ /\ End(o)
          /\ UNCHANGED task
    /\ UNCHANGED <<store, reg, record, remote, others>>

\* The registry's node and the persisted one must both be relaunchable.  The
\* artifact is resolved and the scripts are refreshed before anything changes.
RelaunchValidate(o) ==
    /\ InRelaunch(o, "r_validate")
    /\ \/ /\ Relaunchable(reg)
          /\ Relaunchable(store)
          /\ op' = [op EXCEPT ![o].pc = "r_begin", ![o].node = store, ![o].local = reg]
       \/ Goto(o, "r_fail")
    /\ UNCHANGED <<durable, reg, holder, record, pending, others>>

\* The lease of the record is refreshed or a new one granted; then the node
\* leaves routing under the registry lock, if it has not changed since.
RelaunchBegin(o) ==
    /\ InRelaunch(o, "r_begin")
    /\ \/ /\ reg = op[o].local
          /\ reg' = Known(WithStatus(op[o].node, "relaunching"))
          /\ Goto(o, "r_commit")
       \/ /\ Goto(o, "r_fail")
          /\ UNCHANGED reg
    /\ UNCHANGED <<durable, holder, record, pending, others>>

\* Mutant: the record is written without a lease.
WrittenForEver(o, status) == Known(WithStatus(op[o].node, status))

\* What the relaunch writes, and what it last wrote: the compare of
\* _replace_node_revision.
Written(o, status) == [WithStatus(op[o].node, status) EXCEPT !.leased = TRUE]

Current(o) == SameNode(store, WithStatus(op[o].node, op[o].written))

\* Mutant: only the registry is told before the engine is stopped.
RelaunchCommitLocal(o) ==
    /\ InRelaunch(o, "r_commit")
    /\ op' = [op EXCEPT ![o].pc = "r_drain", ![o].written = "healthy"]
    /\ UNCHANGED <<durable, reg, holder, record, pending, others>>

\* The RELAUNCHING record.  On a conflict or a lost answer the registry is
\* put back and a lease granted for it is revoked, which deletes the key if
\* the write was applied after all.
RelaunchCommit(o) ==
    /\ InRelaunch(o, "r_commit")
    /\ \/ /\ SameNode(store, op[o].node)
          /\ store' = Written(o, "relaunching")
          /\ op' = [op EXCEPT ![o].pc = "r_drain", ![o].written = "relaunching"]
          /\ UNCHANGED reg
       \/ /\ store' \in {store} \cup
                (IF SameNode(store, op[o].node)
                 THEN {Written(o, "relaunching")} \cup
                      (IF op[o].node.leased THEN {} ELSE {None})
                 ELSE {})
          /\ reg' = op[o].local
          /\ Goto(o, "r_fail")
    /\ UNCHANGED <<task, holder, record, pending, remote, others>>

\* A drain that does not complete in time puts the old record back.
RelaunchDrain(o) ==
    /\ InRelaunch(o, "r_drain")
    /\ Reported("open")
    /\ \/ /\ Goto(o, "r_stop")
          /\ UNCHANGED <<store, reg>>
       \/ /\ Current(o)
          /\ store' = Written(o, "healthy")
          /\ reg' = Known(op[o].node)
          /\ Goto(o, "r_fail")
       \/ /\ store' \in {store} \cup (IF Current(o) THEN {Written(o, "healthy")} ELSE {})
          /\ Goto(o, "r_restore")
          /\ UNCHANGED reg
    /\ UNCHANGED <<holder, record, pending, remote, others>>

RelaunchStop(o) ==
    /\ InRelaunch(o, "r_stop")
    /\ Reported("open")
    /\ \E pc \in {"r_launch", "r_rollback"} : Goto(o, pc)
    /\ UNCHANGED <<store, reg, holder, record, pending, remote, others>>

\* _launch_llamacpp_runtime: started and verified, or not; a lost connection
\* leaves the start command running on the host.
Launched == ~remote /\ UNCHANGED remote

NotLaunched == remote' \in {remote, TRUE}

RelaunchLaunch(o) ==
    /\ InRelaunch(o, "r_launch")
    /\ Reported("open")
    /\ \/ Launched /\ Goto(o, "r_register")
       \/ NotLaunched /\ Goto(o, "r_rollback")
    /\ UNCHANGED <<store, reg, holder, record, pending, others>>

RelaunchRegister(o) ==
    /\ InRelaunch(o, "r_register")
    /\ \/ /\ Current(o)
          /\ store' = Written(o, "healthy")
          /\ reg' = Known(store')
          /\ op' = [op EXCEPT ![o].pc = "r_finish", ![o].written = "healthy"]
       \/ /\ store' \in {store} \cup (IF Current(o) THEN {Written(o, "healthy")} ELSE {})
          /\ Goto(o, "r_rollback")
          /\ UNCHANGED reg
    /\ UNCHANGED <<task, holder, record, pending, remote, others>>

RelaunchFinish(o) ==
    /\ InRelaunch(o, "r_finish")
    /\ Reported("settled")
    /\ End(o)
    /\ UNCHANGED <<store, reg, record, remote, others>>

\* The engine was touched: launch the previous policy and write HEALTHY.
RelaunchRollback(o) ==
    /\ InRelaunch(o, "r_rollback")
    /\ Reported("open")
    /\ \/ /\ Launched
          /\ Current(o)
          /\ store' = Written(o, "healthy")
          /\ reg' = Known(store')
          /\ Goto(o, "r_fail")
       \/ /\ Launched
          /\ store' \in {store} \cup (IF Current(o) THEN {Written(o, "healthy")} ELSE {})
          /\ Goto(o, "r_terminal")
          /\ UNCHANGED reg
       \/ /\ NotLaunched
          /\ Goto(o, "r_terminal")
          /\ UNCHANGED <<store, reg>>
    /\ UNCHANGED <<holder, record, pending, others>>

\* Mutant: the terminal record keeps the serving lease.
TerminalLeased(o) == Written(o, "relaunch_failed")

\* The record only a teardown leaves: it has no lease.
Terminal(o) == Known(WithStatus(op[o].node, "relaunch_failed"))

\* The rollback failed too.  A write that fails leaves RELAUNCHING behind,
\* and the lease that nobody refreshes any more.
RelaunchTerminal(o) ==
    /\ InRelaunch(o, "r_terminal")
    /\ \/ /\ Current(o)
          /\ store' = Terminal(o)
          /\ reg' = store'
       \/ /\ store' \in {store} \cup (IF Current(o) THEN {Terminal(o)} ELSE {})
          /\ UNCHANGED reg
    /\ Goto(o, "r_fail")
    /\ UNCHANGED <<task, holder, record, pending, remote, others>>

\* The engine was not touched: put the previous record back.
RelaunchRestore(o) ==
    /\ InRelaunch(o, "r_restore")
    /\ \/ /\ Current(o)
          /\ store' = Written(o, "healthy")
          /\ reg' = Known(op[o].node)
       \/ /\ store' \in {store} \cup (IF Current(o) THEN {Written(o, "healthy")} ELSE {})
          /\ UNCHANGED reg
    /\ Goto(o, "r_fail")
    /\ UNCHANGED <<task, holder, record, pending, remote, others>>

RelaunchFail(o) ==
    /\ InRelaunch(o, "r_fail")
    /\ Reported("open")
    /\ End(o)
    /\ UNCHANGED <<store, reg, record, remote, others>>

\* Where CancelledError at a shutdown leads: to the handler while there is one
\* around the await, and out of the task from inside a handler.
OnCancel(pc) ==
    CASE pc \in {"r_validate", "r_begin", "r_commit"} -> {"r_fail"}
      [] pc = "r_drain" -> {"r_restore"}
      [] pc = "r_stop" -> {"r_restore", "r_rollback"}
      [] pc \in {"r_launch", "r_register", "r_finish"} -> {"r_rollback"}
      [] pc = "r_rollback" -> {"r_terminal"}
      [] OTHER -> {}

\* A write under way in a thread may still be applied.
Unanswered(o) ==
    {store} \cup
    (CASE op[o].pc = "r_commit" /\ SameNode(store, op[o].node) ->
              {Written(o, "relaunching")}
       [] op[o].pc \in {"r_register", "r_restore"} /\ Current(o) -> {Written(o, "healthy")}
       [] op[o].pc = "r_terminal" /\ Current(o) -> {Terminal(o)}
       [] OTHER -> {})

RelaunchCancelled(o) ==
    /\ op[o].what = "relaunch"
    /\ op[o].cancel = "shutdown"
    /\ op[o].pc \notin {"r_queued", "ended"}
    /\ store' \in Unanswered(o)
    /\ \/ /\ \E pc \in OnCancel(op[o].pc) :
                op' = [op EXCEPT ![o].pc = pc, ![o].cancel = "swallowed"]
          /\ UNCHANGED <<holder, pending>>
       \/ /\ OnCancel(op[o].pc) = {}
          /\ End(o)
    /\ UNCHANGED <<reg, task, record, remote, others>>

----------------------------------------------------------------------------
(* POST and DELETE /nodes/{id}/pool, PATCH /nodes/{id}/owner               *)

\* A pool host, or the adoption of a server that runs; a bare re-adoption
\* keeps the owner.
RegisterRequest(o) ==
    /\ gateway = "up"
    /\ o \in Builds
    /\ Free(o)
    /\ holder = None
    /\ \E k \in Offered \ {"managed"}, w \in Owners \cup {"inherit"} :
        /\ reg # None => k = "self" /\ reg.kind = "self"
        /\ op' = [op EXCEPT ![o] =
               [Idle EXCEPT !.what = "register", !.pc = "p_put", !.kind = k,
                   !.named = (w # "inherit"),
                   !.node = Node(IF k = "self" THEN "healthy" ELSE "available", k,
                                 IF w # "inherit" THEN w ELSE OwnerOf(reg), FALSE)]]
    /\ holder' = o
    /\ UNCHANGED <<durable, reg, record, pending, others>>

\* The probe of a self-setup server, then the unconditional put.
RegisterPut(o) ==
    /\ op[o].pc = "p_put"
    /\ \/ /\ store' = op[o].node
          /\ Goto(o, "p_add")
          /\ UNCHANGED holder
       \/ /\ store' \in {store, op[o].node}
          /\ Refuse(o)
    /\ UNCHANGED <<reg, task, record, pending, remote, others>>

\* SelfSetupError: no server answers.
RegisterRefused(o) ==
    /\ op[o].pc = "p_put"
    /\ op[o].kind = "self"
    /\ Refuse(o)
    /\ UNCHANGED <<durable, reg, record, pending, others>>

RegisterAdd(o) ==
    /\ op[o].pc = "p_add"
    /\ reg' = op[o].node
    /\ Refuse(o)
    /\ UNCHANGED <<durable, record, pending, gateway, initiated>>

RemoveRequest(o) ==
    /\ gateway = "up"
    /\ o \in Builds
    /\ Free(o)
    /\ holder = None
    /\ reg # None
    /\ reg.kind = "self" \/ (reg.kind = "pool" /\ reg.status = "available")
    /\ holder' = o
    /\ op' = [op EXCEPT ![o] = [Idle EXCEPT !.what = "remove", !.pc = "p_delete"]]
    /\ UNCHANGED <<durable, reg, record, pending, others>>

\* remove_available: the key, then the registry.
RemoveDelete(o) ==
    /\ op[o].pc = "p_delete"
    /\ \/ /\ store' = None
          /\ Goto(o, "p_remove")
          /\ UNCHANGED holder
       \/ /\ store' \in {store, None}
          /\ Refuse(o)
    /\ UNCHANGED <<reg, task, record, pending, remote, gateway,
                   initiated>>

RemoveForget(o) ==
    /\ op[o].pc = "p_remove"
    /\ reg' = None
    /\ Refuse(o)
    /\ UNCHANGED <<durable, record, pending, others>>

OwnerRequest(o) ==
    /\ gateway = "up"
    /\ o \in Builds
    /\ Free(o)
    /\ holder = None
    /\ holder' = o
    /\ \E w \in Owners \cup {NoOwner} :
           op' = [op EXCEPT ![o] = [Idle EXCEPT !.what = "owner", !.pc = "o_write",
                                        !.owner = w]]
    /\ UNCHANGED <<durable, reg, record, pending, others>>

\* A read and a compare-and-swap, repeated a few times on a conflict: the
\* replacement is made from the record it replaces and keeps its lease.
OwnerWrite(o) ==
    /\ op[o].pc = "o_write"
    /\ \/ /\ store # None
          /\ store' = [store EXCEPT !.owner = op[o].owner]
          /\ \/ /\ op' = [op EXCEPT ![o].pc = "o_add", ![o].node = Known(store')]
                /\ UNCHANGED holder
             \/ Refuse(o)
       \/ /\ Refuse(o)
          /\ UNCHANGED store
    /\ UNCHANGED <<reg, task, record, pending, remote, gateway,
                   initiated>>

OwnerAdd(o) ==
    /\ op[o].pc = "o_add"
    /\ reg' = op[o].node
    /\ Refuse(o)
    /\ UNCHANGED <<durable, record, pending, gateway, initiated>>

----------------------------------------------------------------------------
(* The schedule enforcer                                                   *)

\* _enforce_once: the host is managed, the schedule takes it away, and no
\* teardown of it has been initiated.
Enforce(o) ==
    /\ gateway = "up"
    /\ o \in Teardowns
    /\ Free(o)
    /\ reg # None
    /\ reg.kind = "managed"
    /\ reg.status \in SetupRejected \cup {"draining"}
    /\ ~initiated
    /\ holder = None
    /\ holder' = o
    /\ initiated' = TRUE
    /\ op' = [op EXCEPT ![o] = [Idle EXCEPT !.what = "enforced", !.pc = "t_queued"]]
    /\ UNCHANGED <<durable, reg, record, pending, gateway>>

\* _prune_completed
Prune ==
    /\ gateway = "up"
    /\ initiated
    /\ reg = None
    /\ initiated' = FALSE
    /\ UNCHANGED <<durable, reg, holder, record, pending, op, gateway>>

----------------------------------------------------------------------------
(* Discovery, health and leases, as far as they touch this host            *)

\* add_discovered: a local decision about liveness is kept.
Merged(n) ==
    IF reg # None /\ reg.status \in Liveness /\ n.status \in Liveness
    THEN Known(WithStatus(n, reg.status)) ELSE Known(n)

\* An event or a snapshot: the record is merged, a missing one drains the
\* node.  Discovery has the event stream.
Watch ==
    /\ gateway # "down"
    /\ IF store # None THEN reg' = Merged(store)
       ELSE reg # None /\ reg' = WithStatus(reg, "draining")
    /\ UNCHANGED <<durable, holder, record, pending, op, others>>

SweepDrained ==
    /\ gateway # "down"
    /\ reg # None
    /\ reg.status = "draining"
    /\ reg' = None
    /\ UNCHANGED <<durable, holder, record, pending, op, others>>

HealthFlip ==
    /\ gateway # "down"
    /\ reg # None
    /\ reg.status \in Liveness
    /\ \E s \in Liveness : reg' = WithStatus(reg, s)
    /\ UNCHANGED <<durable, holder, record, pending, op, others>>

\* A managed node seen healthy is given a lease if its record has none.
Adopt ==
    /\ gateway # "down"
    /\ Relaunchable(reg)
    /\ SameNode(store, reg)
    /\ store' = [store EXCEPT !.leased = TRUE]
    /\ UNCHANGED <<reg, task, holder, record, pending, op, remote, others>>

\* A lease that is not refreshed takes the record with it.
Expire ==
    /\ store # None
    /\ store.leased
    /\ store' = None
    /\ UNCHANGED <<reg, task, holder, record, pending, op, remote,
                   gateway, initiated>>

----------------------------------------------------------------------------
(* The host, the gateway process                                           *)

\* A detached command comes to its end.
RemoteEnds ==
    /\ remote
    /\ remote' = FALSE
    /\ UNCHANGED <<store, reg, task, holder, record, pending, op, others>>

Handlers == {"validating", "reserved", "stale", "launch", "t_suspend", "t_cancel",
             "t_wait", "t_report", "t_refused", "t_reserve", "t_check", "p_put", "p_add",
             "p_delete", "p_remove", "o_write", "o_add"}

\* A graceful shutdown: the requests are answered, then every background task
\* is cancelled and awaited.
Shutdown ==
    /\ gateway = "up"
    /\ \A o \in Ops : op[o].pc \notin Handlers
    /\ gateway' = "stopping"
    /\ op' = [o \in Ops |-> IF op[o].pc \notin {"idle", "ended"} /\ op[o].cancel = "no"
                             THEN [op[o] EXCEPT !.cancel = "shutdown"] ELSE op[o]]
    /\ UNCHANGED <<durable, reg, holder, record, pending, initiated>>

Forget ==
    /\ gateway' = "down"
    /\ op' = [o \in Ops |-> Idle]
    /\ holder' = None
    /\ record' = None
    /\ pending' = FALSE
    /\ reg' = None
    /\ initiated' = FALSE
    /\ UNCHANGED <<durable>>

\* The process ends, after its tasks or in a crash.
Stopped ==
    /\ gateway = "stopping"
    /\ \A o \in Ops : ~Busy(o)
    /\ Forget

Crash ==
    /\ gateway # "down"
    /\ Forget

\* reconcile_interrupted_relaunch on the record of the first snapshot.
Recovered(n) ==
    IF n # None /\ n.status = "relaunching"
    THEN Known(WithStatus(n, "relaunch_failed")) ELSE n

Startup ==
    /\ gateway = "down"
    /\ gateway' = "up"
    /\ store' = Recovered(store)
    /\ reg' = (IF store' = None THEN None ELSE Known(store'))
    /\ UNCHANGED <<task, holder, record, pending, op, remote, initiated>>

----------------------------------------------------------------------------

Init ==
    /\ store = None
    /\ reg = None
    /\ task = "settled"
    /\ holder = None
    /\ record = None
    /\ pending = FALSE
    /\ op = [o \in Ops |-> Idle]
    /\ remote = FALSE
    /\ gateway = "up"
    /\ initiated = FALSE

Requests(o) ==
    \/ SetupRequest(o) \/ TeardownRequest(o) \/ RelaunchRequest(o)
    \/ RegisterRequest(o) \/ RemoveRequest(o) \/ OwnerRequest(o) \/ Enforce(o)

Step(o) ==
    \/ SetupReserve(o) \/ SetupInspect(o) \/ SetupCleanup(o) \/ SetupLaunch(o)
    \/ ProvisionStart(o) \/ PowerOn(o) \/ Reconcile(o) \/ Preflight(o)
    \/ ProvisionRecord(o) \/ UploadScripts(o) \/ SetupRun(o) \/ SetupResult(o)
    \/ SetupRetry(o) \/ PlanLaunch(o) \/ EngineStart(o) \/ EngineAnswer(o)
    \/ EngineRetry(o) \/ ServingVerify(o) \/ RuntimeVerify(o) \/ FitVerify(o)
    \/ ProvisionRegister(o) \/ ProvisionFail(o)
    \/ ProvisionFailed(o) \/ ProvisionEnd(o) \/ ProvisionCancelled(o)
    \/ UnstartedCancelled(o) \/ CancelSwallowed(o) \/ Done(o)
    \/ TeardownSuspend(o) \/ TeardownCancel(o) \/ TeardownWoken(o)
    \/ TeardownReserve(o) \/ TeardownCheck(o) \/ TeardownStart(o) \/ TeardownStop(o)
    \/ TeardownDelete(o) \/ TeardownRemove(o) \/ TeardownRepool(o) \/ TeardownEnd(o)
    \/ TeardownFail(o) \/ TeardownCancelled(o)
    \/ RelaunchStart(o) \/ RelaunchValidate(o) \/ RelaunchBegin(o) \/ RelaunchCommit(o)
    \/ RelaunchDrain(o) \/ RelaunchStop(o) \/ RelaunchLaunch(o) \/ RelaunchRegister(o)
    \/ RelaunchFinish(o) \/ RelaunchRollback(o) \/ RelaunchTerminal(o)
    \/ RelaunchRestore(o) \/ RelaunchFail(o) \/ RelaunchCancelled(o)
    \/ RegisterPut(o) \/ RegisterRefused(o) \/ RegisterAdd(o)
    \/ RemoveDelete(o) \/ RemoveForget(o) \/ OwnerWrite(o) \/ OwnerAdd(o)

Environment ==
    \/ Prune \/ Watch \/ SweepDrained \/ HealthFlip \/ Adopt \/ Expire
    \/ RemoteEnds \/ Shutdown \/ Stopped \/ Crash \/ Startup

Next ==
    \/ \E o \in Ops : Requests(o) \/ Step(o)
    \/ Environment

Spec == Init /\ [][Next]_vars

\* A record nobody keeps alive: no relaunch refreshes its lease and the
\* registry does not show it as healthy to the lease manager.
Unattended ==
    /\ store # None
    /\ \A o \in Ops : op[o].what # "relaunch"
    /\ ~Relaunchable(reg)

\* Every await of a task is bounded by a timeout, the watcher reconnects, a
\* lease runs out, and a gateway that is down is started again.
FairSpec ==
    /\ Spec
    /\ \A o \in Ops : WF_vars(Step(o))
    /\ WF_vars(Watch)
    /\ WF_vars(Unattended /\ Expire)
    /\ WF_vars(Startup)

----------------------------------------------------------------------------
(* Properties                                                              *)

Background == Provisioning \cup
              {"t_queued", "t_stop", "t_delete", "t_remove", "t_repool", "t_end",
               "t_fail", "r_queued", "r_validate", "r_begin", "r_commit", "r_drain",
               "r_stop", "r_launch",
               "r_register", "r_finish", "r_rollback", "r_terminal", "r_restore", "r_fail"}

\* The steps of an operation that owns the host.
Owning == Background \cup {"reserved", "stale", "launch", "t_check", "p_put", "p_add",
                           "p_delete", "p_remove", "o_write", "o_add"}

\* The variables hold what the program's objects can hold.
TypeOK ==
    /\ store \in Nodes \cup {None}
    /\ reg \in Nodes \cup {None}
    /\ task \in Tasks
    /\ holder \in Ops \cup {None}
    /\ record \in Ops \cup {None}
    /\ op \in [Ops -> [what : {"none", "setup", "teardown", "enforced", "relaunch",
                               "register", "remove", "owner"},
                       pc : Background \cup Handlers \cup {"idle", "ended"},
                       kind : Kinds, owner : Owners \cup {NoOwner},
                       named : BOOLEAN, target : Ops \cup {None}, force : BOOLEAN,
                       known : BOOLEAN, node : Nodes \cup {None},
                       local : Nodes \cup {None},
                       written : {"none", "relaunching", "healthy"},
                       cancel : {"no", "explicit", "shutdown", "swallowed", "unstarted"},
                       tries : 0..MaxAttempts]]
    /\ {pending, remote, initiated} \subseteq BOOLEAN
    /\ gateway \in {"up", "stopping", "down"}

\* HostLifecycleCoordinator: an operation that touches the host owns it, so
\* there is never a second one, whatever was cancelled, refused or ended in
\* between; and a lease that is held belongs to an operation that can still
\* release it, so no request is refused for ever.
OneAtATime ==
    /\ \A o \in Ops : op[o].pc \in Owning => holder = o
    /\ holder # None => op[holder].pc \in Owning \cup {"ended"}

\* A host whose engine is being replaced is not advertised as serving: from
\* the ownership record of a provision to its registration, and from the stop
\* of a relaunch to its registration, etcd has no HEALTHY record of it.
DisturbedNotHealthy ==
    \A o \in Ops :
        op[o].pc \in {"uploading", "setup", "running", "retrying", "inventory",
                      "starting", "launching", "retry_start", "verifying",
                      "verify_runtime", "registering", "r_stop", "r_launch", "r_register"} =>
            store = None \/ store.status # "healthy"

\* What an interrupted or failed operation leaves in etcd: RELAUNCHING dies
\* with its lease when nobody resolves it, and the records an operator has to
\* act on have no lease and stay.
LeaseFitsStatus ==
    store # None =>
        /\ store.status = "relaunching" => store.leased
        /\ store.status \in {"provisioning", "failed", "relaunch_failed", "available"} =>
               ~store.leased

\* Every operation gives the host back: it succeeds, fails, is cancelled, or
\* the gateway goes down with it.
HostFreed == holder # None ~> holder = None

\* A relaunch never hangs: its record becomes HEALTHY or RELAUNCH_FAILED or
\* disappears, also across a crash at any step and writes without an answer.
RelaunchResolves ==
    (store # None /\ store.status = "relaunching") ~>
        (store = None \/ store.status # "relaunching")
=============================================================================
