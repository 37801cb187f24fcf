# TLA+ models of QIIP

QIIP is a gateway in front of a fleet of inference nodes. It discovers the nodes in etcd, routes
OpenAI-style requests to the least loaded healthy one, keeps circuit breakers and health probes,
provisions and tears down hosts, and places models. This directory holds its specification: TLA+
modules, TLC configurations and TLAPS proofs. `PROJECT.json` maps every definition to source lines.

## Inventory

| Component | State | Operations | Interacts with | What makes it correct |
|---|---|---|---|---|
| Node registry (`discovery/registry.py`) | nodes by id with a status; removal listeners | add, add_discovered, reconcile_discovered, update_status, drain, remove | written by the watcher thread, the health thread, request handlers and lifecycle operations, one re-entrant lock | no local decision is lost to an older opinion; removal cleans up the per-node state |
| Routing (`routing/`) | connection counters | select_and_reserve, release, sweep_drained_nodes | registry lock held across select and count | counters equal the live reservations; a sweep never hits a serving node; drains finish |
| Circuit breakers (`resilience/circuit_breaker.py`) | per node: state, failures | record_failure/success, try_half_open, reopen | requests on the loop, trials on the health thread | a half-open breaker always has an owner; recovery is possible |
| Health checker (`resilience/health_checker.py`) | consecutive failures, one cycle | sweep, probe, demote, promote, recovery trial, lease maintenance | registry, breakers, leases | evidence is used for what it was collected for |
| Request proxying (`api/routes.py`) | per request: excluded nodes, attempts, reservation, stream session | attempt loops, failover, stream finalizers | selector, breakers | every request ends, releases once, retries elsewhere |
| Watcher (`discovery/watcher.py`, `etcd_client.py`) | resume revision, per-key gates | snapshot, watch, apply batch, reconnect, re-snapshot | etcd, registry, lease manager | events are neither lost nor undone |
| Node leases (`discovery/node_leases.py`) | observations per key | observe, refresh, adopt, revoke | watcher and health thread, etcd transactions | a lease is kept alive only for the registration that was probed |
| Provisioner (`provisioning/`) | per-host lifecycle locks, tasks, step state, logs | setup, launch, cancel, retry, teardown, relaunch, repool | ssh, etcd, registry, tracker | one operation per host; an interrupted one leaves a recoverable record |
| Placement (`placement/`) | claims in etcd, suspensions, plan | claim, heartbeat, reconcile, release | provisioner, several gateways | one owner per host, a fenced owner does not act |
| QUADS and schedules (`quads/`) | poll results, enforced windows | poll, enforce | provisioner | a host is freed before its reservation ends |
| Auth (`auth/`, `api/auth.py`, `api/profile.py`, `api/onboarding.py`) | SQLite store shared by worker processes, whitelist cache | mint, reveal, export, revoke, sign in | request middleware, several processes | a key handed out is stored and live; an account stays with its provider; who leaves the list is refused |
| Generations (`common/generations.py`, `llamacpp_artifacts.py`) | bundles, runtimes, generations, links, journal on a host's disk | publish, seal, activate, roll back, launch | setup scripts, host filesystem | a crash or power loss leaves a whole generation selected and the way back known |
| Attempts and logs (`provisioning/log_store.py`, `remote_logs.py`, `common/provision-logs.py`) | SQLite logs on the gateway and on each node, detached workers | launch, resend, poll, cancel, collect, rotate | provisioner, ssh, node | a command runs once; the copy of its log is faithful; success is not reported early |
| Configuration, dialects, plugins, dashboard, downloads, planner, ssh, redfish, OIDC provider | none of their own, or I/O | | | not modelled |

Hard behaviours: three kinds of actors (event loop, watcher thread, health thread) share the
registry, the counters and the breakers under several small locks, so check and act are often two
critical sections; the etcd store and the registry are changed one after the other; answers of etcd
can be lost; leases expire; watches are replayed and compacted; a gateway may die, and a second one
may run by accident; worker processes share one database; commands on the nodes outlive the
connection that started them; a host may lose power. `PROJECT.json` lists each hazard at its line.

## Modules

### Routing

`Routing.tla` is the core. Its steps are critical sections; the coroutines of the event loop are
sequential between awaits, which the model keeps: a request whose `pc` is not in `Suspended` is in
the middle of a loop segment and no other coroutine moves (the health thread and the watcher do).

| Model | Code |
|---|---|
| `status`, `counts`, `breakerOf`, `breaker`, `probeFails` | `NodeRegistry._nodes`, `ConnectionTracker._counts`, `CircuitBreakerRegistry._breakers` and the objects, `_ConsecutiveFailures._counts` |
| `Reserve`, `Released` | `select_and_reserve`; `NodeReservation.release` with its sweep and the removal listeners |
| `Succeed`, `Respond`, `Fail`, `CheckOpen`, `Trip`, `ReleaseFailed` | `_proxy_non_streaming`, `_record_failure_and_trip` |
| `HandshakeFail` ... `StreamClosed` | `_stream_completion`, `_StreamingSession.close` with its two competing finalizers |
| `HealthSweep` ... `Changed` | a health cycle, `_handle_probe_success` and `_handle_probe_failure` one critical section at a time |
| `Discover`, `DrainNode`, `Add`, `Deregister`, `RemoveAvailable` | what the watcher and the lifecycle operations do to the registry and the counters |

Abstractions: the filters by scope, owner and model are the constant `Reach`; the two failure
counters are saturated at their thresholds, above which the code does not tell them apart; breaker
objects have identities, because a request or the health thread may hold one whose node is gone;
`Record` merges `get_or_create` and the operation on its result, with the same outcomes since both
happen in one thread. Cancellation of a handler before its response happens only at a forced
shutdown and is left out.

### Discovery

`Discovery.tla` has the etcd store (external: modelled by what the client relies on), the watcher
thread, the lease manager on the health thread and the local operations that write the store and
the registry in separate steps. The revision of an event is its position in `log`; `gates` is
`key_revisions` and `resume` is `resume_revision`. A registration is a value: `Managed` ones may be
leased, `SelfSetup` ones never, `Malformed` ones are rejected by `node_from_etcd`; values stand for
different endpoints. The events of a response are handled in any order, more than etcd allows: the
per-key gates, not the order, carry the result. The assumption on etcd is that a response covers
every event up to its header revision. A lease that ended cannot be attached. `Sweep` leaves out
the counters, which `Routing` has; breakers and thresholds of the probes are in `Routing` as well.

The local operations stand for self-setup registration (`RegisterPut`, `RegisterAdd`), graceful
teardown (`TeardownDrain`, `DeleteKey`, `RemoveNode`) and removal (from `DeleteKey`). A host's
lifecycle lock is per gateway: another gateway may write the key of a node in `Contended` while an
operation is under way.

### Lifecycle

`Lifecycle.tla` follows one host under one gateway: the requests of the admin API, the background
task each one fires, the lease of `HostLifecycleCoordinator`, the record in etcd, the registry entry
and the command on the host. `op[o]` is a request from its arrival to the end of its task; its `pc`
is the await it is suspended in, and a step is what runs between two awaits. Cancellation (explicit,
by shutdown, before the task has started, or swallowed by `_poll_health`), writes of etcd whose
answer is lost, the expiry of a lease, shutdown, crash and start-up are actions of their own.

| Model | Code |
|---|---|
| `holder`, `Unheld`, `Release` | `HostLifecycleLease`, released once by whoever ends with it |
| `record`, `Recordable`, `Done`, `Woken` | `_provisioning_tasks`, `fire_background` and its done callback, `cancel_provision` |
| `SetupRequest` ... `ProvisionEnd` | `setup_node`, `provision`: reconcile, ownership record, upload, setup with retries, engine start with retries, verification, registration, failure |
| `TeardownRequest` ... `TeardownCancelled` | `teardown_node`, `_teardown`, `register_available` |
| `RelaunchRequest` ... `RelaunchFail` | `relaunch_llamacpp_node`, `_relaunch_llamacpp` with its compare-and-swap writes, rollback and lease |
| `Register*`, `Remove*`, `Owner*` | `register_node`, `remove_from_pool`, `update_node_owner` |
| `Enforce`, `Retried`, `Prune` | `ScheduleEnforcer` |
| `Shutdown`, `Crash`, `Startup`, `Recovered` | `NodeProvisioner.shutdown`, the process, `lifespan`, `reconcile_interrupted_relaunch` |

Abstractions: hosts meet only at the capacity of background tasks, whose refusal is a choice; the
`/provisioning/` record is settled, open or a teardown; back-offs and timeouts are choices of when a
step happens; `Watch` applies the current record, because `Discovery` has the watcher's own races;
what setup, the engine, the health poll and the verifications answer is a choice of success and the
failures the code tells apart; the engine process is not followed, and the lock a node takes makes
it refuse a second live command (`Attempts`).

### Placement and HostWork

`Placement.tla` is the reconciler on one host: the passes (read, settle, launch), the claim in etcd
with its revision (`fresh`: the readers whose revision is still current), the provision under it
(`run`, `owned`), heartbeat and fence, and the operator's teardown, suspension, resume, setup, owner
change and reset. A gateway may stop and its claim go stale; a write may be applied and its answer
lost. `HostWork.tla` is what this promises: at most one gateway works on the host, and it is tried
at most `MaxAttempts` times between two successes or fresh starts. `OneWorkerWithinBudget` is its
specification under the mapping that takes the gateways with a fired and unfinished provision as
the workers.

Abstractions: what the planner ranks, whether budget and readiness allow it and what QUADS says are
choices; a due `retry_at` is a choice; a pool node counts as no node and a draining one as serving;
`Watch` applies the current record, and only a single gateway's registry may lag (`Seen`); operators
act in the supported single-gateway deployment only, one request at a time; the command on the host
is not followed. Time is counted in heartbeat intervals, and `Tick` states the timing the protocol
rests on: between two ticks each started provision has had its heartbeat attempt, a provision just
fired or just ended has taken its next step, and a fenced provision has ended an interval before its
claim can be taken over. `_heartbeat` sleeps a quarter of `claim_stale_seconds` (which
the settings keep at 60 or more, so that its five-second floor never applies): `Stale` is four
intervals, and no more is assumed.

### Tokens and SignIn

`Tokens.tla` has the token rows and setup links of one user and the requests that change or use
them; `SignIn.tla` has the accounts and the whitelist. Worker processes share the SQLite file: the
lock of `AuthStore` orders the threads of one process, and between a SELECT and the statement that
opens the write transaction another process may commit. A session secret is a position in a list;
a worker has the one configured when it started. A derived key is a record of secret and generation,
so two workers with different secrets derive different keys, and a stored key is reproduced only by
the secret that made it. A statement that fails outside a handler leaves its transaction open
(`locked`) until the worker commits something else or ends; other writers wait and give up.

The earlier databases of `Histories` hold unmarked rows only: the purpose column arrives with the
upgrade, empty. An identity in `SignIn` is what a provider vouches for: issuer, subject, address.

Abstractions: one user stands for all in `Tokens`, each worker serves one request at a time, and
the models a request may ask for are given; usage totals, endpoint pins and display names are left
out, and expiry is the removal of a link. In `SignIn` sessions and the providers' protocols are left
out, the domain and verification gates are inputs, one worker's whitelist is followed (`Watched`)
and the other's answers are arbitrary. A fetch, the cooldown and a file's age are counted in ticks,
`Window` ticks to a refresh interval; a fetch ends within a tick because of its deadline.

### Attempts

`Attempts.tla` is one recorded command: the gateway's `run` sends the launch, again when the answer
is lost, and then polls; on the node a launch process creates the row, checks and writes the phase
and spawns a worker, which takes the host lock, runs the command, records its output and ends the
phase; the engine that the command may start writes to a sink, which stores its output in batches,
acknowledges a stop request in the phase and then only keeps the pipe empty; collectors copy pages
of the node's log to the gateway's store. Each request may be lost before or after it did its work. Each transaction of either store is a step.

Abstractions: one phase of one attempt, exit codes zero and not zero; a record is one of a few
kinds, and its text is data; retention drops the oldest records on the node (`Rotate`), not on the
gateway; checkpoints, diagnostics and raw tails are left out (a pruned raw tail is one of the ways in
which a sink fails); the command and the holders of its pipe are one; the engine and its sink belong
to its process group, but not to its lock.

### Generations

`Generations.tla` is the disk of one host: bundles and runtimes, generations, the links `current`
and `previous`, the rollback journal, and `disk`, what of those a power loss is sure to leave. The
steps are the renames and directory synchronisations of `generations.py`, in order, for a setup, an
upload and a rollback, with the flocks they take. `Kill` ends a process anywhere, `PowerLoss` ends
all of them and loses any of the entries not synchronised, `Damage` spoils published content.
`torn` marks a disk on which a power loss may have kept the later of two entries, written by one
process and not synchronised by the next, without the earlier: `SwitchKeepsBoth` is not said of it.

Abstractions: file contents are flushed before the rename that publishes them and are not split
further; that the entry of a vLLM runtime in its parent directory is durable with the runtime's own
synchronisation is an assumption on the file system, since only `publish_directory` synchronises the
parent; the check of the shell function `qiip_require_inactive_runtime` is `Inactive`; setups run
one at a time (the host lock of `Attempts`); saved launch settings, the service unit and damage to a
generation's own files are left out. A standalone checkout, which setup snapshots itself, is not
followed.

### MC and Proofs modules

Each MC module instantiates its model for TLC; each Proofs module holds the theorems about one model.

## Runs

| Run | Instance | Shows |
|---|---|---|
| RoutingOneNode | 1 removable node, a plain and a streaming request, thresholds 2, all registry operations | types, no phantom counts, owned half-open breakers, recovery on evidence only |
| RoutingFailover | 2 nodes, 2 requests, 2 attempts | retries go to untried nodes within the budget |
| RoutingLiveness | 1 node, 2 requests, thresholds 1, fairness | exact counters, sweeps of idle nodes only, drains complete, requests finish, nodes recover |
| DiscoveryWatch | 2 nodes, 3 revisions, a malformed value, 1 fault, local operations on one node, fairness | the registry mirrors the store at the revision reached; with overlapping local operations both agree in the end |
| DiscoveryLeases | 1 node, 2 managed values, 3 revisions, 1 lease, 1 fault | observations match the store; adoption never overwrites |
| Lifecycle | 1 host, 2 requests of any kind, 2 attempts | one operation at a time, nothing disturbed is offered, leases fit the records |
| LifecycleLiveness | 1 host, a setup or relaunch and a teardown, fairness | the host is given back; a relaunch resolves |
| Placement | 1 host, 2 gateways or one with operators, 2 claim ids, 2 attempts, 4 intervals | one worker within the budget (refinement), torn-down hosts stay out, launches write over their own node |
| Tokens | 2 workers, 2 secrets, 2 models, 3 rows, three histories | handed-out keys are stored and live, minting supersedes, one secret means one config key |
| SignIn | 2 workers, 2 requests, 2 addresses at 2 providers, window of 2 ticks | accounts stay with their provider, who leaves the list is refused from the next window on |
| Attempts | 6 scenarios: a repeated launch, a command that is stopped, two collectors, dropped records, an engine that is stopped or fails, an engine whose only record is dropped | faithful log, one command at a time, idempotent resend, what is reported complete is whole |
| Generations | 2 bundles, 2 runtimes, 2 generations, 2 faults, both engines | what may be selected is whole; a switch keeps the way back |

Bounds. One node is enough for the races on one node's counter, breaker and registration; requests
interact only through those. Two nodes are needed for failover, and for the independence of the
gates. Two requests give one that fails or finishes while the other is anywhere in its life; a
third adds no new pair. Threshold 2 has a state between none and tripped. `MaxRev` does not cut a
lease adoption, an expiry or a started operation short: it stops new writes only. Three revisions
allow a registration, a deletion and a re-registration with a compaction between or after.
`MaxFaults` bounds lost connections and lost answers, so that the store answers in the end. One breaker
identity more than there are nodes is enough: `Record` takes a free one only when the event loop
holds none, so at most the other nodes' breakers and the one the health thread holds are in use.

`Lifecycle`: two slots put any two requests against each other, and a slot is used again when its
request has ended, so sequences of requests are not bounded; two attempts have a first failure and a
last one. `Placement`: two gateways are the accidental pair, `Stale` is the four intervals of `_heartbeat`,
and two claim ids tell an old claim from its successor; ids are used again. `Tokens`: three rows are
an old key, its replacement and one lost race. `SignIn`: a change of the list before, in and after
one window. `Attempts`: a page and a parse of one record each make two records enough for a
page boundary, a lost page and a rotation in between; the scenarios keep the combinations apart that
do not interact. `Generations`: two faults are a kill and the power loss after it, or damage and a
kill; with two generations each switch leaves one and returns to it. `CHECK_DEADLOCK FALSE` in
`Attempts`: the attempt ends.

Fairness. `Routing`: weak fairness of the health thread, which loops until shutdown and bounds
every probe by a timeout; strong fairness of a request under way, because the loop runs ready
coroutines first in, first out and every await is bounded by the client's timeouts. No client is
obliged to send a request, and no probe to succeed. `Discovery`: weak fairness of the watcher,
which loops until shutdown, and of a local operation that has started; none for the writers, the
leases or the health thread. `Lifecycle`: weak fairness of each started request, all of whose awaits
have timeouts, of the watcher, of the restart of a gateway that is down (its unit restarts it), and
of the expiry of a lease that nobody refreshes; none of the requests, cancellations or crashes.

## Disagreements between text and behaviour

The models' behaviours include interleavings that a comment, a document or a name rules out. The
properties above state what does hold; these are known not to:

- `health_checker.py:11`: "An OPEN breaker requires a successful minimal inference probe before
  recovery." The health thread reads the breaker closed (line 535), a failing request opens it and
  marks the node unhealthy, and the health thread promotes the node without a trial (line 589).
- `node_leases.py:189`, `_revoke_unused`: an adoption commits, its answer is lost, and the handler
  (line 156) revokes the lease: the key of a healthy node is deleted.
- `UPGRADING.md:132`: "Unmanaged external registrations are never adopted". The lease observation is
  read (line 95) after the managed check (line 89), so a self-setup key that has just replaced a
  managed one is given a lease nobody refreshes.
- `admin.py:733`: retrying setup must not wipe an owner. The stale record is cleaned up (line 716)
  before `fire_background` may refuse for capacity, and PROVISIONING and FAILED records carry no
  owner: a retry that names none registers the host without one.
- `reconciler.py:1339`, `_is_own_failed_node`: automation clears only its own record.
  `_clear_own_node` (line 887) decides by the registry's copy and deletes the key unconditionally, so
  a record an operator has just written can go with it.
- `store.py:702`, "so this never 500s": an IntegrityError of the marking UPDATE (lines 662-666) is not
  caught, and leaves a write transaction open until the worker's next commit.
- `remote_logs.py`, "Drain all pages" and "Parse committed rows using our own offset.": another
  collector may store the last page between the parse and the completion check of `run` (lines
  538-549), which then returns success without having parsed it (`crossed` in `CompleteIsWhole`).
- `docs/transactional-provisioning.md`, "corruption in the generation being abandoned does not prevent
  rollback or replacement activation": it does not, but corruption of a journaled rollback's target
  does, since every activation finishes the journal first (`generations.py:333`).
- `activate` and `install_vllm` take what is there as published: a generation or runtime that a
  process renamed into place and did not live to synchronise is selected without it, and a later
  power loss may leave the link without its target (`loose` in `SelectionWhole`).

Other windows of the same kind occur in the models' behaviours and are described here only:

- between the status update and `record_success` of a successful trial a request can be routed to a
  node whose breaker is still HALF_OPEN;
- a probe that fails after its node was removed leaves a failure count for the next registration;
- `remove_available` on a serving self-setup node resets its counter, so a drain after a
  re-registration does not wait for the older requests (`ReservationsCounted` and `SweepsIdleNodes`
  therefore leave the nodes of `Removable` out);
- a lease can be refreshed on evidence for the endpoint that was just replaced;
- a snapshot taken during a teardown returns the draining node to routing until it is removed;
- a DELETE the watcher reaches late drains a registration that `register_self_setup` has already put
  into the registry, until the watcher reaches its PUT; `Converges` shows that this passes. Combined
  with two of the above (a self-setup key adopted, then revoked, all before `register_self_setup`
  adds the node) it would not: that is why DiscoveryLeases has no self-setup values and
  DiscoveryWatch no leases;
- a relaunch registers its node HEALTHY whatever its breaker says; a sweep that removes an idle
  draining node before the teardown reads it keeps the host out of the pool; the enforcer's
  `_teardown_initiated` survives when a host is registered again before the prune; a failed graceful
  teardown turns RELAUNCH_FAILED into FAILED; a teardown only warns about a live detached command;
- a suspended pass drops the claim of a provision that still runs; two lagging registries can drop a
  live claim as superseded; `_own_current` takes an equal claim for its own write;
- while a secret is rolled out each worker counts the other's generations, so downloads by turns add
  generations; two exports that widen a scope at the same time keep one of the two additions; an
  administrator demoted during a request still gets the unrestricted token;
- the active probe of a node reads the phases and closes them in two transactions; metadata of a
  stale page may replace newer phases; a late launch clears the cancel and stop flags; a node row
  evicted and created again restarts its sequence below the gateway's cursor;
- an activation interrupted between its two links leaves previous equal to current: a rollback then
  changes nothing.

## Proofs

Every theorem holds for all values of the constants that satisfy the `ASSUME` of its model, so for
any number of nodes, requests, workers, records, revisions and generations (`Attempts` has two
launches, because its gateway sends a launch at most twice). The assumptions say that bounds are
natural numbers and thresholds positive, that sets that are counted are finite, that the null values
(`None`, `NoNode`, ...) are not members of the sets they stand outside of, and what the inputs look
like; TLC evaluates them in the runs. No other fact is assumed.

| Module | Theorems (property) |
|---|---|
| `RoutingProofs` | `TypeCorrect`, `CountersExact` (`ReservationsCounted`), `CountersNeverOver`, `HalfOpenIsOwned`, `SweepsAreSafe` (`SweepsIdleNodes`), `FailoverIsDistinct` (`RetriesDistinct`), `RecoveryIsEarned` (`RecoveryNeedsEvidence`) |
| `LifecycleProofs` | `TypesHold`, `OneOperation` (`OneAtATime`), `DisturbedHidden` (`DisturbedNotHealthy`), `LeasesFit` (`LeaseFitsStatus`) |
| `DiscoveryProofs` | `TypesHold`, `RegistryFollows` (`RegistryMirrorsStore`), `LeasesFollow` (`LeasesObserved`), `AdoptionsKeepValues` (`AdoptionKeepsValue`) |
| `AttemptsProofs` | `TypesHold`, `LogIsFaithful` (`LogFaithful`), `OneCommand` (`OneCommandAtATime`), `ResendRunsOnce` (`ResendIdempotent`), `WhatIsCompleteIsWhole` (`CompleteIsWhole`) |
| `GenerationsProofs` | `TypesHold`, `SelectionsWhole` (`SelectionWhole`), `SwitchesKeepBoth` (`SwitchKeepsBoth`) |
| `TokensProofs` | `TypesHold`, `PersonalEndsOlder` (`PersonalSupersedes`), `DownloadsAgree` (`StableUnderOneSecret`), `KeysAreStored` (`HandedOutKeys`) |
| `SignInProofs` | `TypesHold`, `AccountsStay` (`AccountKeepsIssuer`), `RemovedRefused` (`RemovedIsRefused`) |
| `PlacementProofs` | `TypeCorrectness` (`TypeOK`), `ImplementsHostWork` (`OneWorkerWithinBudget`), `NoPlacementAfterTeardown` (`TornDownStaysOut`), `NothingOverwritten` (`LaunchesOverItsOwn`) |

**Routing.** The inductive invariant is `Inv == TypeOK /\ LocalsOK /\ HalfOpenOwned /\ Counting`.
`TypeOK` is not inductive: that an attempt counter stays in its range needs that a request about to
retry has attempts left, and a breaker operation is well typed only if the thread holds a breaker,
which is `LocalsOK` (what each program counter implies about the locals). `ReservationsCounted`
needs to know that an idle or retrying request holds nothing and that a holder's node is a node.
`Counting` states the exact count for the nodes that cannot be removed while serving, and the upper
bound for the others, where an admin's removal resets the counter. The steps that reserve and
release are proved once as lemmas about cardinalities and cited by the actions. `SweepsAreSafe`
follows because a sweep only takes nodes at zero and the count is exact. `FailoverIsDistinct` has
its own invariant `Tried`: the excluded nodes of a request are as many as its failed attempts, and
its current node is not one of them. `RecoveryIsEarned` goes through the steps that change a status:
what a release or a sweep removes is absent, a trip and a failed probe only demote, and a discovery
event merges.

**Lifecycle.** `Inv` is `Typed` (with what a request remembers enough for its next step: `Good`),
`OneAtATime`, `Hidden` and `Fits(store)`. `OneAtATime` is inductive once every step is seen to be
one of four: a request keeps the lease, takes it when nobody has it, gives its own back, or stays
apart from it (`HoldsStep`); a crash clears everything. `DisturbedNotHealthy` is not inductive: the
owner must already hide the host while it drains, before the steps the property names, which
`Hidden` adds, and it needs that nobody else writes the record meanwhile (`WritesStep`: whoever
writes it owns the lease, and whoever disturbs the host has made the record say so), which is where
`OneAtATime` comes in.

**Discovery.** `Inv` has `Typed`, `StoreOK` (each key's record is its last event in the log, and a
lease is alive and on one key), `WatchOK` (what the pending batch, the gates and the resume revision
still owe: every event up to the header is in the batch or at or below its key's gate), `RegistryOK`
(`Mirrors` at the larger of gate and resume revision) and `LeasesOK` (what the lease manager
remembers is the key's last event that the watcher has reached, unless a later event is on its way).
The two properties say nothing while a batch is half applied or a connection is down; the invariant
does, and that is what survives a reconnection, a replay and a compaction. `LeasesObserved` is
proved without the condition that the lease manager is at rest.

**Attempts.** `Inv` has `NodeTyped`, `GateTyped`, `Bounded` (the records in pipes, sinks and log fit
the scenario's bound), `Paged` (a page in a collector's hands continues the gateway's log, but for
what the node had dropped: `PageOK`) and `LogOK`. `LogFaithful` needs `Paged`, since another
collector may have stored the same records between the request for a page and its storing.
`Launched` is the invariant for the commands: a command has a worker, the launch of a worker has
stored the phase, which is never taken back, and two launches that both got past the check were
under way together (`raced`). `CompleteIsWhole` is not implied by any of these: it is about what is
still under way (output in a pipe, records held by a sink) and about phases that have travelled. Its
invariant is `Wholeness`. `Stages` and `Sends` relate the program counters of launches, workers and
sinks; `Ending` says that a phase which tells of either end, the exit or the end of the engine's
recording, is right about it wherever a copy of it is (on the node, in a page, at the gateway);
`Sourced` that an ended source adds no more (`NoMore`), and `Tails` that the last page of such a
phase reaches beyond everything of that source. For `run()` that is not enough, since the exit is
read from the gateway's copy, which another collector may have brought: `Locking` (who holds the
collection lock) and `Order` (how far the collectors' pages, the cursor and the parse offset are
from each other) give `Fetched`: once the exit is known and the own collection is done, either there
is something left to parse or the cursor is beyond all output. A parse that finds nothing new is then
at the end of a faithful log, which is `Handed`, except for what `crossed` excuses.

The proof corrected the property. It spoke at first of every step taken with the last page in hand,
which fails between `AppendPage` and `UpdateMeta`: `append_many` commits the page's records first, and
what the node had dropped at the end of the log is entered as a gap only with the page's metadata.
Until then those records are neither stored nor passed by the cursor. The property now speaks of the
step that stores the metadata, and the sixth scenario has an engine whose only record is dropped,
where the first form fails.

**Generations.** `Base` has the types, the place of each process between the renames (`Placed`), the
locks it has there (`Locks`) and the state of the journal (`Unsplit`, `Journaled`); `Whole` says of
the files, and of what a power loss is sure to leave of them, that links lead to generations and
generations to whole content (`Stored`, `Prepared`, `Generated`, `Linked`). `SelectionWhole` speaks
of the first only; that it survives `PowerLoss` is the second. `Turning` says how far the activation
or rollback under the lock has come, from which `SwitchKeepsBoth` follows step by step.

**Tokens.** `Inv` has `Typed`, `Sound(rows)` (at most one config key is live, and nothing older than
a live personal token), `Reads` (the rows still follow the snapshot a request has read: rows are
appended, marked and revoked only) and `Paths`. `StableUnderOneSecret` needs `Agreed`: while only
the first secret is in use the active key is `Derived` from it, and the generations added since a
request's snapshot are `Counted`: their keys are the ones the secret derives, so the key that a
request with an old snapshot would insert is taken and its insertion fails.

**SignIn.** `Inv` has `Typed`, `Distinct(users)`, and for the whitelist `Fetching`, `FetchesOK`,
`FileOK` and `CopiesOK`: each list, in flight, in the file or in memory, is `Sourced`: who is on it
is listed now, or left at most a tick before the window in which the list was fetched began (for one
in flight, at most a tick before it arrives); and a copy that is still served was made in a window
that has not ended. `RemovedIsRefused` is a statement about one step; the invariant carries it
across fetches, failures, restarts and the file.

**Placement.** None of the four properties is inductive, and two regimes need two arguments. With
one gateway the lifecycle lease keeps launch, provision and operator apart: `LeasedTo` says who has
it from the program counters, `Clears` that from the check under the lease to the end of the
provision the host is empty or has the node of this claim (`NothingOverwritten`), and `Stopped` that
a host that was torn down is suspended with no launch between its check and its fire. With several
gateways the leases do not know of each other and `Contest` takes over: a provision under way has the
claim that is in etcd, the age of its heartbeat is at most the time since its own last refresh
(`unref`), and that stays below `Stale`. The last part is `InTime`: without a loss of ownership
`unref` stays below half the stale period, but for one interval in which the revision is known to be
current, so that the next heartbeat cannot fail as somebody else's; and half of four or more intervals
leaves room for one on either side (`HalfIs`, the only place where `Stale >= 4` is needed). `Knows`
says that a reader with the current revision has read the current claim, up to a holder that died, and
has not read it as stale while it was young; hence `AttendedIs`: whoever settles a claim with a
revision that is still current finds it attended while somebody works under it, or is about to, and
`ReleasedWhenSettled`: what a pass overwrites is nobody's. `Keeps` and `Counted` are for both regimes:
a claim that was taken stays until the fire, another one has another id, and the attempts made are at
most those the claim counts, which bounds `tries` in `TypeOK` and in `HostWork`. The refinement then
goes through the steps: a fire begins (`FireIs`: nobody is working, and an attempt is left), the end,
the fence, the cancellation and the restart of the one worker (`OneWorker`) end, a deletion or an
adoption starts over, and everything else is a stutter.

Only model-checked:

- the liveness properties (`DrainCompletes`, `RequestsFinish`, `Recovers`, `Converges`, `HostFreed`,
  `RelaunchResolves`), which are beyond the prover.

## Not modelled, and plan

Not modelled, with the reason: payload translation, configuration parsing and the browser front end
(data without state); ssh, Redfish, QUADS and hub I/O (their outcomes are choices of the models);
sizing and engine profiles (floating point and text); planner and catalog (any choice of theirs is
allowed in `Placement`); downloads (one lock around I/O); shell scripts, except where they call the
Python that is modelled; the OIDC provider (a separate program); request metrics and usage totals
(counters that decide nothing); the schema migrations of the stores, the checkpoints
of attempts, and the model refresh of self-setup nodes.

Next would be the checkpoints of `Attempts` and the model refresh in `Discovery`.

Process crashes matter where something is persisted: etcd (`Lifecycle`, `Placement`; for `Routing`
and `Discovery` the gateway's memory is rebuilt by `InitialLoad` and the first snapshot), the node's
and the gateway's logs (`Attempts`), the accounts and the whitelist's cache file (`SignIn`, `Tokens`)
and the host's disk (`Generations`).
