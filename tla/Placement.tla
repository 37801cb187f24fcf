----------------------------- MODULE Placement -----------------------------
(***************************************************************************)
(* Automatic placement on one host: the passes of the reconciler, the      *)
(* claim it keeps in etcd, the provision it runs under that claim, the     *)
(* heartbeat that fences it, and the operator's teardown, suspension,      *)
(* setup and reset.                                                        *)
(*                                                                         *)
(* One gateway is the supported deployment, and operators use that one.    *)
(* An accidental second gateway runs its own passes over the same claims.  *)
(* Every write of a claim is conditional on its revision: "fresh" holds    *)
(* the readers whose revision is still the current one.                    *)
(***************************************************************************)
EXTENDS Naturals, FiniteSets

CONSTANTS
    Gateways,
    Gone,         \* the holder of a claim whose process is no more
    ClaimIds,     \* bound: claim ids in use at the same time
    NoId,         \* a node without a placement: an operator's
    None,         \* no claim, no node
    MaxAttempts,  \* placement.max_attempts
    Stale         \* claim_stale_seconds, in heartbeat intervals

VARIABLES
    live,       \* the gateways that run: one, or by accident more
    claim,      \* the claim of the host in etcd, or None
    age,        \* intervals since the heartbeat_at of a PROVISIONING claim, Stale
                \* standing for more
    node,       \* the discovery record of the host, or None
    suspended,  \* whether the host has a suspension key
    reg,        \* the node in the registry of each gateway
    fresh,      \* the readers of the claim whose revision is current
    pass,       \* the reconciler pass of each gateway
    owned,      \* the entry of _owned: the claim a provision runs under
    run,        \* the background task of that provision
    lease,      \* who has the host lifecycle lease in each gateway
    op,         \* the operator's request under way
    reset,      \* the claim an operator resets
    tries,      \* history: attempts since the last success or fresh start
    out         \* history: an operator has torn the host down and not resumed

durable == <<claim, age, node, suspended, fresh>>
local == <<reg, pass, owned, run, lease, op, reset>>
vars == <<live, claim, age, node, suspended, reg, fresh, pass, owned, run,
          lease, op, reset, tries, out>>

----------------------------------------------------------------------------
(* Data                                                                    *)

States == {"provisioning", "active", "failed", "exhausted"}

Claims == [id : ClaimIds, state : States, attempts : 0..MaxAttempts,
           holder : Gateways \cup {Gone}]

\* Serving stands for every status of a node that was registered.
Nodes == [status : {"provisioning", "failed", "serving"}, id : ClaimIds \cup {NoId}]

\* The entries of _owned: a claim, the intervals since it was refreshed, whether
\* ownership is lost and whether a heartbeat is due.
Holdings == [claim : Claims, unref : 0..Stale, lost : BOOLEAN, due : BOOLEAN]

\* The claim that an operator resets, and whether its node is cleared already.
Resets == [id : ClaimIds, cleared : BOOLEAN]

ASSUME PlacementAssumption ==
    /\ MaxAttempts \in Nat \ {0}
    /\ Stale \in Nat /\ Stale >= 4
    /\ Gone \notin Gateways
    /\ NoId \notin ClaimIds
    /\ None \notin Claims \cup Nodes \cup Holdings \cup Resets

Retryable == {"provisioning", "failed"}

Reader(g, what) == <<g, what>>

Readers == Gateways \X {"pass", "owned", "reset"}

\* _is_own_failed_node and _is_free_pool_node: what a launch may replace.
OwnFailed(n, c) ==
    /\ n # None
    /\ c # None
    /\ n.id = c.id
    /\ n.status \in Retryable

MayReplace(n, existing) == n = None \/ OwnFailed(n, existing)

\* What the registry of a gateway shows.  Only that of a single gateway may lag:
\* two gateways with registries that lag are beyond this model.
Seen(g) == IF live = {g} THEN reg[g] ELSE node

IdlePass == [pc |-> "idle", stored |-> None, stale |-> FALSE, taken |-> None,
             replace |-> FALSE]

NoOp == [pc |-> "none", hit |-> FALSE]

Working(g) == run[g] \in {"started", "recorded"}

EndPass(g) == pass' = [pass EXCEPT ![g] = IdlePass]

Goto(g, pc) == pass' = [pass EXCEPT ![g].pc = pc]

Free(g) == lease' = [lease EXCEPT ![g] = "none"]

----------------------------------------------------------------------------
(* ClaimStore: conditional writes                                          *)

\* A write that is answered: the writer has the new revision.
Put(r, c) ==
    /\ claim' = c
    /\ age' = 0
    /\ fresh' = {r}

\* A write whose answer is lost or of no use: nobody knows the new revision.
PutUnseen(c) ==
    /\ claim' = c
    /\ age' = 0
    /\ fresh' = {}

Delete ==
    /\ claim' = None
    /\ age' = 0
    /\ fresh' = {}

Unwritten == UNCHANGED <<claim, age, fresh>>

\* No write, and the reader is done with the claim.
Unread(r) ==
    /\ fresh' = fresh \ {r}
    /\ UNCHANGED <<claim, age>>

----------------------------------------------------------------------------
(* A pass: _reconcile                                                      *)

\* Suspensions, claims and the schedule are read.  Without one of them, or
\* with a stale inventory, there is no pass.
PassRead(g) ==
    /\ pass[g].pc = "idle"
    /\ claim = None => ~suspended
    /\ pass' = [pass EXCEPT ![g].pc = CASE claim = None -> "decide"
                                        [] claim # None /\ suspended -> "suspended"
                                        [] OTHER -> "settle",
                            ![g].stored = claim,
                            ![g].stale = age = Stale]
    /\ fresh' = (IF claim = None THEN fresh ELSE fresh \cup {Reader(g, "pass")})
    /\ UNCHANGED <<claim, age, node, suspended, reg, owned, run, lease, op, reset,
                   live, tries, out>>

\* A claim on a suspended host is forgotten once its node is gone.
PassSuspended(g) ==
    /\ pass[g].pc = "suspended"
    /\ \/ /\ Seen(g) = None
          /\ Reader(g, "pass") \in fresh
          /\ Delete
          /\ tries' = 0
       \/ Unread(Reader(g, "pass")) /\ UNCHANGED tries
    /\ EndPass(g)
    /\ UNCHANGED <<node, suspended, reg, owned, run, lease, op, reset, live, out>>

\* Somebody set this host up by hand.
Superseded(n, c) == n # None /\ n.id # c.id

Serving(n, c) == n # None /\ n.id = c.id /\ n.status = "serving"

\* Mutant: a claim is taken over without waiting for its heartbeat to stop.
AttendedBySelf(g) ==
    /\ pass[g].stored.state = "provisioning"
    /\ pass[g].stored.holder = g
    /\ owned[g] # None

\* A provision is under way: here, or elsewhere as far as the heartbeat tells.
Attended(g) ==
    /\ pass[g].stored.state = "provisioning"
    /\ IF pass[g].stored.holder = g THEN owned[g] # None ELSE ~pass[g].stale

Spent(c) == c.attempts >= MaxAttempts

\* _settle_claim: what is to be done about the stored claim, with the host in
\* the inventory or not.
Verdict(g, available) ==
    LET c == pass[g].stored
        n == Seen(g)
    IN IF Superseded(n, c) THEN "drop"
       ELSE IF Attended(g) THEN "keep"
       ELSE IF Serving(n, c) /\ c.state \in Retryable THEN "adopt"
       ELSE IF c.state = "provisioning" THEN "abandon"
       ELSE IF ~available /\ n = None THEN "drop"
       ELSE IF ~available /\ n.status \in Retryable THEN "clear"
       ELSE IF available /\ c.state = "active" /\ (n = None \/ n.status = "failed")
            THEN "lapse"
       ELSE "keep"

Settled(g, verdict) ==
    LET c == pass[g].stored
    IN CASE verdict = "adopt" -> [c EXCEPT !.state = "active", !.attempts = 0,
                                           !.holder = g]
         [] verdict = "abandon" ->
                [c EXCEPT !.state = IF Spent(c) THEN "exhausted" ELSE "failed",
                          !.holder = g]
         [] OTHER -> [c EXCEPT !.state = "failed", !.attempts = 0]

\* A host that is not available has nothing to decide.
Decide(g, available, stored) ==
    pass' = [pass EXCEPT ![g] = IF available
                                THEN [IdlePass EXCEPT !.pc = "decide", !.stored = stored]
                                ELSE IdlePass]

SettleKeep(g, available) ==
    /\ pass[g].pc = "settle"
    /\ Verdict(g, available) = "keep"
    /\ Decide(g, available, pass[g].stored)
    /\ IF available THEN Unwritten ELSE Unread(Reader(g, "pass"))
    /\ UNCHANGED <<node, suspended, reg, owned, run, lease, op, reset, live, tries, out>>

\* _rewrite: a writer that loses the race keeps what it read; a failed write
\* ends the pass and may have been applied.
SettleWrite(g, available) ==
    LET verdict == Verdict(g, available)
    IN /\ pass[g].pc = "settle"
       /\ verdict \in {"adopt", "abandon", "lapse"}
       /\ \/ /\ Reader(g, "pass") \in fresh
             /\ \/ /\ Put(Reader(g, "pass"), Settled(g, verdict))
                   /\ Decide(g, available, Settled(g, verdict))
                \/ /\ PutUnseen(Settled(g, verdict))
                   /\ EndPass(g)
             /\ tries' = (IF verdict = "adopt" THEN 0 ELSE tries)
          \/ /\ Reader(g, "pass") \notin fresh
             /\ Unwritten
             /\ Decide(g, available, pass[g].stored)
             /\ UNCHANGED tries
          \/ /\ Unread(Reader(g, "pass"))
             /\ EndPass(g)
             /\ UNCHANGED tries
       /\ UNCHANGED <<node, suspended, reg, owned, run, lease, op, reset, live, out>>

\* _clear_own_node, under the lease: the key goes, then the registry entry.
ClearNode(g) ==
    /\ lease[g] = "none"
    /\ node' = None
    /\ reg' = [reg EXCEPT ![g] = None]
    /\ Goto(g, "drop")
    /\ UNCHANGED <<claim, age, suspended, fresh, owned, run, lease, op, reset, live,
                   tries, out>>

SettleClear(g) ==
    /\ pass[g].pc = "settle"
    /\ Verdict(g, FALSE) = "clear"
    /\ \/ ClearNode(g)
       \/ /\ Unread(Reader(g, "pass"))
          /\ EndPass(g)
          /\ UNCHANGED <<node, suspended, reg, owned, run, lease, op, reset, live,
                         tries, out>>

\* _drop: the claim is deleted if it is the one that was read.
SettleDrop(g, available) ==
    /\ \/ pass[g].pc = "drop" /\ ~available
       \/ pass[g].pc = "settle" /\ Verdict(g, available) = "drop"
    /\ \/ /\ Reader(g, "pass") \in fresh
          /\ Delete
          /\ tries' = 0
          /\ Decide(g, available, None) \/ EndPass(g)
       \/ /\ Reader(g, "pass") \notin fresh
          /\ Unwritten
          /\ Decide(g, available, pass[g].stored)
          /\ UNCHANGED tries
       \/ /\ Unread(Reader(g, "pass"))
          /\ EndPass(g)
          /\ UNCHANGED tries
    /\ UNCHANGED <<node, suspended, reg, owned, run, lease, op, reset, live, out>>

----------------------------------------------------------------------------
(* The launch of a provision: _launch                                      *)

\* The planner, the budget and the readiness checks may leave the host alone.
PassEnds(g) ==
    /\ pass[g].pc = "decide"
    /\ EndPass(g)
    /\ Unread(Reader(g, "pass"))
    /\ UNCHANGED <<node, suspended, reg, owned, run, lease, op, reset, live, tries, out>>

\* The policy does not allow the profile on this host any more: the claim and
\* its own failed node are given up.
PolicyRelease(g) ==
    /\ pass[g].pc = "decide"
    /\ pass[g].stored # None
    /\ pass[g].stored.state = "failed"
    /\ \/ OwnFailed(Seen(g), pass[g].stored) /\ ClearNode(g)
       \/ /\ ~OwnFailed(Seen(g), pass[g].stored)
          /\ Goto(g, "drop")
          /\ UNCHANGED <<durable, reg, owned, run, lease, op, reset, live, tries, out>>

\* A failed claim is retried, a host without a claim is a candidate when the
\* registry shows nothing on it and nobody holds it.
Candidate(g) ==
    /\ pass[g].pc = "decide"
    /\ pass[g].stored # None => pass[g].stored.state = "failed"
    /\ pass[g].stored = None => Seen(g) = None
    /\ lease[g] = "none"

\* Mutant: the suspension is only read when the pass begins.
MayLaunchSuspended(g) ==
    /\ pass[g].stored # None => ~Spent(pass[g].stored)
    /\ MayReplace(Seen(g), pass[g].stored)
    /\ MayReplace(node, pass[g].stored)

\* Mutant: the registry is taken for the truth about the host.
MayLaunchRegistry(g) ==
    /\ ~suspended
    /\ pass[g].stored # None => ~Spent(pass[g].stored)
    /\ MayReplace(Seen(g), pass[g].stored)

\* The checks under the lease: suspension, registry, budget, schedule, earlier
\* work on the host, and the record in etcd, which the registry may not show.
MayLaunch(g) ==
    /\ ~suspended
    /\ pass[g].stored # None => ~Spent(pass[g].stored)
    /\ MayReplace(Seen(g), pass[g].stored)
    /\ MayReplace(node, pass[g].stored)

LaunchCheck(g) ==
    /\ Candidate(g)
    /\ MayLaunch(g)
    /\ lease' = [lease EXCEPT ![g] = "launch"]
    /\ Goto(g, "claim")
    /\ UNCHANGED <<durable, reg, owned, run, op, reset, live, tries, out>>

\* A claim whose budget is spent becomes exhausted, one that is blocked waits.
LaunchRefused(g) ==
    LET c == pass[g].stored
    IN /\ Candidate(g)
       /\ ~suspended
       /\ c # None
       /\ Reader(g, "pass") \in fresh
       /\ PutUnseen(IF Spent(c) THEN [c EXCEPT !.state = "exhausted"] ELSE c)
       /\ EndPass(g)
       /\ UNCHANGED <<node, suspended, reg, owned, run, lease, op, reset, live, tries, out>>

Abandon(g) ==
    /\ Free(g)
    /\ EndPass(g)

\* Mutant: a retry is not counted.
ClaimUncounted(g, id) ==
    [id |-> id, state |-> "provisioning", holder |-> g,
     attempts |-> IF pass[g].stored = None THEN 1 ELSE pass[g].stored.attempts]

\* The claim of an attempt, counted when it starts.
Claimed(g, id) ==
    [id |-> id, state |-> "provisioning", holder |-> g,
     attempts |-> IF pass[g].stored = None THEN 1 ELSE pass[g].stored.attempts + 1]

\* A new id is not in use: not by a node, a claim or anyone's memory of one.
Unused(id) ==
    /\ claim # None => claim.id # id
    /\ node # None => node.id # id
    /\ \A g \in Gateways :
           /\ reg[g] # None => reg[g].id # id
           /\ pass[g].stored # None => pass[g].stored.id # id
           /\ pass[g].taken # None => pass[g].taken.id # id
           /\ owned[g] # None => owned[g].claim.id # id
           /\ reset[g] # None => reset[g].id # id

\* The compare-and-swap that takes the host, on what the registry shows now.
LaunchClaim(g) ==
    /\ pass[g].pc = "claim"
    /\ \/ \E id \in ClaimIds :
             /\ IF pass[g].stored = None THEN claim = None /\ Unused(id)
                ELSE Reader(g, "pass") \in fresh /\ id = pass[g].stored.id
             /\ MayReplace(Seen(g), pass[g].stored)
             /\ \/ /\ Put(Reader(g, "owned"), Claimed(g, id))
                   /\ pass' = [pass EXCEPT ![g] = [IdlePass EXCEPT
                                  !.pc = "fire",
                                  !.taken = Claimed(g, id),
                                  !.replace = Seen(g) # None]]
                   /\ UNCHANGED lease
                \/ /\ PutUnseen(Claimed(g, id))
                   /\ Abandon(g)
       \/ /\ Unread(Reader(g, "pass"))
          /\ Abandon(g)
    /\ UNCHANGED <<node, suspended, reg, owned, run, op, reset, live, tries, out>>

\* The claim is taken back when the capacity is reached: no attempt was made.
TakenBack(c) == [c EXCEPT !.state = "failed", !.attempts = @ - 1]

\* What a teardown that waits for the task does when the task is over.
TaskOver(g) ==
    op' = [op EXCEPT ![g] = [pc |-> IF @.pc = "wait" THEN "reserve" ELSE @.pc,
                             hit |-> FALSE]]

\* The failed node is cleared and the task fired.  An earlier task that has yet
\* to write its result has lost its claim: nothing it does matters any more.
LaunchFire(g) ==
    /\ pass[g].pc = "fire"
    /\ \/ /\ IF pass[g].replace
             THEN node' = None /\ reg' = [reg EXCEPT ![g] = None]
             ELSE UNCHANGED <<node, reg>>
          /\ run' = [run EXCEPT ![g] = "queued"]
          /\ owned' = [owned EXCEPT ![g] = [claim |-> pass[g].taken, unref |-> 0,
                                            lost |-> FALSE, due |-> FALSE]]
          /\ IF run[g] = "none" THEN UNCHANGED op ELSE TaskOver(g)
          /\ lease' = [lease EXCEPT ![g] = "task"]
          /\ tries' = tries + 1
          /\ EndPass(g)
          /\ Unwritten
       \/ /\ \/ Unread(Reader(g, "owned"))
             \/ /\ claim = pass[g].taken
                /\ PutUnseen(TakenBack(claim))
          /\ node' \in (IF pass[g].replace THEN {node, None} ELSE {node})
          /\ reg' = [reg EXCEPT ![g] = IF node' = node THEN @ ELSE None]
          /\ Abandon(g)
          /\ UNCHANGED <<run, owned, op, tries>>
    /\ UNCHANGED <<suspended, reset, live, out>>

----------------------------------------------------------------------------
(* The provision under the claim: _run_owned, provision                    *)

Mine(g, status) == [status |-> status, id |-> owned[g].claim.id]

TaskStart(g) ==
    /\ run[g] = "queued"
    /\ run' = [run EXCEPT ![g] = "started"]
    /\ UNCHANGED <<durable, reg, pass, owned, lease, op, reset, live, tries, out>>

ProvisionRecord(g) ==
    /\ run[g] = "started"
    /\ node' = Mine(g, "provisioning")
    /\ run' = [run EXCEPT ![g] = "recorded"]
    /\ UNCHANGED <<claim, age, suspended, fresh, reg, pass, owned, lease, op, reset,
                   live, tries, out>>

ProvisionSucceeds(g) ==
    /\ run[g] = "recorded"
    /\ node' = Mine(g, "serving")
    /\ run' = [run EXCEPT ![g] = "succeeded"]
    /\ tries' = 0
    /\ Free(g)
    /\ UNCHANGED <<claim, age, suspended, fresh, reg, pass, owned, op, reset, live, out>>

\* A failure turns the record of this provision into FAILED; the registration
\* may have been applied although it seemed to fail.
ProvisionFails(g) ==
    /\ Working(g)
    /\ node' \in {node} \cup
                 (IF run[g] = "recorded" /\ node = Mine(g, "provisioning")
                  THEN {Mine(g, "failed"), Mine(g, "serving")} ELSE {})
    /\ run' = [run EXCEPT ![g] = "failed"]
    /\ Free(g)
    /\ UNCHANGED <<claim, age, suspended, fresh, reg, pass, owned, op, reset, live,
                   tries, out>>

Same(c) == claim = c

\* _heartbeat_once.  The claim is refreshed; or an earlier write landed unseen
\* and only its revision is learned; or the write fails for long enough, or
\* the claim is somebody else's: then ownership is lost.
HeartbeatOnce(g) ==
    LET o == owned[g]
        current == Reader(g, "owned") \in fresh
        beat == [o EXCEPT !.due = FALSE]
        refreshed == [beat EXCEPT !.unref = 0]
        lost == [beat EXCEPT !.lost = TRUE]
        unanswered == IF o.unref >= Stale \div 2 THEN lost ELSE beat
    IN /\ Working(g)
       /\ o.due
       /\ ~o.lost
       /\ claim' = claim
       /\ \/ /\ current
             /\ age' = 0
             /\ owned' = [owned EXCEPT ![g] = refreshed]
             /\ fresh' = {Reader(g, "owned")}
          \/ /\ ~current
             /\ Same(o.claim)
             /\ owned' = [owned EXCEPT ![g] = beat]
             /\ fresh' = fresh \cup {Reader(g, "owned")}
             /\ UNCHANGED age
          \/ /\ ~current
             /\ owned' = [owned EXCEPT ![g] = lost]
             /\ UNCHANGED <<age, fresh>>
          \/ /\ current
             /\ age' = 0
             /\ owned' = [owned EXCEPT ![g] = unanswered]
             /\ fresh' = {}
          \/ /\ owned' = [owned EXCEPT ![g] = unanswered]
             /\ UNCHANGED <<age, fresh>>
       /\ UNCHANGED <<node, suspended, reg, pass, run, lease, op, reset, live, tries, out>>

\* Where a write under way lands when its task is cancelled.
Landing(g) ==
    {node} \cup (IF run[g] = "started" THEN {Mine(g, "provisioning")} ELSE {})
           \cup (IF run[g] = "recorded" THEN {Mine(g, "serving")} ELSE {})

Forget(g) == owned' = [owned EXCEPT ![g] = None]

\* _fence: the provision is cancelled, its remote command included.
Fence(g) ==
    /\ Working(g)
    /\ owned[g].lost
    /\ node' \in Landing(g)
    /\ run' = [run EXCEPT ![g] = "none"]
    /\ Free(g)
    /\ Forget(g)
    /\ TaskOver(g)
    /\ Unread(Reader(g, "owned"))
    /\ UNCHANGED <<suspended, reg, pass, reset, live, tries, out>>

Outcome(g) ==
    LET c == owned[g].claim
    IN IF run[g] = "succeeded" THEN [c EXCEPT !.state = "active", !.attempts = 0]
       ELSE [c EXCEPT !.state = IF Spent(c) THEN "exhausted" ELSE "failed"]

\* _finish: the result is written if the claim is still this attempt's, on
\* whatever revision an unseen heartbeat left; a write that fails is left to
\* the next pass.
Finish(g) ==
    /\ run[g] \in {"succeeded", "failed"}
    /\ \/ /\ ~owned[g].lost
          /\ Same(owned[g].claim)
          /\ PutUnseen(Outcome(g))
       \/ Unread(Reader(g, "owned"))
    /\ tries' = (IF claim' # claim /\ claim'.state = "active" THEN 0 ELSE tries)
    /\ run' = [run EXCEPT ![g] = "none"]
    /\ Forget(g)
    /\ TaskOver(g)
    /\ UNCHANGED <<node, suspended, reg, pass, lease, reset, live, out>>

----------------------------------------------------------------------------
(* Operators, in the supported deployment                                  *)

Operated(g) == live = {g}

\* Operators act one at a time.
Unoccupied(g) == op[g] = NoOp /\ reset[g] = None

\* POST /nodes/setup: the stale node is cleared and a provision of the
\* operator's runs under the lease.
SetupStart(g) ==
    /\ Operated(g)
    /\ Unoccupied(g)
    /\ lease[g] = "none"
    /\ Seen(g) # None => Seen(g).status # "serving"
    /\ lease' = [lease EXCEPT ![g] = "op"]
    /\ op' = [op EXCEPT ![g].pc = "setup"]
    /\ node' = (IF Seen(g) = None THEN node ELSE None)
    /\ reg' = [reg EXCEPT ![g] = None]
    /\ UNCHANGED <<claim, age, suspended, fresh, pass, owned, run, reset, live, tries, out>>

SetupRecord(g) ==
    /\ op[g].pc = "setup"
    /\ node' = [status |-> "provisioning", id |-> NoId]
    /\ op' = [op EXCEPT ![g].pc = "recorded"]
    /\ UNCHANGED <<claim, age, suspended, fresh, reg, pass, owned, run, lease, reset,
                   live, tries, out>>

SetupEnd(g) ==
    /\ \/ op[g].pc = "setup" /\ UNCHANGED node
       \/ /\ op[g].pc = "recorded"
          /\ \E s \in {"serving", "failed"} : node' = [status |-> s, id |-> NoId]
    /\ op' = [op EXCEPT ![g] = NoOp]
    /\ Free(g)
    /\ UNCHANGED <<claim, age, suspended, fresh, reg, pass, owned, run, reset, live,
                   tries, out>>

\* PATCH /nodes/{id}/owner: the node stops being an automatic placement.
TakeOver(g) ==
    /\ Operated(g)
    /\ lease[g] = "none"
    /\ node # None
    /\ node' = [node EXCEPT !.id = NoId]
    /\ reg' = [reg EXCEPT ![g] = node']
    /\ UNCHANGED <<claim, age, suspended, fresh, pass, owned, run, lease, op, reset,
                   live, tries, out>>

\* DELETE /nodes/{id}: a running provision is inspected, the suspension is
\* persisted and then that provision is cancelled; without one the suspension
\* is persisted under the lease.
TeardownRequest(g) ==
    /\ Operated(g)
    /\ Unoccupied(g)
    /\ \/ /\ run[g] # "none"
          /\ op' = [op EXCEPT ![g] = [pc |-> "suspend", hit |-> TRUE]]
          /\ UNCHANGED <<suspended, lease>>
       \/ /\ run[g] = "none"
          /\ lease[g] = "none"
          /\ lease' = [lease EXCEPT ![g] = "op"]
          /\ suspended' = TRUE
          /\ op' = [op EXCEPT ![g].pc = "teardown"]
    /\ UNCHANGED <<claim, age, node, fresh, reg, pass, owned, run, reset, live, tries, out>>

TeardownSuspend(g) ==
    /\ op[g].pc = "suspend"
    /\ \/ suspended' = TRUE /\ op' = [op EXCEPT ![g].pc = "cancel"]
       \/ UNCHANGED suspended /\ op' = [op EXCEPT ![g] = NoOp]
    /\ UNCHANGED <<claim, age, node, fresh, reg, pass, owned, run, lease, reset, live,
                   tries, out>>

\* cancel_provision: a task that never started is only forgotten, the final
\* write of a claim is shielded, and a replaced task is left alone.
TeardownCancel(g) ==
    /\ op[g].pc = "cancel"
    /\ \/ /\ ~op[g].hit
          /\ op' = [op EXCEPT ![g] = NoOp]
          /\ UNCHANGED <<node, run, owned, lease, fresh>>
       \/ /\ op[g].hit
          /\ run[g] = "queued"
          /\ run' = [run EXCEPT ![g] = "none"]
          /\ op' = [op EXCEPT ![g] = [pc |-> "reserve", hit |-> FALSE]]
          /\ Forget(g)
          /\ fresh' = fresh \ {Reader(g, "owned")}
          /\ Free(g)
          /\ UNCHANGED node
       \/ /\ op[g].hit
          /\ Working(g)
          /\ node' \in Landing(g)
          /\ run' = [run EXCEPT ![g] = "failed"]
          /\ op' = [op EXCEPT ![g].pc = "wait"]
          /\ Free(g)
          /\ UNCHANGED <<owned, fresh>>
       \/ /\ op[g].hit
          /\ run[g] \in {"succeeded", "failed"}
          /\ op' = [op EXCEPT ![g] = [pc |-> "reserve", hit |-> FALSE]]
          /\ UNCHANGED <<node, run, owned, lease, fresh>>
    /\ UNCHANGED <<claim, age, suspended, reg, pass, reset, live, tries, out>>

\* The lease after the cancellation; a resume that came first is respected.
TeardownReserve(g) ==
    /\ op[g].pc = "reserve"
    /\ \/ /\ lease[g] = "none"
          /\ suspended
          /\ lease' = [lease EXCEPT ![g] = "op"]
          /\ op' = [op EXCEPT ![g] = [pc |-> "teardown", hit |-> FALSE]]
       \/ /\ lease[g] # "none" \/ ~suspended
          /\ op' = [op EXCEPT ![g] = NoOp]
          /\ UNCHANGED lease
    /\ UNCHANGED <<durable, reg, pass, owned, run, reset, live, tries, out>>

\* A teardown that fails marks the registry's node as failed, unless it is
\* RELAUNCH_FAILED; the key may be gone already.
TeardownEnd(g) ==
    /\ op[g].pc = "teardown"
    /\ \/ /\ node' = None
          /\ reg' = [reg EXCEPT ![g] = None]
          /\ out' = TRUE
       \/ /\ node' \in {node, None}
          /\ \E keep \in BOOLEAN :
                reg' = [reg EXCEPT ![g] = IF @ = None \/ keep THEN @
                                          ELSE [@ EXCEPT !.status = "failed"]]
          /\ UNCHANGED out
    /\ op' = [op EXCEPT ![g] = NoOp]
    /\ Free(g)
    /\ UNCHANGED <<claim, age, suspended, fresh, pass, owned, run, reset, live, tries>>

\* DELETE /admin/placement/suspensions/{host}, under the lease.
Resume(g) ==
    /\ Operated(g)
    /\ suspended
    /\ lease[g] = "none"
    /\ suspended' = FALSE
    /\ out' = FALSE
    /\ UNCHANGED <<claim, age, node, fresh, local, live, tries>>

\* DELETE /admin/placement/claims/{host}: the claim is read, its own failed
\* node cleared under the lease, then the claim deleted if it has not changed.
ResetRead(g) ==
    /\ Operated(g)
    /\ Unoccupied(g)
    /\ claim # None
    /\ claim.state \in {"failed", "exhausted"}
    /\ reset' = [reset EXCEPT ![g] = [id |-> claim.id, cleared |-> FALSE]]
    /\ fresh' = fresh \cup {Reader(g, "reset")}
    /\ UNCHANGED <<claim, age, node, suspended, reg, pass, owned, run, lease, op, live,
                   tries, out>>

ResetClear(g) ==
    /\ reset[g] # None
    /\ ~reset[g].cleared
    /\ \/ /\ OwnFailed(Seen(g), reset[g]) => lease[g] = "none"
          /\ node' = (IF OwnFailed(Seen(g), reset[g]) THEN None ELSE node)
          /\ reg' = [reg EXCEPT ![g] = IF OwnFailed(@, reset[g]) THEN None ELSE @]
          /\ reset' = [reset EXCEPT ![g].cleared = TRUE]
          /\ UNCHANGED fresh
       \/ /\ OwnFailed(Seen(g), reset[g])
          /\ reset' = [reset EXCEPT ![g] = None]
          /\ fresh' = fresh \ {Reader(g, "reset")}
          /\ UNCHANGED <<node, reg>>
    /\ UNCHANGED <<claim, age, suspended, pass, owned, run, lease, op, live, tries,
                   out>>

ResetDelete(g) ==
    /\ reset[g] # None
    /\ reset[g].cleared
    /\ \/ /\ Reader(g, "reset") \in fresh
          /\ Delete
          /\ tries' = 0
       \/ Unread(Reader(g, "reset")) /\ UNCHANGED tries
    /\ reset' = [reset EXCEPT ![g] = None]
    /\ UNCHANGED <<node, suspended, reg, pass, owned, run, lease, op, live, out>>

----------------------------------------------------------------------------
(* The registry, time and the gateway process                              *)

Watch(g) ==
    /\ live = {g}
    /\ reg' = [reg EXCEPT ![g] = node]
    /\ UNCHANGED <<durable, pass, owned, run, lease, op, reset, live, tries, out>>

\* A lease runs out or the schedule enforcer tears a serving node down.
Expire ==
    /\ node # None
    /\ node.status = "serving"
    /\ node' = None
    /\ UNCHANGED <<claim, age, suspended, fresh, local, live, tries, out>>

Held == claim # None /\ claim.state = "provisioning"

\* One heartbeat interval passes.  The heartbeat task keeps its interval, a
\* task that was fired starts within it, one that ended writes its result
\* within it, and a provision that is fenced at half the stale period is over
\* before the whole of it.
Tick ==
    /\ Held \/ \E g \in Gateways : Working(g)
    /\ \A g \in Gateways :
           /\ run[g] \notin {"queued", "succeeded", "failed"}
           /\ pass[g].pc # "fire"
           /\ Working(g) => /\ ~owned[g].due
                            /\ owned[g].lost => owned[g].unref < Stale - 1
    /\ age' = (IF Held /\ age < Stale THEN age + 1 ELSE age)
    /\ owned' = [g \in Gateways |->
                    IF Working(g)
                    THEN [owned[g] EXCEPT !.due = ~owned[g].lost,
                                          !.unref = IF @ < Stale THEN @ + 1 ELSE @]
                    ELSE owned[g]]
    /\ UNCHANGED <<claim, node, suspended, fresh, reg, pass, run, lease, op, reset, live,
                   tries, out>>

\* The gateway ends and starts again, under a new holder id, with etcd there
\* or not.
Restart(g) ==
    /\ g \in live
    /\ claim' = (IF claim # None /\ claim.holder = g
                 THEN [claim EXCEPT !.holder = Gone] ELSE claim)
    /\ fresh' = fresh \ ({g} \X {"pass", "owned", "reset"})
    /\ \E n \in {node, None} :
           reg' = [reg EXCEPT ![g] = IF live = {g} THEN n ELSE None]
    /\ EndPass(g)
    /\ Forget(g)
    /\ run' = [run EXCEPT ![g] = "none"]
    /\ Free(g)
    /\ op' = [op EXCEPT ![g] = NoOp]
    /\ reset' = [reset EXCEPT ![g] = None]
    /\ UNCHANGED <<age, node, suspended, live, tries, out>>

----------------------------------------------------------------------------

Init ==
    /\ live \in {{g} : g \in Gateways} \cup {Gateways}
    /\ claim = None
    /\ age = 0
    /\ node = None
    /\ suspended = FALSE
    /\ reg = [g \in Gateways |-> None]
    /\ fresh = {}
    /\ pass = [g \in Gateways |-> IdlePass]
    /\ owned = [g \in Gateways |-> None]
    /\ run = [g \in Gateways |-> "none"]
    /\ lease = [g \in Gateways |-> "none"]
    /\ op = [g \in Gateways |-> NoOp]
    /\ reset = [g \in Gateways |-> None]
    /\ tries = 0
    /\ out = FALSE

Pass(g) ==
    \/ PassRead(g) \/ PassSuspended(g) \/ SettleClear(g) \/ PassEnds(g)
    \/ \E available \in BOOLEAN :
           \/ SettleKeep(g, available)
           \/ SettleWrite(g, available)
           \/ SettleDrop(g, available)
    \/ PolicyRelease(g) \/ LaunchCheck(g) \/ LaunchRefused(g) \/ LaunchClaim(g)
    \/ LaunchFire(g)

Task(g) ==
    \/ TaskStart(g) \/ ProvisionRecord(g) \/ ProvisionSucceeds(g) \/ ProvisionFails(g)
    \/ HeartbeatOnce(g) \/ Fence(g) \/ Finish(g)

Operator(g) ==
    \/ SetupStart(g) \/ SetupRecord(g) \/ SetupEnd(g) \/ TakeOver(g)
    \/ TeardownRequest(g) \/ TeardownSuspend(g) \/ TeardownCancel(g)
    \/ TeardownReserve(g) \/ TeardownEnd(g) \/ Resume(g)
    \/ ResetRead(g) \/ ResetClear(g) \/ ResetDelete(g)

Next ==
    \/ \E g \in live : Pass(g) \/ Task(g) \/ Operator(g) \/ Watch(g) \/ Restart(g)
    \/ Expire
    \/ Tick

Spec == Init /\ [][Next]_vars

----------------------------------------------------------------------------
(* Properties                                                              *)

\* The variables hold what the program's objects can hold.
TypeOK ==
    /\ claim \in Claims \cup {None}
    /\ age \in 0..Stale
    /\ node \in Nodes \cup {None}
    /\ reg \in [Gateways -> Nodes \cup {None}]
    /\ fresh \subseteq Readers
    /\ pass \in [Gateways -> [pc : {"idle", "suspended", "settle", "drop", "decide",
                                    "claim", "fire"},
                              stored : Claims \cup {None},
                              taken : Claims \cup {None}, stale : BOOLEAN,
                              replace : BOOLEAN]]
    /\ owned \in [Gateways -> Holdings \cup {None}]
    /\ run \in [Gateways -> {"none", "queued", "started", "recorded", "succeeded",
                             "failed"}]
    /\ lease \in [Gateways -> {"none", "launch", "task", "op"}]
    /\ reset \in [Gateways -> Resets \cup {None}]
    /\ tries \in 0..MaxAttempts

\* The placements that the steps of a gateway are about.
Concerns(g) ==
    {c.id : c \in {pass[g].stored, pass[g].taken} \ {None}}
        \cup {o.claim.id : o \in {owned[g]} \ {None}}
        \cup {r.id : r \in {reset[g]} \ {None}}

Untouched(g) == node' # node /\ node # None => node.id \in Concerns(g)

\* In the supported deployment a launch and the provision it starts only ever
\* write over a node of their own placement, never over one that an operator
\* has set up or taken over, however far the registry lags behind.
LaunchesOverItsOwn ==
    [][\A g \in Gateways :
          Operated(g) /\ (LaunchFire(g) \/ Task(g)) => Untouched(g)]_vars

\* A host that an operator has torn down stays out of automatic placement
\* until it is resumed.
TornDownStaysOut ==
    \A g \in Gateways : out => run[g] \in {"none", "succeeded", "failed"}

\* The abstract workers: the gateways with a provision that was fired and has
\* not ended.
Work == INSTANCE HostWork WITH
            workers <- {g \in Gateways : run[g] = "queued" \/ Working(g)}

\* Placement implements HostWork: one gateway works on the host at a time, and
\* within max_attempts, across restarts, lost answers and takeovers.
OneWorkerWithinBudget == Work!Spec
=============================================================================
