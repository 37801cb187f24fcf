-------------------------- MODULE LifecycleProofs --------------------------
(***************************************************************************)
(* Proofs about Lifecycle, for any number of requests, owners and          *)
(* attempts: one operation at a time has the host, a disturbed host is not *)
(* advertised, and what is left in etcd has the lease that fits it.        *)
(***************************************************************************)
EXTENDS Lifecycle, TLAPS

-----------------------------------------------------------------------------
(* The inductive invariant.                                                *)

PCs == Background \cup Handlers \cup {"idle", "ended"}

OpRecord == [what : {"none", "setup", "teardown", "enforced", "relaunch",
                     "register", "remove", "owner"},
             pc : PCs,
             kind : Kinds, owner : Owners \cup {NoOwner},
             named : BOOLEAN, target : Ops \cup {None}, force : BOOLEAN,
             known : BOOLEAN, node : Nodes \cup {None},
             local : Nodes \cup {None},
             written : {"none", "relaunching", "healthy"},
             cancel : {"no", "explicit", "shutdown", "swallowed", "unstarted"},
             tries : 0..MaxAttempts]

\* The steps of a relaunch that work from the persisted node.
Holding == {"r_begin", "r_commit", "r_drain", "r_stop", "r_launch", "r_register", "r_finish",
            "r_rollback", "r_terminal", "r_restore"}

\* The steps at which the host is taken apart, or about to be.
Disturbing == {"uploading", "setup", "running", "retrying", "inventory", "starting",
               "launching", "retry_start", "verifying", "verify_runtime", "registering",
               "r_drain", "r_stop", "r_launch", "r_register"}

\* A record that has the lease which fits its status.
Fits(n) ==
    n # None =>
        /\ n.status = "relaunching" => n.leased
        /\ n.status \in {"provisioning", "failed", "relaunch_failed", "available"} => ~n.leased

\* What an operation remembers is enough for its next step.
Good == {r \in OpRecord :
            /\ r.pc \in Holding => r.node \in Nodes
            /\ r.pc = "retrying" => r.tries < MaxAttempts
            /\ r.pc = "p_put" => Fits(r.node)}

Typed ==
    /\ store \in Nodes \cup {None} /\ reg \in Nodes \cup {None} /\ task \in Tasks
    /\ holder \in Ops \cup {None} /\ record \in Ops \cup {None}
    /\ pending \in BOOLEAN /\ remote \in BOOLEAN /\ initiated \in BOOLEAN
    /\ gateway \in {"up", "stopping", "down"}
    /\ op \in [Ops -> Good]

\* A host that is taken apart is not healthy in etcd.
Hidden ==
    \A o \in Ops : op[o].pc \in Disturbing => store = None \/ store.status # "healthy"

Inv == Typed /\ OneAtATime /\ Hidden /\ Fits(store)

-----------------------------------------------------------------------------
(* What an operation remembers.                                            *)

\* The records that the steps make.
LEMMA NodesMade ==
    /\ \A n \in Nodes : Known(n) \in Nodes
    /\ \A n \in Nodes, s \in Statuses : WithStatus(n, s) \in Nodes
    /\ \A n \in Nodes : [n EXCEPT !.leased = TRUE] \in Nodes
    /\ \A n \in Nodes, w \in Owners \cup {NoOwner} : [n EXCEPT !.owner = w] \in Nodes
    /\ \A s \in Statuses, k \in Kinds, w \in Owners \cup {NoOwner}, l \in BOOLEAN :
          Node(s, k, w, l) \in Nodes
BY DEF Nodes, Known, WithStatus, Node

\* An idle slot and a finished task remember nothing that a step would need.
LEMMA Resting ==
    /\ Idle \in Good
    /\ \A r \in OpRecord : [Idle EXCEPT !.what = r.what, !.pc = "ended", !.cancel = r.cancel] \in Good
    /\ \A r \in OpRecord : [Idle EXCEPT !.what = r.what, !.pc = "ended", !.cancel = "unstarted"] \in Good
<1>1. /\ {"idle", "ended"} \subseteq PCs
      /\ \A pc \in {"idle", "ended"} : pc \notin Holding /\ pc # "retrying" /\ pc # "p_put"
  BY DEF PCs, Holding
<1>2. "managed" \in Kinds /\ 0 \in 0..MaxAttempts
  BY LifecycleAssumption DEF Kinds
<1>3. Idle \in OpRecord /\ Idle.pc = "idle"
  BY <1>1, <1>2 DEF Idle, OpRecord
<1>4. \A r \in OpRecord, c \in {"no", "explicit", "shutdown", "swallowed", "unstarted"} :
          [Idle EXCEPT !.what = r.what, !.pc = "ended", !.cancel = c] \in Good
  BY ZenonT(60), <1>1, <1>3 DEF OpRecord, Good
<1>5. Idle \in Good
  BY <1>1, <1>3 DEF Good
<1>6. \A r \in OpRecord : r.cancel \in {"no", "explicit", "shutdown", "swallowed", "unstarted"}
  BY DEF OpRecord
<1>7. QED
  BY <1>4, <1>5, <1>6

\* The steps of an operation that need no more than it has.
Safe == PCs \ (Holding \cup {"retrying", "p_put"})

\* An operation of which only the step changes stays good.
LEMMA PcChanges ==
    ASSUME NEW r \in Good, NEW pc, pc \in Safe \/ (pc \in Holding /\ r.pc \in Holding)
    PROVE  [r EXCEPT !.pc = pc] \in Good
<1>1. Holding \subseteq PCs
  BY DEF Holding, PCs, Background
<1>2. "retrying" \notin Holding /\ "p_put" \notin Holding
  BY DEF Holding
<1>3. QED
  BY <1>1, <1>2 DEF Good, OpRecord, Safe


\* Every step of an operation keeps what the operations remember good.
LEMMA GoodStep ==
    ASSUME Inv, NEW o \in Ops, Requests(o) \/ Step(o)
    PROVE  op' \in [Ops -> Good]
<1>1. op \in [Ops -> Good] /\ op[o] \in Good /\ op[o] \in OpRecord
  BY DEF Inv, Typed, Good
<1>2. \A r \in Good : op' = [op EXCEPT ![o] = r] => op' \in [Ops -> Good]
  BY <1>1
<1>3. \A pc \in Safe : Goto(o, pc) => op' \in [Ops -> Good]
  BY <1>1, PcChanges DEF Goto
<1>4. op[o].pc \in Holding => \A pc \in Holding : Goto(o, pc) => op' \in [Ops -> Good]
  BY <1>1, PcChanges DEF Goto
<1>5. op' = [op EXCEPT ![o] = Idle] => op' \in [Ops -> Good]
  BY <1>2, Resting
<1>6. End(o) \/ Refuse(o) => op' \in [Ops -> Good]
  <2>1. Ended(o) \in Good
    BY <1>1, Resting DEF Ended
  <2>2. QED
    BY <1>2, <1>5, <2>1 DEF End, Refuse
<1>7. /\ store \in Nodes \cup {None} /\ reg \in Nodes \cup {None} /\ Fits(store)
      /\ record \in Ops \cup {None}
  BY DEF Inv, Typed
<1>8. /\ {"stale", "launch", "queued", "powering", "reconciling", "preflight", "recording", "uploading",
          "failing", "setup", "running", "inventory", "starting", "launching", "retry_start",
          "verifying", "verify_runtime", "registering", "failed", "finishing"} \subseteq Safe
      /\ {"validating", "reserved", "t_suspend", "t_cancel", "t_wait", "t_report", "t_refused",
          "t_reserve", "t_check", "t_queued", "t_stop", "t_delete", "t_fail", "t_remove", "t_repool",
          "t_end", "r_queued", "r_validate", "r_fail", "p_add", "p_delete", "p_remove", "o_write",
          "o_add", "ended"} \subseteq Safe
      /\ Safe \subseteq PCs
  BY DEF Safe, PCs, Background, Provisioning, Handlers, Holding
<1>9. CASE \/ SetupInspect(o) \/ SetupCleanup(o) \/ SetupLaunch(o) \/ ProvisionStart(o) \/ PowerOn(o)
            \/ Reconcile(o) \/ Preflight(o) \/ ProvisionRecord(o) \/ SetupRun(o) \/ EngineStart(o)
            \/ EngineAnswer(o)
  BY <1>3, <1>6, <1>8, <1>9
     DEF SetupInspect, SetupCleanup, SetupLaunch, ProvisionStart, PowerOn, Reconcile, Preflight,
         ProvisionRecord, SetupRun, EngineStart, EngineAnswer
<1>10. CASE \/ ServingVerify(o) \/ RuntimeVerify(o) \/ FitVerify(o) \/ ProvisionRegister(o)
            \/ ProvisionFail(o) \/ ProvisionFailed(o) \/ ProvisionEnd(o) \/ ProvisionCancelled(o)
  BY <1>3, <1>6, <1>8, <1>10
     DEF ServingVerify, RuntimeVerify, FitVerify, ProvisionRegister, ProvisionFail, ProvisionFailed,
         ProvisionEnd, ProvisionCancelled
<1>11. CASE \/ TeardownSuspend(o) \/ TeardownWoken(o) \/ TeardownReserve(o) \/ TeardownCheck(o)
            \/ TeardownStop(o) \/ TeardownRemove(o) \/ TeardownRepool(o) \/ TeardownEnd(o)
            \/ TeardownFail(o) \/ TeardownCancelled(o)
  BY <1>3, <1>5, <1>6, <1>8, <1>11
     DEF TeardownSuspend, TeardownWoken, TeardownReserve, TeardownCheck, TeardownStop,
         TeardownRemove, TeardownRepool, TeardownEnd, TeardownFail, TeardownCancelled
<1>12. CASE \/ RelaunchStart(o) \/ RelaunchBegin(o) \/ RelaunchStop(o) \/ RelaunchDrain(o)
            \/ RelaunchLaunch(o) \/ RelaunchRollback(o) \/ RelaunchTerminal(o) \/ RelaunchRestore(o)
            \/ RelaunchFail(o) \/ RelaunchFinish(o)
  BY <1>3, <1>4, <1>6, <1>8, <1>12
     DEF RelaunchStart, RelaunchBegin, RelaunchStop, RelaunchDrain, RelaunchLaunch,
         RelaunchRollback, RelaunchTerminal, RelaunchRestore, RelaunchFail, RelaunchFinish,
         InRelaunch, Holding
<1>13. CASE \/ RegisterPut(o) \/ RegisterRefused(o) \/ RegisterAdd(o) \/ RemoveDelete(o)
            \/ RemoveForget(o) \/ OwnerAdd(o)
  BY <1>3, <1>6, <1>8, <1>13
     DEF RegisterPut, RegisterRefused, RegisterAdd, RemoveDelete, RemoveForget, OwnerAdd
<1>14. Idle \in OpRecord /\ \A r \in OpRecord : r.pc \in Safe => r \in Good
  BY Resting DEF Good, Safe
<1>15. \A r \in OpRecord : r.pc \in Safe /\ op' = [op EXCEPT ![o] = r] => op' \in [Ops -> Good]
  BY <1>2, <1>14
<1>16. OwnerOf(reg) \in Owners \cup {NoOwner} /\ Active \in Ops \cup {None}
  BY <1>7 DEF OwnerOf, Nodes, Active
<1>17. CASE SetupRequest(o)
  <2>1. PICK k \in Offered \ {"self"}, w \in Owners \cup {"inherit"} :
           op' = [op EXCEPT ![o] = [Idle EXCEPT !.what = "setup", !.pc = "validating",
                                        !.kind = k, !.named = (w # "inherit"),
                          !.owner = IF w # "inherit" THEN w ELSE OwnerOf(reg)]]
    BY <1>17 DEF SetupRequest
  <2>2. k \in Kinds /\ (IF w # "inherit" THEN w ELSE OwnerOf(reg)) \in Owners \cup {NoOwner}
    BY <1>16, LifecycleAssumption
  <2>3. PICK b \in BOOLEAN : b = (w # "inherit")
    OBVIOUS
  <2>4. PICK x \in Owners \cup {NoOwner} : x = IF w # "inherit" THEN w ELSE OwnerOf(reg)
    BY <2>2
  <2> DEFINE r == [Idle EXCEPT !.what = "setup", !.pc = "validating", !.kind = k, !.named = b,
                               !.owner = x]
  <2>5. r \in OpRecord /\ r.pc = "validating"
    BY ZenonT(60), <1>8, <1>14, <2>2 DEF OpRecord
  <2>6. op' = [op EXCEPT ![o] = r]
    BY <2>1, <2>3, <2>4
  <2>7. QED
    BY <1>8, <1>15, <2>5, <2>6
<1>18. CASE SetupReserve(o)
  <2>1. CASE op' = [op EXCEPT ![o].pc = "reserved", ![o].known = (reg # None),
                              ![o].owner = IF reg = None \/ op[o].named THEN @ ELSE reg.owner]
    <3>1. (IF reg = None \/ op[o].named THEN op[o].owner ELSE reg.owner) \in Owners \cup {NoOwner}
      BY <1>1, <1>7 DEF OpRecord, Nodes
    <3>2. op' = [op EXCEPT ![o] = [op[o] EXCEPT !.pc = "reserved", !.known = (reg # None),
                    !.owner = IF reg = None \/ op[o].named THEN op[o].owner ELSE reg.owner]]
      BY <1>1, <2>1
    <3>3. PICK b \in BOOLEAN : b = (reg # None)
      OBVIOUS
    <3>4. PICK x \in Owners \cup {NoOwner} :
            x = IF reg = None \/ op[o].named THEN op[o].owner ELSE reg.owner
      BY <3>1
    <3> DEFINE r == [op[o] EXCEPT !.pc = "reserved", !.known = b, !.owner = x]
    <3>5. r \in OpRecord /\ r.pc = "reserved"
      BY <1>1, <1>8 DEF OpRecord
    <3>6. op' = [op EXCEPT ![o] = r]
      BY <3>2, <3>3, <3>4
    <3>7. QED
      BY <1>8, <1>15, <3>5, <3>6
  <2>2. QED
    BY <1>5, <1>18, <2>1 DEF SetupReserve
<1>19. CASE UploadScripts(o) \/ PlanLaunch(o)
  <2>1. ASSUME NEW pc \in {"setup", "starting"}, op' = [op EXCEPT ![o].pc = pc, ![o].tries = 1]
        PROVE  op' \in [Ops -> Good]
    <3>1. op' = [op EXCEPT ![o] = [op[o] EXCEPT !.pc = pc, !.tries = 1]]
      BY <1>1, <2>1
    <3>2. 1 \in 0..MaxAttempts
      BY LifecycleAssumption
    <3>3. QED
      BY ZenonT(60), <1>1, <1>8, <1>15, <3>1, <3>2 DEF OpRecord, Safe
  <2>2. QED
    BY <1>3, <1>8, <1>19, <2>1 DEF UploadScripts, PlanLaunch
<1>20. CASE SetupResult(o)
  <2>1. CASE Left(o) /\ Goto(o, "retrying")
    <3>1. [op[o] EXCEPT !.pc = "retrying"] \in Good
      BY <1>1, <2>1 DEF Left, Good, OpRecord, Holding, PCs, Background, Provisioning
    <3>2. QED
      BY <1>2, <2>1, <3>1 DEF Goto
  <2>2. QED
    BY <1>3, <1>8, <1>20, <2>1 DEF SetupResult
<1>21. CASE SetupRetry(o) \/ EngineRetry(o)
  <2>1. ASSUME NEW pc \in {"setup", "starting"}, op[o].tries < MaxAttempts,
               op' = [op EXCEPT ![o].pc = pc, ![o].tries = @ + 1]
        PROVE  op' \in [Ops -> Good]
    <3>1. op' = [op EXCEPT ![o] = [op[o] EXCEPT !.pc = pc, !.tries = op[o].tries + 1]]
      BY <1>1, <2>1
    <3>2. op[o].tries + 1 \in 0..MaxAttempts
      BY <1>1, <2>1, LifecycleAssumption DEF OpRecord
    <3>3. QED
      BY ZenonT(60), <1>1, <1>8, <1>15, <3>1, <3>2 DEF OpRecord, Safe
  <2>2. SetupRetry(o) => op[o].tries < MaxAttempts
    BY <1>1 DEF SetupRetry, InProvision, Good
  <2>3. QED
    BY <1>3, <1>8, <1>21, <2>1, <2>2 DEF SetupRetry, EngineRetry, Left
<1>22. CASE UnstartedCancelled(o)
  <2>1. [Ended(o) EXCEPT !.cancel = "unstarted"]
          = [Idle EXCEPT !.what = op[o].what, !.pc = "ended", !.cancel = "unstarted"]
    BY DEF Ended, Idle
  <2>2. QED
    BY <1>1, <1>2, <1>22, <2>1, Resting DEF UnstartedCancelled
<1>23. CASE CancelSwallowed(o)
  <2>1. op' = [op EXCEPT ![o] = [op[o] EXCEPT !.cancel = "swallowed"]] /\ op[o].pc = "launching"
    BY <1>1, <1>23 DEF CancelSwallowed
  <2>2. \A r \in Good : [r EXCEPT !.cancel = "swallowed"] \in Good
    BY DEF Good, OpRecord
  <2>3. QED
    BY <1>1, <1>2, <2>1, <2>2
<1>24. CASE Done(o)
  <2>1. ASSUME NEW p \in Ops
        PROVE  op'[p] \in Good
    <3>1. op[p] \in Good /\ op[p] \in OpRecord
      BY <1>1 DEF Good
    <3>2. Woken(o) \in {"t_report", "t_reserve", "t_refused"}
      BY DEF Woken
    <3>3. [op[p] EXCEPT !.pc = Woken(o), !.target = None] \in Good
      <4>1. \A pc \in Safe : [op[p] EXCEPT !.pc = pc, !.target = None] \in OpRecord
        BY <1>8, <3>1 DEF OpRecord
      <4>2. \A pc : [op[p] EXCEPT !.pc = pc, !.target = None].pc = pc
        BY <3>1 DEF OpRecord
      <4>3. QED
        BY ZenonT(60), <1>8, <1>14, <3>2, <4>1, <4>2
    <3>4. QED
      BY <1>24, <3>1, <3>3, Resting DEF Done
  <2>2. QED
    BY <1>24, <2>1 DEF Done
<1>25. CASE TeardownRequest(o)
  <2>1. PICK force \in BOOLEAN :
         \/ op' = [op EXCEPT ![o] = [Idle EXCEPT !.what = "teardown", !.force = force,
                       !.pc = IF Active # None THEN "t_suspend" ELSE "t_reserve",
                       !.target = Active,
                       !.known = (reg = None \/ Active # None)]]
         \/ op' = [op EXCEPT ![o] = [Idle EXCEPT !.what = "teardown", !.force = TRUE,
                       !.pc = "t_reserve", !.known = TRUE, !.named = TRUE]]
    BY <1>25 DEF TeardownRequest
  <2>2. PICK b \in BOOLEAN : b = (reg = None \/ Active # None)
    OBVIOUS
  <2>3. PICK pc \in {"t_suspend", "t_reserve"} :
          pc = IF Active # None THEN "t_suspend" ELSE "t_reserve"
    OBVIOUS
  <2>4. pc \in Safe /\ "t_reserve" \in Safe
    BY <1>8
  <2> DEFINE r == [Idle EXCEPT !.what = "teardown", !.force = force, !.pc = pc, !.target = Active,
                               !.known = b]
             s == [Idle EXCEPT !.what = "teardown", !.force = TRUE,
                       !.pc = "t_reserve", !.known = TRUE, !.named = TRUE]
  <2>5. r \in OpRecord /\ r.pc = pc
    BY ZenonT(60), <1>8, <1>14, <1>16, <2>4 DEF OpRecord
  <2>6. s \in OpRecord /\ s.pc = "t_reserve"
    BY <1>8, <1>14, <2>4 DEF OpRecord
  <2>7. op' = [op EXCEPT ![o] = r] \/ op' = [op EXCEPT ![o] = s]
    BY <2>1, <2>2, <2>3
  <2> HIDE DEF r, s
  <2>8. QED
    BY <1>15, <2>4, <2>5, <2>6, <2>7
<1>26. CASE TeardownCancel(o)
  <2>1. CASE op' = [op EXCEPT ![o].pc = "t_wait", ![op[o].target].cancel = "explicit"]
    <3>1. ASSUME NEW p \in Ops
          PROVE  op'[p] \in Good
      <4>1. op[p] \in Good
        BY <1>1
      <4>2. \A r \in Good : [r EXCEPT !.pc = "t_wait"] \in Good
        BY <1>8, PcChanges
      <4>3. \A r \in Good : [r EXCEPT !.cancel = "explicit"] \in Good
        BY DEF Good, OpRecord
      <4>4. \/ op'[p] = op[p] \/ op'[p] = [op[p] EXCEPT !.pc = "t_wait"]
            \/ op'[p] = [op[p] EXCEPT !.cancel = "explicit"]
            \/ op'[p] = [[op[p] EXCEPT !.pc = "t_wait"] EXCEPT !.cancel = "explicit"]
        BY <1>1, <2>1
      <4>5. QED
        BY <4>1, <4>2, <4>3, <4>4
    <3>2. QED
      BY <1>1, <2>1, <3>1
  <2>2. QED
    BY <1>5, <1>26, <2>1 DEF TeardownCancel
<1>27. CASE TeardownStart(o)
  <2>1. CASE op' = [op EXCEPT ![o].pc = "t_stop", ![o].force = FALSE,
                              ![o].known = FALSE, ![o].named = FALSE]
    <3>1. op' = [op EXCEPT ![o] = [op[o] EXCEPT !.pc = "t_stop", !.force = FALSE,
                                                !.known = FALSE, !.named = FALSE]]
      BY <1>1, <2>1
    <3> DEFINE r == [op[o] EXCEPT !.pc = "t_stop", !.force = FALSE, !.known = FALSE, !.named = FALSE]
    <3>2. r \in OpRecord /\ r.pc = "t_stop"
      BY <1>1, <1>8 DEF OpRecord
    <3>3. QED
      BY <1>8, <1>15, <3>1, <3>2
  <2>2. QED
    BY <1>6, <1>27, <2>1 DEF TeardownStart
<1>28. CASE TeardownDelete(o)
  <2>1. CASE op' = [op EXCEPT ![o].pc = "t_remove", ![o].kind = KindOf(reg)]
    <3>1. op' = [op EXCEPT ![o] = [op[o] EXCEPT !.pc = "t_remove", !.kind = KindOf(reg)]]
      BY <1>1, <2>1
    <3>2. KindOf(reg) \in Kinds
      BY <1>7 DEF KindOf, Nodes, Kinds
    <3>3. QED
      BY ZenonT(60), <1>1, <1>8, <1>15, <3>1, <3>2 DEF OpRecord, Safe
  <2>2. QED
    BY <1>3, <1>8, <1>28, <2>1 DEF TeardownDelete
<1>29. CASE RelaunchRequest(o) \/ RemoveRequest(o) \/ Enforce(o)
  <2>1. \/ op' = [op EXCEPT ![o] = [Idle EXCEPT !.what = "relaunch", !.pc = "r_queued"]]
        \/ op' = [op EXCEPT ![o] = [Idle EXCEPT !.what = "remove", !.pc = "p_delete"]]
        \/ op' = [op EXCEPT ![o] = [Idle EXCEPT !.what = "enforced", !.pc = "t_queued"]]
    BY <1>29 DEF RelaunchRequest, RemoveRequest, Enforce
  <2>2. ASSUME NEW what \in {"relaunch", "remove", "enforced"}, NEW pc \in Safe,
               op' = [op EXCEPT ![o] = [Idle EXCEPT !.what = what, !.pc = pc]]
        PROVE  op' \in [Ops -> Good]
    <3> DEFINE r == [Idle EXCEPT !.what = what, !.pc = pc]
    <3>1. r \in OpRecord /\ r.pc = pc
      BY ZenonT(60), <1>8, <1>14 DEF OpRecord
    <3>2. QED
      BY <1>15, <2>2, <3>1
  <2>3. {"r_queued", "p_delete", "t_queued"} \subseteq Safe
    BY <1>8
  <2>4. QED
    BY <2>1, <2>2, <2>3
<1>30. CASE RelaunchValidate(o)
  <2>1. CASE Relaunchable(store) /\ op' = [op EXCEPT ![o].pc = "r_begin", ![o].node = store, ![o].local = reg]
    <3>1. op' = [op EXCEPT ![o] = [op[o] EXCEPT !.pc = "r_begin", !.node = store, !.local = reg]]
      BY <1>1, <2>1
    <3>2. store \in Nodes
      BY <1>7, <2>1 DEF Relaunchable
    <3> DEFINE r == [op[o] EXCEPT !.pc = "r_begin", !.node = store, !.local = reg]
    <3>3. r \in Good
      <4>1. "r_begin" \in PCs /\ "r_begin" \notin {"retrying", "p_put"}
        BY DEF PCs, Background
      <4>2. r \in OpRecord /\ r.pc = "r_begin" /\ r.node = store
        BY <1>1, <1>7, <4>1 DEF OpRecord
      <4>3. QED
        BY <3>2, <4>1, <4>2 DEF Good
    <3>4. QED
      BY <1>2, <3>1, <3>3
  <2>2. QED
    BY <1>3, <1>8, <1>30, <2>1 DEF RelaunchValidate
<1>31. CASE RelaunchCommit(o) \/ RelaunchRegister(o)
  <2>1. op[o].pc \in Holding /\ {"r_drain", "r_finish", "r_rollback"} \subseteq Holding
    BY <1>31 DEF RelaunchCommit, RelaunchRegister, InRelaunch, Holding
  <2>2. ASSUME NEW pc \in Holding, NEW s \in {"relaunching", "healthy"},
               op' = [op EXCEPT ![o].pc = pc, ![o].written = s]
        PROVE  op' \in [Ops -> Good]
    <3>1. op' = [op EXCEPT ![o] = [[op[o] EXCEPT !.pc = pc] EXCEPT !.written = s]]
      BY <1>1, <2>2
    <3>2. [op[o] EXCEPT !.pc = pc] \in Good
      BY <1>1, <2>1, PcChanges
    <3>3. \A r \in Good : [r EXCEPT !.written = s] \in Good
      BY DEF Good, OpRecord
    <3>4. QED
      BY <1>2, <3>1, <3>2, <3>3
  <2>3. QED
    BY <1>3, <1>4, <1>8, <1>31, <2>1, <2>2 DEF RelaunchCommit, RelaunchRegister
<1>32. CASE RelaunchCancelled(o)
  <2>1. ASSUME NEW pc \in OnCancel(op[o].pc),
               op' = [op EXCEPT ![o].pc = pc, ![o].cancel = "swallowed"]
        PROVE  op' \in [Ops -> Good]
    <3>1. op' = [op EXCEPT ![o] = [[op[o] EXCEPT !.pc = pc] EXCEPT !.cancel = "swallowed"]]
      BY <1>1, <2>1
    <3>2. pc = "r_fail" \/ (pc \in Holding /\ op[o].pc \in Holding)
      BY <2>1 DEF OnCancel, Holding
    <3>3. [op[o] EXCEPT !.pc = pc] \in Good
      BY <1>1, <1>8, <3>2, PcChanges
    <3>4. \A r \in Good : [r EXCEPT !.cancel = "swallowed"] \in Good
      BY DEF Good, OpRecord
    <3>5. QED
      BY <1>2, <3>1, <3>3, <3>4
  <2>2. QED
    BY <1>6, <1>32, <2>1 DEF RelaunchCancelled
<1>33. CASE RegisterRequest(o)
  <2>1. PICK k \in Offered \ {"managed"}, w \in Owners \cup {"inherit"} :
          op' = [op EXCEPT ![o] =
               [Idle EXCEPT !.what = "register", !.pc = "p_put", !.kind = k,
                   !.named = (w # "inherit"),
                   !.node = Node(IF k = "self" THEN "healthy" ELSE "available", k,
                                 IF w # "inherit" THEN w ELSE OwnerOf(reg), FALSE)]]
    BY <1>33 DEF RegisterRequest
  <2> DEFINE n == Node(IF k = "self" THEN "healthy" ELSE "available", k,
                       IF w # "inherit" THEN w ELSE OwnerOf(reg), FALSE)
  <2>2. n \in Nodes /\ k \in Kinds
    BY <1>16, LifecycleAssumption DEF Node, Nodes, Statuses
  <2>3. Fits(n)
    BY DEF Fits, Node
  <2> HIDE DEF n
  <2> DEFINE r == [Idle EXCEPT !.what = "register", !.pc = "p_put", !.kind = k,
                               !.named = (w # "inherit"), !.node = n]
  <2>4. r \in Good
    <3>1. "p_put" \in PCs /\ "p_put" \notin Holding
      BY DEF PCs, Handlers, Holding
    <3>2. r \in OpRecord /\ r.pc = "p_put" /\ r.node = n
      BY ZenonT(60), <1>14, <2>2, <3>1 DEF OpRecord
    <3>3. QED
      BY <2>3, <3>1, <3>2 DEF Good
  <2>5. QED
    BY <1>2, <2>1, <2>4 DEF n
<1>34. CASE OwnerRequest(o)
  <2>1. PICK w \in Owners \cup {NoOwner} :
           op' = [op EXCEPT ![o] = [Idle EXCEPT !.what = "owner", !.pc = "o_write", !.owner = w]]
    BY <1>34 DEF OwnerRequest
  <2> DEFINE r == [Idle EXCEPT !.what = "owner", !.pc = "o_write", !.owner = w]
  <2>2. r \in OpRecord /\ r.pc = "o_write"
    BY ZenonT(60), <1>8, <1>14 DEF OpRecord
  <2>3. QED
    BY <1>8, <1>15, <2>1, <2>2
<1>35. CASE OwnerWrite(o)
  <2>1. CASE /\ store # None /\ store' = [store EXCEPT !.owner = op[o].owner]
             /\ op' = [op EXCEPT ![o].pc = "o_add", ![o].node = Known(store')]
    <3>1. op' = [op EXCEPT ![o] = [op[o] EXCEPT !.pc = "o_add", !.node = Known(store')]]
      BY <1>1, <2>1
    <3>2. op[o].owner \in Owners \cup {NoOwner}
      BY <1>1 DEF OpRecord
    <3>3. Known(store') \in Nodes
      BY <1>7, <2>1, <3>2, NodesMade
    <3>4. QED
      BY ZenonT(60), <1>1, <1>8, <1>15, <3>1, <3>3 DEF OpRecord, Safe
  <2>2. QED
    BY <1>6, <1>35, <2>1 DEF OwnerWrite
<1>36. QED
  BY <1>9, <1>10, <1>11, <1>12, <1>13, <1>17, <1>18, <1>19, <1>20, <1>21, <1>22, <1>23, <1>24,
     <1>25, <1>26, <1>27, <1>28, <1>29, <1>30, <1>31, <1>32, <1>33, <1>34, <1>35
     DEF Requests, Step

-----------------------------------------------------------------------------
(* The steps by what they are about.                                       *)

Admitting(o) == SetupReserve(o) \/ SetupInspect(o) \/ SetupCleanup(o) \/ SetupLaunch(o)

Installing(o) ==
    \/ ProvisionStart(o) \/ PowerOn(o) \/ Reconcile(o) \/ Preflight(o) \/ ProvisionRecord(o)
    \/ UploadScripts(o) \/ SetupRun(o) \/ SetupResult(o) \/ SetupRetry(o)

Launching(o) ==
    \/ PlanLaunch(o) \/ EngineStart(o) \/ EngineAnswer(o) \/ EngineRetry(o) \/ ServingVerify(o)
    \/ RuntimeVerify(o) \/ FitVerify(o) \/ ProvisionRegister(o)

Closing(o) ==
    \/ ProvisionFail(o) \/ ProvisionFailed(o) \/ ProvisionEnd(o) \/ ProvisionCancelled(o)
    \/ UnstartedCancelled(o) \/ CancelSwallowed(o)

Asking(o) ==
    \/ TeardownSuspend(o) \/ TeardownCancel(o) \/ TeardownWoken(o) \/ TeardownReserve(o)
    \/ TeardownCheck(o)

Dismantling(o) ==
    \/ TeardownStart(o) \/ TeardownStop(o) \/ TeardownDelete(o) \/ TeardownRemove(o)
    \/ TeardownRepool(o) \/ TeardownEnd(o) \/ TeardownFail(o) \/ TeardownCancelled(o)

Replacing(o) ==
    \/ RelaunchStart(o) \/ RelaunchValidate(o) \/ RelaunchBegin(o) \/ RelaunchCommit(o)
    \/ RelaunchDrain(o) \/ RelaunchStop(o) \/ RelaunchLaunch(o) \/ RelaunchRegister(o)
    \/ RelaunchFinish(o)

Restoring(o) ==
    \/ RelaunchRollback(o) \/ RelaunchTerminal(o) \/ RelaunchRestore(o) \/ RelaunchFail(o)
    \/ RelaunchCancelled(o)

Pooling(o) ==
    \/ RegisterPut(o) \/ RegisterRefused(o) \/ RegisterAdd(o) \/ RemoveDelete(o) \/ RemoveForget(o)
    \/ OwnerWrite(o) \/ OwnerAdd(o)

\* Every step of an operation is one of these, or the callbacks of a finished task.
LEMMA Families ==
    ASSUME NEW o, Step(o)
    PROVE  \/ Admitting(o) \/ Installing(o) \/ Launching(o) \/ Closing(o) \/ Asking(o)
           \/ Dismantling(o) \/ Replacing(o) \/ Restoring(o) \/ Pooling(o) \/ Done(o)
BY DEF Step, Admitting, Installing, Launching, Closing, Asking, Dismantling, Replacing, Restoring,
       Pooling

-----------------------------------------------------------------------------
(* Types and leases of the records.                                        *)

Flags ==
    /\ task \in Tasks /\ holder \in Ops \cup {None} /\ record \in Ops \cup {None}
    /\ pending \in BOOLEAN /\ remote \in BOOLEAN /\ initiated \in BOOLEAN
    /\ gateway \in {"up", "stopping", "down"}

\* The records that may be in etcd, and in the registry.
Keepable == {n \in Nodes \cup {None} : Fits(n)}

Recorded == store \in Keepable /\ reg \in Nodes \cup {None}

\* The flags after a step of an operation.
LEMMA FlagsStep ==
    ASSUME Inv, NEW o \in Ops, Requests(o) \/ Step(o)
    PROVE  Flags'
<1>1. Flags
  BY DEF Inv, Typed, Flags
<1>2. \A t \in {"open", "settled", "teardown"} : Reported(t) => task' \in Tasks
  BY <1>1 DEF Reported, Flags, Tasks
<1>3. Unheld(o) \in Ops \cup {None}
  BY <1>1 DEF Unheld, Flags
<1>4. Refuse(o) => holder' \in Ops \cup {None}
  BY <1>3 DEF Refuse, Release
<1>5. End(o) => holder' \in Ops \cup {None} /\ pending' \in BOOLEAN
  BY <1>1, <1>3 DEF End, Release, Flags
<1> USE DEF durable, others
<1>6. CASE Requests(o)
  BY <1>1, <1>6
     DEF Flags, Requests, SetupRequest, TeardownRequest, RelaunchRequest, RegisterRequest,
         RemoveRequest, OwnerRequest, Enforce
<1>7. CASE Admitting(o)
  BY <1>1, <1>4, <1>7 DEF Flags, Admitting, SetupReserve, SetupInspect, SetupCleanup, SetupLaunch
<1>8. CASE Installing(o)
  BY <1>1, <1>2, <1>5, <1>8
     DEF Flags, Installing, ProvisionStart, PowerOn, Reconcile, Preflight, ProvisionRecord,
         UploadScripts, SetupRun, SetupResult, SetupRetry
<1>9. CASE Launching(o)
  BY <1>1, <1>2, <1>9
     DEF Flags, Launching, PlanLaunch, EngineStart, EngineAnswer, EngineRetry, ServingVerify,
         RuntimeVerify, FitVerify, ProvisionRegister
<1>10. CASE Closing(o)
  BY <1>1, <1>2, <1>5, <1>10
     DEF Flags, Closing, ProvisionFail, ProvisionFailed, ProvisionEnd, ProvisionCancelled,
         UnstartedCancelled, CancelSwallowed
<1>11. CASE Asking(o)
  BY <1>1, <1>2, <1>4, <1>11
     DEF Flags, Asking, TeardownSuspend, TeardownCancel, TeardownWoken, TeardownReserve,
         TeardownCheck
<1>12. CASE Dismantling(o)
  BY <1>1, <1>2, <1>5, <1>12
     DEF Flags, Dismantling, TeardownStart, TeardownStop, TeardownDelete, TeardownRemove,
         TeardownRepool, TeardownEnd, TeardownFail, TeardownCancelled, Retried
<1>13. CASE Replacing(o)
  BY <1>1, <1>2, <1>5, <1>13
     DEF Flags, Replacing, RelaunchStart, RelaunchValidate, RelaunchBegin, RelaunchCommit,
         RelaunchDrain, RelaunchStop, RelaunchLaunch, RelaunchRegister, RelaunchFinish, Launched,
         NotLaunched
<1>14. CASE Restoring(o)
  BY <1>1, <1>2, <1>5, <1>14
     DEF Flags, Restoring, RelaunchRollback, RelaunchTerminal, RelaunchRestore, RelaunchFail,
         RelaunchCancelled, Launched, NotLaunched
<1>15. CASE Pooling(o)
  BY <1>1, <1>4, <1>15
     DEF Flags, Pooling, RegisterPut, RegisterRefused, RegisterAdd, RemoveDelete, RemoveForget,
         OwnerWrite, OwnerAdd
<1>16. CASE Done(o)
  BY <1>1, <1>3, <1>16 DEF Flags, Done, Release
<1>17. QED
  BY <1>6, <1>7, <1>8, <1>9, <1>10, <1>11, <1>12, <1>13, <1>14, <1>15, <1>16, Families

\* The records after a step of an operation.
LEMMA RecordedStep ==
    ASSUME Inv, NEW o \in Ops, Requests(o) \/ Step(o)
    PROVE  Recorded'
<1>1. Recorded /\ op[o] \in OpRecord
  BY DEF Inv, Typed, Recorded, Keepable, Good
<1>2. store \in Keepable /\ None \in Keepable /\ Keepable \subseteq Nodes \cup {None}
  BY <1>1 DEF Recorded, Keepable, Fits
<1>3. /\ op[o].kind \in Kinds /\ op[o].owner \in Owners \cup {NoOwner}
      /\ op[o].node \in Nodes \cup {None} /\ op[o].local \in Nodes \cup {None}
  BY <1>1 DEF OpRecord
<1>4. {"available", "provisioning", "healthy", "failed", "draining", "relaunching", "relaunch_failed"}
        \subseteq Statuses /\ "pool" \in Kinds
  BY DEF Statuses, Kinds
<1>5. \A n \in Nodes : Fits(n) => n \in Keepable
  BY DEF Keepable
<1>6. Ownership(o) \in Keepable
  <2>1. Ownership(o) \in Nodes
    BY <1>3, <1>4, NodesMade DEF Ownership
  <2>2. Fits(Ownership(o))
    BY DEF Ownership, Node, Fits
  <2>3. QED
    BY <1>5, <2>1, <2>2
<1>7. \A l \in BOOLEAN : Healthy(o, l) \in Keepable
  <2>1. TAKE l \in BOOLEAN
  <2>2. Healthy(o, l) \in Nodes
    BY <1>3, <1>4, NodesMade DEF Healthy
  <2>3. Fits(Healthy(o, l))
    BY DEF Healthy, Node, Fits
  <2>4. QED
    BY <1>5, <2>2, <2>3
<1>8. FailedRecord(o) \in Keepable
  <2>1. CASE store = Ownership(o)
    <3>1. FailedRecord(o) = WithStatus(Ownership(o), "failed") /\ Ownership(o) \in Nodes
      BY <1>3, <1>4, <2>1, NodesMade DEF FailedRecord, Ownership
    <3>2. WithStatus(Ownership(o), "failed") \in Nodes
      BY <1>4, <3>1, NodesMade
    <3>3. Fits(WithStatus(Ownership(o), "failed"))
      BY DEF WithStatus, Ownership, Node, Fits
    <3>4. QED
      BY <1>5, <3>1, <3>2, <3>3
  <2>2. QED
    BY <1>2, <2>1 DEF FailedRecord
<1>9. op[o].pc \in Holding =>
        /\ Written(o, "relaunching") \in Keepable /\ Written(o, "healthy") \in Keepable
        /\ Terminal(o) \in Keepable /\ Known(op[o].node) \in Nodes
        /\ Known(WithStatus(op[o].node, "relaunching")) \in Nodes
        /\ Known(Written(o, "healthy")) \in Nodes
  <2>1. SUFFICES ASSUME op[o].pc \in Holding
                 PROVE  /\ Written(o, "relaunching") \in Keepable /\ Written(o, "healthy") \in Keepable
                        /\ Terminal(o) \in Keepable /\ Known(op[o].node) \in Nodes
                        /\ Known(WithStatus(op[o].node, "relaunching")) \in Nodes
                        /\ Known(Written(o, "healthy")) \in Nodes
    OBVIOUS
  <2>2. op[o].node \in Nodes
    BY <2>1 DEF Inv, Typed, Good
  <2>3. \A s \in {"relaunching", "healthy"} : Written(o, s) \in Nodes
    BY <1>4, <2>2, NodesMade DEF Written
  <2>4. \A s \in {"relaunching", "healthy"} : Fits(Written(o, s))
    BY <2>2 DEF Written, WithStatus, Fits, Nodes
  <2>5. Terminal(o) \in Nodes
    BY <1>4, <2>2, NodesMade DEF Terminal
  <2>6. Fits(Terminal(o))
    BY <2>2 DEF Terminal, Known, WithStatus, Fits, Nodes
  <2>7. QED
    BY <1>4, <1>5, <2>2, <2>3, <2>4, <2>5, <2>6, NodesMade
<1>10. Node("available", "pool", NoOwner, FALSE) \in Keepable /\ Node("available", "pool", NoOwner, FALSE) \in Nodes
  <2>1. Node("available", "pool", NoOwner, FALSE) \in Nodes
    BY <1>4, NodesMade
  <2>2. Fits(Node("available", "pool", NoOwner, FALSE))
    BY DEF Node, Fits
  <2>3. QED
    BY <1>5, <2>1, <2>2
<1>11. store # None => [store EXCEPT !.owner = op[o].owner] \in Keepable
  <2>1. SUFFICES ASSUME store # None PROVE [store EXCEPT !.owner = op[o].owner] \in Keepable
    OBVIOUS
  <2>2. store \in Nodes /\ Fits(store)
    BY <1>2, <2>1 DEF Keepable
  <2>3. Fits([store EXCEPT !.owner = op[o].owner])
    BY <2>1, <2>2 DEF Fits, Nodes
  <2>4. QED
    BY <1>3, <1>5, <2>2, <2>3, NodesMade
<1>12. op[o].pc = "p_put" => op[o].node \in Keepable
  BY <1>3 DEF Inv, Typed, Good, Keepable
<1>13. reg # None => /\ WithStatus(reg, "draining") \in Nodes
                     /\ WithStatus(reg, "failed") \in Nodes
  BY <1>1, <1>4, NodesMade DEF Recorded
<1>14. reg \in Nodes \cup {None}
  BY <1>1 DEF Recorded
<1> USE DEF durable, others
<1>15. CASE Requests(o) \/ Done(o)
  BY <1>1, <1>15
     DEF Recorded, Requests, SetupRequest, TeardownRequest, RelaunchRequest, RegisterRequest,
         RemoveRequest, OwnerRequest, Enforce, Done
<1>16. CASE Admitting(o) \/ Asking(o)
  BY <1>1, <1>2, <1>16
     DEF Recorded, Admitting, SetupReserve, SetupInspect, SetupCleanup, SetupLaunch, Asking,
         TeardownSuspend, TeardownCancel, TeardownWoken, TeardownReserve, TeardownCheck
<1>17. CASE Installing(o)
  BY <1>2, <1>6, <1>14, <1>17
     DEF Recorded, Installing, ProvisionStart, PowerOn, Reconcile, Preflight, ProvisionRecord,
         UploadScripts, SetupRun, SetupResult, SetupRetry
<1>18. CASE Launching(o)
  BY <1>2, <1>7, <1>14, <1>18
     DEF Recorded, Launching, PlanLaunch, EngineStart, EngineAnswer, EngineRetry, ServingVerify,
         RuntimeVerify, FitVerify, ProvisionRegister
<1>19. CASE Closing(o)
  BY <1>2, <1>6, <1>7, <1>8, <1>14, <1>19
     DEF Recorded, Closing, ProvisionFail, ProvisionFailed, ProvisionEnd, ProvisionCancelled,
         UnstartedCancelled, CancelSwallowed
<1>20. CASE Dismantling(o)
  BY <1>2, <1>10, <1>13, <1>14, <1>20
     DEF Recorded, Dismantling, TeardownStart, TeardownStop, TeardownDelete, TeardownRemove,
         TeardownRepool, TeardownEnd, TeardownFail, TeardownCancelled
<1>21. CASE Replacing(o)
  <2>1. CASE RelaunchStart(o) \/ RelaunchValidate(o) \/ RelaunchStop(o) \/ RelaunchLaunch(o) \/ RelaunchFinish(o)
    BY <1>2, <1>14, <2>1
       DEF Recorded, RelaunchStart, RelaunchValidate, RelaunchStop, RelaunchLaunch, RelaunchFinish
  <2>2. CASE RelaunchBegin(o) \/ RelaunchCommit(o) \/ RelaunchDrain(o) \/ RelaunchRegister(o)
    <3>1. op[o].pc \in Holding
      BY <2>2 DEF RelaunchBegin, RelaunchCommit, RelaunchDrain, RelaunchRegister, InRelaunch,
         Holding
    <3>2. QED
      BY <1>2, <1>3, <1>9, <1>14, <2>2, <3>1
         DEF Recorded, RelaunchBegin, RelaunchCommit, RelaunchDrain, RelaunchRegister
  <2>3. QED
    BY <1>21, <2>1, <2>2 DEF Replacing
<1>22. CASE Restoring(o)
  <2>1. CASE RelaunchFail(o)
    BY <1>2, <1>14, <2>1 DEF Recorded, RelaunchFail
  <2>2. CASE RelaunchRollback(o) \/ RelaunchTerminal(o) \/ RelaunchRestore(o)
    <3>1. op[o].pc \in Holding
      BY <2>2 DEF RelaunchRollback, RelaunchTerminal, RelaunchRestore, InRelaunch, Holding
    <3>2. QED
      BY <1>2, <1>3, <1>9, <1>14, <2>2, <3>1
         DEF Recorded, RelaunchRollback, RelaunchTerminal, RelaunchRestore
  <2>3. CASE RelaunchCancelled(o)
    <3>1. store' \in Unanswered(o) /\ reg' = reg
      BY <2>3 DEF RelaunchCancelled
    <3>2. Unanswered(o) \subseteq Keepable
      BY <1>2, <1>9 DEF Unanswered, Holding
    <3>3. QED
      BY <1>14, <3>1, <3>2 DEF Recorded
  <2>4. QED
    BY <1>22, <2>1, <2>2, <2>3 DEF Restoring
<1>23. CASE Pooling(o)
  BY <1>2, <1>3, <1>11, <1>12, <1>14, <1>23
     DEF Recorded, Pooling, RegisterPut, RegisterRefused, RegisterAdd, RemoveDelete, RemoveForget,
         OwnerWrite, OwnerAdd
<1>24. QED
  BY <1>15, <1>16, <1>17, <1>18, <1>19, <1>20, <1>21, <1>22, <1>23, Families

-----------------------------------------------------------------------------
(* The lease.                                                              *)

\* A step of an operation changes no other operation, or only one that does not have
\* the host.
Alone(o) ==
    \A p \in Ops \ {o} :
        \/ op'[p].pc = op[p].pc
        \/ op[p].pc \notin Owning \cup {"ended"} /\ op'[p].pc \notin Owning \cup {"ended"}

\* It goes on with the host, takes it, gives it back, or has nothing to do with it.
Keeps(o) == holder' = holder /\ op[o].pc \in Owning /\ op'[o].pc \in Owning \cup {"ended"}
Takes(o) == holder = None /\ holder' = o /\ op'[o].pc \in Owning
Gives(o) == holder' = Unheld(o) /\ op'[o].pc \notin Owning
Apart(o) == /\ holder' = holder
            /\ op[o].pc \notin Owning \cup {"ended"} /\ op'[o].pc \notin Owning \cup {"ended"}

Holds(o) == Keeps(o) \/ Takes(o) \/ Gives(o) \/ Apart(o)

\* Which steps have the host.
LEMMA OwningSteps ==
    /\ {"queued", "powering", "reconciling", "preflight", "recording", "uploading", "setup",
        "running", "retrying", "inventory", "starting", "launching", "retry_start", "verifying",
        "verify_runtime", "registering", "failing", "failed", "finishing"} \subseteq Owning
    /\ {"t_queued", "t_stop", "t_delete", "t_remove", "t_repool", "t_end", "t_fail", "r_queued",
        "r_validate", "r_begin", "r_commit", "r_drain", "r_stop", "r_launch", "r_register",
        "r_finish", "r_rollback", "r_terminal", "r_restore", "r_fail"} \subseteq Owning
    /\ {"reserved", "stale", "launch", "t_check", "p_put", "p_add", "p_delete", "p_remove",
        "o_write", "o_add"} \subseteq Owning
    /\ \A pc \in {"idle", "validating", "t_suspend", "t_cancel", "t_wait", "t_report", "t_refused",
                  "t_reserve"} : pc \notin Owning \cup {"ended"}
    /\ "ended" \notin Owning
    /\ Disturbing \subseteq Owning
BY DEF Owning, Background, Provisioning, Disturbing

\* A request starts without the host, or takes it when it is free.
LEMMA RequestStep ==
    ASSUME Inv, NEW o \in Ops, Requests(o)
    PROVE  /\ Alone(o) /\ op[o].pc = "idle"
           /\ \/ op'[o].pc \in {"validating", "t_suspend", "t_reserve"} /\ holder' = holder
              \/ /\ op'[o].pc \in {"r_queued", "p_put", "p_delete", "o_write", "t_queued"}
                 /\ holder = None /\ holder' = o
<1>1. op[o].pc = "idle"
  BY DEF Requests, SetupRequest, TeardownRequest, RelaunchRequest, RegisterRequest,
         RemoveRequest, OwnerRequest, Enforce, Free, Busy
<1>2. \A r : op' = [op EXCEPT ![o] = r] => op'[o] = r /\ Alone(o)
  BY DEF Inv, Typed, Alone
<1>3. Idle \in OpRecord
  BY Resting DEF Good
<1>4. CASE SetupRequest(o)
  <2>1. PICK k, w :
         op' = [op EXCEPT ![o] = [Idle EXCEPT !.what = "setup", !.pc = "validating",
                                      !.kind = k, !.named = (w # "inherit"),
                        !.owner = IF w # "inherit" THEN w ELSE OwnerOf(reg)]]
    BY <1>4 DEF SetupRequest
  <2>2. PICK b \in BOOLEAN : b = (w # "inherit")
    OBVIOUS
  <2>3. PICK x : x = IF w # "inherit" THEN w ELSE OwnerOf(reg)
    OBVIOUS
  <2> DEFINE r == [Idle EXCEPT !.what = "setup", !.pc = "validating", !.kind = k, !.named = b,
                               !.owner = x]
  <2>4. r.pc = "validating"
    BY <1>3 DEF OpRecord
  <2>5. op' = [op EXCEPT ![o] = r]
    BY <2>1, <2>2, <2>3
  <2> HIDE DEF r
  <2>6. Alone(o) /\ op'[o].pc = "validating"
    BY <1>2, <2>4, <2>5
  <2>7. holder' = holder
    BY <1>4 DEF SetupRequest
  <2>8. QED
    BY <1>1, <2>6, <2>7
<1>5. CASE TeardownRequest(o)
  <2>1. PICK force \in BOOLEAN :
       \/ op' = [op EXCEPT ![o] = [Idle EXCEPT !.what = "teardown", !.force = force,
                     !.pc = IF Active # None THEN "t_suspend" ELSE "t_reserve",
                     !.target = Active,
                     !.known = (reg = None \/ Active # None)]]
       \/ op' = [op EXCEPT ![o] = [Idle EXCEPT !.what = "teardown", !.force = TRUE,
                     !.pc = "t_reserve", !.known = TRUE, !.named = TRUE]]
    BY <1>5 DEF TeardownRequest
  <2>2. PICK b \in BOOLEAN : b = (reg = None \/ Active # None)
    OBVIOUS
  <2>3. PICK pc \in {"t_suspend", "t_reserve"} :
          pc = IF Active # None THEN "t_suspend" ELSE "t_reserve"
    OBVIOUS
  <2> DEFINE r == [Idle EXCEPT !.what = "teardown", !.force = force, !.pc = pc, !.target = Active,
                               !.known = b]
             s == [Idle EXCEPT !.what = "teardown", !.force = TRUE, !.pc = "t_reserve",
                               !.known = TRUE, !.named = TRUE]
  <2>4. r.pc = pc /\ s.pc = "t_reserve"
    BY <1>3 DEF OpRecord
  <2>5. op' = [op EXCEPT ![o] = r] \/ op' = [op EXCEPT ![o] = s]
    BY <2>1, <2>2, <2>3
  <2> HIDE DEF r, s
  <2>6. Alone(o) /\ op'[o].pc \in {"t_suspend", "t_reserve"}
    BY <1>2, <2>4, <2>5
  <2>7. holder' = holder
    BY <1>5 DEF TeardownRequest
  <2>8. QED
    BY <1>1, <2>6, <2>7
<1>6. CASE RelaunchRequest(o) \/ RemoveRequest(o) \/ Enforce(o)
  <2>1. \/ op' = [op EXCEPT ![o] = [Idle EXCEPT !.what = "relaunch", !.pc = "r_queued"]]
        \/ op' = [op EXCEPT ![o] = [Idle EXCEPT !.what = "remove", !.pc = "p_delete"]]
        \/ op' = [op EXCEPT ![o] = [Idle EXCEPT !.what = "enforced", !.pc = "t_queued"]]
    BY <1>6 DEF RelaunchRequest, RemoveRequest, Enforce
  <2> DEFINE r(what, pc) == [Idle EXCEPT !.what = what, !.pc = pc]
  <2>2. \A what, pc : r(what, pc).pc = pc
    BY <1>3 DEF OpRecord
  <2>3. \/ op' = [op EXCEPT ![o] = r("relaunch", "r_queued")]
        \/ op' = [op EXCEPT ![o] = r("remove", "p_delete")]
        \/ op' = [op EXCEPT ![o] = r("enforced", "t_queued")]
    BY <2>1
  <2> HIDE DEF r
  <2>4. Alone(o) /\ op'[o].pc \in {"r_queued", "p_delete", "t_queued"}
    BY <1>2, <2>2, <2>3
  <2>5. holder = None /\ holder' = o
    BY <1>6 DEF RelaunchRequest, RemoveRequest, Enforce
  <2>6. QED
    BY <1>1, <2>5, <2>4
<1>7. CASE RegisterRequest(o)
  <2>1. PICK k, w :
        op' = [op EXCEPT ![o] =
             [Idle EXCEPT !.what = "register", !.pc = "p_put", !.kind = k,
                 !.named = (w # "inherit"),
                 !.node = Node(IF k = "self" THEN "healthy" ELSE "available", k,
                               IF w # "inherit" THEN w ELSE OwnerOf(reg), FALSE)]]
    BY <1>7 DEF RegisterRequest
  <2>2. PICK b \in BOOLEAN : b = (w # "inherit")
    OBVIOUS
  <2>3. PICK n : n = Node(IF k = "self" THEN "healthy" ELSE "available", k,
                          IF w # "inherit" THEN w ELSE OwnerOf(reg), FALSE)
    OBVIOUS
  <2> DEFINE r == [Idle EXCEPT !.what = "register", !.pc = "p_put", !.kind = k, !.named = b,
                               !.node = n]
  <2>4. r.pc = "p_put"
    BY <1>3 DEF OpRecord
  <2>5. op' = [op EXCEPT ![o] = r]
    BY <2>1, <2>2, <2>3
  <2> HIDE DEF r
  <2>6. Alone(o) /\ op'[o].pc = "p_put"
    BY <1>2, <2>4, <2>5
  <2>7. holder = None /\ holder' = o
    BY <1>7 DEF RegisterRequest
  <2>8. QED
    BY <1>1, <2>6, <2>7
<1>8. CASE OwnerRequest(o)
  <2>1. PICK w : op' = [op EXCEPT ![o] = [Idle EXCEPT !.what = "owner", !.pc = "o_write", !.owner = w]]
    BY <1>8 DEF OwnerRequest
  <2>2. [Idle EXCEPT !.what = "owner", !.pc = "o_write", !.owner = w].pc = "o_write"
    BY <1>3 DEF OpRecord
  <2>3. Alone(o) /\ op'[o].pc = "o_write"
    BY <1>2, <2>1, <2>2
  <2>4. holder = None /\ holder' = o
    BY <1>8 DEF OwnerRequest
  <2>5. QED
    BY <1>1, <2>3, <2>4
<1>9. QED
  BY <1>4, <1>5, <1>6, <1>7, <1>8 DEF Requests

\* Every step of an operation takes the lease only when it is free, and goes on only
\* with it.
LEMMA HoldsStep ==
    ASSUME Inv, NEW o \in Ops, Requests(o) \/ Step(o)
    PROVE  Alone(o) /\ Holds(o)
<1>1. op \in [Ops -> Good] /\ op[o] \in OpRecord
  BY DEF Inv, Typed, Good
<1>2. \A r : op' = [op EXCEPT ![o] = r] => op'[o] = r /\ Alone(o)
  BY <1>1 DEF Alone
<1>3. \A pc : Goto(o, pc) => op'[o].pc = pc /\ Alone(o)
  <2>1. TAKE pc
  <2>2. [op[o] EXCEPT !.pc = pc].pc = pc
    BY <1>1 DEF OpRecord
  <2>3. QED
    BY <1>2, <2>2 DEF Goto
<1>4. Idle.pc = "idle" /\ Ended(o).pc = "ended"
  BY DEF Idle, Ended
<1>5. Refuse(o) => Gives(o) /\ Alone(o)
  BY <1>2, <1>4, OwningSteps DEF Refuse, Release, Gives
<1>6. End(o) => Gives(o) /\ Alone(o)
  BY <1>2, <1>4, OwningSteps DEF End, Release, Gives
<1>7. op' = [op EXCEPT ![o] = Idle] => op'[o].pc = "idle" /\ Alone(o)
  BY <1>2, <1>4
<1>8. CASE Requests(o)
  BY <1>8, RequestStep, OwningSteps DEF Holds, Apart, Takes
<1>9. CASE Admitting(o)
  <2>1. CASE SetupReserve(o)
    <3>1. CASE /\ holder = None /\ holder' = o
               /\ op' = [op EXCEPT ![o].pc = "reserved", ![o].known = (reg # None),
                              ![o].owner = IF reg = None \/ op[o].named THEN @ ELSE reg.owner]
      <4>1. op'[o].pc = "reserved" /\ Alone(o)
        BY <1>1, <3>1 DEF Alone, OpRecord
      <4>2. QED
        BY <3>1, <4>1, OwningSteps DEF Holds, Takes
    <3>2. CASE op' = [op EXCEPT ![o] = Idle] /\ holder' = holder
      BY <1>7, <2>1, <3>2, OwningSteps DEF SetupReserve, Holds, Apart
    <3>3. QED
      BY <2>1, <3>1, <3>2 DEF SetupReserve
  <2>2. CASE SetupInspect(o) \/ SetupCleanup(o) \/ SetupLaunch(o)
    BY <1>3, <1>5, <2>2, OwningSteps DEF SetupInspect, SetupCleanup, SetupLaunch, Holds, Keeps
  <2>3. QED
    BY <1>9, <2>1, <2>2 DEF Admitting
<1>10. CASE Installing(o)
  <2>1. CASE UploadScripts(o) \/ SetupRetry(o)
    <3>1. /\ Alone(o) /\ op'[o].pc \in {"setup", "failing"} /\ holder' = holder
          /\ op[o].pc \in {"uploading", "retrying"}
      BY <1>1, <1>3, <2>1 DEF UploadScripts, SetupRetry, InProvision, Alone, OpRecord
    <3>2. QED
      BY <3>1, OwningSteps DEF Holds, Keeps
  <2>2. CASE ProvisionStart(o) \/ PowerOn(o) \/ Reconcile(o) \/ Preflight(o)
    BY <1>3, <1>6, <2>2, OwningSteps
       DEF ProvisionStart, PowerOn, Reconcile, Preflight, InProvision, Holds, Keeps
  <2>3. CASE ProvisionRecord(o) \/ SetupRun(o) \/ SetupResult(o)
    BY <1>3, <2>3, OwningSteps
       DEF ProvisionRecord, SetupRun, SetupResult, InProvision, Holds, Keeps
  <2>4. QED
    BY <1>10, <2>1, <2>2, <2>3 DEF Installing
<1>11. CASE Launching(o)
  <2>1. CASE PlanLaunch(o) \/ EngineRetry(o)
    <3>1. /\ Alone(o) /\ op'[o].pc \in {"starting", "failing"} /\ holder' = holder
          /\ op[o].pc \in {"inventory", "retry_start"}
      BY <1>1, <1>3, <2>1 DEF PlanLaunch, EngineRetry, InProvision, Alone, OpRecord
    <3>2. QED
      BY <3>1, OwningSteps DEF Holds, Keeps
  <2>2. CASE ServingVerify(o) \/ RuntimeVerify(o) \/ FitVerify(o)
    <3>1. PICK pc \in {"registering", "verify_runtime", "failing"} : Goto(o, pc)
      BY <2>2 DEF ServingVerify, RuntimeVerify, FitVerify
    <3>2. op[o].pc \in {"verifying", "verify_runtime"} /\ holder' = holder
      BY <2>2 DEF ServingVerify, RuntimeVerify, FitVerify, InProvision
    <3>3. QED
      BY <1>3, <3>1, <3>2, OwningSteps DEF Holds, Keeps
  <2>3. CASE EngineStart(o) \/ EngineAnswer(o) \/ ProvisionRegister(o)
    <3>1. /\ holder' = holder /\ op[o].pc \in {"starting", "launching", "registering"}
          /\ \E pc \in {"launching", "retry_start", "verifying", "finishing", "failing"} : Goto(o, pc)
      BY <2>3 DEF EngineStart, EngineAnswer, ProvisionRegister, InProvision
    <3>2. QED
      BY <1>3, <3>1, OwningSteps DEF Holds, Keeps
  <2>4. QED
    BY <1>11, <2>1, <2>2, <2>3 DEF Launching
<1>12. CASE Closing(o)
  <2>1. CASE UnstartedCancelled(o)
    <3>1. [Ended(o) EXCEPT !.cancel = "unstarted"].pc = "ended"
      BY DEF Ended, Idle
    <3>2. /\ Alone(o) /\ op'[o].pc = "ended" /\ holder' = holder
          /\ op[o].pc \in {"queued", "t_queued", "r_queued"}
      BY <1>2, <2>1, <3>1 DEF UnstartedCancelled
    <3>3. QED
      BY <3>2, OwningSteps DEF Holds, Keeps
  <2>2. CASE CancelSwallowed(o)
    <3>1. Alone(o) /\ op'[o].pc = "launching" /\ op[o].pc = "launching" /\ holder' = holder
      BY <1>1, <2>2 DEF CancelSwallowed, Alone, OpRecord
    <3>2. QED
      BY <3>1, OwningSteps DEF Holds, Keeps
  <2>3. CASE ProvisionFail(o) \/ ProvisionFailed(o) \/ ProvisionEnd(o) \/ ProvisionCancelled(o)
    BY <1>3, <1>6, <2>3, OwningSteps DEF ProvisionFail, ProvisionFailed, ProvisionEnd,
       ProvisionCancelled, InProvision, Holds, Keeps
  <2>4. QED
    BY <1>12, <2>1, <2>2, <2>3 DEF Closing
<1>13. CASE Asking(o)
  <2>1. CASE TeardownCancel(o)
    <3>1. /\ op[o].pc = "t_cancel" /\ holder' = holder
          /\ op'[o].pc \in {"t_wait", "idle"} /\ \A p \in Ops \ {o} : op'[p].pc = op[p].pc
      <4>1. CASE op' = [op EXCEPT ![o].pc = "t_wait", ![op[o].target].cancel = "explicit"]
        <5>1. \A p \in Ops : op[p] \in OpRecord
          BY <1>1 DEF Good
        <5>2. QED
          BY <1>1, <2>1, <4>1, <5>1 DEF TeardownCancel, OpRecord
      <4>2. CASE op' = [op EXCEPT ![o] = Idle]
        BY <1>1, <1>4, <2>1, <4>2 DEF TeardownCancel
      <4>3. QED
        BY <2>1, <4>1, <4>2 DEF TeardownCancel
    <3>2. QED
      BY <3>1, OwningSteps DEF Alone, Holds, Apart
  <2>2. CASE TeardownSuspend(o) \/ TeardownWoken(o)
    BY <1>3, <1>7, <2>2, OwningSteps DEF TeardownSuspend, TeardownWoken, Holds, Apart
  <2>3. CASE TeardownReserve(o) \/ TeardownCheck(o)
    BY <1>3, <1>5, <1>7, <2>3, OwningSteps
       DEF TeardownReserve, TeardownCheck, Holds, Apart, Takes, Keeps
  <2>4. QED
    BY <1>13, <2>1, <2>2, <2>3 DEF Asking
<1>14. CASE Dismantling(o)
  <2>1. ASSUME \/ op' = [op EXCEPT ![o].pc = "t_stop", ![o].force = FALSE,
                                   ![o].known = FALSE, ![o].named = FALSE]
               \/ op' = [op EXCEPT ![o].pc = "t_remove", ![o].kind = KindOf(reg)]
        PROVE  Alone(o) /\ op'[o].pc \in {"t_stop", "t_remove"}
    BY <1>1, <2>1 DEF Alone, OpRecord
  <2>2. CASE TeardownStart(o) \/ TeardownDelete(o)
    BY <1>3, <1>6, <2>1, <2>2, OwningSteps DEF TeardownStart, TeardownDelete, InTeardown, Holds,
       Keeps
  <2>3. CASE TeardownStop(o) \/ TeardownRemove(o) \/ TeardownRepool(o)
    BY ZenonT(60), <1>3, <2>3, OwningSteps DEF TeardownStop, TeardownRemove, TeardownRepool,
       InTeardown, Holds, Keeps
  <2>4. CASE TeardownEnd(o) \/ TeardownFail(o) \/ TeardownCancelled(o)
    BY <1>6, <2>4 DEF TeardownEnd, TeardownFail, TeardownCancelled, Holds
  <2>5. QED
    BY <1>14, <2>2, <2>3, <2>4 DEF Dismantling
<1>15. CASE Replacing(o)
  <2>1. CASE RelaunchValidate(o) \/ RelaunchCommit(o) \/ RelaunchRegister(o)
    <3>1. /\ Alone(o) /\ op'[o].pc \in {"r_begin", "r_drain", "r_finish", "r_fail", "r_rollback"}
          /\ holder' = holder /\ op[o].pc \in {"r_validate", "r_commit", "r_register"}
      BY <1>1, <1>3, <2>1
         DEF RelaunchValidate, RelaunchCommit, RelaunchRegister, InRelaunch, Alone, OpRecord
    <3>2. QED
      BY <3>1, OwningSteps DEF Holds, Keeps
  <2>2. CASE RelaunchStart(o) \/ RelaunchBegin(o) \/ RelaunchDrain(o)
    BY <1>3, <1>6, <2>2, OwningSteps
       DEF RelaunchStart, RelaunchBegin, RelaunchDrain, InRelaunch, Holds, Keeps
  <2>3. CASE RelaunchStop(o) \/ RelaunchLaunch(o) \/ RelaunchFinish(o)
    BY <1>3, <1>6, <2>3, OwningSteps
       DEF RelaunchStop, RelaunchLaunch, RelaunchFinish, InRelaunch, Holds, Keeps
  <2>4. QED
    BY <1>15, <2>1, <2>2, <2>3 DEF Replacing
<1>16. CASE Restoring(o)
  <2>1. CASE RelaunchCancelled(o)
    <3>1. CASE End(o)
      BY <1>6, <3>1 DEF Holds
    <3>2. ASSUME NEW pc \in OnCancel(op[o].pc), holder' = holder,
                 op' = [op EXCEPT ![o].pc = pc, ![o].cancel = "swallowed"]
          PROVE  Alone(o) /\ Holds(o)
      <4>1. Alone(o) /\ op'[o].pc = pc
        BY <1>1, <3>2 DEF Alone, OpRecord
      <4>2. /\ pc \in {"r_fail", "r_restore", "r_rollback", "r_terminal"}
            /\ op[o].pc \in {"r_validate", "r_begin", "r_commit", "r_drain", "r_stop", "r_launch",
                             "r_register", "r_finish", "r_rollback"}
        BY <3>2 DEF OnCancel
      <4>3. QED
        BY <3>2, <4>1, <4>2, OwningSteps DEF Holds, Keeps
    <3>3. QED
      BY <2>1, <3>1, <3>2 DEF RelaunchCancelled
  <2>2. CASE RelaunchRollback(o) \/ RelaunchTerminal(o) \/ RelaunchRestore(o) \/ RelaunchFail(o)
    BY <1>3, <1>6, <2>2, OwningSteps DEF RelaunchRollback, RelaunchTerminal, RelaunchRestore,
       RelaunchFail, InRelaunch, Holds, Keeps
  <2>3. QED
    BY <1>16, <2>1, <2>2 DEF Restoring
<1>17. CASE Pooling(o)
  <2>1. ASSUME op[o].pc = "o_write", holder' = holder,
               op' = [op EXCEPT ![o].pc = "o_add", ![o].node = Known(store')]
        PROVE  Alone(o) /\ Holds(o)
    <3>1. Alone(o) /\ op'[o].pc = "o_add"
      BY <1>1, <2>1 DEF Alone, OpRecord
    <3>2. QED
      BY <2>1, <3>1, OwningSteps DEF Holds, Keeps
  <2>2. QED
    BY <1>3, <1>5, <1>17, <2>1, OwningSteps
       DEF Pooling, RegisterPut, RegisterRefused, RegisterAdd, RemoveDelete, RemoveForget,
           OwnerWrite, OwnerAdd, Holds, Keeps
<1>18. CASE Done(o)
  <2>1. op'[o] = Idle /\ holder' = Unheld(o)
    BY <1>18 DEF Done, Release
  <2>2. ASSUME NEW p \in Ops \ {o}
        PROVE  \/ op'[p].pc = op[p].pc
               \/ op[p].pc \notin Owning \cup {"ended"} /\ op'[p].pc \notin Owning \cup {"ended"}
    <3>1. op[p] \in OpRecord
      BY <1>1 DEF Good
    <3>2. CASE op[p].pc = "t_wait" /\ op[p].target = o
      <4>1. op'[p].pc = Woken(o)
        BY <1>18, <3>1, <3>2 DEF Done, OpRecord
      <4>2. Woken(o) \in {"t_report", "t_reserve", "t_refused"}
        BY DEF Woken
      <4>3. QED
        BY <3>2, <4>1, <4>2, OwningSteps
    <3>3. CASE ~(op[p].pc = "t_wait" /\ op[p].target = o)
      BY <1>18, <3>3 DEF Done
    <3>4. QED
      BY <3>2, <3>3
  <2>3. QED
    BY <1>4, <2>1, <2>2, OwningSteps DEF Alone, Holds, Gives
<1>19. QED
  BY <1>8, <1>9, <1>10, <1>11, <1>12, <1>13, <1>14, <1>15, <1>16, <1>17, <1>18, Families

\* So an operation has the host exactly while it holds the lease.
LEMMA OneStep ==
    ASSUME Inv, NEW o \in Ops, Requests(o) \/ Step(o)
    PROVE  OneAtATime'
<1>1. /\ Alone(o) /\ Holds(o) /\ OneAtATime /\ None \notin Ops /\ holder \in Ops \cup {None}
      /\ "ended" \notin Owning
  BY HoldsStep, LifecycleAssumption, OwningSteps DEF Inv, Typed
<1>2. CASE Keeps(o)
  BY <1>1, <1>2 DEF Keeps, Alone, OneAtATime
<1>3. CASE Takes(o)
  BY <1>1, <1>3 DEF Takes, Alone, OneAtATime
<1>4. CASE Gives(o)
  BY <1>1, <1>4 DEF Gives, Unheld, Alone, OneAtATime
<1>5. CASE Apart(o)
  BY <1>1, <1>5 DEF Apart, Alone, OneAtATime
<1>6. QED
  BY <1>1, <1>2, <1>3, <1>4, <1>5 DEF Holds

-----------------------------------------------------------------------------
(* What is advertised while the host is taken apart.                       *)

Unserving == store = None \/ store.status # "healthy"

\* Only an operation that has the host writes its record; one that takes the host apart
\* has made the record say so, or goes on without touching it.
Writes(o) ==
    /\ store' = store \/ op[o].pc \in Owning
    /\ op'[o].pc \in Disturbing => Unserving' \/ (store' = store /\ op[o].pc \in Disturbing)

\* What every step of an operation does to the record.
LEMMA WritesStep ==
    ASSUME Inv, NEW o \in Ops, Requests(o) \/ Step(o)
    PROVE  Writes(o)
<1>1. op \in [Ops -> Good] /\ op[o] \in OpRecord
  BY DEF Inv, Typed, Good
<1>2. \A r : op' = [op EXCEPT ![o] = r] => op'[o] = r
  BY <1>1
<1>3. \A pc : Goto(o, pc) => op'[o].pc = pc
  <2>1. TAKE pc
  <2>2. [op[o] EXCEPT !.pc = pc].pc = pc
    BY <1>1 DEF OpRecord
  <2>3. QED
    BY <1>2, <2>2 DEF Goto
<1>4. /\ \A pc \in {"idle", "ended", "validating", "reserved", "stale", "launch", "queued", "powering",
                    "reconciling", "preflight", "recording", "failing", "failed", "finishing"} :
             pc \notin Disturbing
      /\ \A pc \in {"t_suspend", "t_cancel", "t_wait", "t_report", "t_refused", "t_reserve", "t_check",
                    "t_queued", "t_stop", "t_delete", "t_fail", "t_remove", "t_repool", "t_end",
                    "r_queued", "r_validate", "r_begin", "r_commit", "r_finish", "r_rollback",
                    "r_terminal", "r_restore", "r_fail", "p_put", "p_add", "p_delete", "p_remove",
                    "o_write", "o_add"} : pc \notin Disturbing
      /\ {"uploading", "setup", "running", "retrying", "inventory", "starting", "launching",
          "retry_start", "verifying", "verify_runtime", "registering", "r_drain", "r_stop",
          "r_launch", "r_register"} \subseteq Disturbing
  BY DEF Disturbing
<1>5. Idle.pc = "idle" /\ Ended(o).pc = "ended"
  BY DEF Idle, Ended
<1>6. End(o) \/ Refuse(o) \/ op' = [op EXCEPT ![o] = Idle] => op'[o].pc \notin Disturbing
  BY <1>2, <1>4, <1>5 DEF End, Refuse
<1>7. store' = store /\ op'[o].pc \notin Disturbing => Writes(o)
  BY DEF Writes
<1>8. op[o].pc \in Owning /\ op'[o].pc \notin Disturbing => Writes(o)
  BY DEF Writes
<1>9. store' = store /\ op[o].pc \in Disturbing => Writes(o)
  BY DEF Writes
<1> USE DEF durable, others
<1>10. CASE Requests(o)
  <2>1. store' = store
    BY <1>10
       DEF Requests, SetupRequest, TeardownRequest, RelaunchRequest, RegisterRequest, RemoveRequest,
           OwnerRequest, Enforce
  <2>2. QED
    BY <1>4, <1>7, <1>10, <2>1, RequestStep
<1>11. CASE Admitting(o)
  <2>1. CASE SetupReserve(o)
    <3>1. ASSUME op' = [op EXCEPT ![o].pc = "reserved", ![o].known = (reg # None),
                              ![o].owner = IF reg = None \/ op[o].named THEN @ ELSE reg.owner]
          PROVE  op'[o].pc = "reserved"
      BY <1>1, <3>1 DEF OpRecord
    <3>2. store' = store /\ op'[o].pc \notin Disturbing
      BY <1>4, <1>6, <2>1, <3>1 DEF SetupReserve
    <3>3. QED
      BY <1>7, <3>2
  <2>2. CASE SetupInspect(o)
    <3>1. store' = store /\ (Refuse(o) \/ \E pc \in {"stale", "launch"} : Goto(o, pc))
      BY <2>2 DEF SetupInspect
    <3>2. QED
      BY <1>3, <1>4, <1>6, <1>7, <3>1
  <2>3. CASE SetupCleanup(o) \/ SetupLaunch(o)
    <3>1. /\ op[o].pc \in {"stale", "launch"}
          /\ Refuse(o) \/ \E pc \in {"launch", "queued"} : Goto(o, pc)
      BY <2>3 DEF SetupCleanup, SetupLaunch
    <3>2. QED
      BY <1>3, <1>4, <1>6, <1>8, <3>1, OwningSteps
  <2>4. QED
    BY <1>11, <2>1, <2>2, <2>3 DEF Admitting
<1>12. CASE Installing(o)
  <2>1. CASE ProvisionStart(o) \/ PowerOn(o) \/ Reconcile(o) \/ Preflight(o)
    <3>1. /\ store' = store
          /\ \/ End(o)
             \/ \E pc \in {"powering", "reconciling", "preflight", "recording"} : Goto(o, pc)
      BY <2>1 DEF ProvisionStart, PowerOn, Reconcile, Preflight
    <3>2. QED
      BY <1>3, <1>4, <1>6, <1>7, <3>1
  <2>2. CASE ProvisionRecord(o)
    <3>1. CASE store' = Ownership(o)
      <4>1. Unserving'
        BY <3>1 DEF Unserving, Ownership, Node
      <4>2. op[o].pc \in Owning
        BY <2>2, OwningSteps DEF ProvisionRecord, InProvision
      <4>3. QED
        BY <4>1, <4>2 DEF Writes
    <3>2. CASE Goto(o, "failing")
      <4>1. op[o].pc \in Owning
        BY <2>2, OwningSteps DEF ProvisionRecord, InProvision
      <4>2. QED
        BY <1>3, <1>4, <1>8, <3>2, <4>1
    <3>3. QED
      BY <2>2, <3>1, <3>2 DEF ProvisionRecord
  <2>3. CASE UploadScripts(o) \/ SetupRun(o) \/ SetupResult(o) \/ SetupRetry(o)
    <3>1. store' = store /\ op[o].pc \in {"uploading", "setup", "running", "retrying"}
      BY <2>3 DEF UploadScripts, SetupRun, SetupResult, SetupRetry, InProvision
    <3>2. QED
      BY <1>4, <1>9, <3>1
  <2>4. QED
    BY <1>12, <2>1, <2>2, <2>3 DEF Installing
<1>13. CASE Launching(o)
  <2>1. CASE PlanLaunch(o) \/ EngineStart(o) \/ EngineAnswer(o) \/ EngineRetry(o)
    <3>1. store' = store /\ op[o].pc \in {"inventory", "starting", "launching", "retry_start"}
      BY <2>1 DEF PlanLaunch, EngineStart, EngineAnswer, EngineRetry, InProvision
    <3>2. QED
      BY <1>4, <1>9, <3>1
  <2>2. CASE ServingVerify(o) \/ RuntimeVerify(o) \/ FitVerify(o)
    <3>1. store' = store /\ op[o].pc \in {"verifying", "verify_runtime"}
      BY <2>2 DEF ServingVerify, RuntimeVerify, FitVerify, InProvision
    <3>2. QED
      BY <1>4, <1>9, <3>1
  <2>3. CASE ProvisionRegister(o)
    <3>1. op[o].pc = "registering" /\ \E pc \in {"finishing", "failing"} : Goto(o, pc)
      BY <2>3 DEF ProvisionRegister, InProvision
    <3>2. QED
      BY <1>3, <1>4, <1>8, <3>1, OwningSteps
  <2>4. QED
    BY <1>13, <2>1, <2>2, <2>3 DEF Launching
<1>14. CASE Closing(o)
  <2>1. CASE UnstartedCancelled(o)
    <3>1. [Ended(o) EXCEPT !.cancel = "unstarted"].pc = "ended"
      BY DEF Ended, Idle
    <3>2. op'[o].pc = "ended" /\ store' = store
      BY <1>2, <2>1, <3>1 DEF UnstartedCancelled
    <3>3. QED
      BY <1>4, <1>7, <3>2
  <2>2. CASE CancelSwallowed(o)
    BY <1>4, <1>9, <2>2 DEF CancelSwallowed
  <2>3. CASE ProvisionFail(o) \/ ProvisionFailed(o) \/ ProvisionEnd(o)
    <3>1. /\ op[o].pc \in {"failing", "failed", "finishing"}
          /\ End(o) \/ \E pc \in {"failed", "finishing"} : Goto(o, pc)
      BY <2>3 DEF ProvisionFail, ProvisionFailed, ProvisionEnd, InProvision
    <3>2. QED
      BY <1>3, <1>4, <1>6, <1>8, <3>1, OwningSteps
  <2>4. CASE ProvisionCancelled(o)
    <3>1. op[o].pc \in Provisioning /\ End(o)
      BY <2>4 DEF ProvisionCancelled
    <3>2. Provisioning \subseteq Owning
      BY DEF Owning, Background
    <3>3. QED
      BY <1>6, <1>8, <3>1, <3>2
  <2>5. QED
    BY <1>14, <2>1, <2>2, <2>3, <2>4 DEF Closing
<1>15. CASE Asking(o)
  <2>1. store' = store
    BY <1>15
       DEF Asking, TeardownSuspend, TeardownCancel, TeardownWoken, TeardownReserve, TeardownCheck
  <2>2. CASE TeardownCancel(o)
    <3>1. ASSUME op' = [op EXCEPT ![o].pc = "t_wait", ![op[o].target].cancel = "explicit"]
          PROVE  op'[o].pc = "t_wait"
      BY <1>1, <3>1 DEF OpRecord
    <3>2. op'[o].pc \notin Disturbing
      BY <1>4, <1>6, <2>2, <3>1 DEF TeardownCancel
    <3>3. QED
      BY <1>7, <2>1, <3>2
  <2>3. CASE TeardownSuspend(o) \/ TeardownWoken(o) \/ TeardownReserve(o) \/ TeardownCheck(o)
    <3>1. \/ Refuse(o) \/ op' = [op EXCEPT ![o] = Idle]
          \/ \E pc \in {"t_cancel", "t_reserve", "t_check", "t_queued"} : Goto(o, pc)
      BY <2>3 DEF TeardownSuspend, TeardownWoken, TeardownReserve, TeardownCheck
    <3>2. op'[o].pc \notin Disturbing
      BY <1>3, <1>4, <1>6, <3>1
    <3>3. QED
      BY <1>7, <2>1, <3>2
  <2>4. QED
    BY <1>15, <2>2, <2>3 DEF Asking
<1>16. CASE Dismantling(o)
  <2>1. op[o].pc \in Owning
    BY <1>16, OwningSteps
       DEF Dismantling, TeardownStart, TeardownStop, TeardownDelete, TeardownRemove, TeardownRepool,
           TeardownEnd, TeardownFail, TeardownCancelled, InTeardown
  <2>2. ASSUME \/ op' = [op EXCEPT ![o].pc = "t_stop", ![o].force = FALSE,
                                   ![o].known = FALSE, ![o].named = FALSE]
               \/ op' = [op EXCEPT ![o].pc = "t_remove", ![o].kind = KindOf(reg)]
        PROVE  op'[o].pc \in {"t_stop", "t_remove"}
    BY <1>1, <2>2 DEF OpRecord
  <2>3. CASE TeardownStart(o) \/ TeardownDelete(o)
    <3>1. End(o) \/ Goto(o, "t_fail") \/ op'[o].pc \in {"t_stop", "t_remove"}
      BY <2>2, <2>3 DEF TeardownStart, TeardownDelete
    <3>2. QED
      BY <1>3, <1>4, <1>6, <1>8, <2>1, <3>1
  <2>4. CASE \/ TeardownStop(o) \/ TeardownRemove(o) \/ TeardownRepool(o) \/ TeardownEnd(o)
             \/ TeardownFail(o) \/ TeardownCancelled(o)
    <3>1. End(o) \/ \E pc \in {"t_delete", "t_fail", "t_end", "t_repool"} : Goto(o, pc)
      BY <2>4 DEF TeardownStop, TeardownRemove, TeardownRepool, TeardownEnd, TeardownFail,
                  TeardownCancelled
    <3>2. QED
      BY <1>3, <1>4, <1>6, <1>8, <2>1, <3>1
  <2>5. QED
    BY <1>16, <2>3, <2>4 DEF Dismantling
<1>17. CASE Replacing(o)
  <2>1. op[o].pc \in Owning
    BY <1>17, OwningSteps
       DEF Replacing, RelaunchStart, RelaunchValidate, RelaunchBegin, RelaunchCommit, RelaunchDrain,
           RelaunchStop, RelaunchLaunch, RelaunchRegister, RelaunchFinish, InRelaunch
  <2>2. CASE RelaunchStart(o) \/ RelaunchBegin(o) \/ RelaunchFinish(o)
    <3>1. End(o) \/ \E pc \in {"r_validate", "r_commit", "r_fail"} : Goto(o, pc)
      BY <2>2 DEF RelaunchStart, RelaunchBegin, RelaunchFinish
    <3>2. QED
      BY <1>3, <1>4, <1>6, <1>8, <2>1, <3>1
  <2>3. CASE RelaunchValidate(o) \/ RelaunchRegister(o)
    <3>1. \/ op' = [op EXCEPT ![o].pc = "r_begin", ![o].node = store, ![o].local = reg]
          \/ op' = [op EXCEPT ![o].pc = "r_finish", ![o].written = "healthy"]
          \/ \E pc \in {"r_fail", "r_rollback"} : Goto(o, pc)
      BY <2>3 DEF RelaunchValidate, RelaunchRegister
    <3>2. op'[o].pc \in {"r_begin", "r_finish", "r_fail", "r_rollback"}
      BY <1>1, <1>3, <3>1 DEF OpRecord
    <3>3. QED
      BY <1>4, <1>8, <2>1, <3>2
  <2>4. CASE RelaunchCommit(o)
    <3>1. CASE Goto(o, "r_fail")
      BY <1>3, <1>4, <1>8, <2>1, <3>1
    <3>2. CASE store' = Written(o, "relaunching")
      <4>1. op[o].node \in Nodes
        BY <1>1, <2>4 DEF RelaunchCommit, InRelaunch, Good, Holding
      <4>2. Unserving'
        BY <3>2, <4>1 DEF Unserving, Written, WithStatus, Nodes
      <4>3. QED
        BY <2>1, <4>2 DEF Writes
    <3>3. QED
      BY <2>4, <3>1, <3>2 DEF RelaunchCommit
  <2>5. CASE RelaunchDrain(o)
    <3>1. \/ store' = store /\ op[o].pc = "r_drain"
          \/ \E pc \in {"r_fail", "r_restore"} : Goto(o, pc)
      BY <2>5 DEF RelaunchDrain, InRelaunch
    <3>2. QED
      BY <1>3, <1>4, <1>8, <1>9, <2>1, <3>1
  <2>6. CASE RelaunchStop(o) \/ RelaunchLaunch(o)
    <3>1. store' = store /\ op[o].pc \in {"r_stop", "r_launch"}
      BY <2>6 DEF RelaunchStop, RelaunchLaunch, InRelaunch
    <3>2. QED
      BY <1>4, <1>9, <3>1
  <2>7. QED
    BY <1>17, <2>2, <2>3, <2>4, <2>5, <2>6 DEF Replacing
<1>18. CASE Restoring(o)
  <2>1. CASE RelaunchCancelled(o)
    <3>1. CASE End(o)
      <4>1. store' = store \/ op[o].pc \in {"r_commit", "r_register", "r_restore", "r_terminal"}
        BY <2>1 DEF RelaunchCancelled, Unanswered
      <4>2. QED
        BY <1>6, <1>7, <1>8, <3>1, <4>1, OwningSteps
    <3>2. ASSUME NEW pc \in OnCancel(op[o].pc),
                 op' = [op EXCEPT ![o].pc = pc, ![o].cancel = "swallowed"]
          PROVE  Writes(o)
      <4>1. op'[o].pc = pc
        BY <1>1, <3>2 DEF OpRecord
      <4>2. /\ pc \in {"r_fail", "r_restore", "r_rollback", "r_terminal"}
            /\ op[o].pc \in {"r_validate", "r_begin", "r_commit", "r_drain", "r_stop", "r_launch",
                             "r_register", "r_finish", "r_rollback"}
        BY <3>2 DEF OnCancel
      <4>3. QED
        BY <1>4, <1>8, <4>1, <4>2, OwningSteps
    <3>3. QED
      BY <2>1, <3>1, <3>2 DEF RelaunchCancelled
  <2>2. CASE RelaunchRollback(o) \/ RelaunchTerminal(o) \/ RelaunchRestore(o) \/ RelaunchFail(o)
    <3>1. /\ op[o].pc \in {"r_rollback", "r_terminal", "r_restore", "r_fail"}
          /\ End(o) \/ \E pc \in {"r_fail", "r_terminal"} : Goto(o, pc)
      BY <2>2 DEF RelaunchRollback, RelaunchTerminal, RelaunchRestore, RelaunchFail, InRelaunch
    <3>2. QED
      BY <1>3, <1>4, <1>6, <1>8, <3>1, OwningSteps
  <2>3. QED
    BY <1>18, <2>1, <2>2 DEF Restoring
<1>19. CASE Pooling(o)
  <2>1. ASSUME op' = [op EXCEPT ![o].pc = "o_add", ![o].node = Known(store')]
        PROVE  op'[o].pc = "o_add"
    BY <1>1, <2>1 DEF OpRecord
  <2>2. /\ op[o].pc \in {"p_put", "p_add", "p_delete", "p_remove", "o_write", "o_add"}
        /\ \/ Refuse(o) \/ op'[o].pc = "o_add"
           \/ \E pc \in {"p_add", "p_remove"} : Goto(o, pc)
    BY <1>19, <2>1
       DEF Pooling, RegisterPut, RegisterRefused, RegisterAdd, RemoveDelete, RemoveForget,
           OwnerWrite, OwnerAdd
  <2>3. QED
    BY <1>3, <1>4, <1>6, <1>8, <2>2, OwningSteps
<1>20. CASE Done(o)
  <2>1. op'[o] = Idle /\ store' = store
    BY <1>20 DEF Done
  <2>2. QED
    BY <1>4, <1>5, <1>7, <2>1
<1>21. QED
  BY <1>10, <1>11, <1>12, <1>13, <1>14, <1>15, <1>16, <1>17, <1>18, <1>19, <1>20, Families

\* While an operation takes the host apart, nobody advertises the host: another operation
\* that writes the record would need the lease.
LEMMA HiddenStep ==
    ASSUME Inv, NEW o \in Ops, Requests(o) \/ Step(o)
    PROVE  Hidden'
<1>1. /\ Alone(o) /\ Writes(o) /\ OneAtATime /\ Hidden /\ None \notin Ops
      /\ Disturbing \subseteq Owning
  BY HoldsStep, WritesStep, LifecycleAssumption, OwningSteps DEF Inv
<1>2. \A p \in Ops : op[p].pc \in Disturbing => Unserving
  BY <1>1 DEF Hidden, Unserving
<1>3. store' = store /\ Unserving => Unserving'
  BY DEF Unserving
<1>4. ASSUME NEW p \in Ops, op'[p].pc \in Disturbing
      PROVE  Unserving'
  <2>1. CASE p = o
    BY <1>1, <1>2, <1>3, <1>4, <2>1 DEF Writes
  <2>2. CASE p # o
    <3>1. op[p].pc \in Disturbing
      BY <1>1, <1>4, <2>2 DEF Alone
    <3>2. op[o].pc \notin Owning
      BY <1>1, <2>2, <3>1 DEF OneAtATime
    <3>3. QED
      BY <1>1, <1>2, <1>3, <3>1, <3>2 DEF Writes
  <2>3. QED
    BY <2>1, <2>2
<1>5. QED
  BY <1>4 DEF Hidden, Unserving

\* Every step of an operation preserves the invariant.
LEMMA OperationStep ==
    ASSUME Inv, NEW o \in Ops, Requests(o) \/ Step(o)
    PROVE  Inv'
<1>1. op' \in [Ops -> Good] /\ Flags' /\ Recorded' /\ OneAtATime' /\ Hidden'
  BY GoodStep, FlagsStep, RecordedStep, OneStep, HiddenStep
<1>2. Fits(store')
  BY <1>1 DEF Recorded, Keepable
<1>3. Typed'
  BY <1>1 DEF Flags, Recorded, Keepable, Typed
<1>4. QED
  BY <1>1, <1>2, <1>3 DEF Inv

-----------------------------------------------------------------------------
(* The watcher, the health checker, the leases, the host and the process.  *)

\* The steps that leave the operations and their lease alone.
Surrounding ==
    Prune \/ Watch \/ SweepDrained \/ HealthFlip \/ Adopt \/ Expire \/ RemoteEnds \/ Startup

\* They never make a record healthy that was not.
LEMMA SurroundingStep ==
    ASSUME Inv, Surrounding
    PROVE  Inv'
<1>1. Typed /\ OneAtATime /\ Hidden /\ Fits(store)
  BY DEF Inv
<1>2. store \in Nodes \cup {None} /\ reg \in Nodes \cup {None}
  BY <1>1 DEF Typed
<1> USE DEF durable, others
<1>3. op' = op /\ holder' = holder /\ record' = record /\ pending' = pending /\ task' = task
  BY DEF Surrounding, Prune, Watch, SweepDrained, HealthFlip, Adopt, Expire, RemoteEnds, Startup
<1>4. remote' \in BOOLEAN /\ initiated' \in BOOLEAN /\ gateway' \in {"up", "stopping", "down"}
  BY <1>1 DEF Typed, Surrounding, Prune, Watch, SweepDrained, HealthFlip, Adopt, Expire, RemoteEnds,
              Startup
<1>5. /\ store' \in Nodes \cup {None} /\ reg' \in Nodes \cup {None} /\ Fits(store')
      /\ Unserving => Unserving'
  <2>1. CASE Prune \/ SweepDrained \/ RemoteEnds
    BY <1>1, <1>2, <2>1 DEF Prune, SweepDrained, RemoteEnds, Unserving
  <2>2. CASE Watch \/ HealthFlip
    <3>1. store' = store
      BY <2>2 DEF Watch, HealthFlip
    <3>2. {"draining", "healthy", "unhealthy"} \subseteq Statuses /\ \A n \in Nodes : n.status \in Statuses
      BY DEF Statuses, Nodes
    <3>3. CASE Watch
      <4>1. store # None => Merged(store) \in Nodes
        BY <1>2, <3>2, NodesMade DEF Merged
      <4>2. reg # None => WithStatus(reg, "draining") \in Nodes
        BY <1>2, <3>2, NodesMade
      <4>3. reg' \in Nodes
        BY <3>3, <4>1, <4>2 DEF Watch
      <4>4. QED
        BY <1>1, <1>2, <3>1, <4>3 DEF Unserving
    <3>4. CASE HealthFlip
      <4>1. reg' \in Nodes
        BY <1>2, <3>2, <3>4, NodesMade DEF HealthFlip, Liveness
      <4>2. QED
        BY <1>1, <1>2, <3>1, <4>1 DEF Unserving
    <3>5. QED
      BY <2>2, <3>3, <3>4
  <2>3. CASE Adopt
    <3>1. /\ store # None /\ reg # None /\ Known(store) = Known(reg) /\ reg.status = "healthy"
          /\ store' = [store EXCEPT !.leased = TRUE] /\ reg' = reg
      BY <2>3 DEF Adopt, Relaunchable, SameNode
    <3>2. store \in Nodes /\ reg \in Nodes
      BY <1>2, <3>1
    <3>3. store.status = "healthy"
      BY <3>1, <3>2 DEF Known, Nodes
    <3>4. store' \in Nodes /\ store'.status = "healthy"
      BY <3>1, <3>2, <3>3 DEF Nodes
    <3>5. Fits(store')
      BY <3>4 DEF Fits
    <3>6. ~Unserving
      BY <3>1, <3>3 DEF Unserving
    <3>7. QED
      BY <1>2, <3>1, <3>4, <3>5, <3>6
  <2>4. CASE Expire
    BY <1>2, <2>4 DEF Expire, Fits, Unserving
  <2>5. CASE Startup
    <3>1. store' = Recovered(store) /\ reg' = (IF store' = None THEN None ELSE Known(store'))
      BY <2>5 DEF Startup
    <3>2. CASE store # None /\ store.status = "relaunching"
      <4>1. store' = Known(WithStatus(store, "relaunch_failed")) /\ store \in Nodes
        BY <1>2, <3>1, <3>2 DEF Recovered
      <4>2. "relaunch_failed" \in Statuses
        BY DEF Statuses
      <4>3. store' \in Nodes
        BY <4>1, <4>2, NodesMade
      <4>4. store'.status = "relaunch_failed" /\ store'.leased = FALSE
        BY <4>1 DEF Known, WithStatus, Nodes
      <4>5. Fits(store') /\ Unserving'
        BY <4>3, <4>4 DEF Fits, Unserving
      <4>6. reg' \in Nodes \cup {None}
        BY <3>1, <4>3, NodesMade
      <4>7. QED
        BY <4>3, <4>5, <4>6
    <3>3. CASE ~(store # None /\ store.status = "relaunching")
      <4>1. store' = store
        BY <3>1, <3>3 DEF Recovered
      <4>2. reg' \in Nodes \cup {None}
        BY <1>2, <3>1, <4>1, NodesMade
      <4>3. QED
        BY <1>1, <1>2, <4>1, <4>2 DEF Unserving
    <3>4. QED
      BY <3>2, <3>3
  <2>6. QED
    BY <2>1, <2>2, <2>3, <2>4, <2>5 DEF Surrounding
<1>6. Typed'
  BY <1>1, <1>3, <1>4, <1>5 DEF Typed
<1>7. OneAtATime'
  BY <1>1, <1>3 DEF OneAtATime
<1>8. Hidden'
  BY <1>1, <1>3, <1>5 DEF Hidden, Unserving
<1>9. QED
  BY <1>5, <1>6, <1>7, <1>8 DEF Inv

\* A shutdown marks the tasks as cancelled and moves none of them.
LEMMA ShutdownStep ==
    ASSUME Inv, Shutdown
    PROVE  Inv'
<1>1. Typed /\ OneAtATime /\ Hidden /\ Fits(store) /\ op \in [Ops -> Good]
  BY DEF Inv, Typed
<1> USE DEF durable, others
<1>2. /\ gateway' = "stopping" /\ store' = store /\ task' = task /\ remote' = remote /\ reg' = reg
      /\ holder' = holder /\ record' = record /\ pending' = pending /\ initiated' = initiated
  BY DEF Shutdown
<1>3. \A r \in Good : [r EXCEPT !.cancel = "shutdown"] \in Good /\ [r EXCEPT !.cancel = "shutdown"].pc = r.pc
  BY DEF Good, OpRecord
<1>4. \A o \in Ops : op'[o] = op[o] \/ op'[o] = [op[o] EXCEPT !.cancel = "shutdown"]
  BY DEF Shutdown
<1>5. \A o \in Ops : op'[o] \in Good /\ op'[o].pc = op[o].pc
  BY ZenonT(60), <1>1, <1>3, <1>4
<1>6. op' \in [Ops -> Good]
  <2>1. op' = [o \in Ops |-> op'[o]]
    BY DEF Shutdown
  <2>2. QED
    BY <1>5, <2>1
<1>7. Typed'
  BY <1>1, <1>2, <1>6 DEF Typed
<1>8. OneAtATime'
  BY <1>1, <1>2, <1>5 DEF OneAtATime, Typed
<1>9. Hidden'
  BY <1>1, <1>2, <1>5 DEF Hidden
<1>10. QED
  BY <1>1, <1>2, <1>7, <1>8, <1>9 DEF Inv

\* The end of the process takes every operation with it, and leaves etcd as it is.
LEMMA ForgetStep ==
    ASSUME Inv, Forget
    PROVE  Inv'
<1>1. Typed /\ Fits(store)
  BY DEF Inv
<1>2. /\ gateway' = "down" /\ store' = store /\ task' = task /\ remote' = remote /\ reg' = None
      /\ holder' = None /\ record' = None /\ pending' = FALSE /\ initiated' = FALSE
      /\ op' = [o \in Ops |-> Idle]
  BY DEF Forget, durable
<1>3. \A o \in Ops : op'[o] \in Good /\ op'[o].pc = "idle"
  BY <1>2, Resting DEF Idle
<1>4. op' \in [Ops -> Good]
  BY <1>2, Resting
<1>5. Typed'
  BY <1>1, <1>2, <1>4 DEF Typed
<1>6. OneAtATime' /\ Hidden'
  BY <1>2, <1>3, OwningSteps DEF OneAtATime, Hidden
<1>7. QED
  BY <1>1, <1>2, <1>5, <1>6 DEF Inv

-----------------------------------------------------------------------------
(* The theorems.                                                           *)

\* The invariant holds when nothing is there yet.
LEMMA InvInit == Init => Inv
<1>1. SUFFICES ASSUME Init PROVE Inv
  OBVIOUS
<1>2. \A o \in Ops : op[o].pc = "idle"
  BY <1>1 DEF Init, Idle
<1>3. op \in [Ops -> Good]
  BY <1>1, Resting DEF Init
<1>4. Typed
  BY <1>1, <1>3 DEF Init, Typed, Tasks
<1>5. OneAtATime /\ Hidden
  BY <1>1, <1>2, OwningSteps DEF Init, OneAtATime, Hidden
<1>6. QED
  BY <1>1, <1>4, <1>5 DEF Init, Inv, Fits

\* Every step preserves the invariant.
LEMMA InvNext == Inv /\ [Next]_vars => Inv'
<1>1. SUFFICES ASSUME Inv, [Next]_vars PROVE Inv'
  OBVIOUS
<1>2. CASE \E o \in Ops : Requests(o) \/ Step(o)
  BY <1>1, <1>2, OperationStep
<1>3. CASE Environment
  <2>1. CASE Surrounding
    BY <1>1, <2>1, SurroundingStep
  <2>2. CASE Shutdown
    BY <1>1, <2>2, ShutdownStep
  <2>3. CASE Stopped \/ Crash
    BY <1>1, <2>3, ForgetStep DEF Stopped, Crash
  <2>4. QED
    BY <1>3, <2>1, <2>2, <2>3 DEF Environment, Surrounding
<1>4. CASE UNCHANGED vars
  BY <1>1, <1>4 DEF Inv, Typed, OneAtATime, Hidden, vars
<1>5. QED
  BY <1>1, <1>2, <1>3, <1>4 DEF Next

\* The inductive invariant holds in every state of every behaviour.
THEOREM InvHolds == Spec => []Inv
BY InvInit, InvNext, PTL DEF Spec

\* The variables keep their types: the steps of every operation remain those of the
\* handlers and tasks, and the attempts of a provision stay within their budget.
THEOREM TypesHold == Spec => []TypeOK
<1>1. Inv => TypeOK
  <2>1. SUFFICES ASSUME Inv PROVE TypeOK
    OBVIOUS
  <2>2. Typed /\ op \in [Ops -> OpRecord]
    BY <2>1 DEF Inv, Typed, Good
  <2>3. {pending, remote, initiated} \subseteq BOOLEAN
    BY <2>2 DEF Typed
  <2>4. QED
    BY <2>2, <2>3 DEF Typed, TypeOK, OpRecord, PCs
<1>2. QED
  BY <1>1, InvHolds, PTL

\* HostLifecycleCoordinator: at most one operation has the host, whatever is refused,
\* cancelled before or after its start, ends or crashes, and a lease that is held belongs
\* to an operation that still has its release ahead.
THEOREM OneOperation == Spec => []OneAtATime
BY InvHolds, PTL DEF Inv

\* A host whose engine is being replaced is never advertised as healthy: no other request,
\* late write, lease adoption or restart brings the record back.
THEOREM DisturbedHidden == Spec => []DisturbedNotHealthy
<1>1. Inv => DisturbedNotHealthy
  BY DEF Inv, Hidden, Disturbing, DisturbedNotHealthy
<1>2. QED
  BY <1>1, InvHolds, PTL

\* What is left in etcd has the lease that fits it: RELAUNCHING expires with its lease, and
\* what an operator has to act on stays.
THEOREM LeasesFit == Spec => []LeaseFitsStatus
<1>1. Inv => LeaseFitsStatus
  BY DEF Inv, Fits, LeaseFitsStatus
<1>2. QED
  BY <1>1, InvHolds, PTL
=============================================================================
