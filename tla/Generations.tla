---------------------------- MODULE Generations ----------------------------
(***************************************************************************)
(* The engine generations of one host (common/generations.py and           *)
(* llamacpp_artifacts.py, with the setup scripts that call them): bundles  *)
(* and runtimes are published, joined to a generation, and selected by the *)
(* links current and previous; a rollback is journaled.                    *)
(*                                                                         *)
(* Processes may end at any step, and the host may lose power: of the      *)
(* entries of a directory that was not synchronised since, each may be the *)
(* old or the new one.  File contents are flushed before the rename or the *)
(* manifest that makes them count, so an entry that is there is whole.     *)
(***************************************************************************)
EXTENDS Naturals, FiniteSets

CONSTANTS
    Bundles,     \* the setup bundles, by digest
    Runtimes,    \* the installations, by identity
    Plans,       \* bound: the generations that are set up
    Fragile,     \* bound: the bundles and runtimes that may be damaged
    MaxFaults,   \* bound: processes that end early, power losses and damages
    None         \* no generation, no journal, no process

Setup == "setup"       \* setup.sh of a provisioning, one at a time on a host
Upload == "upload"     \* any other operation that uploads a bundle
Rollback == "rollback" \* an administrator's rollback
Procs == {Setup, Upload, Rollback}
Items == Bundles \cup Runtimes

ASSUME GenerationsAssumption ==
    /\ Plans \subseteq [bundle : Bundles, runtime : Runtimes]
    /\ Fragile \subseteq Items
    /\ Bundles \cap Runtimes = {}
    /\ MaxFaults \in Nat
    /\ None \notin Plans /\ None \notin Procs
    /\ None \notin [target : Plans, previous : Plans]

VARIABLES
    engine,    \* the engine of this root: how its runtimes are installed
    store,     \* the published bundles and the runtimes
    gens,      \* the directories under generations/
    links,     \* current and previous
    journal,   \* ROLLBACK.json
    disk,      \* what a power loss leaves of those
    pc,        \* where each process is
    plan,      \* what each process sets up or uploads
    item,      \* what it is publishing
    publock,   \* who holds the publication lock of the bundles and of the runtimes
    lock,      \* who holds the activation lock
    resolved,  \* the generation the last launch resolved
    hurt,      \* what was ever damaged
    loose,     \* what a process that ended left without synchronising it
    torn,      \* a power loss kept one of the root's entries and lost another
    faults     \* how many there were

vars == <<engine, store, gens, links, journal, disk, pc, plan, item, publock, lock,
          resolved, hurt, loose, torn, faults>>

Names == {"current", "previous"}
Journals == [target : Plans, previous : Plans]
Contents == {"absent", "partial", "whole", "damaged"}

Init ==
    /\ engine \in {"vllm", "llama_cpp"}
    /\ store = [i \in Items |-> "absent"]
    /\ gens = {}
    /\ links = [n \in Names |-> None]
    /\ journal = None
    /\ disk = [store |-> store, gens |-> gens, links |-> links, journal |-> journal]
    /\ pc = [p \in Procs |-> "idle"]
    /\ plan = [p \in Procs |-> None]
    /\ item = [p \in Procs |-> None]
    /\ publock = [k \in {"bundles", "runtimes"} |-> None]
    /\ lock = None
    /\ resolved = None
    /\ hurt = {}
    /\ loose = {}
    /\ torn = FALSE
    /\ faults = 0

(***************************************************************************)
(* Steps of a process                                                      *)
(***************************************************************************)
Go(p, to) == pc' = [pc EXCEPT ![p] = to]

\* What a process leaves when it ends, by an error too: flock goes with it.
Without(holder, p) == IF holder = p THEN None ELSE holder

Stop(p) ==
    /\ pc' = [pc EXCEPT ![p] = "idle"]
    /\ plan' = [plan EXCEPT ![p] = None]
    /\ item' = [item EXCEPT ![p] = None]
    /\ lock' = Without(lock, p)
    /\ publock' = [k \in DOMAIN publock |-> Without(publock[k], p)]

files == <<store, gens, links, journal>>
jobs == <<plan, item, publock, lock>>
history == <<hurt, loose, torn, faults>>

BundleVerified(b) == store[b] = "whole"
RuntimeVerified(r) == store[r] = "whole"

\* evidence of a generation that can be launched
Evidence(g) == g \in gens /\ BundleVerified(g.bundle) /\ RuntimeVerified(g.runtime)

(***************************************************************************)
(* Publication                                                             *)
(***************************************************************************)
Shelf(i) == IF i \in Bundles THEN "bundles" ELSE "runtimes"

\* The complete bundle has been uploaded beside the published ones.
Begin(p, g) ==
    /\ pc[p] = "idle"
    /\ plan' = [plan EXCEPT ![p] = g]
    /\ item' = [item EXCEPT ![p] = g.bundle]
    /\ Go(p, "publish")
    /\ UNCHANGED <<engine, files, disk, publock, lock, resolved, history>>

\* publish_directory: a verified final directory is kept, a damaged one is moved
\* away, and the verified copy takes its place.
Compare(p) ==
    LET i == item[p] IN
    /\ pc[p] = "publish" /\ publock[Shelf(i)] = None
    /\ publock' = [publock EXCEPT ![Shelf(i)] = p]
    /\ \/ store[i] = "whole" /\ Go(p, "shelved") /\ UNCHANGED store
       \/ store[i] = "absent" /\ Go(p, "move") /\ UNCHANGED store
       \/ /\ store[i] \in {"damaged", "partial"}
          /\ store' = [store EXCEPT ![i] = "absent"]
          /\ Go(p, "quarantined")
    /\ UNCHANGED <<engine, gens, links, journal, disk, plan, item, lock, resolved, history>>

\* Mutant: what is moved into place was not verified before.
MovedUnverified == "partial"

\* The staged directory was verified when it was flushed.
Moved == "whole"

MoveIntoPlace(p) ==
    /\ pc[p] = "move"
    /\ store' = [store EXCEPT ![item[p]] = Moved]
    /\ Go(p, "shelved")
    /\ UNCHANGED <<engine, gens, links, journal, disk, jobs, resolved, history>>

\* The directory of the shelf is synchronised, and the lock is left.
SyncShelf(p) ==
    LET i == item[p] IN
    /\ pc[p] \in {"quarantined", "shelved"}
    /\ disk' = [disk EXCEPT !.store = [j \in Items |-> IF Shelf(j) = Shelf(i) THEN store[j] ELSE @[j]]]
    /\ \/ pc[p] = "quarantined" /\ Go(p, "move") /\ UNCHANGED <<plan, item, publock, lock>>
       \/ pc[p] = "shelved" /\ p = Upload /\ Stop(p)
       \/ /\ pc[p] = "shelved" /\ p = Setup
          /\ publock' = [publock EXCEPT ![Shelf(i)] = None]
          /\ IF i \in Bundles THEN Go(p, "install") /\ item' = [item EXCEPT ![p] = plan[p].runtime]
                              ELSE Go(p, "bundle") /\ UNCHANGED item
          /\ UNCHANGED <<plan, lock>>
    /\ UNCHANGED <<engine, files, resolved, history>>

(***************************************************************************)
(* The runtime                                                             *)
(***************************************************************************)
\* Mutant: a runtime is inactive when current does not use it.
InactiveNow(r) == links["current"] = None \/ links["current"].runtime # r

\* No generation, selected or kept, refers to the runtime.
Inactive(r) == \A g \in gens : g.runtime # r

\* A sealed runtime that verifies is taken as it is; a llama.cpp one must also hold
\* exactly the files of its package.
Installed(r) == store[r] = "whole"

\* A sealed vLLM runtime is verified and never changed; otherwise it is installed at
\* its final path, where only an inactive one may be.  A llama.cpp runtime that does
\* not verify is built or unpacked beside its final path, and then published.
Install(p) ==
    LET r == plan[p].runtime IN
    /\ pc[p] = "install"
    /\ \/ Installed(r) /\ Go(p, "bundle") /\ UNCHANGED <<store, jobs>>
       \/ engine = "vllm" /\ store[r] = "damaged" /\ Stop(p) /\ UNCHANGED store
       \/ /\ engine = "vllm" /\ store[r] \in {"absent", "partial"}
          /\ IF store[r] = "absent" \/ Inactive(r)
             THEN store' = [store EXCEPT ![r] = "partial"] /\ Go(p, "seal") /\ UNCHANGED jobs
             ELSE Stop(p) /\ UNCHANGED store
       \/ /\ engine = "llama_cpp" /\ ~Installed(r)
          /\ IF store[r] = "absent" \/ Inactive(r)
             THEN Go(p, "publish") /\ UNCHANGED jobs
             ELSE Stop(p)
          /\ UNCHANGED store
    /\ UNCHANGED <<engine, gens, links, journal, disk, resolved, history>>

\* seal_runtime flushes what was installed and then writes the manifest.
Seal(p) ==
    /\ pc[p] = "seal"
    /\ store' = [store EXCEPT ![plan[p].runtime] = "whole"]
    /\ Go(p, "sealed")
    /\ UNCHANGED <<engine, gens, links, journal, disk, jobs, resolved, history>>

SyncSeal(p) ==
    /\ pc[p] = "sealed"
    /\ disk' = [disk EXCEPT !.store[plan[p].runtime] = store[plan[p].runtime]]
    /\ Go(p, "bundle")
    /\ UNCHANGED <<engine, files, jobs, resolved, history>>

(***************************************************************************)
(* Activation, at the end of a setup, and rollback                         *)
(***************************************************************************)
\* Setup of g begins with the upload of its bundle; an upload may also come alone.
StartSetup(g) == Begin(Setup, g)
StartUpload(g) == Begin(Upload, g)

StartRollback ==
    /\ pc[Rollback] = "idle"
    /\ Go(Rollback, "lock")
    /\ UNCHANGED <<engine, files, disk, jobs, resolved, history>>

\* setup_bundle: the uploaded bundle that setup runs from is verified again.
SetupBundle(p) ==
    /\ pc[p] = "bundle"
    /\ IF BundleVerified(plan[p].bundle) THEN Go(p, "verify") /\ UNCHANGED jobs ELSE Stop(p)
    /\ UNCHANGED <<engine, files, disk, resolved, history>>

\* activate verifies the bundle and the runtime before it waits for the lock.
Verify(p) ==
    /\ pc[p] = "verify"
    /\ IF BundleVerified(plan[p].bundle) /\ RuntimeVerified(plan[p].runtime)
       THEN Go(p, "lock") /\ UNCHANGED jobs ELSE Stop(p)
    /\ UNCHANGED <<engine, files, disk, resolved, history>>

\* A journaled rollback is finished before anything else.
Acquire(p) ==
    /\ pc[p] = "lock" /\ lock = None
    /\ lock' = p
    /\ Go(p, IF journal # None THEN "finish" ELSE IF p = Setup THEN "generation" ELSE "target")
    /\ UNCHANGED <<engine, files, disk, plan, item, publock, resolved, history>>

MakeGeneration(p) ==
    /\ pc[p] = "generation"
    /\ gens' = gens \cup {plan[p]}
    /\ Go(p, IF plan[p] \in gens THEN "evidence" ELSE "gsync")
    /\ UNCHANGED <<engine, store, links, journal, disk, jobs, resolved, history>>

SyncGenerations(p) ==
    /\ pc[p] = "gsync"
    /\ disk' = [disk EXCEPT !.gens = gens]
    /\ Go(p, "evidence")
    /\ UNCHANGED <<engine, files, jobs, resolved, history>>

CheckGeneration(p) ==
    /\ pc[p] = "evidence"
    /\ IF Evidence(plan[p]) THEN Go(p, "previous") /\ UNCHANGED jobs ELSE Stop(p)
    /\ UNCHANGED <<engine, files, disk, resolved, history>>

\* atomic_link of one name, up to its rename; next is where the process goes.
Link(p, name, g, next) ==
    /\ links' = [links EXCEPT ![name] = g]
    /\ Go(p, next)
    /\ UNCHANGED <<engine, store, gens, journal, disk, jobs, resolved, history>>

\* Mutant: the rollback pointer is left to be written after the commit.
LinkPreviousLater(p) ==
    /\ pc[p] = "previous"
    /\ Link(p, "current", plan[p], "psync")

\* The rollback pointer first, when another generation is selected.
LinkPrevious(p) ==
    /\ pc[p] = "previous"
    /\ IF links["current"] \in gens \ {plan[p]}
       THEN Link(p, "previous", links["current"], "psync")
       ELSE Link(p, "previous", links["previous"], "current")

LinkCurrent(p) == pc[p] = "current" /\ Link(p, "current", plan[p], "csync")

\* rollback: previous must be a whole generation, and current must resolve.
WriteJournal(p) ==
    LET target == links["previous"] IN
    /\ pc[p] = "target"
    /\ IF target # None /\ Evidence(target) /\ links["current"] \in gens
       THEN /\ journal' = [target |-> target, previous |-> links["current"]]
            /\ Go(p, "jsync")
            /\ UNCHANGED jobs
       ELSE Stop(p) /\ UNCHANGED journal
    /\ UNCHANGED <<engine, store, gens, links, disk, resolved, history>>

\* finish_rollback
CheckTarget(p) ==
    /\ pc[p] = "finish"
    /\ IF Evidence(journal.target) THEN Go(p, "fprev") /\ UNCHANGED jobs ELSE Stop(p)
    /\ UNCHANGED <<engine, files, disk, resolved, history>>

ReplayPrevious(p) == pc[p] = "fprev" /\ Link(p, "previous", journal.previous, "fpsync")
ReplayCurrent(p) == pc[p] = "fcur" /\ Link(p, "current", journal.target, "fcsync")

Unlink(p) ==
    /\ pc[p] = "unlink"
    /\ journal' = None
    /\ Go(p, "fsync")
    /\ UNCHANGED <<engine, store, gens, links, disk, jobs, resolved, history>>

\* sync_directory of the root, after each rename or unlink in it; the last one
\* of a setup or of a rollback leaves the lock.
AfterSync == [psync |-> "current", jsync |-> "finish", fpsync |-> "fcur", fcsync |-> "unlink",
              fsync |-> "generation", csync |-> "idle"]

SyncRoot(p) ==
    /\ pc[p] \in DOMAIN AfterSync
    /\ disk' = [disk EXCEPT !.links = links, !.journal = journal]
    /\ IF pc[p] = "csync" \/ (pc[p] = "fsync" /\ p = Rollback)
       THEN Stop(p)
       ELSE Go(p, AfterSync[pc[p]]) /\ UNCHANGED jobs
    /\ UNCHANGED <<engine, files, resolved, history>>

(***************************************************************************)
(* Launches and faults                                                     *)
(***************************************************************************)
\* launch reads current once, and runs what it resolved to if it verifies.
Launch ==
    /\ links["current"] # None /\ Evidence(links["current"])
    /\ resolved' = links["current"]
    /\ UNCHANGED <<engine, files, disk, pc, jobs, history>>

\* What process p has renamed into place and not synchronised, and that nobody
\* synchronises later: another setup finds it there and goes on.
LeftLoose(p) ==
    IF pc[p] = "gsync" THEN {plan[p]}
    ELSE IF pc[p] = "sealed" \/ (pc[p] = "shelved" /\ item[p] \in Runtimes) THEN {plan[p].runtime}
    ELSE {}

Fault == faults < MaxFaults /\ faults' = faults + 1

\* A process is killed, or a call of its fails.
Kill(p) ==
    /\ pc[p] # "idle" /\ Fault
    /\ Stop(p)
    /\ loose' = loose \cup LeftLoose(p)
    /\ UNCHANGED <<engine, files, disk, resolved, hurt, torn>>

\* Of what was not synchronised each entry is lost or kept.
PowerLoss ==
    /\ Fault
    /\ \E lost \in SUBSET {i \in Items : store[i] # disk.store[i]},
         old \in SUBSET {n \in Names : links[n] # disk.links[n]},
         g \in {disk.gens \cup kept : kept \in SUBSET gens}, j \in {journal, disk.journal} :
         /\ store' = [i \in Items |-> IF i \in lost THEN disk.store[i] ELSE store[i]]
         /\ links' = [n \in Names |-> IF n \in old THEN disk.links[n] ELSE links[n]]
         /\ gens' = g
         /\ journal' = j
    /\ disk' = [store |-> store', gens |-> gens', links |-> links', journal |-> journal']
    /\ pc' = [p \in Procs |-> "idle"]
    /\ plan' = [p \in Procs |-> None]
    /\ item' = [p \in Procs |-> None]
    /\ publock' = [k \in DOMAIN publock |-> None]
    /\ lock' = None
    /\ resolved' = None
    /\ torn' = (torn \/ <<links', journal'>> \notin {<<links, journal>>, <<disk.links, disk.journal>>})
    /\ UNCHANGED <<engine, hurt, loose>>

\* Published content is damaged outside this protocol.
Damage(i) ==
    /\ Fault /\ i \in Fragile /\ store[i] = "whole" /\ disk.store[i] = "whole"
    /\ store' = [store EXCEPT ![i] = "damaged"]
    /\ disk' = [disk EXCEPT !.store[i] = "damaged"]
    /\ hurt' = hurt \cup {i}
    /\ UNCHANGED <<engine, gens, links, journal, pc, jobs, resolved, loose, torn>>

Next ==
    \/ \E g \in Plans : StartSetup(g) \/ StartUpload(g)
    \/ StartRollback
    \/ \E p \in Procs :
        \/ Compare(p) \/ MoveIntoPlace(p) \/ SyncShelf(p)
        \/ Install(p) \/ Seal(p) \/ SyncSeal(p)
        \/ SetupBundle(p) \/ Verify(p) \/ Acquire(p) \/ MakeGeneration(p) \/ SyncGenerations(p)
        \/ CheckGeneration(p) \/ LinkPrevious(p) \/ LinkCurrent(p)
        \/ WriteJournal(p) \/ CheckTarget(p) \/ ReplayPrevious(p) \/ ReplayCurrent(p)
        \/ Unlink(p) \/ SyncRoot(p) \/ Kill(p)
    \/ Launch \/ PowerLoss
    \/ \E i \in Fragile : Damage(i)

Spec == Init /\ [][Next]_vars

(***************************************************************************)
(* Properties                                                              *)
(***************************************************************************)
PCs == DOMAIN AfterSync \cup
       {"idle", "publish", "quarantined", "move", "shelved", "install", "seal", "sealed",
        "bundle", "verify", "lock", "generation", "gsync", "evidence", "previous", "current",
        "target", "finish", "fprev", "fcur", "unlink"}

\* Types, locks held by processes at work, and what is only ever published whole:
\* a bundle, or a llama.cpp runtime, is never found half copied at its final path
\* (publish_directory), whoever ends when.
TypeOK ==
    /\ store \in [Items -> Contents] /\ gens \subseteq Plans
    /\ links \in [Names -> Plans \cup {None}] /\ journal \in Journals \cup {None}
    /\ pc \in [Procs -> PCs] /\ plan \in [Procs -> Plans \cup {None}]
    /\ item \in [Procs -> Items \cup {None}]
    /\ lock \in Procs \cup {None} /\ resolved \in Plans \cup {None}
    /\ \A p \in Procs : p = lock \/ (\E k \in DOMAIN publock : p = publock[k]) => pc[p] # "idle"
    /\ \A i \in Items : i \in Bundles \/ engine = "llama_cpp" => store[i] # "partial"

Selected == ({links["current"], links["previous"], resolved} \ {None}) \cup
            (IF journal = None THEN {} ELSE {journal.target, journal.previous})

\* What a launch, a rollback or the replay of a journal may select is there and
\* whole, whatever ended when and also after a power loss: a runtime that any kept
\* generation uses is never replaced, a bundle only when it was found damaged, and
\* a link never precedes what it leads to (activate, publish_directory,
\* qiip_require_inactive_runtime).  It does not hold of what an ended process left
\* unsynchronised: a later setup takes that as done.
SelectionWhole ==
    \A g \in Selected \ loose :
        /\ g \in gens
        /\ store[g.bundle] = "whole" \/ g.bundle \in hurt
        /\ \/ store[g.runtime] = "whole" \/ g.runtime \in loose
           \/ store[g.runtime] = "damaged" /\ g.runtime \in hurt

\* The selection is switched without losing the way back: when current moves to
\* another generation, previous already leads to the one it leaves; while a rollback
\* is journaled current moves only to its target; and the journal goes once both
\* links are what it says (activate, finish_rollback).  It is not said after a power
\* loss between the writes of one process and the sync of the next, which may keep the
\* later of two entries and lose the earlier.
SwitchKeepsBoth ==
    [][lock' # None /\ ~torn =>
        /\ links'["current"] # links["current"] =>
             /\ links["current"] \in gens => links["previous"] = links["current"]
             /\ journal # None => links'["current"] = journal.target
        /\ journal # None /\ journal' = None =>
             links = [current |-> journal.target, previous |-> journal.previous]]_vars
====
