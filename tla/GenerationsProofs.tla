------------------------- MODULE GenerationsProofs -------------------------
(***************************************************************************)
(* Proofs about Generations: the types and locks, that what can be         *)
(* selected is whole, and that a switch of the selection keeps the way     *)
(* back, for all bundles, runtimes and plans and any number of faults.     *)
(***************************************************************************)
EXTENDS Generations, TLAPS

(***************************************************************************)
(* Types and locks                                                         *)
(***************************************************************************)
Shelves == {"bundles", "runtimes"}
Publishing == {"quarantined", "move", "shelved"}
Syncing == {"psync", "jsync", "fpsync", "fcsync", "fsync", "csync"}
Replaying == {"finish", "fprev", "fpsync", "fcur", "fcsync", "unlink"}
Switching == {"generation", "gsync", "evidence", "previous", "psync", "current", "csync"}
Locked == Syncing \cup Replaying \cup Switching \cup {"target"}

Disks == [store : [Items -> Contents], gens : SUBSET Plans,
          links : [Names -> Plans \cup {None}], journal : Journals \cup {None}]

\* The types of all variables.
Typed ==
    /\ store \in [Items -> Contents] /\ gens \subseteq Plans
    /\ links \in [Names -> Plans \cup {None}] /\ journal \in Journals \cup {None}
    /\ disk \in Disks
    /\ pc \in [Procs -> PCs] /\ plan \in [Procs -> Plans \cup {None}]
    /\ item \in [Procs -> Items \cup {None}]
    /\ publock \in [Shelves -> Procs \cup {None}]
    /\ lock \in Procs \cup {None} /\ resolved \in Plans \cup {None}

\* Where each process can be, and what it then works on.
Placed ==
    /\ pc[Upload] \in {"idle", "publish"} \cup Publishing
    /\ pc[Rollback] \in {"idle", "lock", "target", "jsync", "fsync"} \cup Replaying
    /\ \A p \in {Setup, Upload} : pc[p] # "idle" =>
          plan[p] \in Plans /\ item[p] \in {plan[p].bundle, plan[p].runtime}
    /\ pc[Upload] # "idle" => item[Upload] = plan[Upload].bundle

\* A lock is held by a process in the part of its work that the lock protects.
Locks ==
    /\ \A p \in Procs : lock = p <=> pc[p] \in Locked
    /\ \A p \in Procs, k \in Shelves : publock[k] = p => pc[p] \in Publishing /\ Shelf(item[p]) = k

\* Only a vLLM runtime is ever found half installed.
Unsplit == \A i \in Items : i \in Bundles \/ engine = "llama_cpp" =>
              store[i] # "partial" /\ disk.store[i] # "partial"

\* A rollback is finished while its journal is there, and the selection is switched
\* by a setup while there is none.
Replays == Replaying \cup {"jsync"}
Switches == Switching \cup {"fsync"}
Journaled ==
    \A p \in Procs :
        /\ pc[p] \in Replays => journal # None
        /\ pc[p] \in Switches => journal = None

Base == Typed /\ Placed /\ Locks /\ Unsplit /\ Journaled

\* The steps that synchronise the root, and where each leads.
LEMMA AfterSyncIs ==
    /\ DOMAIN AfterSync = Syncing
    /\ AfterSync["psync"] = "current" /\ AfterSync["jsync"] = "finish"
    /\ AfterSync["fpsync"] = "fcur" /\ AfterSync["fcsync"] = "unlink"
    /\ AfterSync["fsync"] = "generation" /\ AfterSync["csync"] = "idle"
BY DEF AfterSync, Syncing

\* Every program counter is in a part of the work that holds the activation lock, in
\* one that holds a publication lock, or in neither.
LEMMA PCsAre == PCs = Locked \cup Publishing \cup
                      {"idle", "publish", "install", "seal", "sealed", "bundle", "verify", "lock"}
BY AfterSyncIs DEF PCs, Locked, Publishing, Syncing, Replaying, Switching

\* The types, places, locks and journal are right when nothing has begun.
LEMMA BaseInit == Init => Base
BY GenerationsAssumption, PCsAre DEF Init, Base, Typed, Placed, Locks, Unsplit, Journaled,
   Replays, Switches, Disks, Journals, Contents, Shelves, Names, Locked, Publishing, Syncing,
   Replaying, Switching, Procs, Setup, Upload, Rollback, Items

\* The part of the types and locks that a step of a process may change.
JobsTyped ==
    /\ pc \in [Procs -> PCs] /\ plan \in [Procs -> Plans \cup {None}]
    /\ item \in [Procs -> Items \cup {None}]
    /\ publock \in [Shelves -> Procs \cup {None}]
    /\ lock \in Procs \cup {None}

JobsOK == JobsTyped /\ Placed /\ Locks

FilesOK ==
    /\ store \in [Items -> Contents] /\ gens \subseteq Plans
    /\ links \in [Names -> Plans \cup {None}] /\ journal \in Journals \cup {None}
    /\ disk \in Disks /\ resolved \in Plans \cup {None}
    /\ Unsplit

\* The invariant splits into what processes and what files have.
LEMMA BaseParts == Base <=> JobsOK /\ FilesOK /\ Journaled
BY DEF Base, Typed, JobsOK, JobsTyped, FilesOK

\* The same of the next state.
LEMMA BasePartsNext == JobsOK' /\ FilesOK' /\ Journaled' => Base'
BY DEF Base, Typed, JobsOK, JobsTyped, FilesOK

USE DEF Setup, Upload, Rollback, Procs, Shelves

\* A process that ends leaves all its locks.
LEMMA StopJobs ==
    ASSUME Base, NEW p \in Procs, Stop(p)
    PROVE  JobsOK'
  <1> USE GenerationsAssumption, PCsAre DEF Base, Typed, Stop, Without
  <1>1. JobsTyped'
    BY DEF JobsTyped, Locked, Switching, Syncing, Replaying, Publishing
  <1>2. Placed'
    BY DEF Placed, Publishing, Replaying
  <1>3. Locks'
    BY DEF Locks, Locked, Syncing, Replaying, Switching, Publishing
  <1> QED
    BY <1>1, <1>2, <1>3 DEF JobsOK

\* A process that goes on within the same protected part keeps the locks.
LEMMA GoJobs ==
    ASSUME Base, NEW p \in Procs, NEW to \in PCs, Go(p, to), UNCHANGED jobs,
           to # "idle", pc[p] # "idle",
           to \in Locked <=> pc[p] \in Locked,
           pc[p] \in Publishing => to \in Publishing,
           p = Upload => to \in {"publish"} \cup Publishing,
           p = Rollback => to \in {"lock", "target", "jsync", "fsync"} \cup Replaying
    PROVE  JobsOK'
  <1> USE GenerationsAssumption, PCsAre DEF Base, Typed, Go, jobs
  <1>1. JobsTyped'
    BY DEF JobsTyped
  <1>2. Placed'
    BY DEF Placed
  <1>3. Locks'
    BY DEF Locks
  <1> QED
    BY <1>1, <1>2, <1>3 DEF JobsOK

\* Whoever writes or removes the journal holds the lock.
LEMMA JournaledNext == Base /\ [Next]_vars => Journaled'
  <1> SUFFICES ASSUME Base, [Next]_vars PROVE Journaled'
    OBVIOUS
  <1> USE GenerationsAssumption, PCsAre
      DEF Replays, Switches, Locked, Publishing, Replaying, Switching, Syncing
  <1>a. /\ Journaled
        /\ pc \in [Procs -> PCs]
        /\ \A p, q \in Procs : pc[p] \in Locked /\ pc[q] \in Locked => p = q
    BY DEF Base, Typed, Locks
  <1>s. ASSUME NEW p \in Procs, Stop(p), journal' = journal PROVE Journaled'
    BY <1>a, <1>s DEF Stop, Journaled
  <1>g. ASSUME NEW p \in Procs, NEW to \in PCs, Go(p, to), journal' = journal,
               to \in Replays => pc[p] \in Replays \/ journal # None,
               to \in Switches => pc[p] \in Switches \/ journal = None
        PROVE  Journaled'
    BY <1>a, <1>g DEF Go, Journaled
  <1>1. ASSUME NEW g \in Plans, StartSetup(g) \/ StartUpload(g) PROVE Journaled'
    BY <1>1, <1>g DEF StartSetup, StartUpload, Begin, files
  <1>2. CASE StartRollback
    BY <1>2, <1>g DEF StartRollback, files
  <1>3. ASSUME NEW p \in Procs, Compare(p) \/ MoveIntoPlace(p) \/ SyncShelf(p) PROVE Journaled'
    BY <1>3, <1>g, <1>s DEF Compare, MoveIntoPlace, SyncShelf, files
  <1>4. ASSUME NEW p \in Procs, Install(p) \/ Seal(p) \/ SyncSeal(p) PROVE Journaled'
    BY <1>4, <1>g, <1>s DEF Install, Seal, SyncSeal, files
  <1>5. ASSUME NEW p \in Procs, SetupBundle(p) \/ Verify(p) \/ Acquire(p) PROVE Journaled'
    BY <1>5, <1>g, <1>s DEF SetupBundle, Verify, Acquire, files
  <1>6. ASSUME NEW p \in Procs, MakeGeneration(p) \/ SyncGenerations(p) \/ CheckGeneration(p)
        PROVE  Journaled'
    BY <1>6, <1>g, <1>s DEF MakeGeneration, SyncGenerations, CheckGeneration, files
  <1>7. ASSUME NEW p \in Procs, LinkPrevious(p) \/ LinkCurrent(p) PROVE Journaled'
    BY <1>7, <1>g DEF LinkPrevious, LinkCurrent, Link
  <1>8. ASSUME NEW p \in Procs, CheckTarget(p) \/ ReplayPrevious(p) \/ ReplayCurrent(p)
        PROVE  Journaled'
    BY <1>8, <1>g, <1>s DEF CheckTarget, ReplayPrevious, ReplayCurrent, Link, files
  <1>9. ASSUME NEW p \in Procs, WriteJournal(p) PROVE Journaled'
    <2>1. CASE Stop(p) /\ UNCHANGED journal
      BY <2>1, <1>s
    <2>2. CASE journal' = [target |-> links["previous"], previous |-> links["current"]] /\ Go(p, "jsync")
      <3>1. journal' # None
        <4>1. /\ links["previous"] \in gens /\ links["current"] \in gens
              /\ gens \subseteq Plans
          BY <1>9, <2>2 DEF WriteJournal, Evidence, Base, Typed, Go, Stop
        <4> QED
          BY <4>1, <2>2
      <3> QED
        BY <1>a, <1>9, <2>2, <3>1 DEF WriteJournal, Go, Journaled
    <2> QED
      BY <1>9, <2>1, <2>2 DEF WriteJournal
  <1>10. ASSUME NEW p \in Procs, Unlink(p) PROVE Journaled'
    BY <1>10, <1>a DEF Unlink, Go, Journaled
  <1>11. ASSUME NEW p \in Procs, SyncRoot(p) PROVE Journaled'
    BY <1>11, <1>g, <1>s, AfterSyncIs DEF SyncRoot, files
  <1>12. ASSUME NEW p \in Procs, Kill(p) PROVE Journaled'
    BY <1>12, <1>s DEF Kill, files
  <1>13. CASE Launch \/ UNCHANGED vars \/ \E i \in Fragile : Damage(i)
    BY <1>13, <1>a DEF Launch, Damage, vars, Journaled, files
  <1>14. CASE PowerLoss
    BY <1>14 DEF PowerLoss, Journaled
  <1> QED
    BY <1>1, <1>2, <1>3, <1>4, <1>5, <1>6, <1>7, <1>8, <1>9, <1>10, <1>11, <1>12, <1>13, <1>14
       DEF Next

\* Every step keeps types, places, locks and journal.
LEMMA BaseNext == Base /\ [Next]_vars => Base'
  <1> SUFFICES ASSUME Base, [Next]_vars PROVE Base'
    OBVIOUS
  <1> USE GenerationsAssumption, PCsAre
  <1>a. JobsOK /\ FilesOK
    BY BaseParts
  <1>b. Journaled'
    BY JournaledNext
  <1>f. ASSUME UNCHANGED <<engine, files, disk, resolved>> PROVE FilesOK'
    BY <1>a, <1>f DEF FilesOK, files, Unsplit
  <1>j. ASSUME UNCHANGED <<pc, jobs>> PROVE JobsOK'
    BY <1>a, <1>j DEF JobsOK, JobsTyped, Placed, Locks, jobs
  <1>1. ASSUME NEW g \in Plans, StartSetup(g) \/ StartUpload(g) PROVE Base'
    <2>1. FilesOK'
      BY <1>1, <1>f DEF StartSetup, StartUpload, Begin
    <2>2. PICK p \in {Setup, Upload} : Begin(p, g)
      BY <1>1 DEF StartSetup, StartUpload
    <2>3. JobsTyped'
      BY <2>2 DEF Begin, Go, Base, Typed, JobsTyped, Items
    <2>4. Placed'
      BY <2>2 DEF Begin, Go, Base, Typed, Placed, Publishing, Replaying
    <2>5. Locks'
      BY <2>2 DEF Begin, Go, Base, Typed, Locks, Locked, Publishing, Replaying, Switching, Syncing
    <2> QED
      BY <2>1, <2>3, <2>4, <2>5, <1>b, BasePartsNext DEF JobsOK
  <1>2. CASE StartRollback
    <2>1. FilesOK'
      BY <1>2, <1>f DEF StartRollback
    <2>3. JobsTyped'
      BY <1>2 DEF StartRollback, Go, Base, Typed, JobsTyped, jobs
    <2>4. Placed'
      BY <1>2 DEF StartRollback, Go, Base, Typed, Placed, Publishing, Replaying, jobs
    <2>5. Locks'
      BY <1>2 DEF StartRollback, Go, Base, Typed, Locks, Locked, Publishing, Replaying, Switching,
         Syncing, jobs
    <2> QED
      BY <2>1, <2>3, <2>4, <2>5, <1>b, BasePartsNext DEF JobsOK
  <1>3. ASSUME NEW p \in Procs, Compare(p) PROVE Base'
    <2>1. FilesOK'
      BY <1>a, <1>3 DEF FilesOK, Compare, Unsplit, Contents
    <2>2. item[p] \in Items /\ p # Rollback /\ Shelf(item[p]) \in Shelves
      BY <1>3 DEF Compare, Base, Typed, Placed, Publishing, Replaying, Shelf, Items
    <2>3. JobsTyped'
      BY <2>2, <1>3 DEF Compare, Go, Base, Typed, JobsTyped, Locked, Switching, Syncing,
         Replaying, Publishing
    <2>4. Placed'
      BY <2>2, <1>3 DEF Compare, Go, Base, Typed, Placed, Publishing, Replaying
    <2>5. Locks'
      BY <2>2, <1>3 DEF Compare, Go, Base, Typed, Locks, Locked, Publishing, Replaying, Switching,
         Syncing
    <2> QED
      BY <2>1, <2>3, <2>4, <2>5, <1>b, BasePartsNext DEF JobsOK
  <1>4. ASSUME NEW p \in Procs, MoveIntoPlace(p) PROVE Base'
    <2>1. FilesOK'
      BY <1>a, <1>4 DEF FilesOK, MoveIntoPlace, Unsplit, Contents, Moved
    <2>2. JobsOK'
      BY <1>4, GoJobs DEF MoveIntoPlace, Locked, Publishing, Replaying, Switching, Syncing,
            Base, Placed
    <2> QED
      BY <2>1, <2>2, <1>b, BasePartsNext
  <1>5. ASSUME NEW p \in Procs, SyncShelf(p) PROVE Base'
    <2>1. FilesOK'
      BY <1>a, <1>5 DEF FilesOK, SyncShelf, Unsplit, Contents, Disks, files
    <2>2. item[p] \in Items /\ p # Rollback /\ Shelf(item[p]) \in Shelves
      BY <1>5 DEF SyncShelf, Base, Typed, Placed, Publishing, Replaying, Shelf, Items
    <2>3. CASE pc[p] = "quarantined"
      BY <2>1, <2>3, <1>5, GoJobs, <1>b, BasePartsNext DEF SyncShelf, Locked, Publishing,
         Replaying, Switching, Syncing, Base, Placed, jobs
    <2>4. CASE p = Upload /\ Stop(p)
      BY <2>1, <2>4, StopJobs, <1>b, BasePartsNext
    <2>5. CASE pc[p] = "shelved" /\ p = Setup
      <3>1. /\ publock' = [publock EXCEPT ![Shelf(item[p])] = None]
            /\ \/ Go(p, "install") /\ item' = [item EXCEPT ![p] = plan[p].runtime]
               \/ Go(p, "bundle") /\ UNCHANGED item
            /\ UNCHANGED <<plan, lock>>
        BY <1>5, <2>5 DEF SyncShelf
      <3>0. plan[p] \in Plans /\ plan[p].runtime \in Items
        BY <2>5 DEF Base, Placed, Items
      <3>3. JobsTyped'
        BY <3>0, <3>1, <2>2 DEF Go, Base, Typed, JobsTyped, Locked, Switching, Syncing, Replaying,
           Publishing
      <3>4. Placed'
        BY <3>0, <3>1, <2>5 DEF Go, Base, Typed, Placed, Publishing, Replaying
      <3>5. Locks'
        BY <3>1, <2>2, <2>5 DEF Go, Base, Typed, Locks, Locked, Publishing, Replaying, Switching,
           Syncing
      <3> QED
        BY <2>1, <3>3, <3>4, <3>5, <1>b, BasePartsNext DEF JobsOK
    <2> QED
      BY <1>5, <2>3, <2>4, <2>5 DEF SyncShelf
  <1>6. ASSUME NEW p \in Procs, Install(p) PROVE Base'
    <2>1. FilesOK'
      BY <1>a, <1>6 DEF Install, FilesOK, Unsplit, Contents, Items, Base, Placed, Publishing,
         Replaying
    <2>2. JobsOK'
      BY <1>6, StopJobs, GoJobs DEF Install, Locked, Publishing, Replaying, Switching, Syncing,
            Base, Placed
    <2> QED
      BY <2>1, <2>2, <1>b, BasePartsNext
  <1>7. ASSUME NEW p \in Procs, Seal(p) PROVE Base'
    <2>1. FilesOK'
      BY <1>a, <1>7 DEF Seal, FilesOK, Unsplit, Contents, Items, Base, Placed, Publishing, Replaying
    <2>2. JobsOK'
      BY <1>7, StopJobs, GoJobs DEF Seal, Locked, Publishing, Replaying, Switching, Syncing,
            Base, Placed
    <2> QED
      BY <2>1, <2>2, <1>b, BasePartsNext
  <1>8. ASSUME NEW p \in Procs, SyncSeal(p) PROVE Base'
    <2>1. FilesOK'
      BY <1>a, <1>8 DEF SyncSeal, FilesOK, Unsplit, Contents, Items, Base, Placed, Publishing,
         Replaying, Disks, files
    <2>2. JobsOK'
      BY <1>8, StopJobs, GoJobs DEF SyncSeal, Locked, Publishing, Replaying, Switching, Syncing,
            Base, Placed
    <2> QED
      BY <2>1, <2>2, <1>b, BasePartsNext
  <1>9. ASSUME NEW p \in Procs, SetupBundle(p) PROVE Base'
    <2>1. FilesOK'
      BY <1>9, <1>f DEF SetupBundle
    <2>2. JobsOK'
      BY <1>9, StopJobs, GoJobs DEF SetupBundle, Locked, Publishing, Replaying, Switching, Syncing,
            Base, Placed
    <2> QED
      BY <2>1, <2>2, <1>b, BasePartsNext
  <1>10. ASSUME NEW p \in Procs, Verify(p) PROVE Base'
    <2>1. FilesOK'
      BY <1>10, <1>f DEF Verify
    <2>2. JobsOK'
      BY <1>10, StopJobs, GoJobs DEF Verify, Locked, Publishing, Replaying, Switching, Syncing,
            Base, Placed
    <2> QED
      BY <2>1, <2>2, <1>b, BasePartsNext
  <1>11. ASSUME NEW p \in Procs, Acquire(p) PROVE Base'
    <2>1. FilesOK'
      BY <1>11, <1>f DEF Acquire
    <2>3. JobsTyped'
      BY <1>11 DEF Acquire, Go, Base, Typed, JobsTyped, Locked, Switching, Syncing, Replaying,
         Publishing
    <2>4. Placed'
      BY <1>11 DEF Acquire, Go, Base, Typed, Placed, Publishing, Replaying
    <2>5. Locks'
      BY <1>11 DEF Acquire, Go, Base, Typed, Locks, Locked, Publishing, Replaying, Switching,
         Syncing
    <2> QED
      BY <2>1, <2>3, <2>4, <2>5, <1>b, BasePartsNext DEF JobsOK
  <1>12. ASSUME NEW p \in Procs, MakeGeneration(p) PROVE Base'
    <2>1. FilesOK'
      BY <1>a, <1>12 DEF MakeGeneration, FilesOK, Unsplit, Base, Placed, Publishing, Replaying
    <2>2. JobsOK'
      BY <1>12, StopJobs, GoJobs DEF MakeGeneration, Locked, Publishing, Replaying, Switching,
         Syncing, Base, Placed
    <2> QED
      BY <2>1, <2>2, <1>b, BasePartsNext
  <1>13. ASSUME NEW p \in Procs, SyncGenerations(p) PROVE Base'
    <2>1. FilesOK'
      BY <1>a, <1>13 DEF SyncGenerations, FilesOK, Unsplit, Disks, files
    <2>2. JobsOK'
      BY <1>13, StopJobs, GoJobs DEF SyncGenerations, Locked, Publishing, Replaying, Switching,
         Syncing, Base, Placed
    <2> QED
      BY <2>1, <2>2, <1>b, BasePartsNext
  <1>14. ASSUME NEW p \in Procs, CheckGeneration(p) PROVE Base'
    <2>1. FilesOK'
      BY <1>14, <1>f DEF CheckGeneration
    <2>2. JobsOK'
      BY <1>14, StopJobs, GoJobs DEF CheckGeneration, Locked, Publishing, Replaying, Switching,
         Syncing, Base, Placed
    <2> QED
      BY <2>1, <2>2, <1>b, BasePartsNext
  <1>15. ASSUME NEW p \in Procs, LinkPrevious(p) PROVE Base'
    <2>1. FilesOK'
      BY <1>a, <1>15 DEF LinkPrevious, FilesOK, Unsplit, Link, Names
    <2>2. JobsOK'
      BY <1>15, StopJobs, GoJobs DEF LinkPrevious, Locked, Publishing, Replaying, Switching,
         Syncing, Base, Placed, Link
    <2> QED
      BY <2>1, <2>2, <1>b, BasePartsNext
  <1>16. ASSUME NEW p \in Procs, LinkCurrent(p) PROVE Base'
    <2>1. FilesOK'
      BY <1>a, <1>16 DEF LinkCurrent, FilesOK, Unsplit, Link, Names, Base, Placed, Publishing,
         Replaying
    <2>2. JobsOK'
      BY <1>16, StopJobs, GoJobs DEF LinkCurrent, Locked, Publishing, Replaying, Switching, Syncing,
            Base, Placed, Link
    <2> QED
      BY <2>1, <2>2, <1>b, BasePartsNext
  <1>17. ASSUME NEW p \in Procs, WriteJournal(p) PROVE Base'
    <2>1. FilesOK'
      BY <1>a, <1>17 DEF WriteJournal, FilesOK, Unsplit, Names, Journals, Evidence
    <2>2. JobsOK'
      BY <1>17, StopJobs, GoJobs DEF WriteJournal, Locked, Publishing, Replaying, Switching,
         Syncing, Base, Placed
    <2> QED
      BY <2>1, <2>2, <1>b, BasePartsNext
  <1>18. ASSUME NEW p \in Procs, CheckTarget(p) PROVE Base'
    <2>1. FilesOK'
      BY <1>18, <1>f DEF CheckTarget
    <2>2. JobsOK'
      BY <1>18, StopJobs, GoJobs DEF CheckTarget, Locked, Publishing, Replaying, Switching, Syncing,
            Base, Placed
    <2> QED
      BY <2>1, <2>2, <1>b, BasePartsNext
  <1>19. ASSUME NEW p \in Procs, ReplayPrevious(p) PROVE Base'
    <2>0. journal \in Journals
      <3>1. journal # None
        BY <1>19 DEF ReplayPrevious, Base, Journaled, Replays, Replaying
      <3> QED
        BY <1>a, <3>1 DEF FilesOK
    <2>1. FilesOK'
      BY <1>a, <1>19, <2>0 DEF ReplayPrevious, FilesOK, Unsplit, Link, Names, Journals
    <2>2. JobsOK'
      BY <1>19, StopJobs, GoJobs DEF ReplayPrevious, Locked, Publishing, Replaying, Switching,
         Syncing, Base, Placed, Link
    <2> QED
      BY <2>1, <2>2, <1>b, BasePartsNext
  <1>20. ASSUME NEW p \in Procs, ReplayCurrent(p) PROVE Base'
    <2>0. journal \in Journals
      <3>1. journal # None
        BY <1>20 DEF ReplayCurrent, Base, Journaled, Replays, Replaying
      <3> QED
        BY <1>a, <3>1 DEF FilesOK
    <2>1. FilesOK'
      BY <1>a, <1>20, <2>0 DEF ReplayCurrent, FilesOK, Unsplit, Link, Names, Journals
    <2>2. JobsOK'
      BY <1>20, StopJobs, GoJobs DEF ReplayCurrent, Locked, Publishing, Replaying, Switching,
         Syncing, Base, Placed, Link
    <2> QED
      BY <2>1, <2>2, <1>b, BasePartsNext
  <1>21. ASSUME NEW p \in Procs, Unlink(p) PROVE Base'
    <2>1. FilesOK'
      BY <1>a, <1>21 DEF Unlink, FilesOK, Unsplit
    <2>2. JobsOK'
      BY <1>21, StopJobs, GoJobs DEF Unlink, Locked, Publishing, Replaying, Switching, Syncing,
            Base, Placed
    <2> QED
      BY <2>1, <2>2, <1>b, BasePartsNext
  <1>22. ASSUME NEW p \in Procs, SyncRoot(p) PROVE Base'
    <2>1. FilesOK'
      BY <1>a, <1>22 DEF SyncRoot, FilesOK, Unsplit, Disks, files
    <2>2. JobsOK'
      BY <1>22, StopJobs, GoJobs, AfterSyncIs DEF SyncRoot, Locked, Publishing, Replaying,
         Switching, Syncing, Base, Placed
    <2> QED
      BY <2>1, <2>2, <1>b, BasePartsNext
  <1>23. ASSUME NEW p \in Procs, Kill(p) PROVE Base'
    <2>1. FilesOK'
      BY <1>23, <1>f DEF Kill
    <2>2. JobsOK'
      BY <1>23, StopJobs, GoJobs DEF Kill, Locked, Publishing, Replaying, Switching, Syncing,
            Base, Placed
    <2> QED
      BY <2>1, <2>2, <1>b, BasePartsNext
  <1>24. CASE Launch
    BY <1>24, <1>a, <1>j, <1>b, BasePartsNext DEF Launch, FilesOK, files, Unsplit, Names
  <1>25. CASE PowerLoss
    <2>1. FilesOK'
      BY <1>25, <1>a DEF PowerLoss, FilesOK, Unsplit, Disks, Names
    <2>2. JobsOK'
      BY <1>25 DEF PowerLoss, JobsOK, JobsTyped, Base, Typed, Placed, Locks, Locked, Publishing,
         Replaying, Switching, Syncing
    <2> QED
      BY <2>1, <2>2, <1>b, BasePartsNext
  <1>26. ASSUME NEW i \in Fragile, Damage(i) PROVE Base'
    <2>1. FilesOK'
      BY <1>26, <1>a DEF Damage, FilesOK, Unsplit, Disks, Contents
    <2> QED
      BY <1>26, <2>1, <1>j, <1>b, BasePartsNext DEF Damage
  <1>27. CASE UNCHANGED vars
    BY <1>27, <1>f, <1>j, <1>b, BasePartsNext DEF vars, files, jobs
  <1> QED
    BY <1>1, <1>2, <1>3, <1>4, <1>5, <1>6, <1>7, <1>8, <1>9, <1>10, <1>11, <1>12, <1>13, <1>14,
       <1>15, <1>16, <1>17, <1>18, <1>19, <1>20, <1>21, <1>22, <1>23, <1>24, <1>25, <1>26, <1>27
       DEF Next

\* The inductive invariant of the types and locks.
THEOREM BaseHolds == Spec => []Base
  BY BaseInit, BaseNext, PTL DEF Spec

\* Types hold, no lock is left by an idle process, and nothing but a vLLM runtime is
\* ever found half copied at its final path.
THEOREM TypesHold == Spec => []TypeOK
  <1>1. Base => TypeOK
    BY GenerationsAssumption, PCsAre
       DEF Base, Typed, Locks, Unsplit, TypeOK, Locked, Publishing, Syncing, Replaying, Switching
  <1> QED
    BY <1>1, BaseHolds, PTL

(***************************************************************************)
(* What can be selected is whole                                           *)
(***************************************************************************)
\* What a process can find of item i after any power loss.
Intact(c, i) == c = "whole" \/ (c = "damaged" /\ i \in hurt)
BundleKept(b) == b \in hurt \/ (store[b] = "whole" /\ disk.store[b] = "whole")
RuntimeKept(r) == r \in loose \/ (Intact(store[r], r) /\ Intact(disk.store[r], r))
Kept(g) == g \in loose \/ (g \in gens /\ g \in disk.gens)

\* Setup is installing its runtime; it has its runtime; it has its generation.
Installing ==
    \/ pc[Setup] \in {"seal", "sealed"}
    \/ pc[Setup] \in {"publish"} \cup Publishing /\ item[Setup] \in Runtimes
Ready == pc[Setup] \in Locked \cup {"bundle", "verify", "lock"}
Made == pc[Setup] \in {"evidence", "previous", "psync", "current", "csync"}

\* Only damage makes an item damaged, and a whole runtime that is not synchronised
\* is the one Setup is about to synchronise, or loose.
Stored ==
    /\ \A i \in Items : store[i] = "damaged" \/ disk.store[i] = "damaged" => i \in hurt
    /\ \A r \in Runtimes : store[r] = "whole" =>
          \/ disk.store[r] = "whole" \/ r \in loose
          \/ r = plan[Setup].runtime /\ Installing /\ pc[Setup] \in {"sealed", "shelved"}

\* What Setup has done of its plan so far stays done.
Prepared ==
    /\ pc[Setup] = "install" => item[Setup] = plan[Setup].runtime
    /\ pc[Setup] = "shelved" /\ item[Setup] \in Bundles =>
          store[item[Setup]] = "whole" \/ item[Setup] \in hurt
    /\ pc[Setup] \in {"shelved", "sealed"} /\ Installing =>
          Intact(store[plan[Setup].runtime], plan[Setup].runtime)
    /\ pc[Setup] = "install" \/ Installing \/ Ready => BundleKept(plan[Setup].bundle)
    /\ Installing => Inactive(plan[Setup].runtime) \/ plan[Setup].runtime \in loose
    /\ Ready => RuntimeKept(plan[Setup].runtime)
    /\ pc[Setup] = "gsync" => plan[Setup] \in gens
    /\ Made => Kept(plan[Setup])

\* The generations on the host are whole, and all but a new one are on the disk.
Generated ==
    /\ disk.gens \subseteq gens
    /\ \A g \in gens :
          /\ BundleKept(g.bundle) /\ RuntimeKept(g.runtime)
          /\ g \in disk.gens \/ g \in loose \/ (g = plan[Setup] /\ pc[Setup] = "gsync")

\* Every name leads to a generation that is on the disk.
Linked ==
    /\ \A n \in Names : links[n] # None => Kept(links[n])
    /\ \A n \in Names : disk.links[n] # None => Kept(disk.links[n])
    /\ journal # None => Kept(journal.target) /\ Kept(journal.previous)
    /\ disk.journal # None => Kept(disk.journal.target) /\ Kept(disk.journal.previous)
    /\ resolved # None => resolved \in gens

Whole == Stored /\ Prepared /\ Generated /\ Linked

\* Every step keeps what can be selected whole.
LEMMA WholeNext == Base /\ Whole /\ [Next]_vars => Whole'
  <1> SUFFICES ASSUME Base, Whole, [Next]_vars PROVE Whole'
    OBVIOUS
  <1> USE GenerationsAssumption, AfterSyncIs
      DEF Whole, Go, files, jobs, history, Locked, Publishing, Replaying, Switching, Syncing
  <1>a. /\ store \in [Items -> Contents] /\ disk.store \in [Items -> Contents]
        /\ disk \in Disks
        /\ gens \subseteq Plans /\ disk.gens \subseteq Plans
        /\ pc \in [Procs -> PCs] /\ plan \in [Procs -> Plans \cup {None}]
        /\ item \in [Procs -> Items \cup {None}]
        /\ links \in [Names -> Plans \cup {None}] /\ disk.links \in [Names -> Plans \cup {None}]
        /\ journal \in Journals \cup {None} /\ disk.journal \in Journals \cup {None}
    BY DEF Base, Typed, Disks
  <1>b. /\ \A g \in Plans : g.bundle \in Bundles /\ g.runtime \in Runtimes
        /\ Bundles \subseteq Items /\ Runtimes \subseteq Items
        /\ \A b \in Bundles : b \notin Runtimes
    BY DEF Items
  <1>c. /\ Placed /\ Journaled /\ Unsplit
        /\ \A p, q \in Procs : pc[p] \in Locked /\ pc[q] \in Locked => p = q
    BY DEF Base, Locks
  <1>1. ASSUME NEW g \in Plans, StartSetup(g) \/ StartUpload(g) PROVE Whole'
    <2>1. Stored'
      BY <1>1, <1>a, <1>b, <1>c DEF StartSetup, StartUpload, Begin, Stored, Installing, Placed
    <2>2. Prepared'
      BY <1>1, <1>a, <1>b, <1>c DEF StartSetup, StartUpload, Begin, Prepared, Installing, Ready,
         Made, Intact, BundleKept, RuntimeKept, Kept, Inactive, Placed
    <2>3. Generated'
      BY <1>1, <1>a, <1>b, <1>c DEF StartSetup, StartUpload, Begin, Generated, BundleKept,
         RuntimeKept, Intact, Placed
    <2>4. Linked'
      BY <1>1, <1>a, <1>b, <1>c DEF StartSetup, StartUpload, Begin, Linked, Kept, Names, Placed,
         Journals, Journaled, Replays, Switches
    <2> QED
      BY <2>1, <2>2, <2>3, <2>4
  <1>2. CASE StartRollback
    <2>1. Stored'
      BY <1>2, <1>a, <1>b, <1>c DEF StartRollback, Stored, Installing, Placed
    <2>2. Prepared'
      BY <1>2, <1>a, <1>b, <1>c DEF StartRollback, Prepared, Installing, Ready, Made, Intact,
         BundleKept, RuntimeKept, Kept, Inactive, Placed
    <2>3. Generated'
      BY <1>2, <1>a, <1>b, <1>c DEF StartRollback, Generated, BundleKept, RuntimeKept, Intact,
         Placed
    <2>4. Linked'
      BY <1>2, <1>a, <1>b, <1>c DEF StartRollback, Linked, Kept, Names, Placed, Journals,
         Journaled, Replays, Switches
    <2> QED
      BY <2>1, <2>2, <2>3, <2>4
  <1>3. ASSUME NEW p \in Procs, Compare(p) PROVE Whole'
    <2>1. Stored'
      BY <1>3, <1>a, <1>b, <1>c DEF Compare, Stored, Installing, Placed
    <2>2. Prepared'
      BY <1>3, <1>a, <1>b, <1>c DEF Compare, Prepared, Installing, Ready, Made, Intact,
         BundleKept, RuntimeKept, Kept, Inactive, Placed
    <2>3. Generated'
      BY <1>3, <1>a, <1>b, <1>c DEF Compare, Generated, BundleKept, RuntimeKept, Intact, Placed,
         Stored, Prepared, Unsplit, Installing, Inactive
    <2>4. Linked'
      BY <1>3, <1>a, <1>b, <1>c DEF Compare, Linked, Kept, Names, Placed, Journals, Journaled,
         Replays, Switches
    <2> QED
      BY <2>1, <2>2, <2>3, <2>4
  <1>4. ASSUME NEW p \in Procs, MoveIntoPlace(p) PROVE Whole'
    <2>1. Stored'
      BY <1>4, <1>a, <1>b, <1>c DEF MoveIntoPlace, Moved, Stored, Installing, Placed
    <2>2. Prepared'
      BY <1>4, <1>a, <1>b, <1>c DEF MoveIntoPlace, Moved, Prepared, Installing, Ready, Made,
         Intact, BundleKept, RuntimeKept, Kept, Inactive, Placed
    <2>3. Generated'
      BY <1>4, <1>a, <1>b, <1>c DEF MoveIntoPlace, Moved, Generated, BundleKept, RuntimeKept,
         Intact, Placed
    <2>4. Linked'
      BY <1>4, <1>a, <1>b, <1>c DEF MoveIntoPlace, Moved, Linked, Kept, Names, Placed, Journals,
         Journaled, Replays, Switches
    <2> QED
      BY <2>1, <2>2, <2>3, <2>4
  <1>5. ASSUME NEW p \in Procs, SyncShelf(p) PROVE Whole'
    <2>1. Stored'
      BY <1>5, <1>a, <1>b, <1>c DEF SyncShelf, Stop, Stored, Installing, Placed
    <2>2. Prepared'
      BY <1>5, <1>a, <1>b, <1>c DEF SyncShelf, Stop, Prepared, Installing, Ready, Made, Intact,
         BundleKept, RuntimeKept, Kept, Inactive, Placed
    <2>3. Generated'
      BY <1>5, <1>a, <1>b, <1>c DEF SyncShelf, Stop, Generated, BundleKept, RuntimeKept, Intact,
         Placed
    <2>4. Linked'
      BY <1>5, <1>a, <1>b, <1>c DEF SyncShelf, Stop, Linked, Kept, Names, Placed, Journals,
         Journaled, Replays, Switches
    <2> QED
      BY <2>1, <2>2, <2>3, <2>4
  <1>6. ASSUME NEW p \in Procs, Install(p) PROVE Whole'
    <2>1. Stored'
      BY <1>6, <1>a, <1>b, <1>c DEF Install, Installed, Stop, Stored, Installing, Placed
    <2>2. Prepared'
      BY <1>6, <1>a, <1>b, <1>c DEF Install, Installed, Stop, Prepared, Installing, Ready, Made,
         Intact, BundleKept, RuntimeKept, Kept, Inactive, Placed, Generated, Stored
    <2>3. Generated'
      BY <1>6, <1>a, <1>b, <1>c DEF Install, Installed, Stop, Generated, BundleKept, RuntimeKept,
         Intact, Placed
    <2>4. Linked'
      BY <1>6, <1>a, <1>b, <1>c DEF Install, Installed, Stop, Linked, Kept, Names, Placed,
         Journals, Journaled, Replays, Switches
    <2> QED
      BY <2>1, <2>2, <2>3, <2>4
  <1>7. ASSUME NEW p \in Procs, Seal(p) PROVE Whole'
    <2>1. Stored'
      BY <1>7, <1>a, <1>b, <1>c DEF Seal, Stored, Installing, Placed
    <2>2. Prepared'
      BY <1>7, <1>a, <1>b, <1>c DEF Seal, Prepared, Installing, Ready, Made, Intact, BundleKept,
         RuntimeKept, Kept, Inactive, Placed
    <2>3. Generated'
      BY <1>7, <1>a, <1>b, <1>c DEF Seal, Generated, BundleKept, RuntimeKept, Intact, Placed
    <2>4. Linked'
      BY <1>7, <1>a, <1>b, <1>c DEF Seal, Linked, Kept, Names, Placed, Journals, Journaled,
         Replays, Switches
    <2> QED
      BY <2>1, <2>2, <2>3, <2>4
  <1>8. ASSUME NEW p \in Procs, SyncSeal(p) PROVE Whole'
    <2>1. Stored'
      BY <1>8, <1>a, <1>b, <1>c DEF SyncSeal, Stored, Installing, Placed
    <2>2. Prepared'
      BY <1>8, <1>a, <1>b, <1>c DEF SyncSeal, Prepared, Installing, Ready, Made, Intact,
         BundleKept, RuntimeKept, Kept, Inactive, Placed
    <2>3. Generated'
      BY <1>8, <1>a, <1>b, <1>c DEF SyncSeal, Generated, BundleKept, RuntimeKept, Intact, Placed
    <2>4. Linked'
      BY <1>8, <1>a, <1>b, <1>c DEF SyncSeal, Linked, Kept, Names, Placed, Journals, Journaled,
         Replays, Switches
    <2> QED
      BY <2>1, <2>2, <2>3, <2>4
  <1>9. ASSUME NEW p \in Procs, SetupBundle(p) PROVE Whole'
    <2>1. Stored'
      BY <1>9, <1>a, <1>b, <1>c DEF SetupBundle, Stop, Stored, Installing, Placed
    <2>2. Prepared'
      BY <1>9, <1>a, <1>b, <1>c DEF SetupBundle, Stop, Prepared, Installing, Ready, Made, Intact,
         BundleKept, RuntimeKept, Kept, Inactive, Placed
    <2>3. Generated'
      BY <1>9, <1>a, <1>b, <1>c DEF SetupBundle, Stop, Generated, BundleKept, RuntimeKept, Intact,
         Placed
    <2>4. Linked'
      BY <1>9, <1>a, <1>b, <1>c DEF SetupBundle, Stop, Linked, Kept, Names, Placed, Journals,
         Journaled, Replays, Switches
    <2> QED
      BY <2>1, <2>2, <2>3, <2>4
  <1>10. ASSUME NEW p \in Procs, Verify(p) PROVE Whole'
    <2>1. Stored'
      BY <1>10, <1>a, <1>b, <1>c DEF Verify, Stop, Stored, Installing, Placed
    <2>2. Prepared'
      BY <1>10, <1>a, <1>b, <1>c DEF Verify, Stop, Prepared, Installing, Ready, Made, Intact,
         BundleKept, RuntimeKept, Kept, Inactive, Placed
    <2>3. Generated'
      BY <1>10, <1>a, <1>b, <1>c DEF Verify, Stop, Generated, BundleKept, RuntimeKept, Intact,
         Placed
    <2>4. Linked'
      BY <1>10, <1>a, <1>b, <1>c DEF Verify, Stop, Linked, Kept, Names, Placed, Journals,
         Journaled, Replays, Switches
    <2> QED
      BY <2>1, <2>2, <2>3, <2>4
  <1>11. ASSUME NEW p \in Procs, Acquire(p) PROVE Whole'
    <2>1. Stored'
      BY <1>11, <1>a, <1>b, <1>c DEF Acquire, Stored, Installing, Placed
    <2>2. Prepared'
      BY <1>11, <1>a, <1>b, <1>c DEF Acquire, Prepared, Installing, Ready, Made, Intact,
         BundleKept, RuntimeKept, Kept, Inactive, Placed
    <2>3. Generated'
      BY <1>11, <1>a, <1>b, <1>c DEF Acquire, Generated, BundleKept, RuntimeKept, Intact, Placed
    <2>4. Linked'
      BY <1>11, <1>a, <1>b, <1>c DEF Acquire, Linked, Kept, Names, Placed, Journals, Journaled,
         Replays, Switches
    <2> QED
      BY <2>1, <2>2, <2>3, <2>4
  <1>12. ASSUME NEW p \in Procs, MakeGeneration(p) PROVE Whole'
    <2>1. Stored'
      BY <1>12, <1>a, <1>b, <1>c DEF MakeGeneration, Stored, Installing, Placed
    <2>2. Prepared'
      BY <1>12, <1>a, <1>b, <1>c DEF MakeGeneration, Prepared, Installing, Ready, Made, Intact,
         BundleKept, RuntimeKept, Kept, Inactive, Placed, Generated
    <2>3. Generated'
      BY <1>12, <1>a, <1>b, <1>c DEF MakeGeneration, Generated, BundleKept, RuntimeKept, Intact,
         Placed, Prepared, Ready
    <2>4. Linked'
      BY <1>12, <1>a, <1>b, <1>c DEF MakeGeneration, Linked, Kept, Names, Placed, Journals,
         Journaled, Replays, Switches
    <2> QED
      BY <2>1, <2>2, <2>3, <2>4
  <1>13. ASSUME NEW p \in Procs, SyncGenerations(p) PROVE Whole'
    <2>1. Stored'
      BY <1>13, <1>a, <1>b, <1>c DEF SyncGenerations, Stored, Installing, Placed
    <2>2. Prepared'
      BY <1>13, <1>a, <1>b, <1>c DEF SyncGenerations, Prepared, Installing, Ready, Made, Intact,
         BundleKept, RuntimeKept, Kept, Inactive, Placed, Generated
    <2>3. Generated'
      BY <1>13, <1>a, <1>b, <1>c DEF SyncGenerations, Generated, BundleKept, RuntimeKept, Intact,
         Placed
    <2>4. Linked'
      BY <1>13, <1>a, <1>b, <1>c DEF SyncGenerations, Linked, Kept, Names, Placed, Journals,
         Journaled, Replays, Switches
    <2> QED
      BY <2>1, <2>2, <2>3, <2>4
  <1>14. ASSUME NEW p \in Procs, CheckGeneration(p) PROVE Whole'
    <2>1. Stored'
      BY <1>14, <1>a, <1>b, <1>c DEF CheckGeneration, Stop, Stored, Installing, Placed
    <2>2. Prepared'
      BY <1>14, <1>a, <1>b, <1>c DEF CheckGeneration, Stop, Prepared, Installing, Ready, Made,
         Intact, BundleKept, RuntimeKept, Kept, Inactive, Placed
    <2>3. Generated'
      BY <1>14, <1>a, <1>b, <1>c DEF CheckGeneration, Stop, Generated, BundleKept, RuntimeKept,
         Intact, Placed
    <2>4. Linked'
      BY <1>14, <1>a, <1>b, <1>c DEF CheckGeneration, Stop, Linked, Kept, Names, Placed, Journals,
         Journaled, Replays, Switches
    <2> QED
      BY <2>1, <2>2, <2>3, <2>4
  <1>15. ASSUME NEW p \in Procs, LinkPrevious(p) PROVE Whole'
    <2>1. Stored'
      BY <1>15, <1>a, <1>b, <1>c DEF LinkPrevious, Link, Stored, Installing, Placed
    <2>2. Prepared'
      BY <1>15, <1>a, <1>b, <1>c DEF LinkPrevious, Link, Prepared, Installing, Ready, Made,
         Intact, BundleKept, RuntimeKept, Kept, Inactive, Placed
    <2>3. Generated'
      BY <1>15, <1>a, <1>b, <1>c DEF LinkPrevious, Link, Generated, BundleKept, RuntimeKept,
         Intact, Placed
    <2>4. Linked'
      BY <1>15, <1>a, <1>b, <1>c DEF LinkPrevious, Link, Linked, Kept, Names, Placed, Journals,
         Journaled, Replays, Switches
    <2> QED
      BY <2>1, <2>2, <2>3, <2>4
  <1>16. ASSUME NEW p \in Procs, LinkCurrent(p) PROVE Whole'
    <2>1. Stored'
      BY <1>16, <1>a, <1>b, <1>c DEF LinkCurrent, Link, Stored, Installing, Placed
    <2>2. Prepared'
      BY <1>16, <1>a, <1>b, <1>c DEF LinkCurrent, Link, Prepared, Installing, Ready, Made, Intact,
         BundleKept, RuntimeKept, Kept, Inactive, Placed
    <2>3. Generated'
      BY <1>16, <1>a, <1>b, <1>c DEF LinkCurrent, Link, Generated, BundleKept, RuntimeKept,
         Intact, Placed
    <2>4. Linked'
      BY <1>16, <1>a, <1>b, <1>c DEF LinkCurrent, Link, Linked, Kept, Names, Placed, Journals,
         Journaled, Replays, Switches, Prepared, Made
    <2> QED
      BY <2>1, <2>2, <2>3, <2>4
  <1>17. ASSUME NEW p \in Procs, WriteJournal(p) PROVE Whole'
    <2>1. Stored'
      BY <1>17, <1>a, <1>b, <1>c DEF WriteJournal, Evidence, Stop, Stored, Installing, Placed
    <2>2. Prepared'
      BY <1>17, <1>a, <1>b, <1>c DEF WriteJournal, Evidence, Stop, Prepared, Installing, Ready,
         Made, Intact, BundleKept, RuntimeKept, Kept, Inactive, Placed
    <2>3. Generated'
      BY <1>17, <1>a, <1>b, <1>c DEF WriteJournal, Evidence, Stop, Generated, BundleKept,
         RuntimeKept, Intact, Placed
    <2>4. Linked'
      BY <1>17, <1>a, <1>b, <1>c DEF WriteJournal, Evidence, Stop, Linked, Kept, Names, Placed,
         Journals, Journaled, Replays, Switches
    <2> QED
      BY <2>1, <2>2, <2>3, <2>4
  <1>18. ASSUME NEW p \in Procs, CheckTarget(p) PROVE Whole'
    <2>1. Stored'
      BY <1>18, <1>a, <1>b, <1>c DEF CheckTarget, Stop, Stored, Installing, Placed
    <2>2. Prepared'
      BY <1>18, <1>a, <1>b, <1>c DEF CheckTarget, Stop, Prepared, Installing, Ready, Made, Intact,
         BundleKept, RuntimeKept, Kept, Inactive, Placed
    <2>3. Generated'
      BY <1>18, <1>a, <1>b, <1>c DEF CheckTarget, Stop, Generated, BundleKept, RuntimeKept,
         Intact, Placed
    <2>4. Linked'
      BY <1>18, <1>a, <1>b, <1>c DEF CheckTarget, Stop, Linked, Kept, Names, Placed, Journals,
         Journaled, Replays, Switches
    <2> QED
      BY <2>1, <2>2, <2>3, <2>4
  <1>19. ASSUME NEW p \in Procs, ReplayPrevious(p) PROVE Whole'
    <2>1. Stored'
      BY <1>19, <1>a, <1>b, <1>c DEF ReplayPrevious, Link, Stored, Installing, Placed
    <2>2. Prepared'
      BY <1>19, <1>a, <1>b, <1>c DEF ReplayPrevious, Link, Prepared, Installing, Ready, Made,
         Intact, BundleKept, RuntimeKept, Kept, Inactive, Placed
    <2>3. Generated'
      BY <1>19, <1>a, <1>b, <1>c DEF ReplayPrevious, Link, Generated, BundleKept, RuntimeKept,
         Intact, Placed
    <2>4. Linked'
      BY <1>19, <1>a, <1>b, <1>c DEF ReplayPrevious, Link, Linked, Kept, Names, Placed, Journals,
         Journaled, Replays, Switches
    <2> QED
      BY <2>1, <2>2, <2>3, <2>4
  <1>20. ASSUME NEW p \in Procs, ReplayCurrent(p) PROVE Whole'
    <2>1. Stored'
      BY <1>20, <1>a, <1>b, <1>c DEF ReplayCurrent, Link, Stored, Installing, Placed
    <2>2. Prepared'
      BY <1>20, <1>a, <1>b, <1>c DEF ReplayCurrent, Link, Prepared, Installing, Ready, Made,
         Intact, BundleKept, RuntimeKept, Kept, Inactive, Placed
    <2>3. Generated'
      BY <1>20, <1>a, <1>b, <1>c DEF ReplayCurrent, Link, Generated, BundleKept, RuntimeKept,
         Intact, Placed
    <2>4. Linked'
      BY <1>20, <1>a, <1>b, <1>c DEF ReplayCurrent, Link, Linked, Kept, Names, Placed, Journals,
         Journaled, Replays, Switches
    <2> QED
      BY <2>1, <2>2, <2>3, <2>4
  <1>21. ASSUME NEW p \in Procs, Unlink(p) PROVE Whole'
    <2>1. Stored'
      BY <1>21, <1>a, <1>b, <1>c DEF Unlink, Stored, Installing, Placed
    <2>2. Prepared'
      BY <1>21, <1>a, <1>b, <1>c DEF Unlink, Prepared, Installing, Ready, Made, Intact,
         BundleKept, RuntimeKept, Kept, Inactive, Placed
    <2>3. Generated'
      BY <1>21, <1>a, <1>b, <1>c DEF Unlink, Generated, BundleKept, RuntimeKept, Intact, Placed
    <2>4. Linked'
      BY <1>21, <1>a, <1>b, <1>c DEF Unlink, Linked, Kept, Names, Placed, Journals, Journaled,
         Replays, Switches
    <2> QED
      BY <2>1, <2>2, <2>3, <2>4
  <1>22. ASSUME NEW p \in Procs, SyncRoot(p) PROVE Whole'
    <2>1. Stored'
      BY <1>22, <1>a, <1>b, <1>c DEF SyncRoot, Stop, Stored, Installing, Placed
    <2>2. Prepared'
      BY <1>22, <1>a, <1>b, <1>c DEF SyncRoot, Stop, Prepared, Installing, Ready, Made, Intact,
         BundleKept, RuntimeKept, Kept, Inactive, Placed
    <2>3. Generated'
      BY <1>22, <1>a, <1>b, <1>c DEF SyncRoot, Stop, Generated, BundleKept, RuntimeKept, Intact,
         Placed
    <2>4. Linked'
      BY <1>22, <1>a, <1>b, <1>c DEF SyncRoot, Stop, Linked, Kept, Names, Placed, Journals,
         Journaled, Replays, Switches
    <2> QED
      BY <2>1, <2>2, <2>3, <2>4
  <1>23. ASSUME NEW p \in Procs, Kill(p) PROVE Whole'
    <2>1. Stored'
      BY <1>23, <1>a, <1>b, <1>c DEF Kill, Stop, LeftLoose, Stored, Installing, Placed
    <2>2. Prepared'
      BY <1>23, <1>a, <1>b, <1>c DEF Kill, Stop, LeftLoose, Prepared, Installing, Ready, Made,
         Intact, BundleKept, RuntimeKept, Kept, Inactive, Placed
    <2>3. Generated'
      BY <1>23, <1>a, <1>b, <1>c DEF Kill, Stop, LeftLoose, Generated, BundleKept, RuntimeKept,
         Intact, Placed
    <2>4. Linked'
      BY <1>23, <1>a, <1>b, <1>c DEF Kill, Stop, LeftLoose, Linked, Kept, Names, Placed, Journals,
         Journaled, Replays, Switches
    <2> QED
      BY <2>1, <2>2, <2>3, <2>4
  <1>24. CASE Launch
    <2>1. Stored'
      BY <1>24, <1>a, <1>b, <1>c DEF Launch, Evidence, Stored, Installing, Placed
    <2>2. Prepared'
      BY <1>24, <1>a, <1>b, <1>c DEF Launch, Evidence, Prepared, Installing, Ready, Made, Intact,
         BundleKept, RuntimeKept, Kept, Inactive, Placed
    <2>3. Generated'
      BY <1>24, <1>a, <1>b, <1>c DEF Launch, Evidence, Generated, BundleKept, RuntimeKept, Intact,
         Placed
    <2>4. Linked'
      BY <1>24, <1>a, <1>b, <1>c DEF Launch, Evidence, Linked, Kept, Names, Placed, Journals,
         Journaled, Replays, Switches
    <2> QED
      BY <2>1, <2>2, <2>3, <2>4
  <1>25. CASE PowerLoss
    <2>1. Stored'
      BY <1>25, <1>a, <1>b, <1>c DEF PowerLoss, Stored, Installing, Placed
    <2>2. Prepared'
      BY <1>25, <1>a, <1>b, <1>c DEF PowerLoss, Prepared, Installing, Ready, Made, Intact,
         BundleKept, RuntimeKept, Kept, Inactive, Placed
    <2>3. Generated'
      BY <1>25, <1>a, <1>b, <1>c DEF PowerLoss, Generated, BundleKept, RuntimeKept, Intact, Placed
    <2>4. Linked'
      BY <1>25, <1>a, <1>b, <1>c DEF PowerLoss, Linked, Kept, Names, Placed, Journals, Journaled,
         Replays, Switches
    <2> QED
      BY <2>1, <2>2, <2>3, <2>4
  <1>26. ASSUME NEW i \in Fragile, Damage(i) PROVE Whole'
    <2>1. Stored'
      BY <1>26, <1>a, <1>b, <1>c DEF Damage, Stored, Installing, Placed
    <2>2. Prepared'
      BY <1>26, <1>a, <1>b, <1>c DEF Damage, Prepared, Installing, Ready, Made, Intact,
         BundleKept, RuntimeKept, Kept, Inactive, Placed
    <2>3. Generated'
      BY <1>26, <1>a, <1>b, <1>c DEF Damage, Generated, BundleKept, RuntimeKept, Intact, Placed
    <2>4. Linked'
      BY <1>26, <1>a, <1>b, <1>c DEF Damage, Linked, Kept, Names, Placed, Journals, Journaled,
         Replays, Switches
    <2> QED
      BY <2>1, <2>2, <2>3, <2>4
  <1>27. CASE UNCHANGED vars
    <2>1. Stored'
      BY <1>27, <1>a, <1>b, <1>c DEF vars, Stored, Installing, Placed
    <2>2. Prepared'
      BY <1>27, <1>a, <1>b, <1>c DEF vars, Prepared, Installing, Ready, Made, Intact, BundleKept,
         RuntimeKept, Kept, Inactive, Placed
    <2>3. Generated'
      BY <1>27, <1>a, <1>b, <1>c DEF vars, Generated, BundleKept, RuntimeKept, Intact, Placed
    <2>4. Linked'
      BY <1>27, <1>a, <1>b, <1>c DEF vars, Linked, Kept, Names, Placed, Journals, Journaled,
         Replays, Switches
    <2> QED
      BY <2>1, <2>2, <2>3, <2>4
  <1> QED
    BY <1>1, <1>2, <1>3, <1>4, <1>5, <1>6, <1>7, <1>8, <1>9, <1>10, <1>11, <1>12, <1>13, <1>14,
       <1>15, <1>16, <1>17, <1>18, <1>19, <1>20, <1>21, <1>22, <1>23, <1>24, <1>25, <1>26, <1>27
       DEF Next

\* Nothing is stored or selected at first.
LEMMA WholeInit == Init => Whole
  BY GenerationsAssumption
     DEF Init, Whole, Stored, Prepared, Generated, Linked, Installing, Ready, Made, Locked,
         Publishing, Replaying, Switching, Syncing, Items, Names

\* Whatever a launch, a rollback or a replayed journal may select is there and whole,
\* after any number of killed processes, power losses and damages.
THEOREM SelectionsWhole == Spec => []SelectionWhole
  <1>1. Init => Base /\ Whole
    BY BaseInit, WholeInit
  <1>2. Base /\ Whole /\ [Next]_vars => Base' /\ Whole'
    BY BaseNext, WholeNext
  <1>3. Base /\ Whole => SelectionWhole
    BY GenerationsAssumption
       DEF Base, Typed, Whole, Generated, Linked, SelectionWhole, Selected, Names, Kept,
           BundleKept, RuntimeKept, Intact
  <1> QED
    BY <1>1, <1>2, <1>3, PTL DEF Spec

(***************************************************************************)
(* A switch keeps the way back                                             *)
(***************************************************************************)
\* current is one of the two generations that the journal names.
Within(l, j) == j # None => l["current"] \in {j.previous, j.target}

\* What each link is while a process that holds the activation lock moves them.
Turning ==
    /\ pc[Setup] \in {"psync", "current"} /\ links["current"] \in gens \ {plan[Setup]} =>
          links["previous"] = links["current"]
    /\ \A p \in Procs :
          /\ pc[p] \in {"fpsync", "fcur", "fcsync", "unlink"} => links["previous"] = journal.previous
          /\ pc[p] \in {"fcsync", "unlink"} => links["current"] = journal.target
    /\ ~torn => Within(links, journal) /\ Within(disk.links, disk.journal)

\* The links and the journal move together.
LEMMA TurningNext == Base /\ Turning /\ [Next]_vars => Turning'
  <1> SUFFICES ASSUME Base, Turning, [Next]_vars PROVE Turning'
    OBVIOUS
  <1> USE GenerationsAssumption, AfterSyncIs
      DEF Turning, Within, Go, files, jobs, history, Locked, Publishing, Replaying, Switching, Syncing
  <1>a. /\ disk \in Disks /\ gens \subseteq Plans
        /\ pc \in [Procs -> PCs] /\ plan \in [Procs -> Plans \cup {None}]
        /\ links \in [Names -> Plans \cup {None}] /\ journal \in Journals \cup {None}
    BY DEF Base, Typed
  <1>b. /\ Placed /\ Journaled
        /\ \A p, q \in Procs : pc[p] \in Locked /\ pc[q] \in Locked => p = q
    BY DEF Base, Locks
  <1>s. ASSUME NEW p \in Procs, Stop(p), UNCHANGED <<files, disk, torn>> PROVE Turning'
    BY <1>a, <1>b, <1>s DEF Stop
  <1>1. ASSUME NEW g \in Plans, StartSetup(g) \/ StartUpload(g) PROVE Turning'
    BY <1>1, <1>a DEF StartSetup, StartUpload, Begin
  <1>2. CASE StartRollback
    BY <1>2, <1>a DEF StartRollback
  <1>3. ASSUME NEW p \in Procs, Compare(p) \/ MoveIntoPlace(p) PROVE Turning'
    BY <1>3, <1>a DEF Compare, MoveIntoPlace
  <1>4. ASSUME NEW p \in Procs, SyncShelf(p) PROVE Turning'
    BY <1>4, <1>a DEF SyncShelf, Stop, Disks
  <1>5. ASSUME NEW p \in Procs, Install(p) \/ Seal(p) \/ SyncSeal(p) PROVE Turning'
    <2>1. ASSUME Install(p) PROVE Turning'
      BY <2>1, <1>a, <1>s DEF Install, Stop
    <2> QED
      BY <1>5, <2>1, <1>a DEF Seal, SyncSeal, Disks
  <1>6. ASSUME NEW p \in Procs, SetupBundle(p) \/ Verify(p) \/ Acquire(p) PROVE Turning'
    BY <1>6, <1>a, <1>s DEF SetupBundle, Verify, Acquire
  <1>7. ASSUME NEW p \in Procs, MakeGeneration(p) \/ SyncGenerations(p) PROVE Turning'
    BY <1>7, <1>a, <1>b DEF MakeGeneration, SyncGenerations, Disks, Placed
  <1>8. ASSUME NEW p \in Procs, CheckGeneration(p) \/ CheckTarget(p) PROVE Turning'
    BY <1>8, <1>a, <1>s DEF CheckGeneration, CheckTarget
  <1>9. ASSUME NEW p \in Procs, LinkPrevious(p) \/ LinkCurrent(p) PROVE Turning'
    BY <1>9, <1>a, <1>b DEF LinkPrevious, LinkCurrent, Link, Names, Placed, Journaled, Replays,
       Switches
  <1>10. ASSUME NEW p \in Procs, WriteJournal(p) PROVE Turning'
    BY <1>10, <1>a, <1>b, <1>s DEF WriteJournal
  <1>11. ASSUME NEW p \in Procs, ReplayPrevious(p) \/ ReplayCurrent(p) PROVE Turning'
    BY <1>11, <1>a, <1>b DEF ReplayPrevious, ReplayCurrent, Link, Names
  <1>12. ASSUME NEW p \in Procs, Unlink(p) PROVE Turning'
    BY <1>12, <1>a, <1>b DEF Unlink
  <1>13. ASSUME NEW p \in Procs, SyncRoot(p) PROVE Turning'
    BY <1>13, <1>a, <1>b DEF SyncRoot, Disks, Stop
  <1>14. ASSUME NEW p \in Procs, Kill(p) PROVE Turning'
    BY <1>14, <1>s DEF Kill
  <1>15. CASE PowerLoss
    BY <1>15, <1>a DEF PowerLoss, Names
  <1>16. CASE Launch \/ UNCHANGED vars \/ \E i \in Fragile : Damage(i)
    BY <1>16, <1>a DEF Launch, vars, Damage, Disks
  <1> QED
    BY <1>1, <1>2, <1>3, <1>4, <1>5, <1>6, <1>7, <1>8, <1>9, <1>10, <1>11, <1>12, <1>13, <1>14,
       <1>15, <1>16 DEF Next

\* When current moves, previous already leads to the generation it leaves; a journaled
\* rollback moves it only to its target and is forgotten only when both links are set.
THEOREM SwitchesKeepBoth == Spec => SwitchKeepsBoth
  <1> USE GenerationsAssumption, AfterSyncIs DEF Locked, Publishing, Replaying, Switching, Syncing
  <1>1. Init => Base /\ Turning
    BY BaseInit DEF Init, Turning, Within
  <1>2. Base /\ Turning /\ [Next]_vars => Base' /\ Turning'
    BY BaseNext, TurningNext
  <1>3. ASSUME Base, Turning, [Next]_vars, lock' # None, ~torn,
               links'["current"] # links["current"]
        PROVE  /\ links["current"] \in gens => links["previous"] = links["current"]
               /\ journal # None => links'["current"] = journal.target
    <2>1. PICK p \in Procs : LinkPrevious(p) \/ LinkCurrent(p) \/ ReplayPrevious(p) \/ ReplayCurrent(p)
      BY <1>3 DEF Next, vars, files, StartSetup, StartUpload, Begin, StartRollback, Compare,
         MoveIntoPlace, SyncShelf, Install, Seal, SyncSeal, SetupBundle, Verify, Acquire,
         MakeGeneration, SyncGenerations, CheckGeneration, WriteJournal, CheckTarget, Unlink,
         SyncRoot, Kill, Launch, PowerLoss, Damage
    <2>2. links \in [Names -> Plans \cup {None}] /\ Placed /\ Journaled
      BY <1>3 DEF Base, Typed
    <2> QED
      BY <1>3, <2>1, <2>2 DEF Turning, Within, LinkPrevious, LinkCurrent, ReplayPrevious,
         ReplayCurrent, Link, Names, Placed, Journaled, Replays, Switches
  <1>4. ASSUME Base, Turning, [Next]_vars, lock' # None, journal # None, journal' = None
        PROVE  links = [current |-> journal.target, previous |-> journal.previous]
    <2>1. PICK p \in Procs : Unlink(p) \/ WriteJournal(p)
      BY <1>4 DEF Next, vars, files, StartSetup, StartUpload, Begin, StartRollback, Compare,
         MoveIntoPlace, SyncShelf, Install, Seal, SyncSeal, SetupBundle, Verify, Acquire,
         MakeGeneration, SyncGenerations, CheckGeneration, LinkPrevious, LinkCurrent,
         ReplayPrevious, ReplayCurrent, Link, CheckTarget, SyncRoot, Kill, Launch, PowerLoss,
         Damage
    <2>2. links \in [Names -> Plans \cup {None}] /\ gens \subseteq Plans
      BY <1>4 DEF Base, Typed
    <2>3. CASE WriteJournal(p)
      BY <1>4, <2>2, <2>3 DEF WriteJournal, Evidence, Journals
    <2>4. CASE Unlink(p)
      <3>1. links["current"] = journal.target /\ links["previous"] = journal.previous
        BY <1>4, <2>4 DEF Turning, Unlink
      <3> QED
        BY <3>1, <2>2 DEF Names
    <2> QED
      BY <2>1, <2>3, <2>4
  <1>5. Base /\ Turning /\ [Next]_vars =>
            [lock' # None /\ ~torn =>
              /\ links'["current"] # links["current"] =>
                   /\ links["current"] \in gens => links["previous"] = links["current"]
                   /\ journal # None => links'["current"] = journal.target
              /\ journal # None /\ journal' = None =>
                   links = [current |-> journal.target, previous |-> journal.previous]]_vars
    BY <1>3, <1>4
  <1> QED
    BY <1>1, <1>2, <1>5, PTL DEF Spec, SwitchKeepsBoth
=============================================================================
