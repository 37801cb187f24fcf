------------------------------ MODULE Attempts ------------------------------
(***************************************************************************)
(* One recorded command of a provisioning attempt: the gateway launches it *)
(* on the node, a detached worker runs and records it there, and pages of  *)
(* the node's log are copied to the gateway's (remote_logs.py,             *)
(* log_store.py, common/provision-logs.py).                                *)
(*                                                                         *)
(* Every SSH request may be lost, answered late or never start; the launch *)
(* is sent again at most once.  A transaction of either store is one step. *)
(***************************************************************************)
EXTENDS Naturals, Sequences, FiniteSets

CONSTANTS
    PageLimit,   \* records in a page
    ParseLimit,  \* records the gateway parses at a time
    Scenarios    \* bound: what may happen in one behaviour, see below

Own == "run"         \* run()'s own collector
Api == "api"         \* collect_logs, from an administrator or a recovery
Closing == "closing" \* finish or cancel, at the end of the operation
Collectors == {Own, Api, Closing}
Probe == "probe"     \* the next operation's question for live phases
Launches == {1, 2}   \* the launch request and its repetition

\* A scenario bounds a behaviour: whether the command hands over to an engine whose
\* log is followed (engine_log), whether the launch's time limit may pass (lost) and the
\* command's (slow), the records on
\* the node and how many of them its retention drops, the faults (lost requests, dead
\* processes and restarts), and who else asks the node.
Scenario == [engine : BOOLEAN, lost : BOOLEAN, slow : BOOLEAN, records : Nat,
             drops : Nat, faults : Nat, others : SUBSET {Api, Closing, Probe}]

ASSUME AttemptsAssumption ==
    /\ PageLimit \in Nat \ {0} /\ ParseLimit \in Nat \ {0}
    /\ Scenarios \subseteq Scenario

VARIABLES
    scene,    \* the scenario
    node,     \* the attempt's row in the node's store
    nlog,     \* the records of the attempt on the node
    ndrop,    \* how many of them retention has dropped
    lpc,      \* the launch processes on the node
    wpc,      \* the workers they spawn
    cmd,      \* the commands the workers run
    pipe,     \* lines of each command its worker has not read
    sink,     \* the processes that record the engines' output
    gate,     \* the attempt's row and records in the gateway's store
    col,      \* the gateway's collectors
    lock,     \* who holds the attempt's asyncio lock
    run,      \* the call of run()
    probe,    \* the phase an active probe has read, or None
    faults,   \* faults so far
    crossed,  \* another collector wrote between run()'s parse and its check
    raced     \* a launch found no phase while another was about to write it

nodeVars == <<node, nlog, ndrop, lpc, wpc, cmd, pipe, sink>>
gateVars == <<gate, col, lock, run, crossed>>
vars == <<scene, nodeVars, gateVars, probe, faults, raced>>

Smaller(a, b) == IF a < b THEN a ELSE b
Larger(a, b) == IF a > b THEN a ELSE b

(***************************************************************************)
(* The data                                                                *)
(***************************************************************************)
\* A phase as the node records it.  The exit codes of a failure (the command's
\* own, 124 to 126, 130, 137) are all 1; pid and launcher name the command's
\* and the worker's process by the launch they came from, 0 before they are known.
\* rec says that the worker is recording, eng that the engine's sink is.
Statuses == {"none", "launching", "running", "complete", "survivor"}
Phases == [st : Statuses, exit : {0, 1}, rec : BOOLEAN, eng : BOOLEAN,
           pid : Launches \cup {0}, launcher : Launches \cup {0}]
None == [st |-> "none", exit |-> 1, rec |-> FALSE, eng |-> FALSE, pid |-> 0, launcher |-> 0]

\* "out" is output of the command, "engine" the engine's, "other" the service journal's.
Kinds == {"out", "engine", "other"}
Outs(n) == [i \in 1..n |-> "out"]
EngineLines(n) == [i \in 1..n |-> "engine"]

\* A sink has read held lines that are not stored.
NoSink == [st |-> "none", held |-> 0]

\* What the properties look at in the gateway's copy of the phase.
Seen(p) == [st |-> IF p.st \in {"none", "complete"} THEN p.st ELSE "live",
            exit |-> IF p.st = "complete" THEN p.exit ELSE 1, rec |-> p.rec, eng |-> p.eng]
Copies == {Seen(p) : p \in Phases}

\* A page as a collector has it: the row's next_seq and phase, and the records from
\* lo to hi - 1, with more to follow or not.  Record k of the node is nlog[k + 1].
\* Until it is answered, lo is the cursor it was asked with.
Ask(cursor) == [next |-> 0, ph |-> Seen(None), lo |-> cursor, hi |-> 0, more |-> FALSE]
NoPage == Ask(0)

\* What the gateway stores: an entry is a record of the node, or the collector's
\* own warning in place of one.
Entries == [seq : Nat, real : BOOLEAN]

Init ==
    /\ scene \in Scenarios
    /\ node = [row |-> FALSE, ph |-> None, stop |-> FALSE, cancel |-> FALSE]
    /\ nlog = <<>> /\ ndrop = 0
    /\ lpc = [l \in Launches |-> "none"]
    /\ wpc = [l \in Launches |-> "none"]
    /\ cmd = [l \in Launches |-> "none"]
    /\ pipe = [l \in Launches |-> 0]
    /\ sink = [l \in Launches |-> NoSink]
    /\ gate = [cursor |-> 0, log |-> <<>>, gaps |-> {}, ph |-> Seen(None)]
    /\ col = [c \in Collectors |-> [pc |-> "idle", page |-> NoPage]]
    /\ lock = "free"
    /\ run = [pc |-> "idle", send |-> 0, lost |-> FALSE, off |-> 0, fresh |-> FALSE,
              result |-> "none"]
    /\ probe = None /\ faults = 0 /\ crossed = FALSE /\ raced = FALSE

(***************************************************************************)
(* The node: launching                                                     *)
(***************************************************************************)
Stored(p) == p.st # "none"
Phase(changes) == node' = [node EXCEPT !.ph = changes]

\* Mutant: a repeated launch does not look for the phase of the first.
KnownNever == FALSE

\* The phase identifies the command: a launch that finds it starts nothing.
Known == Stored(node.ph)

\* The launch request reaches the node, perhaps after the gateway gave it up, and
\* looks for the row of the attempt.
LaunchArrives(l) ==
    /\ lpc[l] = "sent"
    /\ lpc' = [lpc EXCEPT ![l] = IF node.row THEN "check" ELSE "create"]
    /\ UNCHANGED <<scene, node, nlog, ndrop, wpc, cmd, pipe, sink, gateVars, probe, faults, raced>>

\* The row's id is a primary key: the slower of two launches fails here.
CreateRow(l) ==
    /\ lpc[l] = "create"
    /\ node' = [node EXCEPT !.row = TRUE]
    /\ lpc' = [lpc EXCEPT ![l] = IF node.row THEN "over" ELSE "check"]
    /\ UNCHANGED <<scene, nlog, ndrop, wpc, cmd, pipe, sink, gateVars, probe, faults, raced>>

CheckPhase(l) ==
    /\ lpc[l] = "check"
    /\ lpc' = [lpc EXCEPT ![l] = IF Known THEN "answer" ELSE "phase"]
    /\ raced' = (raced \/ (~Stored(node.ph) /\ \E k \in Launches : lpc[k] = "phase"))
    /\ UNCHANGED <<scene, node, nlog, ndrop, wpc, cmd, pipe, sink, gateVars, probe, faults>>

\* The launch clears a stop or cancel request and records its intent.
WritePhase(l) ==
    /\ lpc[l] = "phase"
    /\ node' = [node EXCEPT !.ph.st = "launching", !.ph.rec = TRUE,
                            !.ph.eng = scene.engine, !.stop = FALSE, !.cancel = FALSE]
    /\ lpc' = [lpc EXCEPT ![l] = "spawn"]
    /\ UNCHANGED <<scene, nlog, ndrop, wpc, cmd, pipe, sink, gateVars, probe, faults, raced>>

\* The worker is spawned; it starts on its configuration, which it is given once
\* its pid is stored.
Spawn(l) ==
    /\ lpc[l] = "spawn"
    /\ lpc' = [lpc EXCEPT ![l] = "answer"]
    /\ wpc' = [wpc EXCEPT ![l] = "start"]
    /\ Phase([node.ph EXCEPT !.launcher = l])
    /\ UNCHANGED <<scene, nlog, ndrop, cmd, pipe, sink, gateVars, probe, faults, raced>>

LaunchStep(l) ==
    LaunchArrives(l) \/ CreateRow(l) \/ CheckPhase(l) \/ WritePhase(l) \/ Spawn(l)

(***************************************************************************)
(* The node: the worker and its command                                    *)
(***************************************************************************)
\* Mutant: the command does not inherit the lock's descriptor.
LockedByWorker == \E w \in Launches : wpc[w] \in {"mark", "loop"}

\* The host's lock is held while the worker or the command has it open.
HostLocked == \E w \in Launches : wpc[w] \in {"mark", "loop"} \/ cmd[w] = "live"

\* The bound on the records of the attempt
Room == Len(nlog) + pipe[1] + pipe[2] + sink[1].held + sink[2].held < scene.records

StartCommand(w) ==
    /\ wpc[w] = "start"
    /\ IF HostLocked
       THEN /\ Phase([node.ph EXCEPT !.st = "complete", !.exit = 1, !.rec = FALSE])
            /\ wpc' = [wpc EXCEPT ![w] = "over"]
            /\ UNCHANGED cmd
       ELSE /\ cmd' = [cmd EXCEPT ![w] = "live"]
            /\ wpc' = [wpc EXCEPT ![w] = "mark"]
            /\ UNCHANGED node
    /\ UNCHANGED <<scene, nlog, ndrop, lpc, pipe, sink, gateVars, probe, faults, raced>>

MarkRunning(w) ==
    /\ wpc[w] = "mark"
    /\ Phase([node.ph EXCEPT !.st = "running", !.pid = w])
    /\ wpc' = [wpc EXCEPT ![w] = "loop"]
    /\ UNCHANGED <<scene, nlog, ndrop, lpc, cmd, pipe, sink, gateVars, probe, faults, raced>>

CommandWrites(w) ==
    /\ cmd[w] = "live" /\ wpc[w] # "over"
    /\ Room
    /\ pipe' = [pipe EXCEPT ![w] = @ + 1]
    /\ UNCHANGED <<scene, node, nlog, ndrop, lpc, wpc, cmd, sink, gateVars, probe, faults, raced>>

\* The command and all that hold its pipes end.
CommandExits(w) ==
    /\ cmd[w] = "live"
    /\ \E how \in {"ok", "failed"} : cmd' = [cmd EXCEPT ![w] = how]
    /\ UNCHANGED <<scene, node, nlog, ndrop, lpc, wpc, pipe, sink, gateVars, probe, faults, raced>>

\* One turn of the worker's loop stores what it has read.
RecordOutput(w) ==
    /\ wpc[w] = "loop" /\ pipe[w] > 0
    /\ nlog' = nlog \o Outs(pipe[w])
    /\ pipe' = [pipe EXCEPT ![w] = 0]
    /\ UNCHANGED <<scene, node, ndrop, lpc, wpc, cmd, sink, gateVars, probe, faults, raced>>

\* The service journal's lines, of which only the late ones differ from output.
RecordJournal(w) ==
    /\ wpc[w] \in {"tail", "end"}
    /\ Room
    /\ nlog' = Append(nlog, "other")
    /\ UNCHANGED <<scene, node, ndrop, lpc, wpc, cmd, pipe, sink, gateVars, probe, faults, raced>>

\* Mutant: the phase completes when the command has exited, read or not.
EndedUnread(w) == cmd[w] \in {"ok", "failed"}

\* The command is over and its pipes are at their end.
Ended(w) == cmd[w] \in {"ok", "failed"} /\ pipe[w] = 0

CommandDone(w) ==
    /\ wpc[w] = "loop" /\ Ended(w) /\ ~node.cancel
    /\ Phase([node.ph EXCEPT !.st = "complete", !.exit = IF cmd[w] = "ok" THEN 0 ELSE 1])
    /\ wpc' = [wpc EXCEPT ![w] = IF scene.engine THEN "tail" ELSE "end"]
    /\ UNCHANGED <<scene, nlog, ndrop, lpc, cmd, pipe, sink, gateVars, probe, faults, raced>>

\* A sink that is told to end or fails may still say that it has; what it holds is lost.
Killed == [st |-> "over", held |-> 0]

\* A deadline, a cancel request or a failure of the recorder: the worker kills
\* the command's group, the engine and its sink included, which may survive.
StopCommand(w) ==
    /\ wpc[w] \in {"mark", "loop", "tail"}
    /\ scene.slow \/ node.cancel
    /\ \/ /\ cmd' = [cmd EXCEPT ![w] = IF @ = "live" THEN "killed" ELSE @]
          /\ sink' = [sink EXCEPT ![w] = IF @.st = "none" THEN @ ELSE Killed]
          /\ \E told \in BOOLEAN : Phase([node.ph EXCEPT !.st = "complete", !.exit = 1,
                         !.eng = @ /\ ~(told /\ sink[w].st = "recording")])
       \/ /\ cmd[w] = "live"
          /\ Phase([node.ph EXCEPT !.st = "survivor", !.exit = 1, !.rec = FALSE])
          /\ UNCHANGED <<cmd, sink>>
    /\ wpc' = [wpc EXCEPT ![w] = "end"]
    /\ UNCHANGED <<scene, nlog, ndrop, lpc, pipe, gateVars, probe, faults, raced>>

\* An engine's worker records the journal until it is told to stop, or its time ends.
StopTail(w) ==
    /\ wpc[w] = "tail" /\ ~node.cancel
    /\ wpc' = [wpc EXCEPT ![w] = "end"]
    /\ UNCHANGED <<scene, node, nlog, ndrop, lpc, cmd, pipe, sink, gateVars, probe, faults, raced>>

\* The last records are stored after the phase is complete, ...
DrainPipes(w) ==
    /\ wpc[w] = "end"
    /\ nlog' = nlog \o Outs(pipe[w])
    /\ pipe' = [pipe EXCEPT ![w] = 0]
    /\ node' = [node EXCEPT !.stop = @ \/ scene.engine]
    /\ \/ UNCHANGED cmd
       \/ cmd[w] = "live" /\ cmd' = [cmd EXCEPT ![w] = "killed"]
    /\ wpc' = [wpc EXCEPT ![w] = "close"]
    /\ UNCHANGED <<scene, ndrop, lpc, sink, gateVars, probe, faults, raced>>

\* ... and only then does the phase say that nothing follows.
EndRecording(w) ==
    /\ wpc[w] = "close"
    /\ Phase([node.ph EXCEPT !.rec = FALSE])
    /\ wpc' = [wpc EXCEPT ![w] = "over"]
    /\ UNCHANGED <<scene, nlog, ndrop, lpc, cmd, pipe, sink, gateVars, probe, faults, raced>>

\* The worker is killed; its command goes on, and what is in the pipe is lost.
WorkerDies(w) ==
    /\ faults < scene.faults /\ wpc[w] \notin {"none", "over"}
    /\ faults' = faults + 1
    /\ wpc' = [wpc EXCEPT ![w] = "over"]
    /\ pipe' = [pipe EXCEPT ![w] = 0]
    /\ UNCHANGED <<scene, node, nlog, ndrop, lpc, cmd, sink, gateVars, probe, raced>>

\* The node restarts: every process ends, its store stays.
Reboot ==
    /\ faults < scene.faults
    /\ faults' = faults + 1
    /\ lpc' = [l \in Launches |-> IF lpc[l] = "none" THEN "none" ELSE "over"]
    /\ wpc' = [l \in Launches |-> IF wpc[l] = "none" THEN "none" ELSE "over"]
    /\ cmd' = [l \in Launches |-> IF cmd[l] = "live" THEN "killed" ELSE cmd[l]]
    /\ pipe' = [l \in Launches |-> 0]
    /\ sink' = [l \in Launches |-> IF sink[l].st = "none" THEN NoSink ELSE Killed]
    /\ UNCHANGED <<scene, node, nlog, ndrop, gateVars, probe, raced>>

\* The node's byte budget drops the oldest record.
Rotate ==
    /\ ndrop < Smaller(scene.drops, Len(nlog))
    /\ ndrop' = ndrop + 1
    /\ UNCHANGED <<scene, node, nlog, lpc, wpc, cmd, pipe, sink, gateVars, probe, faults, raced>>

WorkerStep(w) ==
    \/ StartCommand(w) \/ MarkRunning(w) \/ CommandWrites(w) \/ CommandExits(w)
    \/ RecordOutput(w) \/ RecordJournal(w) \/ CommandDone(w) \/ StopCommand(w)
    \/ StopTail(w) \/ DrainPipes(w) \/ EndRecording(w) \/ WorkerDies(w)

(***************************************************************************)
(* The node: the engine's sink                                             *)
(***************************************************************************)
Sink(w, st, held) == sink' = [sink EXCEPT ![w] = [st |-> st, held |-> held]]

\* The command starts the engine with its output piped to a sink.
EngineStarts(w) ==
    /\ scene.engine /\ cmd[w] = "live" /\ sink[w].st = "none"
    /\ Sink(w, "recording", 0)
    /\ UNCHANGED <<scene, node, nlog, ndrop, lpc, wpc, cmd, pipe, gateVars, probe, faults, raced>>

SinkReads(w) ==
    /\ sink[w].st = "recording" /\ Room
    /\ Sink(w, "recording", sink[w].held + 1)
    /\ UNCHANGED <<scene, node, nlog, ndrop, lpc, wpc, cmd, pipe, gateVars, probe, faults, raced>>

\* What is held is stored; at a stop request or the end of the pipe it is the last.
SinkFlush(w) ==
    /\ sink[w].st = "recording"
    /\ nlog' = nlog \o EngineLines(sink[w].held)
    /\ \/ ~node.stop /\ Sink(w, "recording", 0)
       \/ Sink(w, "closing", 0)
    /\ UNCHANGED <<scene, node, ndrop, lpc, wpc, cmd, pipe, gateVars, probe, faults, raced>>

\* A signal, a failing store or a pruned raw log ends the recording.
SinkFails(w) ==
    /\ faults < scene.faults /\ sink[w].st = "recording"
    /\ faults' = faults + 1
    /\ Sink(w, "closing", 0)
    /\ UNCHANGED <<scene, node, nlog, ndrop, lpc, wpc, cmd, pipe, gateVars, probe, raced>>

\* The end of the recording is acknowledged; the pipe is read on, so that the engine
\* can go on writing.
SinkCloses(w) ==
    /\ sink[w].st = "closing"
    /\ Sink(w, "draining", 0)
    /\ Phase([node.ph EXCEPT !.eng = FALSE])
    /\ UNCHANGED <<scene, nlog, ndrop, lpc, wpc, cmd, pipe, gateVars, probe, faults, raced>>

EngineEnds(w) ==
    /\ sink[w].st = "draining"
    /\ sink' = [sink EXCEPT ![w] = Killed]
    /\ UNCHANGED <<scene, node, nlog, ndrop, lpc, wpc, cmd, pipe, gateVars, probe, faults, raced>>

SinkStep(w) ==
    EngineStarts(w) \/ SinkReads(w) \/ SinkFlush(w) \/ SinkFails(w) \/ SinkCloses(w) \/ EngineEnds(w)

(***************************************************************************)
(* The node: the probe for live phases                                     *)
(***************************************************************************)
\* The host's next operation asks once this one has ended or its gateway died.
ProbeReads ==
    /\ Probe \in scene.others
    /\ run.pc \in {"over", "crashed"}
    /\ col[Closing].pc = "idle"
    /\ ~Stored(probe) /\ node.ph.st \in {"launching", "running", "survivor"}
    /\ probe' = node.ph
    /\ UNCHANGED <<scene, nodeVars, gateVars, faults, raced>>

\* A phase without a live group, which the engine is in too, or without a pid and a
\* live launcher, is closed.
Abandoned(p) ==
    IF p.pid # 0 THEN cmd[p.pid] # "live" /\ sink[p.pid].st \in {"none", "over"}
    ELSE p.launcher = 0 \/ wpc[p.launcher] = "over"

ProbeCloses ==
    /\ Stored(probe)
    /\ probe' = None
    /\ Phase(IF Abandoned(probe)
             THEN [node.ph EXCEPT !.st = "complete", !.exit = 1, !.rec = FALSE]
             ELSE node.ph)
    /\ UNCHANGED <<scene, nlog, ndrop, lpc, wpc, cmd, pipe, sink, gateVars, faults, raced>>

(***************************************************************************)
(* The gateway: collecting pages                                           *)
(***************************************************************************)
Move(c, pc) == col' = [col EXCEPT ![c].pc = pc]
Ingesting == {"append", "meta"}
Free(c) == IF lock = c THEN "free" ELSE lock

\* The lock of the attempt admits one collection at a time.
Acquire(c) ==
    /\ col[c].pc = "want" /\ lock = "free"
    /\ lock' = c
    /\ col' = [col EXCEPT ![c] = [pc |-> "ask", page |-> Ask(gate.cursor)]]
    /\ UNCHANGED <<scene, nodeVars, gate, run, crossed, probe, faults, raced>>

\* The first request of the operation's end is finish or cancel: it sets the flags,
\* then waits for the recording to end, for five seconds at most.
AskToStop ==
    /\ col[Closing].pc = "ask" /\ node.row /\ ~node.stop
    /\ node' = [node EXCEPT !.stop = TRUE, !.cancel = run.result = "cancelled"]
    /\ Move(Closing, "wait")
    /\ UNCHANGED <<scene, nlog, ndrop, lpc, wpc, cmd, pipe, sink, gate, lock, run, crossed,
                   probe, faults, raced>>

\* The node answers a read, or the end of a launch, with the row and then the records
\* below the row's next_seq; retention may drop a record between the two.
Answer(c) ==
    /\ \/ col[c].pc = "ask" /\ node.row /\ (c = Closing => node.stop) /\ UNCHANGED lpc
       \/ col[c].pc = "wait" /\ UNCHANGED lpc
       \/ /\ col[c].pc = "launch" /\ lpc[run.send] = "answer"
          /\ lpc' = [lpc EXCEPT ![run.send] = "over"]
    /\ \E d \in ndrop..Smaller(scene.drops, Len(nlog)) :
          LET next == Len(nlog)
              lo == Larger(col[c].page.lo, d)
              hi == Smaller(next, lo + PageLimit)
          IN /\ ndrop' = d
             /\ col' = [col EXCEPT ![c] = [pc |-> "append",
                           page |-> [next |-> next, ph |-> Seen(node.ph), lo |-> lo, hi |-> hi,
                                     more |-> hi < next]]]
    /\ UNCHANGED <<scene, node, nlog, wpc, cmd, pipe, sink, gate, lock, run, crossed,
                   probe, faults, raced>>

\* A launch is not answered in time, wherever its process has got to.
LaunchLost ==
    /\ scene.lost /\ col[Own].pc = "launch"
    /\ Move(Own, "unanswered")
    /\ UNCHANGED <<scene, nodeVars, gate, lock, run, crossed, probe, faults, raced>>

\* A read fails when it or its answer is lost, and when the node has no row.
Fails(c) ==
    /\ \/ col[c].pc \in {"ask", "wait"} /\ faults < scene.faults /\ faults' = faults + 1
       \/ col[c].pc = "ask" /\ ~node.row /\ UNCHANGED faults
    /\ Move(c, IF node.row THEN "failed" ELSE "missing")
    /\ lock' = Free(c)
    /\ UNCHANGED <<scene, nodeVars, gate, run, crossed, probe, raced>>

\* Mutant: a record that was stored before is stored again.
UnseenAlways(page) == page.lo .. (page.hi - 1)

\* A record below the cursor has been stored, or found to be unavailable.
Unseen(page) == {k \in page.lo .. (page.hi - 1) : k >= gate.cursor}

\* Mutant: the cursor skips a record.
CursorBeyond(page) == page.hi + 1

\* The next record to ask for is committed with the last one stored.
CursorAfter(page) == page.hi

AppendPage(c) ==
    LET page == col[c].page
        new == Unseen(page)
        first == page.hi - Cardinality(new)
    IN
    /\ col[c].pc = "append"
    /\ gate' = IF new = {} THEN gate
               ELSE [gate EXCEPT !.log = @ \o [i \in 1..Cardinality(new) |-> [seq |-> first + i - 1, real |-> TRUE]],
                                 !.gaps = @ \cup (gate.cursor .. (first - 1)),
                                 !.cursor = CursorAfter(page)]
    /\ Move(c, "meta")
    /\ UNCHANGED <<scene, nodeVars, lock, run, crossed, probe, faults, raced>>

\* The last page leaves the cursor at the end of the log: records that were
\* dropped between the row and the records are entered as unavailable.
Missing(page) == IF page.more THEN {} ELSE gate.cursor .. (page.next - 1)

\* The page's metadata replaces what the gateway had of it.  The collection goes on,
\* unless it is at the end of the log or of its budget of pages.
UpdateMeta(c) ==
    LET page == col[c].page
        missing == Missing(page)
    IN
    /\ col[c].pc = "meta"
    /\ gate' = IF missing = {} THEN [gate EXCEPT !.ph = page.ph]
               ELSE [gate EXCEPT !.ph = page.ph,
                                 !.log = Append(@, [seq |-> page.next - 1, real |-> FALSE]),
                                 !.gaps = @ \cup missing,
                                 !.cursor = page.next]
    /\ crossed' = (crossed \/ (c # Own /\ run.pc = "decide"))
    /\ \/ /\ lock = c /\ page.more
          /\ col' = [col EXCEPT ![c] = [pc |-> "ask", page |-> Ask(gate'.cursor)]]
          /\ UNCHANGED lock
       \/ /\ col' = [col EXCEPT ![c] = [pc |-> "done", page |-> NoPage]]
          /\ lock' = Free(c)
    /\ UNCHANGED <<scene, nodeVars, run, probe, faults, raced>>

CollectorStep(c) ==
    Acquire(c) \/ Answer(c) \/ Fails(c) \/ AppendPage(c) \/ UpdateMeta(c)

\* An administrator, or the recovery after a restart, collects the attempt's logs.
ApiCollect ==
    /\ Api \in scene.others /\ col[Api].pc = "idle" /\ run.pc # "idle"
    /\ Move(Api, "want")
    /\ UNCHANGED <<scene, nodeVars, gate, lock, run, crossed, probe, faults, raced>>

\* Its caller is answered, also when the collection failed.
Collected(c) ==
    /\ c # Own /\ col[c].pc \in {"done", "failed", "missing"}
    /\ Move(c, "idle")
    /\ UNCHANGED <<scene, nodeVars, gate, lock, run, crossed, probe, faults, raced>>

\* Cancelled by its deadline, a collection gives up the lock; a page a thread is
\* already storing is stored nevertheless.
Deadline(c) ==
    /\ c # Own
    /\ \/ col[c].pc \in {"want", "ask", "wait"} /\ Move(c, "idle")
       \/ col[c].pc \in Ingesting /\ lock = c /\ UNCHANGED col
    /\ lock' = Free(c)
    /\ UNCHANGED <<scene, nodeVars, gate, run, crossed, probe, faults, raced>>

(***************************************************************************)
(* The gateway: run()                                                      *)
(***************************************************************************)
\* The phase is recorded as intended, and the launch is sent.
Begin ==
    /\ run.pc = "idle"
    /\ run' = [run EXCEPT !.pc = "launch", !.send = 1, !.off = Len(gate.log)]
    /\ lpc' = [lpc EXCEPT ![1] = "sent"]
    /\ col' = [col EXCEPT ![Own] = [pc |-> "launch", page |-> Ask(gate.cursor)]]
    /\ UNCHANGED <<scene, node, nlog, ndrop, wpc, cmd, pipe, sink, gate, lock, crossed,
                   probe, faults, raced>>

\* The launch is sent again under the same phase; its answer needs no lock.
Resend ==
    /\ run' = [run EXCEPT !.pc = "launch", !.send = 2, !.lost = FALSE]
    /\ lpc' = [lpc EXCEPT ![2] = "sent"]
    /\ col' = [col EXCEPT ![Own] = [pc |-> "launch", page |-> Ask(gate.cursor)]]
    /\ UNCHANGED <<scene, node, nlog, ndrop, wpc, cmd, pipe, sink, gate, lock, crossed,
                   probe, faults, raced>>

Collect ==
    /\ run' = [run EXCEPT !.pc = "collect"]
    /\ Move(Own, "want")
    /\ UNCHANGED <<scene, nodeVars, gate, lock, crossed, probe, faults, raced>>

\* The caller goes on to the operation's end, which closes the recording.
Return(result) ==
    /\ run' = [run EXCEPT !.pc = "over", !.result = result, !.lost = FALSE, !.fresh = FALSE]
    /\ crossed' = FALSE
    /\ col' = [c \in Collectors |-> IF c = Closing /\ c \in scene.others THEN [pc |-> "want", page |-> NoPage]
                                    ELSE IF c = Own /\ col[c].pc \notin Ingesting
                                         THEN [pc |-> "idle", page |-> NoPage] ELSE col[c]]
    /\ lock' = Free(Own)
    /\ UNCHANGED <<scene, nodeVars, gate, probe, faults, raced>>

\* No answer to the launch: only retrieval can tell whether it was received.
Unanswered ==
    /\ run.pc = "launch" /\ col[Own].pc = "unanswered"
    /\ run' = [run EXCEPT !.pc = "collect", !.lost = run.send = 1]
    /\ Move(Own, "want")
    /\ UNCHANGED <<scene, nodeVars, gate, lock, crossed, probe, faults, raced>>

\* A failed collection is tried again, up to a number of times and the deadline.
CollectFailed ==
    /\ run.pc = "collect" /\ col[Own].pc \in {"failed", "missing"}
    /\ IF run.lost /\ col[Own].pc = "missing" THEN Resend
       ELSE Collect \/ Return("error")

\* run() parses what is stored, by its own offset: others collect too.
Parse ==
    LET last == Smaller(Len(gate.log), run.off + ParseLimit)
    IN
    /\ run.pc \in {"launch", "collect"} /\ col[Own].pc = "done"
    /\ run' = [run EXCEPT !.pc = "decide", !.off = last, !.fresh = last > run.off]
    /\ Move(Own, "idle")
    /\ crossed' = FALSE
    /\ UNCHANGED <<scene, nodeVars, gate, lock, probe, faults, raced>>

\* Nothing of the command follows: not while the worker still stores records,
\* unless it follows an engine.
Finished == gate.ph.st = "complete" /\ (scene.engine \/ ~gate.ph.rec)

Decide ==
    /\ run.pc = "decide"
    /\ IF run.lost /\ ~Stored(gate.ph) THEN Resend
       ELSE IF ~Finished THEN Collect \/ Return("timeout")
       ELSE IF run.fresh THEN Collect
       ELSE Return(IF gate.ph.exit = 0 THEN "ok" ELSE "bad")

\* The operation's task is cancelled while it waits.
Cancel ==
    /\ Closing \in scene.others
    /\ run.pc \in {"launch", "collect", "decide"}
    /\ Return("cancelled")

\* The gateway dies and starts again: its store stays, and its processes on the
\* node go on.
Crash ==
    /\ faults < scene.faults /\ run.pc \notin {"idle", "crashed"}
    /\ faults' = faults + 1
    /\ run' = [run EXCEPT !.pc = "crashed", !.lost = FALSE, !.fresh = FALSE]
    /\ col' = [c \in Collectors |-> [pc |-> "idle", page |-> NoPage]]
    /\ lock' = "free"
    /\ UNCHANGED <<scene, nodeVars, gate, crossed, probe, raced>>

Next ==
    \/ \E l \in Launches : LaunchStep(l) \/ WorkerStep(l) \/ SinkStep(l)
    \/ Reboot \/ Rotate \/ ProbeReads \/ ProbeCloses
    \/ \E c \in Collectors : CollectorStep(c) \/ Collected(c) \/ Deadline(c)
    \/ ApiCollect
    \/ AskToStop
    \/ Begin \/ LaunchLost \/ Unanswered \/ CollectFailed \/ Parse \/ Decide \/ Cancel \/ Crash

Spec == Init /\ [][Next]_vars

(***************************************************************************)
(* Properties                                                              *)
(***************************************************************************)
LPCs == {"none", "sent", "create", "check", "phase", "spawn", "answer", "over"}
WPCs == {"none", "start", "mark", "loop", "tail", "end", "close", "over"}
CPCs == {"idle", "want", "ask", "wait", "launch", "unanswered", "failed", "missing", "done"}
            \cup Ingesting
RPCs == {"idle", "launch", "collect", "decide", "over", "crashed"}
Results == {"none", "ok", "bad", "timeout", "error", "cancelled"}

\* Types of the variables; the gateway's cursor never passes the node's log
\* (log_store.append_many, remote_logs._ingest_page).
TypeOK ==
    /\ scene \in Scenarios
    /\ node \in [row : BOOLEAN, ph : Phases, stop : BOOLEAN, cancel : BOOLEAN]
    /\ nlog \in Seq(Kinds) /\ Len(nlog) <= scene.records /\ ndrop \in 0..Len(nlog)
    /\ lpc \in [Launches -> LPCs] /\ wpc \in [Launches -> WPCs]
    /\ cmd \in [Launches -> {"none", "live", "ok", "failed", "killed"}]
    /\ pipe \in [Launches -> 0..scene.records]
    /\ sink \in [Launches -> [st : {"none", "recording", "closing", "draining", "over"},
                              held : 0..scene.records]]
    /\ gate.cursor \in 0..Len(nlog) /\ gate.log \in Seq(Entries)
    /\ gate.gaps \in SUBSET (0..scene.records) /\ gate.ph \in Copies
    /\ \A c \in Collectors : col[c].pc \in CPCs /\ col[c].page.ph \in Copies
    /\ lock \in Collectors \cup {"free"}
    /\ run.pc \in RPCs /\ run.send \in Launches \cup {0} /\ run.result \in Results
    /\ run.off \in 0..Len(gate.log)
    /\ probe \in Phases /\ faults \in 0..scene.faults

\* Whatever pages are lost, late, repeated or stored by two collectors at once, the
\* gateway's log (append_many, _ingest_page) holds the node's records once each and in
\* their order, and a record it has passed without storing is one the node had dropped
\* and the attempt's issues tell of.
LogFaithful ==
    /\ \A i, j \in 1..Len(gate.log) : i < j => gate.log[i].seq < gate.log[j].seq
    /\ \A k \in 0..(gate.cursor - 1) :
          (\E i \in 1..Len(gate.log) : gate.log[i].seq = k /\ gate.log[i].real) <=> k \notin gate.gaps
    /\ \A k \in gate.gaps : k < ndrop

\* Two commands of the gateway are never alive on the host together, although a launch
\* may be repeated and a worker may die before its command (_acquire_host_lock).
OneCommandAtATime == \A v, w \in Launches : cmd[v] = "live" /\ cmd[w] = "live" => v = w

\* run() resends a launch whose answer was lost under the same phase: the command is
\* run a second time only if the node was handling both launches at once.
ResendIdempotent == (\A l \in Launches : cmd[l] # "none") => raced

\* The node's records run() has handed to its caller, and the ones the gateway has
Parsed == {gate.log[i].seq : i \in {j \in 1..run.off : gate.log[j].real}}
Retrieved(g) == {g.log[i].seq : i \in {j \in 1..Len(g.log) : g.log[j].real}}

\* The last page of the log, of a phase whose engine is no longer recorded
EndOfLog(page) == ~page.more /\ page.ph.st # "none" /\ ~page.ph.eng

\* What the gateway is told is complete, is.  When run() returns normally, a command has
\* exited with 0 and the caller has been given all its output that the node retained: the
\* drain of remote_logs.run, except for what another collector stores between its last
\* parse and its check.  When a collection has stored the last page, its metadata with the
\* gap of what the node had dropped included, and the phase says that the engine's recording
\* has ended (finish waits for engine_sink to say so), the gateway has all that was recorded
\* of the engine, and no more will be.  Neither is said of a command that two launches at
\* once have started twice.
CompleteIsWhole ==
    [][/\ run.result = "none" /\ run'.result = "ok" =>
            /\ \E w \in Launches : cmd[w] = "ok"
            /\ ~crossed /\ ~raced => \A k \in 1..Len(nlog) :
                  nlog[k] = "out" => k - 1 \in Parsed \cup gate.gaps
       /\ \A c \in Collectors :
            col[c].pc = "meta" /\ col'[c].pc = "done" /\ EndOfLog(col[c].page) /\ ~raced =>
                  /\ \A k \in 1..Len(nlog) :
                        nlog[k] = "engine" => k - 1 \in Retrieved(gate') \cup gate'.gaps
                  /\ \A w \in Launches : sink[w].held = 0]_vars
=============================================================================
