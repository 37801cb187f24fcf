----------------------------- MODULE MCAttempts -----------------------------
(***************************************************************************)
(* Instances of Attempts for TLC.                                          *)
(***************************************************************************)
EXTENDS Attempts

Plain == [engine |-> FALSE, lost |-> FALSE, slow |-> FALSE, records |-> 0, drops |-> 0,
          faults |-> 1, others |-> {}]

\* A launch that goes unanswered and is repeated; workers that die
Launching == [Plain EXCEPT !.lost = TRUE, !.others = {Probe}]

\* A command that is stopped for its time and may survive that
Stuck == [Plain EXCEPT !.slow = TRUE, !.records = 1, !.others = {Probe}]

\* Two collectors, and lost answers or restarts
Delivering == [Plain EXCEPT !.records = 2, !.others = {Api}]

\* Two collectors, and records that are dropped before or while they are read
Dropping == [Plain EXCEPT !.records = 2, !.drops = 1, !.faults = 0, !.others = {Api}]

\* An engine whose recording is stopped, or the command cancelled; its sink fails, a
\* process dies, an answer is lost or the node restarts
Serving == [Plain EXCEPT !.engine = TRUE, !.records = 1, !.others = {Closing}]

\* An engine whose only record is dropped while it is asked for
Forgetting == [Plain EXCEPT !.engine = TRUE, !.records = 1, !.drops = 1, !.faults = 0]

All == {Launching, Stuck, Delivering, Dropping, Serving, Forgetting}
=============================================================================
