----------------------------- MODULE MCTimeline -----------------------------
(***************************************************************************)
(* Timeline for TLC.                                                       *)
(***************************************************************************)
EXTENDS Timeline

NoneFailed ==
    /\ \A r \in RunId : mem.run[r] # "FAILED"
    /\ \A i \in 1..Len(mem.shared) : mem.shared[i] # "FAILED"

\* The regions that are explored: the tasks of two plans with two snapshots
\* and two runs, one task with three snapshots, and the three dispatched tasks
\* with two snapshots and two merges as long as nothing fails.
Regions ==
    \/ last.task <= 2 /\ mem.contracts = <<>> /\ Len(mem.snaps) <= 2 /\ last.run <= 2
    \/ last.task <= 1 /\ last.run <= 1
    \/ /\ Len(mem.plans) <= 1 /\ Len(mem.snaps) <= 2 /\ Len(mem.shared) <= 2
       /\ disk = mem /\ mem.status[1] \in {"ABSENT", "CREATED"} /\ NoneFailed
=============================================================================
