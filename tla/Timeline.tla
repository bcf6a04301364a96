------------------------------ MODULE Timeline ------------------------------
(***************************************************************************)
(* The RunEngine together with the shared sandbox and the timeline: merges *)
(* of finished tasks that record a stable snapshot, and rollbacks that put *)
(* the maps back to a snapshot while goroutines of runs go on.             *)
(*                                                                         *)
(* A rollback removes and brings back entries of the maps under the feet   *)
(* of executeRun: a goroutine may find its run gone, or running again.     *)
(***************************************************************************)
EXTENDS RunEngine

CONSTANTS
    MaxShared,        \* bound on shared sandboxes of merges
    GitWorkspace,     \* the workspace provider is "git", not "directory"
    SnapshotCanFail   \* a workspace or a snapshot record can fail to be written

ASSUME TimelineAssumption ==
    MaxShared \in Nat /\ {GitWorkspace, SnapshotCanFail} \subseteq BOOLEAN

-----------------------------------------------------------------------------
(***************************************************************************)
(* Snapshots.                                                              *)
(***************************************************************************)
\* Mutation: the artifacts are not copied.
CaptureWithoutArtifacts(s) ==
    [reqs |-> s.reqs, plans |-> s.plans, contracts |-> s.contracts,
     status |-> s.status, task |-> s.task, run |-> s.run,
     runTask |-> s.runTask, sandbox |-> s.sandbox,
     artifact |-> [r \in RunId |-> FALSE], shared |-> s.shared]

CaptureProjectSnapshot(s) ==
    [reqs |-> s.reqs, plans |-> s.plans, contracts |-> s.contracts,
     status |-> s.status, task |-> s.task, run |-> s.run,
     runTask |-> s.runTask, sandbox |-> s.sandbox, artifact |-> s.artifact,
     shared |-> s.shared]

\* Mutation: the runs of the abandoned branch are not deleted.
RestoreKeepingRuns(s, p) ==
    [s EXCEPT !.reqs = p.reqs, !.plans = p.plans, !.contracts = p.contracts,
              !.status = p.status, !.task = p.task, !.shared = p.shared,
              !.override = EmptyState.override, !.ovTask = EmptyState.ovTask,
              !.ovOwner = EmptyState.ovOwner, !.ovScope = EmptyState.ovScope]

\* clearProjectStateLocked, then the maps of the snapshot.  Overrides and the
\* faults of the tasks present are dropped and not brought back; the conflict
\* queue and the timeline stay.
RestoreProjectFromSnapshot(s, p) ==
    [s EXCEPT !.reqs = p.reqs, !.plans = p.plans, !.contracts = p.contracts,
              !.status = p.status, !.task = p.task, !.run = p.run,
              !.runTask = p.runTask, !.sandbox = p.sandbox,
              !.artifact = p.artifact, !.shared = p.shared,
              !.override = EmptyState.override, !.ovTask = EmptyState.ovTask,
              !.ovOwner = EmptyState.ovOwner, !.ovScope = EmptyState.ovScope,
              !.faults = @ \ {t \in TaskId : TaskExists(s, t)}]

RecordSnapshot(s, branch, source, stable, workspace) ==
    [s EXCEPT !.snaps = Append(@, [branch |-> branch, source |-> source,
                                   stable |-> stable, workspace |-> workspace,
                                   state |-> CaptureProjectSnapshot(s)]),
              !.branch = branch,
              !.stable = IF stable THEN Len(s.snaps) + 1 ELSE @]

\* validateWorkspaceSnapshotLocked: only a ref to a branch that contains
\* "/shared/" is accepted; restored workspaces are on ".../rollback/..." ones.
WorkspaceRestorable(snapshot) == snapshot.workspace \in {"none", "shared"}

AddShared(s, status) == [s EXCEPT !.shared = Append(@, status)]

\* Mutation: the branch number is not counted up.
RolledBackSameBranch(s, i) == RestoreProjectFromSnapshot(s, s.snaps[i].state)

\* The maps are back, the new branch has its number, and nothing is recorded.
RolledBack(s, i) ==
    [RestoreProjectFromSnapshot(s, s.snaps[i].state) EXCEPT !.branchSeq = @ + 1]

\* restoreWorkspaceSnapshotLocked: a git workspace is restored into a shared
\* sandbox of its own.
WorkspaceRestored(s, i) ==
    IF s.snaps[i].workspace = "none" THEN RolledBack(s, i)
                                     ELSE AddShared(RolledBack(s, i), "RELEASED")

\* rollbackToSnapshotLocked to its end: the result is a snapshot on the new
\* branch, as stable as the one that it comes from.
RollbackEffect(s, i) ==
    RecordSnapshot(WorkspaceRestored(s, i), RolledBack(s, i).branchSeq, i,
                   s.snaps[i].stable,
                   IF s.snaps[i].workspace = "none" THEN "none" ELSE "rollback")

\* Where a rollback to i leaves the maps when it fails after its checks: the
\* git workspace could not be restored, or (file store) the record of the new
\* snapshot could not be written.
RollbackFailures(s, i) ==
    (IF s.snaps[i].workspace = "none" THEN {} ELSE {RolledBack(s, i)})
      \cup (IF Store = "file" THEN {WorkspaceRestored(s, i)} ELSE {})

-----------------------------------------------------------------------------
(***************************************************************************)
(* RollbackToSnapshot.                                                     *)
(***************************************************************************)
RollbackToSnapshot(i) ==
    /\ WorkspaceRestorable(mem.snaps[i])
    /\ Len(mem.snaps) < MaxSnapshots
    /\ Persist(RollbackEffect(mem, i))
    /\ UNCHANGED <<agent, last, expired>>

\* The handler returns an error; the maps stay rolled back and are not saved.
RollbackToSnapshotFails(i) ==
    /\ WorkspaceRestorable(mem.snaps[i])
    /\ SnapshotCanFail /\ mem.branchSeq < MaxSnapshots
    /\ mem' \in RollbackFailures(mem, i)
    /\ UNCHANGED <<disk, agent, last, expired>>

-----------------------------------------------------------------------------
(***************************************************************************)
(* MergeToSharedSandbox.                                                   *)
(***************************************************************************)

\* resolveMergeTasksLocked: done, with the artifact of a succeeded run.
Mergeable(s, t) ==
    /\ s.status[t] = "DONE"
    /\ \E r \in RunId : s.runTask[r] = t /\ s.run[r] = "SUCCEEDED" /\ s.artifact[r]

\* The sandbox of a merge that is blocked stays behind as FAILED.
Blocked(s) == AddShared(s, "FAILED")

\* The payload conflicts with contract c.
MergeBlockedByContract(c) ==
    /\ last.task < MaxTasks
    /\ last' = [last EXCEPT !.task = @ + 1]
    /\ Persist(RemediationEffect(Blocked(mem), last.task + 1, c))

\* The merge, or the manifest of the shared sandbox, fails.
MergeBlockedByManifest ==
    /\ SnapshotCanFail
    /\ Persist(Blocked(mem))
    /\ UNCHANGED last

\* The integration fails: the project goes back to the latest stable snapshot
\* if there is one.  An error of the rollback is only reported, and whatever it
\* left of the maps is saved.
IntegrationFails ==
    /\ \/ mem.stable = NoId /\ Persist(Blocked(mem))
       \/ /\ mem.stable # NoId /\ WorkspaceRestorable(mem.snaps[mem.stable])
          /\ Len(mem.snaps) < MaxSnapshots
          /\ Persist(RollbackEffect(Blocked(mem), mem.stable))
       \/ /\ mem.stable # NoId /\ WorkspaceRestorable(mem.snaps[mem.stable])
          /\ SnapshotCanFail /\ mem.branchSeq < MaxSnapshots
          /\ \E left \in RollbackFailures(Blocked(mem), mem.stable) : Persist(left)
       \/ /\ mem.stable # NoId /\ ~WorkspaceRestorable(mem.snaps[mem.stable])
          /\ Persist(Blocked(mem))
    /\ UNCHANGED last

\* The checkpoint is on the current branch, and follows the latest snapshot.
MergeSucceeds ==
    /\ LET merged == AddShared(mem, "RELEASED")
       IN  \/ /\ Len(mem.snaps) < MaxSnapshots
              /\ Persist(RecordSnapshot(merged, mem.branch, Len(mem.snaps), TRUE,
                                        IF GitWorkspace THEN "shared"
                                                        ELSE "none"))
           \/ Store = "file" /\ SnapshotCanFail /\ Persist(merged)
    /\ UNCHANGED last

MergeToSharedSandbox ==
    /\ \E t \in TaskId : Mergeable(mem, t)
    /\ Len(mem.shared) < MaxShared
    /\ \/ \E c \in 1..Len(mem.contracts) : MergeBlockedByContract(c)
       \/ MergeBlockedByManifest
       \/ IntegrationFails
       \/ MergeSucceeds
    /\ UNCHANGED <<agent, expired>>

-----------------------------------------------------------------------------
TimelineNext ==
    \/ Next
    \/ \E i \in 1..Len(mem.snaps) : RollbackToSnapshot(i) \/ RollbackToSnapshotFails(i)
    \/ MergeToSharedSandbox

TimelineSpec == Init /\ [][TimelineNext]_vars

-----------------------------------------------------------------------------
(***************************************************************************)
(* Properties.                                                             *)
(***************************************************************************)

\* captureProjectSnapshotStateLocked copies tasks, runs, sandboxes and artifacts
\* one map after the other while runs are in flight; what it keeps can be
\* restored at any time, since every snapshot is a coherent state.
SnapshotsAgree ==
    \A s \in {mem, disk} : \A i \in 1..Len(s.snaps) :
        Agreement(s.snaps[i].state) /\ Ordering(s.snaps[i].state)

\* executeRun checks that its run is still there before it writes, not that it
\* is still running: a goroutine that a rollback has overtaken can find its run
\* missing or running, and never an outcome that it would overwrite.
OvertakenAgentFindsNoOutcome ==
    \A r \in RunId : Live(r) => mem.run[r] \in {"ABSENT", "RUNNING"}

\* nextRollbackBranchLocked: a snapshot that does not follow the one before it
\* is on a branch that no earlier snapshot is on, and the branch that the project
\* is on is one that was handed out, also when rollbacks fail half-way or are
\* forgotten by a restart.
RollbackBranchesDistinct ==
    \A s \in {mem, disk} :
        /\ s.branch <= s.branchSeq
        /\ \A i, j \in 1..Len(s.snaps) :
             /\ s.snaps[i].source < i
             /\ /\ i < j
                /\ \/ s.snaps[j].source # j - 1
                   \/ s.snaps[j].branch # s.snaps[j - 1].branch
                => s.snaps[i].branch < s.snaps[j].branch
=============================================================================
