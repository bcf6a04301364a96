----------------------------- MODULE Workspaces -----------------------------
(***************************************************************************)
(* The git workspaces of a project: a worktree and a branch per sandbox,   *)
(* the shared repository that they belong to, the remote that branches are *)
(* published to, and what the maps of the Service say about them.  Git is  *)
(* changed at once and is not part of any save or rollback of the maps;    *)
(* a save can fail, or the process stop before it, after git has changed.  *)
(*                                                                         *)
(* A commit is the set of the changes in its history, so "is an ancestor   *)
(* of" is inclusion.  Rebasing writes a change anew: <<s, k>> is the k-th  *)
(* writing of the work in sandbox s, <<0, k>> the k-th upstream change.    *)
(***************************************************************************)
EXTENDS Naturals, Sequences, SequencesExt, FiniteSets

CONSTANTS
    MaxSandboxes,     \* bound on sandboxes, private and shared
    MaxSnapshots,     \* bound on snapshots
    MaxUpstream,      \* bound on upstream changes
    MaxRebases,       \* bound on rebases of one workspace
    MaxFaults,        \* bound on saves and rollbacks that fail
    PushEnabled,      \* cfg.WorkspaceGitPushEnabled
    CleanupEnabled,   \* cfg.WorkspaceGitCleanupEnabled, after a merge
    DeleteBranches    \* cfg.WorkspaceGitCleanupDeleteBranches, or the request

ASSUME WorkspacesAssumption ==
    /\ {MaxSandboxes, MaxSnapshots, MaxUpstream, MaxRebases, MaxFaults} \subseteq Nat
    /\ {PushEnabled, CleanupEnabled, DeleteBranches} \subseteq BOOLEAN

SandboxId == 1 .. MaxSandboxes
Change == (0 .. MaxSandboxes) \X (0 .. MaxUpstream + MaxRebases)

NoCommit == {<<0, 0>>}   \* no commit at all: <<0, 0>> is never written

VARIABLES
    maps,      \* maps[s]: the sandbox s in the maps of the Service
    snaps,     \* the snapshots of the project
    behind,    \* history: the sandboxes whose entry in maps may be from before
               \* a rebase, because a rollback or a restart brought it back
    disk,      \* the three above as they are in the store
    tree,      \* tree[s]: the worktree of s
    branch,    \* branch[s]: the head of the branch of s
    remote,    \* remote[s]: that branch in the remote repository
    main,      \* the base ref, which is also HEAD of the repository
    writing,   \* writing[s]: how often the work of s has been rebased
    agent,     \* the sandboxes that goroutines of runs work in
    lastId,    \* the newest sandbox
    faults     \* saves and rollbacks that have failed

store == <<maps, snaps, behind, disk, faults>>
git == <<tree, branch, remote, main, writing>>
vars == <<store, git, agent, lastId>>

Absent == [scope |-> "NONE", status |-> "NONE", head |-> NoCommit, gone |-> FALSE]

Private(status, head) ==
    [scope |-> "PRIVATE", status |-> status, head |-> head, gone |-> FALSE]

Shared(status, head) ==
    [scope |-> "SHARED", status |-> status, head |-> head, gone |-> FALSE]

TreeStatus == {"none", "clean", "manifest", "edited"}

TypeOK ==
    /\ \A s \in SandboxId :
         /\ maps[s].scope \in {"NONE", "PRIVATE", "SHARED"}
         /\ maps[s].status \in {"NONE", "ACTIVE", "RELEASED", "FAILED"}
         /\ maps[s].head \subseteq Change
         /\ maps[s].gone \in BOOLEAN
         /\ maps[s].status = "RELEASED" => maps[s].head # NoCommit
    /\ tree \in [SandboxId -> TreeStatus]
    /\ \A s \in SandboxId : branch[s] \subseteq Change /\ remote[s] \subseteq Change
    /\ main \subseteq Change
    /\ writing \in [SandboxId -> 0 .. MaxRebases]
    /\ agent \subseteq SandboxId
    /\ lastId \in 0 .. MaxSandboxes
    /\ Len(snaps) <= MaxSnapshots
    /\ behind \subseteq SandboxId /\ disk.behind \subseteq SandboxId
    /\ faults \in 0 .. MaxFaults

Init ==
    /\ maps = [s \in SandboxId |-> Absent]
    /\ snaps = <<>>
    /\ behind = {}
    /\ disk = [maps |-> [s \in SandboxId |-> Absent], snaps |-> <<>>, behind |-> {}]
    /\ tree = [s \in SandboxId |-> "none"]
    /\ branch = [s \in SandboxId |-> NoCommit]
    /\ remote = [s \in SandboxId |-> NoCommit]
    /\ main = {}
    /\ writing = [s \in SandboxId |-> 0]
    /\ agent = {}
    /\ lastId = 0
    /\ faults = 0

\* persistLocked.  Memory has changed before the save, and keeps its changes if
\* the save fails; what the store says of the sandboxes that have just been
\* rewritten is then from before their rebase.
InMemory(m, ss, b) == maps' = m /\ snaps' = ss /\ behind' = b

Persist(m, ss, b) ==
    /\ InMemory(m, ss, b)
    /\ disk' = [maps |-> m, snaps |-> ss, behind |-> b]
    /\ UNCHANGED faults

PersistFails(m, ss, b, rewritten) ==
    /\ faults < MaxFaults /\ faults' = faults + 1
    /\ InMemory(m, ss, b)
    /\ disk' = [disk EXCEPT !.behind = @ \cup rewritten]

Save(m, ss, b, rewritten) == Persist(m, ss, b) \/ PersistFails(m, ss, b, rewritten)

IsAncestor(c, d) == c \subseteq d

-----------------------------------------------------------------------------
(***************************************************************************)
(* Git: what Publish does to the remote.                                   *)
(***************************************************************************)
\* A push without force only moves a branch forward.
Accepted(s, commit) ==
    remote[s] = NoCommit \/ IsAncestor(remote[s], commit)

Pushed(s, commit) ==
    IF PushEnabled THEN [remote EXCEPT ![s] = commit] ELSE remote

-----------------------------------------------------------------------------
(***************************************************************************)
(* A run: CreatePrivate under the lock, the agent's work and its commit    *)
(* without it, and the outcome under the lock.  No goroutine is started if *)
(* the save of a new run fails; the failed save of an outcome is logged.   *)
(***************************************************************************)
CreatePrivate ==
    LET s == lastId + 1
        new == [maps EXCEPT ![s] = Private("ACTIVE", NoCommit)]
    IN  /\ s \in SandboxId
        /\ lastId' = s
        /\ \/ Persist(new, snaps, behind) /\ agent' = agent \cup {s}
           \/ PersistFails(new, snaps, behind, {}) /\ UNCHANGED agent
        /\ branch' = [branch EXCEPT ![s] = main]
        /\ tree' = [tree EXCEPT ![s] = "clean"]
        /\ UNCHANGED <<remote, main, writing>>

\* commitGitWorkspaceChanges in the worktree of a run.
Committed(s) == branch[s] \cup {<<s, 0>>}

\* generateDeliveryBundle and FinalizePrivateRun: add, commit, manifest.
FinalizePrivateRun(s) ==
    /\ s \in agent
    /\ <<s, 0>> \notin branch[s]
    /\ branch' = [branch EXCEPT ![s] = Committed(s)]
    /\ tree' = [tree EXCEPT ![s] = "manifest"]
    /\ UNCHANGED <<store, remote, main, writing, agent, lastId>>

\* Publish and then the success of the run, which names the head of the
\* worktree; a sandbox that a rollback has removed stays removed.
CompleteRun(s) ==
    /\ s \in agent
    /\ <<s, 0>> \in branch[s]
    /\ remote' = Pushed(s, branch[s])
    /\ IF maps[s] = Absent THEN UNCHANGED store
       ELSE Save([maps EXCEPT ![s] = Private("RELEASED", branch[s])], snaps, behind, {})
    /\ agent' = agent \ {s}
    /\ UNCHANGED <<tree, branch, main, writing, lastId>>

\* Any error of the run, also one of Publish; half-done work stays behind.
FailRun(s) ==
    /\ s \in agent
    /\ IF maps[s] = Absent THEN UNCHANGED store
       ELSE Save([maps EXCEPT ![s].status = "FAILED"], snaps, behind, {})
    /\ agent' = agent \ {s}
    /\ UNCHANGED <<tree, branch, remote, main, writing, lastId>>

-----------------------------------------------------------------------------
(***************************************************************************)
(* Cleanup.  Only worktrees of released private sandboxes without changes  *)
(* of their own are removed; a branch only if its head is that of the      *)
(* metadata, a retained head contains it, and git branch -d agrees (the    *)
(* branch is merged into HEAD of the repository).                          *)
(***************************************************************************)
\* retainedWorkspaceHeadsLocked
RetainedHeads(m, ss) ==
    {m[s].head : s \in {x \in SandboxId : /\ m[x].scope = "SHARED"
                                          /\ m[x].status = "RELEASED"}}
    \cup {ss[i].commit : i \in 1 .. Len(ss)} \cup {main}

\* Mutation: the status of the sandbox is not looked at.
CleanableAnyStatus(m, s) ==
    m[s].scope = "PRIVATE" /\ tree[s] \in {"clean", "manifest", "none"}

Cleanable(m, s) ==
    /\ m[s].scope = "PRIVATE" /\ m[s].status = "RELEASED" /\ m[s].head # NoCommit
    /\ tree[s] \in {"clean", "manifest", "none"}

\* Mutation: branch -D without a look at the retained heads.
DeletableForced(m, ss, s) == branch[s] = m[s].head

Deletable(m, ss, s) ==
    /\ branch[s] = m[s].head
    /\ \E head \in RetainedHeads(m, ss) : IsAncestor(m[s].head, head)
    /\ IsAncestor(branch[s], main)

\* cleanupWorkspacesLocked over the selected sandboxes S: the maps, the
\* worktrees and the branches afterwards.
CleanedTrees(m, S) ==
    [s \in SandboxId |-> IF s \in S /\ Cleanable(m, s) THEN "none" ELSE tree[s]]

CleanedBranches(m, ss, S) ==
    [s \in SandboxId |->
        IF s \in S /\ DeleteBranches /\ Cleanable(m, s) /\ Deletable(m, ss, s)
        THEN NoCommit ELSE branch[s]]

CleanedMaps(m, S) ==
    [s \in SandboxId |-> IF s \in S /\ Cleanable(m, s)
                         THEN [m[s] EXCEPT !.gone = TRUE] ELSE m[s]]

\* CleanupWorkspaces, and CleanupOnShutdown: nothing is persisted.
CleanupWorkspaces(S) ==
    /\ tree' = CleanedTrees(maps, S)
    /\ branch' = CleanedBranches(maps, snaps, S)
    /\ maps' = CleanedMaps(maps, S)
    /\ UNCHANGED <<snaps, behind, disk, faults, remote, main, writing, agent, lastId>>

-----------------------------------------------------------------------------
(***************************************************************************)
(* MergeToSharedSandbox of the released sandboxes S.  The base is the      *)
(* workspace of the latest snapshot, or the base ref.                      *)
(***************************************************************************)
LatestWorkspaceHead == IF snaps = <<>> THEN main ELSE Last(snaps).commit

Mergeable(S) == \A s \in S : maps[s].scope = "PRIVATE" /\ maps[s].status = "RELEASED"

\* Mutation: the merge starts from the base ref.
MergedFromBase(m, S) == main \cup (UNION {maps[s].head : s \in S}) \cup {<<m, 0>>}

Merged(m, S) ==
    LatestWorkspaceHead \cup (UNION {maps[s].head : s \in S}) \cup {<<m, 0>>}

Snapshot(m, ss, commit, kind) ==
    Append(ss, [commit |-> commit, kind |-> kind, maps |-> m])

MergeShared(S) ==
    LET m == lastId + 1
        commit == Merged(m, S)
        done == [maps EXCEPT ![m] = Shared("RELEASED", commit)]
        ss == Snapshot(done, snaps, commit, "shared")
        cleaned == IF CleanupEnabled THEN S ELSE {}
    IN  /\ m \in SandboxId /\ Len(snaps) < MaxSnapshots
        /\ Mergeable(S)
        /\ lastId' = m
        /\ Save(CleanedMaps(done, cleaned), ss, behind, {})
        /\ tree' = [CleanedTrees(done, cleaned) EXCEPT ![m] = "manifest"]
        /\ branch' = [CleanedBranches(done, ss, cleaned) EXCEPT ![m] = commit]
        /\ remote' = Pushed(m, commit)
        /\ UNCHANGED <<main, writing, agent>>

\* A conflict (merge --abort) or an error before the manifest is committed: the
\* merges made so far stay on the branch.
MergeSharedFails(S) ==
    LET m == lastId + 1
    IN  /\ m \in SandboxId
        /\ Mergeable(S)
        /\ lastId' = m
        /\ \E merged \in SUBSET S :
              branch' = [branch EXCEPT
                           ![m] = LatestWorkspaceHead
                                     \cup UNION {maps[s].head : s \in merged}]
        /\ Save([maps EXCEPT ![m] = Shared("FAILED", NoCommit)], snaps, behind, {})
        /\ tree' = [tree EXCEPT ![m] = "clean"]
        /\ UNCHANGED <<remote, main, writing, agent>>

\* The push fails, or the integration after it: the merge is complete and may
\* be published, but the sandbox has failed and there is no snapshot.
IntegrationFails(S) ==
    LET m == lastId + 1
        commit == Merged(m, S)
    IN  /\ m \in SandboxId
        /\ Mergeable(S)
        /\ lastId' = m
        /\ branch' = [branch EXCEPT ![m] = commit]
        /\ remote' \in {remote, Pushed(m, commit)}
        /\ Save([maps EXCEPT ![m] = Shared("FAILED", commit)], snaps, behind, {})
        /\ tree' = [tree EXCEPT ![m] = "manifest"]
        /\ UNCHANGED <<main, writing, agent>>

-----------------------------------------------------------------------------
(***************************************************************************)
(* RebaseWorkspaces onto the base ref.                                     *)
(***************************************************************************)
Rebasable(s) ==
    /\ maps[s].scope = "PRIVATE" /\ maps[s].status = "RELEASED"
    /\ ~maps[s].gone
    /\ tree[s] \in {"clean", "manifest"}
    /\ branch[s] = maps[s].head

\* git rebase leaves a change out that the target has in any writing.
InTarget(s) == \E k \in 0 .. writing[s] : <<s, k>> \in main

Rebased(s) == main \cup (IF InTarget(s) THEN {} ELSE {<<s, writing[s] + 1>>})

\* Mutation: the new head is not written to the sandbox.
RebasedMapsStale(s, commit) == maps

RebasedMaps(s, commit) == [maps EXCEPT ![s].head = commit]

\* The work is written anew on top of the target; the branch is published if
\* the request says so and the remote takes it (REBASED_PUBLISH_FAILED if
\* not).
Rebase(s, publish) ==
    LET commit == Rebased(s)
    IN  /\ Rebasable(s)
        /\ ~IsAncestor(main, branch[s])
        /\ writing[s] < MaxRebases
        /\ writing' = [writing EXCEPT ![s] = @ + 1]
        /\ branch' = [branch EXCEPT ![s] = commit]
        /\ tree' = [tree EXCEPT ![s] = "manifest"]
        /\ remote' = IF publish /\ Accepted(s, commit) THEN Pushed(s, commit)
                                                        ELSE remote
        /\ Save(RebasedMaps(s, commit), snaps, behind \ {s}, {s})
        /\ UNCHANGED <<main, agent, lastId>>

\* The conflict is logged and the rebase aborted; only the manifest is gone.
\* The maps are saved as after every rebase that is not a dry run.
RebaseConflicts(s) ==
    /\ Rebasable(s)
    /\ ~IsAncestor(main, branch[s]) /\ ~InTarget(s)
    /\ tree' = [tree EXCEPT ![s] = "clean"]
    /\ Save(maps, snaps, behind, {})
    /\ UNCHANGED <<branch, remote, main, writing, agent, lastId>>

\* UP_TO_DATE: the branch contains the target; the manifest is written anew.
RebaseUpToDate(s) ==
    /\ Rebasable(s)
    /\ IsAncestor(main, branch[s])
    /\ tree' = [tree EXCEPT ![s] = "manifest"]
    /\ Save(maps, snaps, behind, {})
    /\ UNCHANGED <<branch, remote, main, writing, agent, lastId>>

-----------------------------------------------------------------------------
(***************************************************************************)
(* RollbackToSnapshot: the maps of the snapshot, and its commit in a       *)
(* worktree of its own on a rollback branch.                               *)
(***************************************************************************)
\* The sandboxes of which a snapshot may name a head from before a rebase.
Rewritten == {s \in SandboxId : writing[s] > 0}

RestoreSharedSnapshot(i) ==
    LET m == lastId + 1
        commit == snaps[i].commit
        restored == [snaps[i].maps EXCEPT ![m] = Shared("RELEASED", commit)]
    IN  /\ m \in SandboxId /\ Len(snaps) < MaxSnapshots
        /\ snaps[i].kind = "shared"
        /\ lastId' = m
        /\ branch' = [branch EXCEPT ![m] = commit]
        /\ tree' = [tree EXCEPT ![m] = "manifest"]
        /\ Save(restored, Snapshot(restored, snaps, commit, "rollback"), Rewritten, {})
        /\ UNCHANGED <<remote, main, writing, agent>>

\* The maps are replaced before git is asked for the worktree: if it says no,
\* they stay replaced, and nothing is saved.
RestoreFails(i) ==
    /\ faults < MaxFaults /\ faults' = faults + 1
    /\ snaps[i].kind = "shared"
    /\ InMemory(snaps[i].maps, snaps, Rewritten)
    /\ UNCHANGED <<disk, git, agent, lastId>>

-----------------------------------------------------------------------------
(***************************************************************************)
(* What others do: a person edits files in a worktree that is not busy,    *)
(* and developers move the base ref, by new work or by merging a published *)
(* or shared branch.                                                       *)
(***************************************************************************)
Edit(s) ==
    /\ tree[s] # "none" /\ s \notin agent
    /\ tree' = [tree EXCEPT ![s] = "edited"]
    /\ UNCHANGED <<store, branch, remote, main, writing, agent, lastId>>

Upstream ==
    /\ \/ \E k \in 1 .. MaxUpstream :
            /\ <<0, k>> \notin main
            /\ \A j \in 1 .. (k - 1) : <<0, j>> \in main
            /\ main' = main \cup {<<0, k>>}
       \/ \E s \in SandboxId :
            /\ maps[s].scope = "SHARED" /\ branch[s] # NoCommit
            /\ main' = main \cup branch[s] /\ main' # main
    /\ UNCHANGED <<store, tree, branch, remote, writing, agent, lastId>>

Restart ==
    /\ InMemory(disk.maps, disk.snaps, disk.behind)
    /\ agent' = {}
    /\ UNCHANGED <<disk, faults, git, lastId>>

RebaseWorkspaces(s) ==
    \/ \E publish \in BOOLEAN : Rebase(s, publish)
    \/ RebaseConflicts(s) \/ RebaseUpToDate(s)

Present == {s \in SandboxId : maps[s] # Absent}

Next ==
    \/ CreatePrivate
    \/ \E s \in SandboxId :
          \/ FinalizePrivateRun(s) \/ CompleteRun(s) \/ FailRun(s)
          \/ RebaseWorkspaces(s) \/ Edit(s)
    \/ \E S \in (SUBSET Present) \ {{}} :
          \/ MergeShared(S) \/ MergeSharedFails(S) \/ IntegrationFails(S)
          \/ CleanupWorkspaces(S)
    \/ \E i \in 1 .. Len(snaps) : RestoreSharedSnapshot(i) \/ RestoreFails(i)
    \/ Upstream
    \/ Restart

Spec == Init /\ [][Next]_vars

-----------------------------------------------------------------------------
(***************************************************************************)
(* Properties.                                                             *)
(***************************************************************************)
\* No cleanup, merge, rollback or rebase removes the worktree or the branch of
\* a goroutine that is at work, or a worktree in which a person has left
\* uncommitted changes; and no push takes back a commit that was published.
NothingTakenAway ==
    [][\A s \in SandboxId :
          /\ s \in agent' => tree'[s] # "none" /\ branch'[s] # NoCommit
          /\ tree[s] = "edited" => tree'[s] # "none"
          /\ remote[s] # NoCommit => IsAncestor(remote[s], remote'[s])]_vars

Refs == {branch[s] : s \in SandboxId} \cup {main}

Reachable(commit) == \E ref \in Refs : ref # NoCommit /\ IsAncestor(commit, ref)

\* The head that a released sandbox names, in memory or in the store, and the
\* commit that a snapshot names are in the history of a branch, so that git
\* keeps them: the work of a finished run can still be merged, and a snapshot
\* restored.  Only an entry from before a rebase, which a rollback or the loss
\* of the save of the rebase has brought back, can name a head that is gone.
WorkIsReachable ==
    /\ \A s \in SandboxId :
          /\ maps[s].status = "RELEASED" => Reachable(maps[s].head) \/ s \in behind
          /\ disk.maps[s].status = "RELEASED"
                => Reachable(disk.maps[s].head) \/ s \in disk.behind
    /\ \A ss \in {snaps, disk.snaps} : \A i \in 1 .. Len(ss) : Reachable(ss[i].commit)

\* The branch of a released private sandbox, if it exists, is at the head that
\* the metadata names: otherwise rebase and cleanup skip it for ever.  The
\* exception is the same.
MetadataIsCurrent ==
    \A s \in SandboxId :
        maps[s].scope = "PRIVATE" /\ maps[s].status = "RELEASED"
            => branch[s] \in {NoCommit, maps[s].head} \/ s \in behind

BuildUp(ss) ==
    \A i, j \in 1 .. Len(ss) :
        i < j /\ (\A k \in i .. j : ss[k].kind = "shared")
            => IsAncestor(ss[i].commit, ss[j].commit)

\* A merge builds on the snapshot before it: the work of every snapshot that
\* was taken on the way is in the later ones, until a rollback, also in the
\* snapshots that a save that failed has left in the store.
SnapshotsBuildUp == BuildUp(snaps) /\ BuildUp(disk.snaps)
=============================================================================
