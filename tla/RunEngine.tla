----------------------------- MODULE RunEngine ------------------------------
(***************************************************************************)
(* The Service of internal/service/service.go working on one project with  *)
(* the memory store or the file store: the handlers that plan, dispatch,   *)
(* start and retry tasks and queue human overrides, the goroutine that     *)
(* executeRun is for every run, the failure of a save, and the restart of  *)
(* the process.                                                            *)
(*                                                                         *)
(* Every handler holds s.mu from its first read to its return, so it is    *)
(* one action.  executeRun takes the lock anew for each of its critical    *)
(* sections, so every section is an action of its own and the handlers run *)
(* in between.                                                             *)
(***************************************************************************)
EXTENDS ServiceState

CONSTANTS
    Store,           \* "memory" or "file": StoreProvider
    SaveCanFail,     \* SaveState can return an error
    SandboxCanFail,  \* workspaceProvider.CreatePrivate can return an error
    RuntimeCanFail,  \* the runtime, the bundle or the workspace can fail
    CanCrash         \* the process can stop and be started again

ASSUME ConfigAssumption ==
    /\ Store \in {"memory", "file"}
    /\ {SaveCanFail, SandboxCanFail, RuntimeCanFail, CanCrash} \subseteq BOOLEAN

VARIABLES
    mem,      \* the maps of the Service
    disk,     \* service-state.json, as the last successful save left it
    agent,    \* the goroutine executeRun(r): where it is, and its task
    last,     \* the newest identifiers that nextID has returned
    expired   \* the overrides whose lease has run out

vars == <<mem, disk, agent, last, expired>>

Phase == {"none", "spawned", "prepared", "cleared", "working", "finishing",
          "failing", "exited"}
LivePhase == Phase \ {"none", "exited"}
NoAgent == [phase |-> "none", task |-> NoId]

Live(r) == agent[r].phase \in LivePhase

TypeOK ==
    /\ mem \in ServiceStates
    /\ disk \in ServiceStates
    /\ agent \in [RunId -> [phase: Phase, task: TaskId \cup {NoId}]]
    /\ last \in [task: 0..MaxTasks, run: 0..MaxRuns, override: 0..MaxOverrides]
    /\ expired \subseteq OverrideId

Init ==
    /\ mem = EmptyState
    /\ disk = EmptyState
    /\ agent = [r \in RunId |-> NoAgent]
    /\ last = [task |-> 0, run |-> 0, override |-> 0]
    /\ expired = {}

-----------------------------------------------------------------------------
(***************************************************************************)
(* persistLocked.  A save writes all maps at once (FileStore.Save renames  *)
(* a complete temporary file); when it fails, the maps in memory keep what *)
(* the handler did to them and the handler returns the error.              *)
(***************************************************************************)
\* Mutation: the tasks are in a file of their own that was not written.
PersistTorn(new) ==
    /\ mem' = new
    /\ disk' = IF Store = "file" THEN [new EXCEPT !.status = disk.status]
                               ELSE disk

PersistOK(new) ==
    /\ mem' = new
    /\ disk' = IF Store = "file" THEN new ELSE disk

PersistFails(new) ==
    /\ Store = "file" /\ SaveCanFail
    /\ mem' = new
    /\ UNCHANGED disk

Persist(new) == PersistOK(new) \/ PersistFails(new)

-----------------------------------------------------------------------------
(***************************************************************************)
(* Planning handlers.                                                      *)
(***************************************************************************)
AddRequirement ==
    /\ mem.reqs < MaxReqs
    /\ Persist(AddRequirementEffect(mem))
    /\ UNCHANGED <<agent, last, expired>>

GeneratePlan ==
    /\ mem.reqs > 0
    /\ Len(mem.plans) < MaxPlans /\ last.task < MaxTasks
    /\ last' = [last EXCEPT !.task = @ + 1]
    /\ Persist(GeneratePlanEffect(mem, last.task + 1))
    /\ UNCHANGED <<agent, expired>>

GenerateContract ==
    /\ mem.plans # <<>>
    /\ Len(mem.contracts) < MaxContracts
    /\ Persist(GenerateContractEffect(mem))
    /\ UNCHANGED <<agent, last, expired>>

\* The tasks of the latest plan and contract are returned when they are there.
DispatchTasks ==
    /\ mem.plans # <<>> /\ mem.contracts # <<>>
    /\ ~AlreadyDispatched(mem)
    /\ last.task + 3 <= MaxTasks
    /\ last' = [last EXCEPT !.task = @ + 3]
    /\ Persist(DispatchTasksEffect(mem, last.task + 1, last.task + 2,
                                   last.task + 3))
    /\ UNCHANGED <<agent, expired>>

\* ValidateContract of a payload that conflicts with contract c; a payload that
\* does not conflict changes nothing.
ValidateContract(c) ==
    /\ last.task < MaxTasks
    /\ last' = [last EXCEPT !.task = @ + 1]
    /\ Persist(RemediationEffect(mem, last.task + 1, c))
    /\ UNCHANGED <<agent, expired>>

RetryTask(t) ==
    /\ mem.status[t] = "FAILED"
    /\ last.task < MaxTasks
    /\ last' = [last EXCEPT !.task = @ + 1]
    /\ Persist(RetryTaskEffect(mem, t, last.task + 1))
    /\ UNCHANGED <<agent, expired>>

-----------------------------------------------------------------------------
(***************************************************************************)
(* Starting runs.                                                          *)
(***************************************************************************)

\* Mutation: the loop variable is shared, so only the last run is executed.
SpawnLast(rid) ==
    agent' = [r \in RunId |->
                IF /\ \E t \in DOMAIN rid : rid[t] = r
                   /\ \A t \in DOMAIN rid : rid[t] <= r
                  THEN [phase |-> "spawned", task |-> NoId]
                  ELSE agent[r]]

\* `go s.executeRun(id)' for every run of rid.
Spawn(rid) ==
    agent' = [r \in RunId |->
                IF \E t \in DOMAIN rid : rid[t] = r
                  THEN [phase |-> "spawned", task |-> NoId]
                  ELSE agent[r]]

\* rid gives the tasks of sel the identifiers that follow the newest one, up
\* to top, in the order of the tasks.
Allocates(rid, sel, top) ==
    /\ top >= last.run
    /\ {rid[t] : t \in sel} = (last.run + 1)..top
    /\ \A t, u \in sel : t < u => rid[t] < rid[u]

\* Mutation: the goroutines are started before the save.
LaunchRunsBeforeSave(rid, top) ==
    /\ last' = [last EXCEPT !.run = top]
    /\ Persist(StartTaskRunsEffect(mem, rid)) /\ Spawn(rid)
    /\ UNCHANGED expired

\* The runs of rid exist and are saved before their goroutines are started;
\* when the save fails the runs stay in memory and nothing executes them.
LaunchRuns(rid, top) ==
    /\ last' = [last EXCEPT !.run = top]
    /\ \/ PersistOK(StartTaskRunsEffect(mem, rid)) /\ Spawn(rid)
       \/ PersistFails(StartTaskRunsEffect(mem, rid)) /\ UNCHANGED agent
    /\ UNCHANGED expired

StartRun(t) ==
    /\ TaskExists(mem, t) /\ BudgetAllowsRun(mem) /\ EnsureTaskReady(mem, t)
    /\ last.run < MaxRuns
    /\ LaunchRuns([u \in {t} |-> last.run + 1], last.run + 1)

\* startTaskRunLocked returned an error: the state is saved all the same, as
\* it is when the task was not ready, and with the failed task when the
\* private sandbox could not be created.
StartRunRefused(t) ==
    /\ TaskExists(mem, t) /\ BudgetAllowsRun(mem)
    /\ \/ ~EnsureTaskReady(mem, t) /\ Persist(mem)
       \/ /\ EnsureTaskReady(mem, t) /\ SandboxCanFail
          /\ Persist(SandboxCreateFailedEffect(mem, t))
    /\ UNCHANGED <<agent, last, expired>>

ReadyTasks == {t \in TaskId : EnsureTaskReady(mem, t)}

\* The tasks of the request that are ready are started; the others are only
\* reported as blocked.  The budget is compared with each task alone.
StartParallelRun(sel) ==
    /\ sel # {} /\ BudgetAllowsRun(mem)
    /\ \E top \in RunId, rid \in [sel -> RunId] :
         Allocates(rid, sel, top) /\ LaunchRuns(rid, top)

\* The private sandbox of t could not be created after the runs of the tasks
\* before it were made: the handler returns, without a save or a goroutine.
StartParallelRunFails(sel, t) ==
    /\ SandboxCanFail /\ BudgetAllowsRun(mem)
    /\ \E top \in {last.run} \cup RunId, rid \in [sel -> RunId] :
         /\ Allocates(rid, sel, top)
         /\ last' = [last EXCEPT !.run = top]
         /\ mem' = SandboxCreateFailedEffect(StartTaskRunsEffect(mem, rid), t)
    /\ UNCHANGED <<disk, agent, expired>>

\* MarkTaskSandboxFailure: the next execution of t is to fail.
MarkTaskSandboxFailure(t) ==
    /\ TaskExists(mem, t)
    /\ Cardinality(mem.faults \cup {t}) <= MaxFaults
    /\ Persist([mem EXCEPT !.faults = @ \cup {t}])
    /\ UNCHANGED <<agent, last, expired>>

-----------------------------------------------------------------------------
(***************************************************************************)
(* Human overrides and the conflict queue.                                 *)
(***************************************************************************)
ApplyHumanOverride(t, owner, scope) ==
    /\ mem.status[t] \in {"IN_PROGRESS", "HUMAN_OVERRIDE"}
    /\ \/ /\ LeaseConflict(mem, t, owner, scope, expired)
          /\ Len(mem.conflicts) < MaxConflicts
          /\ Persist(EnqueueConflictEffect(mem))
          /\ UNCHANGED last
       \/ /\ ~LeaseConflict(mem, t, owner, scope, expired)
          /\ last.override < MaxOverrides
          /\ last' = [last EXCEPT !.override = @ + 1]
          /\ Persist(QueueOverrideEffect(mem, last.override + 1, t, owner,
                                         scope))
    /\ UNCHANGED <<agent, expired>>

ResolveConflictQueueEntry(c) ==
    /\ mem.conflicts[c] = "OPEN"
    /\ Persist(ResolveConflictEffect(mem, c))
    /\ UNCHANGED <<agent, last, expired>>

\* The clock passes the ExpiresAt of o.
ExpireLease(o) ==
    /\ mem.override[o] = "PENDING" /\ o \notin expired
    /\ expired' = expired \cup {o}
    /\ UNCHANGED <<mem, disk, agent, last>>

-----------------------------------------------------------------------------
(***************************************************************************)
(* The goroutine executeRun(r).                                            *)
(***************************************************************************)
Goto(r, phase) == agent' = [agent EXCEPT ![r].phase = phase]

\* snapshotForExecution: the goroutine keeps a copy of the run and its task.
Prepare(r) ==
    /\ agent[r].phase = "spawned"
    /\ agent' = [agent EXCEPT ![r] =
                   IF RunExists(mem, r)
                     THEN [phase |-> "prepared", task |-> mem.runTask[r]]
                     ELSE [phase |-> "failing", task |-> NoId]]
    /\ UNCHANGED <<mem, disk, last, expired>>

\* sandboxFailureForTask: a fault is used up, in memory only.
CheckFault(r) ==
    /\ agent[r].phase = "prepared"
    /\ \/ /\ agent[r].task \in mem.faults
          /\ mem' = [mem EXCEPT !.faults = @ \ {agent[r].task}]
          /\ Goto(r, "failing")
       \/ /\ agent[r].task \notin mem.faults
          /\ Goto(r, "cleared")
          /\ UNCHANGED mem
    /\ UNCHANGED <<disk, last, expired>>

\* applyPendingHumanOverrideLocked: the one safety checkpoint of a run.  The
\* newest override with a live lease is applied, and saved; an error fails the
\* run.  The other pending overrides stay pending.
Checkpoint(r) ==
    /\ agent[r].phase = "cleared"
    /\ LET active == ActiveOverrides(mem, mem.runTask[r], expired)
       IN  \/ ~RunExists(mem, r) /\ Goto(r, "failing") /\ UNCHANGED <<mem, disk>>
           \/ /\ RunExists(mem, r) /\ active = {}
              /\ Goto(r, "working") /\ UNCHANGED <<mem, disk>>
           \/ /\ RunExists(mem, r)
              /\ \E o \in active :
                   /\ \A p \in active : p <= o
                   /\ \/ /\ PersistOK(ApplyOverrideEffect(mem, o))
                         /\ Goto(r, "working")
                      \/ /\ PersistFails(ApplyOverrideEffect(mem, o))
                         /\ Goto(r, "failing")
    /\ UNCHANGED <<last, expired>>

\* executeRuntimeRun, generateDeliveryBundle, and finalizing, describing and
\* publishing the workspace: nothing in the maps changes, each can fail.
Work(r) ==
    /\ agent[r].phase = "working"
    /\ \/ Goto(r, "finishing")
       \/ RuntimeCanFail /\ Goto(r, "failing")
    /\ UNCHANGED <<mem, disk, last, expired>>

\* Mutation: the outcome is not saved.
CompleteRunUnsaved(r) ==
    /\ agent[r].phase = "finishing"
    /\ Goto(r, "exited")
    /\ mem' = CompleteRunEffect(mem, r, agent[r].task)
    /\ UNCHANGED <<disk, last, expired>>

\* The last critical section of executeRun; an error of the save is logged.
CompleteRun(r) ==
    /\ agent[r].phase = "finishing"
    /\ Goto(r, "exited")
    /\ IF TaskExists(mem, agent[r].task) /\ RunExists(mem, r)
         THEN Persist(CompleteRunEffect(mem, r, agent[r].task))
         ELSE UNCHANGED <<mem, disk>>
    /\ UNCHANGED <<last, expired>>

\* Mutation: executeRun does not return after failRun.
FailRunGoesOn(r) ==
    /\ agent[r].phase = "failing"
    /\ Goto(r, "finishing")
    /\ IF RunExists(mem, r)
         THEN Persist(FailRunEffect(mem, r))
         ELSE UNCHANGED <<mem, disk>>
    /\ UNCHANGED <<last, expired>>

\* failRun; an error of the save is logged.
FailRun(r) ==
    /\ agent[r].phase = "failing"
    /\ Goto(r, "exited")
    /\ IF RunExists(mem, r)
         THEN Persist(FailRunEffect(mem, r))
         ELSE UNCHANGED <<mem, disk>>
    /\ UNCHANGED <<last, expired>>

AgentStep(r) ==
    \/ Prepare(r) \/ CheckFault(r) \/ Checkpoint(r) \/ Work(r)
    \/ CompleteRun(r) \/ FailRun(r)

-----------------------------------------------------------------------------
\* The process stops, and New loads service-state.json: no goroutine is left,
\* and nothing starts one for a run that was running.
Restart ==
    /\ CanCrash /\ Store = "file"
    /\ mem' = disk
    /\ agent' = [r \in RunId |-> IF Live(r) THEN NoAgent ELSE agent[r]]
    /\ UNCHANGED <<disk, last, expired>>

Handler ==
    \/ AddRequirement \/ GeneratePlan \/ GenerateContract \/ DispatchTasks
    \/ \E c \in 1..Len(mem.contracts) : ValidateContract(c)
    \/ \E t \in TaskId : \/ RetryTask(t) \/ StartRun(t) \/ StartRunRefused(t)
                         \/ MarkTaskSandboxFailure(t)
    \/ \E sel \in SUBSET ReadyTasks : StartParallelRun(sel)
    \/ \E t \in ReadyTasks : \E sel \in SUBSET (ReadyTasks \ {t}) :
         StartParallelRunFails(sel, t)
    \/ \E t \in TaskId, owner \in Owners, scope \in Scopes :
         ApplyHumanOverride(t, owner, scope)
    \/ \E c \in 1..Len(mem.conflicts) : ResolveConflictQueueEntry(c)

Next ==
    \/ Handler
    \/ \E o \in OverrideId : ExpireLease(o)
    \/ \E r \in RunId : AgentStep(r)
    \/ Restart

Spec == Init /\ [][Next]_vars

\* The Go scheduler runs every goroutine, sync.RWMutex lets every goroutine in,
\* and the runtime call is bounded by RuntimeTimeout.  Handlers are requests of
\* clients: nothing makes them happen.
FairSpec == Spec /\ \A r \in RunId : WF_vars(AgentStep(r))

-----------------------------------------------------------------------------
(***************************************************************************)
(* Safety.                                                                 *)
(***************************************************************************)

\* startTaskRunLocked, executeRun and failRun change four maps each; whatever
\* fails, is interleaved or restarted, the maps agree in memory and on disk.
RunsAndTasksAgree == Agreement(mem) /\ Agreement(disk)

\* ensureTaskReadyLocked is checked when a run is started; nothing that happens
\* later, a restart from an older file included, leaves a run whose task had
\* to wait for a task that is not done.
DependenciesDone == Ordering(mem) /\ Ordering(disk)

\* No goroutine works on a run that has ended, or on one that a restart would
\* forget: StartRun and StartParallelRun save before they start goroutines, so
\* no run is completed or failed twice.
LiveAgentOwnsRun ==
    \A r \in RunId : Live(r) =>
        /\ mem.run[r] = "RUNNING"
        /\ Store = "file" => disk.run[r] = "RUNNING"
        /\ agent[r].phase # "spawned" => agent[r].task = mem.runTask[r]

\* ApplyHumanOverride refuses a second owner, and the checkpoint resumes the
\* task that it applies an override to.
PausedHasRequest == Paused(mem) /\ Paused(disk)

\* findActiveOverrideConflictLocked: two owners never hold live leases of the
\* same scope of a task.
OverrideLeaseExclusive ==
    \A t \in TaskId : \A o, p \in ActiveOverrides(mem, t, expired) :
        mem.ovScope[o] = mem.ovScope[p] => mem.ovOwner[o] = mem.ovOwner[p]

\* When nothing fails, every run that is shown as running is executed.
EveryRunHasAgent ==
    \A r \in RunId : mem.run[r] = "RUNNING" => Live(r)

\* When nothing fails, a restart would lose nothing but the news that a
\* simulated fault has been used up.
StoreIsCurrent ==
    /\ mem = [disk EXCEPT !.faults = mem.faults]
    /\ mem.faults \subseteq disk.faults

\* While no save or sandbox fails and the process is up, what the memory shows
\* is backed: a run by its goroutine, everything else by the file.
MemoryIsBacked == EveryRunHasAgent /\ StoreIsCurrent

\* What a client of the stored state sees is the abstract board, with failing
\* saves and restarts: no outcome that was written is ever taken back.
DiskBoard == INSTANCE Board WITH
    TaskIds <- TaskId, RunIds <- RunId, status <- disk.status,
    task <- disk.task, run <- disk.run, runTask <- disk.runTask
DiskIsBoard == DiskBoard!Spec

-----------------------------------------------------------------------------
(***************************************************************************)
(* Liveness.                                                               *)
(***************************************************************************)

\* Every run that is started ends, whatever the failures of its execution.
RunsTerminate ==
    \A r \in RunId : mem.run[r] = "RUNNING" ~> mem.run[r] # "RUNNING"
=============================================================================
