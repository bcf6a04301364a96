---------------------------- MODULE ServiceState ----------------------------
(***************************************************************************)
(* The state that the Service keeps for one project, and the effect that   *)
(* each handler of internal/service/service.go has on it.                  *)
(*                                                                         *)
(* The service holds its maps in memory and writes all of them as one      *)
(* persistedServiceState.  Both are the same kind of value here: a record  *)
(* in ServiceStates.  The effect of a handler is an operator from records  *)
(* to records, so that what is said of the memory (an invariant, a lemma)  *)
(* can be said of the persisted copy with the same words.                  *)
(*                                                                         *)
(* Identifiers come from nextID, which is random; they are naturals here,  *)
(* handed out in increasing order and never reused.  taskOrder and         *)
(* runOrder append each new identifier, so they are the numeric order of   *)
(* the entries present.  A private sandbox and an artifact are created for *)
(* exactly one run and are indexed by its identifier.                      *)
(***************************************************************************)
EXTENDS Naturals, Sequences, FiniteSets

CONSTANTS
    MaxReqs,       \* bound on requirements of the project
    MaxPlans,      \* bound on plan versions
    MaxContracts,  \* bound on contract versions
    MaxTasks,      \* bound on task identifiers ever handed out
    MaxRuns,       \* bound on run identifiers ever handed out
    MaxOverrides,  \* bound on override identifiers ever handed out
    MaxConflicts,  \* bound on entries of the HITL conflict queue
    MaxFaults,     \* bound on simulated sandbox faults waiting at a time
    MaxSnapshots,  \* bound on snapshots ever recorded
    Owners,        \* human operators that request overrides
    Scopes,        \* lock scopes that an override can name
    BlockBudget    \* TokenBudgetBlockUSD in cost units; 0 disables the check

ASSUME BoundsAssumption ==
    /\ {MaxReqs, MaxPlans, MaxContracts, MaxTasks} \subseteq Nat
    /\ {MaxRuns, MaxOverrides, MaxConflicts, MaxFaults} \subseteq Nat
    /\ {MaxSnapshots, BlockBudget} \subseteq Nat

-----------------------------------------------------------------------------
(***************************************************************************)
(* Types.  "ABSENT" stands for an identifier that is not a key of the map. *)
(***************************************************************************)
TaskId == 1..MaxTasks
RunId == 1..MaxRuns
OverrideId == 1..MaxOverrides
NoId == 0
NoOwner == "nobody"
NoScope == "unscoped"

TaskStatus == {"CREATED", "IN_PROGRESS", "HUMAN_OVERRIDE", "DONE", "FAILED"}
RunStatus == {"RUNNING", "SUCCEEDED", "FAILED"}
SandboxStatus == {"ACTIVE", "RELEASED", "FAILED"}
OverrideStatus == {"PENDING", "APPLIED"}
ConflictStatus == {"OPEN", "RESOLVED"}

DispatchTypes ==
    {"BACKEND_IMPLEMENTATION", "FRONTEND_IMPLEMENTATION", "INTEGRATION_REVIEW"}
TaskType == DispatchTypes \cup {"SPRINT1_EXECUTE", "CONTRACT_REWORK"}

\* What NewTask fixes for the life of a task: its type, plan, the contract of
\* its inputRef (NoId for a plan:// reference) and the tasks it depends on.
TaskSpec == [type: TaskType, plan: Nat, contract: Nat, deps: SUBSET TaskId]
NoTaskSpec ==
    [type |-> "SPRINT1_EXECUTE", plan |-> NoId, contract |-> NoId, deps |-> {}]

\* projectSnapshotState: the part of the maps that a snapshot keeps.  `shared'
\* holds the status of the shared sandboxes in the order of their creation.
ProjectStates ==
    [reqs      : Nat,
     plans     : Seq(Nat),
     contracts : Seq(Nat),
     status    : [TaskId -> TaskStatus \cup {"ABSENT"}],
     task      : [TaskId -> TaskSpec],
     run       : [RunId -> RunStatus \cup {"ABSENT"}],
     runTask   : [RunId -> TaskId \cup {NoId}],
     sandbox   : [RunId -> SandboxStatus \cup {"ABSENT"}],
     artifact  : [RunId -> BOOLEAN],
     shared    : Seq(SandboxStatus)]

\* A branch is numbered by the branchSeq that its name ends in; 0 is "main".
\* `workspace' is the kind of git branch that WorkspaceStateRef names, if any.
Snapshots ==
    [branch: Nat, source: Nat, stable: BOOLEAN,
     workspace: {"none", "shared", "rollback"}, state: ProjectStates]

ServiceStates ==
    [reqs      : Nat,             \* number of requirements
     plans     : Seq(Nat),        \* plan version -> requirement it is built from
     contracts : Seq(Nat),        \* contract version -> plan it is built from
     status    : [TaskId -> TaskStatus \cup {"ABSENT"}],
     task      : [TaskId -> TaskSpec],
     run       : [RunId -> RunStatus \cup {"ABSENT"}],
     runTask   : [RunId -> TaskId \cup {NoId}],
     sandbox   : [RunId -> SandboxStatus \cup {"ABSENT"}],
     artifact  : [RunId -> BOOLEAN],
     shared    : Seq(SandboxStatus),
     override  : [OverrideId -> OverrideStatus \cup {"ABSENT"}],
     ovTask    : [OverrideId -> TaskId \cup {NoId}],
     ovOwner   : [OverrideId -> Owners \cup {NoOwner}],
     ovScope   : [OverrideId -> Scopes \cup {NoScope}],
     conflicts : Seq(ConflictStatus),
     faults    : SUBSET TaskId,
     snaps     : Seq(Snapshots),  \* the timeline, oldest first
     branch    : Nat,             \* projectBranch
     stable    : Nat,             \* stableBranch: index of a snapshot, or NoId
     branchSeq : Nat]

\* The maps right after CreateProject: resetStateLocked made them empty.
EmptyState ==
    [reqs      |-> 0,
     plans     |-> <<>>,
     contracts |-> <<>>,
     status    |-> [t \in TaskId |-> "ABSENT"],
     task      |-> [t \in TaskId |-> NoTaskSpec],
     run       |-> [r \in RunId |-> "ABSENT"],
     runTask   |-> [r \in RunId |-> NoId],
     sandbox   |-> [r \in RunId |-> "ABSENT"],
     artifact  |-> [r \in RunId |-> FALSE],
     shared    |-> <<>>,
     override  |-> [o \in OverrideId |-> "ABSENT"],
     ovTask    |-> [o \in OverrideId |-> NoId],
     ovOwner   |-> [o \in OverrideId |-> NoOwner],
     ovScope   |-> [o \in OverrideId |-> NoScope],
     conflicts |-> <<>>,
     faults    |-> {},
     snaps     |-> <<>>,
     branch    |-> 0,
     stable    |-> NoId,
     branchSeq |-> 0]

-----------------------------------------------------------------------------
(***************************************************************************)
(* Tasks: the transition table and the readiness check.                    *)
(***************************************************************************)
AllowedTransitions ==
    {<<"CREATED", "IN_PROGRESS">>,
     <<"IN_PROGRESS", "DONE">>, <<"IN_PROGRESS", "FAILED">>,
     <<"IN_PROGRESS", "HUMAN_OVERRIDE">>,
     <<"HUMAN_OVERRIDE", "IN_PROGRESS">>,
     <<"HUMAN_OVERRIDE", "DONE">>, <<"HUMAN_OVERRIDE", "FAILED">>}

IsAllowedTransition(current, next) == <<current, next>> \in AllowedTransitions

\* The status a task has after TransitionTo(next); a refused transition is an
\* error that leaves the task as it was.
TransitionTo(current, next) ==
    IF IsAllowedTransition(current, next) THEN next ELSE current

TaskExists(s, t) == s.status[t] # "ABSENT"
RunExists(s, r) == s.run[r] # "ABSENT"

\* Mutation: the dependencies are not looked at.
EnsureTaskReadyNoDeps(s, t) == s.status[t] = "CREATED"

EnsureTaskReady(s, t) ==
    /\ s.status[t] = "CREATED"
    /\ \A d \in s.task[t].deps : s.status[d] = "DONE"

\* Cost units: a succeeded run is charged its estimate, a failed run half of
\* its completion tokens, a run that has not ended nothing.
SucceededCost == 2
FailedCost == 1

SpentCost(s) ==
    SucceededCost * Cardinality({r \in RunId : s.run[r] = "SUCCEEDED"})
      + FailedCost * Cardinality({r \in RunId : s.run[r] = "FAILED"})

\* ensureTokenBudgetAllowsRunLocked: what was spent plus one estimate.
BudgetAllowsRun(s) ==
    BlockBudget = 0 \/ SpentCost(s) + SucceededCost < BlockBudget

-----------------------------------------------------------------------------
(***************************************************************************)
(* Planning: requirements, plans, contracts and the tasks made from them.  *)
(***************************************************************************)
AddTask(s, t, spec) ==
    [s EXCEPT !.status[t] = "CREATED", !.task[t] = spec]

AddRequirementEffect(s) == [s EXCEPT !.reqs = @ + 1]

\* The plan is built from the latest requirement; its task depends on nothing.
GeneratePlanEffect(s, t) ==
    AddTask([s EXCEPT !.plans = Append(@, s.reqs)], t,
            [type |-> "SPRINT1_EXECUTE", plan |-> Len(s.plans) + 1,
             contract |-> NoId, deps |-> {}])

GenerateContractEffect(s) ==
    [s EXCEPT !.contracts = Append(@, Len(s.plans))]

\* findDispatchedTasksLocked: a task of a dispatched type for the latest plan
\* and the latest contract is already there.
AlreadyDispatched(s) ==
    \E t \in TaskId :
        /\ TaskExists(s, t)
        /\ s.task[t].type \in DispatchTypes
        /\ s.task[t].plan = Len(s.plans)
        /\ s.task[t].contract = Len(s.contracts)

\* Backend b, frontend f, and integration i that waits for both.
DispatchTasksEffect(s, b, f, i) ==
    LET Spec(ty, ds) == [type |-> ty, plan |-> Len(s.plans),
                         contract |-> Len(s.contracts), deps |-> ds]
    IN  [s EXCEPT
           !.status = [@ EXCEPT ![b] = "CREATED", ![f] = "CREATED",
                                ![i] = "CREATED"],
           !.task = [@ EXCEPT ![b] = Spec("BACKEND_IMPLEMENTATION", {}),
                              ![f] = Spec("FRONTEND_IMPLEMENTATION", {}),
                              ![i] = Spec("INTEGRATION_REVIEW", {b, f})]]

\* A failed validation of contract c queues a task to rework it.
RemediationEffect(s, t, c) ==
    AddTask(s, t, [type |-> "CONTRACT_REWORK", plan |-> s.contracts[c],
                   contract |-> c, deps |-> {}])

\* A retry is a new task with the data of the failed one; the failed task and
\* the tasks that depend on it are left alone.
RetryTaskEffect(s, old, new) == AddTask(s, new, s.task[old])

-----------------------------------------------------------------------------
(***************************************************************************)
(* Runs.                                                                   *)
(***************************************************************************)

\* startTaskRunLocked when the private sandbox could be created, for every
\* task of the domain of rid; rid[t] is the identifier of the run of t.
StartTaskRunsEffect(s, rid) ==
    LET Started == DOMAIN rid
        New == {rid[t] : t \in Started}
        TaskOf(r) == CHOOSE t \in Started : rid[t] = r
    IN  [s EXCEPT
           !.status = [t \in TaskId |->
                         IF t \in Started THEN "IN_PROGRESS" ELSE @[t]],
           !.run = [r \in RunId |-> IF r \in New THEN "RUNNING" ELSE @[r]],
           !.runTask = [r \in RunId |-> IF r \in New THEN TaskOf(r) ELSE @[r]],
           !.sandbox = [r \in RunId |-> IF r \in New THEN "ACTIVE" ELSE @[r]]]

\* Mutation: the task is not failed when its sandbox could not be created.
SandboxCreateIgnoredEffect(s, t) == [s EXCEPT !.status[t] = "IN_PROGRESS"]

\* startTaskRunLocked when it could not: the task went to IN_PROGRESS and then
\* to FAILED, and there is no run and no sandbox.
SandboxCreateFailedEffect(s, t) == [s EXCEPT !.status[t] = "FAILED"]

\* Mutation: the sandbox is given the status of the run.
CompleteRunEffectWrongStatus(s, r, t) ==
    [s EXCEPT !.run[r] = "SUCCEEDED", !.artifact[r] = TRUE,
              !.status[t] = "DONE", !.sandbox[r] = "SUCCEEDED"]

\* The last critical section of executeRun.
CompleteRunEffect(s, r, t) ==
    [s EXCEPT !.run[r] = "SUCCEEDED",
              !.artifact[r] = TRUE,
              !.status[t] = TransitionTo(@, "DONE"),
              !.sandbox[r] = "RELEASED"]

\* failRun: the task is failed only while it is being worked on.
FailRunEffect(s, r) ==
    LET t == s.runTask[r]
    IN  [s EXCEPT !.run[r] = "FAILED",
                  !.sandbox[r] = "FAILED",
                  !.status[t] = IF @ \in {"IN_PROGRESS", "HUMAN_OVERRIDE"}
                                  THEN TransitionTo(@, "FAILED") ELSE @]

-----------------------------------------------------------------------------
(***************************************************************************)
(* Human overrides.  Whether a lease has expired depends on the clock and  *)
(* not on the maps: it is the argument `expired'.                          *)
(***************************************************************************)
ActiveOverrides(s, t, expired) ==
    {o \in OverrideId \ expired : s.override[o] = "PENDING" /\ s.ovTask[o] = t}

\* Mutation: only the newest override of the task is looked at.
LeaseConflictNewest(s, t, owner, scope, expired) ==
    \E o \in ActiveOverrides(s, t, expired) :
        /\ \A p \in ActiveOverrides(s, t, expired) : p <= o
        /\ s.ovOwner[o] # owner /\ s.ovScope[o] = scope

\* findActiveOverrideConflictLocked: somebody else holds the lease of the scope.
LeaseConflict(s, t, owner, scope, expired) ==
    \E o \in ActiveOverrides(s, t, expired) :
        s.ovOwner[o] # owner /\ s.ovScope[o] = scope

EnqueueConflictEffect(s) == [s EXCEPT !.conflicts = Append(@, "OPEN")]

ResolveConflictEffect(s, c) == [s EXCEPT !.conflicts[c] = "RESOLVED"]

QueueOverrideEffect(s, o, t, owner, scope) ==
    [s EXCEPT !.override[o] = "PENDING", !.ovTask[o] = t,
              !.ovOwner[o] = owner, !.ovScope[o] = scope,
              !.status[t] = IF @ = "IN_PROGRESS"
                              THEN TransitionTo(@, "HUMAN_OVERRIDE") ELSE @]

\* Mutation: the task is not resumed.
ApplyOverrideNoResumeEffect(s, o) == [s EXCEPT !.override[o] = "APPLIED"]

\* The safety checkpoint takes the newest active override of the run's task.
ApplyOverrideEffect(s, o) ==
    LET t == s.ovTask[o]
    IN  [s EXCEPT !.override[o] = "APPLIED",
                  !.status[t] = IF @ = "HUMAN_OVERRIDE"
                                  THEN TransitionTo(@, "IN_PROGRESS") ELSE @]

-----------------------------------------------------------------------------
(***************************************************************************)
(* Properties of one copy of the state, to hold of the memory and of the   *)
(* stored copy alike.                                                      *)
(***************************************************************************)
Worked(s, t) == s.status[t] \in {"IN_PROGRESS", "HUMAN_OVERRIDE"}

\* A task has at most one run, ever (a retry is a new task), and a task that
\* is worked on or done has one; the run, the task, the private sandbox and
\* the artifact agree on how the work stands.
Agreement(s) ==
    /\ \A q, r \in RunId :
         RunExists(s, q) /\ RunExists(s, r) /\ s.runTask[q] = s.runTask[r]
           => q = r
    /\ \A t \in TaskId :
         Worked(s, t) \/ s.status[t] = "DONE"
           => \E r \in RunId : RunExists(s, r) /\ s.runTask[r] = t
    /\ \A r \in RunId : RunExists(s, r) =>
         /\ s.runTask[r] \in TaskId
         /\ \/ /\ s.run[r] = "RUNNING" /\ Worked(s, s.runTask[r])
               /\ s.sandbox[r] = "ACTIVE" /\ ~s.artifact[r]
            \/ /\ s.run[r] = "SUCCEEDED" /\ s.status[s.runTask[r]] = "DONE"
               /\ s.sandbox[r] = "RELEASED" /\ s.artifact[r]
            \/ /\ s.run[r] = "FAILED" /\ s.status[s.runTask[r]] = "FAILED"
               /\ s.sandbox[r] = "FAILED" /\ ~s.artifact[r]

\* A run exists only for a task whose dependencies are done.
Ordering(s) ==
    \A r \in RunId : RunExists(s, r) =>
        \A d \in s.task[s.runTask[r]].deps : s.status[d] = "DONE"

\* A task waits in HUMAN_OVERRIDE only while an instruction for it is pending.
Paused(s) ==
    \A t \in TaskId : s.status[t] = "HUMAN_OVERRIDE" =>
        \E o \in OverrideId : s.override[o] = "PENDING" /\ s.ovTask[o] = t

=============================================================================
