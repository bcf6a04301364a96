--------------------------- MODULE PostgresEngine ---------------------------
(***************************************************************************)
(* The Service with the Postgres store.  One project is kept three times:  *)
(* in the maps of the process, in the projection tables (a row per task,   *)
(* run, ...), and in the JSON document of the table service_state, called  *)
(* `legacy'.                                                               *)
(*                                                                         *)
(* Two kinds of handlers write them.  A repository handler builds a        *)
(* candidate copy of the maps, writes the rows that it touches and the     *)
(* whole document in one transaction, and installs the candidate when the  *)
(* transaction committed.  A persistLocked handler changes the maps first  *)
(* and then replaces all rows and the document in one transaction.         *)
(*                                                                         *)
(* Reads come from the rows without the lock of the Service, and write     *)
(* what they found over the maps afterwards: two steps.                    *)
(***************************************************************************)
EXTENDS ServiceState

CONSTANT
    Environments   \* what may go wrong, and what clients read, in a behaviour

\* tx: the transaction of a repository fails; save: that of SaveState; load:
\* LoadState when the process starts; sandbox: CreatePrivate; runtime: the
\* runtime, the bundle or the workspace of a run; crash: the process stops.
Fault == {"tx", "save", "load", "sandbox", "runtime", "crash"}
ReadKind == {"projects", "requirements", "tasks", "run", "export", "download"}

\* The document that Init may start from has a task.
ASSUME PostgresAssumption ==
    /\ Environments \subseteq [faults: SUBSET Fault, reads: SUBSET ReadKind]
    /\ MaxTasks > 0

VARIABLES
    env,      \* one of Environments
    mem,      \* the maps of the Service
    rows,     \* the projection tables
    legacy,   \* the document of service_state
    up,       \* the process runs
    agent,    \* the goroutine executeRun(r)
    reading,  \* a read that has its rows and waits for the lock
    last      \* the newest identifiers, and the projects created

vars == <<env, mem, rows, legacy, up, agent, reading, last>>

-----------------------------------------------------------------------------
(***************************************************************************)
(* The three copies.  The state of ServiceState is that of the project     *)
(* "main"; of a second project only its existence matters.                 *)
(***************************************************************************)
Projects == {"main", "other"}

Maps == [s: ServiceStates, projects: SUBSET Projects,
         taskOrder: Seq(TaskId), runOrder: Seq(RunId)]

Blank == [s |-> EmptyState, projects |-> {},
          taskOrder |-> <<>>, runOrder |-> <<>>]

\* taskAt and runAt are task_order and run_order: PRIMARY KEY(project_id,
\* position).  requirements, plans and contracts have no such key.
Tables ==
    [projects  : SUBSET Projects,
     reqs      : Nat,
     plans     : Seq(Nat),
     contracts : Seq(Nat),
     status    : [TaskId -> TaskStatus \cup {"ABSENT"}],
     task      : [TaskId -> TaskSpec],
     taskAt    : [TaskId -> TaskId \cup {NoId}],
     run       : [RunId -> RunStatus \cup {"ABSENT"}],
     runTask   : [RunId -> TaskId \cup {NoId}],
     runAt     : [RunId -> RunId \cup {NoId}],
     artifact  : [RunId -> BOOLEAN]]

PositionsOf(order, Ids) ==
    [i \in Ids |-> IF i <= Len(order) THEN order[i] ELSE NoId]

\* The identifiers in the order of their positions.
loadOrder(at) ==
    LET used == {i \in DOMAIN at : at[i] # NoId}
        rank(i) == Cardinality({j \in used : j <= i})
    IN  [k \in 1..Cardinality(used) |-> at[CHOOSE i \in used : rank(i) = k]]

\* saveServiceStateProjection: every table is emptied and filled from the maps.
RowsOf(m) ==
    [projects  |-> m.projects,
     reqs      |-> m.s.reqs,
     plans     |-> m.s.plans,
     contracts |-> m.s.contracts,
     status    |-> m.s.status,
     task      |-> m.s.task,
     taskAt    |-> PositionsOf(m.taskOrder, TaskId),
     run       |-> m.s.run,
     runTask   |-> m.s.runTask,
     runAt     |-> PositionsOf(m.runOrder, RunId),
     artifact  |-> m.s.artifact]

\* loadServiceStateProjection: what has a table comes from the rows, the rest
\* (sandboxes, overrides, faults, snapshots, ...) from the document.
loadServiceStateProjection(rw, m) ==
    [m EXCEPT !.projects = rw.projects,
              !.s = [@ EXCEPT !.reqs = rw.reqs, !.plans = rw.plans,
                              !.contracts = rw.contracts,
                              !.status = rw.status, !.task = rw.task,
                              !.run = rw.run, !.runTask = rw.runTask,
                              !.artifact = rw.artifact],
              !.taskOrder = loadOrder(rw.taskAt),
              !.runOrder = loadOrder(rw.runAt)]

hasProjectionData(rw) ==
    \/ rw.projects # {} \/ rw.reqs > 0
    \/ rw.plans # <<>> \/ rw.contracts # <<>>
    \/ \E t \in TaskId : rw.status[t] # "ABSENT"
    \/ \E r \in RunId : rw.run[r] # "ABSENT" \/ rw.artifact[r]

\* What LoadState returns.
LoadState ==
    IF hasProjectionData(rows) THEN loadServiceStateProjection(rows, legacy)
                               ELSE legacy

-----------------------------------------------------------------------------
Phase == {"none", "spawned", "prepared", "cleared", "working", "finishing",
          "failing", "exited"}
NoAgents == [r \in RunId |-> [phase |-> "none", task |-> NoId]]
Live(r) == agent[r].phase \notin {"none", "exited"}

NoRead == [kind |-> "none", run |-> NoId, rows |-> RowsOf(Blank)]

TypeOK ==
    /\ env \in Environments
    /\ mem \in Maps /\ rows \in Tables /\ legacy \in Maps
    /\ up \in BOOLEAN
    /\ agent \in [RunId -> [phase: Phase, task: TaskId \cup {NoId}]]
    /\ reading \in [kind: ReadKind \cup {"none"}, run: RunId \cup {NoId},
                    rows: Tables]
    /\ last \in [task: 0..MaxTasks, run: 0..MaxRuns,
                 override: 0..MaxOverrides, projects: SUBSET Projects]

\* A document of a release that had no projection tables: a project with a
\* requirement and a plan.
OldDocument ==
    [s |-> GeneratePlanEffect(AddRequirementEffect(EmptyState), 1),
     projects |-> {"main"}, taskOrder |-> <<1>>, runOrder |-> <<>>]

Init ==
    /\ env \in Environments
    /\ mem = Blank /\ rows = RowsOf(Blank) /\ up = FALSE
    /\ agent = NoAgents /\ reading = NoRead
    /\ \/ /\ legacy = Blank
          /\ last = [task |-> 0, run |-> 0, override |-> 0, projects |-> {}]
       \/ /\ legacy = OldDocument
          /\ last = [task |-> 1, run |-> 0, override |-> 0,
                     projects |-> {"main"}]

Can(fault) == fault \in env.faults

-----------------------------------------------------------------------------
(***************************************************************************)
(* New and the end of the process.                                         *)
(***************************************************************************)

\* New: rows are filled from a document that has none yet.  An error of
\* LoadState is logged and the service starts with empty maps.
Boot ==
    /\ ~up /\ up' = TRUE
    /\ \/ /\ mem' = LoadState
          /\ rows' = IF hasProjectionData(rows) THEN rows ELSE RowsOf(legacy)
       \/ Can("load") /\ mem' = Blank /\ UNCHANGED rows
    /\ UNCHANGED <<legacy, agent, reading, last>>

Crash ==
    /\ Can("crash") /\ up
    /\ up' = FALSE /\ mem' = Blank
    /\ agent' = [r \in RunId |-> IF Live(r) THEN NoAgents[r] ELSE agent[r]]
    /\ reading' = NoRead
    /\ UNCHANGED <<rows, legacy, last>>

-----------------------------------------------------------------------------
(***************************************************************************)
(* The two ways to write.                                                  *)
(***************************************************************************)
PersistOK(new) == mem' = new /\ rows' = RowsOf(new) /\ legacy' = new

PersistFails(new) == Can("save") /\ mem' = new /\ UNCHANGED <<rows, legacy>>

\* persistLocked: the maps have changed, whether or not they can be saved.
Persist(new) == PersistOK(new) \/ PersistFails(new)

Committed(candidate, newRows, accepted) ==
    /\ accepted
    /\ rows' = newRows /\ legacy' = candidate /\ mem' = candidate

RolledBack(accepted) ==
    /\ Can("tx") \/ ~accepted
    /\ UNCHANGED <<mem, rows, legacy>>

\* A repository handler: `accepted' says that the database accepts the
\* statements of the transaction.
Transact(candidate, newRows, accepted) ==
    Committed(candidate, newRows, accepted) \/ RolledBack(accepted)

\* lockRepositoryProject: SELECT ... FOR UPDATE finds the project.
ProjectLocked == "main" \in rows.projects

\* insertRepositoryTask and insertRepositoryTaskOrder, for each new task.
InsertTasks(rw, c, new) ==
    [rw EXCEPT
       !.status = [t \in TaskId |-> IF t \in new THEN c.s.status[t] ELSE @[t]],
       !.task = [t \in TaskId |-> IF t \in new THEN c.s.task[t] ELSE @[t]],
       !.taskAt = [i \in TaskId |->
                     IF i <= Len(c.taskOrder) /\ c.taskOrder[i] \in new
                       THEN c.taskOrder[i] ELSE @[i]]]

TaskInsertsAccepted(rw, c, new) ==
    \A i \in 1..Len(c.taskOrder) :
        c.taskOrder[i] \in new =>
            rw.taskAt[i] = NoId /\ rw.status[c.taskOrder[i]] = "ABSENT"

\* updateRepositoryTask and updateRepositoryRun: an UPDATE of a row that is
\* not there changes nothing and is no error.
UpdateTasks(rw, c, ts) ==
    [rw EXCEPT !.status = [t \in TaskId |->
                  IF t \in ts /\ @[t] # "ABSENT" THEN c.s.status[t] ELSE @[t]]]

UpdateRun(rw, c, r) ==
    [rw EXCEPT !.run[r] = IF @ # "ABSENT" THEN c.s.run[r] ELSE @]

InsertRuns(rw, c, new) ==
    [rw EXCEPT
       !.run = [r \in RunId |-> IF r \in new THEN c.s.run[r] ELSE @[r]],
       !.runTask = [r \in RunId |-> IF r \in new THEN c.s.runTask[r] ELSE @[r]],
       !.runAt = [i \in RunId |->
                    IF i <= Len(c.runOrder) /\ c.runOrder[i] \in new
                      THEN c.runOrder[i] ELSE @[i]]]

RunInsertsAccepted(rw, c, new) ==
    \A i \in 1..Len(c.runOrder) :
        c.runOrder[i] \in new =>
            rw.runAt[i] = NoId /\ rw.run[c.runOrder[i]] = "ABSENT"

-----------------------------------------------------------------------------
(***************************************************************************)
(* Repository handlers: projects, requirements, plans, contracts, tasks.   *)
(***************************************************************************)
HasMain == up /\ "main" \in mem.projects
Quiet == UNCHANGED <<up, agent, reading>>

CreateProject(p) ==
    /\ up /\ p \notin last.projects
    /\ last' = [last EXCEPT !.projects = @ \cup {p}]
    /\ Transact([mem EXCEPT !.projects = @ \cup {p}],
                [rows EXCEPT !.projects = @ \cup {p}], TRUE)
    /\ Quiet

AddRequirement ==
    /\ HasMain /\ mem.s.reqs < MaxReqs /\ rows.reqs < MaxReqs
    /\ Transact([mem EXCEPT !.s = AddRequirementEffect(@)],
                [rows EXCEPT !.reqs = @ + 1], ProjectLocked)
    /\ UNCHANGED last /\ Quiet

\* The maps with the new tasks ts appended to taskOrder.
WithTasks(new, ts) == [mem EXCEPT !.s = new, !.taskOrder = @ \o ts]

NewTasks(n) == [i \in 1..n |-> last.task + i]
NewTaskSet(n) == (last.task + 1)..(last.task + n)

\* SaveTasks of n new tasks: their rows, their places in task_order, the
\* project row and the document.  `docs' are the rows with a new plan, if any.
SaveTasks(new, n, docs) ==
    LET c == WithTasks(new, NewTasks(n))
    IN  /\ last' = [last EXCEPT !.task = @ + n]
        /\ Transact(c, InsertTasks(docs, c, NewTaskSet(n)),
                    ProjectLocked /\ TaskInsertsAccepted(docs, c, NewTaskSet(n)))

GeneratePlan ==
    /\ HasMain /\ mem.s.reqs > 0
    /\ Len(mem.s.plans) < MaxPlans /\ last.task < MaxTasks
    /\ LET new == GeneratePlanEffect(mem.s, last.task + 1)
       IN  SaveTasks(new, 1, [rows EXCEPT !.plans = Append(@, mem.s.reqs)])
    /\ Quiet

GenerateContract ==
    /\ HasMain /\ mem.s.plans # <<>> /\ Len(mem.s.contracts) < MaxContracts
    /\ Transact([mem EXCEPT !.s = GenerateContractEffect(@)],
                [rows EXCEPT !.contracts = Append(@, Len(mem.s.plans))],
                ProjectLocked)
    /\ UNCHANGED last /\ Quiet

DispatchTasks ==
    /\ HasMain /\ mem.s.plans # <<>> /\ mem.s.contracts # <<>>
    /\ ~AlreadyDispatched(mem.s) /\ last.task + 3 <= MaxTasks
    /\ SaveTasks(DispatchTasksEffect(mem.s, last.task + 1, last.task + 2,
                                     last.task + 3), 3, rows)
    /\ Quiet

ValidateContract(c) ==
    /\ HasMain /\ last.task < MaxTasks
    /\ SaveTasks(RemediationEffect(mem.s, last.task + 1, c), 1, rows)
    /\ Quiet

RetryTask(t) ==
    /\ HasMain /\ mem.s.status[t] = "FAILED" /\ last.task < MaxTasks
    /\ SaveTasks(RetryTaskEffect(mem.s, t, last.task + 1), 1, rows)
    /\ Quiet

-----------------------------------------------------------------------------
(***************************************************************************)
(* Repository handlers: runs.                                              *)
(***************************************************************************)
Spawn(new) ==
    agent' = [r \in RunId |-> IF r \in new
                                THEN [phase |-> "spawned", task |-> NoId]
                                ELSE agent[r]]

\* rid numbers the tasks of sel, in their order, from the newest run on.
Allocates(rid, sel) ==
    /\ {rid[t] : t \in sel} = (last.run + 1)..(last.run + Cardinality(sel))
    /\ \A t, u \in sel : t < u => rid[t] < rid[u]

WithRuns(rid) ==
    [mem EXCEPT !.s = StartTaskRunsEffect(@, rid),
                !.runOrder = @ \o [i \in 1..Cardinality(DOMAIN rid) |->
                                     last.run + i]]

\* Mutation: the goroutines are started whether or not the runs were stored.
StartRunsAnyway(sel) ==
    \E rid \in [sel -> RunId] :
        LET c == WithRuns(rid)
            new == {rid[t] : t \in sel}
        IN  /\ Allocates(rid, sel)
            /\ last' = [last EXCEPT !.run = @ + Cardinality(sel)]
            /\ Transact(c, InsertRuns(UpdateTasks(rows, c, sel), c, new),
                        ProjectLocked /\ RunInsertsAccepted(rows, c, new))
            /\ Spawn(new)
            /\ UNCHANGED <<up, reading>>

\* StartRuns: the runs and their tasks in one transaction; the goroutines are
\* started when it has committed, and the maps are put back when it has not.
StartRuns(sel) ==
    \E rid \in [sel -> RunId] :
        LET c == WithRuns(rid)
            new == {rid[t] : t \in sel}
            accepted == ProjectLocked /\ RunInsertsAccepted(rows, c, new)
        IN  /\ Allocates(rid, sel)
            /\ last' = [last EXCEPT !.run = @ + Cardinality(sel)]
            /\ \/ /\ Committed(c, InsertRuns(UpdateTasks(rows, c, sel), c, new),
                               accepted)
                  /\ Spawn(new)
               \/ RolledBack(accepted) /\ UNCHANGED agent
            /\ UNCHANGED <<up, reading>>

ReadyTasks == {t \in TaskId : EnsureTaskReady(mem.s, t)}

\* StartRun starts one task, StartParallelRun the ready ones of the request.
StartParallelRun(sel) ==
    /\ HasMain /\ sel # {} /\ BudgetAllowsRun(mem.s)
    /\ last.run + Cardinality(sel) <= MaxRuns
    /\ StartRuns(sel)

\* StartRun of a task that is not ready, or whose sandbox cannot be created:
\* the error path saves everything.
StartRunRefused(t) ==
    /\ HasMain /\ TaskExists(mem.s, t) /\ BudgetAllowsRun(mem.s)
    /\ \/ ~EnsureTaskReady(mem.s, t) /\ Persist(mem)
       \/ /\ EnsureTaskReady(mem.s, t) /\ Can("sandbox")
          /\ Persist([mem EXCEPT !.s = SandboxCreateFailedEffect(@, t)])
    /\ UNCHANGED last /\ Quiet

\* The sandbox of t cannot be created after the runs of sel were made: the
\* handler returns and neither stores the maps nor puts them back.
StartParallelRunFails(sel, t) ==
    /\ HasMain /\ Can("sandbox") /\ BudgetAllowsRun(mem.s)
    /\ last.run + Cardinality(sel) <= MaxRuns
    /\ \E rid \in [sel -> RunId] :
         /\ Allocates(rid, sel)
         /\ mem' = [WithRuns(rid) EXCEPT !.s = SandboxCreateFailedEffect(@, t)]
    /\ last' = [last EXCEPT !.run = @ + Cardinality(sel)]
    /\ UNCHANGED <<rows, legacy>> /\ Quiet

-----------------------------------------------------------------------------
(***************************************************************************)
(* persistLocked handlers.                                                 *)
(***************************************************************************)
MarkTaskSandboxFailure(t) ==
    /\ HasMain /\ TaskExists(mem.s, t)
    /\ Cardinality(mem.s.faults \cup {t}) <= MaxFaults
    /\ Persist([mem EXCEPT !.s.faults = @ \cup {t}])
    /\ UNCHANGED last /\ Quiet

ApplyHumanOverride(t, owner, scope) ==
    /\ HasMain /\ mem.s.status[t] \in {"IN_PROGRESS", "HUMAN_OVERRIDE"}
    /\ ~LeaseConflict(mem.s, t, owner, scope, {})
    /\ last.override < MaxOverrides
    /\ last' = [last EXCEPT !.override = @ + 1]
    /\ Persist([mem EXCEPT !.s = QueueOverrideEffect(@, last.override + 1, t,
                                                     owner, scope)])
    /\ Quiet

\* Any such handler that works on the other project.
OtherProjectHandler ==
    /\ up /\ "other" \in mem.projects
    /\ Persist(mem)
    /\ UNCHANGED last /\ Quiet

-----------------------------------------------------------------------------
(***************************************************************************)
(* Reads.  The rows are read without the lock; the maps are written later. *)
(***************************************************************************)
\* The rows that the query of a read returns.
Answer(kind, r) ==
    LET none == RowsOf(Blank)
    IN  CASE kind = "projects" -> [none EXCEPT !.projects = rows.projects]
          [] kind = "requirements" -> [none EXCEPT !.reqs = rows.reqs]
          [] kind = "tasks" -> [none EXCEPT !.status = rows.status,
                                            !.task = rows.task,
                                            !.taskAt = rows.taskAt]
          [] OTHER -> [none EXCEPT !.run[r] = rows.run[r],
                                   !.runTask[r] = rows.runTask[r],
                                   !.artifact[r] = rows.artifact[r]]

StartRead(kind, r) ==
    /\ up /\ kind \in env.reads /\ reading = NoRead
    /\ CASE kind = "run" -> rows.run[r] # "ABSENT"
         [] kind \in {"export", "download"} -> rows.artifact[r]
         [] OTHER -> r = 1
    /\ reading' = [kind |-> kind, run |-> r,
                   rows |-> Answer(kind, r)]
    /\ UNCHANGED <<mem, rows, legacy, up, agent, last>>

seen == reading.rows
ReadDone == reading' = NoRead /\ UNCHANGED <<up, agent, last>>

\* ListProjects: the map is replaced.
FinishListProjects ==
    /\ reading.kind = "projects"
    /\ mem' = [mem EXCEPT !.projects = seen.projects]
    /\ UNCHANGED <<rows, legacy>> /\ ReadDone

\* ListRequirements: the list of the project is replaced.
FinishListRequirements ==
    /\ reading.kind = "requirements"
    /\ mem' = [mem EXCEPT !.s.reqs = seen.reqs]
    /\ UNCHANGED <<rows, legacy>> /\ ReadDone

\* Mutation: the map of tasks is replaced by the answer.
FinishListTasksReplacing ==
    /\ reading.kind = "tasks"
    /\ mem' = [mem EXCEPT !.s.status = seen.status, !.s.task = seen.task,
                          !.taskOrder = loadOrder(seen.taskAt)]
    /\ UNCHANGED <<rows, legacy>> /\ ReadDone

\* ListTasks: every task of the answer is written over the one in the map, and
\* taskOrder is replaced.
FinishListTasks ==
    LET found == {t \in TaskId : /\ seen.status[t] # "ABSENT"
                                 /\ \E i \in TaskId : seen.taskAt[i] = t}
        at == [i \in TaskId |-> IF seen.taskAt[i] \in found
                                  THEN seen.taskAt[i] ELSE NoId]
        Listed(old, new) == [t \in TaskId |-> IF t \in found THEN new[t]
                                                             ELSE old[t]]
    IN  /\ reading.kind = "tasks"
        /\ mem' = [mem EXCEPT !.s.status = Listed(@, seen.status),
                              !.s.task = Listed(@, seen.task),
                              !.taskOrder = loadOrder(at)]
        /\ UNCHANGED <<rows, legacy>> /\ ReadDone

\* The maps with the run of the answer and its artifact written over theirs.
WithRunSeen(r) ==
    [mem EXCEPT !.s.run[r] = seen.run[r], !.s.runTask[r] = seen.runTask[r],
                !.s.artifact[r] = @ \/ seen.artifact[r]]

\* GetRunStatus: refused when the maps do not have the task of the run.
FinishGetRunStatus ==
    /\ reading.kind = "run"
    /\ mem' = IF TaskExists(mem.s, seen.runTask[reading.run])
                THEN WithRunSeen(reading.run) ELSE mem
    /\ UNCHANGED <<rows, legacy>> /\ ReadDone

\* SaveLegacy: a transaction that writes the document only.
SaveLegacy(candidate) ==
    \/ mem' = candidate /\ legacy' = candidate /\ UNCHANGED rows
    \/ Can("tx") /\ UNCHANGED <<mem, rows, legacy>>

\* ExportDelivery: of a run that was read as SUCCEEDED.
FinishExportDelivery ==
    /\ reading.kind = "export"
    /\ IF "main" \in mem.projects /\ seen.run[reading.run] = "SUCCEEDED"
         THEN SaveLegacy(WithRunSeen(reading.run))
         ELSE UNCHANGED <<mem, rows, legacy>>
    /\ ReadDone

\* GetArtifact: the artifact is written over the one in the map.
FinishGetArtifact ==
    /\ reading.kind = "download"
    /\ SaveLegacy([mem EXCEPT !.s.artifact[reading.run] = TRUE])
    /\ ReadDone

FinishRead ==
    \/ FinishListProjects \/ FinishListRequirements \/ FinishListTasks
    \/ FinishGetRunStatus \/ FinishExportDelivery \/ FinishGetArtifact

-----------------------------------------------------------------------------
(***************************************************************************)
(* The goroutine executeRun(r).                                            *)
(***************************************************************************)
Goto(r, phase) == agent' = [agent EXCEPT ![r].phase = phase]

\* snapshotForExecution.
Prepare(r) ==
    /\ agent[r].phase = "spawned"
    /\ agent' = [agent EXCEPT ![r] =
                   IF RunExists(mem.s, r)
                     THEN [phase |-> "prepared", task |-> mem.s.runTask[r]]
                     ELSE [phase |-> "failing", task |-> NoId]]
    /\ UNCHANGED <<mem, rows, legacy>>

\* Mutation: the goroutine returns on a fault without calling failRun.
CheckFaultReturns(r) ==
    /\ agent[r].phase = "prepared"
    /\ mem' = [mem EXCEPT !.s.faults = @ \ {agent[r].task}]
    /\ Goto(r, IF agent[r].task \in mem.s.faults THEN "exited" ELSE "cleared")
    /\ UNCHANGED <<rows, legacy>>

\* sandboxFailureForTask: a fault is used up, in the maps only.
CheckFault(r) ==
    /\ agent[r].phase = "prepared"
    /\ mem' = [mem EXCEPT !.s.faults = @ \ {agent[r].task}]
    /\ Goto(r, IF agent[r].task \in mem.s.faults THEN "failing" ELSE "cleared")
    /\ UNCHANGED <<rows, legacy>>

\* applyPendingHumanOverrideLocked: a persistLocked handler.
Checkpoint(r) ==
    LET active == ActiveOverrides(mem.s, mem.s.runTask[r], {})
        Applied(o) == [mem EXCEPT !.s = ApplyOverrideEffect(@, o)]
    IN  /\ agent[r].phase = "cleared"
        /\ \/ /\ ~RunExists(mem.s, r)
              /\ Goto(r, "failing") /\ UNCHANGED <<mem, rows, legacy>>
           \/ /\ RunExists(mem.s, r) /\ active = {}
              /\ Goto(r, "working") /\ UNCHANGED <<mem, rows, legacy>>
           \/ /\ RunExists(mem.s, r)
              /\ \E o \in active :
                   /\ \A p \in active : p <= o
                   /\ \/ PersistOK(Applied(o)) /\ Goto(r, "working")
                      \/ PersistFails(Applied(o)) /\ Goto(r, "failing")

Work(r) ==
    /\ agent[r].phase = "working"
    /\ \/ Goto(r, "finishing")
       \/ Can("runtime") /\ Goto(r, "failing")
    /\ UNCHANGED <<mem, rows, legacy>>

\* Mutation: the candidate is installed although the transaction failed.
CompleteRunPolluting(r) ==
    LET t == agent[r].task
        c == [mem EXCEPT !.s = CompleteRunEffect(@, r, t)]
        newRows == [UpdateRun(UpdateTasks(rows, c, {t}), c, r)
                      EXCEPT !.artifact[r] = TRUE]
    IN  /\ agent[r].phase = "finishing"
        /\ Goto(r, "exited")
        /\ IF TaskExists(mem.s, t) /\ RunExists(mem.s, r)
             THEN \/ Committed(c, newRows, ProjectLocked)
                  \/ Can("tx") /\ mem' = c /\ UNCHANGED <<rows, legacy>>
             ELSE UNCHANGED <<mem, rows, legacy>>

\* Mutation: the row of the task is left out of the transaction.
CompleteRunNoTask(r) ==
    LET t == agent[r].task
        c == [mem EXCEPT !.s = CompleteRunEffect(@, r, t)]
    IN  /\ agent[r].phase = "finishing"
        /\ Goto(r, "exited")
        /\ Transact(c, [UpdateRun(rows, c, r) EXCEPT !.artifact[r] = TRUE],
                    ProjectLocked)

\* The end of executeRun, one transaction for the task, the run, the artifact
\* and the document.  When it fails the goroutine ends all the same.
CompleteRun(r) ==
    LET t == agent[r].task
        c == [mem EXCEPT !.s = CompleteRunEffect(@, r, t)]
        newRows == [UpdateRun(UpdateTasks(rows, c, {t}), c, r)
                      EXCEPT !.artifact[r] = TRUE]
    IN  /\ agent[r].phase = "finishing"
        /\ Goto(r, "exited")
        /\ IF TaskExists(mem.s, t) /\ RunExists(mem.s, r)
             THEN Transact(c, newRows, ProjectLocked /\ ~rows.artifact[r])
             ELSE UNCHANGED <<mem, rows, legacy>>

\* Mutation: a goroutine whose run has failed goes on.
FailRunGoesOn(r) ==
    LET c == [mem EXCEPT !.s = FailRunEffect(@, r)]
    IN  /\ agent[r].phase = "failing"
        /\ Goto(r, "finishing")
        /\ Transact(c, UpdateRun(UpdateTasks(rows, c, {c.s.runTask[r]}), c, r),
                    ProjectLocked)

\* failRun, likewise.
FailRun(r) ==
    LET c == [mem EXCEPT !.s = FailRunEffect(@, r)]
    IN  /\ agent[r].phase = "failing"
        /\ Goto(r, "exited")
        /\ IF RunExists(mem.s, r)
             THEN Transact(c, UpdateRun(UpdateTasks(rows, c, {c.s.runTask[r]}),
                                        c, r), ProjectLocked)
             ELSE UNCHANGED <<mem, rows, legacy>>

AgentStep(r) ==
    /\ up
    /\ \/ Prepare(r) \/ CheckFault(r) \/ Checkpoint(r) \/ Work(r)
       \/ CompleteRun(r) \/ FailRun(r)
    /\ UNCHANGED <<up, reading, last>>

-----------------------------------------------------------------------------
RepositoryHandler ==
    \/ \E p \in Projects : CreateProject(p)
    \/ AddRequirement \/ GeneratePlan \/ GenerateContract \/ DispatchTasks
    \/ \E c \in 1..Len(mem.s.contracts) : ValidateContract(c)
    \/ \E t \in TaskId : RetryTask(t)
    \/ \E sel \in SUBSET ReadyTasks : StartParallelRun(sel)

PersistingHandler ==
    \/ \E t \in TaskId : StartRunRefused(t) \/ MarkTaskSandboxFailure(t)
    \/ \E t \in ReadyTasks : \E sel \in SUBSET (ReadyTasks \ {t}) :
         StartParallelRunFails(sel, t)
    \/ \E t \in TaskId, owner \in Owners, scope \in Scopes :
         ApplyHumanOverride(t, owner, scope)
    \/ OtherProjectHandler

Next ==
    /\ \/ Boot \/ Crash
       \/ RepositoryHandler \/ PersistingHandler
       \/ \E kind \in ReadKind, r \in RunId : StartRead(kind, r)
       \/ FinishRead
       \/ \E r \in RunId : AgentStep(r)
    /\ UNCHANGED env

Spec == Init /\ [][Next]_vars

\* Every goroutine gets the processor and the lock, and the runtime call ends.
FairSpec == Spec /\ \A r \in RunId : WF_vars(AgentStep(r) /\ UNCHANGED env)

-----------------------------------------------------------------------------
(***************************************************************************)
(* Properties.                                                             *)
(***************************************************************************)

\* A failed load, and a list of tasks or the status of a run written over newer
\* maps, undo what was stored; the other faults and reads are not allowed to.
Trusted == ~Can("load") /\ env.reads \cap {"tasks", "run"} = {}

\* A process that starts now loads rows and a document that fit together,
\* whichever transactions failed and wherever the last process stopped: the
\* runs and tasks of the rows agree with the sandboxes of the document, and no
\* task has two runs.
RestartFindsAgreement ==
    Trusted => Agreement(LoadState.s) /\ Ordering(LoadState.s)

\* Where no save, load or sandbox fails and nobody reads, a failed repository
\* transaction leaves no trace in the maps: the rows are what the maps say,
\* order included, and the document differs at most in used-up faults.
MapsAreStored ==
    up /\ env.faults \cap {"save", "load", "sandbox"} = {} /\ env.reads = {} =>
        /\ rows = RowsOf(mem)
        /\ legacy = [mem EXCEPT !.s.faults = legacy.s.faults]
        /\ mem.s.faults \subseteq legacy.s.faults

\* A goroutine executes only a run that is stored as running: StartRuns commits
\* before the goroutines start, and a goroutine ends with the outcome it writes.
LiveAgentOwnsRow ==
    \A r \in RunId : Live(r) => rows.run[r] = "RUNNING"

\* What trusted rows show is the abstract board: no stored outcome is taken back.
Shown == IF Trusted THEN rows ELSE RowsOf(Blank)
RowsBoard == INSTANCE Board WITH
    TaskIds <- TaskId, RunIds <- RunId, status <- Shown.status,
    task <- Shown.task, run <- Shown.run, runTask <- Shown.runTask
RowsAreBoard == RowsBoard!Spec

\* Unless a load fails, a task that was stored once is there for the next
\* process: no read and no save drops it.
StoredTasksSurvive ==
    [][~Can("load") => \A t \in TaskId : rows.status[t] # "ABSENT"
                                            => rows'.status[t] # "ABSENT"]_vars

\* While the database answers and the process is up, every run that is stored
\* as running ends in the rows, however its execution fails.
StoredRunsTerminate ==
    \A r \in RunId :
        rows.run[r] = "RUNNING" /\ env.faults \subseteq {"runtime"}
                               /\ env.reads \subseteq {"export", "download"}
          ~> rows.run[r] # "RUNNING"
=============================================================================
