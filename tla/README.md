# MultiAgentCom: TLA+ verification

This directory models MultiAgentCom: how requirements become plans, contracts
and tasks, how goroutines execute runs of tasks, how operators intervene, how
the state is saved and loaded (file and Postgres), how merges and rollbacks move
a project and its git workspaces along a timeline, how agent runtimes are
selected, retried and charged, and what the server does around it: project
locks, idempotency keys, schema migrations, sign-in keys. TLC checks
small instances of the models; TLAPS proves the central results for every size.

## 1. The system

### Components, state and operations

| Component | State | Operations that change it |
|---|---|---|
| Planning | requirements, plans, contracts, tasks (`s.requirements`, `s.plans`, `s.contracts`, `s.tasks`, `s.taskOrder`) | AddRequirement, GeneratePlan, GenerateContract, DispatchTasks, ValidateContract (queues rework), RetryTask |
| Run engine | runs, private sandboxes, artifacts, simulated faults (`s.runs`, `s.sandboxes`, `s.artifacts`, `s.sandboxFaults`) | StartRun, StartParallelRun, MarkTaskSandboxFailure, the goroutine `executeRun` (snapshotForExecution, sandboxFailureForTask, applyPendingHumanOverrideLocked, executeRuntimeRun, outcome) and `failRun` |
| Human in the loop | overrides and code locks with leases, conflict queue | ApplyHumanOverride, ApplyCodeLock, ResolveConflictQueueEntry, applyProjectLocksToBundle, expiry by the clock |
| Timeline | snapshots, current and stable branch, branch counter, shared sandboxes | MergeToSharedSandbox, RollbackToSnapshot |
| File and memory store | `service-state.json`, or nothing | persistLocked after every handler, loadPersistedState in New |
| Postgres store | projection tables, the document `service_state`, candidate copies of the maps | repository transactions, SaveState, LoadState, reads that write the maps |
| Workspaces | git worktrees, branches, the remote, heads in sandboxes and snapshots | CreatePrivate, FinalizePrivateRun, MergeShared, Publish, RestoreSharedSnapshot, Cleanup, Rebase |
| Agent runtimes | registry of runners, configuration, attempts and charge of a run | New, executeRuntimeRun, the runners, UpdateRuntimeConfig |
| Token budget | the runs | ensureTokenBudgetAllowsRunLocked |
| Advisory locks (Postgres) | session locks, the pool of sessions | LockProject, UnlockProject |
| Idempotency (Postgres) | table `idempotency_keys` | checkIdempotencyKey before a guarded operation |
| Schema migrations | `schema_migrations` and the tables | Migrate (embedded), Up, Down, Status (files) |
| Sign-in | cache of the issuer's keys | handleOIDCCallback, VerifyIDToken, FetchJWKS |
| Rate limit, routing, events, metrics, static tokens, RBAC, configuration, web console | none that the others read | request handling |

All handlers and all goroutines of one process share the maps of `Service` under
`s.mu`. With the memory and file stores a handler holds the lock from its first
read to its return, and saves before it returns; so a handler is atomic, and a
save that fails leaves the memory ahead of the file. `executeRun` is not atomic:
it takes the lock once per section, and works without it in between. Handlers
reach goroutines only through the maps: a fault or an override is left there and
picked up by the next section. With Postgres a handler of the repository kind
changes a copy, commits it and then installs it; reads take the rows without the
lock and write them into the maps later. Several instances of the server can
share a database: they meet in the rows, in the advisory locks, in the table of
keys and in the ledger of the migrations, never in memory.

### What is hard

* a goroutine between two of its sections, while handlers change its task, queue
  overrides, or roll the project back;
* a start of several runs of which one fails, after others have been made;
* a save or transaction that fails after the maps have changed, and a restart
  from what is stored; a load that fails;
* rows that were read before a change and are installed after it;
* a session lock behind a pool: which session the unlock reaches, which session
  the pool closes, a client that goes away;
* a key that is recorded before its operation has happened, and lost answers;
* leases that run out between request and checkpoint, or between the reading of
  the clock and the lock;
* rollbacks that fail half-way, and rollbacks while runs are in flight; git, which
  no save or rollback takes back;
* retries against a deadline, and answers of providers that fit no scheme;
* instances that migrate at once, and two tools that keep one ledger;
* keys of an issuer that change while sign-ins are under way.

`PROJECT.json` lists these hazards, each at its line, with the properties that
watch it. Those without a property have a note that says why; most are places
where the code has no rule to check, and section 3, *Limits*, says what happens
there.

## 2. Modules

```
Board                             what a client may rely on (abstract)
ServiceState                      types of the maps; the effect of every handler
  ServiceStateProofs              what an effect changes and keeps
  RunEngine                       handlers, goroutines, saves, restart
    Timeline                      RunEngine + snapshots, merges, rollbacks
      RunEngineProofs             theorems of RunEngine and of Timeline
  PostgresEngine                  the same handlers over tables and document
    PostgresEngineProofs          inductive invariants and theorems
AdvisoryLocks                     project lock over a pool of sessions
Idempotency                       keys of guarded requests
  DatabaseGuardsProofs            theorems of the two
Workspaces                        git worktrees, branches, snapshots
  WorkspacesProofs                metadata against branches, and theorems
CodeLocks                         code locks and bundles
  CodeLocksProofs                 leases, merged files, and theorems
Migrations                        schema migrations, two ways
  MigrationsProofs                inductive invariant and theorem
Runtimes                          selection, retries, usage, budget
OidcKeys                          sign-in and the key cache
  RemoteServicesProofs            sums, and theorems of the two
MC<Module>                        the instance of a module for TLC
```

DatabaseGuardsProofs and RemoteServicesProofs extend two components each that have
nothing in common. For that, Idempotency and OidcKeys carry names of their own:
`RequestsInit`, `RequestsNext`, `RequestsSpec` and `KeysInit`, `KeysNext`, `KeysSpec`.

Several modules have a part of the state that says in which circumstances a
behaviour happens. In PostgresEngine (`env`) and Migrations (`setup`) it is chosen
in Init and does not change; in AdvisoryLocks (`mishaps`) and Idempotency
(`trouble`) it is a history of what has gone wrong. A property names the
circumstances that its promise does not survive, and one run covers them all.

**ServiceState.** The maps of one project are one record (`ServiceStates`); the
memory and the file are two values of it, and a snapshot keeps a part of it
(`ProjectStates`, the type `projectSnapshotState`). Every handler's effect is an
operator from records to records. Identifiers, random in the code, are naturals
in the order of their creation, so that `taskOrder` and `runOrder` are the order
of the numbers; a sandbox and an artifact belong to one run and are indexed by
it. Names, texts, timestamps, audit and communication logs are left out.

**RunEngine.** `mem` is the memory, `disk` the file, `agent[r]` where the
goroutine of run `r` is and which task it remembers, `last` the newest
identifiers, `expired` the leases that have run out. Actions are named after
the handlers. `Persist` is `persistLocked`: the save succeeds or, where
`SaveCanFail`, fails with the memory already changed. The goroutine goes
`spawned` (started) → `prepared` (has its copy of run and task) → `cleared` (no
fault) → `working` (past the checkpoint) → `finishing` → `exited`, or to
`failing`, which is the call of `failRun`. Three outcomes of a start are
distinct: started and saved; made but not saved, with no goroutine; given up in
the middle of a parallel start. `Restart` forgets the goroutines and loads the
file; it includes the state after a crash at any point, since a save replaces
the file in one rename.

**Board.** Tasks and runs appear, make progress and settle; a settled entry
keeps its outcome, a run its task, a task its data; every run is of a task
whose dependencies are done and agrees with it. A step may move many entries by
several stages, which is what a reader of a file that was not written for a
while sees. `DiskIsBoard` (RunEngine) and `RowsAreBoard` (PostgresEngine) are the
refinements.

**Timeline.** Adds `MergeToSharedSandbox` with its four ends (blocked by the
contract, by the manifest, by the integration with its automatic rollback, or
merged with a stable snapshot) and `RollbackToSnapshot` with its failures after
the maps were replaced. A rollback removes and restores entries of the maps
while goroutines go on, so the actions of RunEngine check, like the code, what
they find. Of a workspace only the kind of branch that a snapshot names is kept
(`none`, `shared`, `rollback`).

**PostgresEngine.** The maps (`mem`), the projection tables (`rows`) and the
document (`legacy`) of one project, with the orders `task_order` and `run_order`
as tables with a primary key. `Transact` is a repository handler: rows and
document change together and the candidate is installed, or nothing changes.
`Persist` is `persistLocked` here: all rows are replaced. A read is two actions,
`StartRead` with the rows of the query and `Finish...` with what the handler
writes into the maps. `Boot` is New, with rows filled from a document of an older
release; a load that fails leaves empty maps, and the process goes on. `env` says
what fails in a behaviour and which reads clients make. The effects are those of
ServiceState, and the abstract specification is Board again.

**AdvisoryLocks.** Instances of the server with their pools (`idle`, newest last,
at most two are kept, the defaults of `database/sql`), the session that holds the
lock and how often, and the requests of each instance: lock, work under the mutex
of the instance, unlock, each on the session that the pool hands out. A session
that is closed gives up its locks. The behaviour of pool, driver and PostgreSQL
is external, modelled from how the code uses it. Lock ids keep their width:
`HalfWidth` bits per half, of which the sign bit is lost to int4.

**Idempotency.** Clients that send an operation until they hear "ok", "conflict"
or "invalid"; the handler's lookup, record and operation as three steps, with
lost answers, failing operations, failing statements, crashes, and clients that
do not wait.

**Workspaces.** A commit is the set of changes in its history, so that ancestry
is inclusion; a rebase writes a change anew, unless the target has it already in
an earlier writing, which `git rebase` leaves out; `writing` counts the rebases of a
sandbox. `maps` and `snaps` are what the
Service knows, `disk` what it has saved, `tree`, `branch`, `remote`, `main` are
git. `git worktree remove` without force refuses an edited tree, so the check and
the removal are one step. Git changes before the save: `Save` either stores the maps
(`Persist`) or fails with git and memory already changed (`PersistFails`), which is
also, with `Restart` after it, a process that stops between the two.
`CleanupWorkspaces` does not save what it did, as in the code. A merge can fail
before its commit (`MergeSharedFails`), or after it, with the branch published or not
(`IntegrationFails`); a rollback can fail when the maps are already replaced
(`RestoreFails`). A rollback restores older heads into the maps and git keeps its
branches, and so does a restart when the save of a rebase was lost. `behind` is the
history of that: the sandboxes whose entry may be from before a rebase, of the maps
and, in `disk`, of the store. They are the exception of `WorkIsReachable` and
`MetadataIsCurrent`.

**CodeLocks.** A scope (`codeLockScope`) is the path and the symbol as the operator
wrote them; what it names in a bundle is found by `Cleaned` (filepath.Join), `Cut`
(the receiver before the dot) and `Selects`, so that several scopes can have one
target. The slice of locks is a set, since its order is that of the ids. A Go file is
the sequence of its declarations, a declaration the sequence of its specs, a spec
what the merge and the compiler tell apart: kind, names, receiver, the packages it
refers to, and every identifier before a dot, local variables included. An import is
a path and a name it may be given; by which it is visible is `PackageName`, while the
code goes by the last element of the path (`LastElement`). Registration and
generation read the clock in a step of their own, before the mutex.
`applyGoSymbolLock` and `reconcileGoImports` are operators on files, with the cases in
which the text they produce does not parse (`Broken`). `Locked` applies the scopes to
a file in the order of their strings. `metadata/lock-conflicts.log`,
`release-gate.json` and `manifest.json` are written after that.

**Runtimes.** `registry` is built once from the environment, `cfg` can be
changed. The http runner retries under the
deadline of the run with growing pauses; "llm" stands for the three runners of
one shape. Replies are of the kinds that the decoders tell apart. Prices are one
unit per token.

**Migrations, OidcKeys.** One action per statement and critical section. In Migrations a statement that
meets an uncommitted object of another transaction waits, and fails when that commits. In OidcKeys time is
relative (what is left of the hour, how long a key is gone), so the state space
is finite without a bound on time.

Definitions that begin with the comment `Mutation:` are variants with a
plausible mistake; no specification uses them. They show that the properties
notice such mistakes.

## 3. What is checked

| Run | Module, configuration | Distinct states | What it shows |
|---|---|---|---|
| `run_engine_failures` | MCRunEngine, RunEngineFailures | 259 000 | tasks, runs, sandboxes and artifacts agree in memory and file; dependencies are done before a run exists; one goroutine settles a run; a lease has one owner; a paused task has a pending instruction; the file implements Board |
| `run_engine_healthy` | MCRunEngine, RunEngineHealthy | 205 000 | without failing saves, sandboxes and restarts: what the memory shows is backed by a goroutine or the file, and runs end |
| `run_engine_orphan` | MCRunEngine, RunEngineOrphan | (violation) | a sandbox that cannot be created in a parallel start leaves runs that never end |
| `timeline` | MCTimeline, Timeline | 368 000 | the agreement survives merges, snapshots and rollbacks that overtake goroutines or fail half-way |
| `postgres` | MCPostgresEngine, Postgres | 468 000 | maps, rows and document under failing transactions, saves, loads, stops of the process and stale reads; the rows implement Board; runs end in the rows |
| `locks` | MCAdvisoryLocks, AdvisoryLocks | 81 000 | the lock covers the work of a handler and excludes other instances, it is free in the end, everyone gets a turn |
| `idempotency` | Idempotency | 158 000 | at most once, "conflict" means applied, applied in the end |
| `workspaces` | MCWorkspaces, Workspaces | 598 000 | with saves and rollbacks that fail: no worktree in use and no edit is removed, work stays reachable, metadata follows the branches, merges build up, nothing published is taken back |
| `code_locks` | MCCodeLocks, CodeLocks | 606 000 | with clock, failing saves and restarts: one owner per scope, acknowledged locks are stored; with three locks in one file, twelve sets of requests: bundles keep the locked content and replace nothing else, and imports fit where a name has one meaning |
| `runtimes` | MCRuntimes, Runtimes | 509 000 | the selected runtime or none, retries as long as allowed, every run ends, overspending is bounded by the estimates of the runs started beside another one |
| `migrations` | MCMigrations, Migrations | 168 000 | the embedded schema is all or nothing, recorded means created, both ways finish where they are used alone |
| `oidc` | OidcKeys | 147 000 | a withdrawn key expires, sign-in works again |

Every module has its `TypeOK`; that of RunEngine is checked and proved. The others
say of which kind the variables are and hold on the instances of the runs too; a
run lists the properties that say more. Some properties are conjunctions of named
parts, one promise each (`MemoryIsBacked`, `LockHeldExactly`, `LeasesHold`,
`BundleHonoursLocks`, `LedgerIsTrue`).

One run is expected to fail: `run_engine_orphan` checks what
`docs/Acceptance-Cases.md` says of a failing sandbox and the code does not keep (see
`findings` in PROJECT.json).

The code does not keep either what it says of code locks: the answer of ApplyCodeLock
("code lock registered and will be preserved on future bundle generations",
`service.go:2337`) where two scopes name one target, and what
`docs/Release-Checklist.md:99` says of the imports of merged content where a name has
several meanings. What holds instead is said by `BundleHonoursLocks`, which excepts a
lock of another scope of the same target that is merged later, and by
`BundleFilesWellFormed`, which asks of the contents of one file that imports are not
renamed, that packages are named like the end of their path, that declarations have
one spec with one name, and that no content uses a name that another one imports for
anything else. The requests `Spellings`, `Receivers`, `Rands`, `Renamed` and `Locals`
of MCCodeLocks reach the exceptions.

### Bounds, and why they are enough

A configuration allows the smallest numbers in which each case of the code
happens: one plan with its dispatched pipeline has four tasks and three kinds of
dependencies; two concurrent runs show every race of two goroutines, and a third
is needed for a run that follows two others; two operators and two scopes show
every conflict of leases, three overrides a conflict with other than the newest;
three snapshots a rollback of a rollback. Two instances, two clients, two
sign-ins are enough for a race; instance `a` has a second writer and a reader
because a swap of sessions needs two, and a surplus session three.

Where all bounds at once would be too many states, the MC module has a
`CONSTRAINT` that names the regions that are explored (`OneTaskOrNoOverrides`,
`Regions`), each with one dimension large: the pipeline without people, or one
task with people; three snapshots of one task, or two snapshots of a pipeline in
which nothing fails; two rebases of two sandboxes, a rebase with a rollback of three,
where one save or rollback fails while no run has failed and no tree is edited, or
four sandboxes that nobody rebases and for which nothing fails; two
code locks under clock and faults, or three at one moment; for Postgres one region per
environment. The constraints only cut behaviours off;
steps of goroutines stay inside a region, so that the liveness properties see
complete executions. `RunEngineFailures` uses the symmetry of operators, and no
liveness property.

Time is a clock with few values (CodeLocks, Runtimes) or relative (OidcKeys);
leases, deadlines and the hour of the key cache are shorter than the clock.
Lock ids have two bits per half, one of them the sign.

### Fairness

* RunEngine, PostgresEngine: weak fairness of every goroutine. The Go scheduler
  runs it, the mutex of the Service starves nobody, and the call of the runtime
  has a timeout. Nothing is assumed of clients, of a restart, or of the clock.
* AdvisoryLocks: weak fairness of handlers and readers: statements that can run
  are run. That a waiting handler gets the lock is the queue of PostgreSQL, and in
  the model there are finitely many handlers, so weak fairness suffices.
* Idempotency: handlers go on, and a client that heard nothing sends again.
* Runtimes: time passes, and a goroutine goes on; a provider need not answer.
* Migrations: an instance or operator that failed tries again, faults are finite.
* OidcKeys: a sign-in goes on, and a user tries again; the issuer owes nothing.

### Limits

What happens when a hypothesis of a property is dropped. Most of this was seen
in TLC with the hypothesis removed; each is what the code does.

* An override that arrives after the only checkpoint of a run is accepted, stays
  PENDING, and the task ends without it (`service.go:3601`).
* A rollback under git puts the workspace on a `/rollback/` branch and its
  snapshot becomes stable; the next automatic rollback accepts only `/shared/`
  branches and is refused (`:6253`). A rollback keeps no record of the state it
  leaves (`:6165`).
* A retried task is a new task: tasks that depend on the failed one stay blocked
  (`:5551`). DispatchTasks pairs the newest plan with the newest contract, which
  may belong to an older plan (`:4436`).
* Postgres: a list of tasks (or projects) that was read before a start and
  installed after it makes the task look CREATED, and it can be run twice; the
  status of a run that was read before its outcome and installed after it makes the
  run RUNNING again, and the next save stores that over the outcome (`:3381`). No
  property watches such stale statuses where clients make these reads: `LiveAgentOwnsRow`
  and `StoredTasksSurvive` say who settles a run and that no stored task is dropped, and
  the others are about environments without the reads. A load that fails leaves empty
  maps, and the next save replaces all stored rows; an outcome whose transaction fails
  is dropped and its run stays RUNNING. A commit is done or fails: that it is done and
  its answer lost, so that rows are ahead of the maps, is not modelled.
* Locks: a pool keeps two idle sessions, and closing a third releases the lock it
  held; the unlock can reach a session without the lock, or be cancelled with its
  request, and the lock stays; half of a lock id above 2^31 is refused as int4, so
  some projects cannot be locked; and an instance that has the lock still saves
  the maps it loaded at its start, over what another instance stored.
* Idempotency: two requests with one key that overlap are both applied; an
  operation that fails after its key was recorded is answered with "already
  applied" for ever.
* The worktree of a failed run is never removed. A rebase followed by a rollback, or
  by a save that fails (`:2786`) and a restart, leaves sandboxes that rebase and
  cleanup skip; the head they name may be gone from every branch.
* Locks of different scopes do not conflict, whoever owns them: of a file and a
  symbol in it, of two spellings of one path, or of a method with and without its
  receiver, the one that sorts later wins: locks of two operators on `./main.go` and
  `main.go` are both granted (`:5199`), and the file holds only the second (`:4638`).
* `metadata/lock-conflicts.log`, `release-gate.json` and `manifest.json` are written
  after the locks, over what was locked there.
* Imports are compared by the last element of their path with any identifier before a
  dot (`:4896`): a locked `main` that calls a method of a local variable `http` keeps
  the import of `net/http`, which nothing uses, and the file does not compile. Two locks whose contents import `math/rand` and
  `crypto/rand` leave both in the file; an import whose package is not named like the
  end of its path is dropped as unused; an import with a name is never removed.
* A symbol of another kind, or in a declaration of several names, is not found, and
  the locked one is appended beside it. Grouped locked content is inserted whole into
  an ungrouped target. A single declaration merged into a group, an import merged into
  a file whose imports are not in one group, and a symbol lock on a file whose locked
  content does not parse end in an error, and the run fails.
* A lock whose save failed stays in memory although its operator is told of the
  error; a bundle that is generated then holds it instead of an earlier lock of the
  same operator, and after a restart the earlier lock is the one that counts.
* The budget counts runs that have ended, and what a provider reports beyond the
  estimate is only noticed afterwards. UpdateRuntimeConfig changes the
  configuration and not the registry, so runs go on with the old runtime, although it
  answers that `runtime.provider` was updated (`:812`); `RunsUseSelectedRuntime` states
  this rather than objects to it, since the console tells users to restart. GET
  /admin/config shows the copy made at the start. What a failed run is charged,
  `estimateRunTokens` (`:5406`), depends on its task and its plan and is one constant here.
* `idempotency_keys` is created by the first guarded request, and the readiness
  check asks for it before. Up after Migrate can never record a version (no
  checksum), Migrate after Up reports a mismatch for ever.
* An error of the key endpoint that is JSON is cached as an empty key set, and a key
  that is not in the cache does not lead to a new request: after such an answer, and
  after a rotation, sign-ins are rejected until the hour of the cache is over. The
  claims that are checked after the signature (issuer, audience, expiry,
  `oidc.go:153`) are taken as good.
* A run that was RUNNING when the process stopped stays so.

## 4. What is proved

`RunEngineProofs` proves, from `BoundsAssumption` and `ConfigAssumption` only
(bounds are naturals; the store is `memory` or `file`; switches are Boolean), so
for any number of tasks, runs, overrides and operators and any failures:

* `TypeCorrect`: `Spec => []TypeOK`
* `RunsAgree`: `Spec => []RunsAndTasksAgree`
* `DependenciesRespected`: `Spec => []DependenciesDone`
* `AgentsOwnRuns`: `Spec => []LiveAgentOwnsRun`
* `DiskImplementsBoard`: `Spec => DiskIsBoard`

None of the four invariants is inductive alone. `CompleteRun` writes DONE to the
task that the goroutine *remembers*; that this is the task of a run which is
still running needs `LiveAgentOwnsRun`. That a new run cannot hit one that a
goroutine works on needs that identifiers are fresh, in the memory and in the
file (a restart brings the file back, `last` does not go back). And type
correctness of `FailRun` needs that an existing run has a task. The inductive
invariant `IInv` is therefore: `Sound` (type, freshness, Agreement, Ordering) of
`mem` and of `disk`, the types of the rest, LiveAgentOwnsRun, and
`Forward(disk, mem)`: the memory is a possible future of the file.

The argument has three layers. Lemmas `...Fields` say which fields an effect
changes; they alone look into the big record. Lemmas `...Sound` say of any sound
record that the effect keeps it sound and leads forward; the same lemma serves
memory and file. Both are in `ServiceStateProofs`, for every engine. Lemmas `...Step`, one per action or group of like actions,
combine them with `PersistStep` (the file is the new memory or the old file) and
`StepKeepsInv`. `Forward` is transitive, so a file that catches up after failed
saves makes one step of the board; this, with Agreement and Ordering as
`Coherent`, is the refinement. `IInv` was also checked with TLC on the instance
of `run_engine_failures`.

`DatabaseGuardsProofs` proves of Idempotency, from `IdempotencyAssumption` only
(there is at least one attempt), so for any set of clients and any number of
attempts:

* `AtMostOnce`: `RequestsSpec => []AppliedAtMostOnce`
* `Settled`: `RequestsSpec => []SettledMeansApplied`

Neither is inductive. That a second request does not apply the operation again
needs that a client without "overlap" has at most one request at work, its latest
(`OneAtWork`, from `SentInOrder`), that a protected request past the guard has its
key recorded and has not applied, and that one before the record has no key
(`KeyBeforeEffect`). That "conflict" is true needs that every recorded key is
accounted for: applied, or about to be, or failed (`RecordedMeansApplied`).
`HandlerKeeps` is the common part of the three steps of a handler: they touch
their own client only. This inductive invariant was checked with TLC on the
instance of `idempotency` as well.

The other properties of RunEngine are proved on top of `IInv`:

* `PausedTasksHaveRequests`: `Spec => []PausedHasRequest`
* `LeasesExclusive`: `Spec => []OverrideLeaseExclusive`
* `HealthyServiceBacked`: `Spec => []MemoryIsBacked`, for the file store without
  failing saves, failing sandboxes and crashes (`Healthy`); the run
  `run_engine_healthy` is such an instance, and the property is false otherwise

For the first two the invariant `Leased` is said of memory and file alike: a
pending instruction is of a paused task, a paused task has one, leases of one scope
have one owner. The file needs it because a restart brings old leases back; what
has expired does not come back. For the third the file is the memory up to used-up
faults, and every running run has a goroutine.

Of Timeline, the same module proves the agreement where rollbacks remove and restore runs
under working goroutines, and what is peculiar to snapshots, for any number of
snapshots and any failures (`TimelineSpec`):

* `TimelineAgrees`: `[]RunsAndTasksAgree` and `[]DependenciesDone`
* `SnapshotsCoherent`: `[]SnapshotsAgree`
* `NoOutcomeOverwritten`: `[]OvertakenAgentFindsNoOutcome`
* `BranchesDistinct`: `[]RollbackBranchesDistinct`

`IInv` does not hold here: a goroutine may have lost its run, and the file may be
ahead of the memory. `TInv` (theorem `TimelineInvariance`) speaks of all copies of
the maps at once, `Copies`: memory, file, and the state of every snapshot of
either. Each copy is coherent and older than `last`, all copies that have a run
agree on its task (`RunsKeepTask`), and no copy has an outcome for a run that a
goroutine still executes (`AgentsUnsettled`); without the last part a rollback could
bring back an outcome for a goroutine to overwrite. The `...Sound` lemmas are used
again for every copy.

`PostgresEngineProofs` proves, from `BoundsAssumption` and `PostgresAssumption` only
(environments are sets of faults and reads; there is room for the one task of a
document of an older release), so for any bounds and any set of environments:

* `AgentsOwnRows`: `Spec => []LiveAgentOwnsRow`
* `TasksAreKept`: `Spec => StoredTasksSurvive`, an action property
* `RestartIsSound`: `Spec => []RestartFindsAgreement`
* `TablesAreBoard`: `Spec => RowsAreBoard`
* `NothingIsLost`: `Spec => []MapsAreStored`

There are three copies of a project, the maps, the tables and the document, and a
fourth in the hands of a read that waits. They are written by two kinds of handlers
(`Transact` and `Persist`) that fail in different ways, and merged by LoadState. The
invariant has two parts. `IInv` holds in every environment: the copies are typed and
name only runs that were handed out (`Known`), nobody but its goroutine settles the
run of a goroutine, and no waiting read has another status of it (`Owned`), and,
unless loads fail, the maps have every task of the tables (`Covered`). The last is
what StoredTasksSurvive needs: `Persist` replaces all rows by the maps. `TrustInv`
holds in a trusted environment: the document, and the maps that LoadState would make
of tables and document now, are `Sound` in the sense of RunEngine (`Agreed`); the maps
are `Ahead` of the tables in tasks that are started or paused and in runs that were
never stored, and equal in outcomes; a waiting read has nothing that the tables have
not (`Current`). That LoadState is sound does not follow from soundness of tables and
document apart, since they may be of different transactions, so it is carried through
every step. Each action has a lemma that it is a `GoodStep`: both parts are kept, no
task is dropped, and the tables go `Forward`. The proof showed that `Trusted` has to
exclude GetRunStatus as well as ListTasks (section 3, *Limits*).

For the last theorem `StoredInv` is added: in an undisturbed environment (no failing
saves, loads and sandboxes, no reads; transactions, runtimes and the process may
fail) tables, document and maps are one, up to used-up faults, and while no process
runs the tables are those of the document or were never filled. A repository handler
does not write the maps but the rows it has changed, so each has a lemma (`...Stored`)
that its rows are, column by column, what saveServiceStateProjection would have
written. For task_order and run_order this needs that identifiers are appended in the
order in which they are handed out (`AppendedPositions`), and for a restart that an
order is read back as it was written (`LoadOrderOf`).

`RemoteServicesProofs` proves of OidcKeys, from `OidcAssumption`, `KeysExpire`:
`KeysSpec => []WithdrawnKeysExpire`, for any lifetime of the cache and any timeout. The invariant gives the key sets an age
wherever they are: in an answer on its way, in the cache, or in the hands of a
sign-in that stored an older answer over a newer one.

`DatabaseGuardsProofs` also proves of AdvisoryLocks, for any instances, handlers and readers
(`LocksAssumption`), `LockExact`: `Spec => []LockHeldExactly` and
`InstancesExclude`. The sessions swap their handlers, so the lock cannot be followed
session by session; the invariant counts. Unless a session was closed with the lock,
it is held at least as often as there are handlers inside (`Covered`), and unless an
unlock was lost, not more often (`NoSurplus`). That a pool always finds a session to
open is a pigeonhole argument on finite sets (`FreshExists`).

`MigrationsProofs` proves, for any instances, operators, versions, setups and lost
connections, `LedgerTrue`: `Spec => []LedgerIsTrue`. A transaction has found or
inserted a row for every version that it has passed (`TxOk`); a call of Up has all
rows below its version, one of Down is at the last version (`OpOk`). That sets of
versions have a first and a last element is proved by well-founded induction on
subsets (`MinOfFinite`, `MaxOfFinite`). The proof needs that the embedded versions
are the first ones of the directory (`MigrationsAssumption`), and it made two
conditions of `LedgerIsTrue` explicit that the setups of the run only implied: Down
beside an instance takes a part of the embedded schema back.

`WorkspacesProofs` proves all four properties of Workspaces for any number of
sandboxes, snapshots, upstream changes, rebases, and saves and rollbacks that fail, and
every setting of push and cleanup: `WorkSurvives`, `MetadataFollows`, `MergesBuildUp` and the action property
`NothingIsTakenAway`. An entry of the metadata lives in three places that move at
different times: the maps, the store, and the maps inside each snapshot. The
invariant says of both copies, memory and store, how a released entry relates to its
branch (`CopyOK`, `EntryOK`): it is at the head, or the branch was deleted when the
base ref had the head, or the sandbox is in `behind`; in the maps inside a snapshot,
the last for every sandbox that has been rebased. All places agree on which sandboxes
are shared (`KindsAgree`), so that no cleanup or rebase touches a branch that a
snapshot needs, and every snapshot contains the shared sandbox of its own commit
(`SnapshotOK`). A step gives the memory its new copy, and the store either that or its
old one with the sandboxes just rewritten added to `behind` (`StoreStep`), so one
lemma per action serves both. The proof corrected the model: a sandbox that was rebased,
merged and cleaned up can also be left behind by a rollback, which needs more sandboxes
than the run has, and a second rebase could take up the number of an earlier writing.

`RemoteServicesProofs` proves of Runtimes, for any finite set of runs and any
environments, updates, replies, delays and timeouts (`RuntimesAssumption`):

* `RuntimeIsSelected`: `Spec => []RunsUseSelectedRuntime`
* `RetriesExact`: `Spec => RetriesAreExact`, an action property
* `OverspendIsBounded`: `Spec => []OverspendBounded`

For the first two the invariant (`RuntimesInv`) says that no run is with its runtime
past its deadline, that one that pauses may try again (`AttemptsInTime`), and that
the runtime of a run is the default of a registry without error (`RuntimeFixed`).
The budget needs to look back: whatever was started since, there was a last run that
was started alone, and its check saw all charges of the runs before it
(`LastAlone`, `BudgetChecked`). So the charges split into those before it, which
are below the threshold with one estimate to spare, its own, and those of runs that
were started beside another one. The charges are a `SumFunction`, which the library
defines by recursion over subsets; lemmas `Sum...` prove that the recursion has one
solution and that the sum can be split, bounded and compared.

`CodeLocksProofs` proves the three properties of CodeLocks that hold, for any
operators, tasks, requests, contents, scopes, spellings, packages, clock and faults
(`CodeLocksAssumption`: requests are decoded JSON, what is generated parses, and in
the order of the scopes those of files come before those of symbols):

* `Leases`: `Spec => []LeasesHold`
* `BundlesHonourLocks`: `Spec => []BundleHonoursLocks`
* `BundlesWellFormed`: `Spec => []BundleFilesWellFormed`

`OneOwnerPerScope` is about the clock and is not inductive: the invariant says
instead that of two locks of one scope and different owners the earlier has expired
when the later was created (`SoundLocks`), of the locks in memory and of those in the
store, which a restart brings back. For bundles it says at each stage what the
generation has (`BundleOK`). What `Locked` makes of a file is an induction over the
positions of the sorted scopes (`LockedAfter`), whose step is what one lock does to
whatever the earlier ones left. `ApplyIs` says that of every file: the declaration
is there, every spec that the lock does not select is kept, every new one comes from
the lock and is declared with its symbol. `ApplyTidy` says of a file that is
well-formed, and plain, and made of contents that give a name one meaning
(`Harmonious`), that it stays so; there `HarmoniousExact` shows that the last element
of a path is before a dot exactly where the package is referred to. One lemma per
branch of `applyGoSymbolLock` (`MergedNew`, `MergedAppend`, `MergedReplace`,
`MergedSpec`) shows the first part before the imports are reconciled.

The proof found a mistake in a property: `ActiveLocksPreserved` used to speak of the
locks that are in memory when it is evaluated. With two faults a lock whose save
failed is in the bundle and is then lost by a restart, and the bundle does not hold
the lock that is in memory now; a run with one fault did not show it. The property is
now about the locks that were there when the generation read the clock, and the run
has two faults.

*Induction over data.* The induction theorems of the library take an operator as
parameter, which no installed prover can instantiate. Their well-founded core does not:
every set of numbers has a least element (`NatLeast`, from `WFMin` and
`NatLessThanWellFounded`). From it follow induction for sets of numbers
(`NatInductionOnSets`) and for the subsets of a finite set (`SubsetInduction`), with
the statement to be proved as a set, which is an ordinary value.

Both inductive invariants, as every other one, were checked with TLC on the instance
of their run before they were proved.

*Only model-checked:* liveness, which is beyond the prover (`RunsTerminate`,
`StoredRunsTerminate`, `EveryHandlerEnds`, `EveryOperationApplied`, `RunsEnd`,
`EveryInstanceMigrates`, `EveryMigrationRecorded`, `SignInWorksAgain`), and the
violation. Every invariant, action property and refinement of a passing run has a theorem.

## 5. Not modelled, and the plan

Not modelled, because no other component's state depends on it: routing, paging,
event streams, metrics and JSON of the HTTP server; static tokens and RBAC, which
are functions of a request and a fixed table; parsing of the configuration; the
S3 client (a failing upload is a failing run); the web console; audit, alerts,
previews and communication logs, which are written and only displayed; dry runs,
which change nothing.

Left out although they have state: the rate limiter (its key is the remote
address with its port, so each connection has a count of its own); the workspace
provider of plain directories, which has no history; ListContracts and
GetContract, which overwrite the maps as ListTasks does; in merged Go code, files
that mix single and grouped imports, dot and blank imports, and what the files of one
package declare between them; locks on the other files of `metadata/`, which can make
the release gate refuse the bundle; a merge whose
checkpoint cannot be recorded, which leaves a released shared sandbox without a
snapshot, and in Workspaces the automatic rollback in the same call as a failed merge,
which is a step of its own there; the check of the payload version of the stored
document.

Order in which the project was built: Board, ServiceState, RunEngine and its
proofs; Timeline; PostgresEngine; the two guards of the database (AdvisoryLocks,
Idempotency); Workspaces; CodeLocks; Runtimes; Migrations; OidcKeys.

Next: the directory provider of workspaces, and the conditions under which a second
instance loads what the first has stored, once the code has such a step.
