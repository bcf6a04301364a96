------------------------- MODULE ServiceStateProofs -------------------------
(***************************************************************************)
(* Lemmas about the records of ServiceState and the effects of handlers on *)
(* them: the fields that each effect changes, and that it keeps tasks,     *)
(* runs, sandboxes and artifacts in agreement.  They speak of values, not  *)
(* of the state of a specification, so that the proofs about RunEngine,    *)
(* Timeline and PostgresEngine use them for each copy of the maps: in      *)
(* memory, in a file, in a snapshot, in tables.                            *)
(***************************************************************************)
EXTENDS ServiceState, TLAPS

\* The operators of Board that have no state: what a task or a run may become.
Stages == INSTANCE Board WITH
    TaskIds <- TaskId, RunIds <- RunId, status <- EmptyState.status,
    task <- EmptyState.task, run <- EmptyState.run, runTask <- EmptyState.runTask

-----------------------------------------------------------------------------
(***************************************************************************)
(* The fields of the state that each effect changes, and its type.  The    *)
(* theorems after this section use these facts and never look into the     *)
(* records again.                                                          *)
(***************************************************************************)

\* The fields that Agreement and Ordering speak of are the same in n and s.
SameWork(n, s) ==
    /\ n.status = s.status /\ n.task = s.task
    /\ n.run = s.run /\ n.runTask = s.runTask
    /\ n.sandbox = s.sandbox /\ n.artifact = s.artifact

\* The maps that resetStateLocked makes have their types.
LEMMA EmptyStateType == EmptyState \in ServiceStates
<1>1. /\ 0 \in Nat /\ NoId \in Nat
      /\ <<>> \in Seq(Nat) /\ <<>> \in Seq(SandboxStatus)
      /\ <<>> \in Seq(ConflictStatus) /\ <<>> \in Seq(Snapshots)
  BY DEF NoId
<1>2. NoTaskSpec \in TaskSpec
  BY <1>1 DEF NoTaskSpec, TaskSpec, TaskType
<1> QED  BY <1>1, <1>2, ZenonT(60) DEF EmptyState, ServiceStates

\* AddRequirement only counts a requirement.
LEMMA AddRequirementFields ==
    ASSUME NEW s \in ServiceStates
    PROVE  /\ AddRequirementEffect(s) \in ServiceStates
           /\ SameWork(AddRequirementEffect(s), s)
<1>1. s.reqs + 1 \in Nat  BY DEF ServiceStates
<1> QED  BY <1>1, ZenonT(60) DEF AddRequirementEffect, ServiceStates, SameWork

\* GenerateContract only appends a contract version.
LEMMA GenerateContractFields ==
    ASSUME NEW s \in ServiceStates
    PROVE  /\ GenerateContractEffect(s) \in ServiceStates
           /\ SameWork(GenerateContractEffect(s), s)
<1>1. Append(s.contracts, Len(s.plans)) \in Seq(Nat)  BY DEF ServiceStates
<1> QED  BY <1>1, ZenonT(60) DEF GenerateContractEffect, ServiceStates, SameWork

\* enqueueConflictLocked only appends to the conflict queue.
LEMMA EnqueueConflictFields ==
    ASSUME NEW s \in ServiceStates
    PROVE  /\ EnqueueConflictEffect(s) \in ServiceStates
           /\ SameWork(EnqueueConflictEffect(s), s)
<1>1. Append(s.conflicts, "OPEN") \in Seq(ConflictStatus)
  BY DEF ServiceStates, ConflictStatus
<1> QED  BY <1>1, ZenonT(60) DEF EnqueueConflictEffect, ServiceStates, SameWork

\* ResolveConflictQueueEntry only changes one entry of the conflict queue.
LEMMA ResolveConflictFields ==
    ASSUME NEW s \in ServiceStates, NEW c \in 1..Len(s.conflicts)
    PROVE  /\ ResolveConflictEffect(s, c) \in ServiceStates
           /\ SameWork(ResolveConflictEffect(s, c), s)
<1>1. [s.conflicts EXCEPT ![c] = "RESOLVED"] \in Seq(ConflictStatus)
  <2>1. s.conflicts \in Seq(ConflictStatus)  BY DEF ServiceStates
  <2> QED  BY <2>1 DEF ConflictStatus
<1> QED  BY <1>1, ZenonT(60) DEF ResolveConflictEffect, ServiceStates, SameWork

\* MarkTaskSandboxFailure and sandboxFailureForTask only change the faults.
LEMMA FaultFields ==
    ASSUME NEW s \in ServiceStates, NEW F \in SUBSET TaskId
    PROVE  /\ [s EXCEPT !.faults = F] \in ServiceStates
           /\ SameWork([s EXCEPT !.faults = F], s)
BY ZenonT(60) DEF ServiceStates, SameWork

\* n is s with a new task for every identifier of T.
AddedTasks(n, s, T) ==
    /\ n \in ServiceStates
    /\ \A t \in TaskId :
         n.status[t] = IF t \in T THEN "CREATED" ELSE s.status[t]
    /\ \A t \in TaskId \ T : n.task[t] = s.task[t]
    /\ n.run = s.run /\ n.runTask = s.runTask
    /\ n.sandbox = s.sandbox /\ n.artifact = s.artifact

\* Storing a task built by NewTask changes the maps at its identifier only.
LEMMA AddTaskFields ==
    ASSUME NEW s \in ServiceStates, NEW t \in TaskId, NEW spec \in TaskSpec
    PROVE  AddedTasks(AddTask(s, t, spec), s, {t})
<1> DEFINE n == AddTask(s, t, spec)
<1>1. /\ n \in ServiceStates
      /\ n.status = [s.status EXCEPT ![t] = "CREATED"]
      /\ n.task = [s.task EXCEPT ![t] = spec]
      /\ n.run = s.run /\ n.runTask = s.runTask
      /\ n.sandbox = s.sandbox /\ n.artifact = s.artifact
  BY ZenonT(60) DEF AddTask, ServiceStates, TaskStatus
<1> HIDE DEF n
<1>2. \A u \in TaskId :
        /\ n.status[u] = IF u \in {t} THEN "CREATED" ELSE s.status[u]
        /\ u # t => n.task[u] = s.task[u]
  <2>1. s.task \in [TaskId -> TaskSpec]
        /\ s.status \in [TaskId -> TaskStatus \cup {"ABSENT"}]
    BY DEF ServiceStates
  <2> QED  BY <1>1, <2>1
<1> QED  BY <1>1, <1>2 DEF n, AddedTasks

\* GeneratePlan appends a plan and stores its one task.
LEMMA GeneratePlanFields ==
    ASSUME NEW s \in ServiceStates, NEW t \in TaskId
    PROVE  AddedTasks(GeneratePlanEffect(s, t), s, {t})
<1> DEFINE p == [s EXCEPT !.plans = Append(s.plans, s.reqs)]
           spec == [type |-> "SPRINT1_EXECUTE", plan |-> Len(s.plans) + 1,
                    contract |-> NoId, deps |-> {}]
<1>1. Append(s.plans, s.reqs) \in Seq(Nat)  BY DEF ServiceStates
<1>2. p \in ServiceStates /\ SameWork(p, s)
  BY <1>1, ZenonT(60) DEF ServiceStates, SameWork
<1>3. spec \in TaskSpec
  <2>1. Len(s.plans) + 1 \in Nat /\ NoId \in Nat  BY DEF ServiceStates, NoId
  <2> QED  BY <2>1 DEF TaskSpec, TaskType
<1>4. GeneratePlanEffect(s, t) = AddTask(p, t, spec)
  BY DEF GeneratePlanEffect
<1>5. AddedTasks(AddTask(p, t, spec), p, {t})  BY <1>2, <1>3, AddTaskFields
<1> HIDE DEF p, spec
<1> QED  BY <1>2, <1>4, <1>5 DEF SameWork, AddedTasks

\* ValidateContract stores one rework task.
LEMMA RemediationFields ==
    ASSUME NEW s \in ServiceStates, NEW t \in TaskId,
           NEW c \in 1..Len(s.contracts)
    PROVE  AddedTasks(RemediationEffect(s, t, c), s, {t})
<1> DEFINE spec == [type |-> "CONTRACT_REWORK", plan |-> s.contracts[c],
                    contract |-> c, deps |-> {}]
<1>1. spec \in TaskSpec
  <2>1. s.contracts \in Seq(Nat)  BY DEF ServiceStates
  <2>2. s.contracts[c] \in Nat /\ c \in Nat  BY <2>1
  <2> QED  BY <2>2 DEF TaskSpec, TaskType
<1>2. RemediationEffect(s, t, c) = AddTask(s, t, spec)  BY DEF RemediationEffect
<1> HIDE DEF spec
<1> QED  BY <1>1, <1>2, AddTaskFields

\* RetryTask stores one new task and leaves the failed one alone.
LEMMA RetryTaskFields ==
    ASSUME NEW s \in ServiceStates, NEW t \in TaskId, NEW old \in TaskId
    PROVE  AddedTasks(RetryTaskEffect(s, old, t), s, {t})
<1>1. s.task[old] \in TaskSpec  BY DEF ServiceStates
<1> QED  BY <1>1, AddTaskFields DEF RetryTaskEffect

\* DispatchTasks stores three tasks.
LEMMA DispatchTasksFields ==
    ASSUME NEW s \in ServiceStates,
           NEW b \in TaskId, NEW f \in TaskId, NEW i \in TaskId
    PROVE  AddedTasks(DispatchTasksEffect(s, b, f, i), s, {b, f, i})
<1> DEFINE Of(ty, ds) == [type |-> ty, plan |-> Len(s.plans),
                          contract |-> Len(s.contracts), deps |-> ds]
           st == [s.status EXCEPT ![b] = "CREATED", ![f] = "CREATED",
                                  ![i] = "CREATED"]
           tk == [s.task EXCEPT ![b] = Of("BACKEND_IMPLEMENTATION", {}),
                                ![f] = Of("FRONTEND_IMPLEMENTATION", {}),
                                ![i] = Of("INTEGRATION_REVIEW", {b, f})]
<1>1. /\ Of("BACKEND_IMPLEMENTATION", {}) \in TaskSpec
      /\ Of("FRONTEND_IMPLEMENTATION", {}) \in TaskSpec
      /\ Of("INTEGRATION_REVIEW", {b, f}) \in TaskSpec
  <2>1. Len(s.plans) \in Nat /\ Len(s.contracts) \in Nat  BY DEF ServiceStates
  <2> QED  BY <2>1 DEF TaskSpec, TaskType, DispatchTypes
<1>2. st \in [TaskId -> TaskStatus \cup {"ABSENT"}]
  BY DEF ServiceStates, TaskStatus
<1> HIDE DEF Of
<1>3. tk \in [TaskId -> TaskSpec]
  BY <1>1 DEF ServiceStates
<1>4. DispatchTasksEffect(s, b, f, i) = [s EXCEPT !.status = st, !.task = tk]
  BY DEF DispatchTasksEffect, Of
<1> HIDE DEF st, tk
<1>5. LET n == [s EXCEPT !.status = st, !.task = tk]
      IN  /\ n \in ServiceStates /\ n.status = st /\ n.task = tk
          /\ n.run = s.run /\ n.runTask = s.runTask
          /\ n.sandbox = s.sandbox /\ n.artifact = s.artifact
  BY <1>2, <1>3, ZenonT(60) DEF ServiceStates
<1>6. /\ s.task \in [TaskId -> TaskSpec]
      /\ s.status \in [TaskId -> TaskStatus \cup {"ABSENT"}]
  BY DEF ServiceStates
<1>7. \A u \in TaskId \ {b, f, i} : tk[u] = s.task[u]  BY <1>6 DEF tk
<1>8. \A u \in TaskId :
        st[u] = IF u \in {b, f, i} THEN "CREATED" ELSE s.status[u]
  BY <1>6 DEF st
<1> QED  BY <1>4, <1>5, <1>7, <1>8 DEF AddedTasks

\* A private sandbox that could not be created fails its task, nothing else.
LEMMA SandboxCreateFailedFields ==
    ASSUME NEW s \in ServiceStates, NEW t \in TaskId
    PROVE  LET n == SandboxCreateFailedEffect(s, t)
           IN  /\ n \in ServiceStates
               /\ n.status = [s.status EXCEPT ![t] = "FAILED"]
               /\ n.task = s.task /\ n.run = s.run /\ n.runTask = s.runTask
               /\ n.sandbox = s.sandbox /\ n.artifact = s.artifact
BY ZenonT(60) DEF SandboxCreateFailedEffect, ServiceStates, TaskStatus

\* n is s with the run r of task t settled: won, or failed without an artifact.
Settled(n, s, r, t, won) ==
    /\ n \in ServiceStates
    /\ \A u \in TaskId : n.status[u] =
         IF u = t THEN IF won THEN "DONE" ELSE "FAILED" ELSE s.status[u]
    /\ \A q \in RunId : n.run[q] =
         IF q = r THEN IF won THEN "SUCCEEDED" ELSE "FAILED" ELSE s.run[q]
    /\ \A q \in RunId : n.sandbox[q] =
         IF q = r THEN IF won THEN "RELEASED" ELSE "FAILED" ELSE s.sandbox[q]
    /\ \A q \in RunId : n.artifact[q] <=> IF q = r THEN won ELSE s.artifact[q]
    /\ n.task = s.task /\ n.runTask = s.runTask

\* The last section of executeRun settles one run of a task that is worked on.
LEMMA CompleteRunFields ==
    ASSUME NEW s \in ServiceStates, NEW r \in RunId, NEW t \in TaskId,
           Worked(s, t)
    PROVE  Settled(CompleteRunEffect(s, r, t), s, r, t, TRUE)
<1> DEFINE n == CompleteRunEffect(s, r, t)
           st == [s.status EXCEPT ![t] = TransitionTo(s.status[t], "DONE")]
           rn == [s.run EXCEPT ![r] = "SUCCEEDED"]
           sb == [s.sandbox EXCEPT ![r] = "RELEASED"]
           ar == [s.artifact EXCEPT ![r] = TRUE]
<1>1. /\ st \in [TaskId -> TaskStatus \cup {"ABSENT"}]
      /\ \A u \in TaskId : st[u] = IF u = t THEN "DONE" ELSE s.status[u]
  BY DEF ServiceStates, TransitionTo, IsAllowedTransition, AllowedTransitions,
         TaskStatus, Worked
<1>2. /\ rn \in [RunId -> RunStatus \cup {"ABSENT"}]
      /\ \A q \in RunId : rn[q] = IF q = r THEN "SUCCEEDED" ELSE s.run[q]
      /\ sb \in [RunId -> SandboxStatus \cup {"ABSENT"}]
      /\ \A q \in RunId : sb[q] = IF q = r THEN "RELEASED" ELSE s.sandbox[q]
  BY DEF ServiceStates, RunStatus, SandboxStatus
<1>3. /\ ar \in [RunId -> BOOLEAN]
      /\ \A q \in RunId : ar[q] <=> IF q = r THEN TRUE ELSE s.artifact[q]
  <2>1. s.artifact \in [RunId -> BOOLEAN]  BY DEF ServiceStates
  <2> QED  BY <2>1, ZenonT(30)
<1>4. n = [s EXCEPT !.run = rn, !.artifact = ar, !.status = st, !.sandbox = sb]
  BY ZenonT(30) DEF CompleteRunEffect
<1> HIDE DEF n, st, rn, sb, ar
<1>5. /\ n \in ServiceStates /\ n.status = st /\ n.run = rn /\ n.sandbox = sb
      /\ n.artifact = ar /\ n.task = s.task /\ n.runTask = s.runTask
  BY <1>1, <1>2, <1>3, <1>4, ZenonT(60) DEF ServiceStates
<1> QED  BY <1>1, <1>2, <1>3, <1>5, ZenonT(60) DEF Settled, n

\* failRun settles one run of a task that is worked on.
LEMMA FailRunFields ==
    ASSUME NEW s \in ServiceStates, NEW r \in RunId, s.runTask[r] \in TaskId,
           Worked(s, s.runTask[r]), ~s.artifact[r]
    PROVE  Settled(FailRunEffect(s, r), s, r, s.runTask[r], FALSE)
<1> DEFINE n == FailRunEffect(s, r)
           t == s.runTask[r]
           v == IF s.status[t] \in {"IN_PROGRESS", "HUMAN_OVERRIDE"}
                  THEN TransitionTo(s.status[t], "FAILED") ELSE s.status[t]
           st == [s.status EXCEPT ![t] = v]
           rn == [s.run EXCEPT ![r] = "FAILED"]
           sb == [s.sandbox EXCEPT ![r] = "FAILED"]
<1>1. /\ st \in [TaskId -> TaskStatus \cup {"ABSENT"}]
      /\ \A u \in TaskId : st[u] = IF u = t THEN "FAILED" ELSE s.status[u]
  BY DEF ServiceStates, TransitionTo, IsAllowedTransition, AllowedTransitions,
         TaskStatus, Worked
<1>2. /\ rn \in [RunId -> RunStatus \cup {"ABSENT"}]
      /\ \A q \in RunId : rn[q] = IF q = r THEN "FAILED" ELSE s.run[q]
      /\ sb \in [RunId -> SandboxStatus \cup {"ABSENT"}]
      /\ \A q \in RunId : sb[q] = IF q = r THEN "FAILED" ELSE s.sandbox[q]
  BY DEF ServiceStates, RunStatus, SandboxStatus
<1>3. n = [s EXCEPT !.run = rn, !.sandbox = sb, !.status = st]
  BY ZenonT(30) DEF FailRunEffect
<1> HIDE DEF n, st, rn, sb, v
<1>4. /\ n \in ServiceStates /\ n.status = st /\ n.run = rn /\ n.sandbox = sb
      /\ n.artifact = s.artifact /\ n.task = s.task /\ n.runTask = s.runTask
  BY <1>1, <1>2, <1>3, ZenonT(60) DEF ServiceStates
<1> QED  BY <1>1, <1>2, <1>4, ZenonT(60) DEF Settled, n

\* ApplyHumanOverride changes the override and the status of its task.
LEMMA QueueOverrideFields ==
    ASSUME NEW s \in ServiceStates, NEW o \in OverrideId, NEW t \in TaskId,
           NEW owner \in Owners, NEW scope \in Scopes
    PROVE  LET n == QueueOverrideEffect(s, o, t, owner, scope)
           IN  /\ n \in ServiceStates
               /\ n.status = [s.status EXCEPT ![t] =
                                IF s.status[t] = "IN_PROGRESS"
                                  THEN TransitionTo(s.status[t], "HUMAN_OVERRIDE")
                                  ELSE s.status[t]]
               /\ n.task = s.task /\ n.run = s.run /\ n.runTask = s.runTask
               /\ n.sandbox = s.sandbox /\ n.artifact = s.artifact
<1> DEFINE v == IF s.status[t] = "IN_PROGRESS"
                  THEN TransitionTo(s.status[t], "HUMAN_OVERRIDE")
                  ELSE s.status[t]
<1>1. [s.status EXCEPT ![t] = v] \in [TaskId -> TaskStatus \cup {"ABSENT"}]
  BY DEF ServiceStates, TransitionTo, TaskStatus
<1>2. /\ [s.override EXCEPT ![o] = "PENDING"]
           \in [OverrideId -> OverrideStatus \cup {"ABSENT"}]
      /\ [s.ovTask EXCEPT ![o] = t] \in [OverrideId -> TaskId \cup {NoId}]
      /\ [s.ovOwner EXCEPT ![o] = owner] \in [OverrideId -> Owners \cup {NoOwner}]
      /\ [s.ovScope EXCEPT ![o] = scope] \in [OverrideId -> Scopes \cup {NoScope}]
  BY DEF ServiceStates, OverrideStatus
<1> QED  BY <1>1, <1>2, ZenonT(60) DEF QueueOverrideEffect, ServiceStates

\* The checkpoint changes the override and the status of its task.
LEMMA ApplyOverrideFields ==
    ASSUME NEW s \in ServiceStates, NEW o \in OverrideId, s.ovTask[o] \in TaskId
    PROVE  LET n == ApplyOverrideEffect(s, o)
               t == s.ovTask[o]
           IN  /\ n \in ServiceStates
               /\ n.status = [s.status EXCEPT ![t] =
                                IF s.status[t] = "HUMAN_OVERRIDE"
                                  THEN TransitionTo(s.status[t], "IN_PROGRESS")
                                  ELSE s.status[t]]
               /\ n.task = s.task /\ n.run = s.run /\ n.runTask = s.runTask
               /\ n.sandbox = s.sandbox /\ n.artifact = s.artifact
<1> DEFINE t == s.ovTask[o]
           v == IF s.status[t] = "HUMAN_OVERRIDE"
                  THEN TransitionTo(s.status[t], "IN_PROGRESS") ELSE s.status[t]
<1>1. [s.status EXCEPT ![t] = v] \in [TaskId -> TaskStatus \cup {"ABSENT"}]
  BY DEF ServiceStates, TransitionTo, TaskStatus
<1>2. [s.override EXCEPT ![o] = "APPLIED"]
        \in [OverrideId -> OverrideStatus \cup {"ABSENT"}]
  BY DEF ServiceStates, OverrideStatus
<1> QED  BY <1>1, <1>2, ZenonT(60) DEF ApplyOverrideEffect, ServiceStates

\* n is s with a running run rid[t] for every task t of sel.
StartedRuns(n, s, sel, rid) ==
    LET new == {rid[t] : t \in sel}
    IN  /\ n \in ServiceStates
        /\ \A t \in TaskId :
             n.status[t] = IF t \in sel THEN "IN_PROGRESS" ELSE s.status[t]
        /\ \A r \in RunId : r \notin new =>
             /\ n.run[r] = s.run[r] /\ n.runTask[r] = s.runTask[r]
             /\ n.sandbox[r] = s.sandbox[r]
        /\ \A r \in new :
             /\ n.run[r] = "RUNNING" /\ n.sandbox[r] = "ACTIVE"
             /\ n.runTask[r] \in sel /\ rid[n.runTask[r]] = r
        /\ n.task = s.task /\ n.artifact = s.artifact

\* startTaskRunLocked, for each task it is called with.
LEMMA StartTaskRunsFields ==
    ASSUME NEW s \in ServiceStates, NEW sel \in SUBSET TaskId,
           NEW rid \in [sel -> RunId]
    PROVE  StartedRuns(StartTaskRunsEffect(s, rid), s, sel, rid)
<1> DEFINE n == StartTaskRunsEffect(s, rid)
           new == {rid[t] : t \in DOMAIN rid}
           TaskOf(r) == CHOOSE t \in DOMAIN rid : rid[t] = r
           st == [t \in TaskId |-> IF t \in DOMAIN rid THEN "IN_PROGRESS"
                                                    ELSE s.status[t]]
           rn == [r \in RunId |-> IF r \in new THEN "RUNNING" ELSE s.run[r]]
           rt == [r \in RunId |-> IF r \in new THEN TaskOf(r) ELSE s.runTask[r]]
           sb == [r \in RunId |-> IF r \in new THEN "ACTIVE" ELSE s.sandbox[r]]
<1>1. DOMAIN rid = sel  OBVIOUS
<1>2. n = [s EXCEPT !.status = st, !.run = rn, !.runTask = rt, !.sandbox = sb]
  BY Zenon DEF StartTaskRunsEffect
<1>3. \A r \in new : TaskOf(r) \in sel /\ rid[TaskOf(r)] = r
  BY <1>1
<1> HIDE DEF TaskOf
<1>4. new \subseteq RunId  BY <1>1
<1>5. /\ st \in [TaskId -> TaskStatus \cup {"ABSENT"}]
      /\ rn \in [RunId -> RunStatus \cup {"ABSENT"}]
      /\ rt \in [RunId -> TaskId \cup {NoId}]
      /\ sb \in [RunId -> SandboxStatus \cup {"ABSENT"}]
  <2>1. /\ s.status \in [TaskId -> TaskStatus \cup {"ABSENT"}]
        /\ s.run \in [RunId -> RunStatus \cup {"ABSENT"}]
        /\ s.runTask \in [RunId -> TaskId \cup {NoId}]
        /\ s.sandbox \in [RunId -> SandboxStatus \cup {"ABSENT"}]
    BY DEF ServiceStates
  <2>2. st \in [TaskId -> TaskStatus \cup {"ABSENT"}]  BY <2>1 DEF TaskStatus
  <2>3. rn \in [RunId -> RunStatus \cup {"ABSENT"}]  BY <2>1 DEF RunStatus
  <2>4. rt \in [RunId -> TaskId \cup {NoId}]
    <3> HIDE DEF new
    <3> QED  BY <1>3, <2>1
  <2>5. sb \in [RunId -> SandboxStatus \cup {"ABSENT"}]  BY <2>1 DEF SandboxStatus
  <2> QED  BY <2>2, <2>3, <2>4, <2>5
<1>6. /\ \A t \in TaskId :
           st[t] = IF t \in sel THEN "IN_PROGRESS" ELSE s.status[t]
      /\ \A r \in RunId : r \notin new =>
           rn[r] = s.run[r] /\ rt[r] = s.runTask[r] /\ sb[r] = s.sandbox[r]
      /\ \A r \in new :
           /\ rn[r] = "RUNNING" /\ sb[r] = "ACTIVE"
           /\ rt[r] \in sel /\ rid[rt[r]] = r
  BY <1>1, <1>3, <1>4
<1> HIDE DEF st, rn, rt, sb, n
<1>7. /\ n \in ServiceStates
      /\ n.status = st /\ n.run = rn /\ n.runTask = rt /\ n.sandbox = sb
      /\ n.task = s.task /\ n.artifact = s.artifact
  BY <1>2, <1>5, ZenonT(60) DEF ServiceStates
<1> QED  BY <1>1, <1>6, <1>7 DEF n, StartedRuns

-----------------------------------------------------------------------------
(***************************************************************************)
(* Sound maps.  Agreement and Ordering only survive together with the      *)
(* freshness of the identifiers that were not handed out yet.              *)
(***************************************************************************)

\* An identifier that nextID has not returned yet is not a key of any map.
Fresh(s, l) ==
    /\ \A t \in TaskId : t > l.task => s.status[t] = "ABSENT"
    /\ \A r \in RunId : r > l.run => s.run[r] = "ABSENT" /\ ~s.artifact[r]

Sound(s, l) ==
    s \in ServiceStates /\ Fresh(s, l) /\ Agreement(s) /\ Ordering(s)

\* n is s some steps later: what the board of tasks and runs allows to happen.
Forward(s, n) ==
    /\ \A t \in TaskId :
         /\ Stages!TaskMayBecome(s.status[t], n.status[t])
         /\ s.status[t] # "ABSENT" => n.task[t] = s.task[t]
    /\ \A r \in RunId :
         /\ Stages!RunMayBecome(s.run[r], n.run[r])
         /\ s.run[r] # "ABSENT" => n.runTask[r] = s.runTask[r]

LastType == [task: 0..MaxTasks, run: 0..MaxRuns, override: 0..MaxOverrides]

\* The types of the fields, so that a proof need not look at the whole record.
LEMMA FieldTypes ==
    ASSUME NEW s \in ServiceStates
    PROVE  /\ s.status \in [TaskId -> TaskStatus \cup {"ABSENT"}]
           /\ s.task \in [TaskId -> TaskSpec]
           /\ s.run \in [RunId -> RunStatus \cup {"ABSENT"}]
           /\ s.runTask \in [RunId -> TaskId \cup {NoId}]
           /\ s.sandbox \in [RunId -> SandboxStatus \cup {"ABSENT"}]
           /\ s.artifact \in [RunId -> BOOLEAN]
           /\ s.faults \subseteq TaskId
           /\ s.override \in [OverrideId -> OverrideStatus \cup {"ABSENT"}]
           /\ s.ovTask \in [OverrideId -> TaskId \cup {NoId}]
BY DEF ServiceStates

\* A dependency is the identifier of a task.
LEMMA DepsType ==
    ASSUME NEW s \in ServiceStates, NEW t \in TaskId
    PROVE  s.task[t].deps \subseteq TaskId
BY FieldTypes DEF TaskSpec

\* Identifiers are only handed out: freshness survives every allocation.
LEMMA FreshGrows ==
    ASSUME NEW s, NEW l \in LastType, NEW m \in LastType,
           Fresh(s, l), l.task <= m.task, l.run <= m.run
    PROVE  Fresh(s, m)
BY DEF Fresh, LastType, TaskId, RunId

\* No news is a possible future.
LEMMA ForwardSame ==
    ASSUME NEW s, NEW n, n.status = s.status, n.task = s.task, n.run = s.run,
           n.runTask = s.runTask
    PROVE  Forward(s, n)
BY DEF Forward, Stages!TaskMayBecome, Stages!RunMayBecome

\* The future of a future is a future: a file that was not written for a while
\* catches up in one step.
LEMMA ForwardTransitive ==
    ASSUME NEW s, NEW n, NEW m, Forward(s, n), Forward(n, m)
    PROVE  Forward(s, m)
<1>1. ASSUME NEW t \in TaskId
      PROVE  /\ Stages!TaskMayBecome(s.status[t], m.status[t])
             /\ s.status[t] # "ABSENT" => m.task[t] = s.task[t]
  BY DEF Forward, Stages!TaskMayBecome, Stages!Working
<1>2. ASSUME NEW r \in RunId
      PROVE  /\ Stages!RunMayBecome(s.run[r], m.run[r])
             /\ s.run[r] # "ABSENT" => m.runTask[r] = s.runTask[r]
  BY DEF Forward, Stages!RunMayBecome
<1> QED  BY <1>1, <1>2 DEF Forward

\* A handler that touches none of the maps of tasks and runs keeps them sound.
LEMMA SameWorkSound ==
    ASSUME NEW s, NEW n \in ServiceStates, NEW l \in LastType,
           Sound(s, l), SameWork(n, s)
    PROVE  Sound(n, l) /\ Forward(s, n)
<1>1. Sound(n, l)
  BY DEF Sound, SameWork, Fresh, Agreement, Ordering, RunExists, Worked
<1>2. Forward(s, n)  BY ForwardSame DEF SameWork
<1> QED  BY <1>1, <1>2

\* GeneratePlan, DispatchTasks, ValidateContract and RetryTask add tasks under
\* new identifiers: no run and no dependency names them yet.
LEMMA NewTasksSound ==
    ASSUME NEW s, NEW n, NEW T \in SUBSET TaskId,
           NEW l \in LastType, NEW m \in LastType, Sound(s, l),
           AddedTasks(n, s, T), l.task <= m.task, l.run = m.run,
           \A t \in T : l.task < t /\ t <= m.task
    PROVE  Sound(n, m) /\ Forward(s, n)
<1> USE DEF Sound, AddedTasks
<1>1. Fresh(n, m)  BY DEF Fresh, LastType, TaskId, RunId
<1>2. \A t \in T : s.status[t] = "ABSENT"
  BY DEF Fresh
<1>3. Agreement(n)  BY <1>2 DEF Agreement, RunExists, Worked
<1>4. Ordering(n)
  <2> SUFFICES ASSUME NEW r \in RunId, RunExists(n, r),
                      NEW d \in n.task[n.runTask[r]].deps
               PROVE  n.status[d] = "DONE"
    BY DEF Ordering
  <2>1. RunExists(s, r) /\ n.runTask[r] = s.runTask[r]  BY DEF RunExists
  <2>2. s.runTask[r] \in TaskId \ T
    BY <1>2, <2>1 DEF Agreement, Worked, RunExists
  <2>3. d \in s.task[s.runTask[r]].deps  BY <2>1, <2>2
  <2>4. s.status[d] = "DONE"  BY <2>1, <2>3 DEF Ordering
  <2>5. d \in TaskId  BY <2>2, <2>3, DepsType
  <2>6. d \notin T  BY <1>2, <2>4
  <2> QED  BY <2>4, <2>5, <2>6
<1>5. Forward(s, n)
  BY <1>2 DEF Forward, Stages!TaskMayBecome, Stages!RunMayBecome
<1> QED  BY <1>1, <1>3, <1>4, <1>5

\* rid gives the tasks sel, which are ready in s, new identifiers up to top.
NewRuns(s, l, sel, rid, top) ==
    /\ sel \subseteq TaskId /\ rid \in [sel -> RunId]
    /\ \A t \in sel : EnsureTaskReady(s, t)
    /\ top \in 0..MaxRuns /\ l.run <= top
    /\ \A t \in sel : l.run < rid[t] /\ rid[t] <= top
    /\ \A t, u \in sel : rid[t] = rid[u] => t = u

\* startTaskRunLocked, for one task or for the tasks of a parallel request:
\* the tasks were CREATED, so they have no run yet and nothing that is running
\* depends on them.
LEMMA StartTaskRunsSound ==
    ASSUME NEW s, NEW l \in LastType, NEW m \in LastType, Sound(s, l),
           NEW sel, NEW rid, NewRuns(s, l, sel, rid, m.run), l.task = m.task
    PROVE  /\ Sound(StartTaskRunsEffect(s, rid), m)
           /\ Forward(s, StartTaskRunsEffect(s, rid))
<1> /\ sel \in SUBSET TaskId /\ rid \in [sel -> RunId]
    /\ \A t \in sel : EnsureTaskReady(s, t)
    /\ \A t \in sel : l.run < rid[t] /\ rid[t] <= m.run
    /\ \A t, u \in sel : rid[t] = rid[u] => t = u
    /\ l.run <= m.run
  BY DEF NewRuns
<1> USE DEF Sound
<1> DEFINE n == StartTaskRunsEffect(s, rid)
           new == {rid[t] : t \in sel}
<1>0. StartedRuns(n, s, sel, rid)  BY StartTaskRunsFields
<1> HIDE DEF n
<1>1. /\ n \in ServiceStates
      /\ \A t \in TaskId :
           n.status[t] = IF t \in sel THEN "IN_PROGRESS" ELSE s.status[t]
      /\ \A r \in RunId : r \notin new =>
           /\ n.run[r] = s.run[r] /\ n.runTask[r] = s.runTask[r]
           /\ n.sandbox[r] = s.sandbox[r]
      /\ \A r \in new :
           /\ n.run[r] = "RUNNING" /\ n.sandbox[r] = "ACTIVE"
           /\ n.runTask[r] \in sel /\ rid[n.runTask[r]] = r
      /\ n.task = s.task /\ n.artifact = s.artifact
  BY <1>0 DEF StartedRuns
<1>2. \A t \in sel : rid[t] \in new /\ n.runTask[rid[t]] = t
  BY <1>1
<1>3. /\ new \subseteq RunId
      /\ \A r \in new : l.run < r /\ r <= m.run /\ s.run[r] = "ABSENT" /\ ~s.artifact[r]
  BY DEF Fresh
<1>4. \A t \in sel : s.status[t] = "CREATED"  BY DEF EnsureTaskReady
<1> HIDE DEF new
<1>5. Fresh(n, m)
  <2>1. \A t \in TaskId : t > m.task => n.status[t] = "ABSENT"
    BY <1>1, <1>4 DEF Fresh
  <2>2. \A r \in RunId : r > m.run => r \notin new /\ r > l.run
    BY <1>3 DEF LastType, RunId
  <2> QED  BY <1>1, <2>1, <2>2 DEF Fresh
<1>6. \A r \in RunId : RunExists(n, r) /\ r \notin new =>
        /\ RunExists(s, r) /\ s.runTask[r] \in TaskId \ sel
        /\ n.runTask[r] = s.runTask[r]
  BY <1>1, <1>4 DEF Agreement, RunExists, Worked
<1>7. Agreement(n)
  <2>1. ASSUME NEW q \in RunId, NEW r \in RunId, RunExists(n, q),
               RunExists(n, r), n.runTask[q] = n.runTask[r]
        PROVE  q = r
    <3>1. CASE q \in new /\ r \in new  BY <3>1, <2>1, <1>1
    <3>2. CASE q \notin new /\ r \notin new
      BY <3>2, <2>1, <1>6 DEF Agreement
    <3>3. CASE q \in new /\ r \notin new  BY <3>3, <2>1, <1>1, <1>6
    <3>4. CASE q \notin new /\ r \in new  BY <3>4, <2>1, <1>1, <1>6
    <3> QED  BY <3>1, <3>2, <3>3, <3>4
  <2>2. ASSUME NEW t \in TaskId, Worked(n, t) \/ n.status[t] = "DONE"
        PROVE  \E r \in RunId : RunExists(n, r) /\ n.runTask[r] = t
    <3>1. CASE t \in sel
      <4>1. rid[t] \in new /\ n.runTask[rid[t]] = t  BY <3>1, <1>2
      <4>2. n.run[rid[t]] = "RUNNING" /\ rid[t] \in RunId  BY <4>1, <1>1, <1>3
      <4> QED  BY <4>1, <4>2 DEF RunExists
    <3>2. CASE t \notin sel
      <4>1. Worked(s, t) \/ s.status[t] = "DONE"
        BY <3>2, <2>2, <1>1 DEF Worked
      <4>2. PICK r \in RunId : RunExists(s, r) /\ s.runTask[r] = t
        BY <4>1 DEF Agreement
      <4>3. r \notin new  BY <4>2, <1>3 DEF RunExists
      <4> QED  BY <4>2, <4>3, <1>1 DEF RunExists
    <3> QED  BY <3>1, <3>2
  <2>3. ASSUME NEW r \in RunId, RunExists(n, r)
        PROVE  /\ n.runTask[r] \in TaskId
               /\ \/ /\ n.run[r] = "RUNNING" /\ Worked(n, n.runTask[r])
                     /\ n.sandbox[r] = "ACTIVE" /\ ~n.artifact[r]
                  \/ /\ n.run[r] = "SUCCEEDED" /\ n.status[n.runTask[r]] = "DONE"
                     /\ n.sandbox[r] = "RELEASED" /\ n.artifact[r]
                  \/ /\ n.run[r] = "FAILED" /\ n.status[n.runTask[r]] = "FAILED"
                     /\ n.sandbox[r] = "FAILED" /\ ~n.artifact[r]
    <3>1. CASE r \in new  BY <3>1, <1>1, <1>3 DEF Worked
    <3>2. CASE r \notin new
      <4>1. /\ RunExists(s, r) /\ s.runTask[r] \in TaskId \ sel
            /\ n.runTask[r] = s.runTask[r] /\ n.run[r] = s.run[r]
            /\ n.sandbox[r] = s.sandbox[r] /\ n.artifact[r] = s.artifact[r]
            /\ n.status[n.runTask[r]] = s.status[s.runTask[r]]
        BY <3>2, <2>3, <1>1, <1>6
      <4> QED  BY <4>1 DEF Agreement, Worked
    <3> QED  BY <3>1, <3>2
  <2> QED  BY <2>1, <2>2, <2>3 DEF Agreement
<1>8. Ordering(n)
  <2> SUFFICES ASSUME NEW r \in RunId, RunExists(n, r),
                      NEW d \in n.task[n.runTask[r]].deps
               PROVE  n.status[d] = "DONE"
    BY DEF Ordering
  <2>1. n.runTask[r] \in TaskId  BY <1>7 DEF Agreement
  <2>2. d \in TaskId  BY <2>1, <1>1, DepsType
  <2>3. s.status[d] = "DONE"
    <3>1. CASE r \in new  BY <3>1, <1>1 DEF EnsureTaskReady
    <3>2. CASE r \notin new  BY <3>2, <1>1, <1>6 DEF Ordering
    <3> QED  BY <3>1, <3>2
  <2> QED  BY <2>2, <2>3, <1>1, <1>4
<1>9. Forward(s, n)
  <2>1. \A t \in TaskId : Stages!TaskMayBecome(s.status[t], n.status[t])
    BY <1>1, <1>4 DEF Stages!TaskMayBecome, Stages!Working
  <2>2. \A r \in RunId : /\ Stages!RunMayBecome(s.run[r], n.run[r])
                         /\ s.run[r] # "ABSENT" => n.runTask[r] = s.runTask[r]
    BY <1>1, <1>3 DEF Stages!RunMayBecome
  <2> QED  BY <1>1, <2>1, <2>2 DEF Forward
<1> QED  BY <1>1, <1>5, <1>7, <1>8, <1>9 DEF n

\* A task whose private sandbox could not be created fails before it has a run.
LEMMA SandboxCreateFailedSound ==
    ASSUME NEW s, NEW l \in LastType, Sound(s, l),
           NEW t \in TaskId, s.status[t] = "CREATED"
    PROVE  /\ Sound(SandboxCreateFailedEffect(s, t), l)
           /\ Forward(s, SandboxCreateFailedEffect(s, t))
<1> USE DEF Sound
<1> DEFINE n == SandboxCreateFailedEffect(s, t)
<1>1. /\ n \in ServiceStates
      /\ n.status = [s.status EXCEPT ![t] = "FAILED"]
      /\ n.task = s.task /\ n.run = s.run /\ n.runTask = s.runTask
      /\ n.sandbox = s.sandbox /\ n.artifact = s.artifact
  BY SandboxCreateFailedFields
<1>2. \A u \in TaskId : n.status[u] = IF u = t THEN "FAILED" ELSE s.status[u]
  BY <1>1, FieldTypes
<1> HIDE DEF n
<1>3. Fresh(n, l)  BY <1>1, <1>2 DEF Fresh
<1>4. \A r \in RunId : RunExists(s, r) => s.runTask[r] \in TaskId \ {t}
  BY DEF Agreement, Worked
<1>5. Agreement(n)  BY <1>1, <1>2, <1>4 DEF Agreement, RunExists, Worked
<1>6. Ordering(n)
  <2> SUFFICES ASSUME NEW r \in RunId, RunExists(s, r),
                      NEW d \in s.task[s.runTask[r]].deps
               PROVE  n.status[d] = "DONE"
    BY <1>1 DEF Ordering, RunExists
  <2> QED  BY <1>2, <1>4, DepsType DEF Ordering
<1>7. Forward(s, n)
  BY <1>1, <1>2 DEF Forward, Stages!TaskMayBecome, Stages!RunMayBecome
<1> QED  BY <1>1, <1>3, <1>5, <1>6, <1>7 DEF n

\* ApplyHumanOverride pauses a task that is worked on and the checkpoint
\* resumes it: the task is worked on before and after.
LEMMA PauseSound ==
    ASSUME NEW s, NEW n \in ServiceStates, NEW l \in LastType, Sound(s, l),
           NEW t \in TaskId, NEW v \in {"IN_PROGRESS", "HUMAN_OVERRIDE"},
           n.status = [s.status EXCEPT ![t] = IF Worked(s, t) THEN v ELSE @],
           n.task = s.task, n.run = s.run, n.runTask = s.runTask,
           n.sandbox = s.sandbox, n.artifact = s.artifact
    PROVE  Sound(n, l) /\ Forward(s, n)
<1> USE DEF Sound
<1>1. \A u \in TaskId :
        n.status[u] = IF u = t /\ Worked(s, t) THEN v ELSE s.status[u]
  BY FieldTypes
<1>2. \A u \in TaskId : /\ Worked(n, u) <=> Worked(s, u)
                        /\ ~Worked(s, u) => n.status[u] = s.status[u]
  BY <1>1 DEF Worked
<1>3. Fresh(n, l)  BY <1>2 DEF Fresh, Worked
<1>4. Agreement(n)  BY <1>2 DEF Agreement, RunExists, Worked
<1>5. Ordering(n)
  <2> SUFFICES ASSUME NEW r \in RunId, RunExists(s, r),
                      NEW d \in s.task[s.runTask[r]].deps
               PROVE  n.status[d] = "DONE"
    BY DEF Ordering, RunExists
  <2>1. s.runTask[r] \in TaskId  BY DEF Agreement
  <2> QED  BY <1>2, <2>1, DepsType DEF Ordering, Worked
<1>6. Forward(s, n)
  BY <1>1 DEF Forward, Worked, Stages!TaskMayBecome, Stages!RunMayBecome,
              Stages!Working
<1> QED  BY <1>3, <1>4, <1>5, <1>6

\* A goroutine settles a run that is running, and with it the task, the
\* private sandbox and the artifact: `won' tells executeRun from failRun.
LEMMA SettleSound ==
    ASSUME NEW s, NEW n, NEW l \in LastType, Sound(s, l), NEW r \in RunId,
           s.run[r] = "RUNNING", NEW won \in BOOLEAN,
           Settled(n, s, r, s.runTask[r], won)
    PROVE  Sound(n, l) /\ Forward(s, n)
<1> USE DEF Sound
<1> DEFINE t == s.runTask[r]
<1>1. /\ t \in TaskId /\ Worked(s, t) /\ RunExists(s, r)
      /\ \A q \in RunId : RunExists(s, q) /\ q # r =>
           s.runTask[q] \in TaskId \ {t}
  BY DEF Agreement, RunExists
<1>2. /\ n \in ServiceStates /\ n.task = s.task /\ n.runTask = s.runTask
      /\ \A u \in TaskId : n.status[u] =
           IF u = t THEN IF won THEN "DONE" ELSE "FAILED" ELSE s.status[u]
      /\ \A q \in RunId : n.run[q] =
           IF q = r THEN IF won THEN "SUCCEEDED" ELSE "FAILED" ELSE s.run[q]
      /\ \A q \in RunId : n.sandbox[q] =
           IF q = r THEN IF won THEN "RELEASED" ELSE "FAILED" ELSE s.sandbox[q]
      /\ \A q \in RunId :
           n.artifact[q] <=> IF q = r THEN won ELSE s.artifact[q]
  BY DEF Settled
<1> HIDE DEF t
<1>3. \A q \in RunId : RunExists(n, q) <=> RunExists(s, q)
  BY <1>1, <1>2 DEF RunExists
<1>4. Fresh(n, l)  BY <1>1, <1>2 DEF Fresh, RunExists, Worked
<1>5. Agreement(n)  BY <1>1, <1>2, <1>3 DEF Agreement, Worked, t
<1>6. Ordering(n)
  <2> SUFFICES ASSUME NEW q \in RunId, RunExists(s, q),
                      NEW d \in s.task[s.runTask[q]].deps
               PROVE  n.status[d] = "DONE"
    BY <1>2, <1>3 DEF Ordering
  <2>1. s.runTask[q] \in TaskId  BY DEF Agreement
  <2>2. d \in TaskId /\ s.status[d] = "DONE"  BY <2>1, DepsType DEF Ordering
  <2> QED  BY <1>1, <1>2, <2>2 DEF Worked
<1>7. Forward(s, n)
  BY <1>1, <1>2 DEF Forward, Worked, Stages!TaskMayBecome,
                    Stages!RunMayBecome, Stages!Working
<1> QED  BY <1>2, <1>4, <1>5, <1>6, <1>7

\* The maps that agree are what the board calls coherent.
LEMMA SoundIsCoherent ==
    ASSUME NEW s, NEW l, Sound(s, l)
    PROVE  Stages!Coherent(s.status, s.task, s.run, s.runTask)
BY DEF Sound, Agreement, Ordering, RunExists, Worked, Stages!Coherent,
       Stages!Working
=============================================================================
