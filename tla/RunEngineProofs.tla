-------------------------- MODULE RunEngineProofs ---------------------------
(***************************************************************************)
(* Proofs about RunEngine, for every value of the bounds, every store and  *)
(* every combination of failures: the maps keep their types, tasks and     *)
(* runs agree, dependencies are respected, goroutines own their runs, the  *)
(* leases of overrides exclude one another, and the stored state           *)
(* implements the abstract Board.  Where nothing can fail, the memory is   *)
(* backed by the file and the goroutines.                                  *)
(***************************************************************************)
EXTENDS Timeline, ServiceStateProofs

-----------------------------------------------------------------------------
(***************************************************************************)
(* The inductive invariant.  RunsAndTasksAgree, DependenciesDone and       *)
(* LiveAgentOwnsRun only hold together: a goroutine may settle its run and *)
(* task because no other goroutine has (LiveAgentOwnsRun), and the run of  *)
(* a goroutine stays what it is because new runs get new identifiers.      *)
(***************************************************************************)


AgentType == [RunId -> [phase: Phase, task: TaskId \cup {NoId}]]

IInv ==
    /\ Sound(mem, last) /\ Sound(disk, last)
    /\ agent \in AgentType /\ last \in LastType /\ expired \subseteq OverrideId
    /\ LiveAgentOwnsRun
    /\ Forward(disk, mem)

\* What is shown of every step.
GoodStep == IInv' /\ Forward(disk, disk')

-----------------------------------------------------------------------------
(***************************************************************************)
(* Every step of RunEngine preserves the invariant.                        *)
(***************************************************************************)

\* persistLocked: the file is what the maps have become, or what it was.
LEMMA PersistStep ==
    ASSUME NEW n, Persist(n)
    PROVE  mem' = n /\ (disk' = mem' \/ disk' = disk)
BY DEF Persist, PersistOK, PersistFails

\* What a step owes to the invariant: sound maps, and that the goroutines that
\* are alive after it work on runs that are running, in the file too unless
\* the step saved it.
LEMMA StepKeepsInv ==
    ASSUME IInv, Sound(mem', last'), disk' = mem' \/ disk' = disk,
           mem' = disk \/ Forward(mem, mem'),
           last' \in LastType, last.task <= last'.task, last.run <= last'.run,
           agent' \in AgentType, expired' \subseteq OverrideId,
           \A r \in RunId : agent'[r].phase \in LivePhase =>
             /\ mem'.run[r] = "RUNNING"
             /\ agent'[r].phase # "spawned" => agent'[r].task = mem'.runTask[r]
             /\ Store = "file" => Live(r) \/ disk' = mem'
    PROVE  GoodStep
<1>1. Sound(disk', last')
  <2>1. CASE disk' = mem'  BY <2>1
  <2>2. CASE disk' = disk
    <3>1. disk \in ServiceStates /\ Fresh(disk, last)  BY DEF IInv, Sound
    <3>2. last \in LastType  BY DEF IInv
    <3>3. Fresh(disk, last')  BY <3>1, <3>2, FreshGrows
    <3> QED  BY <2>2, <3>3 DEF IInv, Sound
  <2> QED  BY <2>1, <2>2
<1>2. LiveAgentOwnsRun'
  BY DEF IInv, LiveAgentOwnsRun, Live
<1>3. Forward(disk, mem')
  BY ForwardSame, ForwardTransitive DEF IInv
<1>4. Forward(disk', mem') /\ Forward(disk, disk')
  BY <1>3, ForwardSame
<1> QED  BY <1>1, <1>2, <1>4 DEF IInv, GoodStep

\* A handler that neither starts a goroutine nor touches a run.
LEMMA QuietStep ==
    ASSUME IInv, Sound(mem', last'), disk' = mem' \/ disk' = disk,
           Forward(mem, mem'), last' \in LastType, last.task <= last'.task, last.run <= last'.run,
           agent' = agent, expired' \subseteq OverrideId,
           mem'.run = mem.run, mem'.runTask = mem.runTask
    PROVE  GoodStep
<1>1. agent' \in AgentType  BY DEF IInv
<1>2. \A r \in RunId : agent'[r].phase \in LivePhase =>
        /\ mem'.run[r] = "RUNNING"
        /\ agent'[r].phase # "spawned" => agent'[r].task = mem'.runTask[r]
        /\ Store = "file" => Live(r) \/ disk' = mem'
  BY DEF IInv, LiveAgentOwnsRun, Live
<1> QED  BY <1>1, <1>2, StepKeepsInv

\* A handler that changes no task, run, sandbox or artifact.
LEMMA SameWorkStep ==
    ASSUME IInv, NEW n \in ServiceStates, SameWork(n, mem), Persist(n),
           agent' = agent, last' = last, expired' = expired
    PROVE  GoodStep
<1>1. mem' = n /\ (disk' = mem' \/ disk' = disk)  BY PersistStep
<1>2. last \in LastType /\ expired \subseteq OverrideId /\ Sound(mem, last)
  BY DEF IInv
<1>3. Sound(n, last) /\ Forward(mem, n)  BY <1>2, SameWorkSound
<1>4. n.run = mem.run /\ n.runTask = mem.runTask  BY DEF SameWork
<1>5. last.task <= last.task /\ last.run <= last.run  BY <1>2 DEF LastType
<1> QED  BY <1>1, <1>2, <1>3, <1>4, <1>5, QuietStep

\* A handler that adds k tasks under new identifiers.
LEMMA NewTasksStep ==
    ASSUME IInv, NEW n, NEW k \in Nat, Persist(n),
           last.task + k <= MaxTasks, last' = [last EXCEPT !.task = @ + k],
           AddedTasks(n, mem, (last.task + 1)..(last.task + k)),
           agent' = agent, expired' = expired
    PROVE  GoodStep
<1> DEFINE T == (last.task + 1)..(last.task + k)
<1>1. mem' = n /\ (disk' = mem' \/ disk' = disk)  BY PersistStep
<1>2. last \in LastType /\ expired \subseteq OverrideId /\ Sound(mem, last)
  BY DEF IInv
<1>3. /\ last' \in LastType /\ last.task <= last'.task /\ last.run = last'.run
      /\ last.run <= last'.run
      /\ T \in SUBSET TaskId
      /\ \A t \in T : last.task < t /\ t <= last'.task
  <2>1. last.task \in 0..MaxTasks /\ last.run \in 0..MaxRuns
    BY <1>2 DEF LastType
  <2>2. last.task + k \in 0..MaxTasks  BY <2>1
  <2>3. last' \in LastType  BY <1>2, <2>2, Zenon DEF LastType
  <2>4. last'.task = last.task + k /\ last'.run = last.run  BY <1>2 DEF LastType
  <2>5. T \in SUBSET TaskId
    <3>1. MaxTasks \in Nat  BY BoundsAssumption
    <3> QED  BY <2>1, <3>1 DEF TaskId
  <2> QED  BY <2>1, <2>3, <2>4, <2>5
<1> HIDE DEF T
<1>4. AddedTasks(n, mem, T)  BY DEF T
<1>5. Sound(n, last') /\ Forward(mem, n)
  BY <1>2, <1>3, <1>4, NewTasksSound
<1>6. n.run = mem.run /\ n.runTask = mem.runTask  BY <1>4 DEF AddedTasks
<1> QED  BY <1>1, <1>2, <1>3, <1>5, <1>6, QuietStep

\* The planning handlers: identifiers of tasks are new, nothing else moves.
LEMMA PlanningStep ==
    ASSUME IInv,
           \/ AddRequirement \/ GeneratePlan \/ GenerateContract \/ DispatchTasks
           \/ \E c \in 1..Len(mem.contracts) : ValidateContract(c)
           \/ \E t \in TaskId : RetryTask(t)
    PROVE  GoodStep
<1>1. mem \in ServiceStates /\ last.task \in 0..MaxTasks /\ MaxTasks \in Nat
  BY BoundsAssumption DEF IInv, Sound, LastType
<1>2. ASSUME NEW n, last.task < MaxTasks, Persist(n),
             last' = [last EXCEPT !.task = @ + 1],
             AddedTasks(n, mem, {last.task + 1}), UNCHANGED <<agent, expired>>
      PROVE  GoodStep
  <2>1. {last.task + 1} = (last.task + 1)..(last.task + 1)  BY <1>1
  <2>2. last.task + 1 <= MaxTasks /\ 1 \in Nat  BY <1>1, <1>2
  <2> QED  BY <1>2, <2>1, <2>2, NewTasksStep
<1>3. CASE AddRequirement
  BY <1>1, <1>3, AddRequirementFields, SameWorkStep DEF AddRequirement
<1>4. CASE GenerateContract
  BY <1>1, <1>4, GenerateContractFields, SameWorkStep DEF GenerateContract
<1>5. CASE GeneratePlan
  <2>1. last.task + 1 \in TaskId  BY <1>1, <1>5 DEF GeneratePlan, TaskId
  <2>2. AddedTasks(GeneratePlanEffect(mem, last.task + 1), mem, {last.task + 1})
    BY <1>1, <2>1, GeneratePlanFields
  <2> QED  BY <1>2, <1>5, <2>2 DEF GeneratePlan
<1>6. ASSUME NEW c \in 1..Len(mem.contracts), ValidateContract(c)
      PROVE  GoodStep
  <2>1. last.task + 1 \in TaskId  BY <1>1, <1>6 DEF ValidateContract, TaskId
  <2>2. AddedTasks(RemediationEffect(mem, last.task + 1, c), mem,
                   {last.task + 1})
    BY <1>1, <2>1, RemediationFields
  <2> QED  BY <1>2, <1>6, <2>2 DEF ValidateContract
<1>7. ASSUME NEW t \in TaskId, RetryTask(t)
      PROVE  GoodStep
  <2>1. last.task + 1 \in TaskId  BY <1>1, <1>7 DEF RetryTask, TaskId
  <2>2. AddedTasks(RetryTaskEffect(mem, t, last.task + 1), mem, {last.task + 1})
    BY <1>1, <2>1, RetryTaskFields
  <2> QED  BY <1>2, <1>7, <2>2 DEF RetryTask
<1>8. CASE DispatchTasks
  <2> DEFINE n == DispatchTasksEffect(mem, last.task + 1, last.task + 2,
                                      last.task + 3)
  <2>1. last.task + 3 <= MaxTasks /\ last' = [last EXCEPT !.task = @ + 3]
    BY <1>8 DEF DispatchTasks
  <2>2. {last.task + 1, last.task + 2, last.task + 3} \subseteq TaskId
    BY <1>1, <2>1 DEF TaskId
  <2>3. AddedTasks(n, mem, {last.task + 1, last.task + 2, last.task + 3})
    BY <1>1, <2>2, DispatchTasksFields
  <2>4. {last.task + 1, last.task + 2, last.task + 3}
          = (last.task + 1)..(last.task + 3)
    BY <1>1
  <2>5. Persist(n) /\ agent' = agent /\ expired' = expired
    BY <1>8 DEF DispatchTasks
  <2> HIDE DEF n
  <2> QED  BY <2>1, <2>3, <2>4, <2>5, NewTasksStep
<1> QED  BY <1>3, <1>4, <1>5, <1>6, <1>7, <1>8

\* The operator's handlers: overrides, the conflict queue, faults, the clock.
LEMMA OperatorStep ==
    ASSUME IInv,
           \/ \E t \in TaskId : MarkTaskSandboxFailure(t)
           \/ \E t \in TaskId, owner \in Owners, scope \in Scopes :
                ApplyHumanOverride(t, owner, scope)
           \/ \E c \in 1..Len(mem.conflicts) : ResolveConflictQueueEntry(c)
           \/ \E o \in OverrideId : ExpireLease(o)
    PROVE  GoodStep
<1>1. /\ mem \in ServiceStates /\ Sound(mem, last) /\ last \in LastType
      /\ expired \subseteq OverrideId
  BY DEF IInv, Sound
<1>2. last.task <= last.task /\ last.run <= last.run  BY <1>1 DEF LastType
<1>3. ASSUME NEW t \in TaskId, MarkTaskSandboxFailure(t)
      PROVE  GoodStep
  <2>1. mem.faults \cup {t} \in SUBSET TaskId  BY <1>1, FieldTypes
  <2>2. /\ [mem EXCEPT !.faults = mem.faults \cup {t}] \in ServiceStates
        /\ SameWork([mem EXCEPT !.faults = mem.faults \cup {t}], mem)
    BY <1>1, <2>1, FaultFields
  <2> QED  BY <1>3, <2>2, SameWorkStep DEF MarkTaskSandboxFailure
<1>4. ASSUME NEW c \in 1..Len(mem.conflicts), ResolveConflictQueueEntry(c)
      PROVE  GoodStep
  BY <1>1, <1>4, ResolveConflictFields, SameWorkStep DEF ResolveConflictQueueEntry
<1>5. ASSUME NEW o \in OverrideId, ExpireLease(o)
      PROVE  GoodStep
  <2>1. /\ mem' = mem /\ disk' = disk /\ agent' = agent /\ last' = last
        /\ expired' \subseteq OverrideId
    BY <1>1, <1>5 DEF ExpireLease
  <2>2. Forward(mem, mem')  BY <2>1, ForwardSame
  <2> QED  BY <1>1, <1>2, <2>1, <2>2, QuietStep
<1>6. ASSUME NEW t \in TaskId, NEW owner \in Owners, NEW scope \in Scopes,
             ApplyHumanOverride(t, owner, scope)
      PROVE  GoodStep
  <2>1. CASE Persist(EnqueueConflictEffect(mem)) /\ UNCHANGED last
    BY <1>1, <1>6, <2>1, EnqueueConflictFields, SameWorkStep
       DEF ApplyHumanOverride
  <2>2. CASE /\ last.override < MaxOverrides
             /\ last' = [last EXCEPT !.override = @ + 1]
             /\ Persist(QueueOverrideEffect(mem, last.override + 1, t, owner,
                                            scope))
    <3> DEFINE o == last.override + 1
               n == QueueOverrideEffect(mem, o, t, owner, scope)
    <3>1. last.override \in 0..MaxOverrides /\ MaxOverrides \in Nat
      BY <1>1, BoundsAssumption DEF LastType
    <3>2. o \in OverrideId /\ o \in 0..MaxOverrides
      BY <3>1, <2>2 DEF OverrideId
    <3> HIDE DEF o
    <3>3. last' = [last EXCEPT !.override = o]  BY <2>2 DEF o
    <3>4. last' \in LastType  BY <1>1, <3>2, <3>3, Zenon DEF LastType
    <3>5. last'.task = last.task /\ last'.run = last.run
      BY <1>1, <3>3 DEF LastType
    <3>6. /\ n \in ServiceStates
          /\ n.status = [mem.status EXCEPT ![t] =
                           IF mem.status[t] = "IN_PROGRESS"
                             THEN TransitionTo(mem.status[t], "HUMAN_OVERRIDE")
                             ELSE mem.status[t]]
          /\ n.task = mem.task /\ n.run = mem.run /\ n.runTask = mem.runTask
          /\ n.sandbox = mem.sandbox /\ n.artifact = mem.artifact
      BY <1>1, <3>2, QueueOverrideFields
    <3>7. Persist(n)  BY <2>2 DEF o
    <3> HIDE DEF n
    <3>8. n.status = [mem.status EXCEPT ![t] =
                        IF Worked(mem, t) THEN "HUMAN_OVERRIDE" ELSE @]
      BY <1>6, <3>6
         DEF ApplyHumanOverride, Worked, TransitionTo, IsAllowedTransition,
             AllowedTransitions
    <3>9. Sound(n, last) /\ Forward(mem, n)
      BY <1>1, <3>6, <3>8, PauseSound
    <3>10. Sound(n, last')
      BY <1>1, <1>2, <3>4, <3>5, <3>9, FreshGrows DEF Sound
    <3>11. mem' = n /\ (disk' = mem' \/ disk' = disk)  BY <3>7, PersistStep
    <3>12. agent' = agent /\ expired' = expired  BY <1>6 DEF ApplyHumanOverride
    <3> QED
      BY <1>1, <1>2, <3>4, <3>5, <3>6, <3>9, <3>10, <3>11, <3>12, QuietStep
  <2> QED  BY <1>6, <2>1, <2>2 DEF ApplyHumanOverride
<1> QED  BY <1>3, <1>4, <1>5, <1>6

\* StartRun gives its task the next identifier.
LEMMA OneNewRun ==
    ASSUME last \in LastType, NEW t \in TaskId, EnsureTaskReady(mem, t), last.run < MaxRuns
    PROVE  NewRuns(mem, last, {t}, [u \in {t} |-> last.run + 1], last.run + 1)
<1>1. last.run \in 0..MaxRuns /\ MaxRuns \in Nat
  BY BoundsAssumption DEF LastType
<1>2. last.run + 1 \in RunId  BY <1>1 DEF RunId
<1> QED  BY <1>1, <1>2 DEF NewRuns

\* StartParallelRun gives its tasks the identifiers that follow.
LEMMA ManyNewRuns ==
    ASSUME last \in LastType, NEW sel \in SUBSET ReadyTasks, NEW rid \in [sel -> RunId],
           NEW top \in {last.run} \cup RunId, Allocates(rid, sel, top)
    PROVE  NewRuns(mem, last, sel, rid, top)
<1>1. last.run \in 0..MaxRuns /\ MaxRuns \in Nat
  BY BoundsAssumption DEF LastType
<1>2. top \in 0..MaxRuns /\ last.run <= top  BY <1>1 DEF RunId, Allocates
<1>3. \A t \in sel : rid[t] \in (last.run + 1)..top  BY DEF Allocates
<1>4. \A t \in sel : last.run < rid[t] /\ rid[t] <= top  BY <1>1, <1>2, <1>3
<1>5. ASSUME NEW t \in sel, NEW u \in sel, rid[t] = rid[u]
      PROVE  t = u
  <2>1. t \in Nat /\ u \in Nat /\ rid[t] \in Nat
    BY DEF ReadyTasks, TaskId, RunId
  <2>2. ~(t < u) /\ ~(u < t)  BY <1>5, <2>1 DEF Allocates
  <2> QED  BY <2>1, <2>2
<1> QED  BY <1>2, <1>4, <1>5 DEF NewRuns, ReadyTasks

\* The maps after new runs: sound, and no run that was there has changed.
LEMMA NewRunsSound ==
    ASSUME Sound(mem, last), last \in LastType, NEW sel, NEW rid, NEW top, NewRuns(mem, last, sel, rid, top),
           last' = [last EXCEPT !.run = top]
    PROVE  LET n == StartTaskRunsEffect(mem, rid)
           IN  /\ last' \in LastType
               /\ last'.task = last.task /\ last.task <= last'.task
               /\ last.run <= last'.run
               /\ Sound(n, last') /\ Forward(mem, n)
               /\ StartedRuns(n, mem, sel, rid)
               /\ \A r \in RunId : mem.run[r] = "RUNNING" =>
                    /\ r \notin {rid[t] : t \in sel}
                    /\ n.run[r] = "RUNNING" /\ n.runTask[r] = mem.runTask[r]
<1> DEFINE n == StartTaskRunsEffect(mem, rid)
<1>1. /\ mem \in ServiceStates /\ Sound(mem, last) /\ last \in LastType
      /\ Fresh(mem, last)
  BY DEF Sound
<1>2. last.task \in 0..MaxTasks /\ last.run \in 0..MaxRuns  BY <1>1 DEF LastType
<1>3. top \in 0..MaxRuns /\ last.run <= top  BY DEF NewRuns
<1>4. last' \in LastType  BY <1>1, <1>3, Zenon DEF LastType
<1>5. last'.task = last.task /\ last'.run = top  BY <1>1 DEF LastType
<1>6. sel \in SUBSET TaskId /\ rid \in [sel -> RunId]  BY DEF NewRuns
<1>7. \A t \in sel : last.run < rid[t]  BY DEF NewRuns
<1>8. NewRuns(mem, last, sel, rid, last'.run)  BY <1>5
<1>9. Sound(n, last') /\ Forward(mem, n)
  BY <1>1, <1>4, <1>5, <1>8, StartTaskRunsSound
<1>10. StartedRuns(n, mem, sel, rid)  BY <1>1, <1>6, StartTaskRunsFields
<1> HIDE DEF n
<1>11. ASSUME NEW r \in RunId, mem.run[r] = "RUNNING"
       PROVE  /\ r \notin {rid[t] : t \in sel}
              /\ n.run[r] = "RUNNING" /\ n.runTask[r] = mem.runTask[r]
  <2>1. r \notin {rid[t] : t \in sel}  BY <1>1, <1>7, <1>11 DEF Fresh
  <2> QED  BY <1>10, <1>11, <2>1 DEF StartedRuns
<1> QED  BY <1>2, <1>3, <1>4, <1>5, <1>9, <1>10, <1>11 DEF n

\* StartRun and StartParallelRun: the goroutines are started after the save.
LEMMA LaunchRunsStep ==
    ASSUME IInv, NEW sel, NEW rid, NEW top, NewRuns(mem, last, sel, rid, top),
           LaunchRuns(rid, top)
    PROVE  GoodStep
<1> DEFINE n == StartTaskRunsEffect(mem, rid)
<1>1. last' = [last EXCEPT !.run = top] /\ expired' = expired
  BY DEF LaunchRuns
<1>2. /\ last' \in LastType
      /\ last.task <= last'.task /\ last.run <= last'.run
      /\ Sound(n, last') /\ Forward(mem, n) /\ StartedRuns(n, mem, sel, rid)
      /\ \A r \in RunId : mem.run[r] = "RUNNING" =>
           /\ r \notin {rid[t] : t \in sel}
           /\ n.run[r] = "RUNNING" /\ n.runTask[r] = mem.runTask[r]
  BY <1>1, NewRunsSound DEF IInv
<1>3. /\ expired \subseteq OverrideId /\ agent \in AgentType
      /\ LiveAgentOwnsRun
  BY DEF IInv
<1>4. sel \subseteq TaskId /\ rid \in [sel -> RunId] /\ DOMAIN rid = sel
  BY DEF NewRuns
<1>5. CASE PersistOK(n) /\ Spawn(rid)
  <2>1. mem' = n /\ (disk' = mem' \/ disk' = disk)
        /\ (Store = "file" => disk' = mem')
    BY <1>5 DEF PersistOK
  <2>2. agent' = [r \in RunId |-> IF \E t \in sel : rid[t] = r
                                    THEN [phase |-> "spawned", task |-> NoId]
                                    ELSE agent[r]]
    BY <1>4, <1>5, Zenon DEF Spawn
  <2>3. agent' \in AgentType  BY <1>3, <2>2 DEF AgentType, Phase
  <2>4. ASSUME NEW r \in RunId, agent'[r].phase \in LivePhase
        PROVE  /\ mem'.run[r] = "RUNNING"
               /\ agent'[r].phase # "spawned" =>
                    agent'[r].task = mem'.runTask[r]
               /\ Store = "file" => Live(r) \/ disk' = mem'
    <3>1. CASE \E t \in sel : rid[t] = r
      BY <1>2, <2>1, <2>2, <3>1 DEF StartedRuns
    <3>2. CASE ~\E t \in sel : rid[t] = r
      <4>1. agent'[r] = agent[r]  BY <2>2, <3>2
      <4>2. mem.run[r] = "RUNNING"
            /\ (agent[r].phase # "spawned" => agent[r].task = mem.runTask[r])
        BY <1>3, <2>4, <4>1 DEF LiveAgentOwnsRun, Live
      <4> QED  BY <1>2, <2>1, <4>1, <4>2
    <3> QED  BY <3>1, <3>2
  <2> HIDE DEF n
  <2> QED  BY <1>1, <1>2, <1>3, <2>1, <2>3, <2>4, StepKeepsInv
<1>6. CASE PersistFails(n) /\ UNCHANGED agent
  <2>1. mem' = n /\ disk' = disk /\ agent' = agent  BY <1>6 DEF PersistFails
  <2>2. \A r \in RunId : agent'[r].phase \in LivePhase =>
          /\ mem'.run[r] = "RUNNING"
          /\ agent'[r].phase # "spawned" => agent'[r].task = mem'.runTask[r]
          /\ Store = "file" => Live(r) \/ disk' = mem'
    BY <1>2, <1>3, <2>1 DEF LiveAgentOwnsRun, Live
  <2> HIDE DEF n
  <2> QED  BY <1>1, <1>2, <1>3, <2>1, <2>2, StepKeepsInv
<1> QED  BY <1>5, <1>6 DEF LaunchRuns

\* StartRun refused, or its private sandbox not created.
LEMMA StartRunRefusedStep ==
    ASSUME IInv, NEW t \in TaskId, StartRunRefused(t)
    PROVE  GoodStep
<1>1. /\ mem \in ServiceStates /\ Sound(mem, last) /\ last \in LastType
      /\ expired \subseteq OverrideId
  BY DEF IInv, Sound
<1>2. last.task <= last.task /\ last.run <= last.run  BY <1>1 DEF LastType
<1>3. agent' = agent /\ last' = last /\ expired' = expired
  BY DEF StartRunRefused
<1>4. CASE Persist(mem)
  <2>1. SameWork(mem, mem)  BY DEF SameWork
  <2> QED  BY <1>1, <1>3, <1>4, <2>1, SameWorkStep
<1>5. CASE /\ EnsureTaskReady(mem, t)
           /\ Persist(SandboxCreateFailedEffect(mem, t))
  <2> DEFINE n == SandboxCreateFailedEffect(mem, t)
  <2>1. mem.status[t] = "CREATED"  BY <1>5 DEF EnsureTaskReady
  <2>2. Sound(n, last) /\ Forward(mem, n)
    BY <1>1, <2>1, SandboxCreateFailedSound
  <2>3. n.run = mem.run /\ n.runTask = mem.runTask
    BY <1>1, SandboxCreateFailedFields
  <2>4. mem' = n /\ (disk' = mem' \/ disk' = disk)  BY <1>5, PersistStep
  <2> HIDE DEF n
  <2> QED  BY <1>1, <1>2, <1>3, <2>2, <2>3, <2>4, QuietStep
<1> QED  BY <1>4, <1>5 DEF StartRunRefused

\* StartParallelRun gives up at a private sandbox that could not be created.
LEMMA StartParallelRunFailsStep ==
    ASSUME IInv, NEW t \in ReadyTasks, NEW sel \in SUBSET (ReadyTasks \ {t}),
           StartParallelRunFails(sel, t)
    PROVE  GoodStep
<1>1. PICK top \in {last.run} \cup RunId, rid \in [sel -> RunId] :
        /\ Allocates(rid, sel, top)
        /\ last' = [last EXCEPT !.run = top]
        /\ mem' = SandboxCreateFailedEffect(StartTaskRunsEffect(mem, rid), t)
  BY DEF StartParallelRunFails
<1> DEFINE p == StartTaskRunsEffect(mem, rid)
           n == SandboxCreateFailedEffect(p, t)
<1>2. NewRuns(mem, last, sel, rid, top)  BY <1>1, ManyNewRuns DEF IInv
<1>3. /\ last' \in LastType
      /\ last.task <= last'.task /\ last.run <= last'.run
      /\ Sound(p, last') /\ Forward(mem, p) /\ StartedRuns(p, mem, sel, rid)
      /\ \A r \in RunId : mem.run[r] = "RUNNING" =>
           /\ p.run[r] = "RUNNING" /\ p.runTask[r] = mem.runTask[r]
  BY <1>1, <1>2, NewRunsSound DEF IInv
<1> HIDE DEF p
<1>4. t \in TaskId /\ t \notin sel /\ mem.status[t] = "CREATED"
  BY DEF ReadyTasks, EnsureTaskReady
<1>5. p.status[t] = "CREATED" /\ p \in ServiceStates
  BY <1>3, <1>4 DEF StartedRuns
<1>6. Sound(n, last') /\ Forward(mem, n)
  BY <1>3, <1>4, <1>5, SandboxCreateFailedSound, ForwardTransitive
<1>7. n.run = p.run /\ n.runTask = p.runTask
  BY <1>4, <1>5, SandboxCreateFailedFields
<1>8. mem' = n  BY <1>1 DEF p
<1>9. disk' = disk /\ agent' = agent /\ expired' = expired
  BY DEF StartParallelRunFails
<1>10. agent \in AgentType /\ expired \subseteq OverrideId /\ LiveAgentOwnsRun
  BY DEF IInv
<1> HIDE DEF n
<1>11. \A r \in RunId : agent'[r].phase \in LivePhase =>
         /\ mem'.run[r] = "RUNNING"
         /\ agent'[r].phase # "spawned" => agent'[r].task = mem'.runTask[r]
         /\ Store = "file" => Live(r) \/ disk' = mem'
  BY <1>3, <1>7, <1>8, <1>9, <1>10 DEF LiveAgentOwnsRun, Live
<1> QED  BY <1>3, <1>6, <1>8, <1>9, <1>10, <1>11, StepKeepsInv

\* A step of the goroutine of run r that leaves the run running, moves the
\* goroutine to a later phase and keeps the maps sound.
LEMMA AgentMoves ==
    ASSUME IInv, NEW r \in RunId, Live(r), agent[r].phase # "spawned",
           NEW ph \in LivePhase, ph # "spawned", Goto(r, ph),
           Sound(mem', last), Forward(mem, mem'),
           mem'.run = mem.run, mem'.runTask = mem.runTask,
           disk' = mem' \/ disk' = disk, UNCHANGED <<last, expired>>
    PROVE  GoodStep
<1>1. /\ agent \in AgentType /\ last \in LastType /\ expired \subseteq OverrideId
      /\ LiveAgentOwnsRun
  BY DEF IInv
<1>2. last.task <= last.task /\ last.run <= last.run  BY <1>1 DEF LastType
<1>3. /\ agent' \in AgentType
      /\ \A q \in RunId : agent'[q] =
           IF q = r THEN [agent[r] EXCEPT !.phase = ph] ELSE agent[q]
  BY <1>1 DEF Goto, AgentType, LivePhase
<1>4. agent'[r].task = agent[r].task  BY <1>1, <1>3 DEF AgentType
<1>5. \A q \in RunId : agent'[q].phase \in LivePhase =>
        /\ mem'.run[q] = "RUNNING"
        /\ agent'[q].phase # "spawned" => agent'[q].task = mem'.runTask[q]
        /\ Store = "file" => Live(q) \/ disk' = mem'
  BY <1>1, <1>3, <1>4 DEF LiveAgentOwnsRun, Live
<1> QED  BY <1>1, <1>2, <1>3, <1>5, StepKeepsInv

\* The goroutine of r settles the run and exits: executeRun or failRun.
LEMMA AgentSettles ==
    ASSUME IInv, NEW r \in RunId, Goto(r, "exited"),
           Sound(mem', last), Forward(mem, mem'),
           mem'.runTask = mem.runTask,
           \A q \in RunId \ {r} : mem'.run[q] = mem.run[q],
           disk' = mem' \/ disk' = disk, UNCHANGED <<last, expired>>
    PROVE  GoodStep
<1>1. /\ agent \in AgentType /\ last \in LastType /\ expired \subseteq OverrideId
      /\ LiveAgentOwnsRun
  BY DEF IInv
<1>2. last.task <= last.task /\ last.run <= last.run  BY <1>1 DEF LastType
<1>3. /\ agent' \in AgentType
      /\ \A q \in RunId : agent'[q] =
           IF q = r THEN [agent[r] EXCEPT !.phase = "exited"] ELSE agent[q]
  BY <1>1 DEF Goto, AgentType, Phase
<1>4. agent'[r].phase \notin LivePhase  BY <1>1, <1>3 DEF AgentType, LivePhase
<1>5. \A q \in RunId : agent'[q].phase \in LivePhase =>
        /\ mem'.run[q] = "RUNNING"
        /\ agent'[q].phase # "spawned" => agent'[q].task = mem'.runTask[q]
        /\ Store = "file" => Live(q) \/ disk' = mem'
  BY <1>1, <1>3, <1>4 DEF LiveAgentOwnsRun, Live
<1> QED  BY <1>1, <1>2, <1>3, <1>5, StepKeepsInv

\* A live goroutine finds its run running and its task worked on.
LEMMA LiveAgentFinds ==
    ASSUME IInv, NEW r \in RunId, Live(r)
    PROVE  /\ mem \in ServiceStates /\ Sound(mem, last) /\ last \in LastType
           /\ mem.run[r] = "RUNNING" /\ RunExists(mem, r)
           /\ mem.runTask[r] \in TaskId /\ Worked(mem, mem.runTask[r])
           /\ ~mem.artifact[r]
           /\ agent[r].phase # "spawned" => agent[r].task = mem.runTask[r]
BY DEF IInv, Sound, LiveAgentOwnsRun, Agreement, RunExists

\* snapshotForExecution.
LEMMA PrepareStep ==
    ASSUME IInv, NEW r \in RunId, Prepare(r)
    PROVE  GoodStep
<1>1. Live(r) /\ agent[r].phase = "spawned"
  BY DEF Prepare, Live, LivePhase, Phase
<1>2. RunExists(mem, r) /\ mem.run[r] = "RUNNING" /\ mem.runTask[r] \in TaskId
  BY <1>1, LiveAgentFinds
<1>3. /\ agent \in AgentType /\ last \in LastType /\ expired \subseteq OverrideId
      /\ LiveAgentOwnsRun /\ Sound(mem, last)
  BY DEF IInv
<1>4. last.task <= last.task /\ last.run <= last.run  BY <1>3 DEF LastType
<1>5. UNCHANGED <<mem, disk, last, expired>>  BY DEF Prepare
<1>9. Forward(mem, mem')  BY <1>5, ForwardSame
<1>6. agent' = [agent EXCEPT ![r] =
                  [phase |-> "prepared", task |-> mem.runTask[r]]]
  BY <1>2 DEF Prepare
<1>7. agent' \in AgentType  BY <1>2, <1>3, <1>6 DEF AgentType, Phase
<1>8. \A q \in RunId : agent'[q].phase \in LivePhase =>
        /\ mem'.run[q] = "RUNNING"
        /\ agent'[q].phase # "spawned" => agent'[q].task = mem'.runTask[q]
        /\ Store = "file" => Live(q) \/ disk' = mem'
  BY <1>1, <1>2, <1>3, <1>5, <1>6 DEF LiveAgentOwnsRun, Live, AgentType
<1> QED  BY <1>3, <1>4, <1>5, <1>7, <1>8, <1>9, StepKeepsInv

\* sandboxFailureForTask.
LEMMA CheckFaultStep ==
    ASSUME IInv, NEW r \in RunId, CheckFault(r)
    PROVE  GoodStep
<1>1. Live(r) /\ agent[r].phase # "spawned"
  BY DEF CheckFault, Live, LivePhase, Phase
<1>2. mem \in ServiceStates /\ Sound(mem, last) /\ last \in LastType
  BY <1>1, LiveAgentFinds
<1>3. /\ "failing" \in LivePhase /\ "cleared" \in LivePhase
      /\ disk' = disk /\ UNCHANGED <<last, expired>>
  BY DEF LivePhase, Phase, CheckFault
<1>4. CASE mem' = mem /\ Goto(r, "cleared")
  <2>1. Forward(mem, mem')  BY <1>4, ForwardSame
  <2> QED  BY <1>1, <1>2, <1>3, <1>4, <2>1, AgentMoves
<1>5. CASE /\ mem' = [mem EXCEPT !.faults = @ \ {agent[r].task}]
           /\ Goto(r, "failing")
  <2>1. mem.faults \ {agent[r].task} \in SUBSET TaskId  BY <1>2, FieldTypes
  <2>2. mem' \in ServiceStates /\ SameWork(mem', mem)
    BY <1>2, <1>5, <2>1, FaultFields
  <2>3. Sound(mem', last) /\ Forward(mem, mem')
    BY <1>2, <2>2, SameWorkSound
  <2>4. mem'.run = mem.run /\ mem'.runTask = mem.runTask  BY <2>2 DEF SameWork
  <2> QED  BY <1>1, <1>3, <1>5, <2>3, <2>4, AgentMoves
<1> QED  BY <1>4, <1>5 DEF CheckFault

\* applyPendingHumanOverrideLocked.
LEMMA CheckpointStep ==
    ASSUME IInv, NEW r \in RunId, Checkpoint(r)
    PROVE  GoodStep
<1>1. Live(r) /\ agent[r].phase # "spawned"
  BY DEF Checkpoint, Live, LivePhase, Phase
<1>2. /\ mem \in ServiceStates /\ Sound(mem, last) /\ last \in LastType
      /\ RunExists(mem, r) /\ mem.runTask[r] \in TaskId
  BY <1>1, LiveAgentFinds
<1>3. /\ "failing" \in LivePhase /\ "working" \in LivePhase
      /\ UNCHANGED <<last, expired>>
  BY DEF LivePhase, Phase, Checkpoint
<1>4. CASE Goto(r, "working") /\ UNCHANGED <<mem, disk>>
  <2>1. Forward(mem, mem')  BY <1>4, ForwardSame
  <2> QED  BY <1>1, <1>2, <1>3, <1>4, <2>1, AgentMoves
<1>5. ASSUME NEW o \in ActiveOverrides(mem, mem.runTask[r], expired),
             \/ PersistOK(ApplyOverrideEffect(mem, o)) /\ Goto(r, "working")
             \/ PersistFails(ApplyOverrideEffect(mem, o)) /\ Goto(r, "failing")
      PROVE  GoodStep
  <2> DEFINE t == mem.runTask[r]
             n == ApplyOverrideEffect(mem, o)
  <2>1. o \in OverrideId /\ mem.ovTask[o] = t  BY DEF ActiveOverrides
  <2>2. /\ n \in ServiceStates
        /\ n.status = [mem.status EXCEPT ![t] =
                         IF mem.status[t] = "HUMAN_OVERRIDE"
                           THEN TransitionTo(mem.status[t], "IN_PROGRESS")
                           ELSE mem.status[t]]
        /\ n.task = mem.task /\ n.run = mem.run /\ n.runTask = mem.runTask
        /\ n.sandbox = mem.sandbox /\ n.artifact = mem.artifact
    BY <1>2, <2>1, ApplyOverrideFields
  <2>3. mem' = n /\ (disk' = mem' \/ disk' = disk)
    BY <1>5 DEF PersistOK, PersistFails
  <2>4. Goto(r, "working") \/ Goto(r, "failing")  BY <1>5
  <2> HIDE DEF n
  <2>5. n.status = [mem.status EXCEPT ![t] =
                      IF Worked(mem, t) THEN "IN_PROGRESS" ELSE @]
    BY <1>2, <2>2
       DEF Worked, TransitionTo, IsAllowedTransition, AllowedTransitions
  <2>6. Sound(n, last) /\ Forward(mem, n)
    BY <1>2, <2>2, <2>5, PauseSound
  <2> QED  BY <1>1, <1>3, <2>2, <2>3, <2>4, <2>6, AgentMoves
<1> QED  BY <1>2, <1>4, <1>5 DEF Checkpoint

\* executeRuntimeRun and the steps on the workspace.
LEMMA WorkStep ==
    ASSUME IInv, NEW r \in RunId, Work(r)
    PROVE  GoodStep
<1>1. Live(r) /\ agent[r].phase # "spawned"
  BY DEF Work, Live, LivePhase, Phase
<1>2. Sound(mem, last)  BY <1>1, LiveAgentFinds
<1>3. "failing" \in LivePhase /\ "finishing" \in LivePhase
  BY DEF LivePhase, Phase
<1>4. Forward(mem, mem')  BY ForwardSame DEF Work
<1> QED  BY <1>1, <1>2, <1>3, <1>4, AgentMoves DEF Work

\* The last critical section of executeRun.
LEMMA CompleteRunStep ==
    ASSUME IInv, NEW r \in RunId, CompleteRun(r)
    PROVE  GoodStep
<1> DEFINE t == mem.runTask[r]
           n == CompleteRunEffect(mem, r, t)
<1>1. Live(r) /\ agent[r].phase # "spawned"
  BY DEF CompleteRun, Live, LivePhase, Phase
<1>2. /\ mem \in ServiceStates /\ Sound(mem, last) /\ last \in LastType
      /\ mem.run[r] = "RUNNING" /\ RunExists(mem, r) /\ agent[r].task = t
      /\ t \in TaskId /\ Worked(mem, t)
  BY <1>1, LiveAgentFinds
<1>3. Persist(n) /\ Goto(r, "exited") /\ UNCHANGED <<last, expired>>
  BY <1>2 DEF CompleteRun, TaskExists, Worked
<1>4. Settled(n, mem, r, t, TRUE)  BY <1>2, CompleteRunFields
<1>5. Sound(n, last) /\ Forward(mem, n)
  BY <1>2, <1>4, SettleSound
<1>6. mem' = n /\ (disk' = mem' \/ disk' = disk)  BY <1>3, PersistStep
<1> HIDE DEF n
<1>7. /\ n.runTask = mem.runTask
      /\ \A q \in RunId \ {r} : n.run[q] = mem.run[q]
  BY <1>4 DEF Settled
<1> QED  BY <1>3, <1>5, <1>6, <1>7, AgentSettles

\* failRun.
LEMMA FailRunStep ==
    ASSUME IInv, NEW r \in RunId, FailRun(r)
    PROVE  GoodStep
<1> DEFINE t == mem.runTask[r]
           n == FailRunEffect(mem, r)
<1>1. Live(r)  BY DEF FailRun, Live, LivePhase, Phase
<1>2. /\ mem \in ServiceStates /\ Sound(mem, last) /\ last \in LastType
      /\ mem.run[r] = "RUNNING" /\ RunExists(mem, r)
      /\ t \in TaskId /\ Worked(mem, t) /\ ~mem.artifact[r]
  BY <1>1, LiveAgentFinds
<1>3. Persist(n) /\ Goto(r, "exited") /\ UNCHANGED <<last, expired>>
  BY <1>2 DEF FailRun
<1>4. Settled(n, mem, r, t, FALSE)  BY <1>2, FailRunFields
<1>5. Sound(n, last) /\ Forward(mem, n)
  BY <1>2, <1>4, SettleSound
<1>6. mem' = n /\ (disk' = mem' \/ disk' = disk)  BY <1>3, PersistStep
<1> HIDE DEF n
<1>7. /\ n.runTask = mem.runTask
      /\ \A q \in RunId \ {r} : n.run[q] = mem.run[q]
  BY <1>4 DEF Settled
<1> QED  BY <1>3, <1>5, <1>6, <1>7, AgentSettles

\* New loads the file, and no goroutine is left.
LEMMA RestartStep ==
    ASSUME IInv, Restart
    PROVE  GoodStep
<1>1. /\ agent \in AgentType /\ last \in LastType /\ expired \subseteq OverrideId
      /\ Sound(disk, last)
  BY DEF IInv
<1>2. last.task <= last.task /\ last.run <= last.run  BY <1>1 DEF LastType
<1>3. /\ mem' = disk /\ disk' = disk /\ last' = last /\ expired' = expired
      /\ agent' = [r \in RunId |-> IF Live(r) THEN NoAgent ELSE agent[r]]
  BY DEF Restart
<1>4. agent' \in AgentType  BY <1>1, <1>3 DEF AgentType, NoAgent, Phase
<1>5. \A r \in RunId : agent'[r].phase \notin LivePhase
  BY <1>3 DEF Live, LivePhase, NoAgent
<1> QED  BY <1>1, <1>2, <1>3, <1>4, <1>5, StepKeepsInv

-----------------------------------------------------------------------------
(***************************************************************************)
(* The theorems.                                                           *)
(***************************************************************************)

\* The maps of a new project are sound.
LEMMA InitInv == Init => IInv
<1> SUFFICES ASSUME Init PROVE IInv  OBVIOUS
<1>1. EmptyState \in ServiceStates  BY EmptyStateType
<1>2. /\ \A t \in TaskId : EmptyState.status[t] = "ABSENT"
      /\ \A r \in RunId : EmptyState.run[r] = "ABSENT" /\ ~EmptyState.artifact[r]
  BY ZenonT(30) DEF EmptyState
<1>3. last \in LastType
  <2>1. 0 \in 0..MaxTasks /\ 0 \in 0..MaxRuns /\ 0 \in 0..MaxOverrides
    BY BoundsAssumption
  <2> QED  BY <2>1 DEF Init, LastType
<1>4. Sound(EmptyState, last)
  BY <1>1, <1>2 DEF Sound, Fresh, Agreement, Ordering, RunExists, Worked
<1>5. agent \in AgentType /\ LiveAgentOwnsRun
  BY DEF Init, AgentType, NoAgent, Phase, LiveAgentOwnsRun, Live, LivePhase
<1>6. Forward(disk, mem)  BY ForwardSame DEF Init
<1> QED  BY <1>3, <1>4, <1>5, <1>6 DEF Init, IInv

\* One step of the service, the goroutines, the clock or a restart.
LEMMA NextInv == IInv /\ [Next]_vars => GoodStep
<1> SUFFICES ASSUME IInv, [Next]_vars PROVE GoodStep  OBVIOUS
<1>1. CASE UNCHANGED vars
  <2>1. IInv'  BY <1>1 DEF vars, IInv, LiveAgentOwnsRun, Live
  <2>2. Forward(disk, disk')  BY <1>1, ForwardSame DEF vars
  <2> QED  BY <2>1, <2>2 DEF GoodStep
<1>2. ASSUME NEW t \in TaskId, StartRun(t)
      PROVE  GoodStep
  <2>1. NewRuns(mem, last, {t}, [u \in {t} |-> last.run + 1], last.run + 1)
    BY <1>2, OneNewRun DEF StartRun, IInv
  <2> QED  BY <1>2, <2>1, LaunchRunsStep DEF StartRun
<1>3. ASSUME NEW sel \in SUBSET ReadyTasks, StartParallelRun(sel)
      PROVE  GoodStep
  <2>1. PICK top \in RunId, rid \in [sel -> RunId] :
          Allocates(rid, sel, top) /\ LaunchRuns(rid, top)
    BY <1>3 DEF StartParallelRun
  <2>2. NewRuns(mem, last, sel, rid, top)  BY <2>1, ManyNewRuns DEF IInv
  <2> QED  BY <2>1, <2>2, LaunchRunsStep
<1>4. CASE Handler
  BY <1>2, <1>3, <1>4, PlanningStep, OperatorStep, StartRunRefusedStep,
     StartParallelRunFailsStep
     DEF Handler
<1>5. ASSUME NEW r \in RunId, AgentStep(r)
      PROVE  GoodStep
  BY <1>5, PrepareStep, CheckFaultStep, CheckpointStep, WorkStep,
     CompleteRunStep, FailRunStep
     DEF AgentStep
<1>6. CASE Restart  BY <1>6, RestartStep
<1>7. CASE \E o \in OverrideId : ExpireLease(o)  BY <1>7, OperatorStep
<1> QED  BY <1>1, <1>4, <1>5, <1>6, <1>7 DEF Next

\* The invariant holds in every state of every behaviour.
THEOREM Invariance == Spec => []IInv
<1>1. IInv /\ [Next]_vars => IInv'  BY NextInv DEF GoodStep
<1> QED  BY <1>1, InitInv, PTL DEF Spec

\* Every map of the service keeps its type, in memory and in the file.
THEOREM TypeCorrect == Spec => []TypeOK
<1>1. IInv => TypeOK  BY DEF IInv, Sound, TypeOK, AgentType, LastType
<1> QED  BY <1>1, Invariance, PTL

\* startTaskRunLocked, executeRun and failRun keep the run, its task, its
\* private sandbox and its artifact in agreement, in memory and in the file,
\* for every number of tasks and runs and every interleaving of handlers,
\* goroutines, failing saves and restarts.
THEOREM RunsAgree == Spec => []RunsAndTasksAgree
<1>1. IInv => RunsAndTasksAgree  BY DEF IInv, Sound, RunsAndTasksAgree
<1> QED  BY <1>1, Invariance, PTL

\* ensureTaskReadyLocked is enough: whatever happens after a run was started,
\* the tasks that its task depends on are done.
THEOREM DependenciesRespected == Spec => []DependenciesDone
<1>1. IInv => DependenciesDone  BY DEF IInv, Sound, DependenciesDone
<1> QED  BY <1>1, Invariance, PTL

\* A goroutine executeRun is the only one to settle its run, and its run is one
\* that a restart would find.
THEOREM AgentsOwnRuns == Spec => []LiveAgentOwnsRun
<1>1. IInv => LiveAgentOwnsRun  BY DEF IInv
<1> QED  BY <1>1, Invariance, PTL

\* The stored state implements the board: with failing saves and restarts, no
\* outcome that was written is taken back, no task or run is renamed, and no
\* stored run is ahead of the tasks that its task depends on.
THEOREM DiskImplementsBoard == Spec => DiskIsBoard
<1>1. Init => DiskBoard!Init
  <2>1. /\ \A t \in TaskId : EmptyState.status[t] = "ABSENT"
        /\ \A r \in RunId : EmptyState.run[r] = "ABSENT"
    BY ZenonT(30) DEF EmptyState
  <2> QED  BY <2>1 DEF Init, DiskBoard!Init
<1>2. IInv /\ [Next]_vars => [DiskBoard!Next]_DiskBoard!boardVars
  <2> SUFFICES ASSUME IInv, [Next]_vars
               PROVE  DiskBoard!Next
    OBVIOUS
  <2>1. IInv' /\ Forward(disk, disk')  BY NextInv DEF GoodStep
  <2>2. Sound(disk', last')  BY <2>1 DEF IInv
  <2>3. DiskBoard!Coherent(disk'.status, disk'.task, disk'.run, disk'.runTask)
    BY <2>2, SoundIsCoherent
       DEF DiskBoard!Coherent, Stages!Coherent, DiskBoard!Working, Stages!Working
  <2> QED
    BY <2>1, <2>3 DEF DiskBoard!Next, Forward, DiskBoard!TaskMayBecome,
       DiskBoard!RunMayBecome, DiskBoard!Working, Stages!TaskMayBecome,
       Stages!RunMayBecome, Stages!Working
<1> QED  BY <1>1, <1>2, Invariance, PTL DEF Spec, DiskIsBoard, DiskBoard!Spec

-----------------------------------------------------------------------------
(***************************************************************************)
(* Overrides.  Which effects touch them, and the leases.                   *)
(***************************************************************************)

\* The overrides and the timeline of n are those of s: most handlers touch
\* neither.
SameOverrides(n, s) ==
    /\ n.override = s.override /\ n.ovTask = s.ovTask
    /\ n.ovOwner = s.ovOwner /\ n.ovScope = s.ovScope
SameTimeline(n, s) ==
    /\ n.snaps = s.snaps /\ n.branch = s.branch
    /\ n.stable = s.stable /\ n.branchSeq = s.branchSeq
Untouched(n, s) == SameOverrides(n, s) /\ SameTimeline(n, s)

\* The planning handlers and the conflict queue.
LEMMA PlanningUntouched ==
    ASSUME NEW s \in ServiceStates
    PROVE  /\ Untouched(AddRequirementEffect(s), s)
           /\ Untouched(GenerateContractEffect(s), s)
           /\ Untouched(EnqueueConflictEffect(s), s)
           /\ \A c : Untouched(ResolveConflictEffect(s, c), s)
           /\ \A F : Untouched([s EXCEPT !.faults = F], s)
           /\ \A t, spec : Untouched(AddTask(s, t, spec), s)
           /\ \A b, f, i : Untouched(DispatchTasksEffect(s, b, f, i), s)
<1> USE DEF ServiceStates, Untouched, SameOverrides, SameTimeline
<1>1. Untouched(AddRequirementEffect(s), s)  BY Zenon DEF AddRequirementEffect
<1>2. Untouched(GenerateContractEffect(s), s)
  BY Zenon DEF GenerateContractEffect
<1>3. Untouched(EnqueueConflictEffect(s), s)  BY Zenon DEF EnqueueConflictEffect
<1>4. ASSUME NEW c PROVE Untouched(ResolveConflictEffect(s, c), s)
  BY Zenon DEF ResolveConflictEffect
<1>5. ASSUME NEW F PROVE Untouched([s EXCEPT !.faults = F], s)
  BY Zenon
<1>6. ASSUME NEW t, NEW spec PROVE Untouched(AddTask(s, t, spec), s)
  BY Zenon DEF AddTask
<1>7. ASSUME NEW b, NEW f, NEW i PROVE Untouched(DispatchTasksEffect(s, b, f, i), s)
  BY Zenon DEF DispatchTasksEffect
<1> HIDE DEF ServiceStates, Untouched, SameOverrides, SameTimeline
<1> QED  BY <1>1, <1>2, <1>3, <1>4, <1>5, <1>6, <1>7

\* A new plan, a rework task and a retry.
LEMMA NewTaskUntouched ==
    ASSUME NEW s \in ServiceStates, NEW t
    PROVE  /\ Untouched(GeneratePlanEffect(s, t), s)
           /\ \A c : Untouched(RemediationEffect(s, t, c), s)
           /\ \A old : Untouched(RetryTaskEffect(s, old, t), s)
<1> DEFINE p == [s EXCEPT !.plans = Append(s.plans, s.reqs)]
           spec == [type |-> "SPRINT1_EXECUTE", plan |-> Len(s.plans) + 1,
                    contract |-> NoId, deps |-> {}]
<1>1. Append(s.plans, s.reqs) \in Seq(Nat)  BY DEF ServiceStates
<1>2. p \in ServiceStates /\ Untouched(p, s)
  BY <1>1, ZenonT(60) DEF ServiceStates, Untouched, SameOverrides, SameTimeline
<1>3. GeneratePlanEffect(s, t) = AddTask(p, t, spec)
  BY DEF GeneratePlanEffect
<1> HIDE DEF p, spec
<1>4. Untouched(AddTask(p, t, spec), p)  BY <1>2, PlanningUntouched
<1>5. Untouched(GeneratePlanEffect(s, t), s)
  BY <1>2, <1>3, <1>4 DEF Untouched, SameOverrides, SameTimeline
<1> QED  BY <1>5, PlanningUntouched DEF RemediationEffect, RetryTaskEffect

\* Starting and settling runs.
LEMMA RunsUntouched ==
    ASSUME NEW s \in ServiceStates
    PROVE  /\ \A rid : Untouched(StartTaskRunsEffect(s, rid), s)
           /\ \A t : Untouched(SandboxCreateFailedEffect(s, t), s)
           /\ \A r, t : Untouched(CompleteRunEffect(s, r, t), s)
           /\ \A r : Untouched(FailRunEffect(s, r), s)
<1> USE DEF ServiceStates, Untouched, SameOverrides, SameTimeline
<1>1. ASSUME NEW rid PROVE Untouched(StartTaskRunsEffect(s, rid), s)
  BY Zenon DEF StartTaskRunsEffect
<1>2. ASSUME NEW t PROVE Untouched(SandboxCreateFailedEffect(s, t), s)
  BY Zenon DEF SandboxCreateFailedEffect
<1>3. ASSUME NEW r, NEW t PROVE Untouched(CompleteRunEffect(s, r, t), s)
  BY Zenon DEF CompleteRunEffect
<1>4. ASSUME NEW r PROVE Untouched(FailRunEffect(s, r), s)
  BY Zenon DEF FailRunEffect
<1> HIDE DEF ServiceStates, Untouched, SameOverrides, SameTimeline
<1> QED  BY <1>1, <1>2, <1>3, <1>4

\* ApplyHumanOverride stores one override and leaves the timeline alone.
LEMMA QueueOverrideChanges ==
    ASSUME NEW s \in ServiceStates, NEW o, NEW t, NEW owner, NEW scope
    PROVE  LET n == QueueOverrideEffect(s, o, t, owner, scope)
           IN  /\ n.override = [s.override EXCEPT ![o] = "PENDING"]
               /\ n.ovTask = [s.ovTask EXCEPT ![o] = t]
               /\ n.ovOwner = [s.ovOwner EXCEPT ![o] = owner]
               /\ n.ovScope = [s.ovScope EXCEPT ![o] = scope]
               /\ SameTimeline(n, s)
BY ZenonT(60) DEF QueueOverrideEffect, ServiceStates, SameTimeline

\* The checkpoint uses one override up and leaves the timeline alone.
LEMMA ApplyOverrideChanges ==
    ASSUME NEW s \in ServiceStates, NEW o
    PROVE  LET n == ApplyOverrideEffect(s, o)
           IN  /\ n.override = [s.override EXCEPT ![o] = "APPLIED"]
               /\ n.ovTask = s.ovTask /\ n.ovOwner = s.ovOwner
               /\ n.ovScope = s.ovScope
               /\ SameTimeline(n, s)
BY ZenonT(60) DEF ApplyOverrideEffect, ServiceStates, SameTimeline

\* An override that nextID has not returned yet is not a key of the map.
NewOverrides(s, l) ==
    \A o \in OverrideId : o > l.override => s.override[o] = "ABSENT"

\* Two owners never hold live leases of the same scope of a task.
Exclusive(s, gone) ==
    \A t \in TaskId : \A o, p \in ActiveOverrides(s, t, gone) :
        s.ovScope[o] = s.ovScope[p] => s.ovOwner[o] = s.ovOwner[p]

\* What is shown of both copies: a restart makes the stored one the memory.
Leased(s, l, gone) == Paused(s) /\ NewOverrides(s, l) /\ Exclusive(s, gone)

LeaseInv == Leased(mem, last, expired) /\ Leased(disk, last, expired)

\* Time passes and identifiers are handed out: leases only end.
LEMMA LeasedLater ==
    ASSUME NEW s \in ServiceStates, NEW l \in LastType, NEW m \in LastType,
           NEW g, NEW h, g \subseteq h, l.override <= m.override, Leased(s, l, g)
    PROVE  Leased(s, m, h)
<1>1. NewOverrides(s, m)
  BY DEF Leased, NewOverrides, LastType, OverrideId
<1>2. Exclusive(s, h)  BY DEF Leased, Exclusive, ActiveOverrides
<1> QED  BY <1>1, <1>2 DEF Leased

\* An effect that leaves the overrides alone and pauses no task.
LEMMA LeasedUntouched ==
    ASSUME NEW s, NEW n, NEW l, NEW g, Leased(s, l, g), SameOverrides(n, s),
           \A t \in TaskId : n.status[t] = "HUMAN_OVERRIDE" =>
             s.status[t] = "HUMAN_OVERRIDE"
    PROVE  Leased(n, l, g)
BY DEF Leased, Paused, NewOverrides, Exclusive, ActiveOverrides, SameOverrides

\* ApplyHumanOverride: nobody else holds the scope, and the task that is paused
\* has the new instruction.
LEMMA LeasedQueue ==
    ASSUME NEW s \in ServiceStates, NEW l \in LastType, NEW m \in LastType,
           NEW g, Leased(s, l, g), l.override < MaxOverrides,
           NEW o, o = l.override + 1, m.override = o,
           NEW t \in TaskId, NEW owner \in Owners, NEW scope \in Scopes,
           ~LeaseConflict(s, t, owner, scope, g)
    PROVE  Leased(QueueOverrideEffect(s, o, t, owner, scope), m, g)
<1> DEFINE n == QueueOverrideEffect(s, o, t, owner, scope)
<1>1. l.override \in 0..MaxOverrides /\ MaxOverrides \in Nat
  BY BoundsAssumption DEF LastType
<1>2. o \in OverrideId /\ o > l.override  BY <1>1 DEF OverrideId
<1>3. /\ s.override \in [OverrideId -> OverrideStatus \cup {"ABSENT"}]
      /\ s.ovTask \in [OverrideId -> TaskId \cup {NoId}]
      /\ s.ovOwner \in [OverrideId -> Owners \cup {NoOwner}]
      /\ s.ovScope \in [OverrideId -> Scopes \cup {NoScope}]
      /\ s.status \in [TaskId -> TaskStatus \cup {"ABSENT"}]
  BY DEF ServiceStates
<1>4. /\ n.override = [s.override EXCEPT ![o] = "PENDING"]
      /\ n.ovTask = [s.ovTask EXCEPT ![o] = t]
      /\ n.ovOwner = [s.ovOwner EXCEPT ![o] = owner]
      /\ n.ovScope = [s.ovScope EXCEPT ![o] = scope]
  BY ZenonT(60) DEF QueueOverrideEffect, ServiceStates
<1>5. n.status = [s.status EXCEPT ![t] = IF s.status[t] = "IN_PROGRESS"
                                  THEN TransitionTo(s.status[t], "HUMAN_OVERRIDE")
                                  ELSE s.status[t]]
  BY <1>2, QueueOverrideFields
<1> HIDE DEF n
<1>6. /\ n.override[o] = "PENDING" /\ n.ovTask[o] = t
      /\ n.ovOwner[o] = owner /\ n.ovScope[o] = scope
      /\ \A p \in OverrideId \ {o} :
           /\ n.override[p] = s.override[p] /\ n.ovTask[p] = s.ovTask[p]
           /\ n.ovOwner[p] = s.ovOwner[p] /\ n.ovScope[p] = s.ovScope[p]
      /\ \A u \in TaskId \ {t} : n.status[u] = s.status[u]
  BY <1>2, <1>3, <1>4, <1>5
<1>7. s.override[o] = "ABSENT"  BY <1>2 DEF Leased, NewOverrides
<1>8. Paused(n)
  <2> SUFFICES ASSUME NEW u \in TaskId, n.status[u] = "HUMAN_OVERRIDE"
               PROVE  \E p \in OverrideId : n.override[p] = "PENDING" /\ n.ovTask[p] = u
    BY DEF Paused
  <2>1. CASE u = t  BY <1>2, <1>6, <2>1
  <2>2. CASE u # t
    <3>1. PICK p \in OverrideId : s.override[p] = "PENDING" /\ s.ovTask[p] = u
      BY <1>6, <2>2 DEF Leased, Paused
    <3> QED  BY <1>6, <1>7, <3>1
  <2> QED  BY <2>1, <2>2
<1>9. NewOverrides(n, m)
  <2> SUFFICES ASSUME NEW p \in OverrideId, p > m.override
               PROVE  n.override[p] = "ABSENT"
    BY DEF NewOverrides
  <2>1. p # o /\ p > l.override  BY <1>1, <1>2 DEF OverrideId
  <2> QED  BY <1>6, <2>1 DEF Leased, NewOverrides
<1>10. Exclusive(n, g)
  <2> SUFFICES ASSUME NEW u \in TaskId, NEW p \in ActiveOverrides(n, u, g),
                      NEW q \in ActiveOverrides(n, u, g),
                      n.ovScope[p] = n.ovScope[q]
               PROVE  n.ovOwner[p] = n.ovOwner[q]
    BY DEF Exclusive
  <2>1. ASSUME NEW a \in ActiveOverrides(n, u, g), a # o
        PROVE  /\ a \in OverrideId \ {o} /\ a \in ActiveOverrides(s, u, g)
               /\ n.ovOwner[a] = s.ovOwner[a] /\ n.ovScope[a] = s.ovScope[a]
    BY <1>6, <2>1 DEF ActiveOverrides
  <2>2. ASSUME NEW a \in ActiveOverrides(n, u, g), a # o, u = t,
               n.ovScope[a] = scope
        PROVE  n.ovOwner[a] = owner
    BY <2>1, <2>2 DEF LeaseConflict
  <2>3. CASE p # o /\ q # o  BY <2>1, <2>3 DEF Leased, Exclusive
  <2>4. CASE p = o /\ q # o
    <3>1. u = t  BY <1>6, <2>4 DEF ActiveOverrides
    <3> QED  BY <1>6, <2>2, <2>4, <3>1
  <2>5. CASE p # o /\ q = o
    <3>1. u = t  BY <1>6, <2>5 DEF ActiveOverrides
    <3> QED  BY <1>6, <2>2, <2>5, <3>1
  <2> QED  BY <2>3, <2>4, <2>5
<1> QED  BY <1>8, <1>9, <1>10 DEF Leased, n

\* The checkpoint resumes the task whose instruction it uses up.
LEMMA LeasedApply ==
    ASSUME NEW s \in ServiceStates, NEW l \in LastType, NEW g, Leased(s, l, g),
           NEW o \in OverrideId, s.override[o] = "PENDING", s.ovTask[o] \in TaskId
    PROVE  Leased(ApplyOverrideEffect(s, o), l, g)
<1> DEFINE n == ApplyOverrideEffect(s, o)
           t == s.ovTask[o]
<1>1. /\ s.override \in [OverrideId -> OverrideStatus \cup {"ABSENT"}]
      /\ s.status \in [TaskId -> TaskStatus \cup {"ABSENT"}]
  BY DEF ServiceStates
<1>2. /\ n.override = [s.override EXCEPT ![o] = "APPLIED"]
      /\ n.ovTask = s.ovTask /\ n.ovOwner = s.ovOwner /\ n.ovScope = s.ovScope
  BY ApplyOverrideChanges
<1>3. n.status = [s.status EXCEPT ![t] = IF s.status[t] = "HUMAN_OVERRIDE"
                                  THEN TransitionTo(s.status[t], "IN_PROGRESS")
                                  ELSE s.status[t]]
  BY ApplyOverrideFields
<1> HIDE DEF n
<1>4. /\ n.override[o] = "APPLIED" /\ n.status[t] # "HUMAN_OVERRIDE"
      /\ \A p \in OverrideId \ {o} : n.override[p] = s.override[p]
      /\ \A u \in TaskId \ {t} : n.status[u] = s.status[u]
  BY <1>1, <1>2, <1>3
     DEF TransitionTo, IsAllowedTransition, AllowedTransitions
<1>5. Paused(n)
  <2> SUFFICES ASSUME NEW u \in TaskId, n.status[u] = "HUMAN_OVERRIDE"
               PROVE  \E p \in OverrideId : n.override[p] = "PENDING" /\ n.ovTask[p] = u
    BY DEF Paused
  <2>1. u # t /\ s.status[u] = "HUMAN_OVERRIDE"  BY <1>4
  <2>2. PICK p \in OverrideId : s.override[p] = "PENDING" /\ s.ovTask[p] = u
    BY <2>1 DEF Leased, Paused
  <2> QED  BY <1>2, <1>4, <2>1, <2>2
<1>6. NewOverrides(n, l)  BY <1>4 DEF Leased, NewOverrides
<1>7. Exclusive(n, g)
  <2>1. \A u \in TaskId : ActiveOverrides(n, u, g) \subseteq ActiveOverrides(s, u, g)
    BY <1>2, <1>4 DEF ActiveOverrides
  <2> QED  BY <1>2, <2>1 DEF Leased, Exclusive
<1> QED  BY <1>5, <1>6, <1>7 DEF Leased, n

\* A step keeps the leases when what it makes of the maps does.
LEMMA LeaseStep ==
    ASSUME IInv, IInv', LeaseInv, Leased(mem', last', expired'),
           disk' = mem' \/ disk' = disk, expired \subseteq expired',
           last.override <= last'.override
    PROVE  LeaseInv'
<1>1. /\ disk \in ServiceStates /\ last \in LastType /\ last' \in LastType
  BY DEF IInv, Sound
<1>2. Leased(disk, last', expired')
  BY <1>1, LeasedLater DEF LeaseInv
<1> QED  BY <1>2 DEF LeaseInv

\* A step that leaves the overrides alone and pauses no task.
LEMMA UnleasedStep ==
    ASSUME IInv, IInv', LeaseInv, Untouched(mem', mem),
           \A t \in TaskId : mem'.status[t] = "HUMAN_OVERRIDE" =>
             mem.status[t] = "HUMAN_OVERRIDE",
           disk' = mem' \/ disk' = disk, expired' = expired,
           last.override <= last'.override
    PROVE  LeaseInv'
<1>1. /\ mem \in ServiceStates /\ last \in LastType /\ last' \in LastType
  BY DEF IInv, Sound
<1>2. Leased(mem, last', expired)
  BY <1>1, LeasedLater DEF LeaseInv
<1>3. Leased(mem', last', expired)
  BY <1>2, LeasedUntouched DEF Untouched
<1> QED  BY <1>3, LeaseStep

\* The handlers that plan leave the overrides alone; new tasks are not paused.
LEMMA PlanningLeases ==
    ASSUME IInv, IInv', LeaseInv,
           \/ AddRequirement \/ GeneratePlan \/ GenerateContract \/ DispatchTasks
           \/ \E c \in 1..Len(mem.contracts) : ValidateContract(c)
           \/ \E t \in TaskId : RetryTask(t)
    PROVE  LeaseInv'
<1>1. /\ mem \in ServiceStates /\ last \in LastType /\ last.task \in 0..MaxTasks
      /\ last.override \in Nat /\ MaxTasks \in Nat
  BY BoundsAssumption DEF IInv, Sound, LastType
<1>2. ASSUME NEW n, Persist(n), SameWork(n, mem), Untouched(n, mem),
             UNCHANGED <<agent, last, expired>>
      PROVE  LeaseInv'
  <2>1. mem' = n /\ (disk' = mem' \/ disk' = disk)  BY <1>2, PersistStep
  <2> QED  BY <1>1, <1>2, <2>1, UnleasedStep DEF SameWork
<1>3. ASSUME NEW n, NEW T, NEW k, Persist(n), AddedTasks(n, mem, T),
             Untouched(n, mem), last' = [last EXCEPT !.task = k],
             UNCHANGED <<agent, expired>>
      PROVE  LeaseInv'
  <2>1. mem' = n /\ (disk' = mem' \/ disk' = disk)  BY <1>3, PersistStep
  <2>2. \A t \in TaskId : n.status[t] = "HUMAN_OVERRIDE" =>
          mem.status[t] = "HUMAN_OVERRIDE"
    BY <1>3 DEF AddedTasks
  <2>3. last'.override = last.override  BY <1>1, <1>3 DEF LastType
  <2> QED  BY <1>1, <1>3, <2>1, <2>2, <2>3, UnleasedStep
<1>4. CASE AddRequirement
  BY <1>1, <1>2, <1>4, AddRequirementFields, PlanningUntouched DEF AddRequirement
<1>5. CASE GenerateContract
  BY <1>1, <1>2, <1>5, GenerateContractFields, PlanningUntouched
     DEF GenerateContract
<1>6. CASE GeneratePlan
  <2>1. last.task + 1 \in TaskId  BY <1>1, <1>6 DEF GeneratePlan, TaskId
  <2> QED
    BY <1>1, <1>3, <1>6, <2>1, GeneratePlanFields, NewTaskUntouched
       DEF GeneratePlan
<1>7. ASSUME NEW c \in 1..Len(mem.contracts), ValidateContract(c)
      PROVE  LeaseInv'
  <2>1. last.task + 1 \in TaskId  BY <1>1, <1>7 DEF ValidateContract, TaskId
  <2> QED
    BY <1>1, <1>3, <1>7, <2>1, RemediationFields, NewTaskUntouched
       DEF ValidateContract
<1>8. ASSUME NEW t \in TaskId, RetryTask(t)
      PROVE  LeaseInv'
  <2>1. last.task + 1 \in TaskId  BY <1>1, <1>8 DEF RetryTask, TaskId
  <2> QED
    BY <1>1, <1>3, <1>8, <2>1, RetryTaskFields, NewTaskUntouched DEF RetryTask
<1>9. CASE DispatchTasks
  <2> DEFINE n == DispatchTasksEffect(mem, last.task + 1, last.task + 2,
                                      last.task + 3)
  <2>1. /\ last.task + 3 <= MaxTasks /\ last' = [last EXCEPT !.task = last.task + 3]
        /\ Persist(n) /\ UNCHANGED <<agent, expired>>
    BY <1>9 DEF DispatchTasks
  <2>2. /\ last.task + 1 \in TaskId /\ last.task + 2 \in TaskId
        /\ last.task + 3 \in TaskId
    BY <1>1, <2>1 DEF TaskId
  <2>3. AddedTasks(n, mem, {last.task + 1, last.task + 2, last.task + 3})
    BY <1>1, <2>2, DispatchTasksFields
  <2>4. Untouched(n, mem)  BY <1>1, PlanningUntouched
  <2> HIDE DEF n
  <2> QED  BY <1>3, <2>1, <2>3, <2>4
<1> QED  BY <1>4, <1>5, <1>6, <1>7, <1>8, <1>9

\* The operator's handlers and the clock.
LEMMA OperatorLeases ==
    ASSUME IInv, IInv', LeaseInv,
           \/ \E t \in TaskId : MarkTaskSandboxFailure(t)
           \/ \E t \in TaskId, owner \in Owners, scope \in Scopes :
                ApplyHumanOverride(t, owner, scope)
           \/ \E c \in 1..Len(mem.conflicts) : ResolveConflictQueueEntry(c)
           \/ \E o \in OverrideId : ExpireLease(o)
    PROVE  LeaseInv'
<1>1. /\ mem \in ServiceStates /\ last \in LastType /\ last' \in LastType
      /\ last.override \in Nat
  BY DEF IInv, Sound, LastType
<1>2. ASSUME NEW n, Persist(n), SameWork(n, mem), Untouched(n, mem),
             UNCHANGED <<agent, last, expired>>
      PROVE  LeaseInv'
  <2>1. mem' = n /\ (disk' = mem' \/ disk' = disk)  BY <1>2, PersistStep
  <2> QED  BY <1>1, <1>2, <2>1, UnleasedStep DEF SameWork
<1>3. ASSUME NEW t \in TaskId, MarkTaskSandboxFailure(t)
      PROVE  LeaseInv'
  <2>1. mem.faults \cup {t} \in SUBSET TaskId  BY <1>1, FieldTypes
  <2> DEFINE n == [mem EXCEPT !.faults = mem.faults \cup {t}]
  <2>2. SameWork(n, mem) /\ Untouched(n, mem)
    BY <1>1, <2>1, FaultFields, PlanningUntouched
  <2>3. Persist(n) /\ UNCHANGED <<agent, last, expired>>
    BY <1>3 DEF MarkTaskSandboxFailure
  <2> HIDE DEF n
  <2> QED  BY <1>2, <2>2, <2>3
<1>4. ASSUME NEW c \in 1..Len(mem.conflicts), ResolveConflictQueueEntry(c)
      PROVE  LeaseInv'
  BY <1>1, <1>2, <1>4, ResolveConflictFields, PlanningUntouched
     DEF ResolveConflictQueueEntry
<1>5. ASSUME NEW o \in OverrideId, ExpireLease(o)
      PROVE  LeaseInv'
  <2>1. /\ mem' = mem /\ disk' = disk /\ last' = last /\ expired \subseteq expired'
    BY <1>5 DEF ExpireLease
  <2>2. last.override <= last.override  BY <1>1
  <2>3. Leased(mem', last', expired')
    BY <1>1, <2>1, <2>2, LeasedLater DEF LeaseInv
  <2> QED  BY <2>1, <2>2, <2>3, LeaseStep
<1>6. ASSUME NEW t \in TaskId, NEW owner \in Owners, NEW scope \in Scopes,
             ApplyHumanOverride(t, owner, scope)
      PROVE  LeaseInv'
  <2>1. CASE Persist(EnqueueConflictEffect(mem)) /\ UNCHANGED last
    BY <1>1, <1>2, <1>6, <2>1, EnqueueConflictFields, PlanningUntouched
       DEF ApplyHumanOverride
  <2>2. CASE /\ ~LeaseConflict(mem, t, owner, scope, expired)
             /\ last.override < MaxOverrides
             /\ last' = [last EXCEPT !.override = @ + 1]
             /\ Persist(QueueOverrideEffect(mem, last.override + 1, t, owner,
                                            scope))
    <3> DEFINE o == last.override + 1
               n == QueueOverrideEffect(mem, o, t, owner, scope)
    <3>1. last'.override = o  BY <1>1, <2>2 DEF LastType
    <3>2. mem' = n /\ (disk' = mem' \/ disk' = disk)  BY <2>2, PersistStep
    <3>3. Leased(n, last', expired)
      BY <1>1, <2>2, <3>1, LeasedQueue DEF LeaseInv
    <3>4. last.override <= last'.override  BY <1>1, <3>1
    <3>5. expired' = expired  BY <1>6 DEF ApplyHumanOverride
    <3> HIDE DEF n, o
    <3> QED  BY <3>2, <3>3, <3>4, <3>5, LeaseStep
  <2> QED  BY <1>6, <2>1, <2>2 DEF ApplyHumanOverride
<1> QED  BY <1>3, <1>4, <1>5, <1>6

\* Starting runs.
LEMMA StartLeases ==
    ASSUME IInv, IInv', LeaseInv,
           \/ \E t \in TaskId : StartRun(t) \/ StartRunRefused(t)
           \/ \E sel \in SUBSET ReadyTasks : StartParallelRun(sel)
           \/ \E t \in ReadyTasks : \E sel \in SUBSET (ReadyTasks \ {t}) :
                StartParallelRunFails(sel, t)
    PROVE  LeaseInv'
<1>1. mem \in ServiceStates /\ last \in LastType /\ last.override \in Nat
  BY DEF IInv, Sound, LastType
<1>2. ASSUME NEW sel, NEW rid, NEW top, NewRuns(mem, last, sel, rid, top)
      PROVE  LET n == StartTaskRunsEffect(mem, rid)
             IN  /\ n \in ServiceStates /\ Untouched(n, mem)
                 /\ \A t \in TaskId : n.status[t] = "HUMAN_OVERRIDE" =>
                      mem.status[t] = "HUMAN_OVERRIDE"
  <2>1. sel \in SUBSET TaskId /\ rid \in [sel -> RunId]  BY <1>2 DEF NewRuns
  <2>2. StartedRuns(StartTaskRunsEffect(mem, rid), mem, sel, rid)
    BY <1>1, <2>1, StartTaskRunsFields
  <2> QED  BY <1>1, <2>2, RunsUntouched DEF StartedRuns
<1>3. ASSUME NEW sel, NEW rid, NEW top, NewRuns(mem, last, sel, rid, top),
             LaunchRuns(rid, top)
      PROVE  LeaseInv'
  <2> DEFINE n == StartTaskRunsEffect(mem, rid)
  <2>1. /\ Untouched(n, mem)
        /\ \A t \in TaskId : n.status[t] = "HUMAN_OVERRIDE" =>
             mem.status[t] = "HUMAN_OVERRIDE"
    BY <1>2, <1>3
  <2>2. mem' = n /\ (disk' = mem' \/ disk' = disk) /\ expired' = expired
        /\ last' = [last EXCEPT !.run = top]
    BY <1>3 DEF LaunchRuns, PersistOK, PersistFails
  <2>3. last'.override = last.override  BY <1>1, <2>2 DEF LastType
  <2> HIDE DEF n
  <2> QED  BY <1>1, <2>1, <2>2, <2>3, UnleasedStep
<1>4. ASSUME NEW t \in TaskId, StartRun(t)
      PROVE  LeaseInv'
  <2>1. NewRuns(mem, last, {t}, [u \in {t} |-> last.run + 1], last.run + 1)
    BY <1>4, OneNewRun DEF StartRun, IInv
  <2> QED  BY <1>3, <1>4, <2>1 DEF StartRun
<1>5. ASSUME NEW sel \in SUBSET ReadyTasks, StartParallelRun(sel)
      PROVE  LeaseInv'
  <2>1. PICK top \in RunId, rid \in [sel -> RunId] :
          Allocates(rid, sel, top) /\ LaunchRuns(rid, top)
    BY <1>5 DEF StartParallelRun
  <2>2. NewRuns(mem, last, sel, rid, top)  BY <2>1, ManyNewRuns DEF IInv
  <2> QED  BY <1>3, <2>1, <2>2
<1>6. ASSUME NEW s \in ServiceStates, NEW t \in TaskId
      PROVE  LET n == SandboxCreateFailedEffect(s, t)
             IN  /\ Untouched(n, s)
                 /\ \A u \in TaskId : n.status[u] = "HUMAN_OVERRIDE" =>
                      s.status[u] = "HUMAN_OVERRIDE"
  <2>1. SandboxCreateFailedEffect(s, t).status = [s.status EXCEPT ![t] = "FAILED"]
    BY SandboxCreateFailedFields
  <2>2. s.status \in [TaskId -> TaskStatus \cup {"ABSENT"}]  BY FieldTypes
  <2> QED  BY <2>1, <2>2, RunsUntouched
<1>7. ASSUME NEW t \in TaskId, StartRunRefused(t)
      PROVE  LeaseInv'
  <2>1. expired' = expired /\ last' = last  BY <1>7 DEF StartRunRefused
  <2>2. CASE Persist(mem)
    <3>1. Untouched(mem, mem)  BY DEF Untouched, SameOverrides, SameTimeline
    <3>2. mem' = mem /\ (disk' = mem' \/ disk' = disk)  BY <2>2, PersistStep
    <3> QED  BY <1>1, <2>1, <3>1, <3>2, UnleasedStep
  <2>3. CASE Persist(SandboxCreateFailedEffect(mem, t))
    <3> DEFINE n == SandboxCreateFailedEffect(mem, t)
    <3>1. /\ Untouched(n, mem)
          /\ \A u \in TaskId : n.status[u] = "HUMAN_OVERRIDE" =>
               mem.status[u] = "HUMAN_OVERRIDE"
      BY <1>1, <1>6
    <3>2. mem' = n /\ (disk' = mem' \/ disk' = disk)  BY <2>3, PersistStep
    <3> HIDE DEF n
    <3> QED  BY <1>1, <2>1, <3>1, <3>2, UnleasedStep
  <2> QED  BY <1>7, <2>2, <2>3 DEF StartRunRefused
<1>8. ASSUME NEW t \in ReadyTasks, NEW sel \in SUBSET (ReadyTasks \ {t}),
             StartParallelRunFails(sel, t)
      PROVE  LeaseInv'
  <2>1. PICK top \in {last.run} \cup RunId, rid \in [sel -> RunId] :
          /\ Allocates(rid, sel, top)
          /\ last' = [last EXCEPT !.run = top]
          /\ mem' = SandboxCreateFailedEffect(StartTaskRunsEffect(mem, rid), t)
    BY <1>8 DEF StartParallelRunFails
  <2> DEFINE p == StartTaskRunsEffect(mem, rid)
             n == SandboxCreateFailedEffect(p, t)
  <2>2. NewRuns(mem, last, sel, rid, top)  BY <2>1, ManyNewRuns DEF IInv
  <2>3. /\ p \in ServiceStates /\ Untouched(p, mem)
        /\ \A u \in TaskId : p.status[u] = "HUMAN_OVERRIDE" =>
             mem.status[u] = "HUMAN_OVERRIDE"
    BY <1>2, <2>2
  <2>4. t \in TaskId  BY DEF ReadyTasks
  <2> HIDE DEF p
  <2>5. /\ Untouched(n, p)
        /\ \A u \in TaskId : n.status[u] = "HUMAN_OVERRIDE" =>
             p.status[u] = "HUMAN_OVERRIDE"
    BY <1>6, <2>3, <2>4
  <2>6. mem' = n /\ disk' = disk /\ expired' = expired
    BY <1>8, <2>1 DEF StartParallelRunFails, p
  <2>7. last'.override = last.override  BY <1>1, <2>1 DEF LastType
  <2> HIDE DEF n
  <2>8. Untouched(n, mem)
    BY <2>3, <2>5 DEF Untouched, SameOverrides, SameTimeline
  <2> QED  BY <1>1, <2>3, <2>5, <2>6, <2>7, <2>8, UnleasedStep
<1> QED  BY <1>4, <1>5, <1>7, <1>8

\* The goroutines: only the checkpoint uses an override.
LEMMA AgentLeases ==
    ASSUME IInv, IInv', LeaseInv, NEW r \in RunId, AgentStep(r)
    PROVE  LeaseInv'
<1>1. mem \in ServiceStates /\ last \in LastType /\ last.override \in Nat
  BY DEF IInv, Sound, LastType
<1>2. last' = last /\ expired' = expired
  BY DEF AgentStep, Prepare, CheckFault, Checkpoint, Work, CompleteRun, FailRun
<1>3. Untouched(mem, mem)  BY DEF Untouched, SameOverrides, SameTimeline
<1>4. CASE mem' = mem /\ disk' = disk  BY <1>1, <1>2, <1>3, <1>4, UnleasedStep
<1>5. CASE CheckFault(r)
  <2>1. CASE /\ mem' = [mem EXCEPT !.faults = @ \ {agent[r].task}]
             /\ disk' = disk
    <3>1. mem.faults \ {agent[r].task} \in SUBSET TaskId  BY <1>1, FieldTypes
    <3>2. SameWork(mem', mem) /\ Untouched(mem', mem)
      BY <1>1, <2>1, <3>1, FaultFields, PlanningUntouched
    <3> QED  BY <1>1, <1>2, <2>1, <3>2, UnleasedStep DEF SameWork
  <2> QED  BY <1>4, <1>5, <2>1 DEF CheckFault
<1>6. CASE Checkpoint(r)
  <2>1. ASSUME NEW o \in ActiveOverrides(mem, mem.runTask[r], expired),
               \/ PersistOK(ApplyOverrideEffect(mem, o))
               \/ PersistFails(ApplyOverrideEffect(mem, o))
        PROVE  LeaseInv'
    <3> DEFINE n == ApplyOverrideEffect(mem, o)
    <3>1. /\ o \in OverrideId /\ mem.override[o] = "PENDING"
          /\ mem.ovTask[o] = mem.runTask[r]
      BY DEF ActiveOverrides
    <3>2. mem' = n /\ (disk' = mem' \/ disk' = disk)
      BY <2>1 DEF PersistOK, PersistFails
    <3>3. Live(r)  BY <1>6 DEF Checkpoint, Live, LivePhase, Phase
    <3>4. mem.runTask[r] \in TaskId  BY <3>3, LiveAgentFinds
    <3>5. Leased(n, last, expired)
      BY <1>1, <3>1, <3>4, LeasedApply DEF LeaseInv
    <3> HIDE DEF n
    <3> QED  BY <1>1, <1>2, <3>2, <3>5, LeaseStep
  <2> QED  BY <1>4, <1>6, <2>1 DEF Checkpoint
<1>7. ASSUME NEW n, NEW t, NEW won, Settled(n, mem, r, t, won), Untouched(n, mem),
             Persist(n)
      PROVE  LeaseInv'
  <2>1. mem' = n /\ (disk' = mem' \/ disk' = disk)  BY <1>7, PersistStep
  <2>2. \A u \in TaskId : n.status[u] = "HUMAN_OVERRIDE" =>
          mem.status[u] = "HUMAN_OVERRIDE"
    BY <1>7 DEF Settled
  <2> QED  BY <1>1, <1>2, <1>7, <2>1, <2>2, UnleasedStep
<1>8. CASE CompleteRun(r)
  <2>1. Live(r) /\ agent[r].phase # "spawned"
    BY <1>8 DEF CompleteRun, Live, LivePhase, Phase
  <2>2. /\ RunExists(mem, r) /\ agent[r].task \in TaskId
        /\ Worked(mem, agent[r].task)
    BY <2>1, LiveAgentFinds
  <2>3. Persist(CompleteRunEffect(mem, r, agent[r].task))
    BY <1>8, <2>2 DEF CompleteRun, TaskExists, Worked
  <2> QED  BY <1>1, <1>7, <2>2, <2>3, CompleteRunFields, RunsUntouched
<1>9. CASE FailRun(r)
  <2>1. Live(r)  BY <1>9 DEF FailRun, Live, LivePhase, Phase
  <2>2. /\ RunExists(mem, r) /\ mem.runTask[r] \in TaskId
        /\ Worked(mem, mem.runTask[r]) /\ ~mem.artifact[r]
    BY <2>1, LiveAgentFinds
  <2>3. Persist(FailRunEffect(mem, r))  BY <1>9, <2>2 DEF FailRun
  <2> QED  BY <1>1, <1>7, <2>2, <2>3, FailRunFields, RunsUntouched
<1>10. CASE Prepare(r) \/ Work(r)  BY <1>4, <1>10 DEF Prepare, Work
<1> QED  BY <1>5, <1>6, <1>8, <1>9, <1>10 DEF AgentStep

\* The leases hold in every state of every behaviour.
LEMMA LeaseInvariance == Spec => []LeaseInv
<1>1. Init => LeaseInv
  <2> SUFFICES ASSUME Init PROVE LeaseInv  OBVIOUS
  <2>1. /\ \A t \in TaskId : EmptyState.status[t] = "ABSENT"
        /\ \A o \in OverrideId : EmptyState.override[o] = "ABSENT"
    BY ZenonT(30) DEF EmptyState
  <2>2. Leased(EmptyState, last, expired)
    BY <2>1 DEF Leased, Paused, NewOverrides, Exclusive, ActiveOverrides
  <2> QED  BY <2>2 DEF Init, LeaseInv
<1>2. IInv /\ IInv' /\ LeaseInv /\ [Next]_vars => LeaseInv'
  <2> SUFFICES ASSUME IInv, IInv', LeaseInv, [Next]_vars PROVE LeaseInv'
    OBVIOUS
  <2>1. CASE UNCHANGED vars  BY <2>1 DEF vars, LeaseInv
  <2>2. CASE Handler
    BY <2>2, PlanningLeases, OperatorLeases, StartLeases DEF Handler
  <2>3. CASE \E o \in OverrideId : ExpireLease(o)  BY <2>3, OperatorLeases
  <2>4. CASE \E r \in RunId : AgentStep(r)  BY <2>4, AgentLeases
  <2>5. CASE Restart
    <3>1. mem' = disk /\ disk' = disk /\ last' = last /\ expired' = expired
      BY <2>5 DEF Restart
    <3> QED  BY <3>1 DEF LeaseInv
  <2> QED  BY <2>1, <2>2, <2>3, <2>4, <2>5 DEF Next
<1> QED  BY <1>1, <1>2, Invariance, PTL DEF Spec

\* A task that waits in HUMAN_OVERRIDE has an instruction that the checkpoint
\* of its run can find, in memory and in the file.
THEOREM PausedTasksHaveRequests == Spec => []PausedHasRequest
<1>1. LeaseInv => PausedHasRequest  BY DEF LeaseInv, Leased, PausedHasRequest
<1> QED  BY <1>1, LeaseInvariance, PTL

\* findActiveOverrideConflictLocked grants one owner per scope of a task, also
\* after leases have run out and after a restart from an older file.
THEOREM LeasesExclusive == Spec => []OverrideLeaseExclusive
<1>1. LeaseInv => OverrideLeaseExclusive
  BY DEF LeaseInv, Leased, Exclusive, OverrideLeaseExclusive
<1> QED  BY <1>1, LeaseInvariance, PTL

-----------------------------------------------------------------------------
(***************************************************************************)
(* The healthy service: the file store, where no save and no sandbox fails *)
(* and the process is up.                                                  *)
(***************************************************************************)
Healthy == Store = "file" /\ ~SaveCanFail /\ ~SandboxCanFail /\ ~CanCrash

\* sandboxFailureForTask replaces one field: the record is otherwise the same.
LEMMA FaultsReplaced ==
    ASSUME NEW s \in ServiceStates
    PROVE  /\ s = [s EXCEPT !.faults = s.faults]
           /\ \A F : [s EXCEPT !.faults = F].faults = F
           /\ \A F, G : [[s EXCEPT !.faults = F] EXCEPT !.faults = G]
                          = [s EXCEPT !.faults = G]
<1>1. s = [s EXCEPT !.faults = s.faults]  BY ZenonT(60) DEF ServiceStates
<1>2. ASSUME NEW F PROVE [s EXCEPT !.faults = F].faults = F
  BY ZenonT(60) DEF ServiceStates
<1>3. ASSUME NEW F, NEW G
      PROVE  [[s EXCEPT !.faults = F] EXCEPT !.faults = G]
                = [s EXCEPT !.faults = G]
  BY ZenonT(60) DEF ServiceStates
<1> QED  BY <1>1, <1>2, <1>3, Zenon

\* A save that cannot fail makes the file what the maps are.
LEMMA HealthySave ==
    ASSUME Healthy, IInv', NEW n, Persist(n)
    PROVE  mem' = n /\ disk' = n /\ StoreIsCurrent'
<1>1. mem' = n /\ disk' = n  BY DEF Healthy, Persist, PersistOK, PersistFails
<1>2. mem' \in ServiceStates  BY DEF IInv, Sound
<1>3. mem' = [mem' EXCEPT !.faults = mem'.faults]  BY <1>2, FaultsReplaced
<1> QED  BY <1>1, <1>3 DEF StoreIsCurrent

\* A handler that starts no run: the goroutines of the runs are still there.
LEMMA HealthyQuiet ==
    ASSUME Healthy, IInv', MemoryIsBacked, NEW n, Persist(n), n.run = mem.run,
           agent' = agent
    PROVE  MemoryIsBacked'
<1>1. mem' = n /\ StoreIsCurrent'  BY HealthySave
<1>2. EveryRunHasAgent'  BY <1>1 DEF MemoryIsBacked, EveryRunHasAgent, Live
<1> QED  BY <1>1, <1>2 DEF MemoryIsBacked

\* The handlers that start no run.
LEMMA HandlerBacked ==
    ASSUME Healthy, IInv, IInv', MemoryIsBacked,
           \/ AddRequirement \/ GeneratePlan \/ GenerateContract \/ DispatchTasks
           \/ \E c \in 1..Len(mem.contracts) : ValidateContract(c)
           \/ \E t \in TaskId : \/ RetryTask(t) \/ StartRunRefused(t)
                                \/ MarkTaskSandboxFailure(t)
           \/ \E t \in TaskId, owner \in Owners, scope \in Scopes :
                ApplyHumanOverride(t, owner, scope)
           \/ \E c \in 1..Len(mem.conflicts) : ResolveConflictQueueEntry(c)
    PROVE  MemoryIsBacked'
<1>1. /\ mem \in ServiceStates /\ last.task \in 0..MaxTasks
      /\ last.override \in 0..MaxOverrides /\ MaxTasks \in Nat
      /\ MaxOverrides \in Nat
  BY BoundsAssumption DEF IInv, Sound, LastType
<1>2. ASSUME last.task < MaxTasks PROVE last.task + 1 \in TaskId
  BY <1>1, <1>2 DEF TaskId
<1>3. CASE AddRequirement
  BY <1>1, <1>3, AddRequirementFields, HealthyQuiet DEF AddRequirement, SameWork
<1>4. CASE GenerateContract
  BY <1>1, <1>4, GenerateContractFields, HealthyQuiet
     DEF GenerateContract, SameWork
<1>5. CASE GeneratePlan
  BY <1>1, <1>2, <1>5, GeneratePlanFields, HealthyQuiet
     DEF GeneratePlan, AddedTasks
<1>6. ASSUME NEW c \in 1..Len(mem.contracts), ValidateContract(c)
      PROVE  MemoryIsBacked'
  BY <1>1, <1>2, <1>6, RemediationFields, HealthyQuiet
     DEF ValidateContract, AddedTasks
<1>7. ASSUME NEW t \in TaskId, RetryTask(t)
      PROVE  MemoryIsBacked'
  BY <1>1, <1>2, <1>7, RetryTaskFields, HealthyQuiet DEF RetryTask, AddedTasks
<1>8. CASE DispatchTasks
  <2> DEFINE n == DispatchTasksEffect(mem, last.task + 1, last.task + 2,
                                      last.task + 3)
  <2>1. last.task + 3 <= MaxTasks /\ Persist(n) /\ agent' = agent
    BY <1>8 DEF DispatchTasks
  <2>2. /\ last.task + 1 \in TaskId /\ last.task + 2 \in TaskId
        /\ last.task + 3 \in TaskId
    BY <1>1, <2>1 DEF TaskId
  <2>3. AddedTasks(n, mem, {last.task + 1, last.task + 2, last.task + 3})
    BY <1>1, <2>2, DispatchTasksFields
  <2> HIDE DEF n
  <2> QED  BY <2>1, <2>3, HealthyQuiet DEF AddedTasks
<1>9. ASSUME NEW t \in TaskId, StartRunRefused(t)
      PROVE  MemoryIsBacked'
  BY <1>9, HealthyQuiet DEF StartRunRefused, Healthy
<1>10. ASSUME NEW t \in TaskId, MarkTaskSandboxFailure(t)
       PROVE  MemoryIsBacked'
  <2> DEFINE n == [mem EXCEPT !.faults = mem.faults \cup {t}]
  <2>1. mem.faults \cup {t} \in SUBSET TaskId  BY <1>1, FieldTypes
  <2>2. SameWork(n, mem)  BY <1>1, <2>1, FaultFields
  <2>3. Persist(n) /\ agent' = agent  BY <1>10 DEF MarkTaskSandboxFailure
  <2> HIDE DEF n
  <2> QED  BY <2>2, <2>3, HealthyQuiet DEF SameWork
<1>11. ASSUME NEW c \in 1..Len(mem.conflicts), ResolveConflictQueueEntry(c)
       PROVE  MemoryIsBacked'
  BY <1>1, <1>11, ResolveConflictFields, HealthyQuiet
     DEF ResolveConflictQueueEntry, SameWork
<1>12. ASSUME NEW t \in TaskId, NEW owner \in Owners, NEW scope \in Scopes,
              ApplyHumanOverride(t, owner, scope)
       PROVE  MemoryIsBacked'
  <2>1. agent' = agent  BY <1>12 DEF ApplyHumanOverride
  <2>2. CASE Persist(EnqueueConflictEffect(mem))
    BY <1>1, <2>1, <2>2, EnqueueConflictFields, HealthyQuiet DEF SameWork
  <2>3. CASE /\ last.override < MaxOverrides
             /\ Persist(QueueOverrideEffect(mem, last.override + 1, t, owner,
                                            scope))
    <3>1. QueueOverrideEffect(mem, last.override + 1, t, owner, scope).run = mem.run
      BY <1>1, ZenonT(60) DEF QueueOverrideEffect, ServiceStates
    <3> QED  BY <2>1, <2>3, <3>1, HealthyQuiet
  <2> QED  BY <1>12, <2>2, <2>3 DEF ApplyHumanOverride
<1> QED
  BY <1>3, <1>4, <1>5, <1>6, <1>7, <1>8, <1>9, <1>10, <1>11, <1>12

\* The runs of a request are saved and every one gets its goroutine.
LEMMA LaunchBacked ==
    ASSUME Healthy, IInv, IInv', MemoryIsBacked, NEW sel, NEW rid, NEW top,
           NewRuns(mem, last, sel, rid, top), LaunchRuns(rid, top)
    PROVE  MemoryIsBacked'
<1> DEFINE n == StartTaskRunsEffect(mem, rid)
<1>1. PersistOK(n) /\ Spawn(rid)  BY DEF LaunchRuns, PersistFails, Healthy
<1>2. mem' = n /\ StoreIsCurrent'  BY <1>1, HealthySave DEF Persist
<1>3. /\ mem \in ServiceStates /\ sel \in SUBSET TaskId
      /\ rid \in [sel -> RunId] /\ DOMAIN rid = sel
  BY DEF IInv, Sound, NewRuns
<1>4. StartedRuns(n, mem, sel, rid)  BY <1>3, StartTaskRunsFields
<1> HIDE DEF n
<1>5. EveryRunHasAgent'
  <2> SUFFICES ASSUME NEW r \in RunId, mem'.run[r] = "RUNNING"
               PROVE  agent'[r].phase \in LivePhase
    BY DEF EveryRunHasAgent, Live
  <2>1. agent' = [q \in RunId |-> IF \E t \in sel : rid[t] = q
                                    THEN [phase |-> "spawned", task |-> NoId]
                                    ELSE agent[q]]
    BY <1>1, <1>3, Zenon DEF Spawn
  <2>2. CASE \E t \in sel : rid[t] = r
    <3>1. agent'[r].phase = "spawned"  BY <2>1, <2>2
    <3> QED  BY <3>1 DEF LivePhase, Phase
  <2>3. CASE ~\E t \in sel : rid[t] = r
    <3>1. agent'[r] = agent[r]  BY <2>1, <2>3
    <3>2. mem.run[r] = "RUNNING"  BY <1>2, <1>4, <2>3 DEF StartedRuns
    <3> QED  BY <3>1, <3>2 DEF MemoryIsBacked, EveryRunHasAgent, Live
  <2> QED  BY <2>2, <2>3
<1> QED  BY <1>2, <1>5 DEF MemoryIsBacked

\* A goroutine goes on, or ends with the run that it settles.
LEMMA AgentBacked ==
    ASSUME Healthy, IInv, IInv', MemoryIsBacked, NEW r \in RunId, AgentStep(r)
    PROVE  MemoryIsBacked'
<1>1. /\ mem \in ServiceStates /\ disk \in ServiceStates /\ agent \in AgentType
      /\ mem' \in ServiceStates
  BY DEF IInv, Sound
<1>2. ASSUME NEW ph, Goto(r, ph)
      PROVE  /\ \A q \in RunId \ {r} : agent'[q] = agent[q]
             /\ agent'[r].phase = ph
  BY <1>1, <1>2 DEF Goto, AgentType
<1>3. ASSUME NEW ph \in LivePhase, Goto(r, ph), mem'.run = mem.run
      PROVE  EveryRunHasAgent'
  BY <1>2, <1>3 DEF MemoryIsBacked, EveryRunHasAgent, Live
<1>4. /\ "failing" \in LivePhase /\ "cleared" \in LivePhase
      /\ "working" \in LivePhase /\ "finishing" \in LivePhase
      /\ "prepared" \in LivePhase
  BY DEF LivePhase, Phase
<1>5. CASE Prepare(r)
  <2>1. mem' = mem /\ disk' = disk  BY <1>5 DEF Prepare
  <2>2. agent'[r].phase \in LivePhase /\ \A q \in RunId \ {r} : agent'[q] = agent[q]
    BY <1>1, <1>4, <1>5 DEF Prepare, AgentType
  <2> QED
    BY <2>1, <2>2 DEF MemoryIsBacked, EveryRunHasAgent, StoreIsCurrent, Live
<1>6. CASE Work(r)
  <2>1. mem' = mem /\ disk' = disk  BY <1>6 DEF Work
  <2>2. EveryRunHasAgent'  BY <1>3, <1>4, <1>6, <2>1 DEF Work
  <2> QED  BY <2>1, <2>2 DEF MemoryIsBacked, StoreIsCurrent
<1>7. CASE CheckFault(r)
  <2>1. CASE mem' = mem /\ disk' = disk /\ Goto(r, "cleared")
    <3>1. EveryRunHasAgent'  BY <1>3, <1>4, <2>1
    <3> QED  BY <2>1, <3>1 DEF MemoryIsBacked, StoreIsCurrent
  <2>2. CASE /\ mem' = [mem EXCEPT !.faults = @ \ {agent[r].task}]
             /\ disk' = disk /\ Goto(r, "failing")
    <3> DEFINE F == mem.faults \ {agent[r].task}
    <3>1. F \in SUBSET TaskId /\ mem' = [mem EXCEPT !.faults = F]
      BY <1>1, <2>2, FieldTypes
    <3> HIDE DEF F
    <3>2. SameWork(mem', mem) /\ mem'.faults = F
      BY <1>1, <3>1, FaultFields, FaultsReplaced
    <3>3. EveryRunHasAgent'  BY <1>3, <1>4, <2>2, <3>2 DEF SameWork
    <3>4. mem = [disk EXCEPT !.faults = mem.faults]
          /\ mem.faults \subseteq disk.faults
      BY DEF MemoryIsBacked, StoreIsCurrent
    <3>5. [mem EXCEPT !.faults = F]
            = [[disk EXCEPT !.faults = mem.faults] EXCEPT !.faults = F]
      BY <3>4, Zenon
    <3>6. mem' = [disk EXCEPT !.faults = F]
      BY <1>1, <3>1, <3>5, FaultsReplaced, Zenon
    <3>7. F \subseteq disk.faults  BY <3>4 DEF F
    <3>8. StoreIsCurrent'
      BY <2>2, <3>2, <3>6, <3>7, Zenon DEF StoreIsCurrent
    <3> QED  BY <3>3, <3>8 DEF MemoryIsBacked
  <2> QED  BY <1>7, <2>1, <2>2 DEF CheckFault
<1>8. CASE Checkpoint(r)
  <2>1. Live(r)  BY <1>8 DEF Checkpoint, Live, LivePhase, Phase
  <2>2. RunExists(mem, r) /\ mem.runTask[r] \in TaskId  BY <2>1, LiveAgentFinds
  <2>3. CASE Goto(r, "working") /\ UNCHANGED <<mem, disk>>
    <3>1. EveryRunHasAgent'  BY <1>3, <1>4, <2>3
    <3> QED  BY <2>3, <3>1 DEF MemoryIsBacked, StoreIsCurrent
  <2>4. ASSUME NEW o \in ActiveOverrides(mem, mem.runTask[r], expired),
               PersistOK(ApplyOverrideEffect(mem, o)), Goto(r, "working")
        PROVE  MemoryIsBacked'
    <3>1. o \in OverrideId /\ mem.ovTask[o] \in TaskId
      BY <2>2 DEF ActiveOverrides
    <3>2. ApplyOverrideEffect(mem, o).run = mem.run
      BY <1>1, <3>1, ApplyOverrideFields
    <3>3. mem' = ApplyOverrideEffect(mem, o) /\ StoreIsCurrent'
      BY <2>4, HealthySave DEF Persist
    <3>4. EveryRunHasAgent'  BY <1>3, <1>4, <2>4, <3>2, <3>3
    <3> QED  BY <3>3, <3>4 DEF MemoryIsBacked
  <2> QED  BY <1>8, <2>2, <2>3, <2>4 DEF Checkpoint, PersistFails, Healthy
<1>9. ASSUME NEW n, NEW t, NEW won, Settled(n, mem, r, t, won), Persist(n),
             Goto(r, "exited")
      PROVE  MemoryIsBacked'
  <2>1. mem' = n /\ StoreIsCurrent'  BY <1>9, HealthySave
  <2>2. EveryRunHasAgent'
    BY <1>2, <1>9, <2>1
       DEF Settled, MemoryIsBacked, EveryRunHasAgent, Live
  <2> QED  BY <2>1, <2>2 DEF MemoryIsBacked
<1>10. CASE CompleteRun(r)
  <2>1. Live(r) /\ agent[r].phase # "spawned"
    BY <1>10 DEF CompleteRun, Live, LivePhase, Phase
  <2>2. /\ RunExists(mem, r) /\ agent[r].task \in TaskId
        /\ Worked(mem, agent[r].task)
    BY <2>1, LiveAgentFinds
  <2>3. /\ Persist(CompleteRunEffect(mem, r, agent[r].task))
        /\ Goto(r, "exited")
    BY <1>10, <2>2 DEF CompleteRun, TaskExists, Worked
  <2> QED  BY <1>1, <1>9, <2>2, <2>3, CompleteRunFields
<1>11. CASE FailRun(r)
  <2>1. Live(r)  BY <1>11 DEF FailRun, Live, LivePhase, Phase
  <2>2. /\ RunExists(mem, r) /\ mem.runTask[r] \in TaskId
        /\ Worked(mem, mem.runTask[r]) /\ ~mem.artifact[r]
    BY <2>1, LiveAgentFinds
  <2>3. Persist(FailRunEffect(mem, r)) /\ Goto(r, "exited")
    BY <1>11, <2>2 DEF FailRun
  <2> QED  BY <1>1, <1>9, <2>2, <2>3, FailRunFields
<1> QED  BY <1>5, <1>6, <1>7, <1>8, <1>10, <1>11 DEF AgentStep

\* As long as nothing fails, every run that is shown as running has its
\* goroutine, and the file lacks nothing but the news of a used-up fault.
THEOREM HealthyServiceBacked ==
    ASSUME Healthy
    PROVE  Spec => []MemoryIsBacked
<1>1. Init => MemoryIsBacked
  <2> SUFFICES ASSUME Init PROVE MemoryIsBacked  OBVIOUS
  <2>1. EmptyState \in ServiceStates  BY EmptyStateType
  <2>2. EmptyState = [EmptyState EXCEPT !.faults = EmptyState.faults]
    BY <2>1, FaultsReplaced
  <2>3. \A r \in RunId : EmptyState.run[r] = "ABSENT"
    BY ZenonT(30) DEF EmptyState
  <2>4. EveryRunHasAgent  BY <2>3 DEF Init, EveryRunHasAgent
  <2>5. StoreIsCurrent  BY <2>2 DEF Init, StoreIsCurrent
  <2> QED  BY <2>4, <2>5 DEF MemoryIsBacked
<1>2. IInv /\ IInv' /\ MemoryIsBacked /\ [Next]_vars => MemoryIsBacked'
  <2> SUFFICES ASSUME IInv, IInv', MemoryIsBacked, [Next]_vars
               PROVE  MemoryIsBacked'
    OBVIOUS
  <2>1. CASE UNCHANGED vars
    BY <2>1 DEF vars, MemoryIsBacked, EveryRunHasAgent, StoreIsCurrent, Live
  <2>2. ASSUME NEW t \in TaskId, StartRun(t)
        PROVE  MemoryIsBacked'
    <3>1. NewRuns(mem, last, {t}, [u \in {t} |-> last.run + 1], last.run + 1)
      BY <2>2, OneNewRun DEF StartRun, IInv
    <3> QED  BY <2>2, <3>1, LaunchBacked DEF StartRun
  <2>3. ASSUME NEW sel \in SUBSET ReadyTasks, StartParallelRun(sel)
        PROVE  MemoryIsBacked'
    <3>1. PICK top \in RunId, rid \in [sel -> RunId] :
            Allocates(rid, sel, top) /\ LaunchRuns(rid, top)
      BY <2>3 DEF StartParallelRun
    <3>2. NewRuns(mem, last, sel, rid, top)  BY <3>1, ManyNewRuns DEF IInv
    <3> QED  BY <3>1, <3>2, LaunchBacked
  <2>4. CASE Handler
    BY <2>2, <2>3, <2>4, HandlerBacked
       DEF Handler, StartParallelRunFails, Healthy
  <2>5. ASSUME NEW o \in OverrideId, ExpireLease(o)
        PROVE  MemoryIsBacked'
    BY <2>5
       DEF ExpireLease, MemoryIsBacked, EveryRunHasAgent, StoreIsCurrent, Live
  <2>6. CASE \E r \in RunId : AgentStep(r)  BY <2>6, AgentBacked
  <2>7. ~Restart  BY DEF Restart, Healthy
  <2> QED  BY <2>1, <2>4, <2>5, <2>6, <2>7 DEF Next
<1> QED  BY <1>1, <1>2, Invariance, PTL DEF Spec

-----------------------------------------------------------------------------
(***************************************************************************)
(* The timeline: rollbacks under running goroutines keep tasks and runs in *)
(* agreement, no goroutine overwrites an outcome, every snapshot can be    *)
(* restored, and branches are handed out once.                             *)
(*                                                                         *)
(* The invariant of the run engine does not hold here: a rollback takes a  *)
(* run away from its goroutine, and the file may be ahead of the memory.   *)
(* What holds instead is said of all copies of the maps at once: those in  *)
(* memory, those in the file, and those that the snapshots of either keep. *)
(***************************************************************************)


\* The copies of the maps of tasks and runs.
States(s) == {s.snaps[i].state : i \in 1..Len(s.snaps)}
Copies == {mem, disk} \cup States(mem) \cup States(disk)

\* A copy that a rollback or a restart may bring back.
Restorable(c, l) == Fresh(c, l) /\ Agreement(c) /\ Ordering(c)

\* The copies that have a run agree on its task.
RunsKeepTask ==
    \A c, d \in Copies : \A r \in RunId :
        RunExists(c, r) /\ RunExists(d, r) => c.runTask[r] = d.runTask[r]

\* The phases in which a goroutine works with the task that it looked up.
OnTask == {"prepared", "cleared", "working", "finishing"}

\* No copy has an outcome for a run that a goroutine still executes, and where
\* it has the run it has the task of the goroutine.
AgentsUnsettled ==
    \A r \in RunId : Live(r) =>
        /\ r <= last.run
        /\ \A c \in Copies :
             /\ c.run[r] \in {"ABSENT", "RUNNING"}
             /\ agent[r].phase \in OnTask /\ RunExists(c, r) =>
                  c.runTask[r] = agent[r].task

\* The project is on the branch of its newest snapshot, and every branch was
\* handed out.
Branches(s) ==
    /\ s.branch <= s.branchSeq /\ s.stable <= Len(s.snaps)
    /\ s.snaps # <<>> => s.branch = s.snaps[Len(s.snaps)].branch
    /\ \A i \in 1..Len(s.snaps) :
         s.snaps[i].branch <= s.branchSeq /\ s.snaps[i].source < i
    /\ \A i, j \in 1..Len(s.snaps) :
         /\ i < j
         /\ \/ s.snaps[j].source # j - 1
            \/ s.snaps[j].branch # s.snaps[j - 1].branch
         => s.snaps[i].branch < s.snaps[j].branch

TInv ==
    /\ mem \in ServiceStates /\ disk \in ServiceStates
    /\ agent \in AgentType /\ last \in LastType /\ expired \subseteq OverrideId
    /\ \A c \in Copies : Restorable(c, last)
    /\ RunsKeepTask /\ AgentsUnsettled
    /\ Branches(mem) /\ Branches(disk)

-----------------------------------------------------------------------------
(***************************************************************************)
(* The effects of merges and rollbacks on the maps.                        *)
(***************************************************************************)

\* captureProjectSnapshotStateLocked copies the maps of tasks and runs.
LEMMA CaptureFields ==
    ASSUME NEW s \in ServiceStates
    PROVE  /\ CaptureProjectSnapshot(s) \in ProjectStates
           /\ SameWork(CaptureProjectSnapshot(s), s)
BY ZenonT(60) DEF CaptureProjectSnapshot, ProjectStates, ServiceStates, SameWork

\* A shared sandbox changes neither tasks and runs nor the timeline.
LEMMA AddSharedFields ==
    ASSUME NEW s \in ServiceStates, NEW status \in SandboxStatus
    PROVE  LET n == AddShared(s, status)
           IN  /\ n \in ServiceStates /\ SameWork(n, s) /\ SameTimeline(n, s)
               /\ n.contracts = s.contracts
<1>1. Append(s.shared, status) \in Seq(SandboxStatus)  BY DEF ServiceStates
<1> QED
  BY <1>1, ZenonT(60) DEF AddShared, ServiceStates, SameWork, SameTimeline

\* restoreProjectFromSnapshotLocked: the tasks and runs of the snapshot, and
\* the timeline as it is.
LEMMA RestoreFields ==
    ASSUME NEW s \in ServiceStates, NEW p \in ProjectStates
    PROVE  LET n == RestoreProjectFromSnapshot(s, p)
           IN  n \in ServiceStates /\ SameWork(n, p) /\ SameTimeline(n, s)
<1> DEFINE F == s.faults \ {t \in TaskId : TaskExists(s, t)}
<1>1. /\ EmptyState.override \in [OverrideId -> OverrideStatus \cup {"ABSENT"}]
      /\ EmptyState.ovTask \in [OverrideId -> TaskId \cup {NoId}]
      /\ EmptyState.ovOwner \in [OverrideId -> Owners \cup {NoOwner}]
      /\ EmptyState.ovScope \in [OverrideId -> Scopes \cup {NoScope}]
  BY EmptyStateType DEF ServiceStates
<1>2. F \in SUBSET TaskId  BY FieldTypes
<1>3. RestoreProjectFromSnapshot(s, p) =
        [s EXCEPT !.reqs = p.reqs, !.plans = p.plans, !.contracts = p.contracts,
                  !.status = p.status, !.task = p.task, !.run = p.run,
                  !.runTask = p.runTask, !.sandbox = p.sandbox,
                  !.artifact = p.artifact, !.shared = p.shared,
                  !.override = EmptyState.override, !.ovTask = EmptyState.ovTask,
                  !.ovOwner = EmptyState.ovOwner, !.ovScope = EmptyState.ovScope,
                  !.faults = F]
  BY Zenon DEF RestoreProjectFromSnapshot
<1> HIDE DEF F
<1>4. /\ p.reqs \in Nat /\ p.plans \in Seq(Nat) /\ p.contracts \in Seq(Nat)
      /\ p.status \in [TaskId -> TaskStatus \cup {"ABSENT"}]
      /\ p.task \in [TaskId -> TaskSpec]
      /\ p.run \in [RunId -> RunStatus \cup {"ABSENT"}]
      /\ p.runTask \in [RunId -> TaskId \cup {NoId}]
      /\ p.sandbox \in [RunId -> SandboxStatus \cup {"ABSENT"}]
      /\ p.artifact \in [RunId -> BOOLEAN]
      /\ p.shared \in Seq(SandboxStatus)
  BY DEF ProjectStates
<1> QED
  BY <1>1, <1>2, <1>3, <1>4, ZenonT(120)
     DEF ServiceStates, SameWork, SameTimeline

\* A counted branch number changes nothing else.
LEMMA CountFields ==
    ASSUME NEW s \in ServiceStates
    PROVE  LET n == [s EXCEPT !.branchSeq = @ + 1]
           IN  /\ n \in ServiceStates /\ SameWork(n, s) /\ n.snaps = s.snaps
               /\ n.branch = s.branch /\ n.stable = s.stable
               /\ n.branchSeq = s.branchSeq + 1
<1>1. s.branchSeq + 1 \in Nat  BY DEF ServiceStates
<1> QED  BY <1>1, ZenonT(60) DEF ServiceStates, SameWork

\* n is s with one more snapshot, which keeps the tasks and runs of n.
Recorded(n, s, branch, source) ==
    /\ n \in ServiceStates /\ SameWork(n, s)
    /\ n.branch = branch /\ n.branchSeq = s.branchSeq
    /\ n.stable \in {s.stable, Len(s.snaps) + 1}
    /\ Len(n.snaps) = Len(s.snaps) + 1
    /\ \A i \in 1..Len(s.snaps) : n.snaps[i] = s.snaps[i]
    /\ n.snaps[Len(s.snaps) + 1].branch = branch
    /\ n.snaps[Len(s.snaps) + 1].source = source
    /\ SameWork(n.snaps[Len(s.snaps) + 1].state, n)

\* recordSnapshotLocked.
LEMMA RecordSnapshotFields ==
    ASSUME NEW s \in ServiceStates, NEW branch \in Nat, NEW source \in Nat,
           NEW stable \in BOOLEAN, NEW ws \in {"none", "shared", "rollback"}
    PROVE  Recorded(RecordSnapshot(s, branch, source, stable, ws), s, branch,
                    source)
<1> DEFINE e == [branch |-> branch, source |-> source, stable |-> stable,
                 workspace |-> ws, state |-> CaptureProjectSnapshot(s)]
           sn == Append(s.snaps, e)
           st == IF stable THEN Len(s.snaps) + 1 ELSE s.stable
           n == RecordSnapshot(s, branch, source, stable, ws)
<1>1. CaptureProjectSnapshot(s) \in ProjectStates
      /\ SameWork(CaptureProjectSnapshot(s), s)
  BY CaptureFields
<1>2. e \in Snapshots /\ e.branch = branch /\ e.source = source
      /\ e.state = CaptureProjectSnapshot(s)
  BY <1>1 DEF Snapshots
<1> HIDE DEF e
<1>3. s.snaps \in Seq(Snapshots) /\ s.stable \in Nat  BY DEF ServiceStates
<1>4. /\ sn \in Seq(Snapshots) /\ Len(sn) = Len(s.snaps) + 1
      /\ sn[Len(s.snaps) + 1] = e
      /\ \A i \in 1..Len(s.snaps) : sn[i] = s.snaps[i]
  BY <1>2, <1>3
<1>5. st \in Nat /\ st \in {s.stable, Len(s.snaps) + 1}  BY <1>3
<1>6. n = [s EXCEPT !.snaps = sn, !.branch = branch, !.stable = st]
  BY Zenon DEF RecordSnapshot, e
<1> HIDE DEF sn, st, n
<1>7. /\ n \in ServiceStates /\ SameWork(n, s) /\ n.snaps = sn
      /\ n.branch = branch /\ n.stable = st /\ n.branchSeq = s.branchSeq
  BY <1>4, <1>5, <1>6, ZenonT(60) DEF ServiceStates, SameWork
<1>8. SameWork(e.state, n)  BY <1>1, <1>2, <1>7 DEF SameWork
<1> QED  BY <1>2, <1>4, <1>5, <1>7, <1>8 DEF Recorded, n

-----------------------------------------------------------------------------
(***************************************************************************)
(* Branches.                                                               *)
(***************************************************************************)

\* The fields of the timeline, and of its snapshots.
LEMMA TimelineTypes ==
    ASSUME NEW s \in ServiceStates
    PROVE  /\ s.snaps \in Seq(Snapshots) /\ Len(s.snaps) \in Nat
           /\ s.branch \in Nat /\ s.stable \in Nat /\ s.branchSeq \in Nat
           /\ \A i \in 1..Len(s.snaps) :
                /\ s.snaps[i].branch \in Nat /\ s.snaps[i].source \in Nat
                /\ s.snaps[i].stable \in BOOLEAN
                /\ s.snaps[i].workspace \in {"none", "shared", "rollback"}
                /\ s.snaps[i].state \in ProjectStates
<1>1. s.snaps \in Seq(Snapshots)  BY DEF ServiceStates
<1>2. \A i \in 1..Len(s.snaps) : s.snaps[i] \in Snapshots  BY <1>1
<1> QED  BY <1>1, <1>2 DEF ServiceStates, Snapshots

\* A number that is counted up, or a timeline that is left alone.
LEMMA BranchesCounted ==
    ASSUME NEW s \in ServiceStates, NEW n \in ServiceStates, Branches(s),
           n.snaps = s.snaps, n.branch = s.branch, n.stable = s.stable,
           s.branchSeq <= n.branchSeq
    PROVE  Branches(n)
<1>1. /\ s.branch \in Nat /\ s.branchSeq \in Nat /\ n.branchSeq \in Nat
      /\ \A i \in 1..Len(s.snaps) : s.snaps[i].branch \in Nat
  BY TimelineTypes
<1> QED  BY <1>1 DEF Branches

\* A snapshot is recorded, on the branch of the newest one that it follows or
\* on a branch that no snapshot is on.
LEMMA BranchesRecorded ==
    ASSUME NEW s \in ServiceStates, NEW n, NEW branch \in Nat, NEW source \in Nat,
           Branches(s), Recorded(n, s, branch, source),
           branch <= s.branchSeq, source <= Len(s.snaps),
           \/ source = Len(s.snaps) /\ branch = s.branch
           \/ \A i \in 1..Len(s.snaps) : s.snaps[i].branch < branch
    PROVE  Branches(n)
<1> DEFINE k == Len(s.snaps)
<1>1. /\ k \in Nat /\ s.branch \in Nat /\ s.stable \in Nat /\ s.branchSeq \in Nat
      /\ \A i \in 1..k : s.snaps[i].branch \in Nat /\ s.snaps[i].source \in Nat
      /\ s.snaps = <<>> <=> k = 0
  BY TimelineTypes
<1>2. /\ n.branch = branch /\ n.branchSeq = s.branchSeq
      /\ n.stable \in {s.stable, k + 1} /\ Len(n.snaps) = k + 1
      /\ \A i \in 1..k : n.snaps[i] = s.snaps[i]
      /\ n.snaps[k + 1].branch = branch /\ n.snaps[k + 1].source = source
  BY DEF Recorded
<1>3. /\ s.branch <= s.branchSeq /\ s.stable <= k
      /\ k # 0 => s.branch = s.snaps[k].branch
      /\ \A i \in 1..k : s.snaps[i].branch <= s.branchSeq /\ s.snaps[i].source < i
      /\ \A i, j \in 1..k :
           /\ i < j
           /\ s.snaps[j].source # j - 1 \/ s.snaps[j].branch # s.snaps[j - 1].branch
           => s.snaps[i].branch < s.snaps[j].branch
  BY <1>1 DEF Branches
<1>4. /\ source <= k
      /\ \/ source = k /\ branch = s.branch
         \/ \A i \in 1..k : s.snaps[i].branch < branch
  OBVIOUS
<1> HIDE DEF k
<1>5. \A i \in 1..(k + 1) : i \in 1..k \/ i = k + 1  BY <1>1
<1>6. n.branch <= n.branchSeq /\ n.stable <= Len(n.snaps)
  BY <1>1, <1>2, <1>3
<1>7. n.branch = n.snaps[Len(n.snaps)].branch  BY <1>2
<1>8. ASSUME NEW i \in 1..Len(n.snaps)
      PROVE  n.snaps[i].branch <= n.branchSeq /\ n.snaps[i].source < i
  <2>1. CASE i \in 1..k
    <3>1. n.snaps[i] = s.snaps[i]  BY <1>2, <2>1
    <3> QED  BY <1>2, <1>3, <2>1, <3>1
  <2>2. CASE i = k + 1  BY <1>1, <1>2, <1>4, <2>2
  <2> QED  BY <1>2, <1>5, <2>1, <2>2
<1>9. ASSUME NEW i \in 1..Len(n.snaps), NEW j \in 1..Len(n.snaps), i < j,
             \/ n.snaps[j].source # j - 1
             \/ n.snaps[j].branch # n.snaps[j - 1].branch
      PROVE  n.snaps[i].branch < n.snaps[j].branch
  <2>1. i \in 1..k /\ j \in 1..(k + 1) /\ j - 1 \in 1..k  BY <1>1, <1>2, <1>9
  <2>2. n.snaps[i] = s.snaps[i] /\ n.snaps[j - 1] = s.snaps[j - 1]
    BY <1>2, <2>1
  <2>3. CASE j = k + 1
    <3>1. j - 1 = k /\ k # 0  BY <1>1, <2>1, <2>3
    <3>2. ~(source = k /\ branch = s.branch)
      BY <1>2, <1>3, <1>9, <2>2, <2>3, <3>1
    <3> QED  BY <1>2, <1>4, <2>1, <2>2, <2>3, <3>2
  <2>4. CASE j \in 1..k
    <3>1. n.snaps[j] = s.snaps[j]  BY <1>2, <2>4
    <3> QED  BY <1>3, <1>9, <2>1, <2>2, <2>4, <3>1
  <2> QED  BY <1>5, <2>1, <2>3, <2>4
<1> QED  BY <1>6, <1>7, <1>8, <1>9 DEF Branches

\* n is s rolled back to its i-th snapshot, with nothing recorded yet.
Returned(n, s, i) ==
    /\ n \in ServiceStates /\ SameWork(n, s.snaps[i].state)
    /\ n.snaps = s.snaps /\ n.branch = s.branch /\ n.stable = s.stable
    /\ n.branchSeq = s.branchSeq + 1

\* A rollback, and the workspace that it restores.
LEMMA ReturnedFields ==
    ASSUME NEW s \in ServiceStates, NEW i \in 1..Len(s.snaps)
    PROVE  Returned(RolledBack(s, i), s, i) /\ Returned(WorkspaceRestored(s, i), s, i)
<1> DEFINE p == s.snaps[i].state
           m == RestoreProjectFromSnapshot(s, p)
           n == RolledBack(s, i)
<1>1. p \in ProjectStates  BY TimelineTypes
<1>2. m \in ServiceStates /\ SameWork(m, p) /\ SameTimeline(m, s)
  BY <1>1, RestoreFields
<1>3. n = [m EXCEPT !.branchSeq = @ + 1]  BY DEF RolledBack
<1> HIDE DEF p, m, n
<1>4. /\ n \in ServiceStates /\ SameWork(n, m) /\ n.snaps = m.snaps
      /\ n.branch = m.branch /\ n.stable = m.stable
      /\ n.branchSeq = m.branchSeq + 1
  BY <1>2, <1>3, CountFields
<1>5. Returned(n, s, i)
  BY <1>2, <1>4 DEF Returned, SameWork, SameTimeline, p
<1>6. /\ AddShared(n, "RELEASED") \in ServiceStates
      /\ SameWork(AddShared(n, "RELEASED"), n)
      /\ SameTimeline(AddShared(n, "RELEASED"), n)
  BY <1>4, AddSharedFields DEF SandboxStatus
<1>7. Returned(AddShared(n, "RELEASED"), s, i)
  BY <1>5, <1>6 DEF Returned, SameWork, SameTimeline
<1>8. WorkspaceRestored(s, i) \in {n, AddShared(n, "RELEASED")}
  BY DEF WorkspaceRestored, n
<1> QED  BY <1>5, <1>7, <1>8 DEF n

\* nextRollbackBranchLocked: the branch of a rollback is a new one.
LEMMA RollbackFields ==
    ASSUME NEW s \in ServiceStates, NEW i \in 1..Len(s.snaps), Branches(s)
    PROVE  /\ \A n \in RollbackFailures(s, i) : Returned(n, s, i) /\ Branches(n)
           /\ \E w : /\ w \in ServiceStates /\ Returned(w, s, i)
                     /\ Recorded(RollbackEffect(s, i), w, s.branchSeq + 1, i)
           /\ Branches(RollbackEffect(s, i))
<1> DEFINE w == WorkspaceRestored(s, i)
           b == RolledBack(s, i).branchSeq
           ws == IF s.snaps[i].workspace = "none" THEN "none" ELSE "rollback"
           n == RollbackEffect(s, i)
<1>1. Returned(RolledBack(s, i), s, i) /\ Returned(w, s, i)  BY ReturnedFields
<1>2. /\ s.branchSeq \in Nat /\ Len(s.snaps) \in Nat /\ s.snaps[i].stable \in BOOLEAN
      /\ \A j \in 1..Len(s.snaps) : s.snaps[j].branch \in Nat
  BY TimelineTypes
<1>3. ASSUME NEW m, Returned(m, s, i)
      PROVE  Branches(m)
  <2>1. m \in ServiceStates /\ s.branchSeq <= m.branchSeq
    BY <1>2, <1>3 DEF Returned
  <2> QED  BY <1>3, <2>1, BranchesCounted DEF Returned
<1>4. \A m \in RollbackFailures(s, i) : Returned(m, s, i) /\ Branches(m)
  BY <1>1, <1>3 DEF RollbackFailures
<1>5. n = RecordSnapshot(w, b, i, s.snaps[i].stable, ws)  BY DEF RollbackEffect
<1>6. b = s.branchSeq + 1 /\ b \in Nat /\ i \in Nat  BY <1>1, <1>2 DEF Returned
<1>7. ws \in {"none", "shared", "rollback"}  OBVIOUS
<1>8. w \in ServiceStates  BY <1>1 DEF Returned
<1> HIDE DEF w, b, ws, n
<1>9. Recorded(n, w, b, i)  BY <1>2, <1>5, <1>6, <1>7, <1>8, RecordSnapshotFields
<1>10. Branches(n)
  <2>1. Branches(w)  BY <1>1, <1>3
  <2>2. w.snaps = s.snaps /\ w.branchSeq = s.branchSeq + 1  BY <1>1 DEF Returned
  <2>3. b <= w.branchSeq /\ i <= Len(w.snaps)  BY <1>2, <1>6, <2>2
  <2>4. \A j \in 1..Len(w.snaps) : w.snaps[j].branch < b
    BY <1>2, <1>6, <2>2 DEF Branches
  <2> QED  BY <1>6, <1>8, <1>9, <2>1, <2>3, <2>4, BranchesRecorded
<1> QED  BY <1>1, <1>4, <1>6, <1>8, <1>9, <1>10 DEF n

-----------------------------------------------------------------------------
(***************************************************************************)
(* What a step owes to the invariant.                                      *)
(***************************************************************************)

\* The maps that a step leaves are sound; what they hold is new or in a copy
\* already; and a goroutine that is alive has a run with no outcome.
LEMMA TimelineStep ==
    ASSUME TInv, Sound(mem', last'), disk' = mem' \/ disk' = disk,
           last' \in LastType, last.task <= last'.task, last.run <= last'.run,
           Branches(mem'), agent' \in AgentType, expired' \subseteq OverrideId,
           \A p \in States(mem') : p \in Copies \/ SameWork(p, mem'),
           \A r \in RunId : RunExists(mem', r) =>
             \/ r > last.run
             \/ \E c \in Copies :
                  RunExists(c, r) /\ c.runTask[r] = mem'.runTask[r],
           \A r \in RunId : agent'[r].phase \in LivePhase =>
             /\ r <= last'.run
             /\ mem'.run[r] \in {"ABSENT", "RUNNING"}
             /\ Live(r) \/ (r > last.run /\ agent'[r].phase = "spawned")
             /\ agent'[r].phase \in OnTask =>
                  \/ agent[r].phase \in OnTask /\ agent'[r].task = agent[r].task
                  \/ \E c \in Copies :
                       RunExists(c, r) /\ c.runTask[r] = agent'[r].task
    PROVE  TInv'
<1>1. /\ last \in LastType /\ disk \in ServiceStates
      /\ \A c \in Copies : Restorable(c, last)
      /\ RunsKeepTask /\ AgentsUnsettled /\ Branches(disk)
  BY DEF TInv
<1>2. \A c \in Copies' : c \in Copies \/ SameWork(c, mem')
  <2>1. SameWork(mem', mem')  BY DEF SameWork
  <2>2. CASE disk' = mem'  BY <2>1, <2>2 DEF Copies, States
  <2>3. CASE disk' = disk  BY <2>1, <2>3 DEF Copies, States
  <2> QED  BY <2>2, <2>3
<1>3. \A c \in Copies' : Restorable(c, last')
  <2> SUFFICES ASSUME NEW c \in Copies' PROVE Restorable(c, last')  OBVIOUS
  <2>1. CASE c \in Copies
    <3>1. Fresh(c, last) /\ Agreement(c) /\ Ordering(c)
      BY <1>1, <2>1 DEF Restorable
    <3>2. Fresh(c, last')  BY <1>1, <3>1, FreshGrows
    <3> QED  BY <3>1, <3>2 DEF Restorable
  <2>2. CASE SameWork(c, mem')
    BY <2>2 DEF Sound, Restorable, SameWork, Fresh, Agreement, Ordering,
                RunExists, Worked
  <2> QED  BY <1>2, <2>1, <2>2
<1>4. ASSUME NEW c \in Copies', NEW r \in RunId, RunExists(c, r)
      PROVE  \/ r > last.run /\ c.runTask[r] = mem'.runTask[r]
             \/ \E e \in Copies : RunExists(e, r) /\ e.runTask[r] = c.runTask[r]
  <2>1. CASE c \in Copies  BY <1>4, <2>1
  <2>2. CASE SameWork(c, mem')
    <3>1. RunExists(mem', r) /\ c.runTask[r] = mem'.runTask[r]
      BY <1>4, <2>2 DEF SameWork, RunExists
    <3> QED  BY <3>1
  <2> QED  BY <1>2, <2>1, <2>2
<1>5. \A e \in Copies, r \in RunId : r > last.run => ~RunExists(e, r)
  BY <1>1 DEF Restorable, Fresh, RunExists
<1>6. RunsKeepTask'
  <2> SUFFICES ASSUME NEW c \in Copies', NEW d \in Copies', NEW r \in RunId,
                      RunExists(c, r), RunExists(d, r)
               PROVE  c.runTask[r] = d.runTask[r]
    BY DEF RunsKeepTask, RunExists
  <2>1. CASE r > last.run  BY <1>4, <1>5, <2>1
  <2>2. CASE ~(r > last.run)
    <3>1. PICK e \in Copies : RunExists(e, r) /\ e.runTask[r] = c.runTask[r]
      BY <1>4, <2>2
    <3>2. PICK f \in Copies : RunExists(f, r) /\ f.runTask[r] = d.runTask[r]
      BY <1>4, <2>2
    <3> QED  BY <1>1, <3>1, <3>2 DEF RunsKeepTask
  <2> QED  BY <2>1, <2>2
<1>7. AgentsUnsettled'
  <2> SUFFICES ASSUME NEW r \in RunId, agent'[r].phase \in LivePhase
               PROVE  /\ r <= last'.run
                      /\ \A c \in Copies' :
                           /\ c.run[r] \in {"ABSENT", "RUNNING"}
                           /\ agent'[r].phase \in OnTask /\ RunExists(c, r) =>
                                c.runTask[r] = agent'[r].task
    BY DEF AgentsUnsettled, Live, RunExists
  <2>1. r <= last'.run  OBVIOUS
  <2>2. ASSUME NEW c \in Copies'
        PROVE  c.run[r] \in {"ABSENT", "RUNNING"}
    <3>1. CASE SameWork(c, mem')  BY <3>1 DEF SameWork
    <3>2. CASE c \in Copies /\ Live(r)  BY <1>1, <3>2 DEF AgentsUnsettled
    <3>3. CASE c \in Copies /\ r > last.run  BY <1>5, <3>3 DEF RunExists
    <3> QED  BY <1>2, <3>1, <3>2, <3>3
  <2>3. ASSUME NEW c \in Copies', agent'[r].phase \in OnTask, RunExists(c, r)
        PROVE  c.runTask[r] = agent'[r].task
    <3>1. Live(r)  BY <2>3 DEF OnTask
    <3>2. ~(r > last.run)
      <4>1. r <= last.run  BY <1>1, <3>1 DEF AgentsUnsettled
      <4> QED  BY <1>1, <4>1 DEF LastType, RunId
    <3>3. PICK e \in Copies : RunExists(e, r) /\ e.runTask[r] = c.runTask[r]
      BY <1>4, <2>3, <3>2
    <3>4. CASE agent[r].phase \in OnTask /\ agent'[r].task = agent[r].task
      BY <1>1, <3>1, <3>3, <3>4 DEF AgentsUnsettled
    <3>5. CASE \E d \in Copies : RunExists(d, r) /\ d.runTask[r] = agent'[r].task
      BY <1>1, <3>3, <3>5 DEF RunsKeepTask
    <3> QED  BY <2>3, <3>4, <3>5
  <2> QED  BY <2>1, <2>2, <2>3
<1>8. Branches(disk') /\ disk' \in ServiceStates /\ mem' \in ServiceStates
  BY <1>1 DEF Sound
<1> QED  BY <1>3, <1>6, <1>7, <1>8 DEF TInv

\* No goroutine is started, and those that go on keep the task they looked up.
AgentsStay ==
    /\ agent' \in AgentType
    /\ \A r \in RunId : agent'[r].phase \in LivePhase =>
         /\ Live(r)
         /\ agent'[r].phase \in OnTask =>
              agent[r].phase \in OnTask /\ agent'[r].task = agent[r].task

\* Handlers that start no goroutine leave all of them where they are.
LEMMA AgentsSame ==
    ASSUME TInv, agent' = agent
    PROVE  AgentsStay
BY DEF TInv, AgentsStay, Live

\* One goroutine moves on: to a phase in which it has no task, or from one in
\* which it had it.
LEMMA AgentsMove ==
    ASSUME TInv, NEW r \in RunId, NEW ph \in Phase, Goto(r, ph), Live(r),
           ph \in OnTask => agent[r].phase \in OnTask
    PROVE  AgentsStay /\ agent'[r].phase = ph
<1>1. agent \in AgentType  BY DEF TInv
<1>2. /\ agent' \in AgentType
      /\ \A q \in RunId : agent'[q] =
           IF q = r THEN [agent[r] EXCEPT !.phase = ph] ELSE agent[q]
  BY <1>1 DEF Goto, AgentType
<1>3. agent'[r].task = agent[r].task /\ agent'[r].phase = ph
  BY <1>1, <1>2 DEF AgentType
<1>4. ASSUME NEW q \in RunId, agent'[q].phase \in LivePhase
      PROVE  /\ Live(q)
             /\ agent'[q].phase \in OnTask =>
                  agent[q].phase \in OnTask /\ agent'[q].task = agent[q].task
  <2>1. CASE q = r  BY <1>3, <2>1
  <2>2. CASE q # r  BY <1>2, <1>4, <2>2 DEF Live
  <2> QED  BY <2>1, <2>2
<1> QED  BY <1>2, <1>3, <1>4 DEF AgentsStay

\* What the invariant says of a goroutine that is alive, and of the memory.
LEMMA MemorySound ==
    ASSUME TInv
    PROVE  /\ mem \in ServiceStates /\ last \in LastType /\ Sound(mem, last)
           /\ mem \in Copies /\ disk \in Copies
           /\ \A p \in States(mem) \cup States(disk) : p \in Copies
           /\ last.task <= last.task /\ last.run <= last.run
           /\ \A r \in RunId : Live(r) =>
                /\ r <= last.run /\ mem.run[r] \in {"ABSENT", "RUNNING"}
                /\ agent[r].phase \in OnTask /\ RunExists(mem, r) =>
                     mem.runTask[r] = agent[r].task
<1>1. mem \in Copies /\ disk \in Copies
      /\ \A p \in States(mem) \cup States(disk) : p \in Copies
  BY DEF Copies
<1>2. Restorable(mem, last)  BY <1>1 DEF TInv
<1>3. last.task <= last.task /\ last.run <= last.run  BY DEF TInv, LastType
<1> QED  BY <1>1, <1>2, <1>3 DEF TInv, Sound, Restorable, AgentsUnsettled

\* A step of the run engine that adds no run and leaves the timeline alone.
LEMMA EngineStep ==
    ASSUME TInv, Sound(mem', last'), disk' = mem' \/ disk' = disk,
           last' \in LastType, last.task <= last'.task, last.run <= last'.run,
           SameTimeline(mem', mem), AgentsStay, expired' \subseteq OverrideId,
           mem'.runTask = mem.runTask,
           \A r \in RunId : RunExists(mem', r) => RunExists(mem, r),
           \A r \in RunId : agent'[r].phase \in LivePhase => mem'.run[r] = mem.run[r]
    PROVE  TInv'
<1>1. /\ mem \in ServiceStates /\ mem \in Copies /\ last \in LastType
      /\ \A p \in States(mem) : p \in Copies
      /\ \A r \in RunId : Live(r) =>
           r <= last.run /\ mem.run[r] \in {"ABSENT", "RUNNING"}
  BY MemorySound
<1>2. mem' \in ServiceStates /\ agent' \in AgentType  BY DEF Sound, AgentsStay
<1>3. Branches(mem')
  <2>1. mem.branchSeq <= mem'.branchSeq
    BY <1>1, TimelineTypes DEF SameTimeline
  <2> QED  BY <1>1, <1>2, <2>1, BranchesCounted DEF SameTimeline, TInv
<1>4. \A p \in States(mem') : p \in Copies  BY <1>1 DEF SameTimeline, States
<1>5. \A r \in RunId : RunExists(mem', r) =>
        \E c \in Copies : RunExists(c, r) /\ c.runTask[r] = mem'.runTask[r]
  BY <1>1
<1>6. ASSUME NEW r \in RunId, agent'[r].phase \in LivePhase
      PROVE  /\ Live(r) /\ r <= last'.run
             /\ mem'.run[r] \in {"ABSENT", "RUNNING"}
             /\ agent'[r].phase \in OnTask =>
                  agent[r].phase \in OnTask /\ agent'[r].task = agent[r].task
  <2>1. Live(r)  BY <1>6 DEF AgentsStay
  <2>2. r <= last'.run  BY <1>1, <2>1 DEF LastType, RunId
  <2> QED  BY <1>1, <1>6, <2>1, <2>2 DEF AgentsStay
<1> QED  BY <1>2, <1>3, <1>4, <1>5, <1>6, TimelineStep

\* A step after which the tasks and runs in memory are those of some copy: a
\* merge, a rollback, a restart, or a goroutine that moves on.
LEMMA CopyStep ==
    ASSUME TInv, NEW c \in Copies, NEW n \in ServiceStates, SameWork(n, c),
           mem' = n, disk' = mem' \/ disk' = disk, last' = last,
           expired' = expired, AgentsStay, Branches(n),
           \A p \in States(n) : p \in Copies \/ SameWork(p, n)
    PROVE  TInv'
<1>1. /\ last \in LastType /\ expired \subseteq OverrideId
      /\ Restorable(c, last) /\ AgentsUnsettled
      /\ last.task <= last.task /\ last.run <= last.run
  BY MemorySound DEF TInv
<1>2. Sound(n, last)
  BY <1>1 DEF Sound, Restorable, SameWork, Fresh, Agreement, Ordering,
              RunExists, Worked
<1>3. \A r \in RunId : n.run[r] = c.run[r] /\ n.runTask[r] = c.runTask[r]
  BY DEF SameWork
<1>4. \A r \in RunId : RunExists(mem', r) =>
        \E d \in Copies : RunExists(d, r) /\ d.runTask[r] = mem'.runTask[r]
  BY <1>3 DEF RunExists
<1>5. ASSUME NEW r \in RunId, agent'[r].phase \in LivePhase
      PROVE  /\ Live(r) /\ r <= last'.run
             /\ mem'.run[r] \in {"ABSENT", "RUNNING"}
             /\ agent'[r].phase \in OnTask =>
                  agent[r].phase \in OnTask /\ agent'[r].task = agent[r].task
  BY <1>1, <1>3, <1>5 DEF AgentsStay, AgentsUnsettled
<1>6. agent' \in AgentType  BY DEF AgentsStay
<1> QED  BY <1>1, <1>2, <1>4, <1>5, <1>6, TimelineStep

\* The same for a step that changes neither tasks and runs nor the timeline.
LEMMA SameWorkTimeline ==
    ASSUME TInv, NEW n \in ServiceStates, SameWork(n, mem), SameTimeline(n, mem),
           mem' = n, disk' = mem' \/ disk' = disk, last' = last,
           expired' = expired, AgentsStay
    PROVE  TInv'
<1>1. /\ mem \in ServiceStates /\ mem \in Copies
      /\ \A p \in States(mem) : p \in Copies
  BY MemorySound
<1>2. Branches(n)
  <2>1. mem.branchSeq <= n.branchSeq  BY <1>1, TimelineTypes DEF SameTimeline
  <2> QED  BY <1>1, <2>1, BranchesCounted DEF SameTimeline, TInv
<1>3. \A p \in States(n) : p \in Copies  BY <1>1 DEF SameTimeline, States
<1> QED  BY <1>1, <1>2, <1>3, CopyStep

-----------------------------------------------------------------------------
(***************************************************************************)
(* The steps of the run engine preserve the invariant.                     *)
(***************************************************************************)

\* A handler that adds k tasks under new identifiers.
LEMMA NewTasksTimeline ==
    ASSUME TInv, NEW n, NEW k \in Nat, Persist(n),
           last.task + k <= MaxTasks, last' = [last EXCEPT !.task = last.task + k],
           AddedTasks(n, mem, (last.task + 1)..(last.task + k)),
           SameTimeline(n, mem), agent' = agent, expired' = expired
    PROVE  TInv'
<1> DEFINE T == (last.task + 1)..(last.task + k)
<1>1. mem' = n /\ (disk' = mem' \/ disk' = disk)  BY PersistStep
<1>2. last \in LastType /\ Sound(mem, last)  BY MemorySound
<1>3. /\ last' \in LastType /\ last.task <= last'.task /\ last.run = last'.run
      /\ last.run <= last'.run
      /\ T \in SUBSET TaskId
      /\ \A t \in T : last.task < t /\ t <= last'.task
  <2>1. last.task \in 0..MaxTasks /\ last.run \in 0..MaxRuns
    BY <1>2 DEF LastType
  <2>2. last.task + k \in 0..MaxTasks  BY <2>1
  <2>3. last' \in LastType  BY <1>2, <2>2, Zenon DEF LastType
  <2>4. last'.task = last.task + k /\ last'.run = last.run  BY <1>2 DEF LastType
  <2>5. T \in SUBSET TaskId
    <3>1. MaxTasks \in Nat  BY BoundsAssumption
    <3> QED  BY <2>1, <3>1 DEF TaskId
  <2> QED  BY <2>1, <2>3, <2>4, <2>5
<1> HIDE DEF T
<1>4. AddedTasks(n, mem, T)  BY DEF T
<1>5. Sound(n, last')  BY <1>2, <1>3, <1>4, NewTasksSound
<1>6. n.run = mem.run /\ n.runTask = mem.runTask  BY <1>4 DEF AddedTasks
<1>7. expired' \subseteq OverrideId  BY DEF TInv
<1>8. \A r \in RunId : RunExists(mem', r) => RunExists(mem, r)
  BY <1>1, <1>6 DEF RunExists
<1> QED  BY <1>1, <1>3, <1>5, <1>6, <1>7, <1>8, AgentsSame, EngineStep

\* The planning handlers.
LEMMA PlanningTimeline ==
    ASSUME TInv,
           \/ AddRequirement \/ GeneratePlan \/ GenerateContract \/ DispatchTasks
           \/ \E c \in 1..Len(mem.contracts) : ValidateContract(c)
           \/ \E t \in TaskId : RetryTask(t)
    PROVE  TInv'
<1>1. mem \in ServiceStates /\ last.task \in 0..MaxTasks /\ MaxTasks \in Nat
  BY MemorySound, BoundsAssumption DEF LastType
<1>2. ASSUME NEW n \in ServiceStates, Persist(n), SameWork(n, mem),
             Untouched(n, mem), UNCHANGED <<agent, last, expired>>
      PROVE  TInv'
  <2>1. mem' = n /\ (disk' = mem' \/ disk' = disk)  BY <1>2, PersistStep
  <2> QED  BY <1>2, <2>1, AgentsSame, SameWorkTimeline DEF Untouched
<1>3. ASSUME NEW n, last.task < MaxTasks, Persist(n),
             last' = [last EXCEPT !.task = last.task + 1], Untouched(n, mem),
             AddedTasks(n, mem, {last.task + 1}), UNCHANGED <<agent, expired>>
      PROVE  TInv'
  <2>1. {last.task + 1} = (last.task + 1)..(last.task + 1)  BY <1>1
  <2>2. last.task + 1 <= MaxTasks /\ 1 \in Nat  BY <1>1, <1>3
  <2> QED  BY <1>3, <2>1, <2>2, NewTasksTimeline DEF Untouched
<1>4. CASE AddRequirement
  BY <1>1, <1>2, <1>4, AddRequirementFields, PlanningUntouched DEF AddRequirement
<1>5. CASE GenerateContract
  BY <1>1, <1>2, <1>5, GenerateContractFields, PlanningUntouched
     DEF GenerateContract
<1>6. CASE GeneratePlan
  <2>1. last.task + 1 \in TaskId  BY <1>1, <1>6 DEF GeneratePlan, TaskId
  <2> QED
    BY <1>1, <1>3, <1>6, <2>1, GeneratePlanFields, NewTaskUntouched
       DEF GeneratePlan
<1>7. ASSUME NEW c \in 1..Len(mem.contracts), ValidateContract(c)
      PROVE  TInv'
  <2>1. last.task + 1 \in TaskId  BY <1>1, <1>7 DEF ValidateContract, TaskId
  <2> QED
    BY <1>1, <1>3, <1>7, <2>1, RemediationFields, NewTaskUntouched
       DEF ValidateContract
<1>8. ASSUME NEW t \in TaskId, RetryTask(t)
      PROVE  TInv'
  <2>1. last.task + 1 \in TaskId  BY <1>1, <1>8 DEF RetryTask, TaskId
  <2> QED
    BY <1>1, <1>3, <1>8, <2>1, RetryTaskFields, NewTaskUntouched DEF RetryTask
<1>9. CASE DispatchTasks
  <2> DEFINE n == DispatchTasksEffect(mem, last.task + 1, last.task + 2,
                                      last.task + 3)
  <2>1. /\ last.task + 3 <= MaxTasks /\ last' = [last EXCEPT !.task = last.task + 3]
        /\ Persist(n) /\ agent' = agent /\ expired' = expired
    BY <1>9 DEF DispatchTasks
  <2>2. /\ last.task + 1 \in TaskId /\ last.task + 2 \in TaskId
        /\ last.task + 3 \in TaskId
    BY <1>1, <2>1 DEF TaskId
  <2>3. AddedTasks(n, mem, {last.task + 1, last.task + 2, last.task + 3})
    BY <1>1, <2>2, DispatchTasksFields
  <2>4. {last.task + 1, last.task + 2, last.task + 3}
          = (last.task + 1)..(last.task + 3)
    BY <1>1
  <2>5. SameTimeline(n, mem)  BY <1>1, PlanningUntouched DEF Untouched
  <2> HIDE DEF n
  <2> QED  BY <2>1, <2>3, <2>4, <2>5, NewTasksTimeline
<1> QED  BY <1>4, <1>5, <1>6, <1>7, <1>8, <1>9

\* The operator's handlers and the clock.
LEMMA OperatorTimeline ==
    ASSUME TInv,
           \/ \E t \in TaskId : MarkTaskSandboxFailure(t)
           \/ \E t \in TaskId, owner \in Owners, scope \in Scopes :
                ApplyHumanOverride(t, owner, scope)
           \/ \E c \in 1..Len(mem.conflicts) : ResolveConflictQueueEntry(c)
           \/ \E o \in OverrideId : ExpireLease(o)
    PROVE  TInv'
<1>1. /\ mem \in ServiceStates /\ Sound(mem, last) /\ last \in LastType
      /\ expired \subseteq OverrideId
      /\ last.task <= last.task /\ last.run <= last.run
  BY MemorySound DEF TInv
<1>2. ASSUME NEW n \in ServiceStates, Persist(n), SameWork(n, mem),
             Untouched(n, mem), UNCHANGED <<agent, last, expired>>
      PROVE  TInv'
  <2>1. mem' = n /\ (disk' = mem' \/ disk' = disk)  BY <1>2, PersistStep
  <2> QED  BY <1>2, <2>1, AgentsSame, SameWorkTimeline DEF Untouched
<1>3. ASSUME NEW t \in TaskId, MarkTaskSandboxFailure(t)
      PROVE  TInv'
  <2>1. mem.faults \cup {t} \in SUBSET TaskId  BY <1>1, FieldTypes
  <2> DEFINE n == [mem EXCEPT !.faults = mem.faults \cup {t}]
  <2>2. n \in ServiceStates /\ SameWork(n, mem) /\ Untouched(n, mem)
    BY <1>1, <2>1, FaultFields, PlanningUntouched
  <2>3. Persist(n) /\ UNCHANGED <<agent, last, expired>>
    BY <1>3 DEF MarkTaskSandboxFailure
  <2> HIDE DEF n
  <2> QED  BY <1>2, <2>2, <2>3
<1>4. ASSUME NEW c \in 1..Len(mem.conflicts), ResolveConflictQueueEntry(c)
      PROVE  TInv'
  BY <1>1, <1>2, <1>4, ResolveConflictFields, PlanningUntouched
     DEF ResolveConflictQueueEntry
<1>5. ASSUME NEW o \in OverrideId, ExpireLease(o)
      PROVE  TInv'
  <2>1. /\ mem' = mem /\ disk' = disk /\ agent' = agent /\ last' = last
        /\ expired' \subseteq OverrideId
    BY <1>1, <1>5 DEF ExpireLease
  <2>2. SameTimeline(mem', mem)  BY <2>1 DEF SameTimeline
  <2> QED  BY <1>1, <2>1, <2>2, AgentsSame, EngineStep
<1>6. ASSUME NEW t \in TaskId, NEW owner \in Owners, NEW scope \in Scopes,
             ApplyHumanOverride(t, owner, scope)
      PROVE  TInv'
  <2>1. CASE Persist(EnqueueConflictEffect(mem)) /\ UNCHANGED last
    BY <1>1, <1>2, <1>6, <2>1, EnqueueConflictFields, PlanningUntouched
       DEF ApplyHumanOverride
  <2>2. CASE /\ last.override < MaxOverrides
             /\ last' = [last EXCEPT !.override = @ + 1]
             /\ Persist(QueueOverrideEffect(mem, last.override + 1, t, owner,
                                            scope))
    <3> DEFINE o == last.override + 1
               n == QueueOverrideEffect(mem, o, t, owner, scope)
    <3>1. last.override \in 0..MaxOverrides /\ MaxOverrides \in Nat
      BY <1>1, BoundsAssumption DEF LastType
    <3>2. o \in OverrideId /\ o \in 0..MaxOverrides
      BY <3>1, <2>2 DEF OverrideId
    <3> HIDE DEF o
    <3>3. last' = [last EXCEPT !.override = o]  BY <2>2 DEF o
    <3>4. last' \in LastType  BY <1>1, <3>2, <3>3, Zenon DEF LastType
    <3>5. last'.task = last.task /\ last'.run = last.run
      BY <1>1, <3>3 DEF LastType
    <3>6. /\ n \in ServiceStates
          /\ n.status = [mem.status EXCEPT ![t] =
                           IF mem.status[t] = "IN_PROGRESS"
                             THEN TransitionTo(mem.status[t], "HUMAN_OVERRIDE")
                             ELSE mem.status[t]]
          /\ n.task = mem.task /\ n.run = mem.run /\ n.runTask = mem.runTask
          /\ n.sandbox = mem.sandbox /\ n.artifact = mem.artifact
      BY <1>1, <3>2, QueueOverrideFields
    <3>7. SameTimeline(n, mem)  BY <1>1, QueueOverrideChanges
    <3>8. mem' = n /\ (disk' = mem' \/ disk' = disk)
      BY <2>2, PersistStep DEF o
    <3>9. agent' = agent /\ expired' = expired
          /\ mem.status[t] \in {"IN_PROGRESS", "HUMAN_OVERRIDE"}
      BY <1>6 DEF ApplyHumanOverride
    <3> HIDE DEF n
    <3>10. n.status = [mem.status EXCEPT ![t] =
                         IF Worked(mem, t) THEN "HUMAN_OVERRIDE" ELSE @]
      BY <3>6, <3>9
         DEF Worked, TransitionTo, IsAllowedTransition, AllowedTransitions
    <3>11. Sound(n, last)  BY <1>1, <3>6, <3>10, PauseSound
    <3>12. Sound(n, last')  BY <1>1, <3>4, <3>5, <3>11, FreshGrows DEF Sound
    <3>13. \A r \in RunId : RunExists(mem', r) => RunExists(mem, r)
      BY <3>6, <3>8 DEF RunExists
    <3> QED
      BY <1>1, <3>4, <3>5, <3>6, <3>7, <3>8, <3>9, <3>12, <3>13, AgentsSame,
         EngineStep
  <2> QED  BY <1>6, <2>1, <2>2 DEF ApplyHumanOverride
<1> QED  BY <1>3, <1>4, <1>5, <1>6

\* n is mem with the runs of rid; a goroutine that is alive was there before,
\* or is spawned for one of them.
LEMMA NewRunsTimeline ==
    ASSUME TInv, NEW sel, NEW rid, NEW top, NewRuns(mem, last, sel, rid, top),
           last' = [last EXCEPT !.run = top], Sound(mem', last'),
           SameTimeline(mem', mem), disk' = mem' \/ disk' = disk,
           expired' = expired, agent' \in AgentType,
           \A r \in RunId : r \notin {rid[t] : t \in sel} =>
             /\ mem'.run[r] = mem.run[r] /\ mem'.runTask[r] = mem.runTask[r]
             /\ agent'[r] = agent[r],
           \A r \in {rid[t] : t \in sel} :
             /\ mem'.run[r] = "RUNNING"
             /\ agent'[r].phase \in LivePhase => agent'[r].phase = "spawned"
    PROVE  TInv'
<1> DEFINE new == {rid[t] : t \in sel}
<1>1. /\ mem \in ServiceStates /\ mem \in Copies /\ last \in LastType
      /\ Sound(mem, last)
      /\ \A p \in States(mem) : p \in Copies
      /\ \A r \in RunId : Live(r) =>
           r <= last.run /\ mem.run[r] \in {"ABSENT", "RUNNING"}
  BY MemorySound
<1>2. /\ last' \in LastType /\ last.task <= last'.task /\ last.run <= last'.run
      /\ last'.run = top
  <2>1. last'.run = top  BY <1>1 DEF LastType
  <2> QED  BY <1>1, <2>1, NewRunsSound
<1>3. \A r \in new : r > last.run /\ r <= last'.run
  <2>1. \A t \in sel : last.run < rid[t] /\ rid[t] <= top  BY DEF NewRuns
  <2>2. sel \subseteq TaskId /\ rid \in [sel -> RunId]  BY DEF NewRuns
  <2>3. last.run \in Nat  BY <1>1 DEF LastType
  <2> QED  BY <1>2, <2>1, <2>2, <2>3 DEF RunId
<1> HIDE DEF new
<1>4. Branches(mem')
  <2>1. mem.branchSeq <= mem'.branchSeq
    BY <1>1, TimelineTypes DEF SameTimeline
  <2> QED  BY <1>1, <2>1, BranchesCounted DEF SameTimeline, TInv, Sound
<1>5. \A p \in States(mem') : p \in Copies  BY <1>1 DEF SameTimeline, States
<1>6. \A r \in RunId : RunExists(mem', r) =>
        \/ r > last.run
        \/ \E c \in Copies : RunExists(c, r) /\ c.runTask[r] = mem'.runTask[r]
  BY <1>1, <1>3 DEF RunExists, new
<1>7. ASSUME NEW r \in RunId, agent'[r].phase \in LivePhase
      PROVE  /\ r <= last'.run
             /\ mem'.run[r] \in {"ABSENT", "RUNNING"}
             /\ Live(r) \/ (r > last.run /\ agent'[r].phase = "spawned")
             /\ agent'[r].phase \in OnTask =>
                  agent[r].phase \in OnTask /\ agent'[r].task = agent[r].task
  <2>1. CASE r \in new  BY <1>3, <1>7, <2>1 DEF new, OnTask
  <2>2. CASE r \notin new
    <3>1. agent'[r] = agent[r] /\ mem'.run[r] = mem.run[r]  BY <2>2 DEF new
    <3>2. Live(r)  BY <1>7, <3>1 DEF Live
    <3>3. r <= last'.run  BY <1>1, <1>2, <3>2 DEF LastType, RunId
    <3> QED  BY <1>1, <3>1, <3>2, <3>3
  <2> QED  BY <2>1, <2>2
<1>8. expired' \subseteq OverrideId  BY DEF TInv
<1> QED  BY <1>2, <1>4, <1>5, <1>6, <1>7, <1>8, TimelineStep

\* StartRun and StartParallelRun.
LEMMA LaunchTimeline ==
    ASSUME TInv, NEW sel, NEW rid, NEW top, NewRuns(mem, last, sel, rid, top),
           LaunchRuns(rid, top)
    PROVE  TInv'
<1> DEFINE n == StartTaskRunsEffect(mem, rid)
           new == {rid[t] : t \in sel}
<1>1. last' = [last EXCEPT !.run = top] /\ expired' = expired
  BY DEF LaunchRuns
<1>2. mem \in ServiceStates /\ last \in LastType /\ Sound(mem, last)
      /\ \A r \in RunId : Live(r) => r <= last.run
  BY MemorySound
<1>3. Sound(n, last') /\ StartedRuns(n, mem, sel, rid)
  BY <1>1, <1>2, NewRunsSound
<1>4. SameTimeline(n, mem)  BY <1>2, RunsUntouched DEF Untouched
<1>5. /\ mem' = n /\ (disk' = mem' \/ disk' = disk)
      /\ Spawn(rid) \/ agent' = agent
  BY DEF LaunchRuns, PersistOK, PersistFails
<1>6. agent \in AgentType  BY DEF TInv
<1>7. /\ sel \subseteq TaskId /\ rid \in [sel -> RunId] /\ DOMAIN rid = sel
      /\ \A t \in sel : last.run < rid[t]
  BY DEF NewRuns
<1>8. \A r \in new : ~Live(r)
  <2>1. last.run \in Nat  BY <1>2 DEF LastType
  <2> QED  BY <1>2, <1>7, <2>1 DEF RunId
<1> HIDE DEF n
<1>9. /\ agent' \in AgentType
      /\ \A r \in RunId : r \notin new => agent'[r] = agent[r]
      /\ \A r \in new : agent'[r].phase \in LivePhase => agent'[r].phase = "spawned"
  <2>1. CASE Spawn(rid)
    <3>1. agent' = [r \in RunId |-> IF \E t \in sel : rid[t] = r
                                      THEN [phase |-> "spawned", task |-> NoId]
                                      ELSE agent[r]]
      BY <1>7, <2>1, Zenon DEF Spawn
    <3> QED  BY <1>6, <1>7, <3>1 DEF AgentType, Phase
  <2>2. CASE agent' = agent  BY <1>6, <1>8, <2>2 DEF Live
  <2> QED  BY <1>5, <2>1, <2>2
<1> QED
  BY <1>1, <1>3, <1>4, <1>5, <1>9, NewRunsTimeline DEF StartedRuns

\* The handlers that start runs, and those that could not.
LEMMA StartTimeline ==
    ASSUME TInv,
           \/ \E t \in TaskId : StartRun(t) \/ StartRunRefused(t)
           \/ \E sel \in SUBSET ReadyTasks : StartParallelRun(sel)
           \/ \E t \in ReadyTasks : \E sel \in SUBSET (ReadyTasks \ {t}) :
                StartParallelRunFails(sel, t)
    PROVE  TInv'
<1>1. /\ mem \in ServiceStates /\ last \in LastType /\ Sound(mem, last)
      /\ agent \in AgentType /\ expired \subseteq OverrideId
      /\ last.task <= last.task /\ last.run <= last.run
      /\ \A r \in RunId : Live(r) => r <= last.run
  BY MemorySound DEF TInv
<1>2. ASSUME NEW t \in TaskId, StartRun(t)
      PROVE  TInv'
  <2>1. NewRuns(mem, last, {t}, [u \in {t} |-> last.run + 1], last.run + 1)
    BY <1>1, <1>2, OneNewRun DEF StartRun
  <2> QED  BY <1>2, <2>1, LaunchTimeline DEF StartRun
<1>3. ASSUME NEW sel \in SUBSET ReadyTasks, StartParallelRun(sel)
      PROVE  TInv'
  <2>1. PICK top \in RunId, rid \in [sel -> RunId] :
          Allocates(rid, sel, top) /\ LaunchRuns(rid, top)
    BY <1>3 DEF StartParallelRun
  <2>2. NewRuns(mem, last, sel, rid, top)  BY <1>1, <2>1, ManyNewRuns
  <2> QED  BY <2>1, <2>2, LaunchTimeline
<1>4. ASSUME NEW t \in TaskId, StartRunRefused(t)
      PROVE  TInv'
  <2>1. agent' = agent /\ last' = last /\ expired' = expired
    BY <1>4 DEF StartRunRefused
  <2>2. CASE Persist(mem)
    <3>1. SameWork(mem, mem) /\ SameTimeline(mem, mem)
      BY DEF SameWork, SameTimeline
    <3>2. mem' = mem /\ (disk' = mem' \/ disk' = disk)  BY <2>2, PersistStep
    <3> QED  BY <1>1, <2>1, <3>1, <3>2, AgentsSame, SameWorkTimeline
  <2>3. CASE /\ EnsureTaskReady(mem, t)
             /\ Persist(SandboxCreateFailedEffect(mem, t))
    <3> DEFINE n == SandboxCreateFailedEffect(mem, t)
    <3>1. mem.status[t] = "CREATED"  BY <2>3 DEF EnsureTaskReady
    <3>2. Sound(n, last)  BY <1>1, <3>1, SandboxCreateFailedSound
    <3>3. n.run = mem.run /\ n.runTask = mem.runTask
      BY <1>1, SandboxCreateFailedFields
    <3>4. SameTimeline(n, mem)  BY <1>1, RunsUntouched DEF Untouched
    <3>5. mem' = n /\ (disk' = mem' \/ disk' = disk)  BY <2>3, PersistStep
    <3> HIDE DEF n
    <3>6. \A r \in RunId : RunExists(mem', r) => RunExists(mem, r)
      BY <3>3, <3>5 DEF RunExists
    <3> QED
      BY <1>1, <2>1, <3>2, <3>3, <3>4, <3>5, <3>6, AgentsSame, EngineStep
  <2> QED  BY <1>4, <2>2, <2>3 DEF StartRunRefused
<1>5. ASSUME NEW t \in ReadyTasks, NEW sel \in SUBSET (ReadyTasks \ {t}),
             StartParallelRunFails(sel, t)
      PROVE  TInv'
  <2>1. PICK top \in {last.run} \cup RunId, rid \in [sel -> RunId] :
          /\ Allocates(rid, sel, top)
          /\ last' = [last EXCEPT !.run = top]
          /\ mem' = SandboxCreateFailedEffect(StartTaskRunsEffect(mem, rid), t)
    BY <1>5 DEF StartParallelRunFails
  <2> DEFINE p == StartTaskRunsEffect(mem, rid)
             n == SandboxCreateFailedEffect(p, t)
             new == {rid[u] : u \in sel}
  <2>2. NewRuns(mem, last, sel, rid, top)  BY <1>1, <2>1, ManyNewRuns
  <2>3. last' \in LastType /\ Sound(p, last') /\ StartedRuns(p, mem, sel, rid)
    BY <1>1, <2>1, <2>2, NewRunsSound
  <2>4. SameTimeline(p, mem)  BY <1>1, RunsUntouched DEF Untouched
  <2>5. t \in TaskId /\ t \notin sel /\ mem.status[t] = "CREATED"
    BY DEF ReadyTasks, EnsureTaskReady
  <2> HIDE DEF p
  <2>6. p.status[t] = "CREATED" /\ p \in ServiceStates
    BY <2>3, <2>5 DEF StartedRuns
  <2>7. Sound(n, last')  BY <2>3, <2>5, <2>6, SandboxCreateFailedSound
  <2>8. n.run = p.run /\ n.runTask = p.runTask /\ SameTimeline(n, p)
    BY <2>5, <2>6, SandboxCreateFailedFields, RunsUntouched DEF Untouched
  <2>9. mem' = n  BY <2>1 DEF p
  <2>10. disk' = disk /\ agent' = agent /\ expired' = expired
    BY <1>5 DEF StartParallelRunFails
  <2> HIDE DEF n
  <2>11. \A r \in new : ~(agent'[r].phase \in LivePhase)
    <3>1. \A u \in sel : last.run < rid[u] /\ rid[u] \in RunId
      BY <2>2 DEF NewRuns
    <3>2. last.run \in Nat  BY <1>1 DEF LastType
    <3> QED  BY <1>1, <2>10, <3>1, <3>2 DEF Live, RunId
  <2>12. SameTimeline(n, mem)  BY <2>4, <2>8 DEF SameTimeline
  <2> QED
    BY <1>1, <2>1, <2>2, <2>3, <2>7, <2>8, <2>9, <2>10, <2>11, <2>12,
       NewRunsTimeline
       DEF StartedRuns
<1> QED  BY <1>2, <1>3, <1>4, <1>5

\* snapshotForExecution, of a run that may be gone.
LEMMA PrepareTimeline ==
    ASSUME TInv, NEW r \in RunId, Prepare(r)
    PROVE  TInv'
<1>1. /\ mem \in ServiceStates /\ mem \in Copies /\ last \in LastType
      /\ Sound(mem, last) /\ agent \in AgentType /\ expired \subseteq OverrideId
      /\ last.task <= last.task /\ last.run <= last.run
      /\ \A p \in States(mem) : p \in Copies
      /\ \A q \in RunId : Live(q) =>
           q <= last.run /\ mem.run[q] \in {"ABSENT", "RUNNING"}
  BY MemorySound DEF TInv
<1>2. UNCHANGED <<mem, disk, last, expired>> /\ Live(r)
  BY DEF Prepare, Live, LivePhase, Phase
<1>3. agent' = [agent EXCEPT ![r] =
                  IF RunExists(mem, r)
                    THEN [phase |-> "prepared", task |-> mem.runTask[r]]
                    ELSE [phase |-> "failing", task |-> NoId]]
  BY DEF Prepare
<1>4. agent' \in AgentType
  <2>1. mem.runTask[r] \in TaskId \cup {NoId}  BY <1>1, FieldTypes
  <2> QED  BY <1>1, <1>3, <2>1 DEF AgentType, Phase
<1>5. ASSUME NEW q \in RunId, agent'[q].phase \in LivePhase
      PROVE  /\ Live(q) /\ q <= last'.run
             /\ mem'.run[q] \in {"ABSENT", "RUNNING"}
             /\ agent'[q].phase \in OnTask =>
                  \/ agent[q].phase \in OnTask /\ agent'[q].task = agent[q].task
                  \/ \E c \in Copies :
                       RunExists(c, q) /\ c.runTask[q] = agent'[q].task
  <2>1. Live(q)  BY <1>1, <1>2, <1>3, <1>5 DEF Live, AgentType
  <2>2. CASE q # r
    <3>1. agent'[q] = agent[q]  BY <1>1, <1>3, <2>2 DEF AgentType
    <3> QED  BY <1>1, <1>2, <2>1, <3>1
  <2>3. CASE q = r
    <3>1. agent'[r] = IF RunExists(mem, r)
                        THEN [phase |-> "prepared", task |-> mem.runTask[r]]
                        ELSE [phase |-> "failing", task |-> NoId]
      BY <1>1, <1>3 DEF AgentType
    <3>2. agent'[r].phase \in OnTask =>
            RunExists(mem, r) /\ mem.runTask[r] = agent'[r].task
      BY <3>1 DEF OnTask
    <3> QED  BY <1>1, <1>2, <2>1, <2>3, <3>2
  <2> QED  BY <2>2, <2>3
<1>6. \A q \in RunId : RunExists(mem', q) =>
        \E c \in Copies : RunExists(c, q) /\ c.runTask[q] = mem'.runTask[q]
  BY <1>1, <1>2
<1>7. Branches(mem') /\ \A p \in States(mem') : p \in Copies
  BY <1>1, <1>2 DEF TInv
<1> QED  BY <1>1, <1>2, <1>4, <1>5, <1>6, <1>7, TimelineStep

\* A goroutine that finds its run finds it running, its task worked on, and no
\* artifact.
LEMMA OvertakenAgentFinds ==
    ASSUME TInv, NEW r \in RunId, Live(r), RunExists(mem, r)
    PROVE  /\ mem.run[r] = "RUNNING" /\ mem.runTask[r] \in TaskId
           /\ Worked(mem, mem.runTask[r]) /\ ~mem.artifact[r]
           /\ agent[r].phase \in OnTask => agent[r].task = mem.runTask[r]
<1>1. Sound(mem, last) /\ mem.run[r] \in {"ABSENT", "RUNNING"}
      /\ (agent[r].phase \in OnTask => mem.runTask[r] = agent[r].task)
  BY MemorySound
<1>2. mem.run[r] = "RUNNING"  BY <1>1 DEF RunExists
<1> QED  BY <1>1, <1>2 DEF Sound, Agreement

\* A goroutine moves on, and neither tasks and runs nor the timeline change.
LEMMA MoveTimeline ==
    ASSUME TInv, NEW r \in RunId, NEW ph \in Phase, Goto(r, ph), Live(r),
           ph \in OnTask => agent[r].phase \in OnTask,
           mem' \in ServiceStates, SameWork(mem', mem), SameTimeline(mem', mem),
           disk' = disk, UNCHANGED <<last, expired>>
    PROVE  TInv'
<1>1. AgentsStay  BY AgentsMove
<1> QED  BY <1>1, SameWorkTimeline

\* sandboxFailureForTask, and the steps on the runtime and the workspace.
LEMMA WorkTimeline ==
    ASSUME TInv, NEW r \in RunId, CheckFault(r) \/ Work(r)
    PROVE  TInv'
<1>1. mem \in ServiceStates  BY MemorySound
<1>2. /\ SameWork(mem, mem) /\ SameTimeline(mem, mem)
      /\ {"cleared", "finishing", "failing"} \subseteq Phase
      /\ Live(r) /\ agent[r].phase \in OnTask
      /\ disk' = disk /\ UNCHANGED <<last, expired>>
  BY DEF SameWork, SameTimeline, Phase, CheckFault, Work, Live, LivePhase, OnTask
<1>3. ASSUME NEW ph \in {"cleared", "finishing", "failing"}, Goto(r, ph),
             mem' = mem
      PROVE  TInv'
  BY <1>1, <1>2, <1>3, MoveTimeline
<1>4. CASE /\ mem' = [mem EXCEPT !.faults = @ \ {agent[r].task}]
           /\ Goto(r, "failing")
  <2>1. mem.faults \ {agent[r].task} \in SUBSET TaskId  BY <1>1, FieldTypes
  <2>2. /\ mem' \in ServiceStates /\ SameWork(mem', mem)
        /\ SameTimeline(mem', mem)
    BY <1>1, <1>4, <2>1, FaultFields, PlanningUntouched DEF Untouched
  <2> QED  BY <1>2, <1>4, <2>2, MoveTimeline
<1> QED  BY <1>3, <1>4 DEF CheckFault, Work

\* applyPendingHumanOverrideLocked.
LEMMA CheckpointTimeline ==
    ASSUME TInv, NEW r \in RunId, Checkpoint(r)
    PROVE  TInv'
<1>1. /\ mem \in ServiceStates /\ Sound(mem, last) /\ last \in LastType
      /\ last.task <= last.task /\ last.run <= last.run
      /\ expired \subseteq OverrideId
  BY MemorySound DEF TInv
<1>2. /\ SameWork(mem, mem) /\ SameTimeline(mem, mem)
      /\ {"working", "failing"} \subseteq Phase
      /\ Live(r) /\ agent[r].phase \in OnTask /\ UNCHANGED <<last, expired>>
  BY DEF SameWork, SameTimeline, Phase, Checkpoint, Live, LivePhase, OnTask
<1>3. ASSUME NEW ph \in {"working", "failing"}, Goto(r, ph),
             UNCHANGED <<mem, disk>>
      PROVE  TInv'
  BY <1>1, <1>2, <1>3, MoveTimeline
<1>4. ASSUME RunExists(mem, r),
             NEW o \in ActiveOverrides(mem, mem.runTask[r], expired),
             \/ PersistOK(ApplyOverrideEffect(mem, o)) /\ Goto(r, "working")
             \/ PersistFails(ApplyOverrideEffect(mem, o)) /\ Goto(r, "failing")
      PROVE  TInv'
  <2> DEFINE t == mem.runTask[r]
             n == ApplyOverrideEffect(mem, o)
  <2>1. o \in OverrideId /\ mem.ovTask[o] = t  BY DEF ActiveOverrides
  <2>2. t \in TaskId  BY <1>2, <1>4, OvertakenAgentFinds
  <2>3. /\ n \in ServiceStates
        /\ n.status = [mem.status EXCEPT ![t] =
                         IF mem.status[t] = "HUMAN_OVERRIDE"
                           THEN TransitionTo(mem.status[t], "IN_PROGRESS")
                           ELSE mem.status[t]]
        /\ n.task = mem.task /\ n.run = mem.run /\ n.runTask = mem.runTask
        /\ n.sandbox = mem.sandbox /\ n.artifact = mem.artifact
    BY <1>1, <2>1, <2>2, ApplyOverrideFields
  <2>4. SameTimeline(n, mem)  BY <1>1, ApplyOverrideChanges
  <2>5. mem' = n /\ (disk' = mem' \/ disk' = disk)
    BY <1>4 DEF PersistOK, PersistFails
  <2>6. AgentsStay  BY <1>2, <1>4, AgentsMove DEF OnTask
  <2> HIDE DEF n
  <2>7. n.status = [mem.status EXCEPT ![t] =
                      IF Worked(mem, t) THEN "IN_PROGRESS" ELSE @]
    BY <1>1, <2>3
       DEF Worked, TransitionTo, IsAllowedTransition, AllowedTransitions
  <2>8. Sound(n, last)  BY <1>1, <2>2, <2>3, <2>7, PauseSound
  <2>9. \A q \in RunId : RunExists(mem', q) => RunExists(mem, q)
    BY <2>3, <2>5 DEF RunExists
  <2> QED
    BY <1>1, <1>2, <2>3, <2>4, <2>5, <2>6, <2>8, <2>9, EngineStep
<1> QED  BY <1>3, <1>4 DEF Checkpoint

\* A goroutine settles the run that it found, and exits.
LEMMA SettleTimeline ==
    ASSUME TInv, NEW r \in RunId, Live(r), Goto(r, "exited"), RunExists(mem, r),
           NEW n, NEW won \in BOOLEAN, Settled(n, mem, r, mem.runTask[r], won),
           SameTimeline(n, mem), Persist(n), UNCHANGED <<last, expired>>
    PROVE  TInv'
<1>1. /\ mem \in ServiceStates /\ Sound(mem, last) /\ last \in LastType
      /\ last.task <= last.task /\ last.run <= last.run
      /\ expired \subseteq OverrideId
  BY MemorySound DEF TInv
<1>2. mem.run[r] = "RUNNING"  BY OvertakenAgentFinds
<1>3. Sound(n, last)  BY <1>1, <1>2, SettleSound
<1>4. mem' = n /\ (disk' = mem' \/ disk' = disk)  BY PersistStep
<1>5. AgentsStay /\ agent'[r].phase = "exited"
  BY AgentsMove DEF Phase, OnTask
<1>6. /\ n.runTask = mem.runTask
      /\ \A q \in RunId \ {r} : n.run[q] = mem.run[q]
  BY DEF Settled
<1>7. \A q \in RunId : RunExists(mem', q) => RunExists(mem, q)
  BY <1>4, <1>6 DEF RunExists
<1>8. \A q \in RunId : agent'[q].phase \in LivePhase => mem'.run[q] = mem.run[q]
  BY <1>4, <1>5, <1>6 DEF LivePhase
<1> QED  BY <1>1, <1>3, <1>4, <1>5, <1>6, <1>7, <1>8, EngineStep

\* The last critical section of executeRun, and failRun.
LEMMA ExitTimeline ==
    ASSUME TInv, NEW r \in RunId, CompleteRun(r) \/ FailRun(r)
    PROVE  TInv'
<1>1. mem \in ServiceStates  BY MemorySound
<1>2. /\ SameWork(mem, mem) /\ SameTimeline(mem, mem) /\ "exited" \in Phase
      /\ "exited" \notin OnTask /\ Live(r) /\ Goto(r, "exited")
      /\ UNCHANGED <<last, expired>>
  BY DEF SameWork, SameTimeline, Phase, OnTask, CompleteRun, FailRun, Live,
         LivePhase
<1>3. CASE UNCHANGED <<mem, disk>>  BY <1>1, <1>2, <1>3, MoveTimeline
<1>4. CASE CompleteRun(r) /\ RunExists(mem, r)
  <2> DEFINE n == CompleteRunEffect(mem, r, mem.runTask[r])
  <2>1. agent[r].phase \in OnTask  BY <1>4 DEF CompleteRun, OnTask
  <2>2. /\ mem.runTask[r] \in TaskId /\ Worked(mem, mem.runTask[r])
        /\ agent[r].task = mem.runTask[r]
    BY <1>2, <1>4, <2>1, OvertakenAgentFinds
  <2>3. Persist(n)  BY <1>4, <2>2 DEF CompleteRun, TaskExists, Worked
  <2>4. Settled(n, mem, r, mem.runTask[r], TRUE)
    BY <1>1, <2>2, CompleteRunFields
  <2>5. SameTimeline(n, mem)  BY <1>1, RunsUntouched DEF Untouched
  <2> HIDE DEF n
  <2> QED  BY <1>2, <1>4, <2>3, <2>4, <2>5, SettleTimeline
<1>5. CASE FailRun(r) /\ RunExists(mem, r)
  <2> DEFINE n == FailRunEffect(mem, r)
  <2>1. /\ mem.runTask[r] \in TaskId /\ Worked(mem, mem.runTask[r])
        /\ ~mem.artifact[r]
    BY <1>2, <1>5, OvertakenAgentFinds
  <2>2. Persist(n)  BY <1>5 DEF FailRun
  <2>3. Settled(n, mem, r, mem.runTask[r], FALSE)
    BY <1>1, <2>1, FailRunFields
  <2>4. SameTimeline(n, mem)  BY <1>1, RunsUntouched DEF Untouched
  <2> HIDE DEF n
  <2> QED  BY <1>2, <1>5, <2>2, <2>3, <2>4, SettleTimeline
<1> QED  BY <1>3, <1>4, <1>5 DEF CompleteRun, FailRun

\* New loads the file, which may hold an older or a newer timeline.
LEMMA RestartTimeline ==
    ASSUME TInv, Restart
    PROVE  TInv'
<1>1. /\ disk \in Copies /\ disk \in ServiceStates /\ Branches(disk)
      /\ agent \in AgentType /\ \A p \in States(disk) : p \in Copies
  BY MemorySound DEF TInv
<1>2. /\ mem' = disk /\ disk' = disk /\ last' = last /\ expired' = expired
      /\ agent' = [r \in RunId |-> IF Live(r) THEN NoAgent ELSE agent[r]]
  BY DEF Restart
<1>3. agent' \in AgentType  BY <1>1, <1>2 DEF AgentType, NoAgent, Phase
<1>4. \A r \in RunId : agent'[r].phase \notin LivePhase
  BY <1>2 DEF Live, LivePhase, NoAgent
<1>5. AgentsStay  BY <1>3, <1>4 DEF AgentsStay
<1>6. SameWork(disk, disk)  BY DEF SameWork
<1> QED  BY <1>1, <1>2, <1>5, <1>6, CopyStep

-----------------------------------------------------------------------------
(***************************************************************************)
(* Merges and rollbacks preserve the invariant.                            *)
(***************************************************************************)

\* The maps a rollback of s to its i-th snapshot can leave, where s has the
\* timeline of the memory.
LEMMA ReturnTimeline ==
    ASSUME TInv, NEW s \in ServiceStates, SameTimeline(s, mem),
           NEW i \in 1..Len(mem.snaps), NEW n,
           n = RollbackEffect(s, i) \/ n \in RollbackFailures(s, i),
           mem' = n, disk' = mem' \/ disk' = disk,
           UNCHANGED <<agent, last, expired>>
    PROVE  TInv'
<1> DEFINE p == s.snaps[i].state
<1>1. mem \in ServiceStates /\ \A c \in States(mem) : c \in Copies
  BY MemorySound
<1>2. s.snaps = mem.snaps /\ i \in 1..Len(s.snaps)  BY DEF SameTimeline
<1>3. p \in Copies  BY <1>1, <1>2 DEF States
<1>4. \A c \in States(s) : c \in Copies  BY <1>1, <1>2 DEF States
<1>5. Branches(s)
  <2>1. mem.branchSeq <= s.branchSeq  BY <1>1, TimelineTypes DEF SameTimeline
  <2> QED  BY <1>1, <2>1, BranchesCounted DEF SameTimeline, TInv
<1> HIDE DEF p
<1>6. CASE n \in RollbackFailures(s, i)
  <2>1. /\ n \in ServiceStates /\ SameWork(n, p) /\ n.snaps = s.snaps
        /\ Branches(n)
    BY <1>2, <1>5, <1>6, RollbackFields DEF Returned, p
  <2>2. \A c \in States(n) : c \in Copies  BY <1>4, <2>1 DEF States
  <2> QED  BY <1>3, <2>1, <2>2, AgentsSame, CopyStep
<1>7. CASE n = RollbackEffect(s, i)
  <2>1. Branches(n)  BY <1>2, <1>5, <1>7, RollbackFields
  <2>2. PICK w : /\ w \in ServiceStates /\ Returned(w, s, i)
                 /\ Recorded(n, w, s.branchSeq + 1, i)
    BY <1>2, <1>5, <1>7, RollbackFields
  <2>3. n \in ServiceStates /\ SameWork(n, p)
    BY <2>2 DEF Returned, Recorded, SameWork, p
  <2>4. w.snaps = s.snaps  BY <2>2 DEF Returned
  <2>5. \A c \in States(n) : c \in Copies \/ SameWork(c, n)
    <3> SUFFICES ASSUME NEW j \in 1..Len(n.snaps)
                 PROVE  \/ n.snaps[j].state \in Copies
                        \/ SameWork(n.snaps[j].state, n)
      BY DEF States
    <3>1. Len(s.snaps) \in Nat  BY TimelineTypes
    <3>2. j \in 1..Len(s.snaps) \/ j = Len(s.snaps) + 1
      BY <2>2, <2>4, <3>1 DEF Recorded
    <3>3. CASE j \in 1..Len(s.snaps)
      BY <1>4, <2>2, <2>4, <3>3 DEF Recorded, States
    <3>4. CASE j = Len(s.snaps) + 1  BY <2>2, <2>4, <3>4 DEF Recorded
    <3> QED  BY <3>2, <3>3, <3>4
  <2> QED  BY <1>3, <2>1, <2>3, <2>5, AgentsSame, CopyStep
<1> QED  BY <1>6, <1>7

\* RollbackToSnapshot, to its end or left half-way.
LEMMA RollbackTimeline ==
    ASSUME TInv, NEW i \in 1..Len(mem.snaps),
           RollbackToSnapshot(i) \/ RollbackToSnapshotFails(i)
    PROVE  TInv'
<1>1. mem \in ServiceStates /\ SameTimeline(mem, mem)
  BY MemorySound DEF SameTimeline
<1>2. CASE RollbackToSnapshot(i)
  <2>1. /\ mem' = RollbackEffect(mem, i) /\ (disk' = mem' \/ disk' = disk)
        /\ UNCHANGED <<agent, last, expired>>
    BY <1>2, PersistStep DEF RollbackToSnapshot
  <2> QED  BY <1>1, <2>1, ReturnTimeline
<1>3. CASE RollbackToSnapshotFails(i)
  <2>1. /\ mem' \in RollbackFailures(mem, i) /\ disk' = disk
        /\ UNCHANGED <<agent, last, expired>>
    BY <1>3 DEF RollbackToSnapshotFails
  <2> QED  BY <1>1, <2>1, ReturnTimeline
<1> QED  BY <1>2, <1>3

\* MergeToSharedSandbox, with each of its outcomes.
LEMMA MergeTimeline ==
    ASSUME TInv, MergeToSharedSandbox
    PROVE  TInv'
<1> DEFINE b == Blocked(mem)
           m == AddShared(mem, "RELEASED")
<1>1. /\ mem \in ServiceStates /\ mem \in Copies /\ last \in LastType
      /\ \A c \in States(mem) : c \in Copies
  BY MemorySound
<1>2. /\ b \in ServiceStates /\ SameWork(b, mem) /\ SameTimeline(b, mem)
      /\ b.contracts = mem.contracts
  BY <1>1, AddSharedFields DEF Blocked, SandboxStatus
<1>3. m \in ServiceStates /\ SameWork(m, mem) /\ SameTimeline(m, mem)
  BY <1>1, AddSharedFields DEF SandboxStatus
<1>4. agent' = agent /\ expired' = expired /\ AgentsStay
  BY AgentsSame DEF MergeToSharedSandbox
<1> HIDE DEF b, m
<1>5. ASSUME NEW n \in {b, m}, Persist(n), UNCHANGED last
      PROVE  TInv'
  <2>1. mem' = n /\ (disk' = mem' \/ disk' = disk)  BY <1>5, PersistStep
  <2>2. n \in ServiceStates /\ SameWork(n, mem) /\ SameTimeline(n, mem)
    BY <1>2, <1>3
  <2> QED  BY <1>4, <1>5, <2>1, <2>2, SameWorkTimeline
<1>6. ASSUME NEW c \in 1..Len(mem.contracts), MergeBlockedByContract(c)
      PROVE  TInv'
  <2> DEFINE t == last.task + 1
             n == RemediationEffect(b, t, c)
  <2>1. /\ last.task \in 0..MaxTasks /\ MaxTasks \in Nat
    BY <1>1, BoundsAssumption DEF LastType
  <2>2. /\ last.task < MaxTasks /\ Persist(n)
        /\ last' = [last EXCEPT !.task = last.task + 1]
    BY <1>6 DEF MergeBlockedByContract, b
  <2>3. t \in TaskId /\ last.task + 1 <= MaxTasks /\ 1 \in Nat
        /\ {t} = (last.task + 1)..(last.task + 1)
    BY <2>1, <2>2 DEF TaskId
  <2>4. AddedTasks(n, b, {t})  BY <1>2, <2>3, RemediationFields
  <2>5. Untouched(n, b)  BY <1>2, NewTaskUntouched
  <2> HIDE DEF n, t
  <2>6. AddedTasks(n, mem, {t})  BY <1>2, <2>4 DEF AddedTasks, SameWork
  <2>7. SameTimeline(n, mem)  BY <1>2, <2>5 DEF Untouched, SameTimeline
  <2> QED  BY <1>4, <2>2, <2>3, <2>6, <2>7, NewTasksTimeline
<1>7. CASE MergeBlockedByManifest  BY <1>5, <1>7 DEF MergeBlockedByManifest, b
<1>8. CASE IntegrationFails
  <2>1. UNCHANGED last  BY <1>8 DEF IntegrationFails
  <2>2. mem.stable # NoId => mem.stable \in 1..Len(mem.snaps)
    BY <1>1, TimelineTypes DEF TInv, Branches, NoId
  <2>3. CASE Persist(b)  BY <1>5, <2>1, <2>3
  <2>4. ASSUME NEW n, Persist(n), mem.stable # NoId,
               \/ n = RollbackEffect(b, mem.stable)
               \/ n \in RollbackFailures(b, mem.stable)
        PROVE  TInv'
    <3>1. mem' = n /\ (disk' = mem' \/ disk' = disk)  BY <2>4, PersistStep
    <3> QED  BY <1>2, <1>4, <2>1, <2>2, <2>4, <3>1, ReturnTimeline
  <2> QED  BY <1>8, <2>3, <2>4 DEF IntegrationFails, b
<1>9. CASE MergeSucceeds
  <2>1. UNCHANGED last  BY <1>9 DEF MergeSucceeds
  <2> DEFINE ws == IF GitWorkspace THEN "shared" ELSE "none"
             k == Len(mem.snaps)
             n == RecordSnapshot(m, mem.branch, k, TRUE, ws)
  <2>2. CASE Persist(m)  BY <1>5, <2>1, <2>2
  <2>3. CASE Persist(n)
    <3>1. mem' = n /\ (disk' = mem' \/ disk' = disk)
      <4> HIDE DEF n
      <4> QED  BY <2>3, PersistStep
    <3>2. k \in Nat /\ mem.branch \in Nat /\ mem.branchSeq \in Nat
      BY <1>1, TimelineTypes
    <3>3. ws \in {"none", "shared", "rollback"}  OBVIOUS
    <3> HIDE DEF ws
    <3>4. Recorded(n, m, mem.branch, k)
      BY <1>3, <3>2, <3>3, RecordSnapshotFields
    <3>5. m.snaps = mem.snaps /\ m.branch = mem.branch
          /\ m.branchSeq = mem.branchSeq
      BY <1>3 DEF SameTimeline
    <3>6. Branches(m)
      <4>1. mem.branchSeq <= m.branchSeq  BY <3>2, <3>5
      <4> QED  BY <1>1, <1>3, <4>1, BranchesCounted DEF SameTimeline, TInv
    <3> HIDE DEF n
    <3>7. Branches(n)
      <4>1. mem.branch <= m.branchSeq  BY <3>5 DEF TInv, Branches
      <4>2. k <= Len(m.snaps) /\ k = Len(m.snaps)  BY <3>2, <3>5
      <4> HIDE DEF k
      <4> QED  BY <1>3, <3>2, <3>4, <3>5, <3>6, <4>1, <4>2, BranchesRecorded
    <3>8. n \in ServiceStates /\ SameWork(n, mem)
      BY <1>3, <3>4 DEF Recorded, SameWork
    <3>9. \A c \in States(n) : c \in Copies \/ SameWork(c, n)
      <4> SUFFICES ASSUME NEW j \in 1..Len(n.snaps)
                   PROVE  \/ n.snaps[j].state \in Copies
                          \/ SameWork(n.snaps[j].state, n)
        BY DEF States
      <4>1. j \in 1..k \/ j = k + 1  BY <3>2, <3>4, <3>5 DEF Recorded
      <4>2. CASE j \in 1..k  BY <1>1, <3>4, <3>5, <4>2 DEF Recorded, States
      <4>3. CASE j = k + 1  BY <3>4, <3>5, <4>3 DEF Recorded
      <4> QED  BY <4>1, <4>2, <4>3
    <3> QED  BY <1>1, <1>4, <2>1, <3>1, <3>7, <3>8, <3>9, CopyStep
  <2> QED  BY <1>9, <2>2, <2>3 DEF MergeSucceeds, m
<1> QED  BY <1>6, <1>7, <1>8, <1>9 DEF MergeToSharedSandbox

-----------------------------------------------------------------------------
(***************************************************************************)
(* The theorems.                                                           *)
(***************************************************************************)

\* A new project has no run, no snapshot and the branch "main".
LEMMA TimelineInit == Init => TInv
<1> SUFFICES ASSUME Init PROVE TInv  OBVIOUS
<1>1. IInv  BY InitInv
<1>2. /\ EmptyState.snaps = <<>> /\ EmptyState.branch = 0
      /\ EmptyState.stable = 0 /\ EmptyState.branchSeq = 0
  BY DEF EmptyState, NoId
<1>3. Branches(EmptyState)  BY <1>2 DEF Branches
<1>4. Copies = {EmptyState}  BY <1>2 DEF Init, Copies, States
<1>5. Restorable(EmptyState, last)
  BY <1>1 DEF Init, IInv, Sound, Restorable
<1>6. RunsKeepTask  BY <1>4 DEF RunsKeepTask
<1>7. AgentsUnsettled
  BY DEF Init, AgentsUnsettled, Live, LivePhase, NoAgent
<1> QED
  BY <1>1, <1>3, <1>4, <1>5, <1>6, <1>7 DEF Init, TInv, IInv, Sound

\* One step of the service, the goroutines, the clock, a restart, a merge or a
\* rollback.
LEMMA TimelineNextInv == TInv /\ [TimelineNext]_vars => TInv'
<1> SUFFICES ASSUME TInv, [TimelineNext]_vars PROVE TInv'  OBVIOUS
<1>1. CASE UNCHANGED vars
  BY <1>1 DEF vars, TInv, Copies, States, RunsKeepTask, AgentsUnsettled, Live
<1>2. CASE Handler
  BY <1>2, PlanningTimeline, OperatorTimeline, StartTimeline DEF Handler
<1>3. CASE \E o \in OverrideId : ExpireLease(o)  BY <1>3, OperatorTimeline
<1>4. CASE \E r \in RunId : AgentStep(r)
  BY <1>4, PrepareTimeline, WorkTimeline, CheckpointTimeline, ExitTimeline
     DEF AgentStep
<1>5. CASE Restart  BY <1>5, RestartTimeline
<1>6. CASE \E i \in 1..Len(mem.snaps) :
             RollbackToSnapshot(i) \/ RollbackToSnapshotFails(i)
  BY <1>6, RollbackTimeline
<1>7. CASE MergeToSharedSandbox  BY <1>7, MergeTimeline
<1> QED  BY <1>1, <1>2, <1>3, <1>4, <1>5, <1>6, <1>7 DEF TimelineNext, Next

\* The invariant of the timeline holds in every state of every behaviour.
THEOREM TimelineInvariance == TimelineSpec => []TInv
BY TimelineInit, TimelineNextInv, PTL DEF TimelineSpec

\* Rollbacks, merges and restarts under running goroutines leave the tasks, the
\* runs, the private sandboxes and the artifacts in agreement, in memory and in
\* the file, and no run without the tasks that its task depends on.
THEOREM TimelineAgrees ==
    TimelineSpec => []RunsAndTasksAgree /\ []DependenciesDone
<1>1. TInv => RunsAndTasksAgree /\ DependenciesDone
  BY DEF TInv, Copies, Restorable, RunsAndTasksAgree, DependenciesDone
<1> QED  BY <1>1, TimelineInvariance, PTL

\* Every snapshot, also one in a file that a restart would load, is a coherent
\* state that RollbackToSnapshot may put back.
THEOREM SnapshotsCoherent == TimelineSpec => []SnapshotsAgree
<1>1. TInv => SnapshotsAgree
  <2> SUFFICES ASSUME TInv, NEW s \in {mem, disk}, NEW i \in 1..Len(s.snaps)
               PROVE  Agreement(s.snaps[i].state) /\ Ordering(s.snaps[i].state)
    BY DEF SnapshotsAgree
  <2>1. s.snaps[i].state \in Copies  BY DEF Copies, States
  <2> QED  BY <2>1 DEF TInv, Restorable
<1> QED  BY <1>1, TimelineInvariance, PTL

\* A goroutine of executeRun that a rollback has overtaken never finds an
\* outcome, so it overwrites none.
THEOREM NoOutcomeOverwritten == TimelineSpec => []OvertakenAgentFindsNoOutcome
<1>1. TInv => OvertakenAgentFindsNoOutcome
  BY DEF TInv, Copies, AgentsUnsettled, OvertakenAgentFindsNoOutcome
<1> QED  BY <1>1, TimelineInvariance, PTL

\* nextRollbackBranchLocked gives every rollback a branch that no earlier
\* snapshot is on.
THEOREM BranchesDistinct == TimelineSpec => []RollbackBranchesDistinct
<1>1. TInv => RollbackBranchesDistinct
  BY DEF TInv, Branches, RollbackBranchesDistinct
<1> QED  BY <1>1, TimelineInvariance, PTL
=============================================================================
