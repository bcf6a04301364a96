------------------------ MODULE PostgresEngineProofs ------------------------
(***************************************************************************)
(* Proofs about PostgresEngine, for every value of the bounds and every    *)
(* set of environments: whatever fails and whatever is read, a goroutine   *)
(* owns a row that is stored as running, and a stored task survives unless *)
(* a load fails; in a trusted environment a restart finds tables and       *)
(* document in agreement, and the tables implement Board; in an            *)
(* undisturbed environment the three copies are one.                       *)
(*                                                                         *)
(* The orders taskOrder and runOrder, and the positions of the rows, have  *)
(* a part in the last only (Ordered) and are untyped otherwise.            *)
(***************************************************************************)
EXTENDS PostgresEngine, ServiceStateProofs, FiniteSetTheorems

-----------------------------------------------------------------------------
(***************************************************************************)
(* The invariant of every environment.                                     *)
(***************************************************************************)
IsMaps(m) ==
    m \in [s: ServiceStates, projects: SUBSET Projects,
           taskOrder: {m.taskOrder}, runOrder: {m.runOrder}]

IsRows(rw) ==
    rw \in [projects  : SUBSET Projects,
            reqs      : Nat,
            plans     : Seq(Nat),
            contracts : Seq(Nat),
            status    : [TaskId -> TaskStatus \cup {"ABSENT"}],
            task      : [TaskId -> TaskSpec],
            taskAt    : {rw.taskAt},
            run       : [RunId -> RunStatus \cup {"ABSENT"}],
            runTask   : [RunId -> TaskId \cup {NoId}],
            runAt     : {rw.runAt},
            artifact  : [RunId -> BOOLEAN]]

\* A copy has runs and artifacts only of identifiers that were handed out, and
\* a run that it has is of a task.
Known(x, l) ==
    \A r \in RunId :
        /\ x.run[r] # "ABSENT" => r <= l.run /\ x.runTask[r] \in TaskId
        /\ x.artifact[r] => r <= l.run

LastIds == [task: 0..MaxTasks, run: 0..MaxRuns, override: 0..MaxOverrides,
            projects: SUBSET Projects]
Agents == [RunId -> [phase: Phase, task: TaskId \cup {NoId}]]

\* The reads of one run, and the phases that work with the task looked up.
RunReads == {"run", "export", "download"}
OnTask == {"prepared", "cleared", "working", "finishing"}

\* The three copies.
Copies(m, rw, lg, l) ==
    /\ IsMaps(m) /\ IsRows(rw) /\ IsMaps(lg)
    /\ Known(m.s, l) /\ Known(rw, l) /\ Known(lg.s, l)

\* A read that waits has the rows of runs that were there.
Waiting(rd, l, isUp) ==
    /\ rd.kind \in ReadKind \cup {"none"} /\ IsRows(rd.rows) /\ Known(rd.rows, l)
    /\ rd.kind # "none" => isUp
    /\ rd.kind \in RunReads => rd.run \in RunId /\ rd.run <= l.run

\* Nobody but its goroutine settles the run of a goroutine, and no read that
\* waits has another status of it.
Owned(ag, m, rw, rd, isUp) ==
    \A r \in RunId : ag[r].phase \notin {"none", "exited"} =>
        /\ isUp /\ m.s.run[r] = "RUNNING" /\ rw.run[r] = "RUNNING"
        /\ rd.kind \in RunReads /\ rd.run = r => rd.rows.run[r] = "RUNNING"
        /\ ag[r].phase \in OnTask => ag[r].task \in TaskId

\* The maps have the tasks of the rows.
Covered(m, rw) ==
    \A t \in TaskId : rw.status[t] # "ABSENT" => m.s.status[t] # "ABSENT"

IInv ==
    /\ env \in Environments /\ last \in LastIds /\ agent \in Agents
    /\ up \in BOOLEAN
    /\ Copies(mem, rows, legacy, last)
    /\ Waiting(reading, last, up)
    /\ Owned(agent, mem, rows, reading, up)
    /\ ~Can("load") /\ up => Covered(mem, rows)

-----------------------------------------------------------------------------
(***************************************************************************)
(* The invariant of a trusted environment.                                 *)
(***************************************************************************)
Ids(l) == [task |-> l.task, run |-> l.run, override |-> l.override]

\* The maps that LoadState makes of rows rw and a document with the maps s.
Loaded(rw, s) ==
    [s EXCEPT !.reqs = rw.reqs, !.plans = rw.plans, !.contracts = rw.contracts,
              !.status = rw.status, !.task = rw.task, !.run = rw.run,
              !.runTask = rw.runTask, !.artifact = rw.artifact]

\* The maps s are ahead of the rows in tasks that are started or paused, and in
\* runs that were never stored; a stored run and a task that is done are equal.
Ahead(s, rw) ==
    /\ Forward(rw, s)
    /\ \A t \in TaskId : /\ rw.status[t] = "ABSENT" => s.status[t] = "ABSENT"
                         /\ s.status[t] = "DONE" => rw.status[t] = "DONE"
    /\ \A r \in RunId : /\ rw.run[r] # "ABSENT" => s.run[r] = rw.run[r]
                        /\ s.artifact[r] = rw.artifact[r]

\* A read that waits has nothing that the rows have not.
Current(rd, rw) ==
    /\ rd.kind \in {"export", "download"} => rw.artifact[rd.run]
    /\ rd.kind = "export" /\ rd.rows.run[rd.run] = "SUCCEEDED" =>
         /\ rw.run[rd.run] = "SUCCEEDED"
         /\ rd.rows.runTask[rd.run] = rw.runTask[rd.run]

Agreed(m, rw, lg, l, isUp) ==
    /\ Sound(lg.s, Ids(l)) /\ Sound(Loaded(rw, lg.s), Ids(l))
    /\ isUp => Sound(m.s, Ids(l)) /\ Ahead(m.s, rw)

TrustInv ==
    Trusted =>
        /\ Agreed(mem, rows, legacy, last, up)
        /\ reading.kind \notin {"tasks", "run"} /\ Current(reading, rows)
        /\ \A r \in RunId : Live(r) /\ agent[r].phase \in OnTask =>
             agent[r].task = rows.runTask[r]

-----------------------------------------------------------------------------
(***************************************************************************)
(* The invariant of an environment in which nothing disturbs the copies:   *)
(* the maps can be saved and loaded, sandboxes are created and nobody      *)
(* reads.  Transactions and the runtime may still fail, and the process    *)
(* may stop.                                                               *)
(***************************************************************************)
Undisturbed ==
    env.faults \cap {"save", "load", "sandbox"} = {} /\ env.reads = {}

\* An order has no more than the identifiers handed out.
Order(o, top) ==
    /\ o \in Seq(Nat) /\ Len(o) <= top
    /\ \A i \in 1..Len(o) : 1 <= o[i] /\ o[i] <= top

Ordered(m, l) == Order(m.taskOrder, l.task) /\ Order(m.runOrder, l.run)

Stored(m, rw, lg) ==
    /\ rw = RowsOf(m)
    /\ lg = [m EXCEPT !.s.faults = lg.s.faults]
    /\ m.s.faults \subseteq lg.s.faults

StoredInv ==
    Undisturbed =>
        /\ reading.kind = "none" /\ Ordered(legacy, last)
        /\ IF up THEN Stored(mem, rows, legacy)
                 ELSE rows \in {RowsOf(legacy), RowsOf(Blank)}

-----------------------------------------------------------------------------
(***************************************************************************)
(* The fields of the copies after each way to write them.                  *)
(***************************************************************************)

\* The maps of a project inside the maps of the process.
LEMMA MapsFields ==
    ASSUME NEW m, IsMaps(m)
    PROVE  m.s \in ServiceStates /\ m.projects \in SUBSET Projects
BY DEF IsMaps

\* The types of the columns.
LEMMA RowsFields ==
    ASSUME NEW rw, IsRows(rw)
    PROVE  /\ rw.status \in [TaskId -> TaskStatus \cup {"ABSENT"}]
           /\ rw.task \in [TaskId -> TaskSpec]
           /\ rw.run \in [RunId -> RunStatus \cup {"ABSENT"}]
           /\ rw.runTask \in [RunId -> TaskId \cup {NoId}]
           /\ rw.artifact \in [RunId -> BOOLEAN]
           /\ rw.reqs \in Nat /\ rw.plans \in Seq(Nat)
           /\ rw.contracts \in Seq(Nat) /\ rw.projects \in SUBSET Projects
BY DEF IsRows

\* A handler that replaces the maps of the project.
LEMMA MapsWithState ==
    ASSUME NEW m, IsMaps(m), NEW s \in ServiceStates
    PROVE  IsMaps([m EXCEPT !.s = s]) /\ [m EXCEPT !.s = s].s = s
BY ZenonT(60) DEF IsMaps

\* SaveTasks appends to taskOrder, StartRuns to runOrder.
LEMMA MapsWithTasks ==
    ASSUME NEW m, IsMaps(m), NEW s \in ServiceStates, NEW o
    PROVE  /\ IsMaps([m EXCEPT !.s = s, !.taskOrder = o])
           /\ [m EXCEPT !.s = s, !.taskOrder = o].s = s
BY ZenonT(60) DEF IsMaps

LEMMA MapsWithRuns ==
    ASSUME NEW m, IsMaps(m), NEW s \in ServiceStates, NEW o
    PROVE  /\ IsMaps([m EXCEPT !.s = s, !.runOrder = o])
           /\ [m EXCEPT !.s = s, !.runOrder = o].s = s
BY ZenonT(60) DEF IsMaps

\* CreateProject and ListProjects change the projects.
LEMMA MapsWithProjects ==
    ASSUME NEW m, IsMaps(m), NEW ps \in SUBSET Projects
    PROVE  /\ IsMaps([m EXCEPT !.projects = ps])
           /\ [m EXCEPT !.projects = ps].s = m.s
BY ZenonT(60) DEF IsMaps

\* The two copies have the same tasks and runs in their tables.
SameRows(x, y) ==
    /\ x.status = y.status /\ x.task = y.task
    /\ x.run = y.run /\ x.runTask = y.runTask /\ x.artifact = y.artifact

\* saveServiceStateProjection.
LEMMA RowsOfFields ==
    ASSUME NEW m, IsMaps(m)
    PROVE  IsRows(RowsOf(m)) /\ SameRows(RowsOf(m), m.s)
<1>1. m.s \in ServiceStates /\ m.projects \in SUBSET Projects  BY MapsFields
<1>2. /\ m.s.reqs \in Nat /\ m.s.plans \in Seq(Nat) /\ m.s.contracts \in Seq(Nat)
      /\ m.s.status \in [TaskId -> TaskStatus \cup {"ABSENT"}]
      /\ m.s.task \in [TaskId -> TaskSpec]
      /\ m.s.run \in [RunId -> RunStatus \cup {"ABSENT"}]
      /\ m.s.runTask \in [RunId -> TaskId \cup {NoId}]
      /\ m.s.artifact \in [RunId -> BOOLEAN]
  BY <1>1 DEF ServiceStates
<1> QED  BY <1>1, <1>2, ZenonT(60) DEF RowsOf, IsRows, SameRows

\* loadServiceStateProjection.
LEMMA LoadedFields ==
    ASSUME NEW rw, IsRows(rw), NEW s \in ServiceStates
    PROVE  /\ Loaded(rw, s) \in ServiceStates
           /\ SameRows(Loaded(rw, s), rw) /\ Loaded(rw, s).sandbox = s.sandbox
<1>1. /\ rw.reqs \in Nat /\ rw.plans \in Seq(Nat) /\ rw.contracts \in Seq(Nat)
      /\ rw.status \in [TaskId -> TaskStatus \cup {"ABSENT"}]
      /\ rw.task \in [TaskId -> TaskSpec]
      /\ rw.run \in [RunId -> RunStatus \cup {"ABSENT"}]
      /\ rw.runTask \in [RunId -> TaskId \cup {NoId}]
      /\ rw.artifact \in [RunId -> BOOLEAN]
  BY RowsFields
<1> QED  BY <1>1, ZenonT(60) DEF Loaded, ServiceStates, SameRows

LEMMA LoadFields ==
    ASSUME NEW rw, IsRows(rw), NEW m, IsMaps(m)
    PROVE  /\ IsMaps(loadServiceStateProjection(rw, m))
           /\ loadServiceStateProjection(rw, m).s = Loaded(rw, m.s)
<1> DEFINE n == loadServiceStateProjection(rw, m)
<1>1. m.s \in ServiceStates  BY MapsFields
<1>2. Loaded(rw, m.s) \in ServiceStates  BY <1>1, LoadedFields
<1>3. rw.projects \in SUBSET Projects  BY RowsFields
<1>4. n = [m EXCEPT !.projects = rw.projects, !.s = Loaded(rw, m.s),
                    !.taskOrder = loadOrder(rw.taskAt),
                    !.runOrder = loadOrder(rw.runAt)]
  BY DEF loadServiceStateProjection, Loaded
<1> HIDE DEF n
<1>5. IsMaps(n) /\ n.s = Loaded(rw, m.s)
  BY <1>2, <1>3, <1>4, ZenonT(60) DEF IsMaps
<1> QED  BY <1>5 DEF n

\* The repositories of projects, requirements, plans and contracts.
LEMMA RowsWithProjects ==
    ASSUME NEW rw, IsRows(rw), NEW ps \in SUBSET Projects
    PROVE  /\ IsRows([rw EXCEPT !.projects = ps])
           /\ SameRows([rw EXCEPT !.projects = ps], rw)
BY ZenonT(60) DEF IsRows, SameRows

LEMMA RowsWithReqs ==
    ASSUME NEW rw, IsRows(rw)
    PROVE  /\ IsRows([rw EXCEPT !.reqs = @ + 1])
           /\ SameRows([rw EXCEPT !.reqs = @ + 1], rw)
<1>1. rw.reqs + 1 \in Nat  BY RowsFields
<1> QED  BY <1>1, ZenonT(60) DEF IsRows, SameRows

LEMMA RowsWithPlan ==
    ASSUME NEW rw, IsRows(rw), NEW q \in Nat
    PROVE  /\ IsRows([rw EXCEPT !.plans = Append(@, q)])
           /\ SameRows([rw EXCEPT !.plans = Append(@, q)], rw)
<1>1. Append(rw.plans, q) \in Seq(Nat)  BY RowsFields
<1> QED  BY <1>1, ZenonT(60) DEF IsRows, SameRows

LEMMA RowsWithContract ==
    ASSUME NEW rw, IsRows(rw), NEW p \in Nat
    PROVE  /\ IsRows([rw EXCEPT !.contracts = Append(@, p)])
           /\ SameRows([rw EXCEPT !.contracts = Append(@, p)], rw)
<1>1. Append(rw.contracts, p) \in Seq(Nat)  BY RowsFields
<1> QED  BY <1>1, ZenonT(60) DEF IsRows, SameRows

\* insertRepositoryTask: the rows of the new tasks are those of the maps.
LEMMA InsertTasksFields ==
    ASSUME NEW rw, IsRows(rw), NEW c, IsMaps(c), NEW new
    PROVE  LET n == InsertTasks(rw, c, new)
           IN  /\ IsRows(n)
               /\ \A t \in TaskId :
                    /\ n.status[t] = IF t \in new THEN c.s.status[t]
                                                  ELSE rw.status[t]
                    /\ n.task[t] = IF t \in new THEN c.s.task[t] ELSE rw.task[t]
               /\ n.run = rw.run /\ n.runTask = rw.runTask
               /\ n.artifact = rw.artifact
<1> DEFINE n == InsertTasks(rw, c, new)
           st == [t \in TaskId |-> IF t \in new THEN c.s.status[t]
                                                ELSE rw.status[t]]
           tk == [t \in TaskId |-> IF t \in new THEN c.s.task[t] ELSE rw.task[t]]
           at == [i \in TaskId |->
                    IF i <= Len(c.taskOrder) /\ c.taskOrder[i] \in new
                      THEN c.taskOrder[i] ELSE rw.taskAt[i]]
<1>1. /\ st \in [TaskId -> TaskStatus \cup {"ABSENT"}]
      /\ tk \in [TaskId -> TaskSpec]
  BY RowsFields, MapsFields, FieldTypes
<1>2. n = [rw EXCEPT !.status = st, !.task = tk, !.taskAt = at]
  BY DEF InsertTasks
<1>3. \A t \in TaskId :
        /\ st[t] = IF t \in new THEN c.s.status[t] ELSE rw.status[t]
        /\ tk[t] = IF t \in new THEN c.s.task[t] ELSE rw.task[t]
  OBVIOUS
<1> HIDE DEF n, st, tk, at
<1>4. /\ IsRows(n) /\ n.status = st /\ n.task = tk
      /\ n.run = rw.run /\ n.runTask = rw.runTask /\ n.artifact = rw.artifact
  BY <1>1, <1>2, ZenonT(60) DEF IsRows
<1> QED  BY <1>3, <1>4 DEF n

\* updateRepositoryTask: rows that are there get the status of the maps.
LEMMA UpdateTasksFields ==
    ASSUME NEW rw, IsRows(rw), NEW c, IsMaps(c), NEW ts
    PROVE  LET n == UpdateTasks(rw, c, ts)
           IN  /\ IsRows(n)
               /\ \A t \in TaskId :
                    n.status[t] = IF t \in ts /\ rw.status[t] # "ABSENT"
                                    THEN c.s.status[t] ELSE rw.status[t]
               /\ n.task = rw.task /\ n.run = rw.run /\ n.runTask = rw.runTask
               /\ n.runAt = rw.runAt /\ n.artifact = rw.artifact
<1> DEFINE n == UpdateTasks(rw, c, ts)
           st == [t \in TaskId |-> IF t \in ts /\ rw.status[t] # "ABSENT"
                                     THEN c.s.status[t] ELSE rw.status[t]]
<1>1. st \in [TaskId -> TaskStatus \cup {"ABSENT"}]
  BY RowsFields, MapsFields, FieldTypes
<1>2. n = [rw EXCEPT !.status = st]  BY DEF UpdateTasks
<1>3. \A t \in TaskId : st[t] = IF t \in ts /\ rw.status[t] # "ABSENT"
                                  THEN c.s.status[t] ELSE rw.status[t]
  OBVIOUS
<1> HIDE DEF n, st
<1>4. /\ IsRows(n) /\ n.status = st /\ n.task = rw.task /\ n.run = rw.run
      /\ n.runTask = rw.runTask /\ n.runAt = rw.runAt /\ n.artifact = rw.artifact
  BY <1>1, <1>2, ZenonT(60) DEF IsRows
<1> QED  BY <1>3, <1>4 DEF n

\* updateRepositoryRun, likewise.
LEMMA UpdateRunFields ==
    ASSUME NEW rw, IsRows(rw), NEW c, IsMaps(c), NEW r \in RunId
    PROVE  LET n == UpdateRun(rw, c, r)
           IN  /\ IsRows(n)
               /\ \A q \in RunId :
                    n.run[q] = IF q = r /\ rw.run[r] # "ABSENT"
                                 THEN c.s.run[r] ELSE rw.run[q]
               /\ n.status = rw.status /\ n.task = rw.task
               /\ n.runTask = rw.runTask /\ n.artifact = rw.artifact
<1> DEFINE n == UpdateRun(rw, c, r)
           rn == [rw.run EXCEPT ![r] = IF rw.run[r] # "ABSENT" THEN c.s.run[r]
                                                              ELSE rw.run[r]]
<1>1. rn \in [RunId -> RunStatus \cup {"ABSENT"}]
  BY RowsFields, MapsFields, FieldTypes
<1>2. n = [rw EXCEPT !.run = rn]  BY ZenonT(60) DEF UpdateRun
<1>3. \A q \in RunId : rn[q] = IF q = r /\ rw.run[r] # "ABSENT"
                                 THEN c.s.run[r] ELSE rw.run[q]
  BY RowsFields
<1> HIDE DEF n, rn
<1>4. /\ IsRows(n) /\ n.run = rn /\ n.status = rw.status /\ n.task = rw.task
      /\ n.runTask = rw.runTask /\ n.artifact = rw.artifact
  BY <1>1, <1>2, ZenonT(60) DEF IsRows
<1> QED  BY <1>3, <1>4 DEF n

\* The row of an artifact.
LEMMA RowsWithArtifact ==
    ASSUME NEW rw, IsRows(rw), NEW r \in RunId
    PROVE  LET n == [rw EXCEPT !.artifact[r] = TRUE]
           IN  /\ IsRows(n)
               /\ \A q \in RunId : n.artifact[q] = (q = r \/ rw.artifact[q])
               /\ n.status = rw.status /\ n.task = rw.task /\ n.run = rw.run
               /\ n.runTask = rw.runTask
<1> DEFINE n == [rw EXCEPT !.artifact[r] = TRUE]
           ar == [rw.artifact EXCEPT ![r] = TRUE]
<1>1. ar \in [RunId -> BOOLEAN]  BY RowsFields
<1>2. n = [rw EXCEPT !.artifact = ar]  BY ZenonT(60)
<1>3. \A q \in RunId : ar[q] = (q = r \/ rw.artifact[q])  BY RowsFields
<1> HIDE DEF n, ar
<1>4. /\ IsRows(n) /\ n.artifact = ar /\ n.status = rw.status
      /\ n.task = rw.task /\ n.run = rw.run /\ n.runTask = rw.runTask
  BY <1>1, <1>2, ZenonT(60) DEF IsRows
<1> QED  BY <1>3, <1>4 DEF n

\* insertRepositoryRun: the rows of the new runs are those of the maps.
LEMMA InsertRunsFields ==
    ASSUME NEW rw, IsRows(rw), NEW c, IsMaps(c), NEW new
    PROVE  LET n == InsertRuns(rw, c, new)
           IN  /\ IsRows(n)
               /\ \A r \in RunId :
                    /\ n.run[r] = IF r \in new THEN c.s.run[r] ELSE rw.run[r]
                    /\ n.runTask[r] = IF r \in new THEN c.s.runTask[r]
                                                   ELSE rw.runTask[r]
               /\ n.status = rw.status /\ n.task = rw.task
               /\ n.artifact = rw.artifact
<1> DEFINE n == InsertRuns(rw, c, new)
           rn == [r \in RunId |-> IF r \in new THEN c.s.run[r] ELSE rw.run[r]]
           rt == [r \in RunId |-> IF r \in new THEN c.s.runTask[r]
                                               ELSE rw.runTask[r]]
           at == [i \in RunId |->
                    IF i <= Len(c.runOrder) /\ c.runOrder[i] \in new
                      THEN c.runOrder[i] ELSE rw.runAt[i]]
<1>1. /\ rn \in [RunId -> RunStatus \cup {"ABSENT"}]
      /\ rt \in [RunId -> TaskId \cup {NoId}]
  BY RowsFields, MapsFields, FieldTypes
<1>2. n = [rw EXCEPT !.run = rn, !.runTask = rt, !.runAt = at]
  BY DEF InsertRuns
<1>3. \A r \in RunId :
        /\ rn[r] = IF r \in new THEN c.s.run[r] ELSE rw.run[r]
        /\ rt[r] = IF r \in new THEN c.s.runTask[r] ELSE rw.runTask[r]
  OBVIOUS
<1> HIDE DEF n, rn, rt, at
<1>4. /\ IsRows(n) /\ n.run = rn /\ n.runTask = rt
      /\ n.status = rw.status /\ n.task = rw.task /\ n.artifact = rw.artifact
  BY <1>1, <1>2, ZenonT(60) DEF IsRows
<1> QED  BY <1>3, <1>4 DEF n

\* n is s with the run r ended, one way or the other.
RunEnded(n, s, r) ==
    /\ n \in ServiceStates /\ n.run[r] # "ABSENT"
    /\ \A q \in RunId \ {r} : n.run[q] = s.run[q] /\ n.artifact[q] = s.artifact[q]
    /\ n.runTask = s.runTask /\ n.task = s.task
    /\ \A t \in TaskId : s.status[t] # "ABSENT" => n.status[t] # "ABSENT"

\* The end of executeRun, whatever the status of the task in the maps.
LEMMA CompleteRunEnds ==
    ASSUME NEW s \in ServiceStates, NEW r \in RunId, NEW t \in TaskId
    PROVE  RunEnded(CompleteRunEffect(s, r, t), s, r)
<1> DEFINE n == CompleteRunEffect(s, r, t)
           st == [s.status EXCEPT ![t] = TransitionTo(s.status[t], "DONE")]
           rn == [s.run EXCEPT ![r] = "SUCCEEDED"]
           sb == [s.sandbox EXCEPT ![r] = "RELEASED"]
           ar == [s.artifact EXCEPT ![r] = TRUE]
<1>1. /\ st \in [TaskId -> TaskStatus \cup {"ABSENT"}]
      /\ rn \in [RunId -> RunStatus \cup {"ABSENT"}]
      /\ sb \in [RunId -> SandboxStatus \cup {"ABSENT"}]
      /\ ar \in [RunId -> BOOLEAN]
  BY FieldTypes DEF TransitionTo, TaskStatus, RunStatus, SandboxStatus
<1>2. /\ rn[r] # "ABSENT"
      /\ \A q \in RunId \ {r} : rn[q] = s.run[q] /\ ar[q] = s.artifact[q]
      /\ \A u \in TaskId : s.status[u] # "ABSENT" => st[u] # "ABSENT"
  BY FieldTypes DEF TransitionTo
<1>3. n = [s EXCEPT !.run = rn, !.artifact = ar, !.status = st, !.sandbox = sb]
  BY ZenonT(60) DEF CompleteRunEffect
<1> HIDE DEF n, st, rn, sb, ar
<1>4. /\ n \in ServiceStates /\ n.run = rn /\ n.artifact = ar /\ n.status = st
      /\ n.runTask = s.runTask /\ n.task = s.task
  BY <1>1, <1>3, ZenonT(60) DEF ServiceStates
<1> QED  BY <1>2, <1>4 DEF n, RunEnded

\* failRun, likewise.
LEMMA FailRunEnds ==
    ASSUME NEW s \in ServiceStates, NEW r \in RunId, s.runTask[r] \in TaskId
    PROVE  RunEnded(FailRunEffect(s, r), s, r)
<1> DEFINE n == FailRunEffect(s, r)
           t == s.runTask[r]
           v == IF s.status[t] \in {"IN_PROGRESS", "HUMAN_OVERRIDE"}
                  THEN TransitionTo(s.status[t], "FAILED") ELSE s.status[t]
           st == [s.status EXCEPT ![t] = v]
           rn == [s.run EXCEPT ![r] = "FAILED"]
           sb == [s.sandbox EXCEPT ![r] = "FAILED"]
<1>1. /\ st \in [TaskId -> TaskStatus \cup {"ABSENT"}]
      /\ rn \in [RunId -> RunStatus \cup {"ABSENT"}]
      /\ sb \in [RunId -> SandboxStatus \cup {"ABSENT"}]
  BY FieldTypes DEF TransitionTo, TaskStatus, RunStatus, SandboxStatus
<1>2. /\ rn[r] # "ABSENT"
      /\ \A q \in RunId \ {r} : rn[q] = s.run[q]
      /\ \A u \in TaskId : s.status[u] # "ABSENT" => st[u] # "ABSENT"
  BY FieldTypes DEF TransitionTo
<1>3. n = [s EXCEPT !.run = rn, !.sandbox = sb, !.status = st]
  BY ZenonT(60) DEF FailRunEffect
<1> HIDE DEF n, st, rn, sb
<1>4. /\ n \in ServiceStates /\ n.run = rn /\ n.artifact = s.artifact
      /\ n.status = st /\ n.runTask = s.runTask /\ n.task = s.task
  BY <1>1, <1>3, ZenonT(60) DEF ServiceStates
<1> QED  BY <1>2, <1>4 DEF n, RunEnded

\* The copies of a process that knows nothing.
LEMMA BlankFields ==
    /\ IsMaps(Blank) /\ Blank.s = EmptyState
    /\ IsRows(RowsOf(Blank)) /\ SameRows(RowsOf(Blank), EmptyState)
    /\ \A t \in TaskId : EmptyState.status[t] = "ABSENT"
    /\ \A r \in RunId : EmptyState.run[r] = "ABSENT" /\ ~EmptyState.artifact[r]
    /\ NoRead.kind = "none" /\ NoRead.rows = RowsOf(Blank)
<1>1. IsMaps(Blank) /\ Blank.s = EmptyState
  BY EmptyStateType, ZenonT(60) DEF Blank, IsMaps
<1>2. IsRows(RowsOf(Blank)) /\ SameRows(RowsOf(Blank), EmptyState)
  BY <1>1, RowsOfFields
<1>3. /\ \A t \in TaskId : EmptyState.status[t] = "ABSENT"
      /\ \A r \in RunId : EmptyState.run[r] = "ABSENT" /\ ~EmptyState.artifact[r]
  BY ZenonT(30) DEF EmptyState
<1>4. NoRead.kind = "none" /\ NoRead.rows = RowsOf(Blank)
  BY Zenon DEF NoRead
<1> QED  BY <1>1, <1>2, <1>3, <1>4

-----------------------------------------------------------------------------
(***************************************************************************)
(* What every kind of step keeps.                                          *)
(***************************************************************************)
TasksStay == \A t \in TaskId : rows.status[t] # "ABSENT"
                                 => rows'.status[t] # "ABSENT"

\* What is shown of every step.
GoodStep ==
    /\ IInv' /\ TrustInv'
    /\ ~Can("load") => TasksStay
    /\ Trusted => Forward(rows, rows')

\* An empty copy has no runs, and no read waits in NoRead.
LEMMA NoReadWaits ==
    ASSUME NEW l, NEW u
    PROVE  Waiting(NoRead, l, u) /\ NoRead.kind \notin RunReads
BY BlankFields DEF Waiting, Known, SameRows, RunReads

\* Identifiers are only handed out.
LEMMA KnownGrows ==
    ASSUME NEW x, NEW l \in LastIds, NEW m \in LastIds, Known(x, l), l.run <= m.run
    PROVE  Known(x, m)
BY DEF Known, LastIds, RunId

LEMMA WaitingGrows ==
    ASSUME NEW rd, NEW l \in LastIds, NEW m \in LastIds, NEW u,
           Waiting(rd, l, u), l.run <= m.run
    PROVE  Waiting(rd, m, u)
<1>1. Known(rd.rows, m)  BY KnownGrows DEF Waiting
<1>2. rd.kind \in RunReads => rd.run <= m.run
  BY DEF Waiting, LastIds, RunId
<1> QED  BY <1>1, <1>2 DEF Waiting

\* The invariant of every environment, from what a step does to the copies and
\* to the goroutines.
LEMMA StepKeepsInv ==
    ASSUME IInv, env' = env, up, up' = TRUE, last' \in LastIds,
           last.run <= last'.run, IsMaps(mem'), IsRows(rows'),
           Known(mem'.s, last'), Known(rows', last'),
           legacy' = legacy \/ legacy' = mem',
           agent' \in Agents, reading' = reading \/ reading' = NoRead,
           \A r \in RunId : agent'[r].phase \notin {"none", "exited"} =>
             /\ mem'.s.run[r] = "RUNNING" /\ rows'.run[r] = "RUNNING"
             /\ agent'[r].phase \in OnTask => agent'[r].task \in TaskId
             /\ Live(r) \/ last.run < r,
           ~Can("load") => Covered(mem', rows')
    PROVE  IInv'
<1>1. /\ last \in LastIds /\ Copies(mem, rows, legacy, last)
      /\ Waiting(reading, last, up) /\ Owned(agent, mem, rows, reading, up)
  BY DEF IInv
<1>2. Known(legacy.s, last')  BY <1>1, KnownGrows DEF Copies
<1>3. Copies(mem', rows', legacy', last')  BY <1>1, <1>2 DEF Copies
<1>4. Waiting(reading', last', up')
  <2>1. Waiting(reading, last', up)  BY <1>1, WaitingGrows
  <2> QED  BY <2>1, NoReadWaits
<1>5. ASSUME NEW r \in RunId, agent'[r].phase \notin {"none", "exited"},
             reading'.kind \in RunReads, reading'.run = r
      PROVE  reading'.rows.run[r] = "RUNNING"
  <2>1. reading' = reading  BY <1>5, NoReadWaits
  <2>2. r <= last.run  BY <1>1, <1>5, <2>1 DEF Waiting
  <2>3. ~(last.run < r)  BY <1>1, <2>2 DEF LastIds, RunId
  <2>4. Live(r)  BY <1>5, <2>3
  <2> QED  BY <1>1, <1>5, <2>1, <2>4 DEF Owned, Live
<1>6. Owned(agent', mem', rows', reading', up')  BY <1>5 DEF Owned
<1>7. ~Can("load")' /\ up' => Covered(mem', rows')  BY DEF Can
<1> QED  BY <1>3, <1>4, <1>6, <1>7 DEF IInv

\* The identifiers as the lemmas about sound maps take them.
LEMMA IdsType ==
    ASSUME NEW l \in LastIds
    PROVE  /\ Ids(l) \in LastType
           /\ Ids(l).task = l.task /\ Ids(l).run = l.run
BY DEF Ids, LastIds, LastType

LEMMA SoundGrows ==
    ASSUME NEW s, NEW l \in LastIds, NEW m \in LastIds, Sound(s, Ids(l)),
           l.task <= m.task, l.run <= m.run
    PROVE  Sound(s, Ids(m))
<1>1. Fresh(s, Ids(m))  BY IdsType, FreshGrows DEF Sound
<1> QED  BY <1>1 DEF Sound

\* The sandboxes of maps that are ahead of the rows fit the rows: for a stored
\* run the maps and the rows have the same status, and it tells the sandbox.
LEMMA AheadFits ==
    ASSUME NEW rw, IsRows(rw), NEW d \in ServiceStates, NEW s, NEW l,
           Sound(Loaded(rw, d), l), Sound(s, l), Ahead(s, rw)
    PROVE  Sound(Loaded(rw, s), l)
<1> DEFINE n == Loaded(rw, s)
           o == Loaded(rw, d)
<1>1. /\ n \in ServiceStates /\ SameRows(n, rw) /\ n.sandbox = s.sandbox
      /\ SameRows(o, rw)
  BY LoadedFields DEF Sound
<1>2. Sound(o, l)  OBVIOUS
<1> HIDE DEF n, o
<1>3. Fresh(n, l) /\ Ordering(n)
  BY <1>1, <1>2 DEF SameRows, Sound, Fresh, Ordering, RunExists
<1>4. ASSUME NEW r \in RunId, RunExists(n, r)
      PROVE  /\ n.runTask[r] \in TaskId
             /\ \/ /\ n.run[r] = "RUNNING" /\ Worked(n, n.runTask[r])
                   /\ n.sandbox[r] = "ACTIVE" /\ ~n.artifact[r]
                \/ /\ n.run[r] = "SUCCEEDED" /\ n.status[n.runTask[r]] = "DONE"
                   /\ n.sandbox[r] = "RELEASED" /\ n.artifact[r]
                \/ /\ n.run[r] = "FAILED" /\ n.status[n.runTask[r]] = "FAILED"
                   /\ n.sandbox[r] = "FAILED" /\ ~n.artifact[r]
  <2>1. s.run[r] = n.run[r] /\ RunExists(s, r)
    BY <1>1, <1>4 DEF Ahead, SameRows, RunExists
  <2>2. \/ n.run[r] = "RUNNING" /\ n.sandbox[r] = "ACTIVE"
        \/ n.run[r] = "SUCCEEDED" /\ n.sandbox[r] = "RELEASED"
        \/ n.run[r] = "FAILED" /\ n.sandbox[r] = "FAILED"
    BY <1>1, <2>1 DEF Sound, Agreement
  <2>3. /\ n.runTask[r] \in TaskId
        /\ \/ n.run[r] = "RUNNING" /\ Worked(n, n.runTask[r]) /\ ~n.artifact[r]
           \/ /\ n.run[r] = "SUCCEEDED" /\ n.status[n.runTask[r]] = "DONE"
              /\ n.artifact[r]
           \/ /\ n.run[r] = "FAILED" /\ n.status[n.runTask[r]] = "FAILED"
              /\ ~n.artifact[r]
    BY <1>1, <1>2, <1>4 DEF SameRows, Sound, Agreement, RunExists, Worked
  <2> QED  BY <2>2, <2>3
<1>5. Agreement(n)
  <2>1. /\ \A q, r \in RunId :
             RunExists(n, q) /\ RunExists(n, r) /\ n.runTask[q] = n.runTask[r]
               => q = r
        /\ \A t \in TaskId :
             Worked(n, t) \/ n.status[t] = "DONE"
               => \E r \in RunId : RunExists(n, r) /\ n.runTask[r] = t
    BY <1>1, <1>2 DEF SameRows, Sound, Agreement, RunExists, Worked
  <2> QED  BY <1>4, <2>1 DEF Agreement
<1> QED  BY <1>1, <1>3, <1>5 DEF Sound, n

\* What is read back after everything was written is what was written.
LEMMA StoredFits ==
    ASSUME NEW m, IsMaps(m), NEW l \in LastType, Sound(m.s, l)
    PROVE  Sound(Loaded(RowsOf(m), m.s), l) /\ Ahead(m.s, RowsOf(m))
<1>1. m.s \in ServiceStates /\ IsRows(RowsOf(m)) /\ SameRows(RowsOf(m), m.s)
  BY MapsFields, RowsOfFields
<1>2. /\ Loaded(RowsOf(m), m.s) \in ServiceStates
      /\ SameWork(Loaded(RowsOf(m), m.s), m.s)
  BY <1>1, LoadedFields DEF SameRows, SameWork
<1>3. Sound(Loaded(RowsOf(m), m.s), l)  BY <1>2, SameWorkSound
<1>4. Forward(RowsOf(m), m.s)  BY <1>1, ForwardSame DEF SameRows
<1> QED  BY <1>1, <1>3, <1>4 DEF Ahead, SameRows

\* The maps n follow the maps s: no task appears or is done, and no run that
\* was there and no artifact changes.
Follows(n, s) ==
    /\ Forward(s, n)
    /\ \A t \in TaskId : /\ s.status[t] = "ABSENT" => n.status[t] = "ABSENT"
                         /\ n.status[t] = "DONE" => s.status[t] = "DONE"
    /\ \A r \in RunId : /\ s.run[r] # "ABSENT" => n.run[r] = s.run[r]
                        /\ n.artifact[r] = s.artifact[r]

LEMMA FollowsAhead ==
    ASSUME NEW n, NEW s, NEW rw, Follows(n, s), Ahead(s, rw)
    PROVE  Ahead(n, rw)
<1>1. Forward(rw, n)  BY ForwardTransitive DEF Follows, Ahead
<1> QED  BY <1>1 DEF Follows, Ahead

\* How a handler that follows writes: nothing, everything, or the document and
\* columns that hold no task and no run.
Written ==
    \/ rows' = rows /\ legacy' = legacy
    \/ rows' = RowsOf(mem') /\ legacy' = mem'
    \/ IsRows(rows') /\ SameRows(rows', rows) /\ legacy' = mem'

\* Agreement and the order of the copies, after a step that follows.
LEMMA FollowsAgreed ==
    ASSUME Copies(mem, rows, legacy, last), last \in LastIds, last' \in LastIds,
           last.task <= last'.task, last.run <= last'.run,
           Agreed(mem, rows, legacy, last, TRUE),
           IsMaps(mem'), Sound(mem'.s, Ids(last')), Follows(mem'.s, mem.s), Written
    PROVE  /\ Agreed(mem', rows', legacy', last', TRUE)
           /\ Forward(rows, rows')
           /\ \A r \in RunId : rows'.artifact[r] = rows.artifact[r]
<1>1. /\ Sound(legacy.s, Ids(last')) /\ Sound(Loaded(rows, legacy.s), Ids(last'))
      /\ Ahead(mem.s, rows)
  BY SoundGrows DEF Agreed
<1>2. Ahead(mem'.s, rows)  BY <1>1, FollowsAhead
<1>3. IsRows(rows) /\ legacy.s \in ServiceStates /\ Ids(last') \in LastType
  BY MapsFields, IdsType DEF Copies
<1>4. CASE rows' = rows /\ legacy' = legacy
  <2>1. Forward(rows, rows')  BY <1>4, ForwardSame
  <2> QED  BY <1>1, <1>2, <1>4, <2>1 DEF Agreed
<1>5. CASE rows' = RowsOf(mem') /\ legacy' = mem'
  <2>1. Sound(Loaded(RowsOf(mem'), mem'.s), Ids(last')) /\ Ahead(mem'.s, RowsOf(mem'))
    BY <1>3, StoredFits
  <2>2. Forward(rows, rows')
    <3>1. Forward(rows, mem'.s)  BY <1>2 DEF Ahead
    <3>2. Forward(mem'.s, rows')
      BY <1>5, RowsOfFields, ForwardSame DEF SameRows
    <3> QED  BY <3>1, <3>2, ForwardTransitive
  <2>3. \A r \in RunId : rows'.artifact[r] = rows.artifact[r]
    BY <1>2, <1>5, RowsOfFields DEF Ahead, SameRows
  <2> QED  BY <1>5, <2>1, <2>2, <2>3 DEF Agreed
<1>6. CASE IsRows(rows') /\ SameRows(rows', rows) /\ legacy' = mem'
  <2>1. Sound(Loaded(rows, mem'.s), Ids(last'))  BY <1>1, <1>2, <1>3, AheadFits
  <2>2. mem'.s \in ServiceStates  BY MapsFields
  <2>3. /\ Loaded(rows', mem'.s) \in ServiceStates
        /\ SameWork(Loaded(rows', mem'.s), Loaded(rows, mem'.s))
    BY <1>3, <1>6, <2>2, LoadedFields DEF SameRows, SameWork
  <2>4. Sound(Loaded(rows', mem'.s), Ids(last'))
    BY <1>3, <2>1, <2>3, SameWorkSound
  <2>5. Ahead(mem'.s, rows')
    BY <1>2, <1>6 DEF Ahead, SameRows, Forward
  <2>6. Forward(rows, rows')  BY <1>6, ForwardSame DEF SameRows
  <2> QED  BY <1>6, <2>4, <2>5, <2>6 DEF Agreed, SameRows
<1> QED  BY <1>4, <1>5, <1>6 DEF Written

\* The invariant of a trusted environment: a goroutine works with the task of
\* its row, and rows only move on under a read that waits.
LEMMA StepKeepsTrust ==
    ASSUME IInv, TrustInv, env' = env,
           Trusted => /\ Agreed(mem', rows', legacy', last', up')
                      /\ Forward(rows, rows')
                      /\ \A r \in RunId : rows.artifact[r] => rows'.artifact[r],
           reading' = reading \/ reading' = NoRead,
           \A r \in RunId : agent'[r].phase \in OnTask =>
             /\ rows.run[r] # "ABSENT"
             /\ Trusted => agent'[r].task = rows.runTask[r]
    PROVE  TrustInv'
<1> SUFFICES ASSUME Trusted
             PROVE  /\ Agreed(mem, rows, legacy, last, up)'
                    /\ reading'.kind \notin {"tasks", "run"}
                    /\ Current(reading', rows')
                    /\ \A r \in RunId : agent'[r].phase \in OnTask =>
                         agent'[r].task = rows'.runTask[r]
  BY DEF TrustInv, Trusted, Can, Live
<1>1. /\ Agreed(mem', rows', legacy', last', up') /\ Forward(rows, rows')
      /\ \A r \in RunId : rows.artifact[r] => rows'.artifact[r]
      /\ reading.kind \notin {"tasks", "run"} /\ Current(reading, rows)
      /\ Waiting(reading, last, up)
  BY DEF TrustInv, IInv
<1>2. reading'.kind \notin {"tasks", "run"} /\ Current(reading', rows')
  <2>1. CASE reading' = reading
    <3>1. reading.kind \in {"export", "download"} => reading.run \in RunId
      BY <1>1 DEF Waiting, RunReads
    <3> QED
      BY <1>1, <2>1, <3>1 DEF Current, Forward, Stages!RunMayBecome
  <2>2. CASE reading' = NoRead
    BY <2>2, BlankFields DEF Current
  <2> QED  BY <2>1, <2>2
<1>3. \A r \in RunId : agent'[r].phase \in OnTask =>
        agent'[r].task = rows'.runTask[r]
  BY <1>1 DEF Forward
<1> QED  BY <1>1, <1>2, <1>3

\* A goroutine that is not touched.
LEMMA AgentsStay ==
    ASSUME IInv, TrustInv, NEW r \in RunId, agent[r].phase \in OnTask
    PROVE  /\ rows.run[r] # "ABSENT" /\ Live(r)
           /\ Trusted => agent[r].task = rows.runTask[r]
<1>1. Live(r)  BY DEF Live, OnTask
<1> QED  BY <1>1 DEF IInv, Owned, TrustInv, Live

\* The copies n and s have the same runs.
SameRuns(n, s) == n.run = s.run /\ n.runTask = s.runTask /\ n.artifact = s.artifact

\* A step that starts and settles no run.
LEMMA QuietStep ==
    ASSUME IInv, TrustInv, env' = env, up, up' = up,
           reading' = reading \/ reading' = NoRead,
           agent' \in Agents,
           \A r \in RunId : agent'[r].phase \notin {"none", "exited"} => Live(r),
           \A r \in RunId : agent'[r].phase \in OnTask =>
             /\ agent'[r].task \in TaskId
             /\ Trusted => agent'[r].task = rows.runTask[r],
           last' \in LastIds, last.task <= last'.task, last.run <= last'.run,
           IsMaps(mem'), SameRuns(mem'.s, mem.s), Written,
           \A t \in TaskId : mem.s.status[t] # "ABSENT"
                               => mem'.s.status[t] # "ABSENT",
           Trusted => Sound(mem'.s, Ids(last')) /\ Follows(mem'.s, mem.s)
    PROVE  GoodStep
<1>1. /\ last \in LastIds /\ Copies(mem, rows, legacy, last)
      /\ Owned(agent, mem, rows, reading, up) /\ IsRows(rows)
      /\ ~Can("load") => Covered(mem, rows)
  BY DEF IInv, Copies
<1>2. Known(mem'.s, last') /\ Known(rows, last') /\ Known(mem.s, last')
  BY <1>1, KnownGrows DEF Copies, SameRuns, Known
<1>3. IsRows(rows') /\ Known(rows', last')
  <2>1. CASE rows' = rows  BY <1>1, <1>2, <2>1
  <2>2. CASE rows' = RowsOf(mem')
    BY <1>2, <2>2, RowsOfFields DEF SameRows, Known
  <2>3. CASE IsRows(rows') /\ SameRows(rows', rows)
    BY <1>2, <2>3 DEF SameRows, Known
  <2> QED  BY <2>1, <2>2, <2>3 DEF Written
<1>4. ASSUME NEW r \in RunId, Live(r)
      PROVE  mem'.s.run[r] = "RUNNING" /\ rows'.run[r] = "RUNNING"
  <2>1. mem.s.run[r] = "RUNNING" /\ rows.run[r] = "RUNNING"
    BY <1>1, <1>4 DEF Owned, Live
  <2>2. mem'.s.run[r] = "RUNNING"  BY <2>1 DEF SameRuns
  <2>3. rows'.run[r] = "RUNNING"
    BY <2>1, <2>2, RowsOfFields DEF Written, SameRows
  <2> QED  BY <2>2, <2>3
<1>5. ~Can("load") => Covered(mem', rows') /\ TasksStay
  <2> SUFFICES ASSUME ~Can("load") PROVE Covered(mem', rows') /\ TasksStay
    OBVIOUS
  <2>1. Covered(mem', rows)  BY <1>1 DEF Covered
  <2>2. CASE rows' = rows  BY <2>1, <2>2 DEF TasksStay
  <2>3. CASE rows' = RowsOf(mem')
    BY <2>1, <2>3, RowsOfFields DEF SameRows, Covered, TasksStay
  <2>4. CASE SameRows(rows', rows)
    BY <2>1, <2>4 DEF SameRows, Covered, TasksStay
  <2> QED  BY <2>2, <2>3, <2>4 DEF Written
<1>6. IInv'
  <2>1. legacy' = legacy \/ legacy' = mem'  BY DEF Written
  <2> QED  BY <1>2, <1>3, <1>4, <1>5, <2>1, StepKeepsInv
<1>7. Trusted => /\ Agreed(mem', rows', legacy', last', up')
                 /\ Forward(rows, rows')
                 /\ \A r \in RunId : rows.artifact[r] => rows'.artifact[r]
  <2> SUFFICES ASSUME Trusted
               PROVE  /\ Agreed(mem', rows', legacy', last', TRUE)
                      /\ Forward(rows, rows')
                      /\ \A r \in RunId : rows'.artifact[r] = rows.artifact[r]
    BY DEF IInv, Agreed
  <2>1. Agreed(mem, rows, legacy, last, TRUE)  BY DEF TrustInv, Agreed
  <2> QED  BY <1>1, <2>1, FollowsAgreed
<1>8. \A r \in RunId : agent'[r].phase \in OnTask =>
        /\ rows.run[r] # "ABSENT"
        /\ Trusted => agent'[r].task = rows.runTask[r]
  BY <1>1 DEF OnTask, Owned, Live
<1>9. TrustInv'  BY <1>7, <1>8, StepKeepsTrust
<1> QED  BY <1>5, <1>6, <1>7, <1>9 DEF GoodStep

\* Agents left alone satisfy what QuietStep asks of them.
LEMMA SameAgents ==
    ASSUME IInv, TrustInv, agent' = agent
    PROVE  /\ agent' \in Agents
           /\ \A r \in RunId : agent'[r].phase \notin {"none", "exited"} => Live(r)
           /\ \A r \in RunId : agent'[r].phase \in OnTask =>
                /\ agent'[r].task \in TaskId
                /\ Trusted => agent'[r].task = rows.runTask[r]
<1>1. agent' \in Agents  BY DEF IInv
<1>2. ASSUME NEW r \in RunId, agent[r].phase \in OnTask
      PROVE  /\ agent[r].task \in TaskId
             /\ Trusted => agent[r].task = rows.runTask[r]
  <2>1. Live(r)  BY <1>2, AgentsStay
  <2> QED  BY <1>2, <2>1, AgentsStay DEF IInv, Owned, Live
<1> QED  BY <1>1, <1>2 DEF Live

\* A step that rolls back, or finds nothing to do, may only hand out identifiers.
LEMMA NothingWritten ==
    ASSUME IInv, TrustInv, env' = env, up, up' = up, agent' = agent,
           reading' = reading \/ reading' = NoRead,
           last' \in LastIds, last.task <= last'.task, last.run <= last'.run,
           mem' = mem, rows' = rows, legacy' = legacy
    PROVE  GoodStep
<1>1. IsMaps(mem') /\ last \in LastIds  BY DEF IInv, Copies
<1>2. SameRuns(mem'.s, mem.s) /\ Written  BY DEF SameRuns, Written
<1>3. Trusted => Sound(mem'.s, Ids(last')) /\ Follows(mem'.s, mem.s)
  <2>1. Forward(mem.s, mem'.s)  BY ForwardSame
  <2>2. Trusted => Sound(mem'.s, Ids(last'))
    BY <1>1, SoundGrows DEF TrustInv, Agreed
  <2> QED  BY <2>1, <2>2 DEF Follows
<1> QED  BY <1>1, <1>2, <1>3, SameAgents, QuietStep

\* A handler that touches no task, run, sandbox or artifact.
LEMMA SameWorkStep ==
    ASSUME IInv, TrustInv, env' = env, up, up' = up, agent' = agent,
           reading' = reading \/ reading' = NoRead,
           last' \in LastIds, last.task <= last'.task, last.run <= last'.run,
           IsMaps(mem'), SameWork(mem'.s, mem.s), Written
    PROVE  GoodStep
<1>1. last \in LastIds /\ mem'.s \in ServiceStates  BY MapsFields DEF IInv
<1>2. SameRuns(mem'.s, mem.s)  BY DEF SameRuns, SameWork
<1>3. Trusted => Sound(mem'.s, Ids(last')) /\ Follows(mem'.s, mem.s)
  <2> SUFFICES ASSUME Trusted
               PROVE  Sound(mem'.s, Ids(last')) /\ Follows(mem'.s, mem.s)
    OBVIOUS
  <2>1. Sound(mem.s, Ids(last'))  BY <1>1, SoundGrows DEF TrustInv, Agreed
  <2>2. Sound(mem'.s, Ids(last')) /\ Forward(mem.s, mem'.s)
    BY <1>1, <2>1, IdsType, SameWorkSound
  <2> QED  BY <2>2 DEF Follows, SameWork
<1>4. \A t \in TaskId : mem.s.status[t] # "ABSENT" => mem'.s.status[t] # "ABSENT"
  BY DEF SameWork
<1> QED  BY <1>2, <1>3, <1>4, SameAgents, QuietStep

-----------------------------------------------------------------------------
(***************************************************************************)
(* Repository handlers of projects, requirements, plans and tasks.         *)
(***************************************************************************)

\* The view that a restart would have of the rows, were the maps the document.
LEMMA ViewSound ==
    ASSUME IInv, TrustInv, Trusted, up
    PROVE  /\ Sound(Loaded(rows, mem.s), Ids(last)) /\ Sound(mem.s, Ids(last))
           /\ Ahead(mem.s, rows) /\ SameRows(Loaded(rows, mem.s), rows)
           /\ Loaded(rows, mem.s).sandbox = mem.s.sandbox
<1>1. /\ IsRows(rows) /\ legacy.s \in ServiceStates /\ mem.s \in ServiceStates
      /\ Sound(Loaded(rows, legacy.s), Ids(last)) /\ Sound(mem.s, Ids(last))
      /\ Ahead(mem.s, rows)
  BY MapsFields DEF IInv, Copies, TrustInv, Agreed
<1> QED  BY <1>1, AheadFits, LoadedFields

\* SaveTasks: n new tasks, beside rows `docs' that may have a new plan.
LEMMA SaveTasksStep ==
    ASSUME IInv, TrustInv, env' = env, up, Quiet, NEW n \in Nat,
           last.task + n <= MaxTasks, NEW new, AddedTasks(new, mem.s, NewTaskSet(n)),
           NEW docs, IsRows(docs), SameRows(docs, rows), SaveTasks(new, n, docs)
    PROVE  GoodStep
<1> DEFINE c == WithTasks(new, NewTasks(n))
           T == NewTaskSet(n)
           rw == InsertTasks(docs, c, T)
<1>1. /\ last \in LastIds /\ Copies(mem, rows, legacy, last)
      /\ Owned(agent, mem, rows, reading, up) /\ IsRows(rows) /\ IsMaps(mem)
      /\ ~Can("load") => Covered(mem, rows)
  BY DEF IInv, Copies
<1>2. /\ last' \in LastIds /\ last.task <= last'.task /\ last.run = last'.run
      /\ last.run <= last'.run /\ last'.task = last.task + n
  <2>1. last' = [last EXCEPT !.task = @ + n]  BY DEF SaveTasks
  <2>2. /\ last.task \in 0..MaxTasks /\ MaxTasks \in Nat /\ last.run \in 0..MaxRuns
    BY <1>1, BoundsAssumption DEF LastIds
  <2>3. last.task + n \in 0..MaxTasks  BY <2>2
  <2>4. last' \in LastIds /\ last'.task = last.task + n /\ last'.run = last.run
    BY <1>1, <2>1, <2>3, Zenon DEF LastIds
  <2> QED  BY <2>2, <2>4
<1>3. up' = up /\ agent' = agent /\ reading' = reading  BY DEF Quiet
<1>4. T \in SUBSET TaskId /\ \A t \in T : last.task < t /\ t <= last'.task
  <2>1. last.task \in Nat /\ MaxTasks \in Nat
    BY <1>1, BoundsAssumption DEF LastIds
  <2>2. \A t \in T : /\ t \in Nat /\ 1 <= t /\ t <= MaxTasks
                      /\ last.task < t /\ t <= last.task + n
    BY <2>1 DEF NewTaskSet
  <2> QED  BY <1>2, <2>1, <2>2 DEF TaskId
<1>5. IsMaps(c) /\ c.s = new
  <2>1. new \in ServiceStates  BY DEF AddedTasks
  <2> QED  BY <1>1, <2>1, MapsWithTasks DEF WithTasks
<1>6. \/ mem' = c /\ rows' = rw /\ legacy' = c
      \/ mem' = mem /\ rows' = rows /\ legacy' = legacy
  BY DEF SaveTasks, Transact, Committed, RolledBack
<1>7. CASE mem' = mem /\ rows' = rows /\ legacy' = legacy
  BY <1>2, <1>3, <1>7, NothingWritten
<1>8. CASE mem' = c /\ rows' = rw /\ legacy' = c
  <2>1. /\ IsRows(rows')
        /\ \A t \in TaskId :
             /\ rows'.status[t] = IF t \in T THEN "CREATED" ELSE rows.status[t]
             /\ rows'.task[t] = IF t \in T THEN mem'.s.task[t] ELSE rows.task[t]
        /\ rows'.run = rows.run /\ rows'.runTask = rows.runTask
        /\ rows'.artifact = rows.artifact
    BY <1>5, <1>8, InsertTasksFields DEF SameRows, AddedTasks
  <2>2. /\ mem'.s \in ServiceStates /\ IsMaps(mem') /\ legacy' = mem'
        /\ \A t \in TaskId :
             /\ mem'.s.status[t] = IF t \in T THEN "CREATED" ELSE mem.s.status[t]
             /\ t \notin T => mem'.s.task[t] = mem.s.task[t]
        /\ mem'.s.run = mem.s.run /\ mem'.s.runTask = mem.s.runTask
        /\ mem'.s.artifact = mem.s.artifact /\ mem'.s.sandbox = mem.s.sandbox
    BY <1>5, <1>8 DEF AddedTasks
  <2>3. AddedTasks(mem'.s, mem.s, T)  BY <1>5, <1>8
  <2> HIDE DEF T, c, rw
  <2>4. Known(mem'.s, last') /\ Known(rows', last')
    BY <1>1, <1>2, <2>1, <2>2 DEF Known, Copies
  <2>5. ~Can("load") => Covered(mem', rows') /\ TasksStay
    BY <1>1, <2>1, <2>2 DEF Covered, TasksStay
  <2>6. \A r \in RunId : agent'[r].phase \notin {"none", "exited"} =>
          /\ mem'.s.run[r] = "RUNNING" /\ rows'.run[r] = "RUNNING"
          /\ agent'[r].phase \in OnTask => agent'[r].task \in TaskId
          /\ Live(r) \/ last.run < r
    BY <1>1, <1>3, <2>1, <2>2 DEF Owned, Live
  <2>7. IInv'
    BY <1>2, <1>3, <2>1, <2>2, <2>4, <2>5, <2>6, SameAgents, StepKeepsInv
  <2>8. ASSUME Trusted
        PROVE  Agreed(mem', rows', legacy', last', TRUE) /\ Forward(rows, rows')
    <3> DEFINE v == Loaded(rows, mem.s)
               w == Loaded(rows', mem'.s)
    <3>1. /\ Sound(v, Ids(last)) /\ Sound(mem.s, Ids(last)) /\ Ahead(mem.s, rows)
          /\ SameRows(v, rows) /\ v.sandbox = mem.s.sandbox
      BY <2>8, ViewSound
    <3>2. /\ w \in ServiceStates /\ SameRows(w, rows')
          /\ w.sandbox = mem'.s.sandbox
      BY <2>1, <2>2, LoadedFields
    <3> HIDE DEF v, w
    <3>3. AddedTasks(w, v, T)
      BY <2>1, <2>2, <3>1, <3>2 DEF AddedTasks, SameRows
    <3>4. /\ Ids(last) \in LastType /\ Ids(last') \in LastType
          /\ Ids(last).task = last.task /\ Ids(last').task = last'.task
          /\ Ids(last).run = last.run /\ Ids(last').run = last'.run
      BY <1>1, <1>2, IdsType
    <3>5. Sound(w, Ids(last')) /\ Forward(v, w)
      BY <1>2, <1>4, <3>1, <3>3, <3>4, NewTasksSound
    <3>6. Sound(mem'.s, Ids(last')) /\ Forward(mem.s, mem'.s)
      BY <1>2, <1>4, <2>3, <3>1, <3>4, NewTasksSound
    <3>7. Forward(rows, rows')  BY <3>1, <3>2, <3>5 DEF SameRows, Forward
    <3>8. Ahead(mem'.s, rows')
      <4>1. Forward(rows', mem'.s)
        <5>1. \A t \in TaskId :
                /\ Stages!TaskMayBecome(rows'.status[t], mem'.s.status[t])
                /\ rows'.status[t] # "ABSENT" => mem'.s.task[t] = rows'.task[t]
          BY <2>1, <2>2, <3>1 DEF Ahead, Forward, Stages!TaskMayBecome
        <5> QED  BY <2>1, <2>2, <3>1, <5>1 DEF Ahead, Forward
      <4> QED  BY <2>1, <2>2, <3>1, <4>1 DEF Ahead
    <3> QED  BY <2>2, <3>5, <3>6, <3>7, <3>8 DEF Agreed, w
  <2>9. Trusted => /\ Agreed(mem', rows', legacy', last', up')
                   /\ Forward(rows, rows')
                   /\ \A r \in RunId : rows.artifact[r] => rows'.artifact[r]
    BY <1>3, <2>1, <2>8 DEF Agreed
  <2>10. TrustInv'
    BY <1>3, <2>9, AgentsStay, StepKeepsTrust
  <2> QED  BY <2>5, <2>7, <2>9, <2>10 DEF GoodStep
<1> QED  BY <1>6, <1>7, <1>8

\* Projects, requirements and contracts: columns that hold no task and no run.
LEMMA DocumentStep ==
    ASSUME IInv, TrustInv, env' = env,
           \/ \E p \in Projects : CreateProject(p)
           \/ AddRequirement \/ GenerateContract
    PROVE  GoodStep
<1>1. /\ last \in LastIds /\ IsRows(rows) /\ IsMaps(mem) /\ mem.s \in ServiceStates
      /\ last.task <= last.task /\ last.run <= last.run
  BY MapsFields DEF IInv, Copies, LastIds
<1>2. ASSUME NEW c, NEW rw, NEW ok, Transact(c, rw, ok), up, Quiet,
             IsMaps(c), SameWork(c.s, mem.s), IsRows(rw), SameRows(rw, rows),
             last' \in LastIds, last'.task = last.task, last'.run = last.run
      PROVE  GoodStep
  <2>1. up' = up /\ agent' = agent /\ reading' = reading  BY <1>2 DEF Quiet
  <2>2. last.task <= last'.task /\ last.run <= last'.run  BY <1>1, <1>2
  <2>3. CASE mem' = c /\ rows' = rw /\ legacy' = c
    <3>1. Written  BY <1>2, <2>3 DEF Written
    <3> QED  BY <1>2, <2>1, <2>2, <2>3, <3>1, SameWorkStep
  <2>4. CASE mem' = mem /\ rows' = rows /\ legacy' = legacy
    BY <1>2, <2>1, <2>2, <2>4, NothingWritten
  <2> QED  BY <1>2, <2>3, <2>4 DEF Transact, Committed, RolledBack
<1>3. ASSUME NEW p \in Projects, CreateProject(p)
      PROVE  GoodStep
  <2> DEFINE c == [mem EXCEPT !.projects = @ \cup {p}]
             rw == [rows EXCEPT !.projects = @ \cup {p}]
  <2>1. mem.projects \cup {p} \in SUBSET Projects
        /\ rows.projects \cup {p} \in SUBSET Projects
    BY <1>1, MapsFields, RowsFields
  <2>2. IsMaps(c) /\ c.s = mem.s  BY <1>1, <2>1, MapsWithProjects
  <2>3. IsRows(rw) /\ SameRows(rw, rows)  BY <1>1, <2>1, RowsWithProjects
  <2>4. last' \in LastIds /\ last'.task = last.task /\ last'.run = last.run
    <3>1. last' = [last EXCEPT !.projects = @ \cup {p}]  BY <1>3 DEF CreateProject
    <3>2. last.projects \cup {p} \in SUBSET Projects  BY <1>1 DEF LastIds
    <3> QED  BY <1>1, <3>1, <3>2, Zenon DEF LastIds
  <2>5. Transact(c, rw, TRUE) /\ up /\ Quiet  BY <1>3 DEF CreateProject
  <2> HIDE DEF c, rw
  <2>6. SameWork(c.s, mem.s)  BY <2>2 DEF SameWork
  <2> QED  BY <1>2, <2>2, <2>3, <2>4, <2>5, <2>6
<1>4. CASE AddRequirement
  <2> DEFINE c == [mem EXCEPT !.s = AddRequirementEffect(mem.s)]
             rw == [rows EXCEPT !.reqs = @ + 1]
  <2>1. AddRequirementEffect(mem.s) \in ServiceStates
        /\ SameWork(AddRequirementEffect(mem.s), mem.s)
    BY <1>1, AddRequirementFields
  <2>2. IsMaps(c) /\ c.s = AddRequirementEffect(mem.s)
    BY <1>1, <2>1, MapsWithState
  <2>3. IsRows(rw) /\ SameRows(rw, rows)  BY <1>1, RowsWithReqs
  <2>4. Transact(c, rw, ProjectLocked) /\ up /\ Quiet /\ last' = last
    BY <1>4 DEF AddRequirement, HasMain
  <2> HIDE DEF c, rw
  <2> QED
    BY <1>1, <1>2, <2>1, <2>2, <2>3, <2>4
<1>5. CASE GenerateContract
  <2> DEFINE c == [mem EXCEPT !.s = GenerateContractEffect(mem.s)]
             rw == [rows EXCEPT !.contracts = Append(@, Len(mem.s.plans))]
  <2>1. GenerateContractEffect(mem.s) \in ServiceStates
        /\ SameWork(GenerateContractEffect(mem.s), mem.s)
    BY <1>1, GenerateContractFields
  <2>2. IsMaps(c) /\ c.s = GenerateContractEffect(mem.s)
    BY <1>1, <2>1, MapsWithState
  <2>3. IsRows(rw) /\ SameRows(rw, rows)
    <3>1. Len(mem.s.plans) \in Nat  BY <1>1 DEF ServiceStates
    <3> QED  BY <1>1, <3>1, RowsWithContract
  <2>4. Transact(c, rw, ProjectLocked) /\ up /\ Quiet /\ last' = last
    BY <1>5 DEF GenerateContract, HasMain
  <2> HIDE DEF c, rw
  <2> QED
    BY <1>1, <1>2, <2>1, <2>2, <2>3, <2>4
<1> QED  BY <1>3, <1>4, <1>5

\* GeneratePlan, DispatchTasks, ValidateContract and RetryTask.
LEMMA TasksStep ==
    ASSUME IInv, TrustInv, env' = env,
           \/ GeneratePlan \/ DispatchTasks
           \/ \E c \in 1..Len(mem.s.contracts) : ValidateContract(c)
           \/ \E t \in TaskId : RetryTask(t)
    PROVE  GoodStep
<1>1. /\ last \in LastIds /\ IsRows(rows) /\ mem.s \in ServiceStates
      /\ last.task \in Nat /\ MaxTasks \in Nat /\ SameRows(rows, rows)
  BY MapsFields, BoundsAssumption DEF IInv, Copies, LastIds, SameRows
<1>2. ASSUME last.task < MaxTasks
      PROVE  /\ last.task + 1 \in TaskId /\ last.task + 1 <= MaxTasks
             /\ NewTaskSet(1) = {last.task + 1}
  BY <1>1, <1>2 DEF TaskId, NewTaskSet
<1>3. CASE GeneratePlan
  <2>1. /\ up /\ Quiet /\ last.task < MaxTasks
        /\ SaveTasks(GeneratePlanEffect(mem.s, last.task + 1), 1,
                     [rows EXCEPT !.plans = Append(@, mem.s.reqs)])
    BY <1>3 DEF GeneratePlan, HasMain
  <2>2. AddedTasks(GeneratePlanEffect(mem.s, last.task + 1), mem.s, NewTaskSet(1))
    BY <1>1, <1>2, <2>1, GeneratePlanFields
  <2>3. /\ IsRows([rows EXCEPT !.plans = Append(@, mem.s.reqs)])
        /\ SameRows([rows EXCEPT !.plans = Append(@, mem.s.reqs)], rows)
    <3>1. mem.s.reqs \in Nat  BY <1>1 DEF ServiceStates
    <3> QED  BY <1>1, <3>1, RowsWithPlan
  <2> QED  BY <1>2, <2>1, <2>2, <2>3, SaveTasksStep
<1>4. CASE DispatchTasks
  <2> DEFINE b == last.task + 1
             f == last.task + 2
             i == last.task + 3
  <2>1. /\ up /\ Quiet /\ last.task + 3 <= MaxTasks
        /\ SaveTasks(DispatchTasksEffect(mem.s, b, f, i), 3, rows)
    BY <1>4 DEF DispatchTasks, HasMain
  <2>2. b \in TaskId /\ f \in TaskId /\ i \in TaskId
    BY <1>1, <2>1 DEF TaskId
  <2>3. NewTaskSet(3) = {b, f, i}  BY <1>1 DEF NewTaskSet
  <2>4. AddedTasks(DispatchTasksEffect(mem.s, b, f, i), mem.s, NewTaskSet(3))
    BY <1>1, <2>2, <2>3, DispatchTasksFields
  <2> QED  BY <1>1, <2>1, <2>4, SaveTasksStep
<1>5. ASSUME NEW c \in 1..Len(mem.s.contracts), ValidateContract(c)
      PROVE  GoodStep
  <2>1. /\ up /\ Quiet /\ last.task < MaxTasks
        /\ SaveTasks(RemediationEffect(mem.s, last.task + 1, c), 1, rows)
    BY <1>5 DEF ValidateContract, HasMain
  <2>2. AddedTasks(RemediationEffect(mem.s, last.task + 1, c), mem.s, NewTaskSet(1))
    BY <1>1, <1>2, <2>1, RemediationFields
  <2> QED  BY <1>1, <1>2, <2>1, <2>2, SaveTasksStep
<1>6. ASSUME NEW t \in TaskId, RetryTask(t)
      PROVE  GoodStep
  <2>1. /\ up /\ Quiet /\ last.task < MaxTasks
        /\ SaveTasks(RetryTaskEffect(mem.s, t, last.task + 1), 1, rows)
    BY <1>6 DEF RetryTask, HasMain
  <2>2. AddedTasks(RetryTaskEffect(mem.s, t, last.task + 1), mem.s, NewTaskSet(1))
    BY <1>1, <1>2, <2>1, RetryTaskFields
  <2> QED  BY <1>1, <1>2, <2>1, <2>2, SaveTasksStep
<1> QED  BY <1>3, <1>4, <1>5, <1>6

-----------------------------------------------------------------------------
(***************************************************************************)
(* persistLocked handlers.                                                 *)
(***************************************************************************)
LEMMA PersistWritten ==
    ASSUME NEW n, Persist(n)
    PROVE  mem' = n /\ Written
BY DEF Persist, PersistOK, PersistFails, Written

\* A task that was not started fails, in the maps and perhaps in the rows.
LEMMA SandboxFailsStep ==
    ASSUME IInv, TrustInv, env' = env, up, Quiet, last' = last, NEW t \in TaskId,
           EnsureTaskReady(mem.s, t),
           Persist([mem EXCEPT !.s = SandboxCreateFailedEffect(@, t)])
    PROVE  GoodStep
<1> DEFINE n == SandboxCreateFailedEffect(mem.s, t)
           m == [mem EXCEPT !.s = n]
<1>1. /\ last \in LastIds /\ IsMaps(mem) /\ mem.s \in ServiceStates
      /\ last.task <= last.task /\ last.run <= last.run
  BY MapsFields DEF IInv, Copies, LastIds
<1>2. /\ n \in ServiceStates
      /\ n.status = [mem.s.status EXCEPT ![t] = "FAILED"]
      /\ n.task = mem.s.task /\ n.run = mem.s.run /\ n.runTask = mem.s.runTask
      /\ n.sandbox = mem.s.sandbox /\ n.artifact = mem.s.artifact
  BY <1>1, SandboxCreateFailedFields
<1>3. IsMaps(mem') /\ mem'.s = n /\ Written
  <2>1. Persist(m)  OBVIOUS
  <2>2. IsMaps(m) /\ m.s = n  BY <1>1, <1>2, MapsWithState
  <2> HIDE DEF m, n
  <2> QED  BY <2>1, <2>2, PersistWritten
<1> HIDE DEF n
<1>4. \A u \in TaskId :
        n.status[u] = IF u = t THEN "FAILED" ELSE mem.s.status[u]
  BY <1>1, <1>2, FieldTypes
<1>5. mem.s.status[t] = "CREATED"  BY DEF EnsureTaskReady
<1>6. Trusted => Sound(n, Ids(last)) /\ Follows(n, mem.s)
  <2> SUFFICES ASSUME Trusted PROVE Sound(n, Ids(last)) /\ Follows(n, mem.s)
    OBVIOUS
  <2>1. Sound(mem.s, Ids(last)) /\ Ids(last) \in LastType
    BY <1>1, ViewSound, IdsType
  <2>2. Sound(n, Ids(last)) /\ Forward(mem.s, n)
    BY <1>5, <2>1, SandboxCreateFailedSound DEF n
  <2> QED  BY <1>2, <1>4, <1>5, <2>2 DEF Follows
<1>7. SameRuns(n, mem.s)  BY <1>2 DEF SameRuns
<1> QED
  BY <1>1, <1>3, <1>4, <1>6, <1>7, SameAgents, QuietStep DEF Quiet

\* A task is paused or resumed: it is worked on before and after.
LEMMA PauseStep ==
    ASSUME IInv, TrustInv, env' = env, up, up' = up, reading' = reading,
           agent' \in Agents,
           \A r \in RunId : agent'[r].phase \notin {"none", "exited"} => Live(r),
           \A r \in RunId : agent'[r].phase \in OnTask =>
             /\ agent'[r].task \in TaskId
             /\ Trusted => agent'[r].task = rows.runTask[r],
           last' \in LastIds, last'.task = last.task, last'.run = last.run,
           NEW n \in ServiceStates, NEW t \in TaskId,
           NEW v \in {"IN_PROGRESS", "HUMAN_OVERRIDE"},
           n.status = [mem.s.status EXCEPT ![t] =
                         IF Worked(mem.s, t) THEN v ELSE @],
           n.task = mem.s.task, n.run = mem.s.run, n.runTask = mem.s.runTask,
           n.sandbox = mem.s.sandbox, n.artifact = mem.s.artifact,
           Persist([mem EXCEPT !.s = n])
    PROVE  GoodStep
<1> DEFINE m == [mem EXCEPT !.s = n]
<1>1. /\ last \in LastIds /\ IsMaps(mem) /\ mem.s \in ServiceStates
      /\ last.task <= last'.task /\ last.run <= last'.run
  BY MapsFields DEF IInv, Copies, LastIds
<1>2. IsMaps(mem') /\ mem'.s = n /\ Written
  <2>1. Persist(m)  OBVIOUS
  <2>2. IsMaps(m) /\ m.s = n  BY <1>1, MapsWithState
  <2> HIDE DEF m
  <2> QED  BY <2>1, <2>2, PersistWritten
<1>3. \A u \in TaskId :
        n.status[u] = IF u = t /\ Worked(mem.s, t) THEN v ELSE mem.s.status[u]
  BY <1>1, FieldTypes
<1>4. Trusted => Sound(n, Ids(last')) /\ Follows(n, mem.s)
  <2> SUFFICES ASSUME Trusted PROVE Sound(n, Ids(last')) /\ Follows(n, mem.s)
    OBVIOUS
  <2>1. Sound(mem.s, Ids(last')) /\ Ids(last') \in LastType
    BY <1>1, ViewSound, SoundGrows, IdsType
  <2>2. Sound(n, Ids(last')) /\ Forward(mem.s, n)  BY <2>1, PauseSound
  <2> QED  BY <1>3, <2>2 DEF Follows, Worked
<1>5. SameRuns(n, mem.s)  BY DEF SameRuns
<1>6. \A u \in TaskId : mem.s.status[u] # "ABSENT" => n.status[u] # "ABSENT"
  BY <1>3
<1> QED  BY <1>1, <1>2, <1>4, <1>5, <1>6, QuietStep

\* The handlers that save everything.
LEMMA PersistingStep ==
    ASSUME IInv, TrustInv, env' = env,
           \/ \E t \in TaskId : StartRunRefused(t) \/ MarkTaskSandboxFailure(t)
           \/ \E t \in TaskId, owner \in Owners, scope \in Scopes :
                ApplyHumanOverride(t, owner, scope)
           \/ OtherProjectHandler
    PROVE  GoodStep
<1>1. /\ last \in LastIds /\ IsMaps(mem) /\ mem.s \in ServiceStates
      /\ last.task <= last.task /\ last.run <= last.run
  BY MapsFields DEF IInv, Copies, LastIds
<1>2. ASSUME Persist(mem), up, Quiet, last' = last
      PROVE  GoodStep
  <2>1. mem' = mem /\ Written  BY <1>2, PersistWritten
  <2>2. SameWork(mem'.s, mem.s)  BY <2>1 DEF SameWork
  <2> QED  BY <1>1, <1>2, <2>1, <2>2, SameWorkStep DEF Quiet
<1>3. ASSUME NEW t \in TaskId, StartRunRefused(t)
      PROVE  GoodStep
  <2>1. up /\ Quiet /\ last' = last  BY <1>3 DEF StartRunRefused, HasMain
  <2>2. CASE Persist(mem)  BY <1>2, <2>1, <2>2
  <2>3. CASE /\ EnsureTaskReady(mem.s, t)
             /\ Persist([mem EXCEPT !.s = SandboxCreateFailedEffect(@, t)])
    BY <2>1, <2>3, SandboxFailsStep
  <2> QED  BY <1>3, <2>2, <2>3 DEF StartRunRefused
<1>4. ASSUME NEW t \in TaskId, MarkTaskSandboxFailure(t)
      PROVE  GoodStep
  <2> DEFINE F == mem.s.faults \cup {t}
             n == [mem.s EXCEPT !.faults = F]
             m == [mem EXCEPT !.s = n]
  <2>1. F \in SUBSET TaskId  BY <1>1, FieldTypes
  <2>2. n \in ServiceStates /\ SameWork(n, mem.s)  BY <1>1, <2>1, FaultFields
  <2>3. up /\ Quiet /\ last' = last
    BY <1>4 DEF MarkTaskSandboxFailure, HasMain
  <2>4. Persist(m)  BY <1>4 DEF MarkTaskSandboxFailure
  <2>5. IsMaps(m) /\ m.s = n  BY <1>1, <2>2, MapsWithState
  <2> HIDE DEF n, m
  <2>6. IsMaps(mem') /\ mem'.s = n /\ Written
    BY <2>4, <2>5, PersistWritten
  <2> QED  BY <1>1, <2>2, <2>3, <2>6, SameWorkStep DEF Quiet
<1>5. ASSUME NEW t \in TaskId, NEW owner \in Owners, NEW scope \in Scopes,
             ApplyHumanOverride(t, owner, scope)
      PROVE  GoodStep
  <2> DEFINE o == last.override + 1
             n == QueueOverrideEffect(mem.s, o, t, owner, scope)
  <2>1. /\ up /\ Quiet /\ last.override < MaxOverrides
        /\ mem.s.status[t] \in {"IN_PROGRESS", "HUMAN_OVERRIDE"}
        /\ last' = [last EXCEPT !.override = @ + 1]
        /\ Persist([mem EXCEPT !.s = n])
    BY <1>5 DEF ApplyHumanOverride, HasMain
  <2>2. o \in OverrideId /\ o \in 0..MaxOverrides
    BY <1>1, <2>1, BoundsAssumption DEF LastIds, OverrideId
  <2>3. last' \in LastIds /\ last'.task = last.task /\ last'.run = last.run
    BY <1>1, <2>1, <2>2, Zenon DEF LastIds
  <2> HIDE DEF o
  <2>4. /\ n \in ServiceStates
        /\ n.status = [mem.s.status EXCEPT ![t] =
                         IF mem.s.status[t] = "IN_PROGRESS"
                           THEN TransitionTo(mem.s.status[t], "HUMAN_OVERRIDE")
                           ELSE mem.s.status[t]]
        /\ n.task = mem.s.task /\ n.run = mem.s.run /\ n.runTask = mem.s.runTask
        /\ n.sandbox = mem.s.sandbox /\ n.artifact = mem.s.artifact
    BY <1>1, <2>2, QueueOverrideFields
  <2> HIDE DEF n
  <2>5. n.status = [mem.s.status EXCEPT ![t] =
                      IF Worked(mem.s, t) THEN "HUMAN_OVERRIDE" ELSE @]
    BY <2>1, <2>4 DEF TransitionTo, IsAllowedTransition, AllowedTransitions, Worked
  <2>6. up' = up /\ agent' = agent /\ reading' = reading  BY <2>1 DEF Quiet
  <2> QED  BY <2>1, <2>3, <2>4, <2>5, <2>6, SameAgents, PauseStep
<1>6. CASE OtherProjectHandler  BY <1>2, <1>6 DEF OtherProjectHandler
<1> QED  BY <1>3, <1>4, <1>5, <1>6

-----------------------------------------------------------------------------
(***************************************************************************)
(* Reads.                                                                  *)
(***************************************************************************)
LEMMA AnswerFields ==
    ASSUME IInv, NEW kind \in ReadKind, NEW r \in RunId
    PROVE  /\ IsRows(Answer(kind, r)) /\ Known(Answer(kind, r), last)
           /\ kind \in RunReads =>
                /\ Answer(kind, r).run[r] = rows.run[r]
                /\ Answer(kind, r).runTask[r] = rows.runTask[r]
<1> DEFINE none == RowsOf(Blank)
           a == Answer(kind, r)
<1>1. /\ IsRows(rows) /\ Known(rows, last) /\ IsRows(none)
      /\ \A q \in RunId : none.run[q] = "ABSENT" /\ ~none.artifact[q]
  BY BlankFields DEF IInv, Copies, SameRows
<1> HIDE DEF none
<1>2. CASE kind = "projects"
  <2>1. a = [none EXCEPT !.projects = rows.projects]
    BY <1>2 DEF Answer, none
  <2>2. rows.projects \in SUBSET Projects  BY <1>1, RowsFields
  <2> HIDE DEF a
  <2>3. IsRows(a) /\ SameRows(a, none)  BY <1>1, <2>1, <2>2, RowsWithProjects
  <2> QED  BY <1>1, <1>2, <2>3 DEF SameRows, Known, RunReads, a
<1>3. CASE kind = "requirements"
  <2>1. a = [none EXCEPT !.reqs = rows.reqs]  BY <1>3 DEF Answer, none
  <2>2. rows.reqs \in Nat  BY <1>1, RowsFields
  <2> HIDE DEF a
  <2>3. IsRows(a) /\ SameRows(a, none)
    BY <1>1, <2>1, <2>2, ZenonT(60) DEF IsRows, SameRows
  <2> QED  BY <1>1, <1>3, <2>3 DEF SameRows, Known, RunReads, a
<1>4. CASE kind = "tasks"
  <2>1. a = [none EXCEPT !.status = rows.status, !.task = rows.task,
                         !.taskAt = rows.taskAt]
    BY <1>4 DEF Answer, none
  <2>2. /\ rows.status \in [TaskId -> TaskStatus \cup {"ABSENT"}]
        /\ rows.task \in [TaskId -> TaskSpec]
    BY <1>1, RowsFields
  <2> HIDE DEF a
  <2>3. IsRows(a) /\ a.run = none.run /\ a.artifact = none.artifact
    BY <1>1, <2>1, <2>2, ZenonT(60) DEF IsRows
  <2> QED  BY <1>1, <1>4, <2>3 DEF Known, RunReads, a
<1>5. CASE kind \in RunReads
  <2> DEFINE rn == [none.run EXCEPT ![r] = rows.run[r]]
             rt == [none.runTask EXCEPT ![r] = rows.runTask[r]]
             ar == [none.artifact EXCEPT ![r] = rows.artifact[r]]
  <2>1. a = [none EXCEPT !.run[r] = rows.run[r], !.runTask[r] = rows.runTask[r],
                         !.artifact[r] = rows.artifact[r]]
    BY <1>5 DEF Answer, none, RunReads
  <2>2. a = [none EXCEPT !.run = rn, !.runTask = rt, !.artifact = ar]
    BY <2>1, ZenonT(60)
  <2>3. /\ rn \in [RunId -> RunStatus \cup {"ABSENT"}]
        /\ rt \in [RunId -> TaskId \cup {NoId}]
        /\ ar \in [RunId -> BOOLEAN]
    BY <1>1, RowsFields
  <2>4. \A q \in RunId :
          /\ rn[q] = IF q = r THEN rows.run[q] ELSE none.run[q]
          /\ rt[q] = IF q = r THEN rows.runTask[q] ELSE none.runTask[q]
          /\ ar[q] = IF q = r THEN rows.artifact[q] ELSE none.artifact[q]
    BY <1>1, RowsFields
  <2> HIDE DEF a, rn, rt, ar
  <2>5. IsRows(a) /\ a.run = rn /\ a.runTask = rt /\ a.artifact = ar
    BY <1>1, <2>2, <2>3, ZenonT(60) DEF IsRows
  <2>6. Known(a, last)  BY <1>1, <2>4, <2>5 DEF Known
  <2> QED  BY <2>4, <2>5, <2>6 DEF a
<1> QED  BY <1>2, <1>3, <1>4, <1>5 DEF ReadKind, RunReads

\* A read gets its rows.
LEMMA StartReadStep ==
    ASSUME IInv, TrustInv, env' = env, NEW kind \in ReadKind, NEW r \in RunId,
           StartRead(kind, r)
    PROVE  GoodStep
<1> DEFINE a == Answer(kind, r)
<1>1. /\ up /\ up' = up /\ kind \in env.reads
      /\ mem' = mem /\ rows' = rows /\ legacy' = legacy
      /\ agent' = agent /\ last' = last
      /\ kind = "run" => rows.run[r] # "ABSENT"
      /\ kind \in {"export", "download"} => rows.artifact[r]
  BY DEF StartRead
<1>2. reading'.kind = kind /\ reading'.run = r /\ reading'.rows = a
  BY Zenon DEF StartRead
<1>3. /\ IsRows(a) /\ Known(a, last)
      /\ kind \in RunReads => /\ a.run[r] = rows.run[r]
                              /\ a.runTask[r] = rows.runTask[r]
  BY AnswerFields
<1> HIDE DEF a
<1>4. kind \in RunReads => r <= last.run
  BY <1>1 DEF RunReads, IInv, Copies, Known
<1>5. Waiting(reading', last', up')  BY <1>1, <1>2, <1>3, <1>4 DEF Waiting
<1>6. Owned(agent', mem', rows', reading', up')
  BY <1>1, <1>2, <1>3 DEF Owned, IInv
<1>7. IInv'  BY <1>1, <1>5, <1>6 DEF IInv, Can
<1>8. TrustInv'
  <2>1. Trusted => reading'.kind \notin {"tasks", "run"}
    BY <1>1, <1>2 DEF Trusted
  <2>2. Current(reading', rows')
    BY <1>1, <1>2, <1>3 DEF Current, RunReads
  <2> QED  BY <1>1, <2>1, <2>2 DEF TrustInv, Trusted, Can, Live
<1>9. Forward(rows, rows') /\ TasksStay  BY <1>1, ForwardSame DEF TasksStay
<1> QED  BY <1>7, <1>8, <1>9 DEF GoodStep

\* The run of a read is written over the one in the maps.  In a trusted
\* environment that changes nothing.
LEMMA SeenRunStep ==
    ASSUME IInv, TrustInv, env' = env, ReadDone, reading.kind \in RunReads,
           rows' = rows, legacy' = legacy \/ legacy' = mem', IsMaps(mem'),
           \A q \in RunId \ {reading.run} :
             /\ mem'.s.run[q] = mem.s.run[q] /\ mem'.s.artifact[q] = mem.s.artifact[q]
             /\ mem'.s.runTask[q] = mem.s.runTask[q],
           \/ /\ mem'.s.run[reading.run] = mem.s.run[reading.run]
              /\ mem'.s.runTask[reading.run] = mem.s.runTask[reading.run]
           \/ /\ mem'.s.run[reading.run] = seen.run[reading.run]
              /\ mem'.s.runTask[reading.run] = seen.runTask[reading.run],
           mem'.s.status = mem.s.status,
           Trusted => SameWork(mem'.s, mem.s)
    PROVE  GoodStep
<1>1. /\ last \in LastIds /\ Copies(mem, rows, legacy, last)
      /\ Waiting(reading, last, up) /\ Owned(agent, mem, rows, reading, up)
      /\ ~Can("load") /\ up => Covered(mem, rows)
  BY DEF IInv
<1>2. /\ up = TRUE /\ up' = up /\ agent' = agent /\ last' = last
      /\ reading' = NoRead /\ reading.run \in RunId /\ reading.run <= last.run
      /\ Known(seen, last)
  BY <1>1 DEF ReadDone, Waiting, seen, RunReads, IInv
<1>3. Known(mem'.s, last) /\ Known(rows', last) /\ IsRows(rows')
  BY <1>1, <1>2 DEF Known, Copies
<1>4. ASSUME NEW r \in RunId, agent[r].phase \notin {"none", "exited"}
      PROVE  /\ mem'.s.run[r] = "RUNNING" /\ rows'.run[r] = "RUNNING"
             /\ agent[r].phase \in OnTask => agent[r].task \in TaskId
  <2>1. /\ mem.s.run[r] = "RUNNING" /\ rows.run[r] = "RUNNING"
        /\ reading.run = r => seen.run[r] = "RUNNING"
        /\ agent[r].phase \in OnTask => agent[r].task \in TaskId
    BY <1>1, <1>4 DEF Owned, seen
  <2> QED  BY <2>1
<1>5. ~Can("load") => Covered(mem', rows')  BY <1>1, <1>2 DEF Covered
<1>6. last.run <= last'.run /\ last.task <= last'.task
  BY <1>1, <1>2 DEF LastIds
<1>7. IInv'
  BY <1>1, <1>2, <1>3, <1>4, <1>5, <1>6, SameAgents, StepKeepsInv DEF Live
<1>8. ASSUME Trusted
      PROVE  /\ Agreed(mem', rows', legacy', last', up')
             /\ Forward(rows, rows')
  <2>1. Agreed(mem, rows, legacy, last, TRUE)
    BY <1>2, <1>8 DEF TrustInv
  <2>2. mem'.s \in ServiceStates /\ SameWork(mem'.s, mem.s)
    BY <1>8, MapsFields
  <2>3. Sound(mem'.s, Ids(last')) /\ Forward(mem.s, mem'.s)
    BY <1>1, <1>2, <2>1, <2>2, SameWorkSound, IdsType DEF Agreed
  <2>4. Follows(mem'.s, mem.s)  BY <2>2, <2>3 DEF Follows, SameWork
  <2>5. Written  BY <1>3 DEF Written, SameRows
  <2> QED  BY <1>1, <1>2, <1>6, <2>1, <2>3, <2>4, <2>5, FollowsAgreed
<1>9. TrustInv'  BY <1>2, <1>8, AgentsStay, StepKeepsTrust
<1>10. TasksStay  BY DEF TasksStay
<1> QED  BY <1>7, <1>8, <1>9, <1>10 DEF GoodStep

\* The maps with the run of the answer.
LEMMA WithRunSeenFields ==
    ASSUME IInv, NEW r \in RunId
    PROVE  LET m == WithRunSeen(r)
           IN  /\ IsMaps(m)
               /\ \A q \in RunId :
                    /\ m.s.run[q] = IF q = r THEN seen.run[q] ELSE mem.s.run[q]
                    /\ m.s.runTask[q] = IF q = r THEN seen.runTask[q]
                                                 ELSE mem.s.runTask[q]
                    /\ m.s.artifact[q] = (mem.s.artifact[q]
                                            \/ (q = r /\ seen.artifact[q]))
               /\ m.s.status = mem.s.status /\ m.s.task = mem.s.task
               /\ m.s.sandbox = mem.s.sandbox
<1> DEFINE m == WithRunSeen(r)
           rn == [mem.s.run EXCEPT ![r] = seen.run[r]]
           rt == [mem.s.runTask EXCEPT ![r] = seen.runTask[r]]
           ar == [mem.s.artifact EXCEPT ![r] = @ \/ seen.artifact[r]]
           n == [mem.s EXCEPT !.run = rn, !.runTask = rt, !.artifact = ar]
<1>1. IsMaps(mem) /\ mem.s \in ServiceStates /\ IsRows(seen)
  BY MapsFields DEF IInv, Copies, Waiting, seen
<1>2. /\ rn \in [RunId -> RunStatus \cup {"ABSENT"}]
      /\ rt \in [RunId -> TaskId \cup {NoId}]
      /\ ar \in [RunId -> BOOLEAN]
  BY <1>1, RowsFields, FieldTypes
<1>3. \A q \in RunId :
        /\ rn[q] = IF q = r THEN seen.run[q] ELSE mem.s.run[q]
        /\ rt[q] = IF q = r THEN seen.runTask[q] ELSE mem.s.runTask[q]
        /\ ar[q] = (mem.s.artifact[q] \/ (q = r /\ seen.artifact[q]))
  BY <1>1, RowsFields, FieldTypes
<1>4. m = [mem EXCEPT !.s = n]
  <2>1. m.projects = mem.projects /\ m.taskOrder = mem.taskOrder
    BY <1>1, ZenonT(60) DEF WithRunSeen, IsMaps
  <2> QED  BY <1>1, ZenonT(60) DEF WithRunSeen, IsMaps, ServiceStates
<1> HIDE DEF m, rn, rt, ar
<1>5. /\ n \in ServiceStates /\ n.run = rn /\ n.runTask = rt /\ n.artifact = ar
      /\ n.status = mem.s.status /\ n.task = mem.s.task
      /\ n.sandbox = mem.s.sandbox
  BY <1>1, <1>2, ZenonT(60) DEF ServiceStates
<1> HIDE DEF n
<1>6. IsMaps(m) /\ m.s = n  BY <1>1, <1>4, <1>5, MapsWithState
<1> QED  BY <1>3, <1>5, <1>6 DEF m

\* The answer of a read is written over the maps.
LEMMA FinishReadStep ==
    ASSUME IInv, TrustInv, env' = env, FinishRead
    PROVE  GoodStep
<1> DEFINE q == reading.run
<1>1. /\ last \in LastIds /\ IsMaps(mem) /\ mem.s \in ServiceStates
      /\ IsRows(rows) /\ IsRows(seen) /\ Waiting(reading, last, up)
      /\ up \in BOOLEAN /\ last.task <= last.task /\ last.run <= last.run
  BY MapsFields DEF IInv, Copies, Waiting, seen, LastIds
<1>2. ASSUME ReadDone, reading.kind # "none"
      PROVE  /\ up = TRUE /\ up' = up /\ agent' = agent /\ last' = last
             /\ reading' = NoRead
             /\ reading.kind \in RunReads => q \in RunId /\ q <= last.run
  BY <1>1, <1>2 DEF ReadDone, Waiting
<1>3. CASE FinishListProjects
  <2>1. /\ ReadDone /\ reading.kind # "none" /\ rows' = rows /\ legacy' = legacy
        /\ mem' = [mem EXCEPT !.projects = seen.projects]
    BY <1>3 DEF FinishListProjects
  <2>2. IsMaps(mem') /\ mem'.s = mem.s
    BY <1>1, <2>1, MapsWithProjects, RowsFields
  <2>3. SameWork(mem'.s, mem.s) /\ Written  BY <2>1, <2>2 DEF SameWork, Written
  <2> QED  BY <1>1, <1>2, <2>1, <2>2, <2>3, SameWorkStep
<1>4. CASE FinishListRequirements
  <2> DEFINE n == [mem.s EXCEPT !.reqs = seen.reqs]
  <2>1. /\ ReadDone /\ reading.kind # "none" /\ rows' = rows /\ legacy' = legacy
        /\ mem' = [mem EXCEPT !.s = n]
    BY <1>4 DEF FinishListRequirements
  <2>2. n \in ServiceStates /\ SameWork(n, mem.s)
    <3>1. seen.reqs \in Nat  BY <1>1, RowsFields
    <3> QED  BY <1>1, <3>1, ZenonT(60) DEF ServiceStates, SameWork
  <2> HIDE DEF n
  <2>3. IsMaps(mem') /\ mem'.s = n  BY <1>1, <2>1, <2>2, MapsWithState
  <2>4. Written  BY <2>1 DEF Written
  <2> QED  BY <1>1, <1>2, <2>1, <2>2, <2>3, <2>4, SameWorkStep
<1>5. CASE FinishListTasks
  <2> DEFINE found == {t \in TaskId : /\ seen.status[t] # "ABSENT"
                                      /\ \E i \in TaskId : seen.taskAt[i] = t}
             at == [i \in TaskId |-> IF seen.taskAt[i] \in found
                                       THEN seen.taskAt[i] ELSE NoId]
             st == [t \in TaskId |-> IF t \in found THEN seen.status[t]
                                                    ELSE mem.s.status[t]]
             tk == [t \in TaskId |-> IF t \in found THEN seen.task[t]
                                                    ELSE mem.s.task[t]]
             n == [mem.s EXCEPT !.status = st, !.task = tk]
             o == loadOrder(at)
  <2>1. /\ ReadDone /\ reading.kind = "tasks" /\ rows' = rows /\ legacy' = legacy
    BY <1>5 DEF FinishListTasks
  <2>2. mem' = [mem EXCEPT !.s.status = st, !.s.task = tk,
                           !.taskOrder = loadOrder(at)]
    BY <1>5 DEF FinishListTasks
  <2>3. /\ st \in [TaskId -> TaskStatus \cup {"ABSENT"}]
        /\ tk \in [TaskId -> TaskSpec]
    BY <1>1, RowsFields, FieldTypes
  <2>4. \A t \in TaskId : mem.s.status[t] # "ABSENT" => st[t] # "ABSENT"
    OBVIOUS
  <2> HIDE DEF st, tk, at
  <2>5. mem' = [mem EXCEPT !.s = n, !.taskOrder = o]
    BY <1>1, <2>2, ZenonT(60) DEF IsMaps, ServiceStates
  <2>6. /\ n \in ServiceStates /\ n.status = st /\ n.run = mem.s.run
        /\ n.runTask = mem.s.runTask /\ n.artifact = mem.s.artifact
    BY <1>1, <2>3, ZenonT(60) DEF ServiceStates
  <2> HIDE DEF n, o
  <2>7. IsMaps(mem') /\ mem'.s = n
    <3>1. n \in ServiceStates  BY <2>6
    <3> QED  BY <1>1, <2>5, <3>1, ZenonT(30) DEF IsMaps
  <2>8. SameRuns(mem'.s, mem.s) /\ Written
    BY <2>1, <2>6, <2>7 DEF SameRuns, Written
  <2>9. ~Trusted  BY <2>1 DEF TrustInv
  <2> QED
    BY <1>1, <1>2, <2>1, <2>4, <2>6, <2>7, <2>8, <2>9, SameAgents, QuietStep
<1>6. CASE FinishGetRunStatus
  <2>1. /\ ReadDone /\ reading.kind = "run" /\ rows' = rows /\ legacy' = legacy
        /\ mem' = mem \/ mem' = WithRunSeen(q)
    BY <1>6 DEF FinishGetRunStatus
  <2>2. reading.kind \in RunReads /\ q \in RunId  BY <1>2, <2>1 DEF RunReads
  <2>3. ~Trusted  BY <2>1 DEF TrustInv
  <2>4. CASE mem' = mem
    BY <1>1, <1>2, <2>1, <2>4, NothingWritten
  <2>5. CASE mem' = WithRunSeen(q)
    <3>1. /\ IsMaps(mem') /\ mem'.s.status = mem.s.status
          /\ \A r \in RunId :
               /\ mem'.s.run[r] = IF r = q THEN seen.run[r] ELSE mem.s.run[r]
               /\ mem'.s.runTask[r] = IF r = q THEN seen.runTask[r]
                                               ELSE mem.s.runTask[r]
               /\ mem'.s.artifact[r] = (mem.s.artifact[r]
                                          \/ (r = q /\ seen.artifact[r]))
      BY <2>2, <2>5, WithRunSeenFields
    <3>2. \A r \in RunId \ {reading.run} : mem'.s.artifact[r] = mem.s.artifact[r]
      <4> TAKE r \in RunId \ {reading.run}
      <4>1. mem.s.artifact[r] \in BOOLEAN  BY <1>1, FieldTypes
      <4> QED  BY <3>1, <4>1
    <3> QED  BY <2>1, <2>2, <2>3, <3>1, <3>2, SeenRunStep
  <2> QED  BY <2>1, <2>4, <2>5
<1>7. CASE FinishExportDelivery
  <2>1. ReadDone /\ reading.kind = "export"  BY <1>7 DEF FinishExportDelivery
  <2>2. reading.kind \in RunReads /\ q \in RunId  BY <1>2, <2>1 DEF RunReads
  <2>3. CASE mem' = mem /\ rows' = rows /\ legacy' = legacy
    BY <1>1, <1>2, <2>1, <2>3, NothingWritten
  <2>4. CASE /\ seen.run[q] = "SUCCEEDED" /\ mem' = WithRunSeen(q)
             /\ legacy' = mem' /\ rows' = rows
    <3>1. /\ IsMaps(mem')
          /\ \A r \in RunId :
               /\ mem'.s.run[r] = IF r = q THEN seen.run[r] ELSE mem.s.run[r]
               /\ mem'.s.runTask[r] = IF r = q THEN seen.runTask[r]
                                               ELSE mem.s.runTask[r]
               /\ mem'.s.artifact[r] = (mem.s.artifact[r]
                                          \/ (r = q /\ seen.artifact[r]))
          /\ mem'.s.status = mem.s.status /\ mem'.s.task = mem.s.task
          /\ mem'.s.sandbox = mem.s.sandbox
      BY <2>2, <2>4, WithRunSeenFields
    <3>2. Trusted => SameWork(mem'.s, mem.s)
      <4> SUFFICES ASSUME Trusted PROVE SameWork(mem'.s, mem.s)  OBVIOUS
      <4>1. /\ rows.run[q] = "SUCCEEDED" /\ seen.runTask[q] = rows.runTask[q]
            /\ rows.artifact[q] /\ Ahead(mem.s, rows)
        BY <1>2, <2>1, <2>4, ViewSound DEF TrustInv, Current, seen
      <4>2. /\ mem.s.run[q] = seen.run[q] /\ mem.s.runTask[q] = seen.runTask[q]
            /\ mem.s.artifact[q] = rows.artifact[q]
        BY <2>2, <2>4, <4>1 DEF Ahead, Forward
      <4>3. \A r \in RunId : /\ mem'.s.run[r] = mem.s.run[r]
                             /\ mem'.s.runTask[r] = mem.s.runTask[r]
        BY <3>1, <4>2
      <4>4. mem'.s.artifact[q] = mem.s.artifact[q]
        BY <2>2, <3>1, <4>1, <4>2
      <4>5. mem'.s \in ServiceStates  BY <3>1, MapsFields
      <4>6. \A r \in RunId : mem'.s.artifact[r] = mem.s.artifact[r]
        <5> TAKE r \in RunId
        <5>1. mem.s.artifact[r] \in BOOLEAN  BY <1>1, FieldTypes
        <5> QED  BY <3>1, <4>4, <5>1
      <4>7. /\ mem'.s.run = mem.s.run /\ mem'.s.runTask = mem.s.runTask
            /\ mem'.s.artifact = mem.s.artifact
        BY <1>1, <4>3, <4>5, <4>6, FieldTypes
      <4> QED  BY <3>1, <4>7 DEF SameWork
    <3>3. \A r \in RunId \ {reading.run} :
            /\ mem'.s.run[r] = mem.s.run[r] /\ mem'.s.runTask[r] = mem.s.runTask[r]
            /\ mem'.s.artifact[r] = mem.s.artifact[r]
      <4> TAKE r \in RunId \ {reading.run}
      <4>1. mem.s.artifact[r] \in BOOLEAN  BY <1>1, FieldTypes
      <4> QED  BY <3>1, <4>1
    <3> QED  BY <2>1, <2>2, <2>4, <3>1, <3>2, <3>3, SeenRunStep
  <2> QED
    BY <1>7, <2>3, <2>4 DEF FinishExportDelivery, SaveLegacy
<1>8. CASE FinishGetArtifact
  <2> DEFINE ar == [mem.s.artifact EXCEPT ![q] = TRUE]
             n == [mem.s EXCEPT !.artifact = ar]
  <2>1. ReadDone /\ reading.kind = "download"  BY <1>8 DEF FinishGetArtifact
  <2>2. reading.kind \in RunReads /\ q \in RunId  BY <1>2, <2>1 DEF RunReads
  <2>3. CASE mem' = mem /\ rows' = rows /\ legacy' = legacy
    BY <1>1, <1>2, <2>1, <2>3, NothingWritten
  <2>4. CASE /\ mem' = [mem EXCEPT !.s.artifact[q] = TRUE]
             /\ legacy' = mem' /\ rows' = rows
    <3>1. mem' = [mem EXCEPT !.s = n]  BY <2>4, ZenonT(60)
    <3>2. /\ ar \in [RunId -> BOOLEAN]
          /\ \A r \in RunId : ar[r] = (r = q \/ mem.s.artifact[r])
      BY <1>1, <2>2, FieldTypes
    <3> HIDE DEF ar
    <3>3. /\ n \in ServiceStates /\ n.artifact = ar /\ n.run = mem.s.run
          /\ n.runTask = mem.s.runTask /\ n.status = mem.s.status
          /\ n.task = mem.s.task /\ n.sandbox = mem.s.sandbox
      BY <1>1, <3>2, ZenonT(60) DEF ServiceStates
    <3> HIDE DEF n
    <3>4. IsMaps(mem') /\ mem'.s = n  BY <1>1, <3>1, <3>3, MapsWithState
    <3>5. Trusted => SameWork(mem'.s, mem.s)
      <4> SUFFICES ASSUME Trusted PROVE SameWork(mem'.s, mem.s)  OBVIOUS
      <4>1. rows.artifact[q] /\ Ahead(mem.s, rows)
        BY <1>2, <2>1, ViewSound DEF TrustInv, Current
      <4>2. mem.s.artifact[q] = rows.artifact[q]
        BY <2>2, <4>1 DEF Ahead
      <4>3. ar = mem.s.artifact
        <5>1. \A r \in RunId : mem.s.artifact[r] \in BOOLEAN
          BY <1>1, FieldTypes
        <5>2. \A r \in RunId : ar[r] = mem.s.artifact[r]
          BY <3>2, <4>1, <4>2, <5>1
        <5> QED  BY <1>1, <3>2, <5>2, FieldTypes
      <4> QED  BY <3>3, <3>4, <4>3 DEF SameWork
    <3>6. \A r \in RunId \ {reading.run} : mem'.s.artifact[r] = mem.s.artifact[r]
      <4> TAKE r \in RunId \ {reading.run}
      <4>1. mem.s.artifact[r] \in BOOLEAN  BY <1>1, FieldTypes
      <4> QED  BY <3>2, <3>3, <3>4, <4>1
    <3> QED  BY <2>1, <2>2, <2>4, <3>3, <3>4, <3>5, <3>6, SeenRunStep
  <2> QED  BY <1>8, <2>3, <2>4 DEF FinishGetArtifact, SaveLegacy
<1> QED  BY <1>3, <1>4, <1>5, <1>6, <1>7, <1>8 DEF FinishRead

-----------------------------------------------------------------------------
(***************************************************************************)
(* Starting runs.                                                          *)
(***************************************************************************)

\* The runs of a request get the identifiers that follow the newest.
LEMMA AllocatesRuns ==
    ASSUME IInv, NEW sel \in SUBSET ReadyTasks, NEW rid \in [sel -> RunId],
           Allocates(rid, sel), last.run + Cardinality(sel) <= MaxRuns,
           last' = [last EXCEPT !.run = @ + Cardinality(sel)]
    PROVE  /\ last' \in LastIds /\ last'.task = last.task /\ last.run <= last'.run
           /\ NewRuns(mem.s, Ids(last), sel, rid, last'.run)
<1> DEFINE k == Cardinality(sel)
<1>1. last \in LastIds /\ last.run \in Nat /\ MaxRuns \in Nat
  BY BoundsAssumption DEF IInv, LastIds
<1>2. k \in Nat
  <2>1. IsFiniteSet(TaskId)
    <3>1. 1 \in Int /\ MaxTasks \in Int  BY BoundsAssumption
    <3> QED  BY <3>1, FS_Interval DEF TaskId
  <2>2. sel \subseteq TaskId  BY DEF ReadyTasks
  <2> QED  BY <2>1, <2>2, FS_Subset, FS_CardinalityType
<1> HIDE DEF k
<1>3. last.run + k \in 0..MaxRuns /\ last.run <= last.run + k
  BY <1>1, <1>2 DEF k
<1>4. /\ last' \in LastIds /\ last'.task = last.task /\ last'.run = last.run + k
  BY <1>1, <1>3, Zenon DEF LastIds, k
<1>5. \A t \in sel : rid[t] \in (last.run + 1)..(last.run + k)
  BY DEF Allocates, k
<1>6. \A t \in sel : last.run < rid[t] /\ rid[t] <= last.run + k
  BY <1>1, <1>2, <1>5
<1>7. ASSUME NEW t \in sel, NEW u \in sel, rid[t] = rid[u]
      PROVE  t = u
  <2>1. t \in Nat /\ u \in Nat /\ rid[t] \in Nat
    BY DEF ReadyTasks, TaskId, RunId
  <2>2. ~(t < u) /\ ~(u < t)  BY <1>7, <2>1 DEF Allocates
  <2> QED  BY <2>1, <2>2
<1>8. Ids(last).run = last.run  BY <1>1, IdsType
<1> QED  BY <1>3, <1>4, <1>6, <1>7, <1>8 DEF NewRuns, ReadyTasks

\* The maps after startTaskRunLocked for every task of the request.
LEMMA WithRunsFields ==
    ASSUME IInv, NEW sel \in SUBSET ReadyTasks, NEW rid \in [sel -> RunId]
    PROVE  /\ IsMaps(WithRuns(rid))
           /\ WithRuns(rid).s = StartTaskRunsEffect(mem.s, rid)
           /\ StartedRuns(StartTaskRunsEffect(mem.s, rid), mem.s, sel, rid)
<1> DEFINE n == StartTaskRunsEffect(mem.s, rid)
           o == mem.runOrder \o [i \in 1..Cardinality(DOMAIN rid) |-> last.run + i]
<1>1. IsMaps(mem) /\ mem.s \in ServiceStates  BY MapsFields DEF IInv, Copies
<1>2. StartedRuns(n, mem.s, sel, rid)
  BY <1>1, StartTaskRunsFields DEF ReadyTasks
<1>3. n \in ServiceStates  BY <1>2 DEF StartedRuns
<1>4. WithRuns(rid) = [mem EXCEPT !.s = n, !.runOrder = o]  BY DEF WithRuns
<1> HIDE DEF n, o
<1>5. IsMaps(WithRuns(rid)) /\ WithRuns(rid).s = n
  BY <1>1, <1>3, <1>4, ZenonT(30) DEF IsMaps
<1> QED  BY <1>2, <1>5 DEF n

\* What is ready in the maps is ready in the rows.
LEMMA ReadyInRows ==
    ASSUME NEW s \in ServiceStates, NEW rw, IsRows(rw), Ahead(s, rw), NEW t \in TaskId,
           EnsureTaskReady(s, t)
    PROVE  /\ rw.status[t] = "CREATED"
           /\ \A d \in rw.task[t].deps : rw.status[d] = "DONE"
<1>1. rw.status[t] = "CREATED"
  BY DEF Ahead, Forward, EnsureTaskReady, Stages!TaskMayBecome, Stages!Working
<1>2. s.task[t] = rw.task[t]  BY <1>1 DEF Ahead, Forward
<1>3. \A d \in s.task[t].deps : d \in TaskId  BY DepsType
<1> QED  BY <1>1, <1>2, <1>3 DEF Ahead, EnsureTaskReady

\* StartRuns commits the runs, their tasks and the document, and only then
\* starts the goroutines.
LEMMA StartRunsStep ==
    ASSUME IInv, TrustInv, env' = env, NEW sel \in SUBSET ReadyTasks,
           StartParallelRun(sel)
    PROVE  GoodStep
<1>1. /\ up /\ last.run + Cardinality(sel) <= MaxRuns /\ StartRuns(sel)
  BY DEF StartParallelRun, HasMain
<1>2. PICK rid \in [sel -> RunId] :
        LET c == WithRuns(rid)
            new == {rid[t] : t \in sel}
            accepted == ProjectLocked /\ RunInsertsAccepted(rows, c, new)
        IN  /\ Allocates(rid, sel)
            /\ last' = [last EXCEPT !.run = @ + Cardinality(sel)]
            /\ \/ /\ Committed(c, InsertRuns(UpdateTasks(rows, c, sel), c, new),
                               accepted)
                  /\ Spawn(new)
               \/ RolledBack(accepted) /\ UNCHANGED agent
            /\ UNCHANGED <<up, reading>>
  BY <1>1 DEF StartRuns
<1> DEFINE c == WithRuns(rid)
           new == {rid[t] : t \in sel}
           n == StartTaskRunsEffect(mem.s, rid)
<1>3. /\ last' \in LastIds /\ last'.task = last.task /\ last.run <= last'.run
      /\ NewRuns(mem.s, Ids(last), sel, rid, last'.run)
  BY <1>1, <1>2, AllocatesRuns
<1>4. /\ last \in LastIds /\ Copies(mem, rows, legacy, last)
      /\ Owned(agent, mem, rows, reading, up) /\ IsRows(rows) /\ IsMaps(mem)
      /\ mem.s \in ServiceStates /\ agent \in Agents
      /\ ~Can("load") => Covered(mem, rows)
      /\ last.task <= last'.task
  BY <1>1, <1>3, MapsFields DEF IInv, Copies, LastIds
<1>5. up' = up /\ reading' = reading  BY <1>2
<1>6. CASE mem' = mem /\ rows' = rows /\ legacy' = legacy /\ agent' = agent
  BY <1>1, <1>3, <1>4, <1>5, <1>6, NothingWritten
<1>7. CASE /\ mem' = c /\ legacy' = c /\ Spawn(new)
           /\ rows' = InsertRuns(UpdateTasks(rows, c, sel), c, new)
  <2>1. IsMaps(mem') /\ mem'.s = n /\ legacy' = mem' /\ StartedRuns(n, mem.s, sel, rid)
    BY <1>7, WithRunsFields
  <2>2. /\ n \in ServiceStates
        /\ \A t \in TaskId :
             n.status[t] = IF t \in sel THEN "IN_PROGRESS" ELSE mem.s.status[t]
        /\ \A r \in RunId : r \notin new =>
             /\ n.run[r] = mem.s.run[r] /\ n.runTask[r] = mem.s.runTask[r]
             /\ n.sandbox[r] = mem.s.sandbox[r]
        /\ \A r \in new :
             /\ n.run[r] = "RUNNING" /\ n.sandbox[r] = "ACTIVE"
             /\ n.runTask[r] \in sel /\ rid[n.runTask[r]] = r
        /\ n.task = mem.s.task /\ n.artifact = mem.s.artifact
    BY <2>1 DEF StartedRuns
  <2>3. /\ sel \subseteq TaskId /\ new \subseteq RunId
        /\ \A r \in new : last.run < r /\ r <= last'.run
        /\ \A t, u \in sel : rid[t] = rid[u] => t = u
    BY <1>3, <1>4, IdsType DEF NewRuns
  <2>4. /\ IsRows(rows')
        /\ \A t \in TaskId :
             rows'.status[t] = IF t \in sel /\ rows.status[t] # "ABSENT"
                                 THEN "IN_PROGRESS" ELSE rows.status[t]
        /\ \A r \in RunId :
             /\ rows'.run[r] = IF r \in new THEN "RUNNING" ELSE rows.run[r]
             /\ rows'.runTask[r] = IF r \in new THEN n.runTask[r]
                                                ELSE rows.runTask[r]
        /\ rows'.task = rows.task /\ rows'.artifact = rows.artifact
    <3> DEFINE u == UpdateTasks(rows, c, sel)
    <3>1. IsMaps(c) /\ c.s = n  BY <1>7, <2>1
    <3> HIDE DEF c, n, new
    <3>2. /\ IsRows(u)
          /\ \A t \in TaskId :
               u.status[t] = IF t \in sel /\ rows.status[t] # "ABSENT"
                               THEN n.status[t] ELSE rows.status[t]
          /\ u.task = rows.task /\ u.run = rows.run /\ u.runTask = rows.runTask
          /\ u.artifact = rows.artifact
      BY <1>4, <3>1, UpdateTasksFields
    <3> HIDE DEF u
    <3>3. /\ IsRows(rows')
          /\ \A r \in RunId :
               /\ rows'.run[r] = IF r \in new THEN n.run[r] ELSE u.run[r]
               /\ rows'.runTask[r] = IF r \in new THEN n.runTask[r]
                                                  ELSE u.runTask[r]
          /\ rows'.status = u.status /\ rows'.task = u.task
          /\ rows'.artifact = u.artifact
      BY <1>7, <3>1, <3>2, InsertRunsFields DEF u
    <3> QED  BY <2>2, <3>2, <3>3
  <2>5. /\ agent' \in Agents
        /\ \A r \in RunId : agent'[r] = IF r \in new
                                          THEN [phase |-> "spawned", task |-> NoId]
                                          ELSE agent[r]
    BY <1>4, <1>7 DEF Spawn, Agents, Phase
  <2> HIDE DEF new, n, c
  <2>6. \A r \in RunId : agent'[r].phase \notin {"none", "exited"} =>
          /\ mem'.s.run[r] = "RUNNING" /\ rows'.run[r] = "RUNNING"
          /\ agent'[r].phase \in OnTask => agent'[r].task \in TaskId
          /\ Live(r) \/ last.run < r
    <3> SUFFICES ASSUME NEW r \in RunId, agent'[r].phase \notin {"none", "exited"}
                 PROVE  /\ mem'.s.run[r] = "RUNNING" /\ rows'.run[r] = "RUNNING"
                        /\ agent'[r].phase \in OnTask => agent'[r].task \in TaskId
                        /\ Live(r) \/ last.run < r
      OBVIOUS
    <3>1. CASE r \in new
      <4>1. agent'[r].phase = "spawned"  BY <2>5, <3>1
      <4> QED  BY <2>1, <2>2, <2>3, <2>4, <3>1, <4>1 DEF OnTask
    <3>2. CASE r \notin new
      <4>1. agent'[r] = agent[r]  BY <2>5, <3>2
      <4> QED  BY <1>4, <2>1, <2>2, <2>4, <3>2, <4>1 DEF Owned, Live
    <3> QED  BY <3>1, <3>2
  <2>7. Known(mem'.s, last') /\ Known(rows', last')
    <3>1. Known(mem.s, last') /\ Known(rows, last')
      BY <1>3, <1>4, KnownGrows DEF Copies
    <3> QED  BY <2>1, <2>2, <2>3, <2>4, <3>1 DEF Known
  <2>8. ~Can("load") => Covered(mem', rows') /\ TasksStay
    BY <1>4, <2>1, <2>2, <2>4 DEF Covered, TasksStay
  <2>9. IInv'
    BY <1>1, <1>3, <1>5, <2>1, <2>4, <2>5, <2>6, <2>7, <2>8, StepKeepsInv DEF IInv
  <2>10. ASSUME Trusted
         PROVE  Agreed(mem', rows', legacy', last', TRUE) /\ Forward(rows, rows')
    <3> DEFINE v == Loaded(rows, mem.s)
               w == Loaded(rows', mem'.s)
               e == StartTaskRunsEffect(v, rid)
    <3>1. /\ Sound(v, Ids(last)) /\ Sound(mem.s, Ids(last)) /\ Ahead(mem.s, rows)
          /\ SameRows(v, rows) /\ v.sandbox = mem.s.sandbox /\ v \in ServiceStates
      BY <1>1, <2>10, ViewSound DEF Sound
    <3>2. /\ w \in ServiceStates /\ SameRows(w, rows')
          /\ w.sandbox = n.sandbox
      BY <2>1, <2>2, <2>4, LoadedFields
    <3> HIDE DEF v, w
    <3>3. \A t \in sel : /\ rows.status[t] = "CREATED"
                         /\ \A d \in rows.task[t].deps : rows.status[d] = "DONE"
      BY <1>3, <1>4, <2>3, <3>1, ReadyInRows DEF NewRuns
    <3>4. NewRuns(v, Ids(last), sel, rid, last'.run)
      BY <1>3, <3>1, <3>3 DEF NewRuns, EnsureTaskReady, SameRows
    <3>5. /\ Ids(last) \in LastType /\ Ids(last') \in LastType
          /\ Ids(last).task = Ids(last').task /\ Ids(last').run = last'.run
      BY <1>3, <1>4, IdsType
    <3>6. Sound(e, Ids(last')) /\ Forward(v, e)
      BY <3>1, <3>4, <3>5, StartTaskRunsSound
    <3>7. Sound(n, Ids(last')) /\ Forward(mem.s, n)
      BY <1>3, <3>1, <3>5, StartTaskRunsSound DEF n
    <3>8. StartedRuns(e, v, sel, rid)  BY <2>3, <3>1, StartTaskRunsFields
    <3>9. /\ e \in ServiceStates
          /\ \A t \in TaskId :
               e.status[t] = IF t \in sel THEN "IN_PROGRESS" ELSE v.status[t]
          /\ \A r \in RunId : r \notin new =>
               /\ e.run[r] = v.run[r] /\ e.runTask[r] = v.runTask[r]
               /\ e.sandbox[r] = v.sandbox[r]
          /\ \A r \in new :
               /\ e.run[r] = "RUNNING" /\ e.sandbox[r] = "ACTIVE"
               /\ e.runTask[r] \in sel /\ rid[e.runTask[r]] = r
          /\ e.task = v.task /\ e.artifact = v.artifact
      BY <3>8 DEF StartedRuns, new
    <3> HIDE DEF e
    <3>10. SameWork(w, e)
      <4>1. \A t \in TaskId : w.status[t] = e.status[t]
        BY <2>4, <3>1, <3>2, <3>3, <3>9 DEF SameRows
      <4>2. \A r \in RunId : /\ w.run[r] = e.run[r] /\ w.sandbox[r] = e.sandbox[r]
                             /\ w.runTask[r] = e.runTask[r]
        <5> TAKE r \in RunId
        <5>1. CASE r \in new
          BY <2>2, <2>3, <2>4, <3>2, <3>9, <5>1 DEF SameRows
        <5>2. CASE r \notin new
          BY <2>2, <2>4, <3>1, <3>2, <3>9, <5>2 DEF SameRows
        <5> QED  BY <5>1, <5>2
      <4>3. w.task = e.task /\ w.artifact = e.artifact
        BY <2>4, <3>1, <3>2, <3>9 DEF SameRows
      <4> QED  BY <3>2, <3>9, <4>1, <4>2, <4>3, FieldTypes DEF SameWork
    <3>11. Sound(w, Ids(last')) /\ Forward(e, w)
      BY <3>2, <3>5, <3>6, <3>10, SameWorkSound
    <3>12. Forward(rows, rows')
      <4>1. Forward(v, w)  BY <3>6, <3>11, ForwardTransitive
      <4> QED  BY <3>1, <3>2, <4>1 DEF SameRows, Forward
    <3>13. Ahead(mem'.s, rows')
      <4>1. \A t \in TaskId :
              /\ Stages!TaskMayBecome(rows'.status[t], n.status[t])
              /\ rows'.status[t] # "ABSENT" => n.task[t] = rows'.task[t]
        <5> TAKE t \in TaskId
        <5>1. CASE t \in sel
          BY <2>2, <2>4, <3>1, <3>3, <5>1
             DEF Ahead, Forward, Stages!TaskMayBecome
        <5>2. CASE t \notin sel
          BY <2>2, <2>4, <3>1, <5>2 DEF Ahead, Forward
        <5> QED  BY <5>1, <5>2
      <4>2. \A r \in RunId :
              /\ Stages!RunMayBecome(rows'.run[r], n.run[r])
              /\ rows'.run[r] # "ABSENT" => /\ n.runTask[r] = rows'.runTask[r]
                                            /\ n.run[r] = rows'.run[r]
        <5> TAKE r \in RunId
        <5>1. CASE r \in new
          BY <2>2, <2>4, <5>1 DEF Stages!RunMayBecome
        <5>2. CASE r \notin new
          BY <2>2, <2>4, <3>1, <5>2 DEF Ahead, Forward
        <5> QED  BY <5>1, <5>2
      <4>3. Forward(rows', n)  BY <4>1, <4>2 DEF Forward
      <4>4. \A t \in TaskId :
              /\ rows'.status[t] = "ABSENT" => n.status[t] = "ABSENT"
              /\ n.status[t] = "DONE" => rows'.status[t] = "DONE"
        BY <2>2, <2>4, <3>1, <3>3 DEF Ahead
      <4>5. \A r \in RunId : n.artifact[r] = rows'.artifact[r]
        BY <2>2, <2>4, <3>1 DEF Ahead
      <4> QED  BY <2>1, <4>2, <4>3, <4>4, <4>5 DEF Ahead
    <3> QED  BY <2>1, <3>7, <3>11, <3>12, <3>13 DEF Agreed, w
  <2>11. Trusted => /\ Agreed(mem', rows', legacy', last', up')
                    /\ Forward(rows, rows')
                    /\ \A r \in RunId : rows.artifact[r] => rows'.artifact[r]
    BY <1>5, <2>4, <2>10 DEF Agreed
  <2>12. \A r \in RunId : agent'[r].phase \in OnTask =>
           /\ rows.run[r] # "ABSENT"
           /\ Trusted => agent'[r].task = rows.runTask[r]
    <3> TAKE r \in RunId
    <3>1. CASE r \in new
      <4>1. agent'[r].phase = "spawned"  BY <2>5, <3>1
      <4> QED  BY <4>1 DEF OnTask
    <3>2. CASE r \notin new  BY <2>5, <3>2, AgentsStay
    <3> QED  BY <3>1, <3>2
  <2>13. TrustInv'  BY <1>5, <2>11, <2>12, StepKeepsTrust
  <2> QED  BY <2>8, <2>9, <2>11, <2>13 DEF GoodStep
<1> QED  BY <1>2, <1>6, <1>7 DEF Committed, RolledBack

\* The sandbox of one task of the request fails after runs of others were made
\* in the maps: nothing is stored and no goroutine is started.
LEMMA StartRunsFailStep ==
    ASSUME IInv, TrustInv, env' = env, NEW t \in ReadyTasks,
           NEW sel \in SUBSET (ReadyTasks \ {t}), StartParallelRunFails(sel, t)
    PROVE  GoodStep
<1>1. PICK rid \in [sel -> RunId] :
        /\ Allocates(rid, sel)
        /\ mem' = [WithRuns(rid) EXCEPT !.s = SandboxCreateFailedEffect(@, t)]
  BY DEF StartParallelRunFails
<1> DEFINE c == WithRuns(rid)
           new == {rid[u] : u \in sel}
           n == StartTaskRunsEffect(mem.s, rid)
           f == SandboxCreateFailedEffect(n, t)
<1>2. /\ up /\ up' = up /\ agent' = agent /\ reading' = reading
      /\ rows' = rows /\ legacy' = legacy
      /\ last.run + Cardinality(sel) <= MaxRuns
      /\ last' = [last EXCEPT !.run = @ + Cardinality(sel)]
  BY DEF StartParallelRunFails, HasMain, Quiet
<1>3. /\ last' \in LastIds /\ last'.task = last.task /\ last.run <= last'.run
      /\ NewRuns(mem.s, Ids(last), sel, rid, last'.run)
  BY <1>1, <1>2, AllocatesRuns
<1>4. /\ last \in LastIds /\ Copies(mem, rows, legacy, last)
      /\ Owned(agent, mem, rows, reading, up) /\ IsRows(rows) /\ IsMaps(mem)
      /\ mem.s \in ServiceStates
      /\ ~Can("load") => Covered(mem, rows)
      /\ last.task <= last'.task
  BY <1>2, <1>3, MapsFields DEF IInv, Copies, LastIds
<1>5. t \in TaskId /\ mem.s.status[t] = "CREATED" /\ t \notin sel
  BY DEF ReadyTasks, EnsureTaskReady
<1>6. IsMaps(c) /\ c.s = n /\ StartedRuns(n, mem.s, sel, rid)
  BY WithRunsFields
<1>7. /\ n \in ServiceStates
      /\ \A u \in TaskId :
           n.status[u] = IF u \in sel THEN "IN_PROGRESS" ELSE mem.s.status[u]
      /\ \A r \in RunId : r \notin new =>
           n.run[r] = mem.s.run[r] /\ n.runTask[r] = mem.s.runTask[r]
      /\ \A r \in new : n.run[r] = "RUNNING" /\ n.runTask[r] \in sel
      /\ n.task = mem.s.task /\ n.artifact = mem.s.artifact
  BY <1>6 DEF StartedRuns
<1>8. /\ sel \subseteq TaskId /\ new \subseteq RunId
      /\ \A r \in new : last.run < r /\ r <= last'.run
      /\ \A u \in sel : mem.s.status[u] = "CREATED"
  BY <1>3, <1>4, IdsType DEF NewRuns, EnsureTaskReady
<1> HIDE DEF c, new, n
<1>9. /\ f \in ServiceStates
      /\ f.status = [n.status EXCEPT ![t] = "FAILED"]
      /\ f.task = n.task /\ f.run = n.run /\ f.runTask = n.runTask
      /\ f.artifact = n.artifact
  BY <1>5, <1>7, SandboxCreateFailedFields
<1>10. mem' = [c EXCEPT !.s = f]  BY <1>1, <1>6 DEF c
<1> HIDE DEF f
<1>11. IsMaps(mem') /\ mem'.s = f  BY <1>6, <1>9, <1>10, MapsWithState
<1>12. n.status[t] = "CREATED"  BY <1>5, <1>7
<1>13. \A u \in TaskId : f.status[u] = IF u = t THEN "FAILED" ELSE n.status[u]
  BY <1>5, <1>7, <1>9, FieldTypes
<1>14. \A r \in new : mem.s.run[r] = "ABSENT" /\ rows.run[r] = "ABSENT"
  <2> TAKE r \in new
  <2>1. r \in RunId /\ ~(r <= last.run)  BY <1>4, <1>8 DEF LastIds, RunId
  <2> QED  BY <1>4, <2>1 DEF Copies, Known
<1>15. IInv'
  <2>1. Known(mem'.s, last') /\ Known(rows', last')
    <3>1. Known(mem.s, last') /\ Known(rows, last')
      BY <1>3, <1>4, KnownGrows DEF Copies
    <3> QED  BY <1>2, <1>7, <1>8, <1>9, <1>11, <3>1 DEF Known
  <2>2. \A r \in RunId : agent'[r].phase \notin {"none", "exited"} =>
          /\ mem'.s.run[r] = "RUNNING" /\ rows'.run[r] = "RUNNING"
          /\ agent'[r].phase \in OnTask => agent'[r].task \in TaskId
          /\ Live(r) \/ last.run < r
    <3> SUFFICES ASSUME NEW r \in RunId, Live(r)
                 PROVE  /\ mem'.s.run[r] = "RUNNING" /\ rows'.run[r] = "RUNNING"
                        /\ agent'[r].phase \in OnTask => agent'[r].task \in TaskId
      BY <1>2 DEF Live
    <3>1. /\ mem.s.run[r] = "RUNNING" /\ rows.run[r] = "RUNNING"
          /\ agent[r].phase \in OnTask => agent[r].task \in TaskId
      BY <1>4 DEF Owned, Live
    <3>2. r \notin new  BY <1>14, <3>1
    <3> QED  BY <1>2, <1>7, <1>9, <1>11, <3>1, <3>2
  <2>3. ~Can("load") => Covered(mem', rows')
    BY <1>2, <1>4, <1>7, <1>11, <1>13 DEF Covered
  <2>4. agent' \in Agents  BY <1>2 DEF IInv
  <2> QED  BY <1>2, <1>3, <1>4, <1>11, <2>1, <2>2, <2>3, <2>4, StepKeepsInv
<1>16. Trusted => /\ Agreed(mem', rows', legacy', last', TRUE)
                  /\ Forward(rows, rows')
                  /\ \A r \in RunId : rows'.artifact[r] = rows.artifact[r]
  <2> SUFFICES ASSUME Trusted
               PROVE  /\ Agreed(mem', rows', legacy', last', TRUE)
                      /\ Forward(rows, rows')
                      /\ \A r \in RunId : rows'.artifact[r] = rows.artifact[r]
    OBVIOUS
  <2>1. /\ Sound(mem.s, Ids(last)) /\ Agreed(mem, rows, legacy, last, TRUE)
    BY <1>2 DEF TrustInv, Agreed
  <2>2. /\ Ids(last) \in LastType /\ Ids(last') \in LastType
        /\ Ids(last).task = Ids(last').task /\ Ids(last').run = last'.run
    BY <1>3, <1>4, IdsType
  <2>3. Sound(n, Ids(last')) /\ Forward(mem.s, n)
    BY <1>3, <2>1, <2>2, StartTaskRunsSound DEF n
  <2>4. Sound(f, Ids(last')) /\ Forward(n, f)
    BY <1>5, <1>12, <2>2, <2>3, SandboxCreateFailedSound DEF f
  <2>5. Follows(f, mem.s)
    <3>1. Forward(mem.s, f)  BY <2>3, <2>4, ForwardTransitive
    <3>2. \A u \in TaskId :
            /\ mem.s.status[u] = "ABSENT" => f.status[u] = "ABSENT"
            /\ f.status[u] = "DONE" => mem.s.status[u] = "DONE"
      BY <1>5, <1>7, <1>8, <1>13
    <3>3. \A r \in RunId : /\ mem.s.run[r] # "ABSENT" => f.run[r] = mem.s.run[r]
                           /\ f.artifact[r] = mem.s.artifact[r]
      BY <1>7, <1>9, <1>14
    <3> QED  BY <3>1, <3>2, <3>3 DEF Follows
  <2>6. Written  BY <1>2 DEF Written
  <2> QED  BY <1>3, <1>4, <1>11, <2>1, <2>4, <2>5, <2>6, FollowsAgreed
<1>17. TrustInv'
  <2>1. Trusted => /\ Agreed(mem', rows', legacy', last', up')
                   /\ Forward(rows, rows')
                   /\ \A r \in RunId : rows.artifact[r] => rows'.artifact[r]
    BY <1>2, <1>16 DEF Agreed
  <2> QED  BY <1>2, <2>1, AgentsStay, StepKeepsTrust
<1> QED  BY <1>2, <1>15, <1>16, <1>17 DEF GoodStep, TasksStay

-----------------------------------------------------------------------------
(***************************************************************************)
(* The goroutine executeRun(r).                                            *)
(***************************************************************************)

\* The goroutine r moves on and the others stay where they are.
Moves(r) ==
    /\ agent' \in Agents
    /\ \A q \in RunId \ {r} : agent'[q] = agent[q]
    /\ agent'[r].phase \in OnTask =>
         /\ agent'[r].task \in TaskId
         /\ Trusted => agent'[r].task = rows.runTask[r]

\* What is known of a run while its goroutine lives.
LEMMA LiveRun ==
    ASSUME IInv, TrustInv, NEW r \in RunId, Live(r)
    PROVE  /\ up /\ mem.s.run[r] = "RUNNING" /\ rows.run[r] = "RUNNING"
           /\ mem.s.runTask[r] \in TaskId /\ rows.runTask[r] \in TaskId
           /\ Trusted => mem.s.runTask[r] = rows.runTask[r]
<1>1. up /\ mem.s.run[r] = "RUNNING" /\ rows.run[r] = "RUNNING"
  BY DEF IInv, Owned, Live
<1>2. mem.s.runTask[r] \in TaskId /\ rows.runTask[r] \in TaskId
  BY <1>1 DEF IInv, Copies, Known
<1>3. Trusted => mem.s.runTask[r] = rows.runTask[r]
  BY <1>1 DEF TrustInv, Agreed, Ahead, Forward
<1> QED  BY <1>1, <1>2, <1>3

\* A goroutine goes to another phase, with the task it has looked up if any.
LEMMA GotoMoves ==
    ASSUME IInv, TrustInv, NEW r \in RunId, Live(r), NEW p \in Phase, Goto(r, p),
           p \in OnTask => agent[r].phase \in OnTask
    PROVE  Moves(r) /\ agent'[r].phase = p
<1>1. agent \in Agents /\ Owned(agent, mem, rows, reading, up)  BY DEF IInv
<1>2. /\ agent' \in Agents /\ agent'[r].phase = p
      /\ agent'[r].task = agent[r].task
      /\ \A q \in RunId \ {r} : agent'[q] = agent[q]
  BY <1>1 DEF Goto, Agents
<1>3. p \in OnTask => /\ agent[r].task \in TaskId
                      /\ Trusted => agent[r].task = rows.runTask[r]
  BY <1>1, AgentsStay DEF Owned, Live
<1> QED  BY <1>2, <1>3 DEF Moves

\* The goroutines after a move, as QuietStep wants them.
LEMMA MovedAgents ==
    ASSUME IInv, TrustInv, NEW r \in RunId, Live(r), Moves(r)
    PROVE  /\ agent' \in Agents
           /\ \A q \in RunId : agent'[q].phase \notin {"none", "exited"} => Live(q)
           /\ \A q \in RunId : agent'[q].phase \in OnTask =>
                /\ agent'[q].task \in TaskId
                /\ Trusted => agent'[q].task = rows.runTask[q]
<1>1. ASSUME NEW q \in RunId \ {r}, agent'[q].phase \in OnTask
      PROVE  /\ agent'[q].task \in TaskId
             /\ Trusted => agent'[q].task = rows.runTask[q]
  <2>1. agent'[q] = agent[q]  BY DEF Moves
  <2>2. Live(q) /\ (Trusted => agent[q].task = rows.runTask[q])
    BY <1>1, <2>1, AgentsStay
  <2>3. agent[q].task \in TaskId
    BY <1>1, <2>1, <2>2 DEF IInv, Owned, Live
  <2> QED  BY <2>1, <2>2, <2>3
<1>2. \A q \in RunId : agent'[q].phase \notin {"none", "exited"} => Live(q)
  BY DEF Moves, Live
<1> QED  BY <1>1, <1>2 DEF Moves

\* A goroutine moves on and touches no task, run, sandbox or artifact.
LEMMA MoveStep ==
    ASSUME IInv, TrustInv, env' = env, NEW r \in RunId, Live(r), Moves(r), up' = up,
           reading' = reading, last' = last,
           IsMaps(mem'), SameWork(mem'.s, mem.s), rows' = rows, legacy' = legacy
    PROVE  GoodStep
<1>1. /\ last \in LastIds /\ mem'.s \in ServiceStates
      /\ last.task <= last.task /\ last.run <= last.run
  BY MapsFields DEF IInv, LastIds
<1>2. SameRuns(mem'.s, mem.s) /\ Written  BY DEF SameRuns, SameWork, Written
<1>3. up  BY LiveRun
<1>4. Trusted => Sound(mem'.s, Ids(last)) /\ Follows(mem'.s, mem.s)
  <2> SUFFICES ASSUME Trusted
               PROVE  Sound(mem'.s, Ids(last)) /\ Follows(mem'.s, mem.s)
    OBVIOUS
  <2>1. Sound(mem.s, Ids(last))  BY <1>3 DEF TrustInv, Agreed
  <2>2. Sound(mem'.s, Ids(last)) /\ Forward(mem.s, mem'.s)
    BY <1>1, <2>1, IdsType, SameWorkSound
  <2> QED  BY <2>2 DEF Follows, SameWork
<1>5. \A t \in TaskId : mem.s.status[t] # "ABSENT" => mem'.s.status[t] # "ABSENT"
  BY DEF SameWork
<1> QED  BY <1>1, <1>2, <1>3, <1>4, <1>5, MovedAgents, QuietStep

\* The steps of a goroutine that start and settle nothing.
LEMMA ExecuteStep ==
    ASSUME IInv, TrustInv, env' = env, NEW r \in RunId,
           Prepare(r) \/ CheckFault(r) \/ Checkpoint(r) \/ Work(r),
           up' = up, reading' = reading, last' = last
    PROVE  GoodStep
<1>1. /\ IsMaps(mem) /\ mem.s \in ServiceStates /\ last \in LastIds
      /\ agent \in Agents
  BY MapsFields DEF IInv, Copies
<1>2. Live(r)
  BY DEF Live, Prepare, CheckFault, Checkpoint, Work
<1>3. /\ up /\ mem.s.run[r] = "RUNNING" /\ rows.run[r] = "RUNNING"
      /\ mem.s.runTask[r] \in TaskId
      /\ Trusted => mem.s.runTask[r] = rows.runTask[r]
  BY <1>2, LiveRun
<1>4. ASSUME Moves(r), mem' = mem, rows' = rows, legacy' = legacy
      PROVE  GoodStep
  <2>1. SameWork(mem'.s, mem.s)  BY <1>4 DEF SameWork
  <2> QED  BY <1>1, <1>2, <1>4, <2>1, MoveStep
<1>5. CASE Prepare(r)
  <2>1. RunExists(mem.s, r)  BY <1>3 DEF RunExists
  <2>2. agent' = [agent EXCEPT ![r] = [phase |-> "prepared",
                                       task |-> mem.s.runTask[r]]]
    BY <1>5, <2>1 DEF Prepare
  <2>3. Moves(r)  BY <1>1, <1>3, <2>2 DEF Moves, Agents, Phase
  <2> QED  BY <1>4, <1>5, <2>3 DEF Prepare
<1>6. CASE CheckFault(r)
  <2> DEFINE F == mem.s.faults \ {agent[r].task}
             n == [mem.s EXCEPT !.faults = F]
  <2>1. n \in ServiceStates /\ SameWork(n, mem.s)
    <3>1. F \in SUBSET TaskId  BY <1>1, FieldTypes
    <3> QED  BY <1>1, <3>1, FaultFields
  <2>2. mem' = [mem EXCEPT !.s = n]  BY <1>6 DEF CheckFault
  <2> HIDE DEF n
  <2>3. IsMaps(mem') /\ mem'.s = n  BY <1>1, <2>1, <2>2, MapsWithState
  <2>4. Moves(r)
    <3>1. agent[r].phase \in OnTask  BY <1>6 DEF CheckFault, OnTask
    <3>2. Goto(r, "failing") \/ Goto(r, "cleared")  BY <1>6 DEF CheckFault
    <3>3. "failing" \in Phase /\ "cleared" \in Phase  BY DEF Phase
    <3> QED  BY <1>2, <3>1, <3>2, <3>3, GotoMoves
  <2> QED  BY <1>2, <1>6, <2>1, <2>3, <2>4, MoveStep DEF CheckFault
<1>7. CASE Work(r)
  <2>1. agent[r].phase \in OnTask  BY <1>7 DEF Work, OnTask
  <2>2. Goto(r, "finishing") \/ Goto(r, "failing")  BY <1>7 DEF Work
  <2>3. "failing" \in Phase /\ "finishing" \in Phase  BY DEF Phase
  <2>4. Moves(r)  BY <1>2, <2>1, <2>2, <2>3, GotoMoves
  <2> QED  BY <1>4, <1>7, <2>4 DEF Work
<1>8. CASE Checkpoint(r)
  <2> DEFINE active == ActiveOverrides(mem.s, mem.s.runTask[r], {})
             Applied(o) == [mem EXCEPT !.s = ApplyOverrideEffect(@, o)]
  <2>1. agent[r].phase \in OnTask  BY <1>8 DEF Checkpoint, OnTask
  <2>2. /\ Goto(r, "failing") => Moves(r)
        /\ Goto(r, "working") => Moves(r)
    <3>1. "failing" \in Phase /\ "working" \in Phase  BY DEF Phase
    <3> QED  BY <1>2, <2>1, <3>1, GotoMoves
  <2>3. CASE /\ Goto(r, "failing") \/ Goto(r, "working")
             /\ mem' = mem /\ rows' = rows /\ legacy' = legacy
    BY <1>4, <2>2, <2>3
  <2>4. ASSUME NEW o \in active, Persist(Applied(o)),
               Goto(r, "failing") \/ Goto(r, "working")
        PROVE  GoodStep
    <3> DEFINE n == ApplyOverrideEffect(mem.s, o)
               t == mem.s.runTask[r]
    <3>1. o \in OverrideId /\ mem.s.ovTask[o] = t /\ t \in TaskId
      BY <1>3 DEF ActiveOverrides
    <3>2. /\ n \in ServiceStates
          /\ n.status = [mem.s.status EXCEPT ![t] =
                           IF mem.s.status[t] = "HUMAN_OVERRIDE"
                             THEN TransitionTo(mem.s.status[t], "IN_PROGRESS")
                             ELSE mem.s.status[t]]
          /\ n.task = mem.s.task /\ n.run = mem.s.run /\ n.runTask = mem.s.runTask
          /\ n.sandbox = mem.s.sandbox /\ n.artifact = mem.s.artifact
      BY <1>1, <3>1, ApplyOverrideFields
    <3>3. Persist([mem EXCEPT !.s = n])  BY <2>4
    <3> HIDE DEF n, t
    <3>4. n.status = [mem.s.status EXCEPT ![t] =
                        IF Worked(mem.s, t) THEN "IN_PROGRESS" ELSE @]
      BY <3>2 DEF TransitionTo, IsAllowedTransition, AllowedTransitions, Worked
    <3>5. Moves(r)  BY <2>2, <2>4
    <3> QED
      BY <1>1, <1>2, <1>3, <3>1, <3>2, <3>3, <3>4, <3>5, MovedAgents, PauseStep
  <2> QED
    BY <1>8, <2>3, <2>4 DEF Checkpoint, Persist
<1> QED  BY <1>5, <1>6, <1>7, <1>8

\* The maps n, with the run r of task t ended, are installed and are the
\* document; the rows of the task and of the run are updated.
EndStored(n, r, t) ==
    /\ IsMaps(mem') /\ mem'.s = n /\ legacy' = mem'
    /\ IsRows(rows') /\ rows'.task = rows.task /\ rows'.runTask = rows.runTask
    /\ \A u \in TaskId :
         rows'.status[u] = IF u = t /\ rows.status[t] # "ABSENT"
                             THEN n.status[t] ELSE rows.status[u]
    /\ \A q \in RunId : /\ rows'.run[q] = IF q = r THEN n.run[r] ELSE rows.run[q]
                        /\ q # r => rows'.artifact[q] = rows.artifact[q]

\* The run r of task t ends with the maps n, and the goroutine with it: the
\* transaction updates the rows of both and, of a run that won, adds an artifact.
LEMMA RunEndsStep ==
    ASSUME IInv, TrustInv, env' = env, NEW r \in RunId, Live(r), Moves(r),
           agent'[r].phase = "exited", up' = up, reading' = reading, last' = last,
           NEW t \in TaskId, NEW n, NEW won \in BOOLEAN, RunEnded(n, mem.s, r),
           Trusted => t = rows.runTask[r] /\ Settled(n, mem.s, r, t, won),
           EndStored(n, r, t), Trusted => rows'.artifact[r] = won
    PROVE  GoodStep
<1> USE DEF EndStored
<1>1. /\ last \in LastIds /\ Copies(mem, rows, legacy, last)
      /\ Owned(agent, mem, rows, reading, up)
      /\ IsRows(rows) /\ mem.s \in ServiceStates
      /\ ~Can("load") /\ up => Covered(mem, rows)
      /\ last.run <= last.run
  BY MapsFields DEF IInv, Copies, LastIds
<1>2. /\ up /\ mem.s.run[r] = "RUNNING" /\ rows.run[r] = "RUNNING"
      /\ mem.s.runTask[r] \in TaskId /\ rows.runTask[r] \in TaskId
      /\ Trusted => mem.s.runTask[r] = rows.runTask[r]
  BY LiveRun
<1>3. /\ n \in ServiceStates /\ n.run[r] # "ABSENT"
      /\ \A q \in RunId \ {r} :
           n.run[q] = mem.s.run[q] /\ n.artifact[q] = mem.s.artifact[q]
      /\ n.runTask = mem.s.runTask /\ n.task = mem.s.task
      /\ \A u \in TaskId : mem.s.status[u] # "ABSENT" => n.status[u] # "ABSENT"
  BY DEF RunEnded
<1>4. Known(mem'.s, last') /\ Known(rows', last')
  <2>1. r <= last.run  BY <1>1, <1>2 DEF Copies, Known
  <2>2. Known(mem'.s, last')  BY <1>1, <1>2, <1>3, <2>1 DEF Copies, Known
  <2>3. Known(rows', last')  BY <1>1, <1>2, <2>1 DEF Copies, Known
  <2> QED  BY <2>2, <2>3
<1>5. ~Can("load") => Covered(mem', rows') /\ TasksStay
  BY <1>1, <1>2, <1>3 DEF Covered, TasksStay
<1>6. \A q \in RunId : agent'[q].phase \notin {"none", "exited"} =>
        /\ mem'.s.run[q] = "RUNNING" /\ rows'.run[q] = "RUNNING"
        /\ agent'[q].phase \in OnTask => agent'[q].task \in TaskId
        /\ Live(q) \/ last.run < q
  <2> SUFFICES ASSUME NEW q \in RunId, agent'[q].phase \notin {"none", "exited"}
               PROVE  /\ mem'.s.run[q] = "RUNNING" /\ rows'.run[q] = "RUNNING"
                      /\ agent'[q].phase \in OnTask => agent'[q].task \in TaskId
                      /\ Live(q)
    OBVIOUS
  <2>1. q # r /\ Live(q) /\ (agent'[q].phase \in OnTask => agent'[q].task \in TaskId)
    BY MovedAgents
  <2>2. mem.s.run[q] = "RUNNING" /\ rows.run[q] = "RUNNING"
    BY <2>1, LiveRun
  <2> QED  BY <1>3, <2>1, <2>2
<1>7. IInv'
  <2>1. agent' \in Agents  BY DEF Moves
  <2>2. up' = TRUE  BY <1>2 DEF IInv
  <2> QED  BY <1>1, <1>2, <1>4, <1>5, <1>6, <2>1, <2>2, StepKeepsInv
<1>8. ASSUME Trusted
      PROVE  /\ Agreed(mem', rows', legacy', last', TRUE) /\ Forward(rows, rows')
             /\ \A q \in RunId : rows.artifact[q] => rows'.artifact[q]
  <2> DEFINE v == Loaded(rows, mem.s)
             w == Loaded(rows', mem'.s)
  <2>1. /\ Sound(v, Ids(last)) /\ Sound(mem.s, Ids(last)) /\ Ahead(mem.s, rows)
        /\ SameRows(v, rows) /\ v.sandbox = mem.s.sandbox
        /\ Ids(last) \in LastType
    BY <1>1, <1>2, <1>8, ViewSound, IdsType
  <2>2. /\ w \in ServiceStates /\ SameRows(w, rows') /\ w.sandbox = n.sandbox
    BY <1>3, LoadedFields
  <2> HIDE DEF v, w
  <2>3. rows.status[t] # "ABSENT" /\ ~rows.artifact[r] /\ t = mem.s.runTask[r]
        /\ v.run[r] = "RUNNING" /\ t = v.runTask[r]
    BY <1>2, <1>8, <2>1 DEF Sound, Agreement, RunExists, Worked, SameRows
  <2>4. /\ \A u \in TaskId : n.status[u] =
             IF u = t THEN IF won THEN "DONE" ELSE "FAILED" ELSE mem.s.status[u]
        /\ \A q \in RunId : n.run[q] =
             IF q = r THEN IF won THEN "SUCCEEDED" ELSE "FAILED" ELSE mem.s.run[q]
        /\ \A q \in RunId : n.sandbox[q] =
             IF q = r THEN IF won THEN "RELEASED" ELSE "FAILED"
                      ELSE mem.s.sandbox[q]
        /\ \A q \in RunId : n.artifact[q] <=> IF q = r THEN won
                                                       ELSE mem.s.artifact[q]
    BY <1>8 DEF Settled
  <2>5. Settled(w, v, r, t, won)
    <3>1. \A u \in TaskId : w.status[u] =
            IF u = t THEN IF won THEN "DONE" ELSE "FAILED" ELSE v.status[u]
      BY <2>1, <2>2, <2>3, <2>4 DEF SameRows
    <3>2. \A q \in RunId :
            /\ w.run[q] = IF q = r THEN IF won THEN "SUCCEEDED" ELSE "FAILED"
                                   ELSE v.run[q]
            /\ w.sandbox[q] = IF q = r THEN IF won THEN "RELEASED" ELSE "FAILED"
                                       ELSE v.sandbox[q]
      BY <2>1, <2>2, <2>4 DEF SameRows
    <3>3. \A q \in RunId : w.artifact[q] <=> IF q = r THEN won ELSE v.artifact[q]
      BY <1>8, <2>1, <2>2 DEF SameRows
    <3>4. w.task = v.task /\ w.runTask = v.runTask  BY <2>1, <2>2 DEF SameRows
    <3> QED  BY <2>2, <3>1, <3>2, <3>3, <3>4 DEF Settled
  <2>6. Sound(w, Ids(last)) /\ Forward(v, w)
    BY <2>1, <2>3, <2>5, SettleSound
  <2>7. Sound(n, Ids(last))
    BY <1>2, <1>8, <2>1, <2>3, SettleSound
  <2>8. Forward(rows, rows')  BY <2>1, <2>2, <2>6 DEF SameRows, Forward
  <2>9. Ahead(n, rows')
    <3>1. \A u \in TaskId :
            /\ Stages!TaskMayBecome(rows'.status[u], n.status[u])
            /\ rows'.status[u] # "ABSENT" => n.task[u] = rows'.task[u]
            /\ rows'.status[u] = "ABSENT" => n.status[u] = "ABSENT"
            /\ n.status[u] = "DONE" => rows'.status[u] = "DONE"
      <4> TAKE u \in TaskId
      <4>1. CASE u = t
        BY <1>3, <2>1, <2>3, <4>1 DEF Ahead, Forward, Stages!TaskMayBecome
      <4>2. CASE u # t
        BY <1>3, <2>1, <2>4, <4>2 DEF Ahead, Forward
      <4> QED  BY <4>1, <4>2
    <3>2. \A q \in RunId :
            /\ Stages!RunMayBecome(rows'.run[q], n.run[q])
            /\ rows'.run[q] # "ABSENT" => /\ n.runTask[q] = rows'.runTask[q]
                                          /\ n.run[q] = rows'.run[q]
      <4> TAKE q \in RunId
      <4>1. CASE q = r
        BY <1>2, <1>3, <1>8, <4>1 DEF Stages!RunMayBecome
      <4>2. CASE q # r  BY <1>3, <2>1, <4>2 DEF Ahead, Forward
      <4> QED  BY <4>1, <4>2
    <3>3. \A q \in RunId : n.artifact[q] = rows'.artifact[q]
      <4> TAKE q \in RunId
      <4>1. n.artifact[q] \in BOOLEAN /\ rows'.artifact[q] \in BOOLEAN
        BY <1>3, FieldTypes, RowsFields
      <4>2. CASE q = r  BY <1>8, <2>4, <4>1, <4>2
      <4>3. CASE q # r  BY <1>3, <2>1, <4>3 DEF Ahead
      <4> QED  BY <4>2, <4>3
    <3>4. Forward(rows', n)  BY <3>1, <3>2 DEF Forward
    <3> QED  BY <3>1, <3>2, <3>3, <3>4 DEF Ahead
  <2>10. \A q \in RunId : rows.artifact[q] => rows'.artifact[q]
    BY <2>3
  <2> QED  BY <2>6, <2>7, <2>8, <2>9, <2>10 DEF Agreed, w
<1>9. TrustInv'
  <2>1. Trusted => /\ Agreed(mem', rows', legacy', last', up')
                   /\ Forward(rows, rows')
                   /\ \A q \in RunId : rows.artifact[q] => rows'.artifact[q]
    BY <1>8 DEF Agreed
  <2>2. \A q \in RunId : agent'[q].phase \in OnTask =>
          /\ rows.run[q] # "ABSENT"
          /\ Trusted => agent'[q].task = rows.runTask[q]
    BY MovedAgents, LiveRun DEF OnTask
  <2> QED  BY <2>1, <2>2, StepKeepsTrust
<1> QED  BY <1>5, <1>7, <1>8, <1>9 DEF GoodStep

\* The rows of a task and of a run that is there are updated.
LEMMA UpdatedRows ==
    ASSUME NEW rw, IsRows(rw), NEW c, IsMaps(c), NEW t \in TaskId, NEW r \in RunId,
           rw.run[r] # "ABSENT"
    PROVE  LET w == UpdateRun(UpdateTasks(rw, c, {t}), c, r)
           IN  /\ IsRows(w) /\ w.task = rw.task /\ w.runTask = rw.runTask
               /\ w.artifact = rw.artifact
               /\ \A u \in TaskId :
                    w.status[u] = IF u = t /\ rw.status[t] # "ABSENT"
                                    THEN c.s.status[t] ELSE rw.status[u]
               /\ \A q \in RunId : w.run[q] = IF q = r THEN c.s.run[r]
                                                       ELSE rw.run[q]
<1> DEFINE u == UpdateTasks(rw, c, {t})
<1>1. /\ IsRows(u) /\ u.task = rw.task /\ u.run = rw.run
      /\ u.runTask = rw.runTask /\ u.artifact = rw.artifact
      /\ \A x \in TaskId :
           u.status[x] = IF x = t /\ rw.status[t] # "ABSENT"
                           THEN c.s.status[t] ELSE rw.status[x]
  BY UpdateTasksFields
<1> HIDE DEF u
<1>2. LET w == UpdateRun(u, c, r)
      IN  /\ IsRows(w)
          /\ \A q \in RunId : w.run[q] = IF q = r /\ u.run[r] # "ABSENT"
                                           THEN c.s.run[r] ELSE u.run[q]
          /\ w.status = u.status /\ w.task = u.task
          /\ w.runTask = u.runTask /\ w.artifact = u.artifact
  BY <1>1, UpdateRunFields
<1> QED  BY <1>1, <1>2 DEF u

\* The end of executeRun.
LEMMA CompleteRunStep ==
    ASSUME IInv, TrustInv, env' = env, NEW r \in RunId, CompleteRun(r),
           up' = up, reading' = reading, last' = last
    PROVE  GoodStep
<1> DEFINE t == agent[r].task
           n == CompleteRunEffect(mem.s, r, t)
           c == [mem EXCEPT !.s = n]
           w == UpdateRun(UpdateTasks(rows, c, {t}), c, r)
           rw == [w EXCEPT !.artifact[r] = TRUE]
<1>1. agent[r].phase = "finishing" /\ Goto(r, "exited")  BY DEF CompleteRun
<1>2. IsMaps(mem) /\ mem.s \in ServiceStates /\ IsRows(rows)
  BY MapsFields DEF IInv, Copies
<1>3. Live(r) /\ agent[r].phase \in OnTask  BY <1>1 DEF Live, OnTask
<1>4. /\ up /\ mem.s.run[r] = "RUNNING" /\ rows.run[r] = "RUNNING"
      /\ Trusted => mem.s.runTask[r] = rows.runTask[r]
  BY <1>3, LiveRun
<1>5. t \in TaskId /\ (Trusted => t = rows.runTask[r])
  BY <1>3, AgentsStay DEF IInv, Owned, Live
<1>6. Moves(r) /\ agent'[r].phase = "exited"
  <2>1. "exited" \in Phase /\ "exited" \notin OnTask  BY DEF Phase, OnTask
  <2> QED  BY <1>1, <1>3, <2>1, GotoMoves
<1>7. CASE mem' = mem /\ rows' = rows /\ legacy' = legacy
  <2>1. SameWork(mem'.s, mem.s)  BY <1>7 DEF SameWork
  <2> QED  BY <1>2, <1>3, <1>6, <1>7, <2>1, MoveStep
<1>8. CASE mem' = c /\ rows' = rw /\ legacy' = c
  <2>1. RunEnded(n, mem.s, r)  BY <1>2, <1>5, CompleteRunEnds
  <2>2. Trusted => Settled(n, mem.s, r, t, TRUE)
    <3> SUFFICES ASSUME Trusted PROVE Settled(n, mem.s, r, t, TRUE)  OBVIOUS
    <3>1. Worked(mem.s, t)
      BY <1>4, <1>5, ViewSound DEF Sound, Agreement, RunExists
    <3> QED  BY <1>2, <1>5, <3>1, CompleteRunFields
  <2>3. IsMaps(c) /\ c.s = n
    <3>1. n \in ServiceStates  BY <2>1 DEF RunEnded
    <3> QED  BY <1>2, <3>1, MapsWithState
  <2> HIDE DEF n, c, t
  <2>4. /\ IsRows(w) /\ w.task = rows.task /\ w.runTask = rows.runTask
        /\ w.artifact = rows.artifact
        /\ \A u \in TaskId : w.status[u] = IF u = t /\ rows.status[t] # "ABSENT"
                                             THEN n.status[t] ELSE rows.status[u]
        /\ \A q \in RunId : w.run[q] = IF q = r THEN n.run[r] ELSE rows.run[q]
    BY <1>2, <1>4, <1>5, <2>3, UpdatedRows
  <2> HIDE DEF w
  <2>5. /\ IsRows(rw)
        /\ \A q \in RunId : rw.artifact[q] = (q = r \/ w.artifact[q])
        /\ rw.status = w.status /\ rw.task = w.task /\ rw.run = w.run
        /\ rw.runTask = w.runTask
    BY <2>4, RowsWithArtifact
  <2>6. \A q \in RunId : q # r => rw.artifact[q] = rows.artifact[q]
    <3> TAKE q \in RunId
    <3>1. rows.artifact[q] \in BOOLEAN  BY <1>2, RowsFields
    <3> QED  BY <2>4, <2>5, <3>1
  <2>7. rw.artifact[r] = TRUE  BY <2>5
  <2> HIDE DEF rw
  <2>8. IsMaps(mem') /\ mem'.s = n /\ legacy' = mem'  BY <1>8, <2>3
  <2>9. EndStored(n, r, t) /\ rows'.artifact[r] = TRUE
    BY <1>8, <2>4, <2>5, <2>6, <2>7, <2>8 DEF EndStored
  <2>10. t \in TaskId /\ (Trusted => t = rows.runTask[r])  BY <1>5
  <2> QED
    BY <1>3, <1>6, <2>1, <2>2, <2>9, <2>10, RunEndsStep
<1> QED
  BY <1>7, <1>8 DEF CompleteRun, Transact, Committed, RolledBack

\* failRun.
LEMMA FailRunStep ==
    ASSUME IInv, TrustInv, env' = env, NEW r \in RunId, FailRun(r),
           up' = up, reading' = reading, last' = last
    PROVE  GoodStep
<1> DEFINE n == FailRunEffect(mem.s, r)
           t == mem.s.runTask[r]
           c == [mem EXCEPT !.s = n]
           rw == UpdateRun(UpdateTasks(rows, c, {t}), c, r)
<1>1. agent[r].phase = "failing" /\ Goto(r, "exited")  BY DEF FailRun
<1>2. IsMaps(mem) /\ mem.s \in ServiceStates /\ IsRows(rows)
  BY MapsFields DEF IInv, Copies
<1>3. Live(r)  BY <1>1 DEF Live
<1>4. /\ up /\ mem.s.run[r] = "RUNNING" /\ rows.run[r] = "RUNNING"
      /\ t \in TaskId /\ (Trusted => t = rows.runTask[r])
  BY <1>3, LiveRun
<1>5. Moves(r) /\ agent'[r].phase = "exited"
  <2>1. "exited" \in Phase /\ "exited" \notin OnTask  BY DEF Phase, OnTask
  <2> QED  BY <1>1, <1>3, <2>1, GotoMoves
<1>6. RunEnded(n, mem.s, r)  BY <1>2, <1>4, FailRunEnds
<1>7. IsMaps(c) /\ c.s = n /\ n.runTask[r] = t
  <2>1. n \in ServiceStates /\ n.runTask = mem.s.runTask  BY <1>6 DEF RunEnded
  <2> QED  BY <1>2, <2>1, MapsWithState
<1>8. \/ mem' = mem /\ rows' = rows /\ legacy' = legacy
      \/ mem' = c /\ rows' = rw /\ legacy' = c
  <2>1. c.s.runTask[r] = t  BY <1>7
  <2> QED  BY <2>1 DEF FailRun, Transact, Committed, RolledBack
<1>9. CASE mem' = mem /\ rows' = rows /\ legacy' = legacy
  <2>1. SameWork(mem'.s, mem.s)  BY <1>9 DEF SameWork
  <2> QED  BY <1>2, <1>3, <1>5, <1>9, <2>1, MoveStep
<1>10. CASE mem' = c /\ rows' = rw /\ legacy' = c
  <2>1. Trusted => Settled(n, mem.s, r, t, FALSE) /\ rows.artifact[r] = FALSE
    <3> SUFFICES ASSUME Trusted
                 PROVE  Settled(n, mem.s, r, t, FALSE) /\ rows.artifact[r] = FALSE
      OBVIOUS
    <3>1. Worked(mem.s, t) /\ ~mem.s.artifact[r] /\ Ahead(mem.s, rows)
      BY <1>4, ViewSound DEF Sound, Agreement, RunExists
    <3>2. rows.artifact[r] \in BOOLEAN  BY <1>2, RowsFields
    <3>3. rows.artifact[r] = FALSE  BY <3>1, <3>2 DEF Ahead
    <3> QED  BY <1>2, <1>4, <3>1, <3>3, FailRunFields
  <2> HIDE DEF n, c, t
  <2>2. /\ IsRows(rw) /\ rw.task = rows.task /\ rw.runTask = rows.runTask
        /\ rw.artifact = rows.artifact
        /\ \A u \in TaskId : rw.status[u] = IF u = t /\ rows.status[t] # "ABSENT"
                                              THEN n.status[t] ELSE rows.status[u]
        /\ \A q \in RunId : rw.run[q] = IF q = r THEN n.run[r] ELSE rows.run[q]
    BY <1>2, <1>4, <1>7, UpdatedRows
  <2> HIDE DEF rw
  <2>3. IsMaps(mem') /\ mem'.s = n /\ legacy' = mem'  BY <1>7, <1>10
  <2>4. EndStored(n, r, t) /\ (Trusted => rows'.artifact[r] = FALSE)
    BY <1>10, <2>1, <2>2, <2>3 DEF EndStored
  <2> QED
    BY <1>3, <1>4, <1>5, <1>6, <2>1, <2>4, RunEndsStep
<1> QED  BY <1>8, <1>9, <1>10

-----------------------------------------------------------------------------
(***************************************************************************)
(* New and the end of the process.                                         *)
(***************************************************************************)

\* While no process runs there is no goroutine and no read.
LEMMA NobodyHome ==
    ASSUME IInv, ~up
    PROVE  /\ \A r \in RunId : agent[r].phase \in {"none", "exited"}
           /\ reading.kind = "none"
BY DEF IInv, Owned, Waiting

\* New fills maps from the tables, or tables that hold nothing from the document.
LEMMA BootStep ==
    ASSUME IInv, TrustInv, env' = env, Boot
    PROVE  GoodStep
<1>1. /\ ~up /\ up' = TRUE /\ legacy' = legacy /\ agent' = agent
      /\ reading' = reading /\ last' = last
  BY DEF Boot
<1>2. /\ last \in LastIds /\ Copies(mem, rows, legacy, last) /\ agent \in Agents
      /\ IsRows(rows) /\ IsMaps(legacy) /\ legacy.s \in ServiceStates
      /\ Known(rows, last) /\ Known(legacy.s, last)
      /\ Waiting(reading, last, up) /\ env \in Environments
  BY MapsFields DEF IInv, Copies
<1>3. /\ \A r \in RunId : agent[r].phase \in {"none", "exited"}
      /\ reading.kind = "none"
  BY <1>1, NobodyHome
<1>4. ASSUME IsMaps(mem'), IsRows(rows'), Known(mem'.s, last), Known(rows', last),
             ~Can("load") => Covered(mem', rows') /\ TasksStay,
             Trusted => /\ Sound(mem'.s, Ids(last)) /\ Ahead(mem'.s, rows')
                        /\ Sound(Loaded(rows', legacy.s), Ids(last))
                        /\ Forward(rows, rows')
      PROVE  GoodStep
  <2>1. IInv'
    <3>1. Copies(mem', rows', legacy', last')  BY <1>1, <1>2, <1>4 DEF Copies
    <3>2. Waiting(reading', last', up')  BY <1>1, <1>2 DEF Waiting
    <3>3. Owned(agent', mem', rows', reading', up')  BY <1>1, <1>3 DEF Owned
    <3>4. ~Can("load")' => Covered(mem', rows')  BY <1>4 DEF Can
    <3> QED  BY <1>1, <1>2, <3>1, <3>2, <3>3, <3>4 DEF IInv
  <2>2. TrustInv'
    <3> SUFFICES ASSUME Trusted
                 PROVE  /\ Agreed(mem', rows', legacy', last', up')
                        /\ Current(reading', rows')
                        /\ reading'.kind \notin {"tasks", "run"}
                        /\ \A r \in RunId : agent'[r].phase \notin OnTask
      BY DEF TrustInv, Trusted, Can
    <3>1. Agreed(mem', rows', legacy', last', up')
      BY <1>1, <1>4 DEF TrustInv, Agreed
    <3>2. Current(reading', rows')  BY <1>1, <1>3 DEF Current
    <3>3. \A r \in RunId : agent'[r].phase \notin OnTask
      BY <1>1, <1>3 DEF OnTask
    <3> QED  BY <1>1, <1>3, <3>1, <3>2, <3>3
  <2> QED  BY <1>4, <2>1, <2>2 DEF GoodStep
<1>5. CASE /\ hasProjectionData(rows) /\ rows' = rows
           /\ mem' = loadServiceStateProjection(rows, legacy)
  <2>1. IsMaps(mem') /\ mem'.s = Loaded(rows, legacy.s)
    BY <1>2, <1>5, LoadFields
  <2>2. SameRows(mem'.s, rows)  BY <1>2, <2>1, LoadedFields
  <2>3. Known(mem'.s, last)  BY <1>2, <2>2 DEF Known, SameRows
  <2>4. Covered(mem', rows') /\ TasksStay
    BY <1>5, <2>2 DEF Covered, TasksStay, SameRows
  <2>5. Trusted => Sound(mem'.s, Ids(last)) /\ Ahead(mem'.s, rows')
    <3>1. Forward(rows, mem'.s)  BY <2>2, ForwardSame DEF SameRows
    <3> QED  BY <1>5, <2>1, <2>2, <3>1 DEF TrustInv, Agreed, Ahead, SameRows
  <2>6. Forward(rows, rows')  BY <1>5, ForwardSame
  <2>7. Trusted => Sound(Loaded(rows', legacy.s), Ids(last))
    BY <1>5 DEF TrustInv, Agreed
  <2> QED  BY <1>2, <1>4, <1>5, <2>1, <2>3, <2>4, <2>5, <2>6, <2>7
<1>6. CASE /\ ~hasProjectionData(rows) /\ rows' = RowsOf(legacy)
           /\ mem' = legacy
  <2>1. IsRows(rows') /\ SameRows(rows', legacy.s)  BY <1>2, <1>6, RowsOfFields
  <2>2. Known(rows', last)  BY <1>2, <2>1 DEF Known, SameRows
  <2>3. /\ \A t \in TaskId : rows.status[t] = "ABSENT"
        /\ \A r \in RunId : rows.run[r] = "ABSENT"
    BY <1>6 DEF hasProjectionData
  <2>4. Covered(mem', rows') /\ TasksStay
    BY <1>6, <2>1, <2>3 DEF Covered, TasksStay, SameRows
  <2>5. Forward(rows, rows')
    BY <2>3 DEF Forward, Stages!TaskMayBecome, Stages!RunMayBecome
  <2>6. Trusted => /\ Sound(mem'.s, Ids(last)) /\ Ahead(mem'.s, rows')
                   /\ Sound(Loaded(rows', legacy.s), Ids(last))
    BY <1>2, <1>6, IdsType, StoredFits DEF TrustInv, Agreed
  <2> QED  BY <1>2, <1>4, <1>6, <2>1, <2>2, <2>4, <2>5, <2>6
<1>7. CASE Can("load") /\ mem' = Blank /\ rows' = rows
  <2>1. IsMaps(mem') /\ Known(mem'.s, last)
    BY <1>7, BlankFields DEF Known
  <2> QED  BY <1>2, <1>4, <1>7, <2>1 DEF Trusted
<1> QED  BY <1>5, <1>6, <1>7 DEF Boot, LoadState

\* The process stops: the maps and the goroutines are gone.
LEMMA CrashStep ==
    ASSUME IInv, TrustInv, env' = env, Crash
    PROVE  GoodStep
<1>1. /\ up' = FALSE /\ mem' = Blank /\ reading' = NoRead
      /\ rows' = rows /\ legacy' = legacy /\ last' = last
      /\ agent' = [r \in RunId |-> IF Live(r) THEN NoAgents[r] ELSE agent[r]]
  BY DEF Crash
<1>2. agent' \in Agents /\ \A r \in RunId : agent'[r].phase \in {"none", "exited"}
  <2>1. \A r \in RunId : NoAgents[r] \in [phase: Phase, task: TaskId \cup {NoId}]
                         /\ NoAgents[r].phase = "none"
    BY DEF NoAgents, Phase
  <2> QED  BY <1>1, <2>1 DEF IInv, Agents, Live
<1>3. /\ last \in LastIds /\ Copies(mem, rows, legacy, last)
      /\ env \in Environments
  BY DEF IInv
<1>4. IInv'
  <2>1. IsMaps(mem') /\ Known(mem'.s, last)
    BY <1>1, BlankFields DEF Known
  <2>2. Copies(mem', rows', legacy', last')  BY <1>1, <1>3, <2>1 DEF Copies
  <2>3. Waiting(reading', last', up')  BY <1>1, NoReadWaits
  <2>4. Owned(agent', mem', rows', reading', up')  BY <1>2 DEF Owned
  <2> QED  BY <1>1, <1>2, <1>3, <2>2, <2>3, <2>4 DEF IInv
<1>5. TrustInv'
  <2> SUFFICES ASSUME Trusted
               PROVE  /\ Agreed(mem', rows', legacy', last', up')
                      /\ Current(reading', rows')
                      /\ reading'.kind \notin {"tasks", "run"}
                      /\ \A r \in RunId : agent'[r].phase \notin OnTask
    BY DEF TrustInv, Trusted, Can
  <2>1. Agreed(mem', rows', legacy', last', up')
    BY <1>1 DEF TrustInv, Agreed
  <2>2. Current(reading', rows') /\ reading'.kind \notin {"tasks", "run"}
    BY <1>1, BlankFields DEF Current
  <2>3. \A r \in RunId : agent'[r].phase \notin OnTask  BY <1>2 DEF OnTask
  <2> QED  BY <2>1, <2>2, <2>3
<1>6. Forward(rows, rows') /\ TasksStay  BY <1>1, ForwardSame DEF TasksStay
<1> QED  BY <1>4, <1>5, <1>6 DEF GoodStep

-----------------------------------------------------------------------------
(***************************************************************************)
(* The theorems.                                                           *)
(***************************************************************************)

\* Empty maps are sound, whatever identifiers were handed out.
LEMMA EmptySound ==
    ASSUME NEW l
    PROVE  Sound(EmptyState, l)
BY EmptyStateType, BlankFields
   DEF Sound, Fresh, Agreement, Ordering, RunExists, Worked

\* A document of an old release: one plan with its task.
LEMMA OldDocumentSound ==
    LET l == [task |-> 1, run |-> 0, override |-> 0]
    IN  /\ IsMaps(OldDocument) /\ Sound(OldDocument.s, l)
        /\ OldDocument.s.run = EmptyState.run
        /\ OldDocument.s.artifact = EmptyState.artifact
        /\ OldDocument.s.sandbox = EmptyState.sandbox
<1> DEFINE l == [task |-> 1, run |-> 0, override |-> 0]
           k == [task |-> 0, run |-> 0, override |-> 0]
           a == AddRequirementEffect(EmptyState)
           n == GeneratePlanEffect(a, 1)
<1>1. 1 \in TaskId /\ l \in LastType /\ k \in LastType
  <2>1. MaxTasks \in Nat /\ MaxTasks > 0 /\ MaxRuns \in Nat /\ MaxOverrides \in Nat
    BY BoundsAssumption, PostgresAssumption
  <2>2. 1 \in 0..MaxTasks /\ 0 \in 0..MaxTasks /\ 0 \in 0..MaxRuns
        /\ 0 \in 0..MaxOverrides /\ 1 \in TaskId
    BY <2>1 DEF TaskId
  <2> QED  BY <2>2 DEF LastType
<1>2. k.task = 0 /\ k.run = 0 /\ l.task = 1 /\ l.run = 0  OBVIOUS
<1>3. Sound(EmptyState, k)  BY EmptySound
<1> HIDE DEF l, k
<1>4. a \in ServiceStates /\ SameWork(a, EmptyState)
  BY EmptyStateType, AddRequirementFields
<1>5. Sound(a, k)  BY <1>1, <1>3, <1>4, SameWorkSound
<1> HIDE DEF a
<1>6. AddedTasks(n, a, {1})  BY <1>1, <1>4, GeneratePlanFields
<1>7. OldDocument = [s |-> n, projects |-> {"main"}, taskOrder |-> <<1>>,
                     runOrder |-> <<>>]
  BY DEF OldDocument, a
<1> HIDE DEF n
<1>8. n \in ServiceStates /\ n.run = EmptyState.run
      /\ n.artifact = EmptyState.artifact /\ n.sandbox = EmptyState.sandbox
  BY <1>4, <1>6 DEF AddedTasks, SameWork
<1>9. Sound(n, l)
  <2>1. {1} \in SUBSET TaskId  BY <1>1
  <2>2. \A t \in {1} : k.task < t /\ t <= l.task  BY <1>2
  <2>3. k.task <= l.task /\ k.run = l.run  BY <1>2
  <2> QED  BY <1>1, <1>5, <1>6, <2>1, <2>2, <2>3, NewTasksSound
<1>10. IsMaps(OldDocument) /\ OldDocument.s = n
  <2>1. {"main"} \in SUBSET Projects  BY DEF Projects
  <2> QED  BY <1>7, <1>8, <2>1, ZenonT(30) DEF IsMaps
<1> QED  BY <1>8, <1>9, <1>10 DEF l

\* The initial states.
LEMMA InitInv == Init => IInv /\ TrustInv
<1> SUFFICES ASSUME Init PROVE IInv /\ TrustInv  OBVIOUS
<1>1. /\ env \in Environments /\ mem = Blank /\ rows = RowsOf(Blank)
      /\ up = FALSE /\ agent = NoAgents /\ reading = NoRead
  BY DEF Init
<1>2. agent \in Agents /\ \A r \in RunId : agent[r].phase = "none"
  BY <1>1 DEF NoAgents, Agents, Phase
<1>3. /\ last \in LastIds /\ IsMaps(legacy) /\ Sound(legacy.s, Ids(last))
      /\ legacy.s.run = EmptyState.run
      /\ legacy.s.artifact = EmptyState.artifact
      /\ legacy.s.sandbox = EmptyState.sandbox
  <2>1. CASE /\ legacy = Blank
             /\ last = [task |-> 0, run |-> 0, override |-> 0, projects |-> {}]
    <3>1. 0 \in 0..MaxTasks /\ 0 \in 0..MaxRuns /\ 0 \in 0..MaxOverrides
      BY BoundsAssumption
    <3>2. last \in LastIds  BY <2>1, <3>1 DEF LastIds
    <3> QED  BY <2>1, <3>2, BlankFields, EmptySound
  <2>2. CASE /\ legacy = OldDocument
             /\ last = [task |-> 1, run |-> 0, override |-> 0,
                        projects |-> {"main"}]
    <3>1. 1 \in 0..MaxTasks /\ 0 \in 0..MaxRuns /\ 0 \in 0..MaxOverrides
      BY BoundsAssumption, PostgresAssumption
    <3>2. last \in LastIds  BY <2>2, <3>1 DEF LastIds, Projects
    <3>3. Ids(last) = [task |-> 1, run |-> 0, override |-> 0]
      BY <2>2 DEF Ids
    <3> QED  BY <2>2, <3>2, <3>3, OldDocumentSound
  <2> QED  BY <2>1, <2>2 DEF Init
<1>4. /\ IsRows(rows) /\ SameRows(rows, EmptyState)
      /\ \A r \in RunId : EmptyState.run[r] = "ABSENT" /\ ~EmptyState.artifact[r]
  BY <1>1, BlankFields
<1>5. IInv
  <2>1. Known(mem.s, last) /\ Known(rows, last) /\ Known(legacy.s, last)
    BY <1>1, <1>3, <1>4, BlankFields DEF Known, SameRows
  <2>2. Copies(mem, rows, legacy, last)
    BY <1>1, <1>3, <1>4, <2>1, BlankFields DEF Copies
  <2>3. Waiting(reading, last, up)  BY <1>1, NoReadWaits
  <2>4. Owned(agent, mem, rows, reading, up)  BY <1>2 DEF Owned
  <2> QED  BY <1>1, <1>2, <1>3, <2>2, <2>3, <2>4 DEF IInv
<1>6. Agreed(mem, rows, legacy, last, up)
  <2>1. legacy.s \in ServiceStates /\ Ids(last) \in LastType
    BY <1>3, MapsFields, IdsType
  <2>2. /\ Loaded(rows, legacy.s) \in ServiceStates
        /\ SameWork(Loaded(rows, legacy.s), EmptyState)
    BY <1>3, <1>4, <2>1, LoadedFields DEF SameRows, SameWork
  <2>3. Sound(Loaded(rows, legacy.s), Ids(last))
    BY <2>1, <2>2, EmptySound, SameWorkSound
  <2> QED  BY <1>1, <1>3, <2>3 DEF Agreed
<1>7. TrustInv
  BY <1>1, <1>2, <1>6, BlankFields DEF TrustInv, Current, OnTask
<1> QED  BY <1>5, <1>7

\* One step of the service, a goroutine, a read or a restart.
LEMMA NextInv == IInv /\ TrustInv /\ [Next]_vars => GoodStep
<1> SUFFICES ASSUME IInv, TrustInv, [Next]_vars PROVE GoodStep  OBVIOUS
<1>1. CASE UNCHANGED vars
  <2>1. IInv'  BY <1>1 DEF vars, IInv, Can
  <2>2. TrustInv'  BY <1>1 DEF vars, TrustInv, Trusted, Can, Live
  <2>3. Forward(rows, rows') /\ TasksStay
    BY <1>1, ForwardSame DEF vars, TasksStay
  <2> QED  BY <2>1, <2>2, <2>3 DEF GoodStep
<1>2. CASE Next
  <2>1. env' = env  BY <1>2 DEF Next
  <2>2. CASE Boot  BY <2>1, <2>2, BootStep
  <2>3. CASE Crash  BY <2>1, <2>3, CrashStep
  <2>4. CASE RepositoryHandler
    <3>1. CASE \/ \E p \in Projects : CreateProject(p)
               \/ AddRequirement \/ GenerateContract
      BY <2>1, <3>1, DocumentStep
    <3>2. CASE \/ GeneratePlan \/ DispatchTasks
               \/ \E c \in 1..Len(mem.s.contracts) : ValidateContract(c)
               \/ \E t \in TaskId : RetryTask(t)
      BY <2>1, <3>2, TasksStep
    <3>3. CASE \E sel \in SUBSET ReadyTasks : StartParallelRun(sel)
      BY <2>1, <3>3, StartRunsStep
    <3> QED  BY <2>4, <3>1, <3>2, <3>3 DEF RepositoryHandler
  <2>5. CASE PersistingHandler
    <3>1. CASE \/ \E t \in TaskId : StartRunRefused(t) \/ MarkTaskSandboxFailure(t)
               \/ \E t \in TaskId, owner \in Owners, scope \in Scopes :
                    ApplyHumanOverride(t, owner, scope)
               \/ OtherProjectHandler
      BY <2>1, <3>1, PersistingStep
    <3>2. CASE \E t \in ReadyTasks : \E sel \in SUBSET (ReadyTasks \ {t}) :
                 StartParallelRunFails(sel, t)
      BY <2>1, <3>2, StartRunsFailStep
    <3> QED  BY <2>5, <3>1, <3>2 DEF PersistingHandler
  <2>6. CASE \E kind \in ReadKind, r \in RunId : StartRead(kind, r)
    BY <2>1, <2>6, StartReadStep
  <2>7. CASE FinishRead  BY <2>1, <2>7, FinishReadStep
  <2>8. ASSUME NEW r \in RunId, AgentStep(r)
        PROVE  GoodStep
    <3>1. up' = up /\ reading' = reading /\ last' = last  BY <2>8 DEF AgentStep
    <3>2. CASE Prepare(r) \/ CheckFault(r) \/ Checkpoint(r) \/ Work(r)
      BY <2>1, <3>1, <3>2, ExecuteStep
    <3>3. CASE CompleteRun(r)  BY <2>1, <3>1, <3>3, CompleteRunStep
    <3>4. CASE FailRun(r)  BY <2>1, <3>1, <3>4, FailRunStep
    <3> QED  BY <2>8, <3>2, <3>3, <3>4 DEF AgentStep
  <2> QED  BY <1>2, <2>2, <2>3, <2>4, <2>5, <2>6, <2>7, <2>8 DEF Next
<1> QED  BY <1>1, <1>2

\* The two invariants hold in every state, whatever fails and whatever is read.
THEOREM Invariance == Spec => [](IInv /\ TrustInv)
<1>1. IInv /\ TrustInv /\ [Next]_vars => (IInv /\ TrustInv)'
  BY NextInv DEF GoodStep
<1> QED  BY <1>1, InitInv, PTL DEF Spec

\* LiveAgentOwnsRow: in every environment, also when loads, saves and
\* transactions fail, a goroutine executes only a run that the tables hold as
\* RUNNING: persistRunState commits before executeRun is started, and failRun or
\* the end of executeRun is the last thing that a goroutine does.
THEOREM AgentsOwnRows == Spec => []LiveAgentOwnsRow
<1>1. IInv => LiveAgentOwnsRow  BY DEF IInv, Owned, LiveAgentOwnsRow, Live
<1> QED  BY <1>1, Invariance, PTL

\* StoredTasksSurvive: unless LoadState fails, no handler, read, crash or restart
\* drops a task from the tables: the maps that saveServiceStateProjection writes
\* over them have every task that they hold.
THEOREM TasksAreKept == Spec => StoredTasksSurvive
<1>1. IInv /\ TrustInv /\ [Next]_vars =>
        [~Can("load") => \A t \in TaskId : rows.status[t] # "ABSENT"
                                             => rows'.status[t] # "ABSENT"]_vars
  BY NextInv DEF GoodStep, TasksStay
<1> QED  BY <1>1, Invariance, PTL DEF Spec, StoredTasksSurvive

\* RestartFindsAgreement: in a trusted environment LoadState combines tables and
\* a document, possibly of different transactions, to maps in which tasks, runs,
\* sandboxes and artifacts agree and no task is started before its dependencies.
THEOREM RestartIsSound == Spec => []RestartFindsAgreement
<1>1. IInv /\ TrustInv => RestartFindsAgreement
  <2> SUFFICES ASSUME IInv, TrustInv, Trusted
               PROVE  Agreement(LoadState.s) /\ Ordering(LoadState.s)
    BY DEF RestartFindsAgreement
  <2>1. IsRows(rows) /\ IsMaps(legacy)  BY DEF IInv, Copies
  <2>2. Sound(legacy.s, Ids(last)) /\ Sound(Loaded(rows, legacy.s), Ids(last))
    BY DEF TrustInv, Agreed
  <2>3. LoadState.s = Loaded(rows, legacy.s) \/ LoadState.s = legacy.s
    BY <2>1, LoadFields DEF LoadState
  <2> QED  BY <2>2, <2>3 DEF Sound
<1> QED  BY <1>1, Invariance, PTL

\* RowsAreBoard: what a client sees in trusted tables refines Board, so that no
\* outcome that was stored is ever taken back, by whichever of the two kinds of
\* handlers and across restarts.
THEOREM TablesAreBoard == Spec => RowsAreBoard
<1>1. Init => RowsBoard!Init
  <2> SUFFICES ASSUME Init
               PROVE  /\ \A t \in TaskId : Shown.status[t] = "ABSENT"
                      /\ \A r \in RunId : Shown.run[r] = "ABSENT"
    BY DEF RowsBoard!Init
  <2>1. Shown = RowsOf(Blank)  BY DEF Init, Shown
  <2> QED  BY <2>1, BlankFields DEF SameRows
<1>2. IInv /\ TrustInv /\ [Next]_vars => [RowsBoard!Next]_RowsBoard!boardVars
  <2> SUFFICES ASSUME IInv, TrustInv, [Next]_vars
               PROVE  [RowsBoard!Next]_RowsBoard!boardVars
    OBVIOUS
  <2>1. env' = env  BY DEF Next, vars
  <2>2. Trusted' <=> Trusted  BY <2>1 DEF Trusted, Can
  <2>3. CASE ~Trusted
    <3>1. Shown' = Shown  BY <2>2, <2>3 DEF Shown
    <3> QED  BY <3>1 DEF RowsBoard!boardVars
  <2>4. CASE Trusted
    <3>1. Shown = rows /\ Shown' = rows'  BY <2>2, <2>4 DEF Shown
    <3>2. Forward(rows, rows') /\ IInv' /\ TrustInv'
      BY <2>4, NextInv DEF GoodStep
    <3>3. Sound(Loaded(rows', legacy'.s), Ids(last'))
      BY <2>2, <2>4, <3>2 DEF TrustInv, Agreed
    <3>4. SameRows(Loaded(rows', legacy'.s), rows')
      BY <3>2, MapsFields, LoadedFields DEF IInv, Copies
    <3>5. Stages!Coherent(rows'.status, rows'.task, rows'.run, rows'.runTask)
      BY <3>3, <3>4, SoundIsCoherent DEF SameRows
    <3>6. RowsBoard!Coherent(rows'.status, rows'.task, rows'.run, rows'.runTask)
      BY <3>5
         DEF RowsBoard!Coherent, Stages!Coherent, RowsBoard!Working, Stages!Working
    <3>7. RowsBoard!Next
      BY <3>1, <3>2, <3>6 DEF RowsBoard!Next, Forward, RowsBoard!TaskMayBecome,
         RowsBoard!RunMayBecome, RowsBoard!Working, Stages!TaskMayBecome,
         Stages!RunMayBecome, Stages!Working
    <3> QED  BY <3>7
  <2> QED  BY <2>3, <2>4
<1> QED  BY <1>1, <1>2, Invariance, PTL DEF Spec, RowsAreBoard, RowsBoard!Spec

-----------------------------------------------------------------------------
(***************************************************************************)
(* The copies in an undisturbed environment.                               *)
(***************************************************************************)

\* task_order and run_order are read back as they were written.
LEMMA LoadOrderOf ==
    ASSUME NEW N \in Nat, NEW top \in 0..N, NEW o, Order(o, top)
    PROVE  loadOrder(PositionsOf(o, 1..N)) = o
<1> DEFINE at == PositionsOf(o, 1..N)
           used == {i \in DOMAIN at : at[i] # NoId}
           rank(i) == Cardinality({j \in used : j <= i})
           k == Len(o)
<1>1. /\ o \in Seq(Nat) /\ k \in Nat /\ k <= N
      /\ \A i \in 1..k : o[i] \in Nat /\ 1 <= o[i]
  BY DEF Order
<1>2. DOMAIN at = 1..N /\ \A i \in 1..N : at[i] = IF i <= k THEN o[i] ELSE 0
  BY DEF PositionsOf, NoId
<1> HIDE DEF at
<1>3. used = 1..k
  <2>1. \A i \in 1..N : at[i] # NoId <=> i <= k  BY <1>1, <1>2 DEF NoId
  <2> QED  BY <1>1, <1>2, <2>1
<1> HIDE DEF used
<1>4. Cardinality(used) = k
  <2>1. 1 \in Int /\ k \in Int  BY <1>1
  <2>2. Cardinality(1..k) = IF 1 > k THEN 0 ELSE k - 1 + 1  BY <2>1, FS_Interval
  <2>3. Cardinality(1..k) = k  BY <1>1, <2>2
  <2> QED  BY <1>3, <2>3
<1>5. ASSUME NEW i \in 1..k
      PROVE  rank(i) = i
  <2>1. {j \in used : j <= i} = 1..i  BY <1>1, <1>3
  <2>2. 1 \in Int /\ i \in Int /\ ~(1 > i)  BY <1>1
  <2>3. Cardinality(1..i) = IF 1 > i THEN 0 ELSE i - 1 + 1  BY <2>2, FS_Interval
  <2>4. Cardinality(1..i) = i  BY <2>2, <2>3
  <2> QED  BY <2>1, <2>4
<1> DEFINE pick(x) == CHOOSE i \in used : rank(i) = x
<1>6. loadOrder(at) = [x \in 1..k |-> at[pick(x)]]
  BY <1>4 DEF loadOrder, used
<1> HIDE DEF rank
<1>7. \A x \in 1..k : pick(x) = x  BY <1>3, <1>5
<1> HIDE DEF pick
<1>8. loadOrder(at) = [x \in 1..k |-> o[x]]
  <2>1. \A x \in 1..k : at[pick(x)] = o[x]
    <3> TAKE x \in 1..k
    <3>1. x \in 1..N /\ x <= k  BY <1>1
    <3> QED  BY <1>2, <1>7, <3>1
  <2> QED  BY <1>6, <2>1
<1>9. o = [x \in 1..k |-> o[x]]  BY <1>1
<1> QED  BY <1>8, <1>9 DEF at

\* Tables that hold what the maps hold are the tables of the maps.
LEMMA RowsEqual ==
    ASSUME NEW x, IsRows(x), NEW m, IsMaps(m), SameRows(x, m.s),
           x.projects = m.projects, x.reqs = m.s.reqs, x.plans = m.s.plans,
           x.contracts = m.s.contracts,
           x.taskAt = PositionsOf(m.taskOrder, TaskId),
           x.runAt = PositionsOf(m.runOrder, RunId)
    PROVE  x = RowsOf(m)
<1>1. x = [projects  |-> x.projects, reqs |-> x.reqs, plans |-> x.plans,
           contracts |-> x.contracts, status |-> x.status, task |-> x.task,
           taskAt |-> x.taskAt, run |-> x.run, runTask |-> x.runTask,
           runAt |-> x.runAt, artifact |-> x.artifact]
  BY DEF IsRows
<1> QED  BY <1>1 DEF SameRows, RowsOf

\* The columns that no task and no run is kept in.
LEMMA RowsOfRest ==
    ASSUME NEW m
    PROVE  /\ RowsOf(m).projects = m.projects /\ RowsOf(m).reqs = m.s.reqs
           /\ RowsOf(m).plans = m.s.plans /\ RowsOf(m).contracts = m.s.contracts
           /\ RowsOf(m).taskAt = PositionsOf(m.taskOrder, TaskId)
           /\ RowsOf(m).runAt = PositionsOf(m.runOrder, RunId)
BY DEF RowsOf

\* Maps that were just written are stored.
LEMMA StoredSame ==
    ASSUME NEW m, IsMaps(m)
    PROVE  Stored(m, RowsOf(m), m)
<1>1. m = [m EXCEPT !.s.faults = m.s.faults]
  <2>1. m.s = [m.s EXCEPT !.faults = m.s.faults]
    BY MapsFields, ZenonT(30) DEF ServiceStates
  <2>2. m = [m EXCEPT !.s = m.s]  BY ZenonT(30) DEF IsMaps
  <2> QED  BY <2>1, <2>2
<1> QED  BY <1>1 DEF Stored

\* Maps and document differ in the faults only.
LEMMA StoredFields ==
    ASSUME NEW m, NEW lg, IsMaps(m), lg = [m EXCEPT !.s.faults = lg.s.faults]
    PROVE  /\ lg.taskOrder = m.taskOrder /\ lg.runOrder = m.runOrder
           /\ lg.projects = m.projects
           /\ RowsOf(lg) = RowsOf(m)
<1> DEFINE F == lg.s.faults
           n == [m.s EXCEPT !.faults = F]
<1>1. lg = [m EXCEPT !.s = n]  OBVIOUS
<1>2. m.s \in ServiceStates  BY MapsFields
<1> HIDE DEF F
<1>3. /\ n.reqs = m.s.reqs /\ n.plans = m.s.plans /\ n.contracts = m.s.contracts
      /\ n.status = m.s.status /\ n.task = m.s.task /\ n.run = m.s.run
      /\ n.runTask = m.s.runTask /\ n.artifact = m.s.artifact
  BY <1>2, ZenonT(60) DEF ServiceStates
<1> HIDE DEF n
<1>4. /\ lg.taskOrder = m.taskOrder /\ lg.runOrder = m.runOrder
      /\ lg.projects = m.projects /\ lg.s = n
  BY <1>1, ZenonT(60) DEF IsMaps
<1> QED  BY <1>3, <1>4 DEF RowsOf

NextIds(top, n) == [i \in 1..n |-> top + i]
NextSet(top, n) == (top + 1)..(top + n)

\* The positions of an order o with the identifiers T inserted where c has them.
Inserted(o, c, T, S) ==
    [i \in S |-> IF i <= Len(c) /\ c[i] \in T THEN c[i] ELSE PositionsOf(o, S)[i]]

\* Identifiers that follow the newest, appended to an order and inserted with
\* their positions: the positions are those of the longer order.
Extended(o, top, n, N) ==
    LET c == o \o NextIds(top, n)
    IN  /\ Order(c, top + n)
        /\ Inserted(o, c, NextSet(top, n), 1..N) = PositionsOf(c, 1..N)

LEMMA AppendedPositions ==
    ASSUME NEW N \in Nat, NEW top \in Nat, NEW n \in Nat, top + n <= N,
           NEW o, Order(o, top)
    PROVE  Extended(o, top, n, N)
<1> SUFFICES ASSUME NEW c, c = o \o NextIds(top, n), NEW T, T = NextSet(top, n)
             PROVE  /\ Order(c, top + n)
                    /\ Inserted(o, c, T, 1..N) = PositionsOf(c, 1..N)
  BY DEF Extended
<1> USE DEF NextIds, NextSet, Inserted
<1> DEFINE e == [i \in 1..n |-> top + i]
           k == Len(o)
<1>1. /\ o \in Seq(Nat) /\ k \in Nat /\ k <= top
      /\ \A i \in 1..k : o[i] \in Nat /\ 1 <= o[i] /\ o[i] <= top
  BY DEF Order
<1>2. e \in Seq(Nat) /\ Len(e) = n /\ \A i \in 1..n : e[i] = top + i
  <2>1. e \in [1..n -> Nat]  OBVIOUS
  <2> QED  BY <2>1
<1> HIDE DEF e
<1>3. /\ c \in Seq(Nat) /\ Len(c) = k + n
      /\ \A i \in 1..(k + n) : c[i] = IF i <= k THEN o[i] ELSE e[i - k]
  <2>1. c = o \o e  BY DEF e
  <2> QED  BY <1>1, <1>2, <2>1
<1>4. \A i \in 1..(k + n) : c[i] = IF i <= k THEN o[i] ELSE top + (i - k)
  <2> TAKE i \in 1..(k + n)
  <2>1. CASE i <= k  BY <1>3, <2>1
  <2>2. CASE ~(i <= k)
    <3>1. i - k \in 1..n  BY <1>1, <2>2
    <3> QED  BY <1>2, <1>3, <2>2, <3>1
  <2> QED  BY <2>1, <2>2
<1>5. Order(c, top + n)
  <2>1. \A i \in 1..(k + n) : 1 <= c[i] /\ c[i] <= top + n
    <3> TAKE i \in 1..(k + n)
    <3>1. CASE i <= k
      <4>1. i \in 1..k  BY <1>1, <3>1
      <4>2. c[i] \in Nat /\ 1 <= c[i] /\ c[i] <= top  BY <1>1, <1>4, <3>1, <4>1
      <4> QED  BY <4>2
    <3>2. CASE ~(i <= k)  BY <1>1, <1>4, <3>2
    <3> QED  BY <3>1, <3>2
  <2> QED  BY <1>1, <1>3, <2>1 DEF Order
<1>6. ASSUME NEW i \in 1..N
      PROVE  (IF i <= Len(c) /\ c[i] \in T THEN c[i] ELSE PositionsOf(o, 1..N)[i])
               = PositionsOf(c, 1..N)[i]
  <2>1. /\ PositionsOf(o, 1..N)[i] = IF i <= k THEN o[i] ELSE NoId
        /\ PositionsOf(c, 1..N)[i] = IF i <= Len(c) THEN c[i] ELSE NoId
    BY DEF PositionsOf
  <2>2. CASE i <= k
    <3>1. i \in 1..k /\ i \in 1..(k + n)  BY <1>1, <2>2
    <3>2. c[i] = o[i] /\ i <= Len(c)  BY <1>1, <1>3, <1>4, <2>2, <3>1
    <3> QED  BY <2>1, <2>2, <3>2
  <2>3. CASE ~(i <= k) /\ i <= k + n
    <3>1. i \in 1..(k + n)  BY <1>1, <2>3
    <3>2. c[i] = top + (i - k)  BY <1>4, <2>3, <3>1
    <3>3. top + (i - k) \in T  BY <1>1, <2>3
    <3> QED  BY <1>3, <2>1, <2>3, <3>2, <3>3
  <2>4. CASE ~(i <= k + n)
    <3>1. ~(i <= k)  BY <1>1, <2>4
    <3> QED  BY <1>3, <2>1, <2>4, <3>1
  <2> QED  BY <2>2, <2>3, <2>4
<1>7. PositionsOf(c, 1..N) = [i \in 1..N |-> PositionsOf(c, 1..N)[i]]
  BY DEF PositionsOf
<1> QED  BY <1>5, <1>6, <1>7

\* An order stays one when more identifiers are handed out.
LEMMA OrderedGrows ==
    ASSUME NEW m, NEW l \in LastIds, NEW k \in LastIds, Ordered(m, l),
           l.task <= k.task, l.run <= k.run
    PROVE  Ordered(m, k)
<1>1. ASSUME NEW o, NEW a \in Nat, NEW b \in Nat, a <= b, Order(o, a)
      PROVE  Order(o, b)
  <2>1. /\ o \in Seq(Nat) /\ Len(o) \in Nat
        /\ \A i \in 1..Len(o) : o[i] \in Nat /\ 1 <= o[i] /\ o[i] <= a
    BY <1>1 DEF Order
  <2> QED  BY <1>1, <2>1 DEF Order
<1>2. l.task \in Nat /\ k.task \in Nat /\ l.run \in Nat /\ k.run \in Nat
  BY DEF LastIds
<1> QED  BY <1>1, <1>2 DEF Ordered

\* What an undisturbed environment excludes.
LEMMA UndisturbedFacts ==
    ASSUME Undisturbed
    PROVE  ~Can("save") /\ ~Can("load") /\ ~Can("sandbox") /\ env.reads = {}
BY DEF Undisturbed, Can

\* The state that a handler finds.
LEMMA UndisturbedState ==
    ASSUME IInv, StoredInv, Undisturbed, up
    PROVE  /\ IsMaps(mem) /\ mem.s \in ServiceStates /\ rows = RowsOf(mem)
           /\ IsRows(rows) /\ SameRows(rows, mem.s) /\ Ordered(mem, last)
           /\ reading.kind = "none" /\ last \in LastIds
<1>1. /\ IsMaps(mem) /\ mem.s \in ServiceStates /\ IsMaps(legacy)
      /\ last \in LastIds
  BY MapsFields DEF IInv, Copies
<1>2. /\ rows = RowsOf(mem) /\ legacy = [mem EXCEPT !.s.faults = legacy.s.faults]
      /\ Ordered(legacy, last) /\ reading.kind = "none"
  BY DEF StoredInv, Stored
<1>3. Ordered(mem, last)  BY <1>1, <1>2, StoredFields DEF Ordered
<1> QED  BY <1>1, <1>2, <1>3, RowsOfFields

\* A step that writes nothing.
LEMMA Unwritten ==
    ASSUME IInv, StoredInv, env' = env, up, up' = up, reading' = reading,
           last' \in LastIds, last.task <= last'.task, last.run <= last'.run,
           mem' = mem, rows' = rows, legacy' = legacy
    PROVE  StoredInv'
<1> SUFFICES ASSUME Undisturbed PROVE StoredInv'
  BY DEF StoredInv, Undisturbed
<1>1. Ordered(legacy, last')
  BY OrderedGrows DEF IInv, StoredInv
<1> QED  BY <1>1 DEF StoredInv, Undisturbed

\* A step that writes the same to all copies.
LEMMA AllWritten ==
    ASSUME IInv, StoredInv, Undisturbed, up, up' = up, reading' = reading,
           NEW c, IsMaps(c), Ordered(c, last'),
           mem' = c, rows' = RowsOf(c), legacy' = c
    PROVE  StoredInv'
<1>1. Stored(mem', rows', legacy')  BY StoredSame
<1> QED  BY <1>1 DEF StoredInv

\* The columns that the repositories leave alone.
LEMMA InsertTasksRest ==
    ASSUME NEW rw, IsRows(rw), NEW c, NEW new
    PROVE  LET n == InsertTasks(rw, c, new)
           IN  /\ n.projects = rw.projects /\ n.reqs = rw.reqs
               /\ n.plans = rw.plans /\ n.contracts = rw.contracts
               /\ n.runAt = rw.runAt
               /\ n.taskAt = [i \in TaskId |->
                     IF i <= Len(c.taskOrder) /\ c.taskOrder[i] \in new
                       THEN c.taskOrder[i] ELSE rw.taskAt[i]]
<1> DEFINE n == InsertTasks(rw, c, new)
           st == [t \in TaskId |-> IF t \in new THEN c.s.status[t]
                                                ELSE rw.status[t]]
           tk == [t \in TaskId |-> IF t \in new THEN c.s.task[t] ELSE rw.task[t]]
           at == [i \in TaskId |->
                    IF i <= Len(c.taskOrder) /\ c.taskOrder[i] \in new
                      THEN c.taskOrder[i] ELSE rw.taskAt[i]]
<1>1. n = [rw EXCEPT !.status = st, !.task = tk, !.taskAt = at]
  BY DEF InsertTasks
<1> HIDE DEF n, st, tk, at
<1>2. /\ n.projects = rw.projects /\ n.reqs = rw.reqs
      /\ n.plans = rw.plans /\ n.contracts = rw.contracts
      /\ n.runAt = rw.runAt /\ n.taskAt = at
  BY <1>1, ZenonT(60) DEF IsRows
<1> QED  BY <1>2 DEF n, at

LEMMA UpdateTasksRest ==
    ASSUME NEW rw, IsRows(rw), NEW c, NEW ts
    PROVE  LET n == UpdateTasks(rw, c, ts)
           IN  /\ n.projects = rw.projects /\ n.reqs = rw.reqs
               /\ n.plans = rw.plans /\ n.contracts = rw.contracts
               /\ n.taskAt = rw.taskAt /\ n.runAt = rw.runAt
<1> DEFINE n == UpdateTasks(rw, c, ts)
           st == [t \in TaskId |-> IF t \in ts /\ rw.status[t] # "ABSENT"
                                     THEN c.s.status[t] ELSE rw.status[t]]
<1>1. n = [rw EXCEPT !.status = st]  BY DEF UpdateTasks
<1> HIDE DEF n, st
<1>2. /\ n.projects = rw.projects /\ n.reqs = rw.reqs
      /\ n.plans = rw.plans /\ n.contracts = rw.contracts
      /\ n.taskAt = rw.taskAt /\ n.runAt = rw.runAt
  BY <1>1, ZenonT(60) DEF IsRows
<1> QED  BY <1>2 DEF n

LEMMA UpdateRunRest ==
    ASSUME NEW rw, IsRows(rw), NEW c, NEW r \in RunId
    PROVE  LET n == UpdateRun(rw, c, r)
           IN  /\ n.projects = rw.projects /\ n.reqs = rw.reqs
               /\ n.plans = rw.plans /\ n.contracts = rw.contracts
               /\ n.taskAt = rw.taskAt /\ n.runAt = rw.runAt
<1> DEFINE n == UpdateRun(rw, c, r)
           rn == [rw.run EXCEPT ![r] = IF rw.run[r] # "ABSENT" THEN c.s.run[r]
                                                              ELSE rw.run[r]]
<1>1. n = [rw EXCEPT !.run = rn]  BY ZenonT(60) DEF UpdateRun
<1> HIDE DEF n, rn
<1>2. /\ n.projects = rw.projects /\ n.reqs = rw.reqs
      /\ n.plans = rw.plans /\ n.contracts = rw.contracts
      /\ n.taskAt = rw.taskAt /\ n.runAt = rw.runAt
  BY <1>1, ZenonT(60) DEF IsRows
<1> QED  BY <1>2 DEF n

LEMMA InsertRunsRest ==
    ASSUME NEW rw, IsRows(rw), NEW c, NEW new
    PROVE  LET n == InsertRuns(rw, c, new)
           IN  /\ n.projects = rw.projects /\ n.reqs = rw.reqs
               /\ n.plans = rw.plans /\ n.contracts = rw.contracts
               /\ n.taskAt = rw.taskAt
               /\ n.runAt = [i \in RunId |->
                     IF i <= Len(c.runOrder) /\ c.runOrder[i] \in new
                       THEN c.runOrder[i] ELSE rw.runAt[i]]
<1> DEFINE n == InsertRuns(rw, c, new)
           rn == [r \in RunId |-> IF r \in new THEN c.s.run[r] ELSE rw.run[r]]
           rt == [r \in RunId |-> IF r \in new THEN c.s.runTask[r]
                                               ELSE rw.runTask[r]]
           at == [i \in RunId |->
                    IF i <= Len(c.runOrder) /\ c.runOrder[i] \in new
                      THEN c.runOrder[i] ELSE rw.runAt[i]]
<1>1. n = [rw EXCEPT !.run = rn, !.runTask = rt, !.runAt = at]
  BY DEF InsertRuns
<1> HIDE DEF n, rn, rt, at
<1>2. /\ n.projects = rw.projects /\ n.reqs = rw.reqs
      /\ n.plans = rw.plans /\ n.contracts = rw.contracts
      /\ n.taskAt = rw.taskAt /\ n.runAt = at
  BY <1>1, ZenonT(60) DEF IsRows
<1> QED  BY <1>2 DEF n, at

\* Two copies are equal where every row is.
LEMMA RowByRow ==
    ASSUME NEW x, IsRows(x), NEW s \in ServiceStates,
           \A t \in TaskId : x.status[t] = s.status[t] /\ x.task[t] = s.task[t],
           \A r \in RunId : x.run[r] = s.run[r] /\ x.runTask[r] = s.runTask[r],
           \A r \in RunId : x.artifact[r] = s.artifact[r]
    PROVE  SameRows(x, s)
<1>1. /\ x.status \in [TaskId -> TaskStatus \cup {"ABSENT"}]
      /\ x.task \in [TaskId -> TaskSpec]
      /\ x.run \in [RunId -> RunStatus \cup {"ABSENT"}]
      /\ x.runTask \in [RunId -> TaskId \cup {NoId}]
      /\ x.artifact \in [RunId -> BOOLEAN]
  BY RowsFields
<1>2. /\ s.status \in [TaskId -> TaskStatus \cup {"ABSENT"}]
      /\ s.task \in [TaskId -> TaskSpec]
      /\ s.run \in [RunId -> RunStatus \cup {"ABSENT"}]
      /\ s.runTask \in [RunId -> TaskId \cup {NoId}]
      /\ s.artifact \in [RunId -> BOOLEAN]
  BY FieldTypes
<1>3. x.status = s.status /\ x.task = s.task  BY <1>1, <1>2
<1>4. x.run = s.run /\ x.runTask = s.runTask  BY <1>1, <1>2
<1>5. x.artifact = s.artifact  BY <1>1, <1>2
<1> QED  BY <1>3, <1>4, <1>5 DEF SameRows

\* The orders and the projects that a handler leaves alone.
LEMMA MapsRest ==
    ASSUME NEW m, IsMaps(m), NEW x
    PROVE  /\ [m EXCEPT !.s = x].projects = m.projects
           /\ [m EXCEPT !.s = x].taskOrder = m.taskOrder
           /\ [m EXCEPT !.s = x].runOrder = m.runOrder
           /\ [m EXCEPT !.projects = x].projects = x
           /\ [m EXCEPT !.projects = x].taskOrder = m.taskOrder
           /\ [m EXCEPT !.projects = x].runOrder = m.runOrder
BY ZenonT(60) DEF IsMaps

LEMMA MapsRestTasks ==
    ASSUME NEW m, IsMaps(m), NEW x, NEW o
    PROVE  LET n == [m EXCEPT !.s = x, !.taskOrder = o]
           IN  /\ n.projects = m.projects /\ n.taskOrder = o
               /\ n.runOrder = m.runOrder
BY ZenonT(60) DEF IsMaps

LEMMA MapsRestRuns ==
    ASSUME NEW m, IsMaps(m), NEW x, NEW o
    PROVE  LET n == [m EXCEPT !.s = x, !.runOrder = o]
           IN  /\ n.projects = m.projects /\ n.taskOrder = m.taskOrder
               /\ n.runOrder = o
BY ZenonT(60) DEF IsMaps

\* The requirements, plans and contracts of x are those of s.
SameDocs(x, s) ==
    x.reqs = s.reqs /\ x.plans = s.plans /\ x.contracts = s.contracts

LEMMA EffectDocs ==
    ASSUME NEW s \in ServiceStates
    PROVE  /\ LET n == AddRequirementEffect(s)
              IN  /\ n.reqs = s.reqs + 1 /\ n.plans = s.plans
                  /\ n.contracts = s.contracts
           /\ LET n == GenerateContractEffect(s)
              IN  /\ n.reqs = s.reqs /\ n.plans = s.plans
                  /\ n.contracts = Append(s.contracts, Len(s.plans))
<1>1. LET n == AddRequirementEffect(s)
      IN  /\ n.reqs = s.reqs + 1 /\ n.plans = s.plans
          /\ n.contracts = s.contracts
  BY ZenonT(60) DEF AddRequirementEffect, ServiceStates
<1>2. LET n == GenerateContractEffect(s)
      IN  /\ n.reqs = s.reqs /\ n.plans = s.plans
          /\ n.contracts = Append(s.contracts, Len(s.plans))
  BY ZenonT(60) DEF GenerateContractEffect, ServiceStates
<1> QED  BY <1>1, <1>2

LEMMA AddTaskDocs ==
    ASSUME NEW s \in ServiceStates, NEW t, NEW spec
    PROVE  SameDocs(AddTask(s, t, spec), s)
<1> DEFINE st == [s.status EXCEPT ![t] = "CREATED"]
           tk == [s.task EXCEPT ![t] = spec]
<1>1. AddTask(s, t, spec) = [s EXCEPT !.status = st, !.task = tk]
  BY ZenonT(60) DEF AddTask
<1> HIDE DEF st, tk
<1> QED  BY <1>1, ZenonT(60) DEF ServiceStates, SameDocs

LEMMA GeneratePlanDocs ==
    ASSUME NEW s \in ServiceStates, NEW t
    PROVE  LET n == GeneratePlanEffect(s, t)
           IN  /\ n.reqs = s.reqs /\ n.contracts = s.contracts
               /\ n.plans = Append(s.plans, s.reqs)
<1> DEFINE p == [s EXCEPT !.plans = Append(@, s.reqs)]
           spec == [type |-> "SPRINT1_EXECUTE", plan |-> Len(s.plans) + 1,
                    contract |-> NoId, deps |-> {}]
<1>1. Append(s.plans, s.reqs) \in Seq(Nat)  BY DEF ServiceStates
<1>2. /\ p \in ServiceStates /\ p.reqs = s.reqs /\ p.contracts = s.contracts
      /\ p.plans = Append(s.plans, s.reqs)
  BY <1>1, ZenonT(60) DEF ServiceStates
<1>3. GeneratePlanEffect(s, t) = AddTask(p, t, spec)  BY DEF GeneratePlanEffect
<1> HIDE DEF p, spec
<1>4. SameDocs(AddTask(p, t, spec), p)  BY <1>2, AddTaskDocs
<1> QED  BY <1>2, <1>3, <1>4 DEF SameDocs

LEMMA DispatchTasksDocs ==
    ASSUME NEW s \in ServiceStates, NEW b, NEW f, NEW i
    PROVE  SameDocs(DispatchTasksEffect(s, b, f, i), s)
BY ZenonT(60) DEF ServiceStates, SameDocs, DispatchTasksEffect

\* The effects on runs leave the documents alone.
LEMMA RunDocs ==
    ASSUME NEW s \in ServiceStates, NEW rid
    PROVE  SameDocs(StartTaskRunsEffect(s, rid), s)
<1> DEFINE n == StartTaskRunsEffect(s, rid)
           New == {rid[t] : t \in DOMAIN rid}
           TaskOf(r) == CHOOSE t \in DOMAIN rid : rid[t] = r
           st == [t \in TaskId |-> IF t \in DOMAIN rid THEN "IN_PROGRESS"
                                                      ELSE s.status[t]]
           rn == [r \in RunId |-> IF r \in New THEN "RUNNING" ELSE s.run[r]]
           rt == [r \in RunId |-> IF r \in New THEN TaskOf(r) ELSE s.runTask[r]]
           sb == [r \in RunId |-> IF r \in New THEN "ACTIVE" ELSE s.sandbox[r]]
<1>1. n = [s EXCEPT !.status = st, !.run = rn, !.runTask = rt, !.sandbox = sb]
  BY DEF StartTaskRunsEffect
<1> HIDE DEF n, st, rn, rt, sb
<1>2. SameDocs(n, s)  BY <1>1, ZenonT(60) DEF ServiceStates, SameDocs
<1> QED  BY <1>2 DEF n

LEMMA SettleDocs ==
    ASSUME NEW s \in ServiceStates, NEW r, NEW t
    PROVE  /\ SameDocs(CompleteRunEffect(s, r, t), s)
           /\ SameDocs(FailRunEffect(s, r), s)
<1>1. SameDocs(CompleteRunEffect(s, r, t), s)
  BY ZenonT(60) DEF ServiceStates, SameDocs, CompleteRunEffect
<1>2. SameDocs(FailRunEffect(s, r), s)
  BY ZenonT(60) DEF ServiceStates, SameDocs, FailRunEffect
<1> QED  BY <1>1, <1>2

\* A transaction writes the tables of the maps it installs, or nothing.
LEMMA WriteStored ==
    ASSUME IInv, StoredInv, Undisturbed, env' = env, up, up' = up,
           reading' = reading, last' \in LastIds, last.task <= last'.task,
           last.run <= last'.run, NEW c, IsMaps(c), Ordered(c, last'),
           \/ mem' = c /\ rows' = RowsOf(c) /\ legacy' = c
           \/ mem' = mem /\ rows' = rows /\ legacy' = legacy
    PROVE  StoredInv'
<1>1. CASE mem' = c /\ rows' = RowsOf(c) /\ legacy' = c  BY <1>1, AllWritten
<1>2. CASE mem' = mem /\ rows' = rows /\ legacy' = legacy  BY <1>2, Unwritten
<1> QED  BY <1>1, <1>2

\* Projects, requirements and contracts.
LEMMA DocumentStored ==
    ASSUME IInv, StoredInv, Undisturbed, env' = env,
           \/ \E p \in Projects : CreateProject(p)
           \/ AddRequirement \/ GenerateContract
    PROVE  StoredInv'
<1>1. up /\ Quiet
  BY DEF CreateProject, AddRequirement, GenerateContract, HasMain
<1>2. /\ IsMaps(mem) /\ mem.s \in ServiceStates /\ rows = RowsOf(mem)
      /\ IsRows(rows) /\ SameRows(rows, mem.s) /\ Ordered(mem, last)
      /\ last \in LastIds
  BY <1>1, UndisturbedState
<1>3. /\ rows.projects = mem.projects /\ rows.reqs = mem.s.reqs
      /\ rows.plans = mem.s.plans /\ rows.contracts = mem.s.contracts
      /\ rows.taskAt = PositionsOf(mem.taskOrder, TaskId)
      /\ rows.runAt = PositionsOf(mem.runOrder, RunId)
  BY <1>2, RowsOfRest
<1>4. ASSUME NEW c, NEW rw, NEW ok, Transact(c, rw, ok), IsMaps(c),
             c.taskOrder = mem.taskOrder, c.runOrder = mem.runOrder,
             IsRows(rw), SameRows(rw, rows), SameWork(c.s, mem.s),
             rw.projects = c.projects, SameDocs(rw, c.s),
             rw.taskAt = rows.taskAt, rw.runAt = rows.runAt,
             last' \in LastIds, last'.task = last.task, last'.run = last.run
      PROVE  StoredInv'
  <2>1. rw = RowsOf(c)
    <3>1. SameRows(rw, c.s)  BY <1>2, <1>4 DEF SameRows, SameWork
    <3> QED  BY <1>3, <1>4, <3>1, RowsEqual DEF SameDocs
  <2>2. Ordered(c, last')  BY <1>2, <1>4 DEF Ordered
  <2>3. last.task <= last'.task /\ last.run <= last'.run
    BY <1>2, <1>4 DEF LastIds
  <2>4. \/ mem' = c /\ rows' = RowsOf(c) /\ legacy' = c
        \/ mem' = mem /\ rows' = rows /\ legacy' = legacy
    BY <1>4, <2>1 DEF Transact, Committed, RolledBack
  <2> QED  BY <1>1, <1>4, <2>2, <2>3, <2>4, WriteStored DEF Quiet
<1>5. ASSUME NEW p \in Projects, CreateProject(p)
      PROVE  StoredInv'
  <2> DEFINE ps == mem.projects \cup {p}
             c == [mem EXCEPT !.projects = ps]
             rw == [rows EXCEPT !.projects = ps]
  <2>1. ps \in SUBSET Projects  BY <1>2, MapsFields
  <2>2. Transact(c, rw, TRUE)  BY <1>3, <1>5 DEF CreateProject
  <2>3. last' \in LastIds /\ last'.task = last.task /\ last'.run = last.run
    <3>1. last' = [last EXCEPT !.projects = @ \cup {p}]  BY <1>5 DEF CreateProject
    <3>2. last.projects \cup {p} \in SUBSET Projects  BY <1>2 DEF LastIds
    <3> QED  BY <1>2, <3>1, <3>2, Zenon DEF LastIds
  <2> HIDE DEF ps
  <2>4. /\ IsMaps(c) /\ c.s = mem.s /\ c.projects = ps
        /\ c.taskOrder = mem.taskOrder /\ c.runOrder = mem.runOrder
    BY <1>2, <2>1, MapsWithProjects, MapsRest
  <2>5. IsRows(rw) /\ SameRows(rw, rows)  BY <1>2, <2>1, RowsWithProjects
  <2>6. /\ rw.projects = ps /\ rw.reqs = rows.reqs /\ rw.plans = rows.plans
        /\ rw.contracts = rows.contracts /\ rw.taskAt = rows.taskAt
        /\ rw.runAt = rows.runAt
    BY <1>2, ZenonT(60) DEF IsRows
  <2> HIDE DEF c, rw
  <2>7. SameWork(c.s, mem.s) /\ SameDocs(rw, c.s)
    BY <1>3, <2>4, <2>6 DEF SameWork, SameDocs
  <2> QED  BY <1>4, <2>2, <2>3, <2>4, <2>5, <2>6, <2>7
<1>6. CASE AddRequirement
  <2> DEFINE n == AddRequirementEffect(mem.s)
             c == [mem EXCEPT !.s = n]
             rw == [rows EXCEPT !.reqs = @ + 1]
  <2>1. n \in ServiceStates /\ SameWork(n, mem.s)  BY <1>2, AddRequirementFields
  <2>2. /\ n.reqs = mem.s.reqs + 1 /\ n.plans = mem.s.plans
        /\ n.contracts = mem.s.contracts
    BY <1>2, EffectDocs
  <2>3. Transact(c, rw, ProjectLocked) /\ last' = last  BY <1>6 DEF AddRequirement
  <2> HIDE DEF n
  <2>4. /\ IsMaps(c) /\ c.s = n /\ c.projects = mem.projects
        /\ c.taskOrder = mem.taskOrder /\ c.runOrder = mem.runOrder
    BY <1>2, <2>1, MapsWithState, MapsRest
  <2>5. IsRows(rw) /\ SameRows(rw, rows)  BY <1>2, RowsWithReqs
  <2>6. /\ rw.projects = rows.projects /\ rw.reqs = rows.reqs + 1
        /\ rw.plans = rows.plans /\ rw.contracts = rows.contracts
        /\ rw.taskAt = rows.taskAt /\ rw.runAt = rows.runAt
    BY <1>2, ZenonT(60) DEF IsRows
  <2> HIDE DEF c, rw
  <2>7. SameWork(c.s, mem.s) /\ SameDocs(rw, c.s) /\ rw.projects = c.projects
    BY <1>3, <2>1, <2>2, <2>4, <2>6 DEF SameDocs
  <2> QED  BY <1>2, <1>4, <2>3, <2>4, <2>5, <2>6, <2>7
<1>7. CASE GenerateContract
  <2> DEFINE n == GenerateContractEffect(mem.s)
             c == [mem EXCEPT !.s = n]
             rw == [rows EXCEPT !.contracts = Append(@, Len(mem.s.plans))]
  <2>1. n \in ServiceStates /\ SameWork(n, mem.s)  BY <1>2, GenerateContractFields
  <2>2. /\ n.reqs = mem.s.reqs /\ n.plans = mem.s.plans
        /\ n.contracts = Append(mem.s.contracts, Len(mem.s.plans))
    BY <1>2, EffectDocs
  <2>3. Transact(c, rw, ProjectLocked) /\ last' = last
    BY <1>7 DEF GenerateContract
  <2> HIDE DEF n
  <2>4. /\ IsMaps(c) /\ c.s = n /\ c.projects = mem.projects
        /\ c.taskOrder = mem.taskOrder /\ c.runOrder = mem.runOrder
    BY <1>2, <2>1, MapsWithState, MapsRest
  <2>5. IsRows(rw) /\ SameRows(rw, rows)
    <3>1. Len(mem.s.plans) \in Nat  BY <1>2 DEF ServiceStates
    <3> QED  BY <1>2, <3>1, RowsWithContract
  <2>6. /\ rw.projects = rows.projects /\ rw.reqs = rows.reqs
        /\ rw.plans = rows.plans
        /\ rw.contracts = Append(rows.contracts, Len(mem.s.plans))
        /\ rw.taskAt = rows.taskAt /\ rw.runAt = rows.runAt
    BY <1>2, ZenonT(60) DEF IsRows
  <2> HIDE DEF c, rw
  <2>7. SameWork(c.s, mem.s) /\ SameDocs(rw, c.s) /\ rw.projects = c.projects
    BY <1>3, <2>1, <2>2, <2>4, <2>6 DEF SameDocs
  <2> QED  BY <1>2, <1>4, <2>3, <2>4, <2>5, <2>6, <2>7
<1> QED  BY <1>5, <1>6, <1>7

\* SaveTasks: the rows of the new tasks get the places that they have in
\* taskOrder.
LEMMA SaveTasksStored ==
    ASSUME IInv, StoredInv, Undisturbed, env' = env, up, Quiet, NEW n \in Nat,
           last.task + n <= MaxTasks, NEW new, AddedTasks(new, mem.s, NewTaskSet(n)),
           NEW docs, IsRows(docs), SameRows(docs, rows), SameDocs(docs, new),
           docs.projects = rows.projects, docs.taskAt = rows.taskAt,
           docs.runAt = rows.runAt, SaveTasks(new, n, docs)
    PROVE  StoredInv'
<1> DEFINE T == NewTaskSet(n)
           o == mem.taskOrder \o NewTasks(n)
           c == [mem EXCEPT !.s = new, !.taskOrder = o]
           x == InsertTasks(docs, c, T)
<1>1. /\ IsMaps(mem) /\ mem.s \in ServiceStates /\ rows = RowsOf(mem)
      /\ IsRows(rows) /\ SameRows(rows, mem.s) /\ Ordered(mem, last)
      /\ last \in LastIds
  BY UndisturbedState
<1>2. /\ rows.projects = mem.projects
      /\ rows.taskAt = PositionsOf(mem.taskOrder, TaskId)
      /\ rows.runAt = PositionsOf(mem.runOrder, RunId)
  BY <1>1, RowsOfRest
<1>3. last.task \in Nat /\ MaxTasks \in Nat /\ last.run \in Nat
  BY <1>1, BoundsAssumption DEF LastIds
<1>4. /\ last' \in LastIds /\ last'.task = last.task + n /\ last'.run = last.run
      /\ last.task <= last'.task /\ last.run <= last'.run
  <2>1. last' = [last EXCEPT !.task = @ + n]  BY DEF SaveTasks
  <2>2. last.task + n \in 0..MaxTasks  BY <1>3
  <2>3. last' \in LastIds /\ last'.task = last.task + n /\ last'.run = last.run
    BY <1>1, <2>1, <2>2, Zenon DEF LastIds
  <2> QED  BY <1>3, <2>3
<1>5. /\ Order(o, last.task + n)
      /\ Inserted(mem.taskOrder, o, T, TaskId) = PositionsOf(o, TaskId)
  <2>1. Order(mem.taskOrder, last.task)  BY <1>1 DEF Ordered
  <2>2. o = mem.taskOrder \o NextIds(last.task, n)  BY DEF NewTasks, NextIds
  <2>3. T = NextSet(last.task, n)  BY DEF NewTaskSet, NextSet
  <2> HIDE DEF o, T
  <2>4. Extended(mem.taskOrder, last.task, n, MaxTasks)
    BY <1>3, <2>1, AppendedPositions
  <2> QED  BY <2>2, <2>3, <2>4 DEF Extended, TaskId
<1>6. new \in ServiceStates  BY DEF AddedTasks
<1>7. \/ mem' = c /\ rows' = x /\ legacy' = c
      \/ mem' = mem /\ rows' = rows /\ legacy' = legacy
  BY DEF SaveTasks, Transact, Committed, RolledBack, WithTasks
<1> HIDE DEF o, T
<1>8. /\ IsMaps(c) /\ c.s = new /\ c.projects = mem.projects /\ c.taskOrder = o
      /\ c.runOrder = mem.runOrder
  <2>1. IsMaps(c) /\ c.s = new  BY <1>1, <1>6, MapsWithTasks
  <2>2. /\ c.projects = mem.projects /\ c.taskOrder = o
        /\ c.runOrder = mem.runOrder
    BY <1>1, MapsRestTasks
  <2> QED  BY <2>1, <2>2
<1> HIDE DEF c
<1>9. /\ IsRows(x)
      /\ \A t \in TaskId :
           /\ x.status[t] = IF t \in T THEN new.status[t] ELSE docs.status[t]
           /\ x.task[t] = IF t \in T THEN new.task[t] ELSE docs.task[t]
      /\ x.run = docs.run /\ x.runTask = docs.runTask
      /\ x.artifact = docs.artifact
  BY <1>8, InsertTasksFields
<1>10. /\ x.projects = docs.projects /\ x.reqs = docs.reqs
       /\ x.plans = docs.plans /\ x.contracts = docs.contracts
       /\ x.runAt = docs.runAt
       /\ x.taskAt = [i \in TaskId |->
             IF i <= Len(c.taskOrder) /\ c.taskOrder[i] \in T
               THEN c.taskOrder[i] ELSE docs.taskAt[i]]
  BY InsertTasksRest
<1> HIDE DEF x
<1>11. x.taskAt = PositionsOf(o, TaskId)
  BY <1>2, <1>5, <1>8, <1>10 DEF Inserted
<1>12. SameRows(x, new)
  <2>1. AddedTasks(new, mem.s, T)  BY DEF T
  <2>2. \A t \in TaskId : x.status[t] = new.status[t] /\ x.task[t] = new.task[t]
    BY <1>1, <1>9, <2>1 DEF AddedTasks, SameRows
  <2>3. /\ x.run = new.run /\ x.runTask = new.runTask
        /\ x.artifact = new.artifact
    BY <1>1, <1>9, <2>1 DEF AddedTasks, SameRows
  <2> QED  BY <1>6, <1>9, <2>2, <2>3, RowByRow
<1>13. x = RowsOf(c)
  BY <1>2, <1>8, <1>9, <1>10, <1>11, <1>12, RowsEqual DEF SameDocs
<1>14. Ordered(c, last')  BY <1>1, <1>4, <1>5, <1>8 DEF Ordered
<1> QED  BY <1>4, <1>7, <1>8, <1>13, <1>14, WriteStored DEF Quiet

\* GeneratePlan, DispatchTasks, ValidateContract and RetryTask.
LEMMA TasksStored ==
    ASSUME IInv, StoredInv, Undisturbed, env' = env,
           \/ GeneratePlan \/ DispatchTasks
           \/ \E c \in 1..Len(mem.s.contracts) : ValidateContract(c)
           \/ \E t \in TaskId : RetryTask(t)
    PROVE  StoredInv'
<1>1. up /\ Quiet
  BY DEF GeneratePlan, DispatchTasks, ValidateContract, RetryTask, HasMain
<1>2. /\ IsMaps(mem) /\ mem.s \in ServiceStates /\ rows = RowsOf(mem)
      /\ IsRows(rows) /\ SameRows(rows, rows) /\ last \in LastIds
      /\ last.task \in Nat /\ MaxTasks \in Nat
  BY <1>1, UndisturbedState, BoundsAssumption DEF LastIds, SameRows
<1>3. SameDocs(rows, mem.s)  BY <1>2, RowsOfRest DEF SameDocs
<1>4. ASSUME last.task < MaxTasks
      PROVE  /\ last.task + 1 \in TaskId /\ last.task + 1 <= MaxTasks
             /\ NewTaskSet(1) = {last.task + 1}
  BY <1>2, <1>4 DEF TaskId, NewTaskSet
<1>5. CASE GeneratePlan
  <2> DEFINE n == GeneratePlanEffect(mem.s, last.task + 1)
             docs == [rows EXCEPT !.plans = Append(@, mem.s.reqs)]
  <2>1. last.task < MaxTasks /\ SaveTasks(n, 1, docs)  BY <1>5 DEF GeneratePlan
  <2>2. AddedTasks(n, mem.s, NewTaskSet(1))
    BY <1>2, <1>4, <2>1, GeneratePlanFields
  <2>3. IsRows(docs) /\ SameRows(docs, rows)
    <3>1. mem.s.reqs \in Nat  BY <1>2 DEF ServiceStates
    <3> QED  BY <1>2, <3>1, RowsWithPlan
  <2>4. /\ docs.projects = rows.projects /\ docs.reqs = rows.reqs
        /\ docs.plans = Append(rows.plans, mem.s.reqs)
        /\ docs.contracts = rows.contracts /\ docs.taskAt = rows.taskAt
        /\ docs.runAt = rows.runAt
    BY <1>2, ZenonT(60) DEF IsRows
  <2>5. /\ n.reqs = mem.s.reqs /\ n.contracts = mem.s.contracts
        /\ n.plans = Append(mem.s.plans, mem.s.reqs)
    BY <1>2, GeneratePlanDocs
  <2> HIDE DEF n, docs
  <2>6. SameDocs(docs, n)  BY <1>3, <2>4, <2>5 DEF SameDocs
  <2> QED  BY <1>1, <1>4, <2>1, <2>2, <2>3, <2>4, <2>6, SaveTasksStored
<1>6. CASE DispatchTasks
  <2> DEFINE b == last.task + 1
             f == last.task + 2
             i == last.task + 3
             n == DispatchTasksEffect(mem.s, b, f, i)
  <2>1. last.task + 3 <= MaxTasks /\ SaveTasks(n, 3, rows)
    BY <1>6 DEF DispatchTasks
  <2>2. b \in TaskId /\ f \in TaskId /\ i \in TaskId
    BY <1>2, <2>1 DEF TaskId
  <2>3. NewTaskSet(3) = {b, f, i}  BY <1>2 DEF NewTaskSet
  <2>4. AddedTasks(n, mem.s, NewTaskSet(3))
    BY <1>2, <2>2, <2>3, DispatchTasksFields
  <2>5. SameDocs(n, mem.s)  BY <1>2, DispatchTasksDocs
  <2> HIDE DEF n
  <2>6. SameDocs(rows, n)  BY <1>3, <2>5 DEF SameDocs
  <2> QED  BY <1>1, <1>2, <2>1, <2>4, <2>6, SaveTasksStored
<1>7. ASSUME NEW n, AddedTasks(n, mem.s, NewTaskSet(1)), SameDocs(n, mem.s),
             last.task < MaxTasks, SaveTasks(n, 1, rows)
      PROVE  StoredInv'
  <2>1. SameDocs(rows, n)  BY <1>3, <1>7 DEF SameDocs
  <2> QED  BY <1>1, <1>2, <1>4, <1>7, <2>1, SaveTasksStored
<1>8. ASSUME NEW c \in 1..Len(mem.s.contracts), ValidateContract(c)
      PROVE  StoredInv'
  <2> DEFINE n == RemediationEffect(mem.s, last.task + 1, c)
  <2>1. last.task < MaxTasks /\ SaveTasks(n, 1, rows)
    BY <1>8 DEF ValidateContract
  <2>2. AddedTasks(n, mem.s, NewTaskSet(1))
    BY <1>2, <1>4, <2>1, RemediationFields
  <2>3. SameDocs(n, mem.s)  BY <1>2, AddTaskDocs DEF RemediationEffect
  <2> HIDE DEF n
  <2> QED  BY <1>7, <2>1, <2>2, <2>3
<1>9. ASSUME NEW t \in TaskId, RetryTask(t)
      PROVE  StoredInv'
  <2> DEFINE n == RetryTaskEffect(mem.s, t, last.task + 1)
  <2>1. last.task < MaxTasks /\ SaveTasks(n, 1, rows)
    BY <1>9 DEF RetryTask
  <2>2. AddedTasks(n, mem.s, NewTaskSet(1))
    BY <1>2, <1>4, <2>1, RetryTaskFields
  <2>3. SameDocs(n, mem.s)  BY <1>2, AddTaskDocs DEF RetryTaskEffect
  <2> HIDE DEF n
  <2> QED  BY <1>7, <2>1, <2>2, <2>3
<1> QED  BY <1>5, <1>6, <1>8, <1>9

\* StartRuns: the rows of the new runs get the places that they have in
\* runOrder, and every task of the request has a row.
LEMMA StartRunsStored ==
    ASSUME IInv, StoredInv, Undisturbed, env' = env, NEW sel \in SUBSET ReadyTasks,
           StartParallelRun(sel)
    PROVE  StoredInv'
<1>1. /\ up /\ last.run + Cardinality(sel) <= MaxRuns /\ StartRuns(sel)
  BY DEF StartParallelRun, HasMain
<1>2. PICK rid \in [sel -> RunId] :
        LET c == WithRuns(rid)
            new == {rid[t] : t \in sel}
            accepted == ProjectLocked /\ RunInsertsAccepted(rows, c, new)
        IN  /\ Allocates(rid, sel)
            /\ last' = [last EXCEPT !.run = @ + Cardinality(sel)]
            /\ \/ /\ Committed(c, InsertRuns(UpdateTasks(rows, c, sel), c, new),
                               accepted)
                  /\ Spawn(new)
               \/ RolledBack(accepted) /\ UNCHANGED agent
            /\ UNCHANGED <<up, reading>>
  BY <1>1 DEF StartRuns
<1> DEFINE c == WithRuns(rid)
           new == {rid[t] : t \in sel}
           n == StartTaskRunsEffect(mem.s, rid)
           k == Cardinality(sel)
           o == mem.runOrder \o NextIds(last.run, k)
           u == UpdateTasks(rows, c, sel)
           x == InsertRuns(u, c, new)
<1>3. /\ last' \in LastIds /\ last'.task = last.task /\ last.run <= last'.run
      /\ last' = [last EXCEPT !.run = @ + k]
  BY <1>1, <1>2, AllocatesRuns
<1>4. /\ IsMaps(mem) /\ mem.s \in ServiceStates /\ rows = RowsOf(mem)
      /\ IsRows(rows) /\ SameRows(rows, mem.s) /\ Ordered(mem, last)
      /\ last \in LastIds /\ last.run \in Nat /\ last.task \in Nat /\ MaxRuns \in Nat
  BY <1>1, UndisturbedState, BoundsAssumption DEF LastIds
<1>5. /\ rows.projects = mem.projects /\ SameDocs(rows, mem.s)
      /\ rows.taskAt = PositionsOf(mem.taskOrder, TaskId)
      /\ rows.runAt = PositionsOf(mem.runOrder, RunId)
  BY <1>4, RowsOfRest DEF SameDocs
<1>6. sel \subseteq TaskId /\ \A t \in sel : mem.s.status[t] = "CREATED"
  BY DEF ReadyTasks, EnsureTaskReady
<1>7. k \in Nat /\ last'.run = last.run + k /\ last.task <= last'.task
  <2>1. IsFiniteSet(TaskId)
    <3>1. 1 \in Int /\ MaxTasks \in Int  BY BoundsAssumption
    <3> QED  BY <3>1, FS_Interval DEF TaskId
  <2>2. k \in Nat  BY <1>6, <2>1, FS_Subset, FS_CardinalityType
  <2> HIDE DEF k
  <2> QED  BY <1>3, <1>4, <2>2 DEF LastIds
<1>8. new = NextSet(last.run, k)  BY <1>2 DEF Allocates, NextSet
<1>9. Order(o, last'.run) /\ Inserted(mem.runOrder, o, new, RunId) = PositionsOf(o, RunId)
  <2>1. Order(mem.runOrder, last.run)  BY <1>4 DEF Ordered
  <2> HIDE DEF k, new
  <2>2. last.run + k <= MaxRuns  BY <1>1 DEF k
  <2>3. Extended(mem.runOrder, last.run, k, MaxRuns)
    BY <1>4, <1>7, <2>1, <2>2, AppendedPositions
  <2> QED  BY <1>7, <1>8, <2>3 DEF Extended, RunId
<1>10. /\ IsMaps(c) /\ c.s = n /\ StartedRuns(n, mem.s, sel, rid)
  BY WithRunsFields
<1>11. /\ c.projects = mem.projects /\ c.taskOrder = mem.taskOrder
       /\ c.runOrder = o
  <2>1. DOMAIN rid = sel  OBVIOUS
  <2>2. c = [mem EXCEPT !.s = n, !.runOrder = o]  BY <2>1 DEF WithRuns, NextIds
  <2> HIDE DEF c, n, o
  <2> QED  BY <1>4, <2>2, MapsRestRuns
<1>12. SameDocs(n, mem.s)  BY <1>4, RunDocs
<1>13. /\ n \in ServiceStates
       /\ \A t \in TaskId :
            n.status[t] = IF t \in sel THEN "IN_PROGRESS" ELSE mem.s.status[t]
       /\ \A r \in RunId : r \notin new =>
            n.run[r] = mem.s.run[r] /\ n.runTask[r] = mem.s.runTask[r]
       /\ n.task = mem.s.task /\ n.artifact = mem.s.artifact
  BY <1>10 DEF StartedRuns
<1>14. \/ mem' = c /\ rows' = x /\ legacy' = c
       \/ mem' = mem /\ rows' = rows /\ legacy' = legacy
  BY <1>2 DEF Committed, RolledBack
<1>15. up' = up /\ reading' = reading  BY <1>2
<1> HIDE DEF c, n, new, k, o
<1>16. /\ IsRows(u)
       /\ \A t \in TaskId :
            u.status[t] = IF t \in sel /\ rows.status[t] # "ABSENT"
                            THEN n.status[t] ELSE rows.status[t]
       /\ u.task = rows.task /\ u.run = rows.run /\ u.runTask = rows.runTask
       /\ u.artifact = rows.artifact
  BY <1>4, <1>10, UpdateTasksFields
<1>17. /\ u.projects = rows.projects /\ u.reqs = rows.reqs
       /\ u.plans = rows.plans /\ u.contracts = rows.contracts
       /\ u.taskAt = rows.taskAt /\ u.runAt = rows.runAt
  BY <1>4, UpdateTasksRest
<1> HIDE DEF u
<1>18. /\ IsRows(x)
       /\ \A r \in RunId :
            /\ x.run[r] = IF r \in new THEN n.run[r] ELSE u.run[r]
            /\ x.runTask[r] = IF r \in new THEN n.runTask[r] ELSE u.runTask[r]
       /\ x.status = u.status /\ x.task = u.task /\ x.artifact = u.artifact
  BY <1>10, <1>16, InsertRunsFields
<1>19. /\ x.projects = u.projects /\ x.reqs = u.reqs
       /\ x.plans = u.plans /\ x.contracts = u.contracts
       /\ x.taskAt = u.taskAt
       /\ x.runAt = [i \in RunId |->
             IF i <= Len(c.runOrder) /\ c.runOrder[i] \in new
               THEN c.runOrder[i] ELSE u.runAt[i]]
  BY <1>16, InsertRunsRest
<1> HIDE DEF x
<1>20. x.runAt = PositionsOf(o, RunId)
  BY <1>5, <1>9, <1>11, <1>17, <1>19 DEF Inserted
<1>21. SameRows(x, n)
  <2>1. \A t \in TaskId : x.status[t] = n.status[t] /\ x.task[t] = n.task[t]
    BY <1>4, <1>6, <1>13, <1>16, <1>18 DEF SameRows
  <2>2. \A r \in RunId : x.run[r] = n.run[r] /\ x.runTask[r] = n.runTask[r]
    BY <1>4, <1>13, <1>16, <1>18 DEF SameRows
  <2>3. x.artifact = n.artifact  BY <1>4, <1>13, <1>16, <1>18 DEF SameRows
  <2> QED  BY <1>13, <1>18, <2>1, <2>2, <2>3, RowByRow
<1>22. x = RowsOf(c)
  <2>1. x.projects = c.projects /\ SameDocs(x, c.s)
    BY <1>5, <1>10, <1>11, <1>12, <1>17, <1>19 DEF SameDocs
  <2>2. /\ x.taskAt = PositionsOf(c.taskOrder, TaskId)
        /\ x.runAt = PositionsOf(c.runOrder, RunId)
    BY <1>5, <1>11, <1>17, <1>19, <1>20
  <2> QED  BY <1>10, <1>18, <1>21, <2>1, <2>2, RowsEqual DEF SameDocs
<1>23. Ordered(c, last')  BY <1>3, <1>4, <1>9, <1>11 DEF Ordered
<1> QED  BY <1>1, <1>3, <1>7, <1>10, <1>14, <1>15, <1>22, <1>23, WriteStored

\* persistLocked cannot fail here, and it writes everything.
LEMMA PersistStored ==
    ASSUME IInv, StoredInv, Undisturbed, env' = env, up, up' = up,
           reading' = reading, last' \in LastIds, last.task <= last'.task,
           last.run <= last'.run, NEW m, IsMaps(m),
           m.taskOrder = mem.taskOrder, m.runOrder = mem.runOrder, Persist(m)
    PROVE  StoredInv'
<1>1. mem' = m /\ rows' = RowsOf(m) /\ legacy' = m
  BY UndisturbedFacts DEF Persist, PersistOK, PersistFails
<1>2. Ordered(mem, last) /\ last \in LastIds  BY UndisturbedState
<1>3. Ordered(mem, last')  BY <1>2, OrderedGrows
<1>4. Ordered(m, last')  BY <1>3 DEF Ordered
<1> QED  BY <1>1, <1>4, WriteStored

\* A handler that replaces the maps of the project and saves everything.
LEMMA PersistStateStored ==
    ASSUME IInv, StoredInv, Undisturbed, env' = env, up, up' = up,
           reading' = reading, last' \in LastIds, last.task <= last'.task,
           last.run <= last'.run, NEW n \in ServiceStates,
           Persist([mem EXCEPT !.s = n])
    PROVE  StoredInv'
<1> DEFINE m == [mem EXCEPT !.s = n]
<1>1. IsMaps(mem)  BY UndisturbedState
<1>2. IsMaps(m)  BY <1>1, MapsWithState
<1>3. m.taskOrder = mem.taskOrder /\ m.runOrder = mem.runOrder
  BY <1>1, MapsRest
<1>4. Persist(m)  OBVIOUS
<1> HIDE DEF m
<1> QED  BY <1>2, <1>3, <1>4, PersistStored

\* The handlers that save everything; no sandbox fails to be created.
LEMMA PersistingStored ==
    ASSUME IInv, StoredInv, Undisturbed, env' = env, PersistingHandler
    PROVE  StoredInv'
<1>1. up
  BY DEF PersistingHandler, StartRunRefused, MarkTaskSandboxFailure,
         StartParallelRunFails, ApplyHumanOverride, OtherProjectHandler, HasMain
<1>2. /\ IsMaps(mem) /\ mem.s \in ServiceStates /\ last \in LastIds
      /\ last.task <= last.task /\ last.run <= last.run
  BY <1>1, UndisturbedState DEF LastIds
<1>3. ~Can("sandbox")  BY UndisturbedFacts
<1>4. ASSUME Persist(mem), Quiet, last' = last
      PROVE  StoredInv'
  BY <1>1, <1>2, <1>4, PersistStored DEF Quiet
<1>5. ASSUME NEW t \in TaskId, StartRunRefused(t)
      PROVE  StoredInv'
  BY <1>3, <1>4, <1>5 DEF StartRunRefused
<1>6. ASSUME NEW t \in TaskId, MarkTaskSandboxFailure(t)
      PROVE  StoredInv'
  <2> DEFINE F == mem.s.faults \cup {t}
             n == [mem.s EXCEPT !.faults = F]
  <2>1. F \in SUBSET TaskId  BY <1>2, FieldTypes
  <2>2. n \in ServiceStates  BY <1>2, <2>1, FaultFields
  <2>3. Quiet /\ last' = last /\ Persist([mem EXCEPT !.s = n])
    BY <1>6 DEF MarkTaskSandboxFailure
  <2> HIDE DEF n
  <2> QED  BY <1>1, <1>2, <2>2, <2>3, PersistStateStored DEF Quiet
<1>7. ASSUME NEW t \in ReadyTasks, NEW sel \in SUBSET (ReadyTasks \ {t}),
             StartParallelRunFails(sel, t)
      PROVE  StoredInv'
  BY <1>3, <1>7 DEF StartParallelRunFails
<1>8. ASSUME NEW t \in TaskId, NEW owner \in Owners, NEW scope \in Scopes,
             ApplyHumanOverride(t, owner, scope)
      PROVE  StoredInv'
  <2> DEFINE o == last.override + 1
             n == QueueOverrideEffect(mem.s, o, t, owner, scope)
  <2>1. /\ Quiet /\ last.override < MaxOverrides
        /\ last' = [last EXCEPT !.override = @ + 1]
        /\ Persist([mem EXCEPT !.s = n])
    BY <1>8 DEF ApplyHumanOverride
  <2>2. o \in OverrideId /\ o \in 0..MaxOverrides
    BY <1>2, <2>1, BoundsAssumption DEF LastIds, OverrideId
  <2>3. last' \in LastIds /\ last'.task = last.task /\ last'.run = last.run
    BY <1>2, <2>1, <2>2, Zenon DEF LastIds
  <2> HIDE DEF o
  <2>4. n \in ServiceStates  BY <1>2, <2>2, QueueOverrideFields
  <2> HIDE DEF n
  <2> QED  BY <1>1, <1>2, <2>1, <2>3, <2>4, PersistStateStored DEF Quiet
<1>9. CASE OtherProjectHandler  BY <1>4, <1>9 DEF OtherProjectHandler
<1> QED  BY <1>5, <1>6, <1>7, <1>8, <1>9 DEF PersistingHandler

\* The tables x are the tables with the rows of run r and of its task t taken
\* from the maps n.
SettledRows(x, n, r, t) ==
    /\ IsRows(x) /\ x.task = rows.task /\ x.runTask = rows.runTask
    /\ \A u \in TaskId : x.status[u] = IF u = t THEN n.status[t] ELSE rows.status[u]
    /\ \A q \in RunId : x.run[q] = IF q = r THEN n.run[r] ELSE rows.run[q]
    /\ \A q \in RunId : x.artifact[q] = n.artifact[q]
    /\ x.projects = rows.projects /\ SameDocs(x, rows)
    /\ x.taskAt = rows.taskAt /\ x.runAt = rows.runAt

\* A run ends in one transaction.
LEMMA SettledStored ==
    ASSUME IInv, StoredInv, Undisturbed, env' = env, up, up' = up,
           reading' = reading, last' = last, NEW r \in RunId, NEW t \in TaskId,
           NEW won \in BOOLEAN, NEW n, Settled(n, mem.s, r, t, won),
           SameDocs(n, mem.s), NEW x, SettledRows(x, n, r, t),
           \/ mem' = [mem EXCEPT !.s = n] /\ rows' = x
                /\ legacy' = [mem EXCEPT !.s = n]
           \/ mem' = mem /\ rows' = rows /\ legacy' = legacy
    PROVE  StoredInv'
<1> DEFINE c == [mem EXCEPT !.s = n]
<1>1. /\ IsMaps(mem) /\ mem.s \in ServiceStates /\ rows = RowsOf(mem)
      /\ SameRows(rows, mem.s) /\ Ordered(mem, last) /\ last \in LastIds
      /\ last.task <= last.task /\ last.run <= last.run
  BY UndisturbedState DEF LastIds
<1>2. /\ rows.projects = mem.projects /\ SameDocs(rows, mem.s)
      /\ rows.taskAt = PositionsOf(mem.taskOrder, TaskId)
      /\ rows.runAt = PositionsOf(mem.runOrder, RunId)
  BY <1>1, RowsOfRest DEF SameDocs
<1>3. n \in ServiceStates  BY DEF Settled
<1>4. IsMaps(c) /\ c.s = n  BY <1>1, <1>3, MapsWithState
<1>5. /\ c.projects = mem.projects /\ c.taskOrder = mem.taskOrder
      /\ c.runOrder = mem.runOrder
  BY <1>1, MapsRest
<1>6. \/ mem' = c /\ rows' = x /\ legacy' = c
      \/ mem' = mem /\ rows' = rows /\ legacy' = legacy
  OBVIOUS
<1> HIDE DEF c
<1>7. SameRows(x, n)
  <2>1. \A u \in TaskId : x.status[u] = n.status[u]
    BY <1>1 DEF SettledRows, Settled, SameRows
  <2>2. \A q \in RunId : x.run[q] = n.run[q]
    BY <1>1 DEF SettledRows, Settled, SameRows
  <2>3. x.task = n.task /\ x.runTask = n.runTask
    BY <1>1 DEF SettledRows, Settled, SameRows
  <2>4. IsRows(x) /\ \A q \in RunId : x.artifact[q] = n.artifact[q]
    BY DEF SettledRows
  <2> QED  BY <1>3, <2>1, <2>2, <2>3, <2>4, RowByRow
<1>8. x = RowsOf(c)
  <2>1. x.projects = c.projects /\ SameDocs(x, c.s) /\ IsRows(x)
    BY <1>2, <1>4, <1>5 DEF SettledRows, SameDocs
  <2>2. /\ x.taskAt = PositionsOf(c.taskOrder, TaskId)
        /\ x.runAt = PositionsOf(c.runOrder, RunId)
    BY <1>2, <1>5 DEF SettledRows
  <2> QED  BY <1>4, <1>7, <2>1, <2>2, RowsEqual DEF SameDocs
<1>9. Ordered(c, last')  BY <1>1, <1>5 DEF Ordered
<1> QED  BY <1>1, <1>4, <1>6, <1>8, <1>9, WriteStored

\* The columns that the end of a run leaves alone.
LEMMA UpdatedRest ==
    ASSUME NEW rw, IsRows(rw), NEW c, IsMaps(c), NEW ts, NEW r \in RunId
    PROVE  LET w == UpdateRun(UpdateTasks(rw, c, ts), c, r)
           IN  /\ w.projects = rw.projects /\ SameDocs(w, rw)
               /\ w.taskAt = rw.taskAt /\ w.runAt = rw.runAt
<1> DEFINE u == UpdateTasks(rw, c, ts)
<1>1. /\ u.projects = rw.projects /\ u.reqs = rw.reqs
      /\ u.plans = rw.plans /\ u.contracts = rw.contracts
      /\ u.taskAt = rw.taskAt /\ u.runAt = rw.runAt
  BY UpdateTasksRest
<1>2. IsRows(u)  BY UpdateTasksFields
<1> HIDE DEF u
<1>3. LET w == UpdateRun(u, c, r)
      IN  /\ w.projects = u.projects /\ w.reqs = u.reqs
          /\ w.plans = u.plans /\ w.contracts = u.contracts
          /\ w.taskAt = u.taskAt /\ w.runAt = u.runAt
  BY <1>2, UpdateRunRest
<1> QED  BY <1>1, <1>3 DEF u, SameDocs

LEMMA ArtifactRest ==
    ASSUME NEW rw, IsRows(rw), NEW r \in RunId
    PROVE  LET n == [rw EXCEPT !.artifact[r] = TRUE]
           IN  /\ n.projects = rw.projects /\ SameDocs(n, rw)
               /\ n.taskAt = rw.taskAt /\ n.runAt = rw.runAt
<1> DEFINE n == [rw EXCEPT !.artifact[r] = TRUE]
           ar == [rw.artifact EXCEPT ![r] = TRUE]
<1>1. n = [rw EXCEPT !.artifact = ar]  BY ZenonT(60)
<1> HIDE DEF n, ar
<1>2. /\ n.projects = rw.projects /\ n.reqs = rw.reqs /\ n.plans = rw.plans
      /\ n.contracts = rw.contracts /\ n.taskAt = rw.taskAt
      /\ n.runAt = rw.runAt
  BY <1>1, ZenonT(60) DEF IsRows
<1> QED  BY <1>2 DEF n, SameDocs

\* The end of executeRun.
LEMMA CompleteRunStored ==
    ASSUME IInv, TrustInv, StoredInv, Undisturbed, env' = env, NEW r \in RunId,
           CompleteRun(r), up' = up, reading' = reading, last' = last
    PROVE  StoredInv'
<1> DEFINE t == agent[r].task
           n == CompleteRunEffect(mem.s, r, t)
           c == [mem EXCEPT !.s = n]
           w == UpdateRun(UpdateTasks(rows, c, {t}), c, r)
           x == [w EXCEPT !.artifact[r] = TRUE]
<1>1. Live(r) /\ agent[r].phase \in OnTask  BY DEF CompleteRun, Live, OnTask
<1>2. /\ up /\ mem.s.run[r] = "RUNNING" /\ rows.run[r] = "RUNNING"
      /\ Trusted => mem.s.runTask[r] = rows.runTask[r]
  BY <1>1, LiveRun
<1>3. Trusted  BY UndisturbedFacts DEF Trusted
<1>4. t \in TaskId /\ t = mem.s.runTask[r]
  BY <1>1, <1>2, <1>3, AgentsStay DEF IInv, Owned, Live
<1>5. /\ IsMaps(mem) /\ mem.s \in ServiceStates /\ IsRows(rows)
      /\ SameRows(rows, mem.s)
  BY <1>2, UndisturbedState
<1>6. Worked(mem.s, t)
  BY <1>2, <1>3, <1>4, ViewSound DEF Sound, Agreement, RunExists
<1>7. Settled(n, mem.s, r, t, TRUE)  BY <1>4, <1>5, <1>6, CompleteRunFields
<1>8. SameDocs(n, mem.s)  BY <1>5, SettleDocs
<1>9. IsMaps(c) /\ c.s = n
  <2>1. n \in ServiceStates  BY <1>7 DEF Settled
  <2> QED  BY <1>5, <2>1, MapsWithState
<1>10. \/ mem' = c /\ rows' = x /\ legacy' = c
       \/ mem' = mem /\ rows' = rows /\ legacy' = legacy
  BY DEF CompleteRun, Transact, Committed, RolledBack
<1> HIDE DEF n, t
<1>11. rows.status[t] # "ABSENT"  BY <1>4, <1>5, <1>6 DEF SameRows, Worked
<1>12. SettledRows(x, n, r, t)
  <2> HIDE DEF c
  <2>1. /\ IsRows(w) /\ w.task = rows.task /\ w.runTask = rows.runTask
        /\ w.artifact = rows.artifact
        /\ \A u \in TaskId : w.status[u] = IF u = t /\ rows.status[t] # "ABSENT"
                                             THEN n.status[t] ELSE rows.status[u]
        /\ \A q \in RunId : w.run[q] = IF q = r THEN n.run[r] ELSE rows.run[q]
    BY <1>2, <1>4, <1>5, <1>9, UpdatedRows
  <2>2. /\ w.projects = rows.projects /\ SameDocs(w, rows)
        /\ w.taskAt = rows.taskAt /\ w.runAt = rows.runAt
    BY <1>5, <1>9, UpdatedRest
  <2> HIDE DEF w
  <2>3. /\ IsRows(x)
        /\ \A q \in RunId : x.artifact[q] = (q = r \/ w.artifact[q])
        /\ x.status = w.status /\ x.task = w.task /\ x.run = w.run
        /\ x.runTask = w.runTask
    BY <2>1, RowsWithArtifact
  <2>4. /\ x.projects = w.projects /\ SameDocs(x, w)
        /\ x.taskAt = w.taskAt /\ x.runAt = w.runAt
    BY <2>1, ArtifactRest
  <2> HIDE DEF x
  <2>5. \A q \in RunId : x.artifact[q] = n.artifact[q]
    <3> TAKE q \in RunId
    <3>1. rows.artifact[q] \in BOOLEAN /\ rows.artifact[q] = mem.s.artifact[q]
      BY <1>5, RowsFields DEF SameRows
    <3>2. n.artifact[q] \in BOOLEAN  BY <1>7, FieldTypes DEF Settled
    <3>3. n.artifact[q] <=> IF q = r THEN TRUE ELSE mem.s.artifact[q]
      BY <1>7 DEF Settled
    <3>4. x.artifact[q] \in BOOLEAN  BY <2>3, RowsFields
    <3> QED  BY <2>1, <2>3, <3>1, <3>2, <3>3, <3>4
  <2>6. SameDocs(x, rows)  BY <2>2, <2>4 DEF SameDocs
  <2> QED  BY <1>11, <2>1, <2>2, <2>3, <2>4, <2>5, <2>6 DEF SettledRows
<1> HIDE DEF x
<1> QED  BY <1>2, <1>4, <1>7, <1>8, <1>10, <1>12, SettledStored

\* failRun.
LEMMA FailRunStored ==
    ASSUME IInv, TrustInv, StoredInv, Undisturbed, env' = env, NEW r \in RunId,
           FailRun(r), up' = up, reading' = reading, last' = last
    PROVE  StoredInv'
<1> DEFINE t == mem.s.runTask[r]
           n == FailRunEffect(mem.s, r)
           c == [mem EXCEPT !.s = n]
           x == UpdateRun(UpdateTasks(rows, c, {t}), c, r)
<1>1. Live(r)  BY DEF FailRun, Live
<1>2. /\ up /\ mem.s.run[r] = "RUNNING" /\ rows.run[r] = "RUNNING"
      /\ t \in TaskId
  BY <1>1, LiveRun
<1>3. Trusted  BY UndisturbedFacts DEF Trusted
<1>4. /\ IsMaps(mem) /\ mem.s \in ServiceStates /\ IsRows(rows)
      /\ SameRows(rows, mem.s)
  BY <1>2, UndisturbedState
<1>5. Worked(mem.s, t) /\ ~mem.s.artifact[r]
  BY <1>2, <1>3, ViewSound DEF Sound, Agreement, RunExists
<1>6. Settled(n, mem.s, r, t, FALSE)  BY <1>2, <1>4, <1>5, FailRunFields
<1>7. SameDocs(n, mem.s)  BY <1>4, SettleDocs
<1>8. IsMaps(c) /\ c.s = n /\ c.s.runTask[r] = t
  <2>1. n \in ServiceStates /\ n.runTask = mem.s.runTask  BY <1>6 DEF Settled
  <2> QED  BY <1>4, <2>1, MapsWithState
<1>9. \/ mem' = c /\ rows' = x /\ legacy' = c
      \/ mem' = mem /\ rows' = rows /\ legacy' = legacy
  BY <1>8 DEF FailRun, Transact, Committed, RolledBack
<1> HIDE DEF n, t
<1>10. rows.status[t] # "ABSENT"  BY <1>2, <1>4, <1>5 DEF SameRows, Worked
<1>11. SettledRows(x, n, r, t)
  <2> HIDE DEF c
  <2>1. /\ IsRows(x) /\ x.task = rows.task /\ x.runTask = rows.runTask
        /\ x.artifact = rows.artifact
        /\ \A u \in TaskId : x.status[u] = IF u = t /\ rows.status[t] # "ABSENT"
                                             THEN n.status[t] ELSE rows.status[u]
        /\ \A q \in RunId : x.run[q] = IF q = r THEN n.run[r] ELSE rows.run[q]
    BY <1>2, <1>4, <1>8, UpdatedRows
  <2>2. /\ x.projects = rows.projects /\ SameDocs(x, rows)
        /\ x.taskAt = rows.taskAt /\ x.runAt = rows.runAt
    BY <1>4, <1>8, UpdatedRest
  <2> HIDE DEF x
  <2>3. \A q \in RunId : x.artifact[q] = n.artifact[q]
    <3> TAKE q \in RunId
    <3>1. rows.artifact[q] \in BOOLEAN /\ rows.artifact[q] = mem.s.artifact[q]
      BY <1>4, RowsFields DEF SameRows
    <3>2. n.artifact[q] \in BOOLEAN  BY <1>6, FieldTypes DEF Settled
    <3>3. n.artifact[q] <=> IF q = r THEN FALSE ELSE mem.s.artifact[q]
      BY <1>6 DEF Settled
    <3>4. mem.s.artifact[r] \in BOOLEAN /\ ~mem.s.artifact[r]
      BY <1>4, <1>5, FieldTypes
    <3> QED  BY <2>1, <3>1, <3>2, <3>3, <3>4
  <2> QED  BY <1>10, <2>1, <2>2, <2>3 DEF SettledRows
<1> HIDE DEF x
<1> QED  BY <1>2, <1>6, <1>7, <1>9, <1>11, SettledStored

\* The steps of a goroutine that start and settle nothing.
LEMMA ExecuteStored ==
    ASSUME IInv, TrustInv, StoredInv, Undisturbed, env' = env, NEW r \in RunId,
           Prepare(r) \/ CheckFault(r) \/ Checkpoint(r) \/ Work(r),
           up, up' = up, reading' = reading, last' = last
    PROVE  StoredInv'
<1>1. /\ IsMaps(mem) /\ mem.s \in ServiceStates /\ last \in LastIds
      /\ last.task <= last.task /\ last.run <= last.run
  BY UndisturbedState DEF LastIds
<1>2. CASE mem' = mem /\ rows' = rows /\ legacy' = legacy
  BY <1>1, <1>2, Unwritten
<1>3. CASE CheckFault(r)
  <2> DEFINE F == mem.s.faults \ {agent[r].task}
             n == [mem.s EXCEPT !.faults = F]
             G == legacy.s.faults
  <2>1. F \in SUBSET TaskId  BY <1>1, FieldTypes
  <2>2. n \in ServiceStates  BY <1>1, <2>1, FaultFields
  <2>3. n.faults = F  BY <1>1, ZenonT(60) DEF ServiceStates
  <2>4. [n EXCEPT !.faults = G] = [mem.s EXCEPT !.faults = G]
    BY <1>1, ZenonT(60) DEF ServiceStates
  <2>5. /\ mem' = [mem EXCEPT !.s = n] /\ rows' = rows /\ legacy' = legacy
    BY <1>3 DEF CheckFault
  <2>6. /\ rows = RowsOf(mem) /\ legacy = [mem EXCEPT !.s.faults = G]
        /\ mem.s.faults \subseteq G
    BY DEF StoredInv, Stored
  <2>7. F \subseteq G  BY <2>6
  <2>8. [mem EXCEPT !.s.faults = F] = [mem EXCEPT !.s = n]  OBVIOUS
  <2>9. [mem EXCEPT !.s.faults = G] = [mem EXCEPT !.s = [mem.s EXCEPT !.faults = G]]
    OBVIOUS
  <2> HIDE DEF n, F, G
  <2>10. IsMaps(mem') /\ mem'.s = n  BY <1>1, <2>2, <2>5, MapsWithState
  <2>11. RowsOf(mem') = RowsOf(mem)
    <3>1. mem'.s.faults = F  BY <2>3, <2>10
    <3>2. mem' = [mem EXCEPT !.s.faults = mem'.s.faults]
      BY <2>5, <2>8, <3>1
    <3> QED  BY <1>1, <3>2, StoredFields
  <2>12. [mem' EXCEPT !.s.faults = G] = legacy
    <3> DEFINE g == [mem.s EXCEPT !.faults = G]
    <3>1. [mem' EXCEPT !.s.faults = G] = [mem' EXCEPT !.s = g]  BY <2>4, <2>10
    <3>2. legacy = [mem EXCEPT !.s = g]  BY <2>6, <2>9
    <3> HIDE DEF g
    <3>3. [[mem EXCEPT !.s = n] EXCEPT !.s = g] = [mem EXCEPT !.s = g]
      BY <1>1, ZenonT(60) DEF IsMaps
    <3> QED  BY <2>5, <3>1, <3>2, <3>3
  <2>13. Stored(mem', rows', legacy')
    <3>1. rows' = RowsOf(mem')  BY <2>5, <2>6, <2>11
    <3>2. legacy' = [mem' EXCEPT !.s.faults = legacy'.s.faults]
      BY <2>5, <2>12 DEF G
    <3>3. mem'.s.faults \subseteq legacy'.s.faults
      BY <2>3, <2>5, <2>7, <2>10 DEF G
    <3> QED  BY <3>1, <3>2, <3>3 DEF Stored
  <2> QED  BY <2>5, <2>13 DEF StoredInv
<1>4. CASE Checkpoint(r)
  <2> DEFINE active == ActiveOverrides(mem.s, mem.s.runTask[r], {})
             Applied(o) == [mem EXCEPT !.s = ApplyOverrideEffect(@, o)]
  <2>1. ASSUME NEW o \in active, Persist(Applied(o))
        PROVE  StoredInv'
    <3> DEFINE n == ApplyOverrideEffect(mem.s, o)
    <3>1. Live(r)  BY <1>4 DEF Live, Checkpoint
    <3>2. mem.s.runTask[r] \in TaskId  BY <3>1, LiveRun
    <3>3. o \in OverrideId /\ mem.s.ovTask[o] \in TaskId
      BY <3>2 DEF ActiveOverrides
    <3>4. n \in ServiceStates  BY <1>1, <3>3, ApplyOverrideFields
    <3>5. Persist([mem EXCEPT !.s = n])  BY <2>1
    <3> HIDE DEF n
    <3> QED  BY <1>1, <3>4, <3>5, PersistStateStored
  <2> QED  BY <1>2, <1>4, <2>1 DEF Checkpoint, Persist
<1> QED  BY <1>2, <1>3, <1>4 DEF Prepare, Work

\* A document whose tables are stored is loaded as it was saved.
LEMMA LoadStored ==
    ASSUME NEW m, IsMaps(m), NEW l \in LastIds, Ordered(m, l)
    PROVE  loadServiceStateProjection(RowsOf(m), m) = m
<1> DEFINE s == m.s
           at == loadOrder(PositionsOf(m.taskOrder, TaskId))
           rt == loadOrder(PositionsOf(m.runOrder, RunId))
<1>1. s \in ServiceStates  BY MapsFields
<1>2. at = m.taskOrder /\ rt = m.runOrder
  <2>1. /\ MaxTasks \in Nat /\ MaxRuns \in Nat
        /\ l.task \in 0..MaxTasks /\ l.run \in 0..MaxRuns
    BY BoundsAssumption DEF LastIds
  <2>2. Order(m.taskOrder, l.task) /\ Order(m.runOrder, l.run)  BY DEF Ordered
  <2> QED  BY <2>1, <2>2, LoadOrderOf DEF TaskId, RunId
<1>3. loadServiceStateProjection(RowsOf(m), m)
        = [m EXCEPT !.projects = m.projects,
                    !.s = [s EXCEPT !.reqs = s.reqs, !.plans = s.plans,
                                    !.contracts = s.contracts,
                                    !.status = s.status, !.task = s.task,
                                    !.run = s.run, !.runTask = s.runTask,
                                    !.artifact = s.artifact],
                    !.taskOrder = at, !.runOrder = rt]
  BY DEF loadServiceStateProjection, RowsOf
<1> HIDE DEF s, at, rt
<1>4. [s EXCEPT !.reqs = s.reqs, !.plans = s.plans, !.contracts = s.contracts,
                !.status = s.status, !.task = s.task, !.run = s.run,
                !.runTask = s.runTask, !.artifact = s.artifact] = s
  BY <1>1, ZenonT(60) DEF ServiceStates
<1>5. [m EXCEPT !.projects = m.projects, !.s = m.s, !.taskOrder = m.taskOrder,
                !.runOrder = m.runOrder] = m
  BY ZenonT(60) DEF IsMaps
<1> QED  BY <1>2, <1>3, <1>4, <1>5 DEF s

\* Empty tables count as tables that were never filled.
LEMMA BlankHasNoData == ~hasProjectionData(RowsOf(Blank))
<1>1. /\ RowsOf(Blank).projects = {} /\ RowsOf(Blank).reqs = 0
      /\ RowsOf(Blank).plans = <<>> /\ RowsOf(Blank).contracts = <<>>
  BY ZenonT(30) DEF RowsOf, Blank, EmptyState
<1>2. /\ \A t \in TaskId : RowsOf(Blank).status[t] = "ABSENT"
      /\ \A r \in RunId : /\ RowsOf(Blank).run[r] = "ABSENT"
                          /\ ~RowsOf(Blank).artifact[r]
  BY BlankFields DEF SameRows
<1>3. ~(0 > 0)  OBVIOUS
<1> QED  BY <1>1, <1>2, <1>3, Zenon DEF hasProjectionData

\* New.
LEMMA BootStored ==
    ASSUME IInv, StoredInv, Undisturbed, env' = env, Boot
    PROVE  StoredInv'
<1>1. /\ ~up /\ up' = TRUE /\ legacy' = legacy /\ reading' = reading
      /\ last' = last
  BY DEF Boot
<1>2. IsMaps(legacy) /\ last \in LastIds  BY DEF IInv, Copies
<1>3. /\ reading.kind = "none" /\ Ordered(legacy, last)
      /\ rows \in {RowsOf(legacy), RowsOf(Blank)}
  BY <1>1 DEF StoredInv
<1>4. /\ mem' = LoadState
      /\ rows' = IF hasProjectionData(rows) THEN rows ELSE RowsOf(legacy)
  BY UndisturbedFacts DEF Boot
<1>5. mem' = legacy /\ rows' = RowsOf(legacy)
  <2>1. CASE ~hasProjectionData(rows)  BY <1>4, <2>1 DEF LoadState
  <2>2. CASE hasProjectionData(rows)
    <3>1. rows = RowsOf(legacy)  BY <1>3, <2>2, BlankHasNoData
    <3>2. mem' = loadServiceStateProjection(RowsOf(legacy), legacy)
      BY <1>4, <2>2, <3>1 DEF LoadState
    <3> QED  BY <1>2, <1>3, <1>4, <2>2, <3>1, <3>2, LoadStored
  <2> QED  BY <2>1, <2>2
<1>6. Stored(mem', rows', legacy')  BY <1>1, <1>2, <1>5, StoredSame
<1> QED  BY <1>1, <1>3, <1>6 DEF StoredInv

\* The process stops: the tables are those of the document.
LEMMA CrashStored ==
    ASSUME IInv, StoredInv, Undisturbed, env' = env, Crash
    PROVE  StoredInv'
<1>1. /\ up /\ up' = FALSE /\ reading' = NoRead
      /\ rows' = rows /\ legacy' = legacy /\ last' = last
  BY DEF Crash
<1>2. /\ IsMaps(mem) /\ rows = RowsOf(mem)  BY <1>1, UndisturbedState
<1>3. /\ legacy = [mem EXCEPT !.s.faults = legacy.s.faults]
      /\ Ordered(legacy, last)
  BY <1>1 DEF StoredInv, Stored
<1>4. rows = RowsOf(legacy)  BY <1>2, <1>3, StoredFields
<1> QED  BY <1>1, <1>3, <1>4, BlankFields DEF StoredInv

\* The initial states.
LEMMA InitStored == Init => StoredInv
<1> SUFFICES ASSUME Init PROVE StoredInv  OBVIOUS
<1>1. rows = RowsOf(Blank) /\ up = FALSE /\ reading = NoRead  BY DEF Init
<1>2. Ordered(legacy, last)
  <2>1. Order(<<>>, 0)  BY DEF Order
  <2>2. Order(<<1>>, 1)  BY DEF Order
  <2>3. CASE /\ legacy = Blank
             /\ last = [task |-> 0, run |-> 0, override |-> 0, projects |-> {}]
    <3>1. legacy.taskOrder = <<>> /\ legacy.runOrder = <<>>
      BY <2>3, ZenonT(30) DEF Blank
    <3>2. last.task = 0 /\ last.run = 0  BY <2>3
    <3> QED  BY <2>1, <3>1, <3>2 DEF Ordered
  <2>4. CASE /\ legacy = OldDocument
             /\ last = [task |-> 1, run |-> 0, override |-> 0,
                        projects |-> {"main"}]
    <3>1. legacy.taskOrder = <<1>> /\ legacy.runOrder = <<>>
      BY <2>4, ZenonT(30) DEF OldDocument
    <3>2. last.task = 1 /\ last.run = 0  BY <2>4
    <3> QED  BY <2>1, <2>2, <3>1, <3>2 DEF Ordered
  <2> QED  BY <2>3, <2>4 DEF Init
<1> QED  BY <1>1, <1>2, BlankFields DEF StoredInv

\* One step.
LEMMA NextStored ==
    ASSUME IInv, TrustInv, StoredInv, [Next]_vars
    PROVE  StoredInv'
<1>1. CASE UNCHANGED vars
  BY <1>1 DEF vars, StoredInv, Undisturbed, Stored, Ordered
<1>2. CASE Next
  <2>1. env' = env  BY <1>2 DEF Next
  <2> SUFFICES ASSUME Undisturbed PROVE StoredInv'
    BY <2>1 DEF StoredInv, Undisturbed
  <2>2. CASE Boot  BY <2>1, <2>2, BootStored
  <2>3. CASE Crash  BY <2>1, <2>3, CrashStored
  <2>4. CASE RepositoryHandler
    BY <2>1, <2>4, DocumentStored, TasksStored, StartRunsStored
       DEF RepositoryHandler
  <2>5. CASE PersistingHandler  BY <2>1, <2>5, PersistingStored
  <2>6. ASSUME NEW kind \in ReadKind, NEW r \in RunId, StartRead(kind, r)
        PROVE  FALSE
    BY <2>6, UndisturbedFacts DEF StartRead
  <2>7. CASE FinishRead
    <3>1. reading.kind = "none"  BY DEF StoredInv
    <3> QED
      BY <2>7, <3>1 DEF FinishRead, FinishListProjects, FinishListRequirements,
         FinishListTasks, FinishGetRunStatus, FinishExportDelivery,
         FinishGetArtifact
  <2>8. ASSUME NEW r \in RunId, AgentStep(r)
        PROVE  StoredInv'
    <3>1. up /\ up' = up /\ reading' = reading /\ last' = last
      BY <2>8 DEF AgentStep
    <3>2. CASE Prepare(r) \/ CheckFault(r) \/ Checkpoint(r) \/ Work(r)
      BY <2>1, <3>1, <3>2, ExecuteStored
    <3>3. CASE CompleteRun(r)  BY <2>1, <3>1, <3>3, CompleteRunStored
    <3>4. CASE FailRun(r)  BY <2>1, <3>1, <3>4, FailRunStored
    <3> QED  BY <2>8, <3>2, <3>3, <3>4 DEF AgentStep
  <2> QED  BY <1>2, <2>2, <2>3, <2>4, <2>5, <2>6, <2>7, <2>8 DEF Next
<1> QED  BY <1>1, <1>2

\* MapsAreStored: where the maps can be saved and loaded, sandboxes are created
\* and nobody reads, failing transactions, failing runtimes and stops of the
\* process leave no trace: the tables, positions included, are what
\* saveServiceStateProjection would write for the maps now, and the document
\* differs at most in faults that a goroutine has used up.
THEOREM NothingIsLost == Spec => []MapsAreStored
<1>1. IInv /\ TrustInv /\ StoredInv /\ [Next]_vars => StoredInv'
  BY NextStored
<1>2. StoredInv => MapsAreStored
  BY DEF StoredInv, MapsAreStored, Undisturbed, Stored
<1> QED  BY <1>1, <1>2, InitStored, Invariance, PTL DEF Spec

=============================================================================
