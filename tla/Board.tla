------------------------------- MODULE Board --------------------------------
(***************************************************************************)
(* What the service promises to a client that watches the tasks and runs   *)
(* of a project: entries appear, make progress and settle.  A task or a    *)
(* run that has settled keeps its outcome, a run never changes its task,   *)
(* a task never changes what it is, and nothing is worked on before the    *)
(* tasks it depends on are done.                                           *)
(*                                                                         *)
(* One step may move many entries, and each of them by several stages: a   *)
(* client of a store that was not written for a while sees such steps.     *)
(***************************************************************************)
CONSTANTS TaskIds, RunIds

VARIABLES status, task, run, runTask

boardVars == <<status, task, run, runTask>>

Working == {"IN_PROGRESS", "HUMAN_OVERRIDE"}

\* The stages that an entry can reach from a stage.
TaskMayBecome(old, new) ==
    \/ new = old
    \/ old = "ABSENT"
    \/ old = "CREATED" /\ new # "ABSENT"
    \/ old \in Working /\ new \in Working \cup {"DONE", "FAILED"}

RunMayBecome(old, new) ==
    \/ new = old
    \/ old = "ABSENT"
    \/ old = "RUNNING" /\ new \in {"SUCCEEDED", "FAILED"}

\* Every run is of a task whose dependencies are done, and the two agree on
\* how the work stands.
Coherent(st, tk, rn, rt) ==
    \A r \in RunIds : rn[r] # "ABSENT" =>
        /\ rt[r] \in TaskIds
        /\ \A d \in tk[rt[r]].deps : st[d] = "DONE"
        /\ rn[r] = "RUNNING" <=> st[rt[r]] \in Working
        /\ rn[r] = "SUCCEEDED" <=> st[rt[r]] = "DONE"
        /\ rn[r] = "FAILED" <=> st[rt[r]] = "FAILED"

Init ==
    /\ \A t \in TaskIds : status[t] = "ABSENT"
    /\ \A r \in RunIds : run[r] = "ABSENT"

Next ==
    /\ \A t \in TaskIds :
         /\ TaskMayBecome(status[t], status'[t])
         /\ status[t] # "ABSENT" => task'[t] = task[t]
    /\ \A r \in RunIds :
         /\ RunMayBecome(run[r], run'[r])
         /\ run[r] # "ABSENT" => runTask'[r] = runTask[r]
    /\ Coherent(status', task', run', runTask')

Spec == Init /\ [][Next]_boardVars
=============================================================================
