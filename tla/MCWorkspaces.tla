---------------------------- MODULE MCWorkspaces ----------------------------
(***************************************************************************)
(* Workspaces for TLC.                                                     *)
(***************************************************************************)
EXTENDS Workspaces

AnyRebased == \E s \in SandboxId : writing[s] > 0

NoneFailed == \A s \in SandboxId : maps[s].status # "FAILED"

Calm == NoneFailed /\ \A s \in SandboxId : tree[s] # "edited"

\* The regions that are explored: two rebases of few sandboxes, a rebase and
\* a rollback, also with a failure while all else is calm, and merges and
\* rollbacks of more sandboxes that nobody rebases.
Regions ==
    \/ lastId <= 2 /\ snaps = <<>>
    \/ lastId <= 3 /\ Len(snaps) <= 2 /\ <<0, 2>> \notin main /\ (faults = 0 \/ Calm)
    \/ ~AnyRebased /\ NoneFailed /\ <<0, 2>> \notin main /\ faults = 0
=============================================================================
