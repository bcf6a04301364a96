---------------------------- MODULE MCRunEngine -----------------------------
(***************************************************************************)
(* RunEngine for TLC.  The configurations give the bounds and say which    *)
(* failures can happen.                                                    *)
(***************************************************************************)
EXTENDS RunEngine, TLC

\* Operators differ only by who they are.
OwnerSymmetry == Permutations(Owners)

\* The two regions that are explored: the dispatched pipeline without people,
\* where a third run follows one that succeeded, beside a second that goes well,
\* and one task with one run whose operators compete for it.
OneTaskOrNoOverrides ==
    \/ /\ last.override = 0
       /\ last.run = MaxRuns =>
            /\ mem.run[1] = "SUCCEEDED"
            /\ \A r \in RunId : mem.run[r] = "SUCCEEDED" \/ Live(r)
    \/ last.task <= 1 /\ last.run <= 1 /\ mem.contracts = <<>>
=============================================================================
