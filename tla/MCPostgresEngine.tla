-------------------------- MODULE MCPostgresEngine --------------------------
(***************************************************************************)
(* PostgresEngine for TLC, in five environments.                           *)
(***************************************************************************)
EXTENDS PostgresEngine

Environment(faults, reads) == [faults |-> faults, reads |-> reads]

Stormy    == Environment(Fault \ {"load"}, {"export", "download"})
Stopping  == Environment({"tx", "runtime", "crash"}, {})
Healthy   == Environment({"runtime"}, {})
Reading   == Environment({}, ReadKind)
Forgetful == Environment({"load", "crash"}, {})

MCEnvironments == {Stormy, Stopping, Healthy, Reading, Forgetful}

\* How far each environment is explored: two runs, of the dispatched pipeline
\* of four tasks where only transactions, runtimes and the process fail, of two
\* tasks where everything fails, of one task beside every kind of read.
Regions ==
    LET small == mem.s.contracts = <<>> /\ mem.s.faults = {} /\ last.override = 0
    IN  \/ env = Stormy /\ last.task <= 2 /\ mem.s.contracts = <<>>
        \/ env = Stopping /\ mem.s.faults = {} /\ last.override = 0
        \/ env = Healthy
        \/ env \in {Reading, Forgetful} /\ last.task <= 1 /\ small
=============================================================================
