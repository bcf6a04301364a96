-------------------------- MODULE MCAdvisoryLocks ---------------------------
(***************************************************************************)
(* AdvisoryLocks for TLC: instance "a" has two handlers that can swap      *)
(* their sessions and a reader that makes a session surplus; the handlers  *)
(* of the other instances compete with them for the lock.                  *)
(***************************************************************************)
EXTENDS AdvisoryLocks

MCWriters == [p \in Proc |-> IF p = "a" THEN 2 ELSE 1]
MCReaders == [p \in Proc |-> IF p = "a" THEN 1 ELSE 0]
=============================================================================
