--------------------------- MODULE AdvisoryLocks ---------------------------
(***************************************************************************)
(* The project lock of concurrency.go: pg_advisory_lock, a lock that       *)
(* belongs to a database SESSION, called through *sql.DB, a POOL of        *)
(* sessions.  Several instances of the server share the database.  A       *)
(* handler locks the project, does its work under the mutex of its         *)
(* instance (changing the maps of the instance and replacing all rows by   *)
(* them) and unlocks; each of the three statements runs on whatever        *)
(* session the pool hands out.                                             *)
(***************************************************************************)
EXTENDS Naturals, Sequences, SequencesExt

CONSTANTS
    Proc,         \* the instances of the server
    Writers,      \* Writers[p]: requests of instance p that take the lock
    Readers,      \* Readers[p]: requests of p that only use a session
    LockId,       \* the lock ids that advisoryLockID can give the project
    HalfWidth     \* bits of half a lock id (32 in the code)

ASSUME LocksAssumption ==
    /\ Writers \in [Proc -> Nat] /\ Readers \in [Proc -> Nat]
    /\ HalfWidth \in Nat \ {0}
    /\ LockId \subseteq 0 .. (2^(2 * HalfWidth) - 1)

\* <<p, i>> is the request i of instance p.
Writer == UNION {{p} \X (1 .. Writers[p]) : p \in Proc}
Reader == UNION {{p} \X (Writers[p] + 1 .. Writers[p] + Readers[p]) : p \in Proc}
Requests == Writer \cup Reader

\* database/sql keeps at most two idle connections unless told otherwise,
\* and NewPostgresStore does not set a limit.
MaxIdle == 2

\* Sessions that one instance can have open at a time: one per request.
Session(p) == {p} \X (1 .. Writers[p] + Readers[p] + MaxIdle)

Sessions == UNION {Session(p) : p \in Proc}

NoSession == <<>>

VARIABLES
    idle,    \* idle[p]: db.freeConn, the newest at the end
    conn,    \* conn[q]: the session that request q has checked out
    holder,  \* the session that holds the advisory lock, or NoSession
    depth,   \* how often it holds it
    pc,      \* where request q is
    gone,    \* the requests whose context is cancelled
    mu,      \* mu[p]: the requests inside Service.mu
    lockId,  \* advisoryLockID(advisoryLockProjectSeed, projectID)
    mishaps  \* what the pool did to the lock so far

vars == <<idle, conn, holder, depth, pc, gone, mu, lockId, mishaps>>

\* A session was closed while it held the lock; an unlock ran on a session that
\* did not hold the lock; an unlock did not run because the client had left.
Mishap == {"closed", "missed", "cancelled"}

TypeOK ==
    /\ idle \in [Proc -> Seq(Sessions)]
    /\ conn \in [Requests -> Sessions \cup {NoSession}]
    /\ holder \in Sessions \cup {NoSession}
    /\ depth \in Nat
    /\ pc \in [Requests -> {"start", "lock", "locked", "work", "worked",
                            "unlock", "read", "done", "failed"}]
    /\ gone \subseteq Writer
    /\ mu \in [Proc -> SUBSET Writer]
    /\ lockId \in LockId
    /\ mishaps \subseteq Mishap

Init ==
    /\ idle = [p \in Proc |-> <<>>]
    /\ conn = [q \in Requests |-> NoSession]
    /\ holder = NoSession
    /\ depth = 0
    /\ pc = [q \in Requests |-> "start"]
    /\ gone = {}
    /\ mu = [p \in Proc |-> {}]
    /\ lockId \in LockId
    /\ mishaps = {}

-----------------------------------------------------------------------------
(***************************************************************************)
(* The pool.  Checkout takes the newest idle session or opens one; Putback *)
(* keeps the session unless MaxIdle are idle already.  Closing a session   *)
(* ends it on the server, and with it the locks it held.                   *)
(***************************************************************************)
InUse(p) == {conn[q] : q \in {x \in Requests : x[1] = p}}

Fresh(p) == CHOOSE c \in Session(p) :
                c \notin InUse(p) /\ c \notin Range(idle[p])

Checkout(q) ==
    LET p == q[1]
        reuse == idle[p] # <<>>
    IN  /\ conn[q] = NoSession
        /\ conn' = [conn EXCEPT ![q] = IF reuse THEN Last(idle[p]) ELSE Fresh(p)]
        /\ idle' = IF reuse THEN [idle EXCEPT ![p] = Front(@)] ELSE idle

Kept(p) == Len(idle[p]) < MaxIdle

Putback(q) ==
    /\ conn' = [conn EXCEPT ![q] = NoSession]
    /\ idle' = IF Kept(q[1]) THEN [idle EXCEPT ![q[1]] = Append(@, conn[q])]
                             ELSE idle

\* q's statement left the lock held d times by h, with the mishaps m, and q's
\* session goes back.
Settle(q, h, d, m) ==
    LET closed == h = conn[q] /\ ~Kept(q[1])
    IN  /\ holder' = IF closed \/ d = 0 THEN NoSession ELSE h
        /\ depth' = IF closed THEN 0 ELSE d
        /\ mishaps' = mishaps \cup m \cup IF closed /\ d > 0 THEN {"closed"} ELSE {}
        /\ Putback(q)

\* The context was cancelled while the statement ran: the driver closes the
\* session.
Abort(q, m) ==
    LET held == holder = conn[q]
    IN  /\ q \in gone
        /\ holder' = IF held THEN NoSession ELSE holder
        /\ depth' = IF held THEN 0 ELSE depth
        /\ mishaps' = mishaps \cup IF held THEN {"closed"} ELSE m
        /\ conn' = [conn EXCEPT ![q] = NoSession]
        /\ UNCHANGED idle

To(q, label) == pc' = [pc EXCEPT ![q] = label]

-----------------------------------------------------------------------------
(***************************************************************************)
(* LockProject.  The two halves of the id go to pg_advisory_lock(int4,     *)
(* int4) as int64 values: a half of 2^31 or more is an error of the        *)
(* driver.                                                                 *)
(***************************************************************************)
Fits(half) == half < 2^(HalfWidth - 1)

IdFits == Fits(lockId \div 2^HalfWidth) /\ Fits(lockId % 2^HalfWidth)

LockProject(q) ==
    /\ pc[q] = "start"
    /\ Checkout(q)
    /\ To(q, "lock")
    /\ UNCHANGED <<mishaps, holder, depth, gone, mu, lockId>>

\* Mutation: pg_try_advisory_lock, with its answer ignored.
GrantedAnyway(q) == TRUE

\* A session that holds the lock gets it once more without waiting.
Granted(q) == holder \in {NoSession, conn[q]}

Grant(q) ==
    /\ pc[q] = "lock" /\ IdFits /\ q \notin gone
    /\ Granted(q)
    /\ Settle(q, conn[q], depth + 1, {})
    /\ To(q, "locked")
    /\ UNCHANGED <<gone, mu, lockId>>

LockFails(q) ==
    /\ pc[q] = "lock"
    /\ \/ ~IdFits /\ Settle(q, holder, depth, {})
       \/ Abort(q, {})
    /\ To(q, "failed")
    /\ UNCHANGED <<gone, mu, lockId>>

(***************************************************************************)
(* The work of a handler: under the mutex of its instance it changes the   *)
(* maps and replaces the rows by them, on a session of the pool            *)
(* (context.Background, so a client that left changes nothing).  The       *)
(* deferred calls run in reverse order: the mutex first.                   *)
(***************************************************************************)
Begin(q) ==
    /\ pc[q] = "locked"
    /\ mu[q[1]] = {}
    /\ mu' = [mu EXCEPT ![q[1]] = {q}]
    /\ Checkout(q)
    /\ To(q, "work")
    /\ UNCHANGED <<mishaps, holder, depth, gone, lockId>>

Finish(q) ==
    /\ pc[q] = "work"
    /\ mu' = [mu EXCEPT ![q[1]] = {}]
    /\ Settle(q, holder, depth, {})
    /\ To(q, "worked")
    /\ UNCHANGED <<gone, lockId>>

\* Mutation: the lock is never released.
UnlockProjectNever(q) ==
    /\ pc[q] = "worked"
    /\ To(q, "done")
    /\ UNCHANGED <<conn, idle, holder, depth, gone, mu, lockId, mishaps>>

(***************************************************************************)
(* UnlockProject: on a session that does not hold the lock                 *)
(* pg_advisory_unlock answers false, which is no error.  With a cancelled  *)
(* context database/sql returns before it takes a session.                 *)
(***************************************************************************)
Unlock(q) ==
    \/ /\ pc[q] = "worked" /\ q \notin gone
       /\ Checkout(q)
       /\ To(q, "unlock")
       /\ UNCHANGED <<mishaps, holder, depth, gone, mu, lockId>>
    \/ /\ pc[q] = "worked" /\ q \in gone
       /\ To(q, "done")
       /\ mishaps' = mishaps \cup {"cancelled"}
       /\ UNCHANGED <<conn, idle, holder, depth, gone, mu, lockId>>

UnlockRuns(q) ==
    LET held == holder = conn[q]
    IN  /\ pc[q] = "unlock"
        /\ \/ held /\ Settle(q, holder, depth - 1, {})
           \/ ~held /\ Settle(q, holder, depth, {"missed"})
           \/ Abort(q, {"cancelled"})
        /\ To(q, "done")
        /\ UNCHANGED <<gone, mu, lockId>>

UnlockProject(q) == Unlock(q) \/ UnlockRuns(q)

-----------------------------------------------------------------------------
(***************************************************************************)
(* A request that reads: one statement on a session of the pool.           *)
(***************************************************************************)
Read(r) ==
    \/ /\ pc[r] = "start"
       /\ Checkout(r)
       /\ To(r, "read")
       /\ UNCHANGED <<mishaps, holder, depth, gone, mu, lockId>>
    \/ /\ pc[r] = "read"
       /\ Settle(r, holder, depth, {})
       /\ To(r, "done")
       /\ UNCHANGED <<gone, mu, lockId>>

Disconnect(q) ==
    /\ pc[q] \notin {"start", "done", "failed"}
    /\ q \notin gone
    /\ gone' = gone \cup {q}
    /\ UNCHANGED <<idle, conn, holder, depth, pc, mu, lockId, mishaps>>

Handler(q) ==
    \/ LockProject(q) \/ Grant(q) \/ LockFails(q)
    \/ Begin(q) \/ Finish(q) \/ UnlockProject(q)

Terminated == \A q \in Requests : pc[q] \in {"done", "failed"}

Next ==
    \/ \E q \in Writer : Handler(q) \/ Disconnect(q)
    \/ \E r \in Reader : Read(r)
    \/ Terminated /\ UNCHANGED vars

Spec == Init /\ [][Next]_vars

(***************************************************************************)
(* Postgres runs a statement that can run, and a goroutine that can go on  *)
(* goes on.                                                                *)
(***************************************************************************)
FairSpec ==
    /\ Spec
    /\ \A q \in Writer : WF_vars(Handler(q))
    /\ \A r \in Reader : WF_vars(Read(r))

-----------------------------------------------------------------------------
(***************************************************************************)
(* Properties.  Each says which mishap the promise does not survive.       *)
(***************************************************************************)
Inside == {q \in Writer : pc[q] \in {"locked", "work", "worked", "unlock"}}

\* LockProject: as long as a handler is between its grant and its unlock, a
\* session of its own instance holds the lock, so that no handler of another
\* instance is inside.  The unlock of another handler of the instance, which can
\* run on the session that this handler locked, has not given it away; only a
\* session that was closed while it held the lock has.
LockCoversWork ==
    "closed" \notin mishaps =>
        \A q \in Inside : holder # NoSession /\ holder[1] = q[1]

\* UnlockProject "releases the session-level advisory lock": once no handler is
\* under way, the lock is free, unless an unlock missed the session of the lock
\* or was cancelled.
UnlockReleases ==
    /\ mishaps \cap {"missed", "cancelled"} = {}
    /\ \A q \in Writer : pc[q] \in {"start", "done", "failed"}
    => holder = NoSession

\* The lock is held while somebody needs it, and not longer.
LockHeldExactly == LockCoversWork /\ UnlockReleases

\* Every handler gets its turn and ends, unless an unlock missed the session of
\* the lock or was cancelled: then the others may wait for ever.
EveryHandlerEnds ==
    \A q \in Writer :
        <>(\/ pc[q] \in {"done", "failed"}
           \/ mishaps \cap {"missed", "cancelled"} # {})
=============================================================================
