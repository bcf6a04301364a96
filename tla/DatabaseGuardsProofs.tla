------------------------- MODULE DatabaseGuardsProofs -------------------------
(***************************************************************************)
(* What the service asks of the database besides its state: the advisory   *)
(* lock of a project (AdvisoryLocks) and the keys of idempotent requests   *)
(* (Idempotency).                                                          *)
(***************************************************************************)
(***************************************************************************)
(* AdvisoryLocks, for any instances, any number of handlers and readers in *)
(* each of them, and lock ids of any width. The argument counts: as long   *)
(* as no session was closed with the lock, the lock is held once for every *)
(* handler that is inside, by whichever handler's session; as long as no   *)
(* unlock was lost, it is not held more often.                             *)
(***************************************************************************)
EXTENDS AdvisoryLocks, Idempotency, FiniteSetTheorems, TLAPS

-----------------------------------------------------------------------------
(***************************************************************************)
(* The inductive invariant.                                                *)
(***************************************************************************)
Label == {"start", "lock", "locked", "work", "worked", "unlock", "read",
          "done", "failed"}

\* A request is at a statement, and has a session for it.
AtStatement == {"lock", "work", "unlock", "read"}

\* A pool hands out the sessions of its own instance.
Pool ==
    /\ idle \in [Proc -> Seq(Sessions)]
    /\ \A p \in Proc : idle[p] \in Seq(Session(p))
    /\ conn \in [Requests -> Sessions \cup {NoSession}]
    /\ pc \in [Requests -> Label]
    /\ \A q \in Requests : pc[q] \in AtStatement => conn[q] \in Session(q[1])

Held ==
    /\ holder \in Sessions \cup {NoSession}
    /\ depth \in Nat
    /\ holder = NoSession <=> depth = 0

\* No handler is inside for which the lock is not held once.
Covered ==
    "closed" \notin mishaps =>
        /\ \A q \in Inside : holder # NoSession /\ holder[1] = q[1]
        /\ Cardinality(Inside) <= depth

\* The lock is not held without a handler that will release it.
NoSurplus ==
    mishaps \cap {"missed", "cancelled"} = {} => depth <= Cardinality(Inside)

IInv ==
    /\ Pool
    /\ Held
    /\ IsFiniteSet(Inside)
    /\ Covered
    /\ NoSurplus

-----------------------------------------------------------------------------
(***************************************************************************)
(* Requests and sessions.                                                  *)
(***************************************************************************)
\* The requests of an instance are numbered without gaps.
LEMMA RequestsNumbered ==
    ASSUME NEW q
    PROVE  q \in Requests <=>
               \E p \in Proc : \E i \in 1 .. Writers[p] + Readers[p] : q = <<p, i>>
<1>1. ASSUME NEW p \in Proc, NEW i
      PROVE  i \in 1 .. Writers[p] + Readers[p] <=>
                 \/ i \in 1 .. Writers[p]
                 \/ i \in Writers[p] + 1 .. Writers[p] + Readers[p]
  BY LocksAssumption
<1>2. q \in Writer <=> \E p \in Proc : \E i \in 1 .. Writers[p] : q = <<p, i>>
  BY DEF Writer
<1>3. q \in Reader <=> \E p \in Proc :
          \E i \in Writers[p] + 1 .. Writers[p] + Readers[p] : q = <<p, i>>
  BY DEF Reader
<1> QED
  BY <1>1, <1>2, <1>3 DEF Requests

LEMMA RequestInstance ==
    ASSUME NEW q \in Requests
    PROVE  q[1] \in Proc
BY RequestsNumbered

LEMMA WritersRequest == Writer \subseteq Requests
BY DEF Requests

LEMMA ReadersRequest == Reader \subseteq Requests
BY DEF Requests

\* No request is both.
LEMMA ReadersDoNotWrite ==
    ASSUME NEW r \in Reader
    PROVE  r \notin Writer
<1>1. PICK p \in Proc :
          \E i \in Writers[p] + 1 .. Writers[p] + Readers[p] : r = <<p, i>>
  BY DEF Reader
<1>2. ASSUME NEW x \in Proc, NEW j \in 1 .. Writers[x], r = <<x, j>>
      PROVE  FALSE
  BY <1>1, <1>2, LocksAssumption
<1> QED
  BY <1>2 DEF Writer

\* A session says of which instance it is.
LEMMA SessionInstance ==
    ASSUME NEW p \in Proc, NEW c \in Session(p)
    PROVE  c \in Sessions /\ c[1] = p /\ c # NoSession
<1>1. c \in Sessions
  BY DEF Sessions
<1>2. PICK i \in 1 .. Writers[p] + Readers[p] + MaxIdle : c = <<p, i>>
  BY DEF Session
<1>3. c # NoSession
  <2>1. Len(<<p, i>>) = 2 /\ Len(<<>>) = 0
    OBVIOUS
  <2> QED
    BY <1>2, <2>1 DEF NoSession
<1> QED
  BY <1>1, <1>2, <1>3

LEMMA SessionsAre ==
    ASSUME NEW p \in Proc
    PROVE  Session(p) \subseteq Sessions
BY DEF Sessions

\* An instance has a session for every request and MaxIdle more: when no session
\* is idle, the pool can open one that no request uses.
LEMMA FreshExists ==
    ASSUME NEW p \in Proc, idle[p] = <<>>, Pool
    PROVE  Fresh(p) \in Session(p)
<1> DEFINE n == Writers[p] + Readers[p]
           f == [i \in 1 .. n |-> conn[<<p, i>>]]
           g == [i \in 1 .. n + MaxIdle |-> <<p, i>>]
<1>1. n \in Nat /\ n + MaxIdle \in Nat
  BY LocksAssumption DEF MaxIdle
<1>2. InUse(p) = {conn[<<p, i>>] : i \in 1 .. n}
  <2>1. {x \in Requests : x[1] = p} = {<<p, i>> : i \in 1 .. n}
    BY RequestsNumbered
  <2> QED
    BY <2>1 DEF InUse
<1>3. f \in Surjection(1 .. n, InUse(p))
  BY <1>2 DEF Surjection
<1>4. IsFiniteSet(1 .. n) /\ Cardinality(1 .. n) = n
  BY <1>1, FS_Interval
<1>5. IsFiniteSet(InUse(p)) /\ Cardinality(InUse(p)) <= n
  BY <1>3, <1>4, FS_Surjection
<1>6. g \in Bijection(1 .. n + MaxIdle, Session(p))
  <2>1. g \in [1 .. n + MaxIdle -> Session(p)]
    BY DEF Session
  <2>2. \A i, j \in 1 .. n + MaxIdle : g[i] = g[j] => i = j
    OBVIOUS
  <2>3. \A c \in Session(p) : \E i \in 1 .. n + MaxIdle : g[i] = c
    BY DEF Session
  <2> HIDE DEF g
  <2>4. g \in Injection(1 .. n + MaxIdle, Session(p))
    BY <2>1, <2>2 DEF Injection, IsInjective
  <2>5. g \in Surjection(1 .. n + MaxIdle, Session(p))
    BY <2>1, <2>3 DEF Surjection
  <2> QED
    BY <2>4, <2>5 DEF Bijection
<1>7. IsFiniteSet(Session(p)) /\ Cardinality(Session(p)) = n + MaxIdle
  <2>1. IsFiniteSet(1 .. n + MaxIdle) /\ Cardinality(1 .. n + MaxIdle) = n + MaxIdle
    BY <1>1, FS_Interval
  <2> QED
    BY <1>6, <2>1, FS_Bijection DEF ExistsBijection
<1>8. Cardinality(InUse(p)) \in Nat
  BY <1>5, FS_CardinalityType
<1>9. \E c \in Session(p) : c \notin InUse(p)
  <2>1. SUFFICES ASSUME Session(p) \subseteq InUse(p)
                 PROVE  FALSE
    OBVIOUS
  <2>2. Cardinality(Session(p)) <= Cardinality(InUse(p))
    BY <1>5, <2>1, FS_Subset
  <2> QED
    BY <1>1, <1>5, <1>7, <1>8, <2>2 DEF MaxIdle
<1>10. Range(idle[p]) = {}
  BY DEF Range
<1> QED
  BY <1>9, <1>10 DEF Fresh

-----------------------------------------------------------------------------
(***************************************************************************)
(* The pool: a statement starts with Checkout and ends with Putback or     *)
(* with a closed session.                                                  *)
(***************************************************************************)
LEMMA CheckoutKeepsPool ==
    ASSUME Pool, NEW q \in Requests, NEW l \in Label, Checkout(q), To(q, l)
    PROVE  Pool'
<1> DEFINE p == q[1]
<1>1. p \in Proc
  BY RequestInstance
<1>2. CASE idle[p] # <<>>
  <2>1. /\ Last(idle[p]) \in Session(p)
        /\ Front(idle[p]) \in Seq(Session(p))
    BY <1>1, <1>2 DEF Pool, Last, Front
  <2>2. /\ conn' = [conn EXCEPT ![q] = Last(idle[p])]
        /\ idle' = [idle EXCEPT ![p] = Front(idle[p])]
    BY <1>2 DEF Checkout
  <2>3. Front(idle[p]) \in Seq(Sessions) /\ Last(idle[p]) \in Sessions
    BY <1>1, <2>1, SessionsAre
  <2> QED
    BY <1>1, <2>1, <2>2, <2>3 DEF Pool, To
<1>3. CASE idle[p] = <<>>
  <2>1. Fresh(p) \in Session(p) /\ Fresh(p) \in Sessions
    BY <1>1, <1>3, FreshExists, SessionsAre
  <2>2. conn' = [conn EXCEPT ![q] = Fresh(p)] /\ idle' = idle
    BY <1>3 DEF Checkout
  <2> QED
    BY <2>1, <2>2 DEF Pool, To
<1> QED
  BY <1>2, <1>3

LEMMA PutbackKeepsPool ==
    ASSUME Pool, NEW q \in Requests, pc[q] \in AtStatement,
           NEW l \in Label \ AtStatement, Putback(q), To(q, l)
    PROVE  Pool'
<1> DEFINE p == q[1]
<1>1. p \in Proc
  BY RequestInstance
<1>2. Append(idle[p], conn[q]) \in Seq(Session(p))
  BY <1>1 DEF Pool
<1>3. Append(idle[p], conn[q]) \in Seq(Sessions)
  BY <1>1, <1>2, SessionsAre
<1> QED
  BY <1>1, <1>2, <1>3 DEF Pool, Putback, To

LEMMA CloseKeepsPool ==
    ASSUME Pool, NEW q \in Requests, NEW l \in Label \ AtStatement, To(q, l),
           conn' = [conn EXCEPT ![q] = NoSession] \/ conn' = conn, idle' = idle
    PROVE  Pool'
BY DEF Pool, To

-----------------------------------------------------------------------------
(***************************************************************************)
(* The handlers inside.                                                    *)
(***************************************************************************)
Within == {"locked", "work", "worked", "unlock"}

LEMMA SameInside ==
    ASSUME Pool, NEW q \in Requests, NEW l, To(q, l),
           q \notin Writer \/ (pc[q] \in Within <=> l \in Within)
    PROVE  Inside' = Inside
BY DEF Pool, Inside, Within, To, Requests

LEMMA Enters ==
    ASSUME Pool, IsFiniteSet(Inside), NEW q \in Writer, NEW l \in Within, To(q, l),
           pc[q] \notin Within
    PROVE  /\ Inside' = Inside \cup {q}
           /\ IsFiniteSet(Inside')
           /\ Cardinality(Inside) \in Nat
           /\ Cardinality(Inside') = Cardinality(Inside) + 1
<1>1. Inside' = Inside \cup {q} /\ q \notin Inside
  BY DEF Pool, Inside, Within, To, Requests
<1> QED
  BY <1>1, FS_AddElement, FS_CardinalityType

LEMMA Leaves ==
    ASSUME Pool, IsFiniteSet(Inside), NEW q \in Writer, NEW l, l \notin Within,
           To(q, l), pc[q] \in Within
    PROVE  /\ Inside' = Inside \ {q}
           /\ IsFiniteSet(Inside')
           /\ q \in Inside
           /\ Cardinality(Inside) \in Nat
           /\ Cardinality(Inside') \in Nat
           /\ Cardinality(Inside') = Cardinality(Inside) - 1
<1>1. Inside' = Inside \ {q} /\ q \in Inside
  BY DEF Pool, Inside, Within, To, Requests
<1> QED
  BY <1>1, FS_RemoveElement, FS_CardinalityType

-----------------------------------------------------------------------------
(***************************************************************************)
(* What the steps do to the lock.                                          *)
(***************************************************************************)
Lock == Held /\ IsFiniteSet(Inside) /\ Covered /\ NoSurplus

LEMMA LockUntouched ==
    ASSUME Lock, Inside' = Inside, UNCHANGED <<holder, depth, mishaps>>
    PROVE  Lock'
BY DEF Lock, Held, Covered, NoSurplus

\* A statement that leaves the lock alone; its session may be surplus, and closing
\* it may release the lock.
LEMMA StatementKeepsLock ==
    ASSUME Pool, Lock, NEW q \in Requests, pc[q] \in AtStatement,
           Inside' = Inside, Settle(q, holder, depth, {})
    PROVE  Lock'
<1>1. Cardinality(Inside) \in Nat
  BY FS_CardinalityType DEF Lock
<1>2. CASE holder = conn[q] /\ ~Kept(q[1])
  <2>1. holder' = NoSession /\ depth' = 0
    BY <1>2 DEF Settle
  <2>2. conn[q] # NoSession
    BY RequestInstance, SessionInstance DEF Pool
  <2>3. depth > 0
    BY <1>2, <2>2 DEF Lock, Held
  <2>4. "closed" \in mishaps'
    BY <1>2, <2>3 DEF Settle
  <2> QED
    BY <1>1, <2>1, <2>4 DEF Lock, Held, Covered, NoSurplus
<1>3. CASE ~(holder = conn[q] /\ ~Kept(q[1]))
  <2>1. mishaps' = mishaps /\ depth' = depth /\ holder' = holder
    BY <1>3 DEF Settle, Lock, Held
  <2> QED
    BY <2>1, LockUntouched
<1> QED
  BY <1>2, <1>3

\* The lock is granted to the first handler, or once more to the session of
\* another handler of the same instance.
LEMMA GrantKeepsLock ==
    ASSUME Pool, Lock, NEW q \in Writer, Grant(q)
    PROVE  Lock'
<1>1. /\ Inside' = Inside \cup {q}
      /\ IsFiniteSet(Inside')
      /\ Cardinality(Inside) \in Nat
      /\ Cardinality(Inside') = Cardinality(Inside) + 1
  BY Enters DEF Grant, Within, Lock
<1>2. conn[q] \in Sessions /\ conn[q][1] = q[1] /\ conn[q] # NoSession
  BY WritersRequest, RequestInstance, SessionInstance DEF Pool, Grant, AtStatement
<1>3. depth \in Nat /\ (holder = NoSession <=> depth = 0)
  BY DEF Lock, Held
<1>4. CASE Kept(q[1])
  <2>1. holder' = conn[q] /\ depth' = depth + 1 /\ mishaps' = mishaps
    BY <1>3, <1>4 DEF Grant, Settle
  <2>2. Held'
    BY <1>2, <1>3, <2>1 DEF Held
  <2>3. Covered'
    <3>1. SUFFICES ASSUME "closed" \notin mishaps
                   PROVE  /\ \A x \in Inside' : conn[q][1] = x[1]
                          /\ Cardinality(Inside') <= depth + 1
      BY <1>2, <2>1 DEF Covered
    <3>2. ASSUME NEW x \in Inside
          PROVE  conn[q][1] = x[1]
      BY <3>1 DEF Lock, Covered, Grant, Granted
    <3> QED
      BY <1>1, <1>2, <1>3, <3>1, <3>2 DEF Lock, Covered
  <2>4. NoSurplus'
    BY <1>1, <1>3, <2>1 DEF Lock, NoSurplus
  <2> QED
    BY <1>1, <2>2, <2>3, <2>4 DEF Lock
<1>5. CASE ~Kept(q[1])
  <2>1. holder' = NoSession /\ depth' = 0 /\ "closed" \in mishaps'
    BY <1>3, <1>5 DEF Grant, Settle
  <2> QED
    BY <1>1, <2>1 DEF Lock, Held, Covered, NoSurplus
<1> QED
  BY <1>4, <1>5

\* A cancelled statement closes its session.
LEMMA AbortKeepsLock ==
    ASSUME Pool, Lock, NEW q \in Requests, pc[q] \in AtStatement,
           Inside' = Inside, Abort(q, {})
    PROVE  Lock'
<1>1. Cardinality(Inside) \in Nat
  BY FS_CardinalityType DEF Lock
<1>2. CASE holder = conn[q]
  <2>1. holder' = NoSession /\ depth' = 0 /\ "closed" \in mishaps'
    BY <1>2 DEF Abort
  <2> QED
    BY <1>1, <2>1 DEF Lock, Held, Covered, NoSurplus
<1>3. CASE holder # conn[q]
  BY <1>3, LockUntouched DEF Abort
<1> QED
  BY <1>2, <1>3

\* An unlock that does not happen leaves the lock held once too often.
LEMMA CancelledKeepsLock ==
    ASSUME Pool, Lock, NEW q \in Writer, pc[q] = "worked", To(q, "done"),
           mishaps' = mishaps \cup {"cancelled"}, UNCHANGED <<holder, depth>>
    PROVE  Lock'
<1>1. /\ Inside' = Inside \ {q}
      /\ IsFiniteSet(Inside')
      /\ Cardinality(Inside) \in Nat
      /\ Cardinality(Inside') \in Nat
      /\ Cardinality(Inside') = Cardinality(Inside) - 1
  BY Leaves DEF Within, Lock
<1>2. Covered'
  BY <1>1 DEF Lock, Held, Covered
<1>3. NoSurplus'
  BY DEF NoSurplus
<1> QED
  BY <1>1, <1>2, <1>3 DEF Lock, Held

\* An unlock gives back what one handler took, not what this handler took.
LEMMA UnlockKeepsLock ==
    ASSUME Pool, Lock, NEW q \in Writer, UnlockRuns(q)
    PROVE  Lock'
<1>1. /\ Inside' = Inside \ {q}
      /\ IsFiniteSet(Inside')
      /\ q \in Inside
      /\ Cardinality(Inside) \in Nat
      /\ Cardinality(Inside') \in Nat
      /\ Cardinality(Inside') = Cardinality(Inside) - 1
  BY Leaves DEF UnlockRuns, Within, Lock
<1>2. conn[q] # NoSession
  BY WritersRequest, RequestInstance, SessionInstance
  DEF Pool, UnlockRuns, AtStatement
<1>3. depth \in Nat /\ (holder = NoSession <=> depth = 0)
  BY DEF Lock, Held
<1>4. CASE holder = conn[q] /\ Settle(q, holder, depth - 1, {})
  <2>1. depth > 0 /\ depth - 1 \in Nat
    BY <1>2, <1>3, <1>4
  <2>2. CASE Kept(q[1])
    <3>1. /\ holder' = IF depth - 1 = 0 THEN NoSession ELSE holder
          /\ depth' = depth - 1
          /\ mishaps' = mishaps
      BY <1>4, <2>1, <2>2 DEF Settle
    <3>2. Held'
      BY <1>3, <2>1, <3>1 DEF Lock, Held
    <3>3. Covered'
      <4>1. SUFFICES ASSUME "closed" \notin mishaps
                     PROVE  /\ \A x \in Inside' : holder' # NoSession /\ holder'[1] = x[1]
                            /\ Cardinality(Inside') <= depth'
        BY <3>1 DEF Covered
      <4>2. /\ \A x \in Inside : holder # NoSession /\ holder[1] = x[1]
            /\ Cardinality(Inside) <= depth
        BY <4>1 DEF Lock, Covered
      <4>3. Cardinality(Inside') <= depth'
        BY <1>1, <1>3, <2>1, <3>1, <4>2
      <4>4. ASSUME NEW x \in Inside'
            PROVE  holder' # NoSession /\ holder'[1] = x[1]
        <5>1. Cardinality(Inside') # 0
          BY <1>1, <4>4, FS_EmptySet
        <5>2. depth - 1 # 0
          BY <1>1, <2>1, <3>1, <4>3, <5>1
        <5> QED
          BY <1>1, <3>1, <4>2, <4>4, <5>2
      <4> QED
        BY <4>3, <4>4
    <3>4. NoSurplus'
      BY <1>1, <1>3, <2>1, <3>1 DEF Lock, NoSurplus
    <3> QED
      BY <1>1, <3>2, <3>3, <3>4 DEF Lock
  <2>3. CASE ~Kept(q[1])
    <3>1. /\ holder' = NoSession /\ depth' = 0
          /\ depth - 1 > 0 => "closed" \in mishaps'
          /\ mishaps \subseteq mishaps'
      BY <1>4, <2>3 DEF Settle
    <3>2. Held' /\ NoSurplus'
      BY <1>1, <3>1 DEF Held, NoSurplus
    <3>3. Covered'
      <4>1. SUFFICES ASSUME "closed" \notin mishaps'
                     PROVE  Inside' = {} /\ Cardinality(Inside') <= 0
        BY <3>1 DEF Covered
      <4>2. Cardinality(Inside) <= depth /\ depth = 1
        BY <1>3, <2>1, <3>1, <4>1 DEF Lock, Covered
      <4>3. Cardinality(Inside') = 0
        BY <1>1, <4>2
      <4> QED
        BY <1>1, <4>3, FS_EmptySet
    <3> QED
      BY <1>1, <3>2, <3>3 DEF Lock
  <2> QED
    BY <2>2, <2>3
<1>5. CASE holder # conn[q] /\ Settle(q, holder, depth, {"missed"})
  <2>1. holder' = holder /\ depth' = depth /\ mishaps' = mishaps \cup {"missed"}
    BY <1>3, <1>5 DEF Settle
  <2>2. Covered'
    BY <1>1, <1>3, <2>1 DEF Lock, Covered
  <2> QED
    BY <1>1, <2>1, <2>2 DEF Lock, Held, NoSurplus
<1>6. CASE Abort(q, {"cancelled"})
  <2>1. CASE holder = conn[q]
    <3>1. holder' = NoSession /\ depth' = 0 /\ "closed" \in mishaps'
      BY <1>6, <2>1 DEF Abort
    <3> QED
      BY <1>1, <3>1 DEF Lock, Held, Covered, NoSurplus
  <2>2. CASE holder # conn[q]
    <3>1. holder' = holder /\ depth' = depth /\ mishaps' = mishaps \cup {"cancelled"}
      BY <1>6, <2>2 DEF Abort
    <3>2. Covered'
      BY <1>1, <1>3, <3>1 DEF Lock, Covered
    <3> QED
      BY <1>1, <3>1, <3>2 DEF Lock, Held, NoSurplus
  <2> QED
    BY <2>1, <2>2
<1> QED
  BY <1>4, <1>5, <1>6 DEF UnlockRuns

-----------------------------------------------------------------------------
(***************************************************************************)
(* The invariant holds.                                                    *)
(***************************************************************************)
LEMMA InitInv == Init => IInv
<1> SUFFICES ASSUME Init
             PROVE  IInv
  OBVIOUS
<1>1. Pool
  BY DEF Init, Pool, Label, AtStatement
<1>2. Inside = {}
  BY WritersRequest DEF Init, Inside
<1>3. IsFiniteSet({}) /\ Cardinality({}) = 0
  BY FS_EmptySet
<1> QED
  BY <1>1, <1>2, <1>3 DEF IInv, Init, Held, Covered, NoSurplus

\* A statement that begins.
LEMMA BeginsStep ==
    ASSUME IInv, NEW q \in Requests, NEW l \in AtStatement, Checkout(q), To(q, l),
           q \notin Writer \/ (pc[q] \in Within <=> l \in Within),
           UNCHANGED <<holder, depth, mishaps>>
    PROVE  IInv'
<1>1. Pool /\ Lock
  BY DEF IInv, Lock
<1>2. Pool'
  BY <1>1, CheckoutKeepsPool DEF AtStatement, Label
<1>3. Inside' = Inside
  BY <1>1, SameInside
<1>4. Lock'
  BY <1>1, <1>3, LockUntouched
<1> QED
  BY <1>2, <1>4 DEF IInv, Lock

\* A statement that ends without having touched the lock.
LEMMA EndsStep ==
    ASSUME IInv, NEW q \in Requests, pc[q] \in AtStatement,
           NEW l \in Label \ AtStatement, To(q, l),
           q \notin Writer \/ (pc[q] \in Within <=> l \in Within),
           Settle(q, holder, depth, {}) \/ Abort(q, {})
    PROVE  IInv'
<1>1. Pool /\ Lock
  BY DEF IInv, Lock
<1>2. Inside' = Inside
  BY <1>1, SameInside
<1>3. CASE Settle(q, holder, depth, {})
  <2>1. Pool'
    BY <1>1, <1>3, PutbackKeepsPool DEF Settle
  <2>2. Lock'
    BY <1>1, <1>2, <1>3, StatementKeepsLock
  <2> QED
    BY <2>1, <2>2 DEF IInv, Lock
<1>4. CASE Abort(q, {})
  <2>1. Pool'
    BY <1>1, <1>4, CloseKeepsPool DEF Abort
  <2>2. Lock'
    BY <1>1, <1>2, <1>4, AbortKeepsLock
  <2> QED
    BY <2>1, <2>2 DEF IInv, Lock
<1> QED
  BY <1>3, <1>4

LEMMA GrantStep ==
    ASSUME IInv, NEW q \in Writer, Grant(q)
    PROVE  IInv'
<1>1. Pool /\ Lock /\ q \in Requests
  BY WritersRequest DEF IInv, Lock
<1>2. Pool'
  BY <1>1, PutbackKeepsPool DEF Grant, Settle, AtStatement, Label
<1>3. Lock'
  BY <1>1, GrantKeepsLock
<1> QED
  BY <1>2, <1>3 DEF IInv, Lock

LEMMA UnlockStep ==
    ASSUME IInv, NEW q \in Writer, UnlockProject(q)
    PROVE  IInv'
<1>1. Pool /\ Lock /\ q \in Requests
  BY WritersRequest DEF IInv, Lock
<1>2. CASE pc[q] = "worked" /\ q \notin gone /\ Unlock(q)
  BY <1>1, <1>2, BeginsStep DEF Unlock, AtStatement, Within
<1>3. CASE pc[q] = "worked" /\ q \in gone /\ Unlock(q)
  <2>1. /\ To(q, "done") /\ mishaps' = mishaps \cup {"cancelled"}
        /\ UNCHANGED <<conn, idle, holder, depth>>
    BY <1>3 DEF Unlock
  <2>2. Pool'
    BY <1>1, <2>1, CloseKeepsPool DEF Label, AtStatement
  <2>3. Lock'
    BY <1>1, <1>3, <2>1, CancelledKeepsLock
  <2> QED
    BY <2>2, <2>3 DEF IInv, Lock
<1>4. CASE UnlockRuns(q)
  <2>1. pc[q] \in AtStatement /\ "done" \in Label \ AtStatement /\ To(q, "done")
    BY <1>4 DEF UnlockRuns, AtStatement, Label
  <2>2. \/ Putback(q)
        \/ conn' = [conn EXCEPT ![q] = NoSession] /\ idle' = idle
    BY <1>4 DEF UnlockRuns, Settle, Abort
  <2>3. Pool'
    BY <1>1, <2>1, <2>2, PutbackKeepsPool, CloseKeepsPool
  <2>4. Lock'
    BY <1>1, <1>4, UnlockKeepsLock
  <2> QED
    BY <2>3, <2>4 DEF IInv, Lock
<1> QED
  BY <1>2, <1>3, <1>4 DEF UnlockProject, Unlock

LEMMA OthersStep ==
    ASSUME IInv, UNCHANGED <<idle, conn, holder, depth, pc, mishaps>>
    PROVE  IInv'
BY DEF IInv, Pool, Held, Covered, NoSurplus, Inside

LEMMA NextInv == IInv /\ [Next]_vars => IInv'
<1> SUFFICES ASSUME IInv, [Next]_vars
             PROVE  IInv'
  OBVIOUS
<1>1. ASSUME NEW q \in Writer, LockProject(q)
      PROVE  IInv'
  BY <1>1, WritersRequest, BeginsStep DEF LockProject, AtStatement, Within
<1>2. ASSUME NEW q \in Writer, Grant(q)
      PROVE  IInv'
  BY <1>2, GrantStep
<1>3. ASSUME NEW q \in Writer, LockFails(q)
      PROVE  IInv'
  BY <1>3, WritersRequest, EndsStep DEF LockFails, AtStatement, Label, Within
<1>4. ASSUME NEW q \in Writer, Begin(q)
      PROVE  IInv'
  BY <1>4, WritersRequest, BeginsStep DEF Begin, AtStatement, Within
<1>5. ASSUME NEW q \in Writer, Finish(q)
      PROVE  IInv'
  BY <1>5, WritersRequest, EndsStep DEF Finish, AtStatement, Label, Within
<1>6. ASSUME NEW q \in Writer, UnlockProject(q)
      PROVE  IInv'
  BY <1>6, UnlockStep
<1>7. ASSUME NEW q \in Writer, Disconnect(q)
      PROVE  IInv'
  BY <1>7, OthersStep DEF Disconnect
<1>8. ASSUME NEW r \in Reader, Read(r)
      PROVE  IInv'
  <2>1. r \in Requests /\ r \notin Writer
    BY ReadersRequest, ReadersDoNotWrite
  <2>2. CASE Checkout(r) /\ To(r, "read") /\ UNCHANGED <<holder, depth, mishaps>>
    BY <2>1, <2>2, BeginsStep DEF AtStatement
  <2>3. CASE pc[r] = "read" /\ Settle(r, holder, depth, {}) /\ To(r, "done")
    BY <2>1, <2>3, EndsStep DEF AtStatement, Label
  <2> QED
    BY <1>8, <2>2, <2>3 DEF Read
<1>9. CASE UNCHANGED vars
  BY <1>9, OthersStep DEF vars
<1> QED
  BY <1>1, <1>2, <1>3, <1>4, <1>5, <1>6, <1>7, <1>8, <1>9 DEF Next, Handler

LEMMA InvHoldsExactly == IInv => LockHeldExactly
<1> SUFFICES ASSUME IInv
             PROVE  LockHeldExactly
  OBVIOUS
<1>1. LockCoversWork
  BY DEF IInv, Covered, LockCoversWork
<1>2. UnlockReleases
  <2>1. SUFFICES ASSUME mishaps \cap {"missed", "cancelled"} = {},
                        \A q \in Writer : pc[q] \in {"start", "done", "failed"}
                 PROVE  holder = NoSession
    BY DEF UnlockReleases
  <2>2. Inside = {}
    BY <2>1 DEF Inside
  <2>3. depth <= 0
    BY <2>1, <2>2, FS_EmptySet DEF IInv, NoSurplus
  <2> QED
    BY <2>3 DEF IInv, Held
<1> QED
  BY <1>1, <1>2 DEF LockHeldExactly

-----------------------------------------------------------------------------
\* LockProject and UnlockProject over a pool: for any number of instances,
\* handlers and readers, the lock is held for the instance of every handler that
\* is between its grant and its unlock unless a session was closed with it, and
\* it is free when no handler is under way unless an unlock was lost.
THEOREM LockExact == Spec => []LockHeldExactly
<1>1. Init => IInv
  BY InitInv
<1>2. IInv /\ [Next]_vars => IInv'
  BY NextInv
<1>3. IInv => LockHeldExactly
  BY InvHoldsExactly
<1> QED
  BY <1>1, <1>2, <1>3, PTL DEF Spec

\* The purpose of LockProject: handlers of two instances are not at work on the
\* project at a time, as long as the pool closed no session with the lock.
THEOREM InstancesExclude ==
    Spec => [](\A q, r \in Inside : "closed" \notin mishaps => q[1] = r[1])
<1>1. LockHeldExactly => \A q, r \in Inside : "closed" \notin mishaps => q[1] = r[1]
  BY DEF LockHeldExactly, LockCoversWork
<1> QED
  BY <1>1, LockExact, PTL

-----------------------------------------------------------------------------
(***************************************************************************)
(* Idempotency, for any number of clients and attempts. That an operation  *)
(* is applied at most once, and that "conflict" means applied, rest on     *)
(* three facts that neither states: a client that waits for its answers    *)
(* has at most one request at work, a request gets past the guard only     *)
(* when its key is recorded, and a recorded key is accounted for.          *)
(***************************************************************************)
AttemptTypes ==
    /\ guarded \in BOOLEAN
    /\ header \in [Client -> Header]
    /\ keys \subseteq Client
    /\ at \in [Attempt -> Waiting \cup Answer \cup {"unsent", "lost"}]
    /\ applied \in [Client -> Nat]
    /\ heard \in [Client -> Answer \cup {"nothing"}]
    /\ sent \in [Client -> 0 .. MaxAttempts]
    /\ trouble \in [Client -> SUBSET Trouble]

\* Attempts that were not made are unsent.
SentInOrder == \A a \in Attempt : a[2] > sent[a[1]] => at[a] = "unsent"

\* A client that waits for its answers has one request at work, its latest.
OneAtWork ==
    \A a \in Attempt :
        "overlap" \notin trouble[a[1]] /\ at[a] \in Waiting => a[2] = sent[a[1]]

\* The guard has seen to it that c's operation is applied once.
Protected(c) ==
    guarded /\ header[c] = "key" /\ trouble[c] \cap {"overlap", "guard"} = {}

KeyBeforeEffect ==
    \A c \in Client : Protected(c) =>
        /\ applied[c] <= 1
        /\ applied[c] > 0 => c \in keys
        /\ \A a \in Attempt : a[1] = c =>
             /\ at[a] = "checked" => c \notin keys
             /\ at[a] = "proceed" => c \in keys /\ applied[c] = 0

\* A recorded key belongs to an operation that took effect, or that some
\* handler is still about to perform, or that failed under it.
RecordedMeansApplied ==
    \A c \in keys : \/ applied[c] > 0
                    \/ \E a \in Attempt : a[1] = c /\ at[a] = "proceed"
                    \/ trouble[c] \cap {"operation", "crash"} # {}

\* What an answer says, once it is given, is so.
Truthful(answer, c) ==
    \/ answer = "ok"
    \/ answer = "conflict" /\ trouble[c] \subseteq {"guard"}
    => applied[c] > 0

AnswersTrue ==
    /\ \A a \in Attempt : Truthful(at[a], a[1])
    /\ \A c \in Client : Truthful(heard[c], c)

EffectInv ==
    /\ AttemptTypes /\ SentInOrder /\ OneAtWork /\ KeyBeforeEffect
    /\ RecordedMeansApplied /\ AnswersTrue

-----------------------------------------------------------------------------
LEMMA AttemptParts ==
    ASSUME NEW a \in Attempt
    PROVE  /\ a[1] \in Client /\ a[2] \in 1 .. MaxAttempts
           /\ a = <<a[1], a[2]>>
  BY DEF Attempt

LEMMA SameAttempt ==
    ASSUME NEW a \in Attempt, NEW b \in Attempt, a[1] = b[1], a[2] = b[2]
    PROVE  a = b
  BY AttemptParts

\* No request has been sent at first.
LEMMA InitEffectInv == RequestsInit => EffectInv
  <1> SUFFICES ASSUME RequestsInit PROVE EffectInv
    OBVIOUS
  <1> USE IdempotencyAssumption, AttemptParts
  <1>1. AttemptTypes
    BY DEF RequestsInit, AttemptTypes
  <1>2. SentInOrder /\ OneAtWork
    BY DEF RequestsInit, SentInOrder, OneAtWork, Waiting
  <1>3. KeyBeforeEffect
    BY DEF RequestsInit, KeyBeforeEffect
  <1>4. RecordedMeansApplied
    BY DEF RequestsInit, RecordedMeansApplied
  <1>5. AnswersTrue
    BY DEF RequestsInit, AnswersTrue, Truthful
  <1> QED
    BY <1>1, <1>2, <1>3, <1>4, <1>5 DEF EffectInv

-----------------------------------------------------------------------------
(***************************************************************************)
(* One lemma per action.                                                   *)
(***************************************************************************)
\* A client that sends beside a handler at work is marked with "overlap"; any
\* other has no request at work, and the new one is its latest.
LEMMA SendStep ==
    ASSUME EffectInv, NEW c \in Client, Send(c)
    PROVE  EffectInv'
  <1> DEFINE n == sent[c]
             b == <<c, n + 1>>
  <1> USE IdempotencyAssumption, AttemptParts
  <1>1. /\ n \in Nat /\ n + 1 \in 1 .. MaxAttempts /\ b \in Attempt
        /\ b[1] = c /\ b[2] = n + 1
    BY DEF EffectInv, AttemptTypes, Send, Attempt
  <1>2. /\ at' = [at EXCEPT ![b] = "received"]
        /\ sent' = [sent EXCEPT ![c] = n + 1]
        /\ trouble' \in [Client -> SUBSET Trouble]
        /\ \A d \in Client : /\ d # c => trouble'[d] = trouble[d]
                             /\ trouble[d] \subseteq trouble'[d]
        /\ guarded' = guarded /\ header' = header /\ keys' = keys
        /\ applied' = applied /\ heard' = heard
    BY DEF EffectInv, AttemptTypes, Send, MoveTo, Meets, Trouble
  <1>3. "overlap" \notin trouble'[c] =>
            \A a \in Attempt : a[1] = c => at[a] \notin Waiting
    <2> SUFFICES ASSUME "overlap" \notin trouble'[c],
                        NEW a \in Attempt, a[1] = c, at[a] \in Waiting
                 PROVE  FALSE
      OBVIOUS
    <2>1. a[2] = n
      BY <1>2 DEF EffectInv, OneAtWork
    <2>2. a = <<c, n>> /\ n > 0
      BY <2>1
    <2>3. trouble' = [trouble EXCEPT ![c] = @ \cup {"overlap"}]
      BY <2>2 DEF Send, Meets
    <2> QED
      BY <2>3 DEF EffectInv, AttemptTypes
  <1>4. at[b] = "unsent"
    BY <1>1 DEF EffectInv, SentInOrder
  <1>5. /\ at'[b] = "received"
        /\ \A a \in Attempt : a # b => at'[a] = at[a]
        /\ sent'[c] = n + 1
        /\ \A d \in Client : d # c => sent'[d] = sent[d]
    BY <1>1, <1>2 DEF EffectInv, AttemptTypes
  <1>a. AttemptTypes'
    BY <1>1, <1>2 DEF EffectInv, AttemptTypes, Waiting
  <1>b. SentInOrder'
    <2> SUFFICES ASSUME NEW a \in Attempt, a[2] > sent'[a[1]]
                 PROVE  at'[a] = "unsent"
      BY DEF SentInOrder
    <2>1. CASE a[1] = c
      <3>1. a # b /\ a[2] > sent[c]
        BY <1>1, <1>5, <2>1
      <3> QED
        BY <3>1, <1>5, <2>1 DEF EffectInv, SentInOrder
    <2>2. CASE a[1] # c
      BY <1>1, <1>5, <2>2 DEF EffectInv, SentInOrder
    <2> QED
      BY <2>1, <2>2
  <1>c. OneAtWork'
    <2> SUFFICES ASSUME NEW a \in Attempt, "overlap" \notin trouble'[a[1]],
                        at'[a] \in Waiting
                 PROVE  a[2] = sent'[a[1]]
      BY DEF OneAtWork
    <2>1. CASE a = b
      BY <2>1, <1>1, <1>5
    <2>2. CASE a # b /\ a[1] = c
      BY <2>2, <1>3, <1>5
    <2>3. CASE a # b /\ a[1] # c
      BY <2>3, <1>2, <1>5 DEF EffectInv, OneAtWork
    <2> QED
      BY <2>1, <2>2, <2>3
  <1>d. KeyBeforeEffect'
    <2>1. \A d \in Client : Protected(d)' => Protected(d)
      BY <1>2 DEF Protected
    <2>2. \A a \in Attempt : at'[a] \in {"checked", "proceed"} => at'[a] = at[a]
      BY <1>5
    <2> QED
      BY <2>1, <2>2, <1>2 DEF EffectInv, KeyBeforeEffect
  <1>e. RecordedMeansApplied'
    <2> SUFFICES ASSUME NEW d \in keys
                 PROVE  \/ applied[d] > 0
                        \/ \E a \in Attempt : a[1] = d /\ at'[a] = "proceed"
                        \/ trouble'[d] \cap {"operation", "crash"} # {}
      BY <1>2 DEF RecordedMeansApplied
    <2>1. d \in Client
      BY DEF EffectInv, AttemptTypes
    <2>2. CASE \E a \in Attempt : a[1] = d /\ at[a] = "proceed"
      BY <2>2, <1>4, <1>5
    <2> QED
      BY <2>1, <2>2, <1>2 DEF EffectInv, RecordedMeansApplied
  <1>f. AnswersTrue'
    <2>1. \A d \in Client :
            trouble'[d] \subseteq {"guard"} => trouble[d] \subseteq {"guard"}
      BY <1>2
    <2>2. ASSUME NEW a \in Attempt PROVE Truthful(at[a], a[1])'
      <3>1. CASE a = b
        BY <3>1, <1>5 DEF Truthful
      <3>2. CASE a # b
        <4>1. at'[a] = at[a] /\ applied' = applied /\ Truthful(at[a], a[1])
          BY <3>2, <1>2, <1>5 DEF EffectInv, AnswersTrue
        <4> QED
          BY <4>1, <2>1 DEF Truthful
      <3> QED
        BY <3>1, <3>2
    <2>3. \A d \in Client : Truthful(heard[d], d)'
      BY <2>1, <1>2 DEF EffectInv, AnswersTrue, Truthful
    <2> QED
      BY <2>2, <2>3, Zenon DEF AnswersTrue
  <1> QED
    BY <1>a, <1>b, <1>c, <1>d, <1>e, <1>f DEF EffectInv

\* An answer that is heard is the one that was given; one that is lost says
\* nothing any more.
LEMMA HearStep ==
    ASSUME EffectInv, NEW a \in Attempt, Hear(a)
    PROVE  EffectInv'
  <1> USE IdempotencyAssumption, AttemptParts
  <1>1. /\ at[a] \in Answer \ {"error"}
        /\ guarded' = guarded /\ header' = header /\ keys' = keys
        /\ applied' = applied /\ sent' = sent /\ trouble' = trouble
        /\ \A b \in Attempt : at'[b] = at[b] \/ (b = a /\ at'[b] = "lost")
        /\ \A c \in Client : heard'[c] = heard[c] \/ (c = a[1] /\ heard'[c] = at[a])
    BY DEF EffectInv, AttemptTypes, Hear, MoveTo
  <1>a. AttemptTypes'
    BY <1>1 DEF EffectInv, AttemptTypes, Hear, MoveTo
  <1>2. \A b \in Attempt : at'[b] \in Waiting \cup {"unsent"} <=>
                              at[b] \in Waiting \cup {"unsent"} /\ at'[b] = at[b]
    BY <1>1 DEF Waiting, Answer
  <1>3. at[a] \notin Waiting /\ at[a] # "unsent"
    BY <1>1 DEF Waiting, Answer
  <1>b. SentInOrder'
    BY <1>1, <1>3 DEF EffectInv, SentInOrder
  <1>c. OneAtWork'
    BY <1>1, <1>2 DEF EffectInv, OneAtWork, Waiting
  <1>d. KeyBeforeEffect'
    BY <1>1 DEF EffectInv, KeyBeforeEffect, Protected
  <1>e. RecordedMeansApplied'
    BY <1>1, <1>3 DEF EffectInv, RecordedMeansApplied, Waiting
  <1>f. AnswersTrue'
    BY <1>1 DEF EffectInv, AnswersTrue, Truthful
  <1> QED
    BY <1>a, <1>b, <1>c, <1>d, <1>e, <1>f DEF EffectInv

\* What every step of the handler of a leaves alone.
HandlerStep(a) ==
    /\ at[a] \in Waiting
    /\ at' = [at EXCEPT ![a] = at'[a]]
    /\ at'[a] \in Waiting \cup Answer
    /\ guarded' = guarded /\ header' = header /\ heard' = heard /\ sent' = sent
    /\ trouble' \in [Client -> SUBSET Trouble]
    /\ \A c \in Client : /\ trouble[c] \subseteq trouble'[c]
                         /\ c # a[1] => trouble'[c] = trouble[c]
    /\ applied' \in [Client -> Nat]
    /\ \A c \in Client : /\ applied'[c] >= applied[c]
                         /\ c # a[1] => applied'[c] = applied[c]
    /\ keys' \subseteq Client
    /\ \A c \in Client : c # a[1] => (c \in keys' <=> c \in keys)

\* The handler of a touches what belongs to the client of a; when the parts of
\* the invariant hold for that client again, they hold for all.
LEMMA HandlerKeeps ==
    ASSUME EffectInv, NEW a \in Attempt, HandlerStep(a),
           Protected(a[1])' =>
                /\ applied'[a[1]] <= 1
                /\ applied'[a[1]] > 0 => a[1] \in keys'
                /\ at'[a] = "checked" => a[1] \notin keys'
                /\ at'[a] = "proceed" => a[1] \in keys' /\ applied'[a[1]] = 0,
           a[1] \in keys' => \/ applied'[a[1]] > 0
                             \/ \E b \in Attempt : b[1] = a[1] /\ at'[b] = "proceed"
                             \/ trouble'[a[1]] \cap {"operation", "crash"} # {},
           Truthful(at[a], a[1])'
    PROVE  EffectInv'
  <1> USE IdempotencyAssumption, AttemptParts
  <1>1. \A b \in Attempt : b # a => at'[b] = at[b]
    BY DEF HandlerStep, EffectInv, AttemptTypes
  <1>a. AttemptTypes'
    <2>1. at' \in [Attempt -> Waiting \cup Answer \cup {"unsent", "lost"}]
      BY DEF HandlerStep, EffectInv, AttemptTypes
    <2> QED
      BY <2>1 DEF HandlerStep, EffectInv, AttemptTypes
  <1>b. SentInOrder'
    <2>1. ~(a[2] > sent[a[1]])
      BY DEF HandlerStep, EffectInv, SentInOrder, Waiting
    <2> QED
      BY <2>1, <1>1 DEF HandlerStep, EffectInv, SentInOrder
  <1>c. OneAtWork'
    BY <1>1 DEF HandlerStep, EffectInv, OneAtWork
  <1>d. KeyBeforeEffect'
    <2> SUFFICES ASSUME NEW c \in Client, Protected(c)'
                 PROVE  /\ applied'[c] <= 1
                        /\ applied'[c] > 0 => c \in keys'
                        /\ \A b \in Attempt : b[1] = c =>
                             /\ at'[b] = "checked" => c \notin keys'
                             /\ at'[b] = "proceed" => c \in keys' /\ applied'[c] = 0
      BY DEF KeyBeforeEffect
    <2>1. Protected(c)
      BY DEF HandlerStep, Protected
    <2>2. CASE c # a[1]
      BY <2>1, <2>2, <1>1 DEF HandlerStep, EffectInv, KeyBeforeEffect
    <2>3. CASE c = a[1]
      <3>1. \A b \in Attempt : b[1] = c /\ b # a => at'[b] \notin Waiting
        <4> SUFFICES ASSUME NEW b \in Attempt, b[1] = c, b # a, at'[b] \in Waiting
                     PROVE  FALSE
          OBVIOUS
        <4>1. b[2] = sent[c] /\ a[2] = sent[c]
          BY <2>1, <2>3, <1>1 DEF HandlerStep, EffectInv, OneAtWork, Protected
        <4> QED
          BY <4>1, <2>3, SameAttempt
      <3> QED
        BY <3>1, <2>3 DEF Waiting
    <2> QED
      BY <2>2, <2>3
  <1>e. RecordedMeansApplied'
    <2> SUFFICES ASSUME NEW c \in keys', c # a[1]
                 PROVE  \/ applied'[c] > 0
                        \/ \E b \in Attempt : b[1] = c /\ at'[b] = "proceed"
                        \/ trouble'[c] \cap {"operation", "crash"} # {}
      BY DEF RecordedMeansApplied
    <2>1. c \in Client /\ c \in keys
      BY DEF HandlerStep
    <2>2. CASE \E b \in Attempt : b[1] = c /\ at[b] = "proceed"
      BY <2>2, <1>1
    <2> QED
      BY <2>1, <2>2 DEF HandlerStep, EffectInv, RecordedMeansApplied
  <1>f. AnswersTrue'
    <2>2. ASSUME NEW b \in Attempt
          PROVE  Truthful(at[b], b[1])'
      <3>1. CASE b = a
        BY <3>1
      <3>2. CASE b # a
        <4>1. at'[b] = at[b] /\ Truthful(at[b], b[1])
          BY <3>2, <1>1 DEF EffectInv, AnswersTrue
        <4>2. b[1] \in Client
          OBVIOUS
        <4>3. /\ trouble'[b[1]] \subseteq {"guard"} => trouble[b[1]] \subseteq {"guard"}
              /\ applied[b[1]] > 0 => applied'[b[1]] > 0
          <5>1. /\ trouble[b[1]] \subseteq trouble'[b[1]]
                /\ applied[b[1]] \in Nat /\ applied'[b[1]] \in Nat
                /\ applied'[b[1]] >= applied[b[1]]
            BY <4>2, Zenon DEF HandlerStep, EffectInv, AttemptTypes
          <5> QED
            BY <5>1
        <4> QED
          BY <4>1, <4>3, Zenon DEF Truthful
      <3> QED
        BY <3>1, <3>2
    <2>3. ASSUME NEW c \in Client
          PROVE  Truthful(heard[c], c)'
      <3>1. heard' = heard /\ Truthful(heard[c], c)
        BY DEF HandlerStep, EffectInv, AnswersTrue
      <3>2. /\ trouble'[c] \subseteq {"guard"} => trouble[c] \subseteq {"guard"}
            /\ applied[c] > 0 => applied'[c] > 0
        BY DEF HandlerStep, EffectInv, AttemptTypes
      <3> QED
        BY <3>1, <3>2, Zenon DEF Truthful
    <2> QED
      BY <2>2, <2>3, Zenon DEF AnswersTrue
  <1> QED
    BY <1>a, <1>b, <1>c, <1>d, <1>e, <1>f DEF EffectInv

\* The lookup lets a request through unprotected, or to the record of the key,
\* or refuses it: then the key was recorded by an earlier request, and no other
\* one is at work.
LEMMA CheckStep ==
    ASSUME EffectInv, NEW a \in Attempt, CheckIdempotency(a)
    PROVE  EffectInv'
  <1> DEFINE c == a[1]
  <1> USE IdempotencyAssumption, AttemptParts
  <1>1. /\ at[a] = "received" /\ c \in Client
        /\ guarded' = guarded /\ header' = header /\ heard' = heard /\ sent' = sent
        /\ keys' = keys /\ applied' = applied
    BY DEF CheckIdempotency
  <1>2. \/ MoveTo(a, "invalid") /\ UNCHANGED trouble
        \/ MoveTo(a, "proceed") /\ UNCHANGED trouble /\ (~guarded \/ header[c] = "none")
        \/ MoveTo(a, "proceed") /\ Meets(c, "guard")
        \/ MoveTo(a, "conflict") /\ UNCHANGED trouble /\ c \in keys
        \/ MoveTo(a, "checked") /\ UNCHANGED trouble /\ c \notin keys
    BY DEF CheckIdempotency, LookUp
  <1>3. /\ at' = [at EXCEPT ![a] = at'[a]]
        /\ at'[a] \in {"invalid", "proceed", "conflict", "checked"}
        /\ \A b \in Attempt : b # a => at'[b] = at[b]
    BY <1>2 DEF MoveTo, EffectInv, AttemptTypes
  <1>4. /\ trouble' \in [Client -> SUBSET Trouble]
        /\ \A d \in Client : /\ trouble[d] \subseteq trouble'[d]
                             /\ d # c => trouble'[d] = trouble[d]
    BY <1>2 DEF Meets, EffectInv, AttemptTypes, Trouble
  <1>5. HandlerStep(a)
    BY <1>1, <1>3, <1>4 DEF HandlerStep, Waiting, Answer, EffectInv, AttemptTypes
  <1>6. at'[a] = "proceed" => ~Protected(c)'
    <2>1. at'[a] = "proceed" => ~guarded \/ header[c] = "none" \/ Meets(c, "guard")
      BY <1>2 DEF MoveTo, EffectInv, AttemptTypes
    <2>2. Meets(c, "guard") => "guard" \in trouble'[c]
      BY <1>1 DEF Meets, EffectInv, AttemptTypes
    <2> QED
      BY <1>1, <2>1, <2>2 DEF Protected
  <1>7. Protected(c)' => Protected(c)
    BY <1>1, <1>4 DEF Protected
  <1>8. Protected(c)' =>
                /\ applied'[c] <= 1
                /\ applied'[c] > 0 => c \in keys'
                /\ at'[a] = "checked" => c \notin keys'
                /\ at'[a] = "proceed" => c \in keys' /\ applied'[c] = 0
    <2>1. at'[a] = "checked" => c \notin keys
      BY <1>2 DEF MoveTo, EffectInv, AttemptTypes
    <2> QED
      BY <2>1, <1>1, <1>6, <1>7 DEF EffectInv, KeyBeforeEffect
  <1>9. c \in keys' => \/ applied'[c] > 0
                       \/ \E b \in Attempt : b[1] = c /\ at'[b] = "proceed"
                       \/ trouble'[c] \cap {"operation", "crash"} # {}
    <2> SUFFICES ASSUME c \in keys,
                        ~ \E b \in Attempt : b[1] = c /\ at'[b] = "proceed"
                 PROVE  applied[c] > 0 \/ trouble'[c] \cap {"operation", "crash"} # {}
      BY <1>1
    <2>1. ~ \E b \in Attempt : b[1] = c /\ at[b] = "proceed"
      BY <1>1, <1>3
    <2> QED
      BY <2>1, <1>1, <1>4 DEF EffectInv, RecordedMeansApplied
  <1>10. Truthful(at[a], c)'
    <2>1. CASE at'[a] # "conflict"
      BY <2>1, <1>3 DEF Truthful
    <2>2. CASE at'[a] = "conflict" /\ ~(trouble[c] \subseteq {"guard"})
      BY <2>2, <1>1, <1>4 DEF Truthful
    <2>3. CASE at'[a] = "conflict" /\ trouble[c] \subseteq {"guard"}
      <3>1. c \in keys
        BY <2>3, <1>2 DEF MoveTo, EffectInv, AttemptTypes
      <3>2. ~ \E b \in Attempt : b[1] = c /\ at[b] = "proceed"
        <4> SUFFICES ASSUME NEW b \in Attempt, b[1] = c, at[b] = "proceed"
                     PROVE  FALSE
          OBVIOUS
        <4>1. a[2] = sent[c] /\ b[2] = sent[c]
          BY <2>3, <1>1 DEF EffectInv, OneAtWork, Waiting
        <4> QED
          BY <4>1, <1>1, SameAttempt
      <3>3. trouble[c] \cap {"operation", "crash"} = {}
        BY <2>3
      <3>4. applied'[c] > 0
        BY <3>1, <3>2, <3>3, <1>1 DEF EffectInv, RecordedMeansApplied
      <3> QED
        BY <3>4 DEF Truthful
    <2> QED
      BY <2>1, <2>2, <2>3
  <1> QED
    BY <1>5, <1>8, <1>9, <1>10, HandlerKeeps

\* The record makes the key known before the request goes on.
LEMMA RecordStep ==
    ASSUME EffectInv, NEW a \in Attempt, RecordIdempotency(a)
    PROVE  EffectInv'
  <1> DEFINE c == a[1]
  <1> USE IdempotencyAssumption, AttemptParts
  <1>1. /\ at[a] = "checked" /\ c \in Client
        /\ guarded' = guarded /\ header' = header /\ heard' = heard /\ sent' = sent
        /\ applied' = applied
        /\ at' = [at EXCEPT ![a] = "proceed"] /\ at'[a] = "proceed"
    BY DEF RecordIdempotency, MoveTo, EffectInv, AttemptTypes
  <1>2. \/ keys' = keys \cup {c} /\ UNCHANGED trouble
        \/ UNCHANGED keys /\ Meets(c, "guard")
    BY DEF RecordIdempotency
  <1>3. /\ trouble' \in [Client -> SUBSET Trouble]
        /\ \A d \in Client : /\ trouble[d] \subseteq trouble'[d]
                             /\ d # c => trouble'[d] = trouble[d]
    BY <1>2 DEF Meets, EffectInv, AttemptTypes, Trouble
  <1>4. HandlerStep(a)
    BY <1>1, <1>2, <1>3 DEF HandlerStep, Waiting, EffectInv, AttemptTypes
  <1>5. Protected(c)' => Protected(c) /\ c \in keys'
    <2>1. Protected(c)' => Protected(c)
      BY <1>1, <1>3 DEF Protected
    <2>2. CASE keys' = keys \cup {c}
      BY <2>1, <2>2
    <2>3. CASE Meets(c, "guard")
      <3>1. "guard" \in trouble'[c]
        BY <1>1, <2>3 DEF Meets, EffectInv, AttemptTypes
      <3> QED
        BY <3>1 DEF Protected
    <2> QED
      BY <1>2, <2>1, <2>2, <2>3
  <1>6. Protected(c) => applied[c] = 0
    BY <1>1 DEF EffectInv, KeyBeforeEffect, AttemptTypes
  <1>7. Truthful(at[a], c)'
    BY <1>1 DEF Truthful
  <1> QED
    BY <1>1, <1>4, <1>5, <1>6, <1>7, HandlerKeeps

\* The operation takes effect under a recorded key, or its failure is known.
LEMMA OperateStep ==
    ASSUME EffectInv, NEW a \in Attempt, Operate(a)
    PROVE  EffectInv'
  <1> DEFINE c == a[1]
  <1> USE IdempotencyAssumption, AttemptParts
  <1>1. /\ at[a] = "proceed" /\ c \in Client
        /\ guarded' = guarded /\ header' = header /\ heard' = heard /\ sent' = sent
        /\ keys' = keys
    BY DEF Operate
  <1>2. Protected(c) => c \in keys /\ applied[c] = 0
    BY <1>1 DEF EffectInv, KeyBeforeEffect
  <1>3. CASE /\ applied' = [applied EXCEPT ![c] = @ + 1]
             /\ MoveTo(a, "ok") /\ UNCHANGED trouble
    <2>1. /\ at' = [at EXCEPT ![a] = "ok"] /\ at'[a] = "ok"
          /\ applied'[c] = applied[c] + 1 /\ applied'[c] > 0
      BY <1>1, <1>3 DEF MoveTo, EffectInv, AttemptTypes
    <2>2. HandlerStep(a)
      BY <1>1, <1>3, <2>1 DEF HandlerStep, Waiting, Answer, EffectInv, AttemptTypes
    <2>3. Protected(c)' => Protected(c)
      BY <1>1, <1>3 DEF Protected
    <2>4. Truthful(at[a], c)'
      BY <2>1 DEF Truthful
    <2> QED
      BY <1>1, <1>2, <2>1, <2>2, <2>3, <2>4, HandlerKeeps
  <1>4. CASE MoveTo(a, "error") /\ Meets(c, "operation") /\ UNCHANGED applied
    <2>1. /\ at' = [at EXCEPT ![a] = "error"] /\ at'[a] = "error"
          /\ "operation" \in trouble'[c]
          /\ trouble' \in [Client -> SUBSET Trouble]
          /\ \A d \in Client : /\ trouble[d] \subseteq trouble'[d]
                               /\ d # c => trouble'[d] = trouble[d]
      BY <1>1, <1>4 DEF MoveTo, Meets, EffectInv, AttemptTypes, Trouble
    <2>2. HandlerStep(a)
      BY <1>1, <1>4, <2>1 DEF HandlerStep, Waiting, Answer, EffectInv, AttemptTypes
    <2>3. Protected(c)' => Protected(c)
      BY <1>1, <2>1 DEF Protected
    <2>4. Truthful(at[a], c)'
      BY <2>1 DEF Truthful
    <2> QED
      BY <1>1, <1>2, <1>4, <2>1, <2>2, <2>3, <2>4, HandlerKeeps
  <1> QED
    BY <1>3, <1>4 DEF Operate

\* No request is at work after a stop, and its client knows of an error.
LEMMA CrashStep ==
    ASSUME EffectInv, Crash
    PROVE  EffectInv'
  <1> USE IdempotencyAssumption, AttemptParts
  <1>1. /\ guarded' = guarded /\ header' = header /\ keys' = keys
        /\ applied' = applied /\ heard' = heard /\ sent' = sent
        /\ \A a \in Attempt : at'[a] = IF at[a] \in Waiting THEN "error" ELSE at[a]
        /\ at' \in [Attempt -> Waiting \cup Answer \cup {"unsent", "lost"}]
    BY DEF Crash, EffectInv, AttemptTypes, Answer
  <1>2. /\ trouble' \in [Client -> SUBSET Trouble]
        /\ \A c \in Client : trouble[c] \subseteq trouble'[c]
        /\ \A a \in Attempt : at[a] \in Waiting => "crash" \in trouble'[a[1]]
    BY DEF Crash, EffectInv, AttemptTypes, Trouble
  <1>3. \A a \in Attempt : at'[a] \notin Waiting
    BY <1>1 DEF Waiting
  <1>a. AttemptTypes'
    BY <1>1, <1>2 DEF EffectInv, AttemptTypes
  <1>b. SentInOrder'
    BY <1>1 DEF EffectInv, SentInOrder, Waiting
  <1>c. OneAtWork'
    BY <1>3 DEF OneAtWork
  <1>d. KeyBeforeEffect'
    <2>1. \A c \in Client : Protected(c)' => Protected(c)
      BY <1>1, <1>2 DEF Protected
    <2> QED
      BY <2>1, <1>1, <1>3 DEF EffectInv, KeyBeforeEffect, Waiting
  <1>e. RecordedMeansApplied'
    <2> SUFFICES ASSUME NEW c \in keys
                 PROVE  \/ applied[c] > 0
                        \/ trouble'[c] \cap {"operation", "crash"} # {}
      BY <1>1 DEF RecordedMeansApplied
    <2>1. c \in Client
      BY DEF EffectInv, AttemptTypes
    <2>2. CASE \E a \in Attempt : a[1] = c /\ at[a] = "proceed"
      BY <2>2, <1>2 DEF Waiting
    <2> QED
      BY <2>1, <2>2, <1>2 DEF EffectInv, RecordedMeansApplied
  <1>f. AnswersTrue'
    <2>1. \A a \in Attempt : Truthful(at[a], a[1])'
      <3> SUFFICES ASSUME NEW a \in Attempt PROVE Truthful(at[a], a[1])'
        OBVIOUS
      <3>1. CASE at[a] \in Waiting
        BY <3>1, <1>1 DEF Truthful
      <3>2. CASE at[a] \notin Waiting
        <4>1. at'[a] = at[a] /\ applied' = applied /\ Truthful(at[a], a[1])
          BY <3>2, <1>1 DEF EffectInv, AnswersTrue
        <4>2. trouble'[a[1]] \subseteq {"guard"} => trouble[a[1]] \subseteq {"guard"}
          BY <1>2
        <4> QED
          BY <4>1, <4>2, Zenon DEF Truthful
      <3> QED
        BY <3>1, <3>2
    <2>2. \A c \in Client : Truthful(heard[c], c)'
      BY <1>1, <1>2 DEF EffectInv, AnswersTrue, Truthful
    <2> QED
      BY <2>1, <2>2, Zenon DEF AnswersTrue
  <1> QED
    BY <1>a, <1>b, <1>c, <1>d, <1>e, <1>f DEF EffectInv

-----------------------------------------------------------------------------
LEMMA NextEffectInv == EffectInv /\ [RequestsNext]_requestVars => EffectInv'
  <1> SUFFICES ASSUME EffectInv, [RequestsNext]_requestVars PROVE EffectInv'
    OBVIOUS
  <1>1. CASE UNCHANGED requestVars
    BY <1>1 DEF requestVars, EffectInv, AttemptTypes, SentInOrder, OneAtWork, KeyBeforeEffect,
                Protected, RecordedMeansApplied, AnswersTrue, Truthful
  <1>2. ASSUME NEW c \in Client, Send(c) PROVE EffectInv'
    BY <1>2, SendStep
  <1>3. ASSUME NEW a \in Attempt, Handle(a) PROVE EffectInv'
    BY <1>3, CheckStep, RecordStep, OperateStep DEF Handle
  <1>4. ASSUME NEW a \in Attempt, Hear(a) PROVE EffectInv'
    BY <1>4, HearStep
  <1>5. CASE Crash
    BY <1>5, CrashStep
  <1> QED
    BY <1>1, <1>2, <1>3, <1>4, <1>5 DEF RequestsNext

LEMMA EffectInvariance == RequestsSpec => []EffectInv
  BY InitEffectInv, NextEffectInv, PTL DEF RequestsSpec

\* However many clients retry however often: a guarded operation with a key
\* takes effect at most once, unless it was sent beside itself or a statement
\* of the guard failed.
THEOREM AtMostOnce == RequestsSpec => []AppliedAtMostOnce
  <1>1. EffectInv => AppliedAtMostOnce
    BY DEF EffectInv, KeyBeforeEffect, Protected, AppliedAtMostOnce
  <1> QED
    BY <1>1, EffectInvariance, PTL

\* However many clients retry however often: an "ok" that is heard, or a
\* "conflict" after no more than lost answers and failing statements of the
\* guard, means that the operation took effect.
THEOREM Settled == RequestsSpec => []SettledMeansApplied
  <1>1. EffectInv => SettledMeansApplied
    BY DEF EffectInv, AttemptTypes, AnswersTrue, Truthful, SettledMeansApplied
  <1> QED
    BY <1>1, EffectInvariance, PTL
=============================================================================
