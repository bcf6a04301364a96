-------------------------- MODULE MigrationsProofs --------------------------
(***************************************************************************)
(* Migrations for any instances and operators, any setup and any number of *)
(* versions and faults: the ledger tells the truth about the schema.  The  *)
(* invariant says of every call under way what it may rely on: a           *)
(* transaction on the versions that it has passed, a call of the manager   *)
(* on the rows below its version.                                          *)
(***************************************************************************)
EXTENDS Migrations, FiniteSetTheorems, TLAPS

-----------------------------------------------------------------------------
(***************************************************************************)
(* The inductive invariant.                                                *)
(***************************************************************************)
NoDown(u) == "down" \notin u.kinds

\* Nobody drops what instances have created.
Lasting(u) == NoDown(u) \/ u.instances = {}

\* Nobody drops what somebody else has created.
Single(u) ==
    \/ NoDown(u)
    \/ u.instances = {} /\ \A q, r \in u.operators : q = r

Place ==
    {<<"idle", 0>>, AtCommit, Ledger}
    \cup {SelectOf(v) : v \in Embedded}
    \cup {Table(v) : v \in Embedded}
    \cup {Row(v) : v \in Embedded}

Tx == [at : Place, made : SUBSET Object, blocked : BOOLEAN]

\* A transaction at this statement is done with version w.
Passed(at, w) ==
    \/ at = AtCommit
    \/ at[1] \in {"select", "table", "row"} /\ w < at[2]

\* In setup u and database d: a transaction inserts rows of embedded versions
\* only, after their tables, and finds or inserts one for every version that it
\* passes.
TxOk(u, d, t) ==
    /\ t \in Tx
    /\ \A v \in Files : Row(v) \in t.made => v \in Embedded
    /\ NoDown(u) => \A v \in Files :
           Row(v) \in t.made \/ t.at = Row(v) =>
               Table(v) \in t.made \/ d[Table(v)] # "none"
    /\ Lasting(u) => \A w \in Embedded :
           Passed(t.at, w) => Row(w) \in t.made \/ d[Row(w)] = "embedded"

OpCall == [pc : {"idle", "ensure", "read", "exec", "record"},
           kind : {"none", "up", "down", "status"},
           applied : SUBSET Files, v : Files \cup {0}, blocked : BOOLEAN]

AtVersion(c) == c.pc \in {"exec", "record"}

\* A call of Up has created the tables that it records, and all rows below its
\* version are there; a call of Down works on the last version.
OpOk(u, d, c) ==
    /\ c \in OpCall
    /\ c.pc # "idle" => c.kind \in u.kinds
    /\ AtVersion(c) => c.v \in Files /\ c.kind \in {"up", "down"}
    /\ c.pc \in {"ensure", "read"} => c.v = 0
    /\ NoDown(u) /\ c.pc = "record" => d[Table(c.v)] # "none"
    /\ Single(u) /\ AtVersion(c) /\ c.kind = "up" =>
           \A w \in Files : w < c.v \/ w \in c.applied => d[Row(w)] # "none"
    /\ Single(u) /\ AtVersion(c) /\ c.kind = "down" =>
           \A w \in Files : d[Row(w)] # "none" => w <= c.v

\* LedgerIsTrue, and rows of the program come from instances.
DbOk(u, d) ==
    /\ u.instances = {} => \A v \in Files : d[Row(v)] # "embedded"
    /\ NoDown(u) => \A v \in Files : d[Row(v)] # "none" => d[Table(v)] # "none"
    /\ Lasting(u) => {v \in Files : d[Row(v)] = "embedded"} \in {{}, Embedded}
    /\ Single(u) => \A v, w \in Files :
           d[Row(v)] # "none" /\ w < v => d[Row(w)] # "none"

IInv ==
    /\ setup \in Setups
    /\ db \in [Object -> Origin]
    /\ tx \in [Instance -> Tx]
    /\ op \in [Operator -> OpCall]
    /\ \A i \in Instance : i \notin setup.instances => tx[i] = Idle
    /\ \A q \in Operator : q \notin setup.operators => op[q] = NoCall
    /\ \A i \in Instance : TxOk(setup, db, tx[i])
    /\ \A q \in Operator : OpOk(setup, db, op[q])
    /\ DbOk(setup, db)

-----------------------------------------------------------------------------
(***************************************************************************)
(* The least and the last of some versions: a set of versions without one  *)
(* would have a smallest subset without one.                               *)
(***************************************************************************)
LEMMA MaxOfFinite ==
    ASSUME NEW S, IsFiniteSet(S), S \subseteq Nat, S # {}
    PROVE  Max(S) \in S /\ \A y \in S : Max(S) >= y
<1> DEFINE HasMax(U) == \E x \in U : \A y \in U : x >= y
           T == {U \in SUBSET S : U # {} /\ ~HasMax(U)}
<1>1. IsWellFoundedOn(StrictSubsetOrdering(S), SUBSET S)
  BY FS_StrictSubsetOrderingWellFounded, FS_FiniteSubsetsOfFinite
<1>2. T = {}
  <2>1. SUFFICES ASSUME T # {}
                 PROVE  FALSE
    OBVIOUS
  <2>2. PICK U \in T : \A V \in T : <<V, U>> \notin StrictSubsetOrdering(S)
    <3>1. T \subseteq SUBSET S
      OBVIOUS
    <3> HIDE DEF T
    <3> QED
      BY <1>1, <2>1, <3>1, WFMin
  <2>3. PICK x \in U : TRUE
    BY <2>2
  <2>4. CASE U = {x}
    BY <2>2, <2>4
  <2>5. CASE U # {x}
    <3> DEFINE V == U \ {x}
    <3>1. V \in SUBSET S /\ V # {} /\ V \subseteq U /\ V # U
      BY <2>2, <2>3, <2>5
    <3>2. <<V, U>> \in StrictSubsetOrdering(S)
      BY <2>2, <3>1 DEF StrictSubsetOrdering
    <3>3. HasMax(V)
      BY <2>2, <3>1, <3>2
    <3>4. PICK m \in V : \A y \in V : m >= y
      BY <3>3
    <3>5. x \in Nat /\ m \in Nat /\ m \in U /\ U \subseteq Nat
      BY <2>2, <2>3, <3>1, <3>4
    <3>6. CASE x >= m
      <4>1. \A y \in U : x >= y
        BY <3>4, <3>5, <3>6
      <4> QED
        BY <2>2, <2>3, <4>1
    <3>7. CASE m >= x
      <4>1. \A y \in U : m >= y
        BY <3>4, <3>5, <3>7
      <4> QED
        BY <2>2, <3>5, <4>1
    <3> QED
      BY <3>5, <3>6, <3>7
  <2> QED
    BY <2>4, <2>5
<1>3. \E x \in S : \A y \in S : x >= y
  BY <1>2
<1> QED
  BY <1>3 DEF Max

LEMMA MinOfFinite ==
    ASSUME NEW S, IsFiniteSet(S), S \subseteq Nat, S # {}
    PROVE  Min(S) \in S /\ \A y \in S : Min(S) <= y
<1> DEFINE HasMin(U) == \E x \in U : \A y \in U : x <= y
           T == {U \in SUBSET S : U # {} /\ ~HasMin(U)}
<1>1. IsWellFoundedOn(StrictSubsetOrdering(S), SUBSET S)
  BY FS_StrictSubsetOrderingWellFounded, FS_FiniteSubsetsOfFinite
<1>2. T = {}
  <2>1. SUFFICES ASSUME T # {}
                 PROVE  FALSE
    OBVIOUS
  <2>2. PICK U \in T : \A V \in T : <<V, U>> \notin StrictSubsetOrdering(S)
    <3>1. T \subseteq SUBSET S
      OBVIOUS
    <3> HIDE DEF T
    <3> QED
      BY <1>1, <2>1, <3>1, WFMin
  <2>3. PICK x \in U : TRUE
    BY <2>2
  <2>4. CASE U = {x}
    BY <2>2, <2>4
  <2>5. CASE U # {x}
    <3> DEFINE V == U \ {x}
    <3>1. V \in SUBSET S /\ V # {} /\ V \subseteq U /\ V # U
      BY <2>2, <2>3, <2>5
    <3>2. <<V, U>> \in StrictSubsetOrdering(S)
      BY <2>2, <3>1 DEF StrictSubsetOrdering
    <3>3. HasMin(V)
      BY <2>2, <3>1, <3>2
    <3>4. PICK m \in V : \A y \in V : m <= y
      BY <3>3
    <3>5. x \in Nat /\ m \in Nat /\ m \in U /\ U \subseteq Nat
      BY <2>2, <2>3, <3>1, <3>4
    <3>6. CASE x <= m
      <4>1. \A y \in U : x <= y
        BY <3>4, <3>5, <3>6
      <4> QED
        BY <2>2, <2>3, <4>1
    <3>7. CASE m <= x
      <4>1. \A y \in U : m <= y
        BY <3>4, <3>5, <3>7
      <4> QED
        BY <2>2, <3>5, <4>1
    <3> QED
      BY <3>5, <3>6, <3>7
  <2> QED
    BY <2>4, <2>5
<1>3. \E x \in S : \A y \in S : x <= y
  BY <1>2
<1> QED
  BY <1>3 DEF Min

\* Any set of versions can be put in order.
LEMMA VersionsFinite ==
    ASSUME NEW S, S \subseteq Files
    PROVE  IsFiniteSet(S) /\ S \subseteq Nat /\ 0 \notin S
BY MigrationsAssumption, FS_Subset

LEMMA Versions ==
    /\ Embedded \subseteq Files
    /\ \A v \in Files : v \in Nat /\ v > 0
    /\ \A v \in Embedded, w \in Files : w < v => w \in Embedded
BY MigrationsAssumption

-----------------------------------------------------------------------------
(***************************************************************************)
(* Objects and places.                                                     *)
(***************************************************************************)
LEMMA ObjectsAre ==
    /\ Ledger \in Object
    /\ \A v \in Files : Table(v) \in Object /\ Row(v) \in Object
    /\ \A v, w : Row(v) = Row(w) => v = w
    /\ \A v, w : Table(v) = Table(w) => v = w
    /\ \A v, w : Row(v) # Table(w)
    /\ \A v : Row(v) # Ledger /\ Table(v) # Ledger
BY DEF Object, Ledger, Table, Row

\* Where a transaction can be, and what that means.
LEMMA Places ==
    ASSUME NEW at \in Place
    PROVE  \/ at = <<"idle", 0>>
           \/ at = AtCommit
           \/ at = Ledger
           \/ \E v \in Embedded : at = SelectOf(v)
           \/ \E v \in Embedded : at = Table(v)
           \/ \E v \in Embedded : at = Row(v)
BY DEF Place

\* The statement after version v is of the next version.
LEMMA AfterPlace ==
    ASSUME NEW v \in Nat
    PROVE  /\ After(v) \in Place
           /\ \A w \in Embedded : Passed(After(v), w) => w <= v
           /\ \A x : After(v) # Row(x)
<1> DEFINE later == {w \in Embedded : w > v}
<1>1. Embedded \subseteq Nat
  BY Versions
<1>2. CASE later = {}
  <2>1. After(v) = AtCommit
    BY <1>2 DEF After
  <2>2. \A w \in Embedded : w <= v
    BY <1>1, <1>2
  <2> QED
    BY <2>1, <2>2 DEF Place, AtCommit, Row
<1>3. CASE later # {}
  <2>1. later \subseteq Files
    BY Versions
  <2>2. Min(later) \in later /\ \A y \in later : Min(later) <= y
    <3> HIDE DEF later
    <3> QED
      BY <1>3, <2>1, VersionsFinite, MinOfFinite
  <2> DEFINE m == Min(later)
  <2>3. After(v) = SelectOf(m) /\ m \in Embedded
    BY <1>3, <2>2 DEF After
  <2> HIDE DEF m
  <2>4. \A w \in Embedded : w < m => w <= v
    <3>1. SUFFICES ASSUME NEW w \in Embedded, w < m, ~(w <= v)
                   PROVE  FALSE
      OBVIOUS
    <3>2. w \in Nat /\ m \in Nat
      BY <1>1, <2>3
    <3>3. w \in later
      BY <3>1, <3>2
    <3>4. m <= w
      BY <2>2, <3>3 DEF m
    <3> QED
      BY <3>1, <3>2, <3>4
  <2>5. \A w : Passed(SelectOf(m), w) => w < m
    BY DEF Passed, SelectOf, AtCommit
  <2>6. \A x : SelectOf(m) # Row(x)
    BY DEF SelectOf, Row
  <2> QED
    BY <2>3, <2>4, <2>5, <2>6 DEF Place
<1> QED
  BY <1>2, <1>3


LEMMA PassedAt ==
    /\ \A w : ~Passed(<<"idle", 0>>, w) /\ ~Passed(Ledger, w)
    /\ \A v, w : Passed(SelectOf(v), w) <=> w < v
    /\ \A v, w : Passed(Table(v), w) <=> w < v
    /\ \A v, w : Passed(Row(v), w) <=> w < v
BY DEF Passed, Ledger, SelectOf, Table, Row, AtCommit

-----------------------------------------------------------------------------
(***************************************************************************)
(* What calls under way rely on, when the database changes.                *)
(***************************************************************************)
Grows(d, e) ==
    /\ \A o \in Object : d[o] # "none" => e[o] # "none"
    /\ \A v \in Files : d[Row(v)] = "embedded" => e[Row(v)] = "embedded"

LEMMA IdleOk ==
    ASSUME NEW u, NEW d
    PROVE  TxOk(u, d, Idle)
<1>1. Idle \in Tx
  BY DEF Idle, Tx, Place
<1>2. Idle.made = {} /\ Idle.at = <<"idle", 0>>
  BY DEF Idle
<1>3. \A v : <<"idle", 0>> # Row(v)
  BY DEF Row
<1> QED
  BY <1>1, <1>2, <1>3, PassedAt DEF TxOk

LEMMA NoCallOk ==
    ASSUME NEW u, NEW d
    PROVE  OpOk(u, d, NoCall)
BY DEF OpOk, NoCall, OpCall, AtVersion

LEMMA TxKept ==
    ASSUME NEW u, NEW d, NEW e, NEW t, TxOk(u, d, t), Grows(d, e)
    PROVE  TxOk(u, e, t)
BY ObjectsAre, Versions DEF TxOk, Grows

LEMMA OpKept ==
    ASSUME NEW u, NEW d, NEW e, NEW c, OpOk(u, d, c), Grows(d, e),
           Single(u) => NoDown(u)
    PROVE  OpOk(u, e, c)
<1>1. c.pc = "record" => c.v \in Files
  BY DEF OpOk, AtVersion
<1>2. AtVersion(c) /\ NoDown(u) => c.kind # "down"
  BY DEF OpOk, AtVersion, NoDown
<1>3. \A w \in Files : d[Row(w)] # "none" => e[Row(w)] # "none"
  BY ObjectsAre DEF Grows
<1>4. \A w \in Files : d[Table(w)] # "none" => e[Table(w)] # "none"
  BY ObjectsAre DEF Grows
<1> QED
  BY <1>1, <1>2, <1>3, <1>4 DEF OpOk

\* Beside others Down may drop anything: nothing is promised to them.
LEMMA TxDisturbed ==
    ASSUME NEW u, NEW d, NEW e, NEW t, TxOk(u, d, t), ~Lasting(u)
    PROVE  TxOk(u, e, t)
BY DEF TxOk, Lasting

LEMMA OpDisturbed ==
    ASSUME NEW u, NEW d, NEW e, NEW c, OpOk(u, d, c), ~Single(u)
    PROVE  OpOk(u, e, c)
BY DEF OpOk, Single

-----------------------------------------------------------------------------
(***************************************************************************)
(* Steps of one instance, and steps of one operator.                       *)
(***************************************************************************)
LEMMA TxStep ==
    ASSUME IInv, NEW i \in Instance, NEW t,
           i \in setup.instances, TxOk(setup, db, t),
           tx' = [tx EXCEPT ![i] = t], UNCHANGED <<setup, db, op>>
    PROVE  IInv'
<1>1. t \in Tx
  BY DEF TxOk
<1>2. tx' \in [Instance -> Tx]
  BY <1>1 DEF IInv
<1>3. \A j \in Instance : TxOk(setup, db, tx'[j])
  BY DEF IInv
<1>4. \A j \in Instance : j \notin setup.instances => tx'[j] = Idle
  BY DEF IInv
<1> QED
  BY <1>2, <1>3, <1>4 DEF IInv

\* The end of a transaction that does not commit.
LEMMA AbortStep ==
    ASSUME IInv, NEW i \in Instance, Abort(i), UNCHANGED <<setup, op>>
    PROVE  IInv'
<1>1. tx' = [tx EXCEPT ![i] = Idle] /\ db' = db
  BY DEF Abort
<1>2. tx' \in [Instance -> Tx]
  BY <1>1, IdleOk DEF IInv, TxOk
<1>3. \A j \in Instance : TxOk(setup, db, tx'[j])
  BY <1>1, IdleOk DEF IInv
<1>4. \A j \in Instance : j \notin setup.instances => tx'[j] = Idle
  BY <1>1 DEF IInv
<1> QED
  BY <1>1, <1>2, <1>3, <1>4 DEF IInv

\* A call of the manager that adds to the database, or leaves it alone.
LEMMA OpStep ==
    ASSUME IInv, NEW q \in Operator, NEW c,
           q \in setup.operators, OpOk(setup, db', c), DbOk(setup, db'),
           db' \in [Object -> Origin], Grows(db, db'),
           op' = [op EXCEPT ![q] = c], UNCHANGED <<setup, tx>>
    PROVE  IInv'
<1>1. c \in OpCall
  BY DEF OpOk
<1>2. op' \in [Operator -> OpCall]
  BY <1>1 DEF IInv
<1>3. \A r \in Operator : r \notin setup.operators => op'[r] = NoCall
  BY DEF IInv
<1>4. ASSUME NEW r \in Operator
      PROVE  OpOk(setup, db', op'[r])
  <2>1. CASE r = q
    BY <2>1 DEF IInv
  <2>2. CASE r # q /\ Single(setup) /\ ~NoDown(setup)
    <3>1. op'[r] = NoCall
      BY <2>2 DEF IInv, Single
    <3> QED
      BY <3>1, NoCallOk
  <2>3. CASE r # q /\ (Single(setup) => NoDown(setup))
    <3>1. op'[r] = op[r] /\ OpOk(setup, db, op[r])
      BY <2>3 DEF IInv
    <3> QED
      BY <2>3, <3>1, OpKept
  <2> QED
    BY <2>1, <2>2, <2>3
<1>5. \A i \in Instance : TxOk(setup, db', tx[i])
  BY TxKept DEF IInv
<1> QED
  BY <1>2, <1>3, <1>4, <1>5 DEF IInv

\* A call of Down that drops something.
LEMMA DownStep ==
    ASSUME IInv, NEW q \in Operator, NEW c,
           q \in setup.operators, ~NoDown(setup),
           OpOk(setup, db', c), DbOk(setup, db'),
           db' \in [Object -> Origin],
           op' = [op EXCEPT ![q] = c], UNCHANGED <<setup, tx>>
    PROVE  IInv'
<1>1. c \in OpCall
  BY DEF OpOk
<1>2. op' \in [Operator -> OpCall]
  BY <1>1 DEF IInv
<1>3. \A r \in Operator : r \notin setup.operators => op'[r] = NoCall
  BY DEF IInv
<1>4. ASSUME NEW r \in Operator
      PROVE  OpOk(setup, db', op'[r])
  <2>1. CASE r = q
    BY <2>1 DEF IInv
  <2>2. CASE r # q /\ Single(setup)
    <3>1. op'[r] = NoCall
      BY <2>2 DEF IInv, Single
    <3> QED
      BY <3>1, NoCallOk
  <2>3. CASE r # q /\ ~Single(setup)
    <3>1. op'[r] = op[r] /\ OpOk(setup, db, op[r])
      BY <2>3 DEF IInv
    <3> QED
      BY <2>3, <3>1, OpDisturbed
  <2> QED
    BY <2>1, <2>2, <2>3
<1>5. ASSUME NEW i \in Instance
      PROVE  TxOk(setup, db', tx[i])
  <2>1. CASE setup.instances = {}
    BY <2>1, IdleOk DEF IInv
  <2>2. CASE setup.instances # {}
    <3>1. ~Lasting(setup)
      BY <2>2 DEF Lasting
    <3> QED
      BY <3>1, TxDisturbed DEF IInv
  <2> QED
    BY <2>1, <2>2
<1> QED
  BY <1>2, <1>3, <1>4, <1>5 DEF IInv

-----------------------------------------------------------------------------
(***************************************************************************)
(* Migrate.                                                                *)
(***************************************************************************)
\* An instance that is at work is of the setup.
LEMMA AtWork ==
    ASSUME IInv, NEW i \in Instance, tx[i].at # <<"idle", 0>>
    PROVE  i \in setup.instances
BY DEF IInv, Idle

\* A transaction that goes on to another statement.
LEMMA MovesOn ==
    ASSUME NEW u, NEW d, NEW t, NEW s, TxOk(u, d, t), s \in Tx, s.made = t.made,
           s.at = t.at \/ \A x : s.at # Row(x),
           Lasting(u) => \A w \in Embedded :
               Passed(s.at, w) => Row(w) \in t.made \/ d[Row(w)] = "embedded"
    PROVE  TxOk(u, d, s)
BY DEF TxOk

LEMMA BeginStep ==
    ASSUME IInv, NEW i \in Instance, MigrateBegin(i)
    PROVE  IInv'
<1> DEFINE s == [tx[i] EXCEPT !.at = Ledger]
<1>1. /\ i \in setup.instances /\ tx[i] = Idle
      /\ tx' = [tx EXCEPT ![i] = s] /\ UNCHANGED <<setup, db, op>>
  BY DEF MigrateBegin
<1>2. tx[i] \in Tx /\ TxOk(setup, db, tx[i])
  BY DEF IInv
<1>3. s \in Tx /\ s.made = tx[i].made /\ s.at = Ledger
  BY <1>2 DEF Tx, Place
<1> HIDE DEF s
<1>4. TxOk(setup, db, s)
  BY <1>2, <1>3, MovesOn, PassedAt, ObjectsAre
<1> QED
  BY <1>1, <1>4, TxStep

LEMMA SelectStep ==
    ASSUME IInv, NEW i \in Instance, MigrateSelect(i)
    PROVE  IInv'
<1>1. tx[i] \in Tx /\ TxOk(setup, db, tx[i])
  BY DEF IInv
<1>2. PICK v \in Embedded : tx[i].at = SelectOf(v)
  <2>1. tx[i].at \in Place /\ tx[i].at[1] = "select"
    BY <1>1 DEF Tx, MigrateSelect
  <2> QED
    BY <2>1, Places DEF AtCommit, Ledger, Table, Row
<1>3. tx[i].at[2] = v /\ i \in setup.instances
  BY <1>2, AtWork DEF SelectOf
<1>4. v \in Files /\ v \in Nat
  BY Versions
<1>5. CASE db[Row(v)] = "none"
  <2> DEFINE s == [tx[i] EXCEPT !.at = Table(v)]
  <2>1. tx' = [tx EXCEPT ![i] = s] /\ UNCHANGED <<setup, db, op>>
    BY <1>3, <1>5 DEF MigrateSelect
  <2>2. s \in Tx /\ s.made = tx[i].made /\ s.at = Table(v)
    BY <1>1 DEF Tx, Place
  <2> HIDE DEF s
  <2>3. \A x : s.at # Row(x)
    BY <2>2, ObjectsAre
  <2>4. Lasting(setup) => \A w \in Embedded :
            Passed(s.at, w) => Row(w) \in tx[i].made \/ db[Row(w)] = "embedded"
    BY <1>1, <1>2, <2>2, PassedAt DEF TxOk
  <2>5. TxOk(setup, db, s)
    BY <1>1, <2>2, <2>3, <2>4, MovesOn
  <2> QED
    BY <1>3, <2>1, <2>5, TxStep
<1>6. CASE db[Row(v)] = "embedded"
  <2> DEFINE s == [tx[i] EXCEPT !.at = After(v)]
  <2>1. tx' = [tx EXCEPT ![i] = s] /\ UNCHANGED <<setup, db, op>>
    BY <1>3, <1>6 DEF MigrateSelect
  <2>2. After(v) \in Place
    BY <1>4, AfterPlace
  <2>3. s \in Tx /\ s.made = tx[i].made /\ s.at = After(v)
    BY <1>1, <2>2 DEF Tx
  <2> HIDE DEF s
  <2>4. \A x : s.at # Row(x)
    BY <1>4, <2>3, AfterPlace
  <2>5. Lasting(setup) => \A w \in Embedded :
            Passed(s.at, w) => Row(w) \in tx[i].made \/ db[Row(w)] = "embedded"
    <3>1. SUFFICES ASSUME Lasting(setup), NEW w \in Embedded, Passed(After(v), w)
                   PROVE  Row(w) \in tx[i].made \/ db[Row(w)] = "embedded"
      BY <2>3
    <3>2. w <= v /\ w \in Nat
      BY <1>4, <3>1, AfterPlace, Versions
    <3>3. CASE w = v
      BY <1>6, <3>3
    <3>4. CASE w < v
      BY <1>1, <1>2, <3>1, <3>4, PassedAt DEF TxOk
    <3> QED
      BY <1>4, <3>2, <3>3, <3>4
  <2>6. TxOk(setup, db, s)
    BY <1>1, <2>3, <2>4, <2>5, MovesOn
  <2> QED
    BY <1>3, <2>1, <2>6, TxStep
<1>7. CASE db[Row(v)] \notin {"none", "embedded"}
  <2>1. Abort(i) /\ UNCHANGED <<setup, op>>
    BY <1>3, <1>7 DEF MigrateSelect
  <2> QED
    BY <2>1, AbortStep
<1> QED
  BY <1>5, <1>6, <1>7

\* The statement that creates o is done: what was made for it is there, and the
\* transaction goes on to the next one.
LEMMA FollowsOk ==
    ASSUME NEW u, NEW d, NEW t, NEW s, TxOk(u, d, t), t.at \in Object, s \in [at : {Follows(t.at)}, made : SUBSET Object, blocked : BOOLEAN],
           \/ s.made = t.made \cup {t.at}
           \/ s.made = t.made /\ t.at[1] # "row" /\ d[t.at] # "none"
    PROVE  TxOk(u, d, s)
<1>1. t.at \in Place /\ t.made \subseteq Object
  BY DEF TxOk, Tx
<1>2. s.at = Follows(t.at) /\ s.made \subseteq Object /\ s.blocked \in BOOLEAN
  OBVIOUS
<1>3. \/ t.at = Ledger
      \/ \E v \in Embedded : t.at = Table(v)
      \/ \E v \in Embedded : t.at = Row(v)
  <2>1. t.at # <<"idle", 0>> /\ t.at # AtCommit /\ \A v : t.at # SelectOf(v)
    BY DEF Object, AtCommit, SelectOf, Ledger, Table, Row
  <2> QED
    BY <1>1, <2>1, Places
<1>4. CASE t.at = Ledger
  <2>1. s.at = After(0)
    BY <1>2, <1>4 DEF Follows, Ledger
  <2>2. s.at \in Place /\ \A x : s.at # Row(x)
    BY <2>1, AfterPlace
  <2>3. \A w \in Embedded : ~Passed(s.at, w)
    <3>1. SUFFICES ASSUME NEW w \in Embedded, Passed(After(0), w)
                   PROVE  FALSE
      BY <2>1
    <3>2. w <= 0 /\ w \in Nat /\ w > 0
      BY <3>1, AfterPlace, Versions
    <3> QED
      BY <3>2
  <2>4. \A v : Row(v) \in s.made <=> Row(v) \in t.made
    BY <1>4, ObjectsAre
  <2>5. t.made \subseteq s.made
    OBVIOUS
  <2>6. s \in Tx
    BY <2>2 DEF Tx
  <2> QED
    BY <2>2, <2>3, <2>4, <2>5, <2>6 DEF TxOk
<1>5. ASSUME NEW v \in Embedded, t.at = Table(v)
      PROVE  TxOk(u, d, s)
  <2>1. s.at = Row(v)
    BY <1>2, <1>5 DEF Follows, Table
  <2>2. s \in Tx
    BY <2>1 DEF Tx, Place
  <2>3. \A x : Row(x) \in s.made <=> Row(x) \in t.made
    BY <1>5, ObjectsAre
  <2>4. t.made \subseteq s.made
    OBVIOUS
  <2>5. Table(v) \in s.made \/ d[Table(v)] # "none"
    BY <1>5
  <2>6. \A x : s.at = Row(x) => x = v
    BY <2>1, ObjectsAre
  <2>7. \A w : Passed(s.at, w) <=> Passed(t.at, w)
    BY <1>5, <2>1, PassedAt
  <2> QED
    BY <2>2, <2>3, <2>4, <2>5, <2>6, <2>7 DEF TxOk
<1>6. ASSUME NEW v \in Embedded, t.at = Row(v)
      PROVE  TxOk(u, d, s)
  <2>1. s.at = After(v) /\ s.made = t.made \cup {Row(v)}
    BY <1>2, <1>6 DEF Follows, Row
  <2>2. v \in Nat /\ v \in Files
    BY Versions
  <2>3. s.at \in Place /\ \A x : s.at # Row(x)
    BY <2>1, <2>2, AfterPlace
  <2>4. s \in Tx
    BY <2>3 DEF Tx
  <2>5. \A x : Row(x) \in s.made <=> Row(x) \in t.made \/ x = v
    BY <2>1, ObjectsAre
  <2>6. \A x : Table(x) \in s.made <=> Table(x) \in t.made
    BY <2>1, ObjectsAre
  <2>7. ASSUME NEW w \in Embedded, Passed(s.at, w)
        PROVE  w = v \/ Passed(t.at, w)
    <3>1. w <= v /\ w \in Nat
      BY <2>1, <2>2, <2>7, AfterPlace, Versions
    <3>2. w = v \/ w < v
      BY <2>2, <3>1
    <3> QED
      BY <1>6, <3>2, PassedAt
  <2> QED
    BY <1>6, <2>3, <2>4, <2>5, <2>6, <2>7 DEF TxOk
<1> QED
  BY <1>3, <1>4, <1>5, <1>6

LEMMA CreateStep ==
    ASSUME IInv, NEW i \in Instance, MigrateCreate(i)
    PROVE  IInv'
<1> DEFINE o == tx[i].at
<1>1. tx[i] \in Tx /\ TxOk(setup, db, tx[i])
  BY DEF IInv
<1>2. o \in Object /\ UNCHANGED <<setup, op, faults>>
  BY DEF MigrateCreate
<1>3. i \in setup.instances
  <2>1. o # <<"idle", 0>>
    BY <1>2 DEF Object, Ledger, Table, Row
  <2> QED
    BY <2>1, AtWork
<1>4. Follows(o) \in Place
  <2> DEFINE s == [at |-> Follows(o), made |-> tx[i].made \cup {o}, blocked |-> FALSE]
  <2>1. s \in [at : {Follows(o)}, made : SUBSET Object, blocked : BOOLEAN]
    BY <1>1, <1>2 DEF Tx
  <2>2. TxOk(setup, db, s)
    BY <1>1, <1>2, <2>1, FollowsOk
  <2> QED
    BY <2>2 DEF TxOk, Tx
<1>5. CASE Exists(o) /\ (tx[i].blocked \/ o[1] = "row")
  BY <1>2, <1>5, AbortStep DEF MigrateCreate
<1>6. CASE Exists(o) /\ ~tx[i].blocked /\ o[1] # "row"
  <2> DEFINE s == [tx[i] EXCEPT !.at = Follows(o)]
  <2>1. tx' = [tx EXCEPT ![i] = s] /\ UNCHANGED <<setup, db, op>>
    BY <1>6 DEF MigrateCreate
  <2>2. /\ s \in [at : {Follows(o)}, made : SUBSET Object, blocked : BOOLEAN]
        /\ s.made = tx[i].made
    BY <1>1 DEF Tx
  <2> HIDE DEF s
  <2>3. TxOk(setup, db, s)
    BY <1>1, <1>2, <1>6, <2>2, FollowsOk DEF Exists
  <2> QED
    BY <1>3, <2>1, <2>3, TxStep
<1>7. CASE ~Exists(o) /\ Held(i, o)
  <2> DEFINE s == [tx[i] EXCEPT !.blocked = TRUE]
  <2>1. tx' = [tx EXCEPT ![i] = s] /\ UNCHANGED <<setup, db, op>>
    BY <1>7 DEF MigrateCreate
  <2>2. s \in Tx /\ s.made = tx[i].made /\ s.at = tx[i].at
    BY <1>1 DEF Tx
  <2> HIDE DEF s
  <2>3. TxOk(setup, db, s)
    BY <1>1, <2>2, MovesOn DEF TxOk
  <2> QED
    BY <1>3, <2>1, <2>3, TxStep
<1>8. CASE ~Exists(o) /\ ~Held(i, o)
  <2> DEFINE s == [at |-> Follows(o), made |-> tx[i].made \cup {o}, blocked |-> FALSE]
  <2>1. tx' = [tx EXCEPT ![i] = s] /\ UNCHANGED <<setup, db, op>>
    BY <1>8 DEF MigrateCreate
  <2>2. /\ s \in [at : {Follows(o)}, made : SUBSET Object, blocked : BOOLEAN]
        /\ s.made = tx[i].made \cup {o}
    BY <1>1, <1>2 DEF Tx
  <2> HIDE DEF s
  <2>3. TxOk(setup, db, s)
    BY <1>1, <1>2, <2>2, FollowsOk
  <2> QED
    BY <1>3, <2>1, <2>3, TxStep
<1> QED
  BY <1>5, <1>6, <1>7, <1>8

\* With the commit of one transaction all embedded versions are recorded, which
\* ever the transaction inserted itself.
LEMMA CommitStep ==
    ASSUME IInv, NEW i \in Instance, MigrateCommit(i)
    PROVE  IInv'
<1> DEFINE m == tx[i].made
<1>1. /\ tx[i].at = AtCommit /\ tx' = [tx EXCEPT ![i] = Idle]
      /\ db' = [o \in Object |-> IF o \in m THEN "embedded" ELSE db[o]]
      /\ UNCHANGED <<setup, op>>
  BY DEF MigrateCommit
<1>2. TxOk(setup, db, tx[i]) /\ m \subseteq Object
  BY DEF IInv, Tx
<1>3. i \in setup.instances
  BY <1>1, AtWork DEF AtCommit
<1>4. db' \in [Object -> Origin]
  BY <1>1 DEF IInv, Origin
<1>5. Grows(db, db')
  BY <1>1, ObjectsAre DEF Grows
<1>6. Single(setup) => NoDown(setup)
  BY <1>3 DEF Single
<1>7. Lasting(setup) => \A v \in Files : db'[Row(v)] = "embedded" <=>
                            v \in Embedded \/ db[Row(v)] = "embedded"
  <2>1. \A w : Passed(AtCommit, w)
    BY DEF Passed
  <2> QED
    BY <1>1, <1>2, <2>1, ObjectsAre, Versions DEF TxOk
<1>8. \A v \in Files : db'[Row(v)] # "none" <=> Row(v) \in m \/ db[Row(v)] # "none"
  BY <1>1, ObjectsAre
<1>9. \A v \in Files : db'[Table(v)] # "none" <=> Table(v) \in m \/ db[Table(v)] # "none"
  BY <1>1, ObjectsAre
<1>10. DbOk(setup, db')
  <2>1. NoDown(setup) =>
            \A v \in Files : db'[Row(v)] # "none" => db'[Table(v)] # "none"
    BY <1>2, <1>8, <1>9 DEF TxOk, IInv, DbOk
  <2>2. Lasting(setup) => {v \in Files : db'[Row(v)] = "embedded"} \in {{}, Embedded}
    <3>1. SUFFICES ASSUME Lasting(setup)
                   PROVE  {v \in Files : db'[Row(v)] = "embedded"} = Embedded
      OBVIOUS
    <3>2. \A v \in Files : db[Row(v)] = "embedded" => v \in Embedded
      BY <3>1 DEF IInv, DbOk
    <3> QED
      BY <1>7, <3>1, <3>2, Versions
  <2>3. Single(setup) => \A v, w \in Files :
            db'[Row(v)] # "none" /\ w < v => db'[Row(w)] # "none"
    <3>1. SUFFICES ASSUME Single(setup), NEW v \in Files, NEW w \in Files,
                          db'[Row(v)] # "none", w < v
                   PROVE  db'[Row(w)] # "none"
      OBVIOUS
    <3>2. CASE Row(v) \in m
      <4>1. v \in Embedded /\ w \in Embedded
        BY <1>2, <3>1, <3>2, Versions DEF TxOk
      <4> QED
        BY <1>6, <1>7, <3>1, <4>1 DEF Lasting
    <3>3. CASE db[Row(v)] # "none"
      BY <1>8, <3>1, <3>3 DEF IInv, DbOk
    <3> QED
      BY <1>8, <3>1, <3>2, <3>3
  <2> QED
    BY <1>3, <2>1, <2>2, <2>3 DEF DbOk
<1>11. tx' \in [Instance -> Tx]
  BY <1>1, IdleOk DEF IInv, TxOk
<1>12. ASSUME NEW j \in Instance
       PROVE  TxOk(setup, db', tx'[j])
  <2>1. TxOk(setup, db, tx'[j])
    BY <1>1, IdleOk DEF IInv
  <2> QED
    BY <1>5, <2>1, TxKept
<1>13. \A q \in Operator : OpOk(setup, db', op[q])
  BY <1>5, <1>6, OpKept DEF IInv
<1>14. \A j \in Instance : j \notin setup.instances => tx'[j] = Idle
  BY <1>1 DEF IInv
<1> QED
  BY <1>1, <1>4, <1>10, <1>11, <1>12, <1>13, <1>14 DEF IInv

LEMMA CheckIdempotencyStep ==
    ASSUME IInv, CheckIdempotency
    PROVE  IInv'
<1>1. PICK v \in Files \ Embedded : db' = [db EXCEPT ![Table(v)] = "embedded"]
  BY DEF CheckIdempotency
<1>2. setup.instances # {} /\ UNCHANGED <<setup, tx, op>>
  BY DEF CheckIdempotency
<1>3. db' \in [Object -> Origin]
  BY <1>1 DEF IInv, Origin
<1>4. \A w \in Files : db'[Row(w)] = db[Row(w)]
  BY <1>1, ObjectsAre DEF IInv
<1>5. \A o \in Object : db[o] # "none" => db'[o] # "none"
  BY <1>1 DEF IInv
<1>6. Grows(db, db')
  BY <1>4, <1>5 DEF Grows
<1>7. DbOk(setup, db')
  <2>1. \A w \in Files : db[Table(w)] # "none" => db'[Table(w)] # "none"
    BY <1>5, ObjectsAre
  <2>2. {w \in Files : db'[Row(w)] = "embedded"} = {w \in Files : db[Row(w)] = "embedded"}
    BY <1>4
  <2> QED
    BY <1>4, <2>1, <2>2 DEF IInv, DbOk
<1>8. Single(setup) => NoDown(setup)
  BY <1>2 DEF Single
<1>9. \A i \in Instance : TxOk(setup, db', tx[i])
  BY <1>6, TxKept DEF IInv
<1>10. \A q \in Operator : OpOk(setup, db', op[q])
  BY <1>6, <1>8, OpKept DEF IInv
<1> QED
  BY <1>2, <1>3, <1>7, <1>9, <1>10 DEF IInv

-----------------------------------------------------------------------------
(***************************************************************************)
(* The manager.                                                            *)
(***************************************************************************)
LEMMA AtCall ==
    ASSUME IInv, NEW q \in Operator, op[q].pc # "idle"
    PROVE  q \in setup.operators
BY DEF IInv, NoCall

LEMMA GrowsSame ==
    ASSUME NEW d
    PROVE  Grows(d, d)
BY DEF Grows

\* Up goes on with the least version that it has not seen a row of: all below
\* have one.
LEMMA NextUpOk ==
    ASSUME NEW u, NEW d, NEW c, c \in OpCall, c.kind = "up", "up" \in u.kinds,
           Single(u) => \A w \in Files :
               w <= c.v \/ w \in c.applied => d[Row(w)] # "none"
    PROVE  OpOk(u, d, NextUp(c))
<1> DEFINE rest == Pending(c.applied, c.v)
<1>1. CASE rest = {}
  <2>1. NextUp(c) = NoCall
    BY <1>1 DEF NextUp
  <2> QED
    BY <2>1, NoCallOk
<1>2. CASE rest # {}
  <2>1. rest \subseteq Files
    BY DEF Pending
  <2>2. Min(rest) \in rest /\ \A y \in rest : Min(rest) <= y
    <3> HIDE DEF rest
    <3> QED
      BY <1>2, <2>1, VersionsFinite, MinOfFinite
  <2> DEFINE v == Min(rest)
             s == [c EXCEPT !.pc = "exec", !.v = v]
  <2>3. NextUp(c) = s
    BY <1>2 DEF NextUp
  <2>4. v \in Files /\ v \in Nat
    BY <2>1, <2>2, Versions
  <2>5. \A w \in Files : w < v => w \notin rest
    BY <2>2, <2>4, Versions
  <2> HIDE DEF v
  <2>6. s \in OpCall /\ s.pc = "exec" /\ s.kind = "up" /\ s.v = v /\ s.applied = c.applied
    BY <2>4 DEF OpCall
  <2> HIDE DEF s
  <2>7. c.v \in Nat
    BY Versions DEF OpCall
  <2>8. ASSUME Single(u), NEW w \in Files, w < v \/ w \in c.applied
        PROVE  d[Row(w)] # "none"
    <3>1. CASE w \in c.applied
      BY <2>8, <3>1
    <3>2. CASE w \notin c.applied
      <4>1. ~(w > c.v)
        BY <2>5, <2>8, <3>2 DEF Pending
      <4>2. w <= c.v
        BY <2>7, <4>1, Versions
      <4> QED
        BY <2>8, <4>2
    <3> QED
      BY <3>1, <3>2
  <2>9. OpOk(u, d, s)
    BY <2>4, <2>6, <2>8 DEF OpOk, AtVersion
  <2> QED
    BY <2>3, <2>9
<1> QED
  BY <1>1, <1>2

LEMMA CallStep ==
    ASSUME IInv, NEW q \in Operator, Call(q)
    PROVE  IInv'
<1>1. PICK kind \in setup.kinds :
          op' = [op EXCEPT ![q] = [NoCall EXCEPT !.pc = "ensure", !.kind = kind]]
  BY DEF Call
<1>2. kind \in {"up", "down", "status"}
  BY MigrationsAssumption DEF IInv
<1> DEFINE c == [NoCall EXCEPT !.pc = "ensure", !.kind = kind]
<1>3. /\ c \in OpCall /\ c.pc = "ensure" /\ c.kind = kind /\ c.v = 0
  BY <1>2 DEF NoCall, OpCall
<1> HIDE DEF c
<1>4. OpOk(setup, db, c)
  BY <1>3 DEF OpOk, AtVersion
<1>5. q \in setup.operators /\ UNCHANGED <<setup, db, tx>>
  BY DEF Call
<1>6. db \in [Object -> Origin] /\ DbOk(setup, db) /\ Grows(db, db)
  BY GrowsSame DEF IInv
<1>7. op' = [op EXCEPT ![q] = c]
  BY <1>1 DEF c
<1> QED
  BY <1>4, <1>5, <1>6, <1>7, OpStep

LEMMA EndStep ==
    ASSUME IInv, NEW q \in Operator, op[q].pc # "idle",
           op' = [op EXCEPT ![q] = NoCall], UNCHANGED <<setup, db, tx>>
    PROVE  IInv'
<1>1. q \in setup.operators
  BY AtCall
<1>2. OpOk(setup, db', NoCall)
  BY NoCallOk
<1>3. db' \in [Object -> Origin] /\ DbOk(setup, db') /\ Grows(db, db')
  BY GrowsSame DEF IInv
<1> QED
  BY <1>1, <1>2, <1>3, OpStep

LEMMA WaitStep ==
    ASSUME IInv, NEW q \in Operator, op[q].pc # "idle",
           op' = [op EXCEPT ![q].blocked = TRUE], UNCHANGED <<setup, db, tx>>
    PROVE  IInv'
<1> DEFINE c == [op[q] EXCEPT !.blocked = TRUE]
<1>1. op[q] \in OpCall /\ OpOk(setup, db, op[q])
  BY DEF IInv
<1>2. c \in OpCall /\ c.pc = op[q].pc /\ c.kind = op[q].kind /\ c.v = op[q].v
      /\ c.applied = op[q].applied
  BY <1>1 DEF OpCall
<1> HIDE DEF c
<1>3. OpOk(setup, db, c)
  BY <1>1, <1>2 DEF OpOk, AtVersion
<1>4. op' = [op EXCEPT ![q] = c]
  BY DEF c
<1>5. db' \in [Object -> Origin] /\ DbOk(setup, db') /\ Grows(db, db')
  BY GrowsSame DEF IInv
<1>6. q \in setup.operators
  BY AtCall
<1> QED
  BY <1>3, <1>4, <1>5, <1>6, OpStep

\* What a CREATE TABLE of the manager does, if its call does not end there.
LEMMA CreateCases ==
    ASSUME IInv, NEW q \in Operator, NEW o, NEW next, op[q].pc # "idle", CreateTable(q, o, next)
    PROVE  \/ IInv'
           \/ /\ op' = [op EXCEPT ![q] = [op[q] EXCEPT !.pc = next, !.blocked = FALSE]]
              /\ db' = IF Exists(o) THEN db ELSE [db EXCEPT ![o] = "manager"]
              /\ UNCHANGED <<setup, tx>>
<1>1. CASE Exists(o) /\ op[q].blocked
  <2>1. op' = [op EXCEPT ![q] = NoCall] /\ UNCHANGED <<setup, db, tx>>
    BY <1>1 DEF CreateTable, Returned
  <2> QED
    BY <2>1, EndStep
<1>2. CASE Exists(o) /\ ~op[q].blocked
  BY <1>2 DEF CreateTable, Returned
<1>3. CASE ~Exists(o) /\ ~Free(o)
  <2>1. op' = [op EXCEPT ![q].blocked = TRUE] /\ UNCHANGED <<setup, db, tx>>
    BY <1>3 DEF CreateTable
  <2> QED
    BY <2>1, WaitStep
<1>4. CASE ~Exists(o) /\ Free(o)
  BY <1>4 DEF CreateTable, Returned
<1> QED
  BY <1>1, <1>2, <1>3, <1>4

LEMMA EnsureStep ==
    ASSUME IInv, NEW q \in Operator, ensureMigrationsTable(q)
    PROVE  IInv'
<1> DEFINE c == [op[q] EXCEPT !.pc = "read", !.blocked = FALSE]
<1>0. op[q].pc = "ensure" /\ CreateTable(q, Ledger, "read")
  BY DEF ensureMigrationsTable
<1> SUFFICES ASSUME ~IInv'
             PROVE  FALSE
  OBVIOUS
<1>1. /\ op[q].pc = "ensure" /\ op' = [op EXCEPT ![q] = c] /\ UNCHANGED <<setup, tx>>
      /\ db' = db \/ db' = [db EXCEPT ![Ledger] = "manager"]
  BY <1>0, CreateCases
<1>2. op[q] \in OpCall /\ OpOk(setup, db, op[q])
  BY DEF IInv
<1>3. c \in OpCall /\ c.pc = "read" /\ c.kind = op[q].kind /\ c.v = op[q].v
  BY <1>2 DEF OpCall
<1> HIDE DEF c
<1>4. OpOk(setup, db', c)
  BY <1>1, <1>2, <1>3 DEF OpOk, AtVersion
<1>5. db' \in [Object -> Origin]
  BY <1>1 DEF IInv, Origin
<1>6. \A v \in Files : db'[Row(v)] = db[Row(v)] /\ db'[Table(v)] = db[Table(v)]
  BY <1>1, ObjectsAre DEF IInv
<1>7. \A o \in Object : db[o] # "none" => db'[o] # "none"
  BY <1>1 DEF IInv
<1>8. Grows(db, db')
  BY <1>6, <1>7 DEF Grows
<1>9. DbOk(setup, db')
  <2>1. {w \in Files : db'[Row(w)] = "embedded"} = {w \in Files : db[Row(w)] = "embedded"}
    BY <1>6
  <2> QED
    BY <1>6, <2>1 DEF IInv, DbOk
<1>10. q \in setup.operators
  BY <1>1, AtCall
<1> QED
  BY <1>1, <1>4, <1>5, <1>8, <1>9, <1>10, OpStep

LEMMA AppliedStep ==
    ASSUME IInv, NEW q \in Operator, appliedVersions(q)
    PROVE  IInv'
<1> DEFINE applied == {v \in Files : Exists(Row(v))}
           call == [op[q] EXCEPT !.applied = applied]
<1>1. op[q] \in OpCall /\ OpOk(setup, db, op[q])
  BY DEF IInv
<1>2. op[q].pc = "read" /\ op[q].v = 0 /\ op[q].kind \in setup.kinds
  BY <1>1 DEF appliedVersions, OpOk
<1>3. /\ call \in OpCall /\ call.kind = op[q].kind /\ call.v = 0
      /\ call.applied = applied
  BY <1>1, <1>2 DEF OpCall
<1>4. q \in setup.operators /\ UNCHANGED <<setup, db, tx>>
  BY <1>2, AtCall DEF appliedVersions
<1>5. db' \in [Object -> Origin] /\ DbOk(setup, db') /\ Grows(db, db')
  BY <1>4, GrowsSame DEF IInv
<1>6. CASE call.kind = "up"
  <2>1. op' = [op EXCEPT ![q] = NextUp(call)]
    BY <1>6 DEF appliedVersions
  <2>2. \A w \in Files : w <= call.v \/ w \in call.applied => db[Row(w)] # "none"
    <3>1. SUFFICES ASSUME NEW w \in Files, w <= 0 \/ w \in applied
                   PROVE  db[Row(w)] # "none"
      BY <1>3
    <3>2. w \in Nat /\ w > 0
      BY Versions
    <3> QED
      BY <3>1, <3>2 DEF Exists
  <2> HIDE DEF call
  <2>3. OpOk(setup, db, NextUp(call))
    BY <1>2, <1>3, <1>6, <2>2, NextUpOk
  <2> QED
    BY <1>4, <1>5, <2>1, <2>3, OpStep
<1>7. CASE call.kind = "down" /\ applied # {}
  <2> DEFINE v == lastApplied(applied)
             c == [call EXCEPT !.pc = "exec", !.v = v]
  <2>1. op' = [op EXCEPT ![q] = c]
    BY <1>7 DEF appliedVersions
  <2>2. v \in applied /\ \A y \in applied : v >= y
    <3>1. applied \subseteq Files
      OBVIOUS
    <3> HIDE DEF applied
    <3> QED
      BY <1>7, <3>1, VersionsFinite, MaxOfFinite DEF lastApplied
  <2>3. v \in Files
    BY <2>2
  <2>4. \A w \in Files : db[Row(w)] # "none" => w <= v
    BY <2>2, <2>3, Versions DEF Exists
  <2> HIDE DEF v
  <2>5. c \in OpCall /\ c.pc = "exec" /\ c.kind = "down" /\ c.v = v
    BY <1>3, <1>7, <2>3 DEF OpCall
  <2>6. c.kind \in setup.kinds
    BY <1>2, <1>3, <1>7, <2>5
  <2> HIDE DEF c
  <2>7. OpOk(setup, db, c)
    BY <2>3, <2>4, <2>5, <2>6 DEF OpOk, AtVersion
  <2> QED
    BY <1>4, <1>5, <2>1, <2>7, OpStep
<1>8. CASE call.kind # "up" /\ ~(call.kind = "down" /\ applied # {})
  <2>1. op' = [op EXCEPT ![q] = NoCall]
    BY <1>8 DEF appliedVersions
  <2> QED
    BY <1>2, <1>4, <2>1, EndStep
<1> QED
  BY <1>6, <1>7, <1>8

LEMMA ExecUpStep ==
    ASSUME IInv, NEW q \in Operator, ExecUp(q)
    PROVE  IInv'
<1> DEFINE v == op[q].v
           c == [op[q] EXCEPT !.pc = "record", !.blocked = FALSE]
<1>0. op[q].pc = "exec" /\ op[q].kind = "up" /\ CreateTable(q, Table(v), "record")
  BY DEF ExecUp
<1> SUFFICES ASSUME ~IInv'
             PROVE  FALSE
  OBVIOUS
<1>1. /\ op[q].pc = "exec" /\ op[q].kind = "up"
      /\ op' = [op EXCEPT ![q] = c] /\ UNCHANGED <<setup, tx>>
      /\ db' = IF Exists(Table(v)) THEN db ELSE [db EXCEPT ![Table(v)] = "manager"]
  BY <1>0, CreateCases
<1>2. op[q] \in OpCall /\ OpOk(setup, db, op[q])
  BY DEF IInv
<1>3. v \in Files
  BY <1>1, <1>2 DEF OpOk, AtVersion
<1>4. db' \in [Object -> Origin]
  BY <1>1 DEF IInv, Origin
<1>5. \A w \in Files : db'[Row(w)] = db[Row(w)]
  BY <1>1, ObjectsAre DEF IInv
<1>6. \A o \in Object : db[o] # "none" => db'[o] # "none"
  BY <1>1 DEF IInv
<1>7. Grows(db, db')
  BY <1>5, <1>6 DEF Grows
<1>8. db'[Table(v)] # "none"
  BY <1>1, <1>3, ObjectsAre DEF IInv, Exists
<1>9. c \in OpCall /\ c.pc = "record" /\ c.kind = "up" /\ c.v = v
      /\ c.applied = op[q].applied
  BY <1>1, <1>2 DEF OpCall
<1> HIDE DEF c
<1>10. OpOk(setup, db', c)
  <2>1. "up" \in setup.kinds
    BY <1>1, <1>2 DEF OpOk
  <2>2. Single(setup) =>
            \A w \in Files : w < v \/ w \in op[q].applied => db'[Row(w)] # "none"
    BY <1>1, <1>2, <1>5 DEF OpOk, AtVersion
  <2> QED
    BY <1>3, <1>8, <1>9, <2>1, <2>2 DEF OpOk, AtVersion
<1>11. DbOk(setup, db')
  <2>1. \A w \in Files : db[Table(w)] # "none" => db'[Table(w)] # "none"
    BY <1>6, ObjectsAre
  <2>2. {w \in Files : db'[Row(w)] = "embedded"} = {w \in Files : db[Row(w)] = "embedded"}
    BY <1>5
  <2> QED
    BY <1>5, <2>1, <2>2 DEF IInv, DbOk
<1>12. q \in setup.operators
  BY <1>1, AtCall
<1> QED
  BY <1>1, <1>4, <1>7, <1>10, <1>11, <1>12, OpStep

LEMMA RecordUpStep ==
    ASSUME IInv, NEW q \in Operator, RecordUp(q)
    PROVE  IInv'
<1> DEFINE v == op[q].v
           refused == Exists(Row(v)) \/ db[Ledger] = "embedded"
<1>1. /\ op[q].pc = "record" /\ op[q].kind = "up" /\ UNCHANGED <<setup, tx>>
      /\ db' = IF refused THEN db ELSE [db EXCEPT ![Row(v)] = "manager"]
      /\ op' = [op EXCEPT ![q] = IF refused THEN NoCall ELSE NextUp(op[q])]
  BY DEF RecordUp
<1>2. CASE refused
  BY <1>1, <1>2, EndStep
<1>3. CASE ~refused
  <2>1. op[q] \in OpCall /\ OpOk(setup, db, op[q])
    BY DEF IInv
  <2>2. v \in Files /\ v \in Nat /\ "up" \in setup.kinds
    BY <1>1, <2>1, Versions DEF OpOk, AtVersion
  <2>3. /\ db' = [db EXCEPT ![Row(v)] = "manager"]
        /\ op' = [op EXCEPT ![q] = NextUp(op[q])]
        /\ db[Row(v)] = "none"
    BY <1>1, <1>3 DEF Exists
  <2>4. db' \in [Object -> Origin]
    BY <2>3 DEF IInv, Origin
  <2>5. /\ \A w \in Files : w # v => db'[Row(w)] = db[Row(w)]
        /\ \A w \in Files : db'[Table(w)] = db[Table(w)]
    BY <2>3, ObjectsAre DEF IInv
  <2>6. db'[Row(v)] = "manager"
    BY <2>2, <2>3, ObjectsAre DEF IInv
  <2>7. Grows(db, db')
    <3>1. \A o \in Object : db[o] # "none" => db'[o] # "none"
      BY <2>3 DEF IInv
    <3> QED
      BY <2>3, <2>5, <3>1 DEF Grows
  <2>8. ASSUME Single(setup), NEW w \in Files, w < v \/ w \in op[q].applied
        PROVE  db'[Row(w)] # "none"
    BY <1>1, <2>1, <2>5, <2>6, <2>8 DEF OpOk, AtVersion
  <2>9. OpOk(setup, db', NextUp(op[q]))
    <3>1. Single(setup) => \A w \in Files :
              w <= op[q].v \/ w \in op[q].applied => db'[Row(w)] # "none"
      <4>1. SUFFICES ASSUME Single(setup), NEW w \in Files,
                            w <= v \/ w \in op[q].applied
                     PROVE  db'[Row(w)] # "none"
        OBVIOUS
      <4>2. w = v \/ w < v \/ w \in op[q].applied
        BY <2>2, <4>1, Versions
      <4> QED
        BY <2>6, <2>8, <4>1, <4>2
    <3> QED
      BY <1>1, <2>1, <2>2, <3>1, NextUpOk
  <2>10. DbOk(setup, db')
    <3>1. setup.instances = {} => \A w \in Files : db'[Row(w)] # "embedded"
      BY <2>5, <2>6 DEF IInv, DbOk
    <3>2. NoDown(setup) =>
              \A w \in Files : db'[Row(w)] # "none" => db'[Table(w)] # "none"
      <4>1. NoDown(setup) => db[Table(v)] # "none"
        BY <1>1, <2>1 DEF OpOk
      <4> QED
        BY <2>2, <2>5, <4>1 DEF IInv, DbOk
    <3>3. {w \in Files : db'[Row(w)] = "embedded"} = {w \in Files : db[Row(w)] = "embedded"}
      BY <2>3, <2>5, <2>6
    <3>4. Single(setup) => \A x, w \in Files :
              db'[Row(x)] # "none" /\ w < x => db'[Row(w)] # "none"
      <4>1. SUFFICES ASSUME Single(setup), NEW x \in Files, NEW w \in Files,
                            db'[Row(x)] # "none", w < x
                     PROVE  db'[Row(w)] # "none"
        OBVIOUS
      <4>2. CASE x = v
        BY <2>8, <4>1, <4>2
      <4>3. CASE x # v
        <5>1. db[Row(w)] # "none"
          BY <2>5, <4>1, <4>3 DEF IInv, DbOk
        <5> QED
          BY <2>5, <2>6, <5>1
      <4> QED
        BY <4>2, <4>3
    <3> QED
      BY <3>1, <3>2, <3>3, <3>4 DEF IInv, DbOk
  <2>11. q \in setup.operators
    BY <1>1, AtCall
  <2> QED
    BY <1>1, <2>3, <2>4, <2>7, <2>9, <2>10, <2>11, OpStep
<1> QED
  BY <1>2, <1>3

LEMMA ExecDownStep ==
    ASSUME IInv, NEW q \in Operator, ExecDown(q)
    PROVE  IInv'
<1> DEFINE v == op[q].v
           c == [op[q] EXCEPT !.pc = "record"]
<1>1. /\ op[q].pc = "exec" /\ op[q].kind = "down"
      /\ op' = [op EXCEPT ![q] = c] /\ UNCHANGED <<setup, tx>>
      /\ db' = [db EXCEPT ![Table(v)] = "none"]
  BY DEF ExecDown
<1>2. op[q] \in OpCall /\ OpOk(setup, db, op[q])
  BY DEF IInv
<1>3. v \in Files /\ "down" \in setup.kinds /\ ~NoDown(setup)
  BY <1>1, <1>2 DEF OpOk, AtVersion, NoDown
<1>4. db' \in [Object -> Origin]
  BY <1>1 DEF IInv, Origin
<1>5. \A w \in Files : db'[Row(w)] = db[Row(w)]
  BY <1>1, ObjectsAre DEF IInv
<1>6. c \in OpCall /\ c.pc = "record" /\ c.kind = "down" /\ c.v = v
  BY <1>1, <1>2 DEF OpCall
<1> HIDE DEF c
<1>7. OpOk(setup, db', c)
  <2>1. Single(setup) => \A w \in Files : db'[Row(w)] # "none" => w <= v
    BY <1>1, <1>2, <1>5 DEF OpOk, AtVersion
  <2> QED
    BY <1>3, <1>6, <2>1 DEF OpOk, AtVersion
<1>8. DbOk(setup, db')
  <2>1. {w \in Files : db'[Row(w)] = "embedded"} = {w \in Files : db[Row(w)] = "embedded"}
    BY <1>5
  <2> QED
    BY <1>3, <1>5, <2>1 DEF IInv, DbOk
<1>9. q \in setup.operators
  BY <1>1, AtCall
<1> QED
  BY <1>1, <1>3, <1>4, <1>7, <1>8, <1>9, DownStep

LEMMA RecordDownStep ==
    ASSUME IInv, NEW q \in Operator, RecordDown(q)
    PROVE  IInv'
<1> DEFINE v == op[q].v
<1>1. /\ op[q].pc = "record" /\ op[q].kind = "down"
      /\ op' = [op EXCEPT ![q] = NoCall] /\ UNCHANGED <<setup, tx>>
      /\ db' = [db EXCEPT ![Row(v)] = "none"]
  BY DEF RecordDown
<1>2. op[q] \in OpCall /\ OpOk(setup, db, op[q])
  BY DEF IInv
<1>3. v \in Files /\ v \in Nat /\ ~NoDown(setup)
  BY <1>1, <1>2, Versions DEF OpOk, AtVersion, NoDown
<1>4. db' \in [Object -> Origin]
  BY <1>1 DEF IInv, Origin
<1>5. /\ \A w \in Files : w # v => db'[Row(w)] = db[Row(w)]
      /\ db'[Row(v)] = "none"
  BY <1>1, <1>3, ObjectsAre DEF IInv
<1>6. DbOk(setup, db')
  <2>1. setup.instances = {} => \A w \in Files : db'[Row(w)] # "embedded"
    BY <1>5 DEF IInv, DbOk
  <2>2. Lasting(setup) => {w \in Files : db'[Row(w)] = "embedded"} \in {{}, Embedded}
    BY <1>3, <2>1 DEF Lasting
  <2>3. Single(setup) => \A x, w \in Files :
            db'[Row(x)] # "none" /\ w < x => db'[Row(w)] # "none"
    <3>1. SUFFICES ASSUME Single(setup), NEW x \in Files, NEW w \in Files,
                          db'[Row(x)] # "none", w < x
                   PROVE  db'[Row(w)] # "none"
      OBVIOUS
    <3>2. x # v /\ db[Row(x)] # "none"
      BY <1>5, <3>1
    <3>3. x <= v
      BY <1>1, <1>2, <3>1, <3>2 DEF OpOk, AtVersion
    <3>4. w # v
      BY <1>3, <3>1, <3>3, Versions
    <3>5. db[Row(w)] # "none"
      BY <3>1, <3>2 DEF IInv, DbOk
    <3> QED
      BY <1>5, <3>4, <3>5
  <2> QED
    BY <1>3, <2>1, <2>2, <2>3 DEF DbOk
<1>7. q \in setup.operators
  BY <1>1, AtCall
<1>8. OpOk(setup, db', NoCall)
  BY NoCallOk
<1> QED
  BY <1>1, <1>3, <1>4, <1>6, <1>7, <1>8, DownStep

-----------------------------------------------------------------------------
(***************************************************************************)
(* The invariant holds.                                                    *)
(***************************************************************************)
LEMMA InitInv == Init => IInv
<1> SUFFICES ASSUME Init
             PROVE  IInv
  OBVIOUS
<1>1. \A v \in Files : db[Row(v)] = "none"
  BY ObjectsAre DEF Init
<1>2. DbOk(setup, db)
  BY <1>1 DEF DbOk
<1>3. db \in [Object -> Origin]
  BY DEF Init, Origin
<1>4. tx \in [Instance -> Tx] /\ op \in [Operator -> OpCall]
  BY IdleOk, NoCallOk DEF Init, TxOk, OpOk
<1> QED
  BY <1>2, <1>3, <1>4, IdleOk, NoCallOk DEF Init, IInv

LEMMA NextInv == IInv /\ [Next]_vars => IInv'
<1> SUFFICES ASSUME IInv, [Next]_vars
             PROVE  IInv'
  OBVIOUS
<1>1. ASSUME NEW i \in Instance, MigrateBegin(i)
      PROVE  IInv'
  BY <1>1, BeginStep
<1>2. ASSUME NEW i \in Instance, Migrate(i)
      PROVE  IInv'
  BY <1>2, SelectStep, CreateStep, CommitStep DEF Migrate
<1>3. ASSUME NEW i \in Instance, MigrateFault(i)
      PROVE  IInv'
  BY <1>3, AbortStep DEF MigrateFault
<1>4. CASE CheckIdempotency
  BY <1>4, CheckIdempotencyStep
<1>5. ASSUME NEW q \in Operator, Call(q)
      PROVE  IInv'
  BY <1>5, CallStep
<1>6. ASSUME NEW q \in Operator, Manager(q)
      PROVE  IInv'
  BY <1>6, EnsureStep, AppliedStep, ExecUpStep, RecordUpStep, ExecDownStep,
     RecordDownStep DEF Manager
<1>7. ASSUME NEW q \in Operator, ManagerFault(q)
      PROVE  IInv'
  BY <1>7, EndStep DEF ManagerFault
<1>8. CASE UNCHANGED vars
  BY <1>8 DEF vars, IInv
<1> QED
  BY <1>1, <1>2, <1>3, <1>4, <1>5, <1>6, <1>7, <1>8 DEF Next

LEMMA InvTrue == IInv => LedgerIsTrue
<1> SUFFICES ASSUME IInv
             PROVE  LedgerIsTrue
  OBVIOUS
<1>1. RecordedMeansCreated
  BY DEF IInv, DbOk, RecordedMeansCreated, NoDown, Exists
<1>2. EmbeddedAllOrNothing
  BY DEF IInv, DbOk, EmbeddedAllOrNothing, Lasting, NoDown
<1>3. RecordedIsPrefix
  BY DEF IInv, DbOk, RecordedIsPrefix, Single, NoDown, Exists
<1> QED
  BY <1>1, <1>2, <1>3 DEF LedgerIsTrue

-----------------------------------------------------------------------------
\* Migrate, Up and Down, for any number of instances, operators, versions and
\* lost connections: a version in the ledger has its tables unless somebody calls
\* Down, the embedded versions are recorded together unless Down is called beside
\* the instances, and the recorded versions have no gap unless Down is called
\* beside somebody else.
THEOREM LedgerTrue == Spec => []LedgerIsTrue
<1>1. Init => IInv
  BY InitInv
<1>2. IInv /\ [Next]_vars => IInv'
  BY NextInv
<1>3. IInv => LedgerIsTrue
  BY InvTrue
<1> QED
  BY <1>1, <1>2, <1>3, PTL DEF Spec
=============================================================================
