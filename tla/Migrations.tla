------------------------------ MODULE Migrations ------------------------------
(* The two ways the schema of the database comes about.                        *)
(*   PostgresStore.Migrate applies the migrations built into the program, all  *)
(* in one transaction, before every load, save and repository transaction of   *)
(* every instance.                                                             *)
(*   MigrationManager.Up, Down and Status work through the SQL files of a      *)
(* directory, each statement by itself.                                        *)
(* Both keep their books in the table schema_migrations.  Statements of        *)
(* PostgreSQL: what another transaction has created and not committed makes    *)
(* the statement wait; it fails if that transaction commits.                   *)
EXTENDS Integers, FiniteSets, FiniteSetsExt

CONSTANTS
    Instance,    \* instances of the service
    Operator,    \* who uses the manager
    Setups,      \* who is at work, and what the operators call
    Embedded,    \* versions built into the program (1 .. 4)
    Files,       \* versions in the directory (1 .. 5)
    MaxFaults    \* bound on connections lost

ASSUME MigrationsAssumption ==
    /\ Embedded \subseteq Files /\ Files \subseteq Nat \ {0} /\ IsFiniteSet(Files)
    /\ \A v \in Embedded, w \in Files : w < v => w \in Embedded
    /\ Setups \subseteq [instances : SUBSET Instance, operators : SUBSET Operator,
                        kinds : SUBSET {"up", "down", "status"}]
    /\ MaxFaults \in Nat

\* What a statement creates: the ledger, the tables of a version, its row in
\* the ledger.
Ledger == <<"ledger", 0>>
Table(v) == <<"table", v>>
Row(v) == <<"row", v>>
Object == {Ledger} \cup {Table(v) : v \in Files} \cup {Row(v) : v \in Files}

\* Whose SQL an object is from.  A row has the name and the checksum of the
\* embedded migration, or the name of the file and the default checksum; only
\* the manager's ledger has such a default.
Origin == {"none", "embedded", "manager"}

VARIABLES
    setup,     \* one of Setups
    db,        \* what is committed, and its origin
    tx,        \* the call of Migrate of an instance: its next statement, what it made
    outcome,   \* how its last call ended
    op,        \* the call of an operator
    faults

vars == <<setup, db, tx, outcome, op, faults>>

Exists(o) == db[o] # "none"
Idle == [at |-> <<"idle", 0>>, made |-> {}, blocked |-> FALSE]
NoCall == [pc |-> "idle", kind |-> "none", applied |-> {}, v |-> 0, blocked |-> FALSE]

--------------------------------------------------------------------------------
(* PostgresStore.Migrate *)

SelectOf(v) == <<"select", v>>
AtCommit == <<"commit", 0>>

\* The versions in order: the statement after those of version v.
After(v) ==
    LET later == {w \in Embedded : w > v}
    IN  IF later = {} THEN AtCommit ELSE SelectOf(Min(later))

Follows(o) == IF o[1] = "table" THEN Row(o[2]) ELSE After(o[2])

Held(i, o) == \E j \in Instance \ {i} : o \in tx[j].made

\* The deferred Rollback.
Abort(i) ==
    /\ tx' = [tx EXCEPT ![i] = Idle]
    /\ outcome' = [outcome EXCEPT ![i] = "error"]
    /\ UNCHANGED db

MigrateBegin(i) ==
    /\ i \in setup.instances /\ tx[i] = Idle
    /\ tx' = [tx EXCEPT ![i].at = Ledger]
    /\ UNCHANGED <<setup, db, outcome, op, faults>>

\* Mutation: the ledger is not looked at.
MigrateSelectNothing(i) ==
    /\ tx[i].at[1] = "select"
    /\ tx' = [tx EXCEPT ![i].at = Table(@[2])]
    /\ UNCHANGED <<setup, db, outcome, op, faults>>

\* A version with a row is done, if the row is this program's.
MigrateSelect(i) ==
    LET v == tx[i].at[2]
    IN  /\ tx[i].at[1] = "select"
        /\ CASE db[Row(v)] = "none" ->
                  tx' = [tx EXCEPT ![i].at = Table(v)] /\ UNCHANGED <<db, outcome>>
             [] db[Row(v)] = "embedded" ->
                  tx' = [tx EXCEPT ![i].at = After(v)] /\ UNCHANGED <<db, outcome>>
             [] OTHER -> Abort(i)
        /\ UNCHANGED <<setup, op, faults>>

\* CREATE TABLE IF NOT EXISTS, or INSERT INTO schema_migrations.
MigrateCreate(i) ==
    LET o == tx[i].at
    IN  /\ o \in Object
        /\ CASE Exists(o) /\ (tx[i].blocked \/ o[1] = "row") -> Abort(i)
             [] Exists(o) /\ ~tx[i].blocked /\ o[1] # "row" ->
                  tx' = [tx EXCEPT ![i].at = Follows(o)] /\ UNCHANGED <<db, outcome>>
             [] ~Exists(o) /\ Held(i, o) ->
                  ~tx[i].blocked /\ tx' = [tx EXCEPT ![i].blocked = TRUE] /\ UNCHANGED <<db, outcome>>
             [] OTHER ->
                  /\ tx' = [tx EXCEPT ![i] = [at |-> Follows(o), made |-> @.made \cup {o}, blocked |-> FALSE]]
                  /\ UNCHANGED <<db, outcome>>
        /\ UNCHANGED <<setup, op, faults>>

MigrateCommit(i) ==
    /\ tx[i].at = AtCommit
    /\ db' = [o \in Object |-> IF o \in tx[i].made THEN "embedded" ELSE db[o]]
    /\ tx' = [tx EXCEPT ![i] = Idle]
    /\ outcome' = [outcome EXCEPT ![i] = "ok"]
    /\ UNCHANGED <<setup, op, faults>>

MigrateFault(i) ==
    /\ faults < MaxFaults /\ faults' = faults + 1
    /\ tx[i] # Idle
    /\ Abort(i)
    /\ UNCHANGED <<setup, op>>

Migrate(i) == MigrateSelect(i) \/ MigrateCreate(i) \/ MigrateCommit(i)

\* CheckIdempotency makes the table of the last version, without a row.
CheckIdempotency ==
    /\ setup.instances # {}
    /\ \E v \in Files \ Embedded :
          /\ ~Exists(Table(v))
          /\ db' = [db EXCEPT ![Table(v)] = "embedded"]
    /\ UNCHANGED <<setup, tx, outcome, op, faults>>

--------------------------------------------------------------------------------
(* MigrationManager *)

Free(o) == \A j \in Instance : o \notin tx[j].made

Call(q) ==
    /\ q \in setup.operators /\ op[q].pc = "idle"
    /\ \E kind \in setup.kinds : op' = [op EXCEPT ![q] = [NoCall EXCEPT !.pc = "ensure", !.kind = kind]]
    /\ UNCHANGED <<setup, db, tx, outcome, faults>>

\* The statement of a call is done, and the call ends or goes on.
Returned(q, ok, next) == op' = [op EXCEPT ![q] = IF ok THEN [@ EXCEPT !.pc = next, !.blocked = FALSE] ELSE NoCall]

\* CREATE TABLE IF NOT EXISTS, a transaction of its own.
CreateTable(q, o, next) ==
    /\ \/ /\ Exists(o)
          /\ Returned(q, ~op[q].blocked, next)
          /\ UNCHANGED db
       \/ /\ ~Exists(o) /\ ~Free(o) /\ ~op[q].blocked
          /\ op' = [op EXCEPT ![q].blocked = TRUE]
          /\ UNCHANGED db
       \/ /\ ~Exists(o) /\ Free(o)
          /\ Returned(q, TRUE, next)
          /\ db' = [db EXCEPT ![o] = "manager"]
    /\ UNCHANGED <<setup, tx, outcome, faults>>

ensureMigrationsTable(q) == op[q].pc = "ensure" /\ CreateTable(q, Ledger, "read")

\* Up: the versions that had no row when it looked, in order.
Pending(applied, v) == {w \in Files : w \notin applied /\ w > v}
NextUp(call) ==
    LET rest == Pending(call.applied, call.v)
    IN  IF rest = {} THEN NoCall ELSE [call EXCEPT !.pc = "exec", !.v = Min(rest)]

lastApplied(applied) == Max(applied)

appliedVersions(q) ==
    LET applied == {v \in Files : Exists(Row(v))}
        call    == [op[q] EXCEPT !.applied = applied]
    IN  /\ op[q].pc = "read"
        /\ op' = [op EXCEPT ![q] =
              CASE call.kind = "up" -> NextUp(call)
                [] call.kind = "down" /\ applied # {} ->
                     [call EXCEPT !.pc = "exec", !.v = lastApplied(applied)]
                [] OTHER -> NoCall]
        /\ UNCHANGED <<setup, db, tx, outcome, faults>>

\* Mutation: the SQL fails if the table is there.
ExecUpStrict(q) ==
    LET o == Table(op[q].v)
    IN  /\ op[q].pc = "exec" /\ op[q].kind = "up" /\ Free(o)
        /\ db' = IF Exists(o) THEN db ELSE [db EXCEPT ![o] = "manager"]
        /\ Returned(q, ~Exists(o), "record")
        /\ UNCHANGED <<setup, tx, outcome, faults>>

\* Mutation: an error of the SQL is not looked at.
ExecUpIgnoringError(q) ==
    /\ op[q].pc = "exec" /\ op[q].kind = "up"
    /\ Returned(q, TRUE, "record")
    /\ \E failed \in BOOLEAN : db' = IF failed THEN db ELSE [db EXCEPT ![Table(op[q].v)] = "manager"]
    /\ UNCHANGED <<setup, tx, outcome, faults>>

\* The SQL of the file.
ExecUp(q) ==
    /\ op[q].pc = "exec" /\ op[q].kind = "up"
    /\ CreateTable(q, Table(op[q].v), "record")

\* INSERT without a checksum: an error if the row is there or the ledger has
\* no default for the column.
RecordUp(q) ==
    LET o == Row(op[q].v)
        refused == Exists(o) \/ db[Ledger] = "embedded"
    IN  /\ op[q].pc = "record" /\ op[q].kind = "up" /\ (refused \/ Free(o))
        /\ db' = IF refused THEN db ELSE [db EXCEPT ![o] = "manager"]
        /\ op' = [op EXCEPT ![q] = IF refused THEN NoCall ELSE NextUp(@)]
        /\ UNCHANGED <<setup, tx, outcome, faults>>

\* DROP TABLE IF EXISTS, then the row.
ExecDown(q) ==
    /\ op[q].pc = "exec" /\ op[q].kind = "down"
    /\ db' = [db EXCEPT ![Table(op[q].v)] = "none"]
    /\ op' = [op EXCEPT ![q].pc = "record"]
    /\ UNCHANGED <<setup, tx, outcome, faults>>

RecordDown(q) ==
    /\ op[q].pc = "record" /\ op[q].kind = "down"
    /\ db' = [db EXCEPT ![Row(op[q].v)] = "none"]
    /\ op' = [op EXCEPT ![q] = NoCall]
    /\ UNCHANGED <<setup, tx, outcome, faults>>

ManagerFault(q) ==
    /\ faults < MaxFaults /\ faults' = faults + 1
    /\ op[q].pc # "idle"
    /\ op' = [op EXCEPT ![q] = NoCall]
    /\ UNCHANGED <<setup, db, tx, outcome>>

Manager(q) ==
    \/ ensureMigrationsTable(q) \/ appliedVersions(q)
    \/ ExecUp(q) \/ RecordUp(q) \/ ExecDown(q) \/ RecordDown(q)

--------------------------------------------------------------------------------

Init ==
    /\ setup \in Setups
    /\ db = [o \in Object |-> "none"]
    /\ tx = [i \in Instance |-> Idle]
    /\ outcome = [i \in Instance |-> "none"]
    /\ op = [q \in Operator |-> NoCall]
    /\ faults = 0

Next ==
    \/ \E i \in Instance : MigrateBegin(i) \/ Migrate(i) \/ MigrateFault(i)
    \/ CheckIdempotency
    \/ \E q \in Operator : Call(q) \/ Manager(q) \/ ManagerFault(q)

Spec == Init /\ [][Next]_vars

\* Requests keep coming, operators call again until nothing is pending.
FairSpec ==
    /\ Spec
    /\ \A i \in Instance : WF_vars(MigrateBegin(i)) /\ WF_vars(Migrate(i))
    /\ \A q \in Operator : WF_vars(Call(q)) /\ WF_vars(Manager(q))

--------------------------------------------------------------------------------
(* Properties. *)

TypeOK ==
    /\ db \in [Object -> Origin]
    /\ faults \in 0 .. MaxFaults
    /\ \A i \in Instance : tx[i].made \subseteq Object
    /\ \A q \in Operator :
          /\ op[q].pc \in {"idle", "ensure", "read", "exec", "record"}
          /\ op[q].pc \in {"exec", "record"} => op[q].v \in Files

\* A version in the ledger has its tables, wherever Migrate or Up was cut
\* short and whoever ran at the same time, as long as nobody calls Down: Down
\* drops the tables first, and where it was cut short the version stays
\* recorded without them.
RecordedMeansCreated ==
    "down" \notin setup.kinds =>
        \A v \in Files : Exists(Row(v)) => Exists(Table(v))

\* The embedded migrations are applied together or not at all, however many
\* instances start at once and wherever one fails.  Only an operator who calls
\* Down beside the instances takes a part of them back.
EmbeddedAllOrNothing ==
    ("down" \in setup.kinds => setup.instances = {}) =>
    {v \in Files : db[Row(v)] = "embedded"} \in {{}, Embedded}

\* Up and Down leave no gap, wherever they are cut short: the versions applied
\* are the first ones, so that Down takes back what the last Up did.  Only an
\* operator who calls Down beside somebody else can leave one.
RecordedIsPrefix ==
    ("down" \in setup.kinds =>
        setup.instances = {} /\ \A q, r \in setup.operators : q = r)
    => \A v, w \in Files : Exists(Row(v)) /\ w < v => Exists(Row(w))

\* The ledger tells the truth about the schema.
LedgerIsTrue == RecordedMeansCreated /\ EmbeddedAllOrNothing /\ RecordedIsPrefix

\* "Postgres auto-migration on first startup": every instance gets its schema,
\* also when several start at once and lose against one another, as long as no
\* operator has recorded a version: its checksum never matches.
EveryInstanceMigrates ==
    \A i \in Instance :
        i \in setup.instances ~>
            outcome[i] = "ok" \/ \E v \in Files : db[Row(v)] = "manager"

\* "Up runs all pending up migrations": called often enough, it has, unless an
\* instance was first to make the ledger: then Up can record nothing.
EveryMigrationRecorded ==
    (setup.operators # {} /\ setup.kinds = {"up"}) ~>
        (db[Ledger] = "embedded" \/ \A v \in Files : Exists(Row(v)))

==============================================================================
