------------------------------ MODULE CodeLocks ------------------------------
(* Human code locks: ApplyCodeLock registers content that bundle generations *)
(* must keep, findActiveCodeLockConflictLocked grants one owner per scope a  *)
(* lease, and applyProjectLocksToBundle, on the goroutine of a run, merges   *)
(* the leases of the project into the files it has generated: whole files,   *)
(* or one Go declaration with its imports.                                   *)
(*                                                                           *)
(* A scope is what the operator wrote, a target is what it names: two        *)
(* spellings of a path, or a method with and without its receiver, are two   *)
(* scopes.  A handler reads the clock before it waits for the mutex, and a   *)
(* generation reads it before it copies the locks: both are steps of their   *)
(* own.  The locks are a set: their order is that of their ids.              *)
(*                                                                           *)
(* A Go file is the sequence of its declarations, a declaration the sequence *)
(* of its specs.  The text of a spec is what the merge and the compiler tell *)
(* apart: what it declares, the packages it refers to, and every identifier  *)
(* x of a selector x.y in it, which may be a local variable.                 *)
EXTENDS Integers, Sequences, SequencesExt

CONSTANTS
    Human,        \* the operators who register locks
    Task,         \* the tasks that generate a bundle, each once
    Inputs,       \* sets of requests: mode, path, kind, name, content, task, ttl (in effect)
    Generated,    \* the content of the Go file every bundle starts with
    ScopeOrder,   \* the scopes that are asked for, in the order of their strings
    Cleaned,      \* filepath.Join: the file of the bundle that a path as written names
    Cut,          \* strings.Cut: receiver and name that a method's symbolName names
    LastElement,  \* the last element of an import path
    PackageName,  \* the name of the package an import path leads to
    MaxClock,     \* bound: the clock
    MaxLocks,     \* bound: lock requests
    MaxFaults     \* bound: failed saves and restarts

\* The Go files that locks name here: one that the bundle starts with, one that
\* it has not.  The others are files that the generation writes after the locks.
GoPath == {"main.go", "new.go"}
Path == GoPath \cup {"release-gate.json", "manifest.json", "lock-conflicts.log"}

Kind == {"func", "method", "type", "var", "const"}

NoTask == "any task"
NoRequest == [at |-> -1]
NoFile == [absent |-> TRUE]
Broken == [error |-> TRUE]
Metadata == [metadata |-> TRUE]
NoBundle == [pc |-> "idle"]

VARIABLES
    inputs,     \* the requests that the operators make, one set of Inputs
    clock,      \* time
    pending,    \* per operator, the request whose handler has read the clock
    nextId,     \* nextID
    locks,      \* s.locks of the project
    conflicts,  \* s.conflicts of the project
    stored,     \* the saved locks and conflicts
    answered,   \* ids of the locks whose registration was acknowledged
    bundle,     \* per task, its generation
    faults      \* faults so far

vars == <<inputs, clock, pending, nextId, locks, conflicts, stored, answered, bundle, faults>>

--------------------------------------------------------------------------------
(* Leases and scopes. *)

Active(l, now) == now < l.expires

\* The path and the symbol as they were written.
codeLockScope(l) ==
    IF l.mode = "file" THEN <<"file", l.path>> ELSE <<"go_symbol", l.path, l.kind, l.name>>

\* Where the scope of a lock comes in the order of the strings.
Position(l) == CHOOSE n \in DOMAIN ScopeOrder : ScopeOrder[n] = codeLockScope(l)

\* Only the name of a method is split at a dot.
parseGoSymbolSelector(l) ==
    IF l.kind = "method" THEN Cut[l.name] ELSE [receiver |-> "", name |-> l.name]

\* goDeclSymbolRange: the kind, the only name and, if one was given, the receiver.
Selects(l, text) ==
    LET selector == parseGoSymbolSelector(l)
    IN  /\ text.kind = l.kind /\ text.names = {selector.name}
        /\ l.kind = "method" => selector.receiver \in {"", text.receiver}

AllTexts(c) == UNION {ToSet(c.decls[i].specs) : i \in DOMAIN c.decls}

\* validateCodeLock: a Go file, content that parses and declares the symbol.
Valid(r) ==
    r.mode = "go_symbol" =>
        /\ Cleaned[r.path] \in GoPath
        /\ r.content.parses /\ \E text \in AllTexts(r.content) : Selects(r, text)

\* Mutation: a lease granted since the clock was read does not count.
BlockingOlder(l, now) ==
    {k \in locks : /\ Active(k, now) /\ k.created < now
                   /\ codeLockScope(k) = codeLockScope(l) /\ k.owner # l.owner}

\* The active locks of other owners on the scope of l; the first one blocks it.
Blocking(l, now) ==
    {k \in locks : Active(k, now) /\ codeLockScope(k) = codeLockScope(l) /\ k.owner # l.owner}

First(S) == CHOOSE l \in S : \A k \in S : l.id <= k.id

\* Lock k comes after lock l and has the same scope.
Later(k, l) == k.id > l.id /\ codeLockScope(k) = codeLockScope(l)

Conflict(kind, requested, current) ==
    [kind |-> kind, scope |-> codeLockScope(requested), requested |-> requested,
     current |-> current, status |-> "OPEN"]

\* persistLocked: the save of the state just made succeeds or fails.
Persist(ok) ==
    IF ok THEN stored' = [locks |-> locks', conflicts |-> conflicts'] /\ UNCHANGED faults
          ELSE faults < MaxFaults /\ faults' = faults + 1 /\ UNCHANGED stored

--------------------------------------------------------------------------------
(* Merging one lock into a Go file. *)

\* The file a content stands for when it is written as a whole.
FileOf(c, id) ==
    LET specs(d) == [j \in DOMAIN d.specs |-> [text |-> d.specs[j], by |-> id]]
    IN  [parses |-> c.parses, imports |-> c.imports, form |-> c.form,
         decls |-> [i \in DOMAIN c.decls |-> [doc |-> c.decls[i].doc, specs |-> specs(c.decls[i])]]]

AllSpecs(f) == UNION {ToSet(f.decls[i].specs) : i \in DOMAIN f.decls}

\* The spec of a declaration that the lock selects, and the first declaration
\* that has one.
SelectedSpec(specs, l) == SelectInSeq(specs, LAMBDA s : Selects(l, s.text))
findGoSymbolMatch(decls, l) == SelectInSeq(decls, LAMBDA d : SelectedSpec(d.specs, l) # 0)

\* The declaration of its content that a lock is about, and the spec in it.
LockedDecl(l) == LET whole == FileOf(l.content, l.id).decls IN whole[findGoSymbolMatch(whole, l)]
LockedSpec(l) == LockedDecl(l).specs[SelectedSpec(LockedDecl(l).specs, l)]

\* goUsedSelectors: the identifiers before a dot, whatever they stand for.
goUsedSelectors(f) == UNION {s.text.selectors : s \in AllSpecs(f)}

\* Mutation: the imports of the locked content are added, none is removed.
reconcileKeepingUnused(f, c) == [f EXCEPT !.imports = @ \cup c.imports]

\* reconcileGoImports adds what the content imports and the file does not, by
\* path, and removes what has no name of its own and is no selector's, by the
\* last element of the path.  Imports are inserted after the last one, which
\* only parses inside a group.  When the file has none, a group is put right
\* before the first declaration, with no line break between: that only parses
\* when the declaration begins with a line comment.  A group may end up empty.
\* What is left when an import that stands alone is removed does not parse.
reconcileGoImports(f, c) ==
    LET missing == {i \in c.imports : ~\E j \in f.imports : j.path = i.path}
        all     == f.imports \cup missing
        unused  == {i \in all : i.alias = "" /\ LastElement[i.path] \notin goUsedSelectors(f)}
        fits    == IF f.form = "none" THEN f.decls = << >> \/ f.decls[1].doc
                                      ELSE f.form = "group" /\ f.imports # {}
        form    == IF missing = {} THEN f.form ELSE "group"
    IN  IF (missing # {} /\ ~fits) \/ (unused # {} /\ form # "group")
        THEN Broken
        ELSE [parses |-> f.parses, decls |-> f.decls, imports |-> all \ unused, form |-> form]

\* A file for one declaration: all imports of the content, in a group.
goLockedSymbolFile(decl, c) ==
    reconcileGoImports([parses |-> TRUE, decls |-> <<decl>>, imports |-> c.imports,
                        form |-> IF c.imports = {} THEN "none" ELSE "group"], c)

\* Mutation: the whole locked content replaces the file.
applyWholeContent(f, l) == FileOf(l.content, l.id)

\* applyGoSymbolLock: create the file, append the declaration, or replace the
\* one the file has.  A declaration put where one spec of a group was does not
\* parse, and a group replaces a declaration that stands alone as a whole.
applyGoSymbolLock(f, l) ==
    LET decl == LockedDecl(l)
        i    == findGoSymbolMatch(f.decls, l)
        grouped(d) == Len(d.specs) > 1
    IN  IF f = NoFile
        THEN goLockedSymbolFile(decl, l.content)
        ELSE IF ~f.parses
        THEN Broken
        ELSE IF i = 0
        THEN reconcileGoImports([f EXCEPT !.decls = Append(@, decl)], l.content)
        ELSE IF ~grouped(f.decls[i])
        THEN reconcileGoImports([f EXCEPT !.decls[i] = decl], l.content)
        ELSE IF ~grouped(decl)
        THEN Broken
        ELSE reconcileGoImports(
                 [f EXCEPT !.decls[i].specs[SelectedSpec(f.decls[i].specs, l)] = LockedSpec(l)], l.content)

\* The locks of a generation that are left for each scope: the latest one.
activeScopes(copy) == {l \in copy : ~\E k \in copy : Later(k, l)}

\* The neighbours among the locks of one scope that have different owners.
Clashes(copy) ==
    {c \in copy \X copy : /\ Later(c[2], c[1]) /\ c[1].owner # c[2].owner
                          /\ ~\E m \in copy : Later(m, c[1]) /\ Later(c[2], m)}

\* The applied locks of a copy that name one file of the bundle.
Here(copy, p) == {l \in activeScopes(copy) : Cleaned[l.path] = p}

\* One scope of the loop; an error ends it.
OneScope(f, here, scope) ==
    LET on == {l \in here : codeLockScope(l) = scope}
        l  == CHOOSE k \in on : TRUE
    IN  IF f = Broken \/ on = {} THEN f
        ELSE IF l.mode = "file" THEN FileOf(l.content, l.id) ELSE applyGoSymbolLock(f, l)

\* One file of a bundle after the locks of the sorted scopes.
Locked(f, here) ==
    LET after[n \in 0 .. Len(ScopeOrder)] ==
            IF n = 0 THEN f ELSE OneScope(after[n - 1], here, ScopeOrder[n])
    IN  after[Len(ScopeOrder)]

\* Whether lock-conflicts.log is written: it must be for neighbours of different
\* owners, for every symbol lock and for a file lock of a generated file, which
\* differs from it at least by the marker; it may be for two file locks of one
\* file, whose texts may be the same.
MustLog(copy) ==
    Clashes(copy) # {} \/ \E l \in activeScopes(copy) : l.mode = "go_symbol" \/ Cleaned[l.path] = "main.go"
MayLog(copy) ==
    \E k, l \in activeScopes(copy) : k # l /\ k.mode = "file" /\ l.mode = "file" /\ Cleaned[k.path] = Cleaned[l.path]

--------------------------------------------------------------------------------
(* What the requests are. *)

\* The package an import makes visible, under the name it has in the file.
Binding(i) == [name |-> IF i.alias = "" THEN PackageName[i.path] ELSE i.alias, path |-> i.path]

\* A file parses, imports the packages it refers to and no other, under different
\* names that it does not declare, and declares every symbol once; a method
\* is another symbol for every receiver.
WellFormed(f) ==
    /\ f.parses
    /\ {Binding(i) : i \in f.imports} = UNION {s.text.uses : s \in AllSpecs(f)}
    /\ \A i, j \in f.imports : Binding(i).name = Binding(j).name => i = j
    /\ \A i \in f.imports : \A s \in AllSpecs(f) : s.text.kind # "method" => Binding(i).name \notin s.text.names
    /\ \A i, j \in DOMAIN f.decls :
          \A a \in DOMAIN f.decls[i].specs, b \in DOMAIN f.decls[j].specs :
             LET s == f.decls[i].specs[a].text
                 t == f.decls[j].specs[b].text
             IN  s.receiver = t.receiver /\ s.names \cap t.names # {} => i = j /\ a = b

IsSeq(s) == s \in Seq(ToSet(s))

\* The name a package is referred to by is an identifier before a dot.
IsContent(c) ==
    /\ c.parses \in BOOLEAN /\ IsSeq(c.decls)
    /\ c.imports \subseteq [path : DOMAIN LastElement, alias : STRING]
    /\ c.form \in {"none", "single", "group"} /\ (c.form = "none" => c.imports = {})
    /\ \A i \in DOMAIN c.decls : c.decls[i].doc \in BOOLEAN /\ IsSeq(c.decls[i].specs)
    /\ \A text \in AllTexts(c) :
          /\ text.kind \in Kind
          /\ {u.name : u \in text.uses} \subseteq text.selectors

\* The requests are decoded JSON; the scopes of files come before those of symbols.
ASSUME CodeLocksAssumption ==
    /\ MaxLocks \in Nat
    /\ IsContent(Generated) /\ Generated.parses
    /\ IsSeq(ScopeOrder)
    /\ \A m, n \in DOMAIN ScopeOrder :
          /\ ScopeOrder[m] = ScopeOrder[n] => m = n
          /\ ScopeOrder[m][1] = "go_symbol" /\ ScopeOrder[n][1] = "file" => n < m
    /\ \A rs \in Inputs : \A r \in rs :
          /\ r.mode \in {"file", "go_symbol"} /\ Cleaned[r.path] \in Path
          /\ IsContent(r.content) /\ r.ttl \in Nat
          /\ codeLockScope(r) \in ToSet(ScopeOrder)

--------------------------------------------------------------------------------
(* The operations. *)

Init ==
    /\ inputs \in Inputs
    /\ clock = 0
    /\ pending = [h \in Human |-> NoRequest]
    /\ nextId = 1
    /\ locks = {}
    /\ conflicts = << >>
    /\ stored = [locks |-> {}, conflicts |-> << >>]
    /\ answered = {}
    /\ bundle = [t \in Task |-> NoBundle]
    /\ faults = 0

Tick ==
    /\ clock < MaxClock
    /\ clock' = clock + 1
    /\ UNCHANGED <<inputs, pending, nextId, locks, conflicts, stored, answered, bundle, faults>>

\* The handler reads the clock and waits for the mutex.
Request(h) ==
    /\ pending[h] = NoRequest
    /\ nextId <= MaxLocks
    /\ \E r \in inputs : pending' = [pending EXCEPT ![h] = [request |-> r, at |-> clock]]
    /\ UNCHANGED <<inputs, clock, nextId, locks, conflicts, stored, answered, bundle, faults>>

\* The registration itself, under the mutex.  The lock stays in memory when
\* its save fails, though the caller is told of the error.
Register(lock, ok) ==
    /\ locks' = locks \cup {lock}
    /\ answered' = IF ok THEN answered \cup {lock.id} ELSE answered
    /\ UNCHANGED conflicts
    /\ Persist(ok)

QueueConflict(lock, current, ok) ==
    /\ conflicts' = Append(conflicts, Conflict("code_lock", lock, current))
    /\ UNCHANGED <<locks, answered>>
    /\ Persist(ok)

ApplyCodeLock(h) ==
    LET r    == pending[h].request
        now  == pending[h].at
        lock == [id |-> nextId, mode |-> r.mode, path |-> r.path, kind |-> r.kind, name |-> r.name,
                 content |-> r.content, owner |-> h, task |-> r.task,
                 created |-> now, expires |-> now + r.ttl]
    IN  /\ pending[h] # NoRequest
        /\ nextId <= MaxLocks
        /\ Valid(r)
        /\ nextId' = nextId + 1
        /\ pending' = [pending EXCEPT ![h] = NoRequest]
        /\ \E ok \in BOOLEAN :
              IF Blocking(lock, now) = {}
              THEN Register(lock, ok)
              ELSE QueueConflict(lock, First(Blocking(lock, now)), ok)
        /\ UNCHANGED <<inputs, clock, bundle>>

\* An invalid request changes nothing.
Refuse(h) ==
    /\ pending[h] # NoRequest
    /\ ~Valid(pending[h].request)
    /\ pending' = [pending EXCEPT ![h] = NoRequest]
    /\ UNCHANGED <<inputs, clock, nextId, locks, conflicts, stored, answered, bundle, faults>>

ResolveConflictQueueEntry(i) ==
    /\ conflicts[i].status = "OPEN"
    /\ conflicts' = [conflicts EXCEPT ![i].status = "RESOLVED"]
    /\ UNCHANGED <<inputs, clock, pending, nextId, locks, answered, bundle>>
    /\ \E ok \in BOOLEAN : Persist(ok)

\* generateDeliveryBundle writes its files and applyProjectLocksToBundle reads
\* the clock.  `known' remembers the locks there are at this moment.
StartBundle(t) ==
    /\ bundle[t] = NoBundle
    /\ bundle' = [bundle EXCEPT ![t] =
          [pc |-> "copy", now |-> clock, known |-> locks, copy |-> {}, clashes |-> {},
           files |-> [p \in Path |-> IF p = "main.go" THEN FileOf(Generated, 0) ELSE NoFile]]]
    /\ UNCHANGED <<inputs, clock, pending, nextId, locks, conflicts, stored, answered, faults>>

\* The locks that apply to the task at the time read.
CopyLocks(t) ==
    LET b    == bundle[t]
        copy == {l \in locks : Active(l, b.now) /\ l.task \in {NoTask, t}}
    IN  /\ b.pc = "copy"
        /\ bundle' = [bundle EXCEPT ![t].pc = "apply", ![t].copy = copy, ![t].clashes = Clashes(copy)]
        /\ UNCHANGED <<inputs, clock, pending, nextId, locks, conflicts, stored, answered, faults>>

\* recordCodeLockApplyConflict takes the mutex for each of them, in the order of
\* the locks; a save that fails is only logged.
recordCodeLockApplyConflict(t) ==
    LET b == bundle[t]
    IN  /\ b.pc = "apply"
        /\ \E c \in b.clashes :
              /\ \A d \in b.clashes : c[2].id <= d[2].id
              /\ conflicts' = Append(conflicts, Conflict("code_lock_apply", c[2], c[1]))
              /\ bundle' = [bundle EXCEPT ![t].clashes = @ \ {c}]
        /\ UNCHANGED <<inputs, clock, pending, nextId, locks, answered>>
        /\ \E ok \in BOOLEAN : Persist(ok)

\* The files of the bundle are the run's own, so they are merged in one step.
\* The log, the release gate and the manifest are written afterwards, whatever
\* was locked there.
applyProjectLocksToBundle(t) ==
    LET b     == bundle[t]
        files == [p \in Path |-> Locked(b.files[p], Here(b.copy, p))]
        written(logged) == {"release-gate.json", "manifest.json"} \cup (IF logged THEN {"lock-conflicts.log"} ELSE {})
    IN  /\ b.pc = "apply" /\ b.clashes = {}
        /\ \E logged \in BOOLEAN :
              /\ MustLog(b.copy) => logged
              /\ logged => MustLog(b.copy) \/ MayLog(b.copy)
              /\ bundle' = [bundle EXCEPT
                    ![t].pc = IF \E p \in Path : files[p] = Broken THEN "failed" ELSE "done",
                    ![t].files = [p \in Path |-> IF p \in written(logged) THEN Metadata ELSE files[p]]]
        /\ UNCHANGED <<inputs, clock, pending, nextId, locks, conflicts, stored, answered, faults>>

\* The process stops and starts again with what it had saved.  Handlers and
\* generations are gone.
Restart ==
    /\ faults < MaxFaults
    /\ faults' = faults + 1
    /\ locks' = stored.locks
    /\ conflicts' = stored.conflicts
    /\ pending' = [h \in Human |-> NoRequest]
    /\ bundle' = [t \in Task |-> IF bundle[t] # NoBundle /\ bundle[t].pc \in {"copy", "apply"}
                                 THEN [bundle[t] EXCEPT !.pc = "lost"] ELSE bundle[t]]
    /\ UNCHANGED <<inputs, clock, nextId, stored, answered>>

Next ==
    \/ Tick
    \/ \E h \in Human : Request(h) \/ ApplyCodeLock(h) \/ Refuse(h)
    \/ \E i \in DOMAIN conflicts : ResolveConflictQueueEntry(i)
    \/ \E t \in Task : StartBundle(t) \/ CopyLocks(t) \/ recordCodeLockApplyConflict(t)
                       \/ applyProjectLocksToBundle(t)
    \/ Restart

Spec == Init /\ [][Next]_vars

--------------------------------------------------------------------------------
(* Properties. *)

Finished == {t \in Task : bundle[t].pc = "done"}

\* Every field of the state has the shape the code gives it: ids are unique
\* and below the counter, a generation is idle, under way or over.
TypeOK ==
    /\ clock \in 0 .. MaxClock /\ faults \in 0 .. MaxFaults /\ nextId \in 1 .. MaxLocks + 1
    /\ \A k, l \in locks : k.id < nextId /\ (k.id = l.id => k = l)
    /\ \A h \in Human : pending[h] = NoRequest \/ pending[h].at \in 0 .. clock
    /\ \A i \in DOMAIN conflicts : conflicts[i].kind \in {"code_lock", "code_lock_apply"}
                                   /\ conflicts[i].status \in {"OPEN", "RESOLVED"}
    /\ \A t \in Task : bundle[t].pc \in {"idle", "copy", "apply", "done", "failed", "lost"}

\* findActiveCodeLockConflictLocked decides with a clock that was read before
\* the mutex was taken.  Even so two operators never hold a lease on one scope
\* at the same time.
OneOwnerPerScope ==
    \A k, l \in locks :
        codeLockScope(k) = codeLockScope(l) /\ Active(k, clock) /\ Active(l, clock)
        => k.owner = l.owner

\* applyProjectLocksToBundle queues a conflict between two leases that "matched
\* the same scope": they never overlapped, the first one ended after the
\* generation had read the clock and before the second one was granted.
ApplyConflictMeansExpiry ==
    \A i \in DOMAIN conflicts :
        conflicts[i].kind = "code_lock_apply" =>
            conflicts[i].current.expires <= conflicts[i].requested.created

\* A lock whose registration was acknowledged is not lost by a restart, which
\* starts from what persistLocked saved before ApplyCodeLock answered.
AcknowledgedLocksStored == answered \subseteq {l.id : l \in stored.locks}

\* What an operator who was granted a lease can rely on: it is his alone, while
\* it lasts, and it is not forgotten.
LeasesHold == OneOwnerPerScope /\ ApplyConflictMeansExpiry /\ AcknowledgedLocksStored

\* Whether the file still holds what lock l asked for.
Preserved(f, l) ==
    IF l.mode = "file" THEN f = FileOf(l.content, l.id)
    ELSE f # NoFile /\ LockedSpec(l) \in AllSpecs(f)

\* Lock k has another scope than l and is merged into the same file after it: into
\* the file that l wants as a whole, or over the declaration that l names.
Disturbs(k, l) ==
    /\ Cleaned[k.path] = Cleaned[l.path] /\ Position(l) < Position(k)
    /\ l.mode = "go_symbol" => Selects(k, LockedSpec(l).text)

\* A finished bundle holds the locked content of every lock that was there when
\* the generation read the clock and in force then, unless a later lock for the
\* task on the same scope replaced it ("will be preserved on future bundle
\* generations").  Two cases are excepted: a lock of another scope of the same
\* target that is merged after it, and the files written after the locks.
ActiveLocksPreserved ==
    \A t \in Finished : LET b == bundle[t] IN \A l \in b.known :
        (/\ Active(l, b.now) /\ l.task \in {NoTask, t} /\ Cleaned[l.path] \in GoPath
         /\ ~\E k \in b.copy : Later(k, l)
         /\ ~\E k \in activeScopes(b.copy) : Disturbs(k, l))
        => Preserved(b.files[Cleaned[l.path]], l)

\* A symbol lock replaces the declaration it names and nothing else: every
\* spec of a finished bundle that was not generated is from an applied lock of the
\* file, as a whole or declared in one group with the locked one, and every
\* generated spec is there unless an applied lock names it or the whole file.
OnlyTargetReplaced ==
    \A t \in Finished : LET b == bundle[t] IN
        /\ \A p \in GoPath : b.files[p] # NoFile =>
              \A s \in AllSpecs(b.files[p]) : s.by # 0 =>
                 \E l \in Here(b.copy, p) :
                    /\ l.id = s.by
                    /\ l.mode = "go_symbol" => s \in ToSet(LockedDecl(l).specs)
        /\ \A s \in AllSpecs(FileOf(Generated, 0)) :
              \/ s \in AllSpecs(b.files["main.go"])
              \/ \E l \in Here(b.copy, "main.go") : l.mode = "file" \/ Selects(l, s.text)

\* A finished bundle is what was generated and what the locks in force say, the
\* one where they are silent and the other where they speak.
BundleHonoursLocks == ActiveLocksPreserved /\ OnlyTargetReplaced

\* What a file of a bundle is made of.
Sources(copy, p) ==
    {l.content : l \in Here(copy, p)} \cup (IF p = "main.go" THEN {Generated} ELSE {})

\* The content declares one symbol at a time, and imports packages under their
\* own names, which are the last elements of their paths.
Plain(c) ==
    /\ \A i \in c.imports : i.alias = "" /\ PackageName[i.path] = LastElement[i.path]
    /\ \A i \in DOMAIN c.decls : Len(c.decls[i].specs) = 1
    /\ \A text \in AllTexts(c) : \E n \in text.names : text.names = {n}

\* A name means the same thing in all contents: where one imports a package, no
\* other declares its name or has it before a dot for anything else; a symbol is
\* of one kind; and a lock selects methods of one receiver.
Harmonious(C, here) ==
    LET texts == UNION {AllTexts(c) : c \in C}
    IN  /\ \A i \in UNION {c.imports : c \in C} : \A text \in texts :
              /\ text.kind # "method" => LastElement[i.path] \notin text.names
              /\ LastElement[i.path] \in text.selectors => Binding(i) \in text.uses
        /\ \A s, t \in texts : s.receiver = t.receiver /\ s.names = t.names => s.kind = t.kind
        /\ \A l \in here : \A s, t \in texts : Selects(l, s) /\ Selects(l, t) => s.receiver = t.receiver

\* reconcileGoImports: the Go files of a finished bundle are well-formed, when what
\* they are made of is, is plain, and gives a name one meaning.
BundleFilesWellFormed ==
    \A t \in Finished : \A p \in GoPath :
        LET C == Sources(bundle[t].copy, p)
        IN  (/\ \A c \in C : Plain(c) /\ WellFormed(FileOf(c, 0))
             /\ Harmonious(C, {l \in Here(bundle[t].copy, p) : l.mode = "go_symbol"}))
            => bundle[t].files[p] = NoFile \/ WellFormed(bundle[t].files[p])
==============================================================================
