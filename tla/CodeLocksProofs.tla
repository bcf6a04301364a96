---------------------------- MODULE CodeLocksProofs ----------------------------
(***************************************************************************)
(* CodeLocks for any operators, tasks, requests, contents and scopes, any  *)
(* history of faults and any clock. Two leases on one scope are one after  *)
(* the other by the times that are written into them, not by the clock:    *)
(* that is what survives a clock that was read before the mutex was taken. *)
(* What a bundle holds is a statement about a recursion over the sorted    *)
(* scopes, proved by induction, and needs to know what one lock does to a  *)
(* file: it puts its declaration there, keeps every spec that it does not  *)
(* select, and reconciles the imports.                                     *)
(***************************************************************************)
EXTENDS CodeLocks, WellFoundedInduction, TLAPS

-----------------------------------------------------------------------------
(***************************************************************************)
(* The values the variables take.                                          *)
(***************************************************************************)

\* What operators ask for, and what files are made of.
Requests == UNION Inputs
Contents == {Generated} \cup {r.content : r \in Requests}

LockRecord ==
    [id : Nat, mode : {"file", "go_symbol"}, path : {r.path : r \in Requests},
     kind : {r.kind : r \in Requests}, name : {r.name : r \in Requests},
     content : {r.content : r \in Requests}, owner : Human, task : {r.task : r \in Requests},
     created : Nat, expires : Nat]

ConflictRecord ==
    [kind : {"code_lock", "code_lock_apply"}, scope : {codeLockScope(l) : l \in LockRecord},
     requested : LockRecord, current : LockRecord, status : {"OPEN", "RESOLVED"}]

Texts == UNION {AllTexts(c) : c \in Contents}
Imports == UNION {c.imports : c \in Contents}
SpecRecord == [text : Texts, by : Nat]
DeclRecord == [doc : BOOLEAN, specs : Seq(SpecRecord)]
FileRecord ==
    [parses : BOOLEAN, imports : SUBSET Imports, form : {"none", "single", "group"}, decls : Seq(DeclRecord)]
Files == FileRecord \cup {NoFile, Broken, Metadata}

BundleRecord ==
    [pc : {"copy", "apply", "done", "failed", "lost"}, now : Nat, known : SUBSET LockRecord,
     copy : SUBSET LockRecord, clashes : SUBSET (LockRecord \X LockRecord), files : [Path -> Files]]

Types ==
    /\ inputs \in Inputs /\ clock \in Nat /\ nextId \in Nat
    /\ pending \in [Human -> {NoRequest} \cup [request : inputs, at : 0 .. clock]]
    /\ locks \in SUBSET LockRecord /\ conflicts \in Seq(ConflictRecord)
    /\ stored \in [locks : SUBSET LockRecord, conflicts : Seq(ConflictRecord)]
    /\ bundle \in [Task -> {NoBundle} \cup BundleRecord]

-----------------------------------------------------------------------------
(***************************************************************************)
(* Leases.                                                                 *)
(***************************************************************************)

\* A lock that validateCodeLock let pass, on one of the scopes there are.
Asked(l) == Valid(l) /\ codeLockScope(l) \in ToSet(ScopeOrder)

\* The locks in memory, in the store or in a copy have their own ids, were
\* asked for, and are leases one after the other.
SoundLocks(S) ==
    /\ \A l \in S : l.id < nextId /\ l.created <= clock /\ Asked(l)
    /\ \A k, l \in S : k.id = l.id => k = l
    /\ \A k, l \in S : Later(l, k) /\ k.owner # l.owner => k.expires <= l.created

\* A conflict that a generation found is between two leases that did not overlap,
\* also while it waits to be queued.
SoundConflicts(cs) ==
    \A i \in DOMAIN cs : cs[i].kind = "code_lock_apply" => cs[i].current.expires <= cs[i].requested.created

SoundClashes ==
    \A t \in Task : bundle[t] # NoBundle =>
        \A c \in bundle[t].clashes : c[1].expires <= c[2].created

\* A lock that was acknowledged is in memory and in the store.
Answers == /\ answered \subseteq {l.id : l \in locks}
           /\ answered \subseteq {l.id : l \in stored.locks}

\* What a file of a bundle is before the locks.
Start(p) == IF p = "main.go" THEN FileOf(Generated, 0) ELSE NoFile

\* A copy of the locks for task t.
CopyFor(copy, t) ==
    /\ \A l \in copy : Asked(l) /\ l.task \in {NoTask, t}
    /\ \A k, l \in copy : k.id = l.id => k = l

\* Where the generation of task t is and what it has by then.
BundleOK(b, t) ==
    /\ b.pc = "copy" => b.known \subseteq locks
    /\ b.pc \in {"copy", "apply"} => \A p \in Path : b.files[p] = Start(p)
    /\ b.pc \in {"apply", "done"} =>
          /\ CopyFor(b.copy, t)
          /\ \A l \in b.known : Active(l, b.now) /\ l.task \in {NoTask, t} => l \in b.copy
    /\ b.pc = "done" => \A p \in Path :
          /\ Locked(Start(p), Here(b.copy, p)) # Broken
          /\ p \in GoPath => b.files[p] = Locked(Start(p), Here(b.copy, p))

Bundles == \A t \in Task : bundle[t] # NoBundle => BundleOK(bundle[t], t)

\* The inductive invariant.
CodeLocksInv ==
    /\ Types
    /\ SoundLocks(locks) /\ SoundLocks(stored.locks)
    /\ SoundConflicts(conflicts) /\ SoundConflicts(stored.conflicts)
    /\ SoundClashes /\ Answers
    /\ Bundles

-----------------------------------------------------------------------------


\* The fields of a lock.
LEMMA LockType ==
    ASSUME NEW l \in LockRecord
    PROVE  /\ l.id \in Nat /\ l.created \in Nat /\ l.expires \in Nat
           /\ l.mode \in {"file", "go_symbol"} /\ Cleaned[l.path] \in Path
           /\ l.content \in Contents
  BY CodeLocksAssumption DEF LockRecord, Contents, Requests

\* The entry that is queued.
LEMMA ConflictType ==
    ASSUME NEW k \in LockRecord, NEW l \in LockRecord, NEW kind \in {"code_lock", "code_lock_apply"}
    PROVE  /\ Conflict(kind, l, k) \in ConflictRecord
           /\ Conflict(kind, l, k).kind = kind
           /\ Conflict(kind, l, k).current = k /\ Conflict(kind, l, k).requested = l
  BY DEF Conflict, ConflictRecord

\* A conflict is queued.
LEMMA QueueSound ==
    ASSUME NEW cs \in Seq(ConflictRecord), NEW c \in ConflictRecord, SoundConflicts(cs),
           c.kind = "code_lock_apply" => c.current.expires <= c.requested.created
    PROVE  Append(cs, c) \in Seq(ConflictRecord) /\ SoundConflicts(Append(cs, c))
  BY DEF SoundConflicts

\* What a save does to the store.
LEMMA PersistSound ==
    ASSUME Types, NEW ok \in BOOLEAN, Persist(ok), locks' \in SUBSET LockRecord,
           conflicts' \in Seq(ConflictRecord)
    PROVE  /\ stored' \in [locks : SUBSET LockRecord, conflicts : Seq(ConflictRecord)]
           /\ \/ stored' = stored
              \/ stored'.locks = locks' /\ stored'.conflicts = conflicts'
           /\ ok => stored'.locks = locks' /\ stored'.conflicts = conflicts'
  BY DEF Persist, Types

\* The granting of a lease.
LEMMA RegisterSound ==
    ASSUME NEW S \in SUBSET LockRecord, SoundLocks(S), NEW l \in LockRecord,
           nextId \in Nat, clock \in Nat, nextId' = nextId + 1, clock' = clock,
           l.id = nextId, l.created <= clock, Asked(l),
           \A k \in S : codeLockScope(k) = codeLockScope(l) /\ k.owner # l.owner => ~Active(k, l.created),
           locks' = S \cup {l}
    PROVE  SoundLocks(locks)'
  <1>1. \A k \in S : k.id \in Nat /\ k.id < nextId /\ k.created \in Nat /\ k.expires \in Nat
    BY LockType DEF SoundLocks
  <1>2. l.created \in Nat
    BY LockType
  <1>3. \A k \in S \cup {l} : k.id < nextId' /\ k.created <= clock' /\ Asked(k)
    BY <1>1 DEF SoundLocks
  <1>4. \A j, k \in S \cup {l} : j.id = k.id => j = k
    BY <1>1 DEF SoundLocks
  <1>5. \A j, k \in S \cup {l} : Later(k, j) /\ j.owner # k.owner => j.expires <= k.created
    <2> SUFFICES ASSUME NEW j \in S \cup {l}, NEW k \in S \cup {l}, Later(k, j), j.owner # k.owner
                 PROVE  j.expires <= k.created
      OBVIOUS
    <2>1. CASE k = l
      <3>1. j \in S /\ codeLockScope(j) = codeLockScope(l)
        BY <2>1 DEF Later
      <3> QED
        BY <1>1, <1>2, <2>1, <3>1 DEF Active
    <2>2. CASE k # l
      <3>1. k \in S /\ j \in S
        BY <1>1, <2>2 DEF Later
      <3> QED
        BY <3>1 DEF SoundLocks
    <2> QED
      BY <2>1, <2>2
  <1> QED
    BY <1>3, <1>4, <1>5 DEF SoundLocks

\* Ids and the clock only go up.
LEMMA SoundLater ==
    ASSUME NEW S \in SUBSET LockRecord, SoundLocks(S), nextId \in Nat, clock \in Nat,
           nextId' \in {nextId, nextId + 1}, clock' \in {clock, clock + 1}
    PROVE  /\ \A l \in S : l.id < nextId' /\ l.created <= clock' /\ Asked(l)
           /\ \A k, l \in S : k.id = l.id => k = l
           /\ \A k, l \in S : Later(l, k) /\ k.owner # l.owner => k.expires <= l.created
  <1>1. \A l \in S : l.id \in Nat /\ l.created \in Nat
    BY LockType
  <1> QED
    BY <1>1 DEF SoundLocks

-----------------------------------------------------------------------------
(***************************************************************************)
(* Induction.                                                              *)
(***************************************************************************)
\* A relation that holds below every number and is well-founded gives a set of
\* numbers its least one.
LEMMA LeastBy ==
    ASSUME NEW R, IsWellFoundedOn(R, Nat), NEW T \in SUBSET Nat, T # {}
    PROVE  (\A m, n \in Nat : m < n => <<m, n>> \in R) => \E n \in T : \A m \in T : n <= m
  <1>0. T \subseteq Nat
    OBVIOUS
  <1>1. PICK n \in T : \A m \in T : ~ (<<m, n>> \in R)
    BY <1>0, WFMin
  <1> SUFFICES ASSUME \A i, j \in Nat : i < j => <<i, j>> \in R PROVE \A m \in T : n <= m
    OBVIOUS
  <1>2. \A m \in T : ~(m < n)
    BY <1>0, <1>1, Zenon
  <1> QED BY <1>0, <1>2

\* Every set of numbers has a least one,
LEMMA NatLeast ==
    ASSUME NEW T \in SUBSET Nat, T # {}
    PROVE  \E n \in T : \A m \in T : n <= m
  <1>2. \A m, n \in Nat : m < n => <<m, n>> \in OpToRel(<, Nat)
    BY DEF OpToRel
  <1> QED BY <1>2, NatLessThanWellFounded, LeastBy, Zenon

\* so a set of numbers that has 0 and the successor of each has all of them.
LEMMA NatInductionOnSets ==
    ASSUME NEW P \in SUBSET Nat, 0 \in P, \A n \in P : n + 1 \in P
    PROVE  P = Nat
  <1> SUFFICES ASSUME P # Nat PROVE FALSE
    OBVIOUS
  <1>1. PICK n \in Nat \ P : \A m \in Nat \ P : n <= m
    BY NatLeast
  <1>2. n # 0 /\ n - 1 \in P
    BY <1>1
  <1> QED
    BY <1>1, <1>2

-----------------------------------------------------------------------------
(***************************************************************************)
(* Files.                                                                  *)
(***************************************************************************)

\* The contents are what CodeLocksAssumption says.
LEMMA ContentType ==
    /\ \A c \in Contents :
          /\ IsContent(c) /\ c.decls \in Seq(ToSet(c.decls)) /\ c.imports \in SUBSET Imports
          /\ \A i \in DOMAIN c.decls : c.decls[i].specs \in Seq(ToSet(c.decls[i].specs))
    /\ Generated \in Contents
  <1>1. \A c \in Contents : IsContent(c)
    BY CodeLocksAssumption DEF Contents, Requests
  <1>2. \A c \in Contents : c.imports \in SUBSET Imports
    BY DEF Imports
  <1> QED
    BY <1>1, <1>2 DEF IsContent, IsSeq, Contents

\* A file is neither missing nor broken,
LEMMA NotAFile ==
    ASSUME NEW f \in FileRecord
    PROVE  f # NoFile /\ f # Broken
  <1>1. DOMAIN f = {"parses", "imports", "form", "decls"}
    BY DEF FileRecord
  <1>2. DOMAIN NoFile = {"absent"} /\ DOMAIN Broken = {"error"}
    BY DEF NoFile, Broken
  <1> QED
    BY <1>1, <1>2

\* and these are two things.
LEMMA NoFileNotBroken == NoFile # Broken
  <1>1. DOMAIN NoFile = {"absent"} /\ DOMAIN Broken = {"error"}
    BY DEF NoFile, Broken
  <1> QED
    BY <1>1

\* The texts of a content, one by one.
LEMMA AllTextsIs ==
    ASSUME NEW c \in Contents
    PROVE  /\ \A x : x \in AllTexts(c) <=> \E i \in DOMAIN c.decls : \E j \in DOMAIN c.decls[i].specs : x = c.decls[i].specs[j]
           /\ AllTexts(c) \subseteq Texts
  BY DEF AllTexts, ToSet, Texts

\* A content that is written as a whole.
LEMMA FileOfType ==
    ASSUME NEW c \in Contents, NEW id \in Nat
    PROVE  LET f == FileOf(c, id) IN
           /\ f \in FileRecord /\ f.parses = c.parses /\ f.imports = c.imports
           /\ DOMAIN f.decls = DOMAIN c.decls
           /\ \A i \in DOMAIN c.decls :
                 /\ DOMAIN f.decls[i].specs = DOMAIN c.decls[i].specs
                 /\ Len(f.decls[i].specs) = Len(c.decls[i].specs)
                 /\ \A j \in DOMAIN c.decls[i].specs :
                       f.decls[i].specs[j] = [text |-> c.decls[i].specs[j], by |-> id]
  <1> DEFINE specs(d) == [j \in DOMAIN d.specs |-> [text |-> d.specs[j], by |-> id]]
             ds == [i \in DOMAIN c.decls |-> [doc |-> c.decls[i].doc, specs |-> specs(c.decls[i])]]
             f == FileOf(c, id)
  <1>1. f = [parses |-> c.parses, imports |-> c.imports, form |-> c.form, decls |-> ds]
    BY DEF FileOf
  <1>2. /\ DOMAIN c.decls = 1 .. Len(c.decls) /\ Len(c.decls) \in Nat
        /\ \A i \in DOMAIN c.decls : /\ DOMAIN c.decls[i].specs = 1 .. Len(c.decls[i].specs)
                                     /\ Len(c.decls[i].specs) \in Nat
                                     /\ c.decls[i].doc \in BOOLEAN
    BY ContentType DEF IsContent
  <1>3. ASSUME NEW i \in DOMAIN c.decls
        PROVE  specs(c.decls[i]) \in Seq(SpecRecord)
    <2>1. \A j \in DOMAIN c.decls[i].specs : c.decls[i].specs[j] \in Texts
      BY AllTextsIs
    <2>2. \A j \in DOMAIN c.decls[i].specs : [text |-> c.decls[i].specs[j], by |-> id] \in SpecRecord
      BY <2>1 DEF SpecRecord
    <2> DEFINE n == Len(c.decls[i].specs)
               g == specs(c.decls[i])
    <2>3. n \in Nat /\ g = [j \in 1 .. n |-> g[j]]
      BY <1>2
    <2>4. \A j \in 1 .. n : g[j] \in SpecRecord
      BY <1>2, <2>2
    <2> HIDE DEF g, n, specs
    <2>5. [j \in 1 .. n |-> g[j]] \in Seq(SpecRecord)
      BY <2>3, <2>4
    <2>6. g \in Seq(SpecRecord)
      BY <2>3, <2>5
    <2> QED
      BY <2>6 DEF g
  <1>4. \A i \in DOMAIN c.decls : [doc |-> c.decls[i].doc, specs |-> specs(c.decls[i])] \in DeclRecord
    BY <1>2, <1>3 DEF DeclRecord
  <1>5. ds \in Seq(DeclRecord) /\ DOMAIN ds = DOMAIN c.decls
    BY <1>2, <1>4
  <1>6. c.imports \in SUBSET Imports /\ c.parses \in BOOLEAN /\ c.form \in {"none", "single", "group"}
    BY ContentType DEF IsContent
  <1>7. \A i \in DOMAIN c.decls : ds[i].specs = specs(c.decls[i])
    OBVIOUS
  <1>8. \A i \in DOMAIN c.decls : DOMAIN specs(c.decls[i]) = DOMAIN c.decls[i].specs
    OBVIOUS
  <1>9. \A i \in DOMAIN c.decls : \A j \in DOMAIN c.decls[i].specs :
           specs(c.decls[i])[j] = [text |-> c.decls[i].specs[j], by |-> id]
    OBVIOUS
  <1>10. \A i \in DOMAIN c.decls : Len(specs(c.decls[i])) = Len(c.decls[i].specs)
    BY <1>2, <1>3, <1>8
  <1> HIDE DEF ds, specs
  <1>11. f \in FileRecord
    BY <1>1, <1>5, <1>6 DEF FileRecord
  <1>12. f.parses = c.parses /\ f.imports = c.imports /\ f.decls = ds
    BY <1>1
  <1> HIDE DEF f
  <1>13. DOMAIN f.decls = DOMAIN c.decls
    BY <1>5, <1>12
  <1>14. \A i \in DOMAIN c.decls :
                 /\ DOMAIN f.decls[i].specs = DOMAIN c.decls[i].specs
                 /\ Len(f.decls[i].specs) = Len(c.decls[i].specs)
                 /\ \A j \in DOMAIN c.decls[i].specs :
                       f.decls[i].specs[j] = [text |-> c.decls[i].specs[j], by |-> id]
    BY <1>7, <1>8, <1>9, <1>10, <1>12
  <1> QED
    BY <1>11, <1>12, <1>13, <1>14 DEF f

\* The specs of a file, one by one.
LEMMA AllSpecsIs ==
    ASSUME NEW f \in FileRecord
    PROVE  /\ \A s : s \in AllSpecs(f) <=> \E i \in DOMAIN f.decls : \E j \in DOMAIN f.decls[i].specs : s = f.decls[i].specs[j]
           /\ \A i \in DOMAIN f.decls : /\ f.decls[i] \in DeclRecord /\ f.decls[i].specs \in Seq(SpecRecord)
                                        /\ DOMAIN f.decls[i].specs = 1 .. Len(f.decls[i].specs)
                                        /\ \A j \in DOMAIN f.decls[i].specs : f.decls[i].specs[j] \in SpecRecord
           /\ f.decls \in Seq(DeclRecord) /\ DOMAIN f.decls = 1 .. Len(f.decls) /\ Len(f.decls) \in Nat
  <1>1. f.decls \in Seq(DeclRecord)
    BY DEF FileRecord
  <1>2. \A i \in DOMAIN f.decls : f.decls[i] \in DeclRecord
    BY <1>1
  <1>3. \A i \in DOMAIN f.decls : f.decls[i].specs \in Seq(SpecRecord)
    BY <1>2 DEF DeclRecord
  <1>4. \A i \in DOMAIN f.decls : /\ DOMAIN f.decls[i].specs = 1 .. Len(f.decls[i].specs)
                                  /\ \A j \in DOMAIN f.decls[i].specs : f.decls[i].specs[j] \in SpecRecord
    BY <1>3
  <1>5. \A s : s \in AllSpecs(f) <=> \E i \in DOMAIN f.decls : \E j \in DOMAIN f.decls[i].specs : s = f.decls[i].specs[j]
    BY DEF AllSpecs, ToSet
  <1> QED
    BY <1>1, <1>2, <1>3, <1>4, <1>5

\* The specs of a content that is written as a whole are its texts.
LEMMA WholeIs ==
    ASSUME NEW c \in Contents, NEW id \in Nat
    PROVE  /\ \A s \in AllSpecs(FileOf(c, id)) : s.by = id /\ s.text \in AllTexts(c)
           /\ \A x \in AllTexts(c) : [text |-> x, by |-> id] \in AllSpecs(FileOf(c, id))
  <1> DEFINE f == FileOf(c, id)
  <1>1. f \in FileRecord /\ DOMAIN f.decls = DOMAIN c.decls
        /\ \A i \in DOMAIN c.decls :
              /\ DOMAIN f.decls[i].specs = DOMAIN c.decls[i].specs
              /\ \A j \in DOMAIN c.decls[i].specs :
                    f.decls[i].specs[j] = [text |-> c.decls[i].specs[j], by |-> id]
    BY FileOfType
  <1> HIDE DEF f
  <1>2. \A s : s \in AllSpecs(f) <=> \E i \in DOMAIN f.decls : \E j \in DOMAIN f.decls[i].specs : s = f.decls[i].specs[j]
    BY <1>1, AllSpecsIs
  <1>3. ASSUME NEW s \in AllSpecs(f)
        PROVE  s.by = id /\ s.text \in AllTexts(c)
    <2>1. PICK i \in DOMAIN c.decls : \E j \in DOMAIN c.decls[i].specs : s = f.decls[i].specs[j]
      BY <1>1, <1>2
    <2>2. PICK j \in DOMAIN c.decls[i].specs : s = [text |-> c.decls[i].specs[j], by |-> id]
      BY <1>1, <2>1
    <2> QED
      BY <2>2, AllTextsIs
  <1>4. ASSUME NEW x \in AllTexts(c)
        PROVE  [text |-> x, by |-> id] \in AllSpecs(f)
    <2>1. PICK i \in DOMAIN c.decls : \E j \in DOMAIN c.decls[i].specs : x = c.decls[i].specs[j]
      BY AllTextsIs
    <2>2. PICK j \in DOMAIN c.decls[i].specs : x = c.decls[i].specs[j]
      BY <2>1
    <2>3. f.decls[i].specs[j] = [text |-> x, by |-> id] /\ i \in DOMAIN f.decls /\ j \in DOMAIN f.decls[i].specs
      BY <1>1, <2>2
    <2> QED
      BY <1>2, <2>3
  <1> QED
    BY <1>3, <1>4 DEF f

\* The first spec that a lock selects, or 0.
LEMMA SpecIs ==
    ASSUME NEW specs \in Seq(SpecRecord), NEW l
    PROVE  LET k == SelectedSpec(specs, l) IN
           \/ k = 0 /\ ~\E j \in DOMAIN specs : Selects(l, specs[j].text)
           \/ k # 0 /\ k \in DOMAIN specs /\ Selects(l, specs[k].text)
  <1> DEFINE I == {k \in 1 .. Len(specs) : Selects(l, specs[k].text)}
  <1>1. SelectedSpec(specs, l) = IF I # {} THEN Min(I) ELSE 0
    BY DEF SelectedSpec, SelectInSeq
  <1>2. I # {} => Min(I) \in I
    <2>1. I \in SUBSET Nat
      OBVIOUS
    <2> HIDE DEF I
    <2> QED
      BY <2>1, NatLeast DEF Min
  <1>3. DOMAIN specs = 1 .. Len(specs)
    OBVIOUS
  <1> QED
    BY <1>1, <1>2, <1>3

\* findGoSymbolMatch: the first declaration with such a spec, or 0.
LEMMA MatchIs ==
    ASSUME NEW ds \in Seq(DeclRecord), NEW l
    PROVE  LET i == findGoSymbolMatch(ds, l) IN
           \/ /\ i = 0
              /\ \A k \in DOMAIN ds : \A j \in DOMAIN ds[k].specs : ~Selects(l, ds[k].specs[j].text)
           \/ /\ i # 0 /\ i \in DOMAIN ds
              /\ LET j == SelectedSpec(ds[i].specs, l) IN j \in DOMAIN ds[i].specs /\ Selects(l, ds[i].specs[j].text)
  <1> DEFINE I == {k \in 1 .. Len(ds) : SelectedSpec(ds[k].specs, l) # 0}
  <1>1. findGoSymbolMatch(ds, l) = IF I # {} THEN Min(I) ELSE 0
    BY DEF findGoSymbolMatch, SelectInSeq
  <1>2. I # {} => Min(I) \in I
    <2>1. I \in SUBSET Nat
      OBVIOUS
    <2> HIDE DEF I
    <2> QED
      BY <2>1, NatLeast DEF Min
  <1>3. DOMAIN ds = 1 .. Len(ds)
    OBVIOUS
  <1>4. \A k \in DOMAIN ds : ds[k].specs \in Seq(SpecRecord)
    <2>1. \A k \in DOMAIN ds : ds[k] \in DeclRecord
      OBVIOUS
    <2> QED
      BY <2>1 DEF DeclRecord
  <1>5. \A k \in DOMAIN ds :
           \/ SelectedSpec(ds[k].specs, l) = 0 /\ ~\E j \in DOMAIN ds[k].specs : Selects(l, ds[k].specs[j].text)
           \/ LET j == SelectedSpec(ds[k].specs, l) IN j # 0 /\ j \in DOMAIN ds[k].specs /\ Selects(l, ds[k].specs[j].text)
    BY <1>4, SpecIs
  <1> QED
    BY <1>1, <1>2, <1>3, <1>5

-----------------------------------------------------------------------------
(***************************************************************************)
(* One symbol lock.                                                        *)
(***************************************************************************)

\* The imports that reconcileGoImports starts from.
AllImports(f, c) == f.imports \cup {i \in c.imports : ~\E j \in f.imports : j.path = i.path}

\* It keeps the declarations, and the imports that have a name or are used.
LEMMA ReconcileIs ==
    ASSUME NEW f \in FileRecord, NEW c \in Contents
    PROVE  LET g == reconcileGoImports(f, c) IN
           \/ g = Broken
           \/ /\ g \in FileRecord /\ g.decls = f.decls /\ g.parses = f.parses
              /\ g.imports = {i \in AllImports(f, c) : i.alias # "" \/ LastElement[i.path] \in goUsedSelectors(f)}
  <1> DEFINE missing == {i \in c.imports : ~\E j \in f.imports : j.path = i.path}
             all     == f.imports \cup missing
             unused  == {i \in all : i.alias = "" /\ LastElement[i.path] \notin goUsedSelectors(f)}
             form    == IF missing = {} THEN f.form ELSE "group"
             x       == [parses |-> f.parses, decls |-> f.decls, imports |-> all \ unused, form |-> form]
             g       == reconcileGoImports(f, c)
  <1>1. g = Broken \/ g = x
    BY DEF reconcileGoImports
  <1>2. c.imports \in SUBSET Imports
    BY ContentType
  <1>3. all \ unused = {i \in AllImports(f, c) : i.alias # "" \/ LastElement[i.path] \in goUsedSelectors(f)}
    BY DEF AllImports
  <1>4. all \ unused \in SUBSET Imports /\ form \in {"none", "single", "group"}
        /\ f.parses \in BOOLEAN /\ f.decls \in Seq(DeclRecord)
    BY <1>2 DEF FileRecord
  <1> HIDE DEF missing, all, unused, form, g
  <1>5. x \in FileRecord /\ x.decls = f.decls /\ x.parses = f.parses /\ x.imports = all \ unused
    BY <1>4 DEF FileRecord
  <1> QED
    BY <1>1, <1>3, <1>5 DEF g

\* A symbol lock that validateCodeLock let pass.
IsSymbolLock(l) == l \in LockRecord /\ l.mode = "go_symbol" /\ Valid(l)

\* Its declaration is one of its content and has the spec that it selects.
LEMMA LockedDeclIs ==
    ASSUME NEW l, IsSymbolLock(l)
    PROVE  /\ LockedDecl(l) \in DeclRecord /\ LockedDecl(l).specs \in Seq(SpecRecord)
           /\ LockedSpec(l) \in ToSet(LockedDecl(l).specs) /\ LockedSpec(l) \in SpecRecord
           /\ Selects(l, LockedSpec(l).text)
           /\ \A s \in ToSet(LockedDecl(l).specs) : s.by = l.id /\ s.text \in AllTexts(l.content)
           /\ \E i \in DOMAIN l.content.decls : Len(LockedDecl(l).specs) = Len(l.content.decls[i].specs)
  <1> DEFINE c == l.content
             w == FileOf(c, l.id)
             i == findGoSymbolMatch(w.decls, l)
             d == LockedDecl(l)
             j == SelectedSpec(d.specs, l)
  <1>1. c \in Contents /\ l.id \in Nat
    BY LockType DEF IsSymbolLock
  <1>2. w \in FileRecord /\ DOMAIN w.decls = DOMAIN c.decls
        /\ \A k \in DOMAIN c.decls : Len(w.decls[k].specs) = Len(c.decls[k].specs)
    BY <1>1, FileOfType
  <1>3. PICK x \in AllTexts(c) : Selects(l, x)
    BY DEF IsSymbolLock, Valid
  <1>4. [text |-> x, by |-> l.id] \in AllSpecs(w)
    BY <1>1, <1>3, WholeIs
  <1>5. d = w.decls[i]
    BY DEF LockedDecl
  <1>6. LockedSpec(l) = d.specs[j]
    BY DEF LockedSpec
  <1> HIDE DEF w, d
  <1>7. /\ w.decls \in Seq(DeclRecord)
        /\ \A k \in DOMAIN w.decls : w.decls[k] \in DeclRecord /\ w.decls[k].specs \in Seq(SpecRecord)
        /\ \A s : s \in AllSpecs(w) <=> \E k \in DOMAIN w.decls : \E m \in DOMAIN w.decls[k].specs : s = w.decls[k].specs[m]
    BY <1>2, AllSpecsIs
  <1>8. \E k \in DOMAIN w.decls : \E m \in DOMAIN w.decls[k].specs : Selects(l, w.decls[k].specs[m].text)
    <2>1. PICK k \in DOMAIN w.decls : \E m \in DOMAIN w.decls[k].specs : [text |-> x, by |-> l.id] = w.decls[k].specs[m]
      BY <1>4, <1>7
    <2>2. PICK m \in DOMAIN w.decls[k].specs : [text |-> x, by |-> l.id] = w.decls[k].specs[m]
      BY <2>1
    <2>3. w.decls[k].specs[m].text = x
      BY <2>2
    <2> QED
      BY <1>3, <2>3
  <1>9. i \in DOMAIN w.decls /\ LET k == SelectedSpec(w.decls[i].specs, l)
                                IN  k \in DOMAIN w.decls[i].specs /\ Selects(l, w.decls[i].specs[k].text)
    BY <1>7, <1>8, MatchIs
  <1> HIDE DEF i
  <1>10. i \in DOMAIN w.decls /\ j \in DOMAIN d.specs /\ Selects(l, d.specs[j].text)
    BY <1>5, <1>9
  <1> HIDE DEF j
  <1>11. d \in DeclRecord /\ d.specs \in Seq(SpecRecord)
    BY <1>5, <1>7, <1>10
  <1>12. LockedSpec(l) \in ToSet(d.specs) /\ LockedSpec(l) \in SpecRecord /\ Selects(l, LockedSpec(l).text)
    BY <1>6, <1>10, <1>11 DEF ToSet
  <1>13. \A s \in ToSet(d.specs) : s \in AllSpecs(w)
    BY <1>5, <1>7, <1>10 DEF ToSet
  <1>14. \A s \in ToSet(d.specs) : s.by = l.id /\ s.text \in AllTexts(c)
    BY <1>1, <1>13, WholeIs DEF w
  <1>15. i \in DOMAIN c.decls /\ Len(d.specs) = Len(c.decls[i].specs)
    BY <1>2, <1>5, <1>10
  <1> QED
    BY <1>11, <1>12, <1>14, <1>15 DEF d

\* Two texts declare the same, and every declaration of the file declares one
\* thing that no other does.
Same(x, y) == x.receiver = y.receiver /\ x.names = y.names
Alone(f) == \A i \in DOMAIN f.decls : Len(f.decls[i].specs) = 1
Once(f) == \A i, j \in DOMAIN f.decls : Same(f.decls[i].specs[1].text, f.decls[j].specs[1].text) => i = j

\* The lock selects exactly what declares the same as it does.
Exact(f, l) == \A s \in AllSpecs(f) : Same(s.text, LockedSpec(l).text) <=> Selects(l, s.text)

\* File h is f with the declaration of lock l, its imports not yet reconciled.
Merged(f, h, l) ==
    /\ h \in FileRecord
    /\ LockedSpec(l) \in AllSpecs(h)
    /\ f # NoFile => \A s \in AllSpecs(f) : s \in AllSpecs(h) \/ Selects(l, s.text)
    /\ \A s \in AllSpecs(h) : (f # NoFile /\ s \in AllSpecs(f)) \/ s \in ToSet(LockedDecl(l).specs)
    /\ h.imports = IF f = NoFile THEN l.content.imports ELSE f.imports
    /\ h.parses
    /\ (f # NoFile => Alone(f) /\ Once(f) /\ Exact(f, l)) /\ Len(LockedDecl(l).specs) = 1 => Alone(h) /\ Once(h)

\* A file with other declarations.
LEMMA WithDecls ==
    ASSUME NEW f \in FileRecord, NEW ds \in Seq(DeclRecord)
    PROVE  LET h == [f EXCEPT !.decls = ds] IN
           h \in FileRecord /\ h.decls = ds /\ h.imports = f.imports /\ h.parses = f.parses
  <1> DEFINE h == [f EXCEPT !.decls = ds]
  <1> SUFFICES h \in FileRecord /\ h.decls = ds /\ h.imports = f.imports /\ h.parses = f.parses
    OBVIOUS
  <1>1. f = [parses |-> f.parses, imports |-> f.imports, form |-> f.form, decls |-> f.decls]
        /\ f.imports \in SUBSET Imports /\ f.parses \in BOOLEAN /\ f.form \in {"none", "single", "group"}
    BY DEF FileRecord
  <1>2. h = [parses |-> f.parses, imports |-> f.imports, form |-> f.form, decls |-> ds]
    BY <1>1
  <1> HIDE DEF h
  <1> QED
    BY <1>1, <1>2 DEF FileRecord

\* goLockedSymbolFile: there was no file.
LEMMA MergedNew ==
    ASSUME NEW l, IsSymbolLock(l), NEW form \in {"none", "single", "group"}
    PROVE  Merged(NoFile, [parses |-> TRUE, decls |-> <<LockedDecl(l)>>, imports |-> l.content.imports, form |-> form], l)
  <1> DEFINE d == LockedDecl(l)
             h == [parses |-> TRUE, decls |-> <<d>>, imports |-> l.content.imports, form |-> form]
  <1>1. d \in DeclRecord /\ d.specs \in Seq(SpecRecord) /\ LockedSpec(l) \in ToSet(d.specs)
    BY LockedDeclIs
  <1>2. l.content \in Contents
    BY LockType DEF IsSymbolLock
  <1> HIDE DEF d
  <1>3. <<d>> \in Seq(DeclRecord) /\ DOMAIN <<d>> = {1} /\ <<d>>[1] = d
    BY <1>1
  <1>4. h.decls = <<d>> /\ h.imports = l.content.imports /\ h.parses
    OBVIOUS
  <1>5. h \in FileRecord
    BY <1>2, <1>3, ContentType DEF FileRecord
  <1> HIDE DEF h
  <1>6. \A s : s \in AllSpecs(h) <=> s \in ToSet(d.specs)
    BY <1>3, <1>4, <1>5, AllSpecsIs DEF ToSet
  <1>7. Len(d.specs) = 1 => Alone(h) /\ Once(h)
    BY <1>3, <1>4 DEF Alone, Once
  <1> QED
    BY <1>1, <1>4, <1>5, <1>6, <1>7 DEF Merged, d, h

\* The file has nothing that the lock selects.
LEMMA MergedAppend ==
    ASSUME NEW f \in FileRecord, NEW l, IsSymbolLock(l), f.parses,
           \A k \in DOMAIN f.decls : \A j \in DOMAIN f.decls[k].specs : ~Selects(l, f.decls[k].specs[j].text)
    PROVE  Merged(f, [f EXCEPT !.decls = Append(@, LockedDecl(l))], l)
  <1> DEFINE d == LockedDecl(l)
             h == [f EXCEPT !.decls = Append(@, d)]
             n == Len(f.decls)
  <1>1. d \in DeclRecord /\ d.specs \in Seq(SpecRecord) /\ LockedSpec(l) \in ToSet(d.specs)
    BY LockedDeclIs
  <1>2. f.decls \in Seq(DeclRecord) /\ DOMAIN f.decls = 1 .. n /\ n \in Nat
    BY AllSpecsIs
  <1> HIDE DEF d
  <1>3. h \in FileRecord /\ h.decls = Append(f.decls, d) /\ h.imports = f.imports /\ h.parses = f.parses
    <2>1. Append(f.decls, d) \in Seq(DeclRecord)
      BY <1>1, <1>2
    <2>2. h = [f EXCEPT !.decls = Append(f.decls, d)]
      OBVIOUS
    <2> QED
      BY <2>1, <2>2, WithDecls
  <1> HIDE DEF h
  <1>4. DOMAIN h.decls = 1 .. n + 1 /\ h.decls[n + 1] = d /\ \A i \in 1 .. n : h.decls[i] = f.decls[i]
    BY <1>1, <1>2, <1>3
  <1>5. \A s : s \in AllSpecs(h) <=> \E i \in DOMAIN h.decls : \E j \in DOMAIN h.decls[i].specs : s = h.decls[i].specs[j]
    BY <1>3, AllSpecsIs
  <1>6. \A s : s \in AllSpecs(f) <=> \E i \in DOMAIN f.decls : \E j \in DOMAIN f.decls[i].specs : s = f.decls[i].specs[j]
    BY AllSpecsIs
  <1>7. \A s \in AllSpecs(f) : s \in AllSpecs(h)
    <2> SUFFICES ASSUME NEW s \in AllSpecs(f) PROVE s \in AllSpecs(h)
      OBVIOUS
    <2>1. PICK i \in 1 .. n : \E j \in DOMAIN f.decls[i].specs : s = f.decls[i].specs[j]
      BY <1>2, <1>6
    <2>2. i \in DOMAIN h.decls /\ h.decls[i] = f.decls[i]
      BY <1>2, <1>4
    <2> QED
      BY <1>5, <2>1, <2>2
  <1>8. \A s \in ToSet(d.specs) : s \in AllSpecs(h)
    <2>1. n + 1 \in DOMAIN h.decls
      BY <1>2, <1>4
    <2> QED
      BY <1>4, <1>5, <2>1 DEF ToSet
  <1>9. \A s \in AllSpecs(h) : s \in AllSpecs(f) \/ s \in ToSet(d.specs)
    <2> SUFFICES ASSUME NEW s \in AllSpecs(h) PROVE s \in AllSpecs(f) \/ s \in ToSet(d.specs)
      OBVIOUS
    <2>1. PICK i \in DOMAIN h.decls : \E j \in DOMAIN h.decls[i].specs : s = h.decls[i].specs[j]
      BY <1>5
    <2>2. CASE i = n + 1
      BY <1>4, <2>1, <2>2 DEF ToSet
    <2>3. CASE i # n + 1
      <3>1. i \in 1 .. n
        BY <1>2, <1>4, <2>3
      <3>2. i \in DOMAIN f.decls /\ h.decls[i] = f.decls[i]
        BY <1>2, <1>4, <3>1
      <3> QED
        BY <1>6, <2>1, <3>2
    <2> QED
      BY <2>2, <2>3
  <1>10. Alone(f) /\ Once(f) /\ Exact(f, l) /\ Len(d.specs) = 1 => Alone(h) /\ Once(h)
    <2> SUFFICES ASSUME Alone(f), Once(f), Exact(f, l), Len(d.specs) = 1 PROVE Alone(h) /\ Once(h)
      OBVIOUS
    <2>1. Alone(h)
      <3> SUFFICES ASSUME NEW i \in DOMAIN h.decls PROVE Len(h.decls[i].specs) = 1
        BY DEF Alone
      <3>1. CASE i = n + 1
        BY <1>4, <3>1
      <3>2. CASE i # n + 1
        <4>1. i \in 1 .. n
          BY <1>2, <1>4, <3>2
        <4> QED
          BY <1>2, <1>4, <4>1 DEF Alone
      <3> QED
        BY <3>1, <3>2
    <2>2. d.specs[1] = LockedSpec(l)
      BY <1>1 DEF ToSet
    <2>3. ASSUME NEW i \in 1 .. n
          PROVE  ~Same(h.decls[i].specs[1].text, d.specs[1].text)
      <3>1. h.decls[i] = f.decls[i] /\ i \in DOMAIN f.decls
        BY <1>2, <1>4
      <3>2. 1 \in DOMAIN f.decls[i].specs
        BY <3>1, AllSpecsIs DEF Alone
      <3>3. f.decls[i].specs[1] \in AllSpecs(f) /\ ~Selects(l, f.decls[i].specs[1].text)
        BY <1>6, <3>1, <3>2
      <3>4. ~Same(f.decls[i].specs[1].text, LockedSpec(l).text)
        BY <3>3 DEF Exact
      <3> QED
        BY <2>2, <3>1, <3>4
    <2>4. Once(h)
      <3> SUFFICES ASSUME NEW i \in 1 .. n + 1, NEW j \in 1 .. n + 1,
                          Same(h.decls[i].specs[1].text, h.decls[j].specs[1].text)
                   PROVE  i = j
        BY <1>4 DEF Once
      <3>1. CASE i \in 1 .. n /\ j \in 1 .. n
        BY <1>2, <1>4, <3>1 DEF Once
      <3>2. CASE i \in 1 .. n /\ j = n + 1
        BY <1>4, <2>3, <3>2
      <3>3. CASE i = n + 1 /\ j \in 1 .. n
        <4>1. Same(h.decls[j].specs[1].text, h.decls[i].specs[1].text)
          BY DEF Same
        <4> QED
          BY <1>4, <2>3, <3>3, <4>1
      <3> QED
        BY <1>2, <3>1, <3>2, <3>3
    <2> QED
      BY <2>1, <2>4
  <1>11. f # NoFile
    BY NotAFile
  <1> QED
    BY <1>1, <1>3, <1>7, <1>8, <1>9, <1>10, <1>11 DEF Merged, d, h

\* The declaration that stands alone is replaced.
LEMMA MergedReplace ==
    ASSUME NEW f \in FileRecord, NEW l, IsSymbolLock(l), f.parses, NEW m \in DOMAIN f.decls,
           Len(f.decls[m].specs) = 1, Selects(l, f.decls[m].specs[1].text)
    PROVE  Merged(f, [f EXCEPT !.decls[m] = LockedDecl(l)], l)
  <1> DEFINE d == LockedDecl(l)
             h == [f EXCEPT !.decls[m] = d]
  <1>1. d \in DeclRecord /\ d.specs \in Seq(SpecRecord) /\ LockedSpec(l) \in ToSet(d.specs)
    BY LockedDeclIs
  <1>2. f.decls \in Seq(DeclRecord) /\ f.decls[m].specs \in Seq(SpecRecord)
    BY AllSpecsIs
  <1> HIDE DEF d
  <1>3. h \in FileRecord /\ h.decls = [f.decls EXCEPT ![m] = d] /\ h.imports = f.imports /\ h.parses = f.parses
    <2>1. [f.decls EXCEPT ![m] = d] \in Seq(DeclRecord)
      BY <1>1, <1>2
    <2>2. h = [f EXCEPT !.decls = [f.decls EXCEPT ![m] = d]]
      OBVIOUS
    <2> QED
      BY <2>1, <2>2, WithDecls
  <1> HIDE DEF h
  <1>4. DOMAIN h.decls = DOMAIN f.decls /\ h.decls[m] = d /\ \A i \in DOMAIN f.decls : i # m => h.decls[i] = f.decls[i]
    BY <1>3
  <1>5. \A s : s \in AllSpecs(h) <=> \E i \in DOMAIN h.decls : \E j \in DOMAIN h.decls[i].specs : s = h.decls[i].specs[j]
    BY <1>3, AllSpecsIs
  <1>6. \A s : s \in AllSpecs(f) <=> \E i \in DOMAIN f.decls : \E j \in DOMAIN f.decls[i].specs : s = f.decls[i].specs[j]
    BY AllSpecsIs
  <1>7. DOMAIN f.decls[m].specs = {1}
    BY <1>2
  <1>8. \A s \in AllSpecs(f) : s \in AllSpecs(h) \/ Selects(l, s.text)
    <2> SUFFICES ASSUME NEW s \in AllSpecs(f), ~Selects(l, s.text) PROVE s \in AllSpecs(h)
      OBVIOUS
    <2>1. PICK i \in DOMAIN f.decls : \E j \in DOMAIN f.decls[i].specs : s = f.decls[i].specs[j]
      BY <1>6
    <2>2. i # m
      BY <1>7, <2>1
    <2> QED
      BY <1>4, <1>5, <2>1, <2>2
  <1>9. \A s \in AllSpecs(h) : s \in AllSpecs(f) \/ s \in ToSet(d.specs)
    <2> SUFFICES ASSUME NEW s \in AllSpecs(h) PROVE s \in AllSpecs(f) \/ s \in ToSet(d.specs)
      OBVIOUS
    <2>1. PICK i \in DOMAIN h.decls : \E j \in DOMAIN h.decls[i].specs : s = h.decls[i].specs[j]
      BY <1>5
    <2>2. CASE i = m
      BY <1>4, <2>1, <2>2 DEF ToSet
    <2>3. CASE i # m
      BY <1>4, <1>6, <2>1, <2>3
    <2> QED
      BY <2>2, <2>3
  <1>10. LockedSpec(l) \in AllSpecs(h)
    BY <1>1, <1>4, <1>5 DEF ToSet
  <1>11. Alone(f) /\ Once(f) /\ Exact(f, l) /\ Len(d.specs) = 1 => Alone(h) /\ Once(h)
    <2> SUFFICES ASSUME Alone(f), Once(f), Exact(f, l), Len(d.specs) = 1 PROVE Alone(h) /\ Once(h)
      OBVIOUS
    <2>1. Alone(h)
      BY <1>4 DEF Alone
    <2>2. d.specs[1] = LockedSpec(l)
      BY <1>1 DEF ToSet
    <2>3. f.decls[m].specs[1] \in AllSpecs(f)
      BY <1>6, <1>7
    <2>4. Same(f.decls[m].specs[1].text, LockedSpec(l).text)
      BY <2>3 DEF Exact
    <2>5. \A i \in DOMAIN f.decls : Same(h.decls[i].specs[1].text, f.decls[i].specs[1].text)
      BY <1>4, <2>2, <2>4 DEF Same
    <2>6. Once(h)
      <3> SUFFICES ASSUME NEW i \in DOMAIN f.decls, NEW j \in DOMAIN f.decls,
                          Same(h.decls[i].specs[1].text, h.decls[j].specs[1].text)
                   PROVE  i = j
        BY <1>4 DEF Once
      <3>1. Same(f.decls[i].specs[1].text, f.decls[j].specs[1].text)
        BY <2>5 DEF Same
      <3> QED
        BY <3>1 DEF Once
    <2> QED
      BY <2>1, <2>6
  <1>12. f # NoFile
    BY NotAFile
  <1> QED
    BY <1>3, <1>8, <1>9, <1>10, <1>11, <1>12 DEF Merged, d, h

\* One spec of a group replaces one spec of a group.
LEMMA MergedSpec ==
    ASSUME NEW f \in FileRecord, NEW l, IsSymbolLock(l), f.parses, NEW m \in DOMAIN f.decls,
           Len(f.decls[m].specs) # 1,
           NEW a \in DOMAIN f.decls[m].specs, Selects(l, f.decls[m].specs[a].text)
    PROVE  Merged(f, [f EXCEPT !.decls[m].specs[a] = LockedSpec(l)], l)
  <1> DEFINE x == LockedSpec(l)
             h == [f EXCEPT !.decls[m].specs[a] = x]
             d == f.decls[m]
             specs == [d.specs EXCEPT ![a] = x]
             e == [d EXCEPT !.specs = specs]
  <1>1. x \in SpecRecord /\ x \in ToSet(LockedDecl(l).specs)
    BY LockedDeclIs
  <1>2. f.decls \in Seq(DeclRecord) /\ d \in DeclRecord /\ d.specs \in Seq(SpecRecord)
    BY AllSpecsIs
  <1> HIDE DEF x
  <1>3. specs \in Seq(SpecRecord) /\ DOMAIN specs = DOMAIN d.specs
    BY <1>1, <1>2
  <1>4. h = [f EXCEPT !.decls = [f.decls EXCEPT ![m] = e]]
    OBVIOUS
  <1>5. specs[a] = x /\ \A j \in DOMAIN d.specs : j # a => specs[j] = d.specs[j]
    BY <1>2
  <1> HIDE DEF specs, h, d
  <1>6. e \in DeclRecord /\ e.specs = specs
    BY <1>2, <1>3 DEF DeclRecord
  <1> HIDE DEF e
  <1>7. h \in FileRecord /\ h.decls = [f.decls EXCEPT ![m] = e] /\ h.imports = f.imports /\ h.parses = f.parses
    <2>1. [f.decls EXCEPT ![m] = e] \in Seq(DeclRecord)
      BY <1>2, <1>6
    <2> QED
      BY <1>4, <2>1, WithDecls
  <1>8. DOMAIN h.decls = DOMAIN f.decls /\ h.decls[m].specs = specs
        /\ \A i \in DOMAIN f.decls : i # m => h.decls[i] = f.decls[i]
    BY <1>6, <1>7
  <1>9. \A s : s \in AllSpecs(h) <=> \E i \in DOMAIN h.decls : \E j \in DOMAIN h.decls[i].specs : s = h.decls[i].specs[j]
    BY <1>7, AllSpecsIs
  <1>10. \A s : s \in AllSpecs(f) <=> \E i \in DOMAIN f.decls : \E j \in DOMAIN f.decls[i].specs : s = f.decls[i].specs[j]
    BY AllSpecsIs
  <1>11. \A s \in AllSpecs(f) : s \in AllSpecs(h) \/ Selects(l, s.text)
    <2> SUFFICES ASSUME NEW s \in AllSpecs(f), ~Selects(l, s.text) PROVE s \in AllSpecs(h)
      OBVIOUS
    <2>1. PICK i \in DOMAIN f.decls : \E j \in DOMAIN f.decls[i].specs : s = f.decls[i].specs[j]
      BY <1>10
    <2>2. CASE i # m
      BY <1>8, <1>9, <2>1, <2>2
    <2>3. CASE i = m
      <3>1. PICK j \in DOMAIN d.specs : s = d.specs[j]
        BY <2>1, <2>3 DEF d
      <3>2. j # a
        BY <3>1 DEF d
      <3>3. s = specs[j] /\ j \in DOMAIN specs
        BY <1>3, <1>5, <3>1, <3>2
      <3> QED
        BY <1>8, <1>9, <3>3
    <2> QED
      BY <2>2, <2>3
  <1>12. \A s \in AllSpecs(h) : s \in AllSpecs(f) \/ s \in ToSet(LockedDecl(l).specs)
    <2> SUFFICES ASSUME NEW s \in AllSpecs(h) PROVE s \in AllSpecs(f) \/ s \in ToSet(LockedDecl(l).specs)
      OBVIOUS
    <2>1. PICK i \in DOMAIN f.decls : \E j \in DOMAIN h.decls[i].specs : s = h.decls[i].specs[j]
      BY <1>8, <1>9
    <2>2. CASE i # m
      BY <1>8, <1>10, <2>1, <2>2
    <2>3. CASE i = m
      <3>1. PICK j \in DOMAIN specs : s = specs[j]
        BY <1>8, <2>1, <2>3
      <3>2. CASE j = a
        BY <1>1, <1>5, <3>1, <3>2
      <3>3. CASE j # a
        BY <1>3, <1>5, <1>10, <3>1, <3>3 DEF d
      <3> QED
        BY <3>2, <3>3
    <2> QED
      BY <2>2, <2>3
  <1>13. x \in AllSpecs(h)
    BY <1>3, <1>5, <1>8, <1>9 DEF d
  <1>14. f # NoFile /\ ~Alone(f)
    BY NotAFile DEF Alone
  <1> QED
    BY <1>7, <1>11, <1>12, <1>13, <1>14 DEF Merged, x, h

\* applyGoSymbolLock fails, or merges the declaration and reconciles the imports.
LEMMA ApplyIs ==
    ASSUME NEW f \in FileRecord \cup {NoFile}, NEW l, IsSymbolLock(l)
    PROVE  LET g == applyGoSymbolLock(f, l) IN
           g = Broken \/ \E h : Merged(f, h, l) /\ g = reconcileGoImports(h, l.content)
  <1> DEFINE decl == LockedDecl(l)
             i    == findGoSymbolMatch(f.decls, l)
             a    == SelectedSpec(f.decls[i].specs, l)
             g    == applyGoSymbolLock(f, l)
  <1>1. CASE f = NoFile
    <2>1. g = goLockedSymbolFile(decl, l.content)
      BY <1>1 DEF applyGoSymbolLock
    <2>2. \E form \in {"none", "single", "group"} :
             g = reconcileGoImports([parses |-> TRUE, decls |-> <<decl>>, imports |-> l.content.imports, form |-> form], l.content)
      BY <2>1 DEF goLockedSymbolFile
    <2> QED
      BY <1>1, <2>2, MergedNew
  <1>2. CASE f # NoFile
    <2>1. f \in FileRecord
      BY <1>2
    <2>2. /\ f.decls \in Seq(DeclRecord)
          /\ \A k \in DOMAIN f.decls : f.decls[k].specs \in Seq(SpecRecord) /\ DOMAIN f.decls[k].specs = 1 .. Len(f.decls[k].specs)
      BY <2>1, AllSpecsIs
    <2>3. \/ /\ i = 0
             /\ \A k \in DOMAIN f.decls : \A j \in DOMAIN f.decls[k].specs : ~Selects(l, f.decls[k].specs[j].text)
          \/ i # 0 /\ i \in DOMAIN f.decls /\ a \in DOMAIN f.decls[i].specs /\ Selects(l, f.decls[i].specs[a].text)
      BY <2>2, MatchIs
    <2>4. \/ g = Broken
          \/ f.parses /\ i = 0 /\ g = reconcileGoImports([f EXCEPT !.decls = Append(@, decl)], l.content)
          \/ /\ f.parses /\ i # 0 /\ ~(Len(f.decls[i].specs) > 1)
             /\ g = reconcileGoImports([f EXCEPT !.decls[i] = decl], l.content)
          \/ /\ f.parses /\ i # 0 /\ Len(f.decls[i].specs) > 1
             /\ g = reconcileGoImports([f EXCEPT !.decls[i].specs[a] = LockedSpec(l)], l.content)
      BY <1>2 DEF applyGoSymbolLock
    <2> HIDE DEF g, i, a
    <2>5. CASE f.parses /\ i = 0 /\ g = reconcileGoImports([f EXCEPT !.decls = Append(@, decl)], l.content)
      <3>1. Merged(f, [f EXCEPT !.decls = Append(@, decl)], l)
        BY <2>1, <2>3, <2>5, MergedAppend
      <3> QED
        BY <2>5, <3>1 DEF g
    <2>6. CASE /\ f.parses /\ i # 0 /\ ~(Len(f.decls[i].specs) > 1)
               /\ g = reconcileGoImports([f EXCEPT !.decls[i] = decl], l.content)
      <3> DEFINE n == Len(f.decls[i].specs)
      <3>1. i \in DOMAIN f.decls /\ a \in 1 .. n /\ n \in Nat /\ ~(n > 1)
        BY <2>2, <2>3, <2>6
      <3> HIDE DEF n
      <3>1a. n = 1 /\ a = 1
        BY <3>1
      <3>2. Len(f.decls[i].specs) = 1 /\ a = 1
        BY <3>1a DEF n
      <3>3. Merged(f, [f EXCEPT !.decls[i] = decl], l)
        BY <2>1, <2>3, <2>6, <3>1, <3>2, MergedReplace
      <3> QED
        BY <2>6, <3>3 DEF g
    <2>7. CASE /\ f.parses /\ i # 0 /\ Len(f.decls[i].specs) > 1
               /\ g = reconcileGoImports([f EXCEPT !.decls[i].specs[a] = LockedSpec(l)], l.content)
      <3> DEFINE n == Len(f.decls[i].specs)
      <3>1a. n \in Nat /\ n > 1
        BY <2>2, <2>3, <2>7
      <3> HIDE DEF n
      <3>1b. n # 1
        BY <3>1a
      <3>1. Len(f.decls[i].specs) # 1
        BY <3>1b DEF n
      <3>2. Merged(f, [f EXCEPT !.decls[i].specs[a] = LockedSpec(l)], l)
        BY <2>1, <2>3, <2>7, <3>1, MergedSpec
      <3> QED
        BY <2>7, <3>2 DEF g
    <2> QED
      BY <2>4, <2>5, <2>6, <2>7 DEF g
  <1> QED
    BY <1>1, <1>2

-----------------------------------------------------------------------------
(***************************************************************************)
(* Well-formed files.                                                      *)
(***************************************************************************)

\* What BundleFilesWellFormed asks of the contents C of a file and its locks.
Kept(C, here) ==
    /\ C \subseteq Contents
    /\ \A c \in C : Plain(c) /\ WellFormed(FileOf(c, 0))
    /\ Harmonious(C, {l \in here : l.mode = "go_symbol"})
    /\ \A l \in here : l.content \in C

\* A file that is made of them and whose imports are those that are used.
Tidy(f, C) ==
    /\ f.parses /\ Alone(f) /\ Once(f)
    /\ \A s \in AllSpecs(f) : s.text \in UNION {AllTexts(c) : c \in C}
    /\ f.imports \subseteq UNION {c.imports : c \in C}
    /\ {Binding(i) : i \in f.imports} = UNION {s.text.uses : s \in AllSpecs(f)}

\* The packages that a text refers to are named by identifiers before a dot.
LEMMA UsesSelected ==
    ASSUME NEW c \in Contents, NEW x \in AllTexts(c), NEW u \in x.uses
    PROVE  u.name \in x.selectors
  BY ContentType DEF IsContent

\* The imports of plain contents.
LEMMA PlainBinding ==
    ASSUME NEW C, NEW here, Kept(C, here), NEW i \in UNION {c.imports : c \in C}
    PROVE  /\ i.alias = "" /\ Binding(i).name = LastElement[i.path] /\ Binding(i).path = i.path
           /\ \A j \in UNION {c.imports : c \in C} : i.path = j.path => i = j
  <1>1. \A j \in UNION {c.imports : c \in C} :
           j.alias = "" /\ PackageName[j.path] = LastElement[j.path] /\ j = [path |-> j.path, alias |-> j.alias]
    <2> SUFFICES ASSUME NEW c \in C, NEW j \in c.imports
                 PROVE  j.alias = "" /\ PackageName[j.path] = LastElement[j.path] /\ j = [path |-> j.path, alias |-> j.alias]
      OBVIOUS
    <2>1. c \in Contents /\ Plain(c)
      BY DEF Kept
    <2>2. j \in [path : DOMAIN LastElement, alias : STRING]
      BY <2>1, ContentType DEF IsContent
    <2> QED
      BY <2>1, <2>2 DEF Plain
  <1> QED
    BY <1>1 DEF Binding

\* A content as a whole is tidy.
LEMMA ContentTidy ==
    ASSUME NEW C, NEW here, Kept(C, here), NEW c \in C, NEW id \in Nat
    PROVE  Tidy(FileOf(c, id), C)
  <1> DEFINE f == FileOf(c, id)
             w == FileOf(c, 0)
  <1>1. c \in Contents /\ Plain(c) /\ WellFormed(w)
    BY DEF Kept
  <1>2. /\ f \in FileRecord /\ f.parses = c.parses /\ f.imports = c.imports /\ DOMAIN f.decls = DOMAIN c.decls
        /\ \A i \in DOMAIN c.decls :
              /\ DOMAIN f.decls[i].specs = DOMAIN c.decls[i].specs /\ Len(f.decls[i].specs) = Len(c.decls[i].specs)
              /\ \A j \in DOMAIN c.decls[i].specs : f.decls[i].specs[j] = [text |-> c.decls[i].specs[j], by |-> id]
    BY <1>1, FileOfType
  <1>3. /\ w \in FileRecord /\ w.parses = c.parses /\ w.imports = c.imports /\ DOMAIN w.decls = DOMAIN c.decls
        /\ \A i \in DOMAIN c.decls :
              /\ DOMAIN w.decls[i].specs = DOMAIN c.decls[i].specs
              /\ \A j \in DOMAIN c.decls[i].specs : w.decls[i].specs[j] = [text |-> c.decls[i].specs[j], by |-> 0]
    BY <1>1, FileOfType
  <1>4. /\ \A s \in AllSpecs(f) : s.text \in AllTexts(c)
        /\ \A x \in AllTexts(c) : [text |-> x, by |-> id] \in AllSpecs(f)
    BY <1>1, WholeIs
  <1>5. /\ \A s \in AllSpecs(w) : s.text \in AllTexts(c)
        /\ \A x \in AllTexts(c) : [text |-> x, by |-> 0] \in AllSpecs(w)
    BY <1>1, WholeIs
  <1> HIDE DEF f, w
  <1>6. UNION {s.text.uses : s \in AllSpecs(f)} = UNION {x.uses : x \in AllTexts(c)}
    <2>1. \A s \in AllSpecs(f) : s.text.uses \subseteq UNION {x.uses : x \in AllTexts(c)}
      BY <1>4
    <2>2. \A x \in AllTexts(c) : x.uses \subseteq UNION {s.text.uses : s \in AllSpecs(f)}
      <3> SUFFICES ASSUME NEW x \in AllTexts(c) PROVE x.uses \subseteq UNION {s.text.uses : s \in AllSpecs(f)}
        OBVIOUS
      <3>1. PICK s \in AllSpecs(f) : s = [text |-> x, by |-> id]
        BY <1>4
      <3> QED
        BY <3>1
    <2> QED
      BY <2>1, <2>2
  <1>7. UNION {s.text.uses : s \in AllSpecs(w)} = UNION {x.uses : x \in AllTexts(c)}
    <2>1. \A s \in AllSpecs(w) : s.text.uses \subseteq UNION {x.uses : x \in AllTexts(c)}
      BY <1>5
    <2>2. \A x \in AllTexts(c) : x.uses \subseteq UNION {s.text.uses : s \in AllSpecs(w)}
      <3> SUFFICES ASSUME NEW x \in AllTexts(c) PROVE x.uses \subseteq UNION {s.text.uses : s \in AllSpecs(w)}
        OBVIOUS
      <3>1. PICK s \in AllSpecs(w) : s = [text |-> x, by |-> 0]
        BY <1>5
      <3> QED
        BY <3>1
    <2> QED
      BY <2>1, <2>2
  <1>8. {Binding(i) : i \in f.imports} = UNION {s.text.uses : s \in AllSpecs(f)}
    BY <1>1, <1>2, <1>3, <1>6, <1>7 DEF WellFormed
  <1>9. f.parses
    BY <1>1, <1>2, <1>3 DEF WellFormed
  <1>10. Alone(f)
    BY <1>1, <1>2 DEF Plain, Alone
  <1>11. Once(f)
    <2> SUFFICES ASSUME NEW i \in DOMAIN c.decls, NEW j \in DOMAIN c.decls,
                        Same(f.decls[i].specs[1].text, f.decls[j].specs[1].text)
                 PROVE  i = j
      BY <1>2 DEF Once
    <2>0. \A k \in DOMAIN c.decls : c.decls[k].specs \in Seq(ToSet(c.decls[k].specs)) /\ Len(c.decls[k].specs) = 1
      BY <1>1, ContentType DEF Plain
    <2>1. 1 \in DOMAIN c.decls[i].specs /\ 1 \in DOMAIN c.decls[j].specs
      BY <2>0
    <2> DEFINE s == c.decls[i].specs[1]
               t == c.decls[j].specs[1]
    <2>1a. f.decls[i].specs[1] = [text |-> s, by |-> id] /\ f.decls[j].specs[1] = [text |-> t, by |-> id]
      BY <1>2, <2>1
    <2>1b. w.decls[i].specs[1] = [text |-> s, by |-> 0] /\ w.decls[j].specs[1] = [text |-> t, by |-> 0]
      BY <1>3, <2>1
    <2>2. f.decls[i].specs[1].text = s /\ f.decls[j].specs[1].text = t
      BY <2>1a
    <2>3. w.decls[i].specs[1].text = s /\ w.decls[j].specs[1].text = t
      BY <2>1b
    <2>4. s \in AllTexts(c)
      BY <1>1, <2>1, AllTextsIs
    <2>5. PICK n : s.names = {n}
      BY <1>1, <2>4 DEF Plain
    <2>6. /\ i \in DOMAIN w.decls /\ j \in DOMAIN w.decls
          /\ 1 \in DOMAIN w.decls[i].specs /\ 1 \in DOMAIN w.decls[j].specs
      BY <1>3, <2>1
    <2>7. w.decls[i].specs[1].text.receiver = w.decls[j].specs[1].text.receiver
          /\ w.decls[i].specs[1].text.names \cap w.decls[j].specs[1].text.names # {}
      BY <2>2, <2>3, <2>5 DEF Same
    <2> QED
      BY <1>1, <2>6, <2>7 DEF WellFormed
  <1>12. \A s \in AllSpecs(f) : s.text \in UNION {AllTexts(d) : d \in C}
    BY <1>4
  <1>13. f.imports \subseteq UNION {d.imports : d \in C}
    BY <1>2
  <1> QED
    BY <1>8, <1>9, <1>10, <1>11, <1>12, <1>13 DEF Tidy, f

\* reconcileGoImports leaves exactly the imports that are used, when no identifier
\* before a dot stands for anything else.
LEMMA ReconcileTidy ==
    ASSUME NEW C, NEW here, Kept(C, here), NEW c \in C, NEW h \in FileRecord,
           h.parses, Alone(h), Once(h),
           \A s \in AllSpecs(h) : s.text \in UNION {AllTexts(d) : d \in C},
           h.imports \subseteq UNION {d.imports : d \in C},
           \A s \in AllSpecs(h) : s.text.uses \subseteq {Binding(i) : i \in h.imports \cup c.imports},
           reconcileGoImports(h, c) # Broken
    PROVE  Tidy(reconcileGoImports(h, c), C)
  <1> DEFINE g == reconcileGoImports(h, c)
             all == AllImports(h, c)
             I == UNION {d.imports : d \in C}
  <1>1. C \subseteq Contents /\ Harmonious(C, {l \in here : l.mode = "go_symbol"})
    BY DEF Kept
  <1>2. g.decls = h.decls /\ g.parses = h.parses
        /\ g.imports = {i \in all : i.alias # "" \/ LastElement[i.path] \in goUsedSelectors(h)}
    BY <1>1, ReconcileIs
  <1>3. all \subseteq I
    BY DEF AllImports
  <1>4. \A i \in I : i.alias = "" /\ Binding(i).name = LastElement[i.path] /\ \A j \in I : i.path = j.path => i = j
    BY PlainBinding
  <1>5. h.imports \cup c.imports \subseteq all
    <2>1. \A i \in c.imports : i \in I
      OBVIOUS
    <2> QED
      BY <1>4, <2>1 DEF AllImports
  <1>6. AllSpecs(g) = AllSpecs(h)
    BY <1>2 DEF AllSpecs
  <1> HIDE DEF g, all, I
  <1>7. g.imports = {i \in all : LastElement[i.path] \in goUsedSelectors(h)}
    BY <1>2, <1>3, <1>4
  <1>8. ASSUME NEW i \in g.imports
        PROVE  Binding(i) \in UNION {s.text.uses : s \in AllSpecs(h)}
    <2>1. i \in I /\ LastElement[i.path] \in goUsedSelectors(h)
      BY <1>3, <1>7
    <2>2. PICK s \in AllSpecs(h) : LastElement[i.path] \in s.text.selectors
      BY <2>1 DEF goUsedSelectors
    <2>3. Binding(i) \in s.text.uses
      BY <1>1, <2>1, <2>2 DEF Harmonious, I
    <2> QED
      BY <2>3
  <1>9. ASSUME NEW s \in AllSpecs(h), NEW u \in s.text.uses
        PROVE  u \in {Binding(i) : i \in g.imports}
    <2>1. PICK i \in all : u = Binding(i)
      BY <1>5
    <2>2. PICK d \in C : s.text \in AllTexts(d)
      OBVIOUS
    <2>3. u.name \in s.text.selectors
      BY <1>1, <2>2, UsesSelected
    <2>4. LastElement[i.path] \in s.text.selectors
      BY <1>3, <1>4, <2>1, <2>3
    <2>5. LastElement[i.path] \in goUsedSelectors(h)
      BY <2>4 DEF goUsedSelectors
    <2> QED
      BY <1>7, <2>1, <2>5
  <1>10. {Binding(i) : i \in g.imports} = UNION {s.text.uses : s \in AllSpecs(h)}
    BY <1>8, <1>9
  <1>11. Alone(g) /\ Once(g)
    BY <1>2 DEF Alone, Once
  <1>12. g.imports \subseteq I
    BY <1>3, <1>7
  <1> QED
    BY <1>2, <1>6, <1>10, <1>11, <1>12 DEF Tidy, g, I

\* What declares the same as the locked declaration is what the lock selects.
LEMMA HarmoniousExact ==
    ASSUME NEW C, NEW here, Kept(C, here), NEW l \in here, IsSymbolLock(l), NEW f,
           \A s \in AllSpecs(f) : s.text \in UNION {AllTexts(c) : c \in C}
    PROVE  Exact(f, l) /\ Len(LockedDecl(l).specs) = 1
  <1> DEFINE x == LockedSpec(l).text
             texts == UNION {AllTexts(c) : c \in C}
  <1>1. Harmonious(C, {k \in here : k.mode = "go_symbol"}) /\ l.content \in C /\ Plain(l.content) /\ l.mode = "go_symbol"
    BY DEF Kept, IsSymbolLock
  <1>2. Selects(l, x) /\ x \in AllTexts(l.content)
    BY LockedDeclIs
  <1>3. Len(LockedDecl(l).specs) = 1
    BY <1>1, LockedDeclIs DEF Plain
  <1> HIDE DEF x
  <1>4. x \in texts
    BY <1>1, <1>2
  <1>5. ASSUME NEW t \in texts
        PROVE  Same(t, x) <=> Selects(l, t)
    <2>1. Same(t, x) => t.kind = x.kind
      BY <1>1, <1>4 DEF Harmonious, Same
    <2>2. Selects(l, t) => t.receiver = x.receiver
      BY <1>1, <1>2, <1>4 DEF Harmonious
    <2> QED
      BY <1>2, <2>1, <2>2 DEF Same, Selects
  <1>6. Exact(f, l)
    BY <1>5 DEF Exact, x
  <1> QED
    BY <1>3, <1>6

\* A symbol lock keeps a file tidy.
LEMMA ApplyTidy ==
    ASSUME NEW C, NEW here, Kept(C, here), NEW l \in here, IsSymbolLock(l),
           NEW f \in FileRecord \cup {NoFile}, f = NoFile \/ Tidy(f, C), NEW h, Merged(f, h, l),
           reconcileGoImports(h, l.content) # Broken
    PROVE  Tidy(reconcileGoImports(h, l.content), C)
  <1> DEFINE c == l.content
             texts == UNION {AllTexts(d) : d \in C}
             I == UNION {d.imports : d \in C}
  <1>1. c \in C /\ c \in Contents /\ WellFormed(FileOf(c, 0))
    BY DEF Kept
  <1>2. h \in FileRecord /\ h.parses
    BY DEF Merged
  <1>3. f # NoFile => \A s \in AllSpecs(f) : s.text \in texts
    BY DEF Tidy
  <1>4. f # NoFile => Exact(f, l)
    BY <1>3, HarmoniousExact
  <1>5. Len(LockedDecl(l).specs) = 1
    <2>1. AllSpecs([decls |-> << >>]) = {}
      BY DEF AllSpecs
    <2> QED
      BY <2>1, HarmoniousExact
  <1>6. Alone(h) /\ Once(h)
    BY <1>4, <1>5 DEF Merged, Tidy
  <1>7. \A s \in ToSet(LockedDecl(l).specs) : s.text \in AllTexts(c)
    BY LockedDeclIs
  <1>8. \A s \in AllSpecs(h) : s.text \in texts
    BY <1>1, <1>3, <1>7 DEF Merged
  <1>9. h.imports \subseteq I
    BY <1>1 DEF Merged, Tidy
  <1>10. \A x \in AllTexts(c) : x.uses \subseteq {Binding(i) : i \in c.imports}
    <2>1. FileOf(c, 0).imports = c.imports
      BY <1>1, FileOfType
    <2>2. \A x \in AllTexts(c) : [text |-> x, by |-> 0] \in AllSpecs(FileOf(c, 0))
      BY <1>1, WholeIs
    <2> DEFINE w == FileOf(c, 0)
    <2> HIDE DEF w
    <2>3. {Binding(i) : i \in c.imports} = UNION {s.text.uses : s \in AllSpecs(w)}
      BY <1>1, <2>1 DEF WellFormed, w
    <2>4. ASSUME NEW x \in AllTexts(c)
          PROVE  x.uses \subseteq UNION {s.text.uses : s \in AllSpecs(w)}
      <3>1. PICK s \in AllSpecs(w) : s = [text |-> x, by |-> 0]
        BY <2>2 DEF w
      <3> QED
        BY <3>1
    <2> QED
      BY <2>3, <2>4
  <1>11. ASSUME NEW s \in AllSpecs(h)
         PROVE  s.text.uses \subseteq {Binding(i) : i \in h.imports \cup c.imports}
    <2>1. CASE f # NoFile /\ s \in AllSpecs(f)
      <3>1. s.text.uses \subseteq {Binding(i) : i \in f.imports}
        BY <2>1 DEF Tidy
      <3>2. h.imports = f.imports
        BY <2>1 DEF Merged
      <3> QED
        BY <3>1, <3>2
    <2>2. CASE s \in ToSet(LockedDecl(l).specs)
      BY <1>7, <1>10, <2>2
    <2> QED
      BY <2>1, <2>2 DEF Merged
  <1> HIDE DEF c
  <1>12. reconcileGoImports(h, c) # Broken
    BY DEF c
  <1>13. Tidy(reconcileGoImports(h, c), C)
    BY <1>1, <1>2, <1>6, <1>8, <1>9, <1>11, <1>12, ReconcileTidy
  <1> QED
    BY <1>13 DEF c

\* A tidy file is well-formed.
LEMMA TidyWellFormed ==
    ASSUME NEW C, NEW here, Kept(C, here), NEW f \in FileRecord, Tidy(f, C)
    PROVE  WellFormed(f)
  <1> DEFINE texts == UNION {AllTexts(d) : d \in C}
             I == UNION {d.imports : d \in C}
  <1>1. C \subseteq Contents /\ Harmonious(C, {l \in here : l.mode = "go_symbol"})
        /\ \A c \in C : Plain(c) /\ WellFormed(FileOf(c, 0))
    BY DEF Kept
  <1>2. \A i \in I : Binding(i).name = LastElement[i.path] /\ Binding(i).path = i.path /\ \A j \in I : i.path = j.path => i = j
    BY PlainBinding
  <1>3. \A s \in AllSpecs(f) : s.text \in texts
    BY DEF Tidy
  <1>4. f.imports \subseteq I /\ {Binding(i) : i \in f.imports} = UNION {s.text.uses : s \in AllSpecs(f)}
    BY DEF Tidy
  <1>5. ASSUME NEW i \in f.imports, NEW j \in f.imports, Binding(i).name = Binding(j).name
        PROVE  i = j
    <2>1. i \in I /\ j \in I /\ LastElement[i.path] = LastElement[j.path]
      BY <1>2, <1>4, <1>5
    <2>2. PICK s \in AllSpecs(f) : Binding(i) \in s.text.uses
      <3>1. Binding(i) \in {Binding(k) : k \in f.imports}
        OBVIOUS
      <3> QED
        BY <1>4, <3>1
    <2>3. PICK c \in C : s.text \in AllTexts(c)
      BY <1>3
    <2>4. c \in Contents /\ WellFormed(FileOf(c, 0))
      BY <1>1
    <2>5. LastElement[j.path] \in s.text.selectors
      BY <1>2, <2>1, <2>2, <2>3, <2>4, UsesSelected
    <2>6. Binding(j) \in s.text.uses
      BY <1>1, <2>1, <2>3, <2>5 DEF Harmonious
    <2> DEFINE w == FileOf(c, 0)
    <2>7. w.imports = c.imports /\ [text |-> s.text, by |-> 0] \in AllSpecs(w)
      BY <2>3, <2>4, FileOfType, WholeIs
    <2> HIDE DEF w
    <2>8. {Binding(i), Binding(j)} \subseteq UNION {z.text.uses : z \in AllSpecs(w)}
      <3>1. PICK z \in AllSpecs(w) : z = [text |-> s.text, by |-> 0]
        BY <2>7
      <3> QED
        BY <2>2, <2>6, <3>1
    <2>9. {Binding(i), Binding(j)} \subseteq {Binding(k) : k \in c.imports}
      BY <2>4, <2>7, <2>8 DEF WellFormed, w
    <2>10. PICK k \in c.imports, m \in c.imports : Binding(k) = Binding(i) /\ Binding(m) = Binding(j)
      BY <2>9
    <2>11. k = m
      BY <1>5, <2>4, <2>7, <2>10 DEF WellFormed, w
    <2>12. Binding(i) = Binding(j)
      BY <2>10, <2>11
    <2>13. Binding(i).path = i.path /\ Binding(j).path = j.path
      BY <1>2, <2>1
    <2>14. i.path = j.path
      BY <2>12, <2>13
    <2> QED
      BY <1>2, <2>1, <2>14
  <1>6. \A i \in f.imports : \A s \in AllSpecs(f) : s.text.kind # "method" => Binding(i).name \notin s.text.names
    BY <1>1, <1>2, <1>3, <1>4 DEF Harmonious
  <1>7. ASSUME NEW i \in DOMAIN f.decls, NEW j \in DOMAIN f.decls,
               NEW a \in DOMAIN f.decls[i].specs, NEW b \in DOMAIN f.decls[j].specs,
               f.decls[i].specs[a].text.receiver = f.decls[j].specs[b].text.receiver,
               f.decls[i].specs[a].text.names \cap f.decls[j].specs[b].text.names # {}
        PROVE  i = j /\ a = b
    <2>1. \A k \in DOMAIN f.decls : DOMAIN f.decls[k].specs = {1}
      BY AllSpecsIs DEF Tidy, Alone
    <2>2. a = 1 /\ b = 1
      BY <2>1
    <2>3. f.decls[i].specs[1] \in AllSpecs(f) /\ f.decls[j].specs[1] \in AllSpecs(f)
      BY <2>2, AllSpecsIs
    <2>4. \A t \in texts : \E n \in t.names : t.names = {n}
      BY <1>1 DEF Plain
    <2>5. f.decls[i].specs[1].text.names = f.decls[j].specs[1].text.names
      <3>1. PICK m : f.decls[i].specs[1].text.names = {m}
        BY <1>3, <2>3, <2>4
      <3>2. PICK n : f.decls[j].specs[1].text.names = {n}
        BY <1>3, <2>3, <2>4
      <3>3. {m} \cap {n} # {}
        BY <1>7, <2>2, <3>1, <3>2
      <3> QED
        BY <3>1, <3>2, <3>3
    <2> QED
      BY <1>7, <2>2, <2>5 DEF Tidy, Once, Same
  <1>8. f.parses
    BY DEF Tidy
  <1>9. \A i, j \in DOMAIN f.decls :
          \A a \in DOMAIN f.decls[i].specs, b \in DOMAIN f.decls[j].specs :
             LET s == f.decls[i].specs[a].text
                 t == f.decls[j].specs[b].text
             IN  s.receiver = t.receiver /\ s.names \cap t.names # {} => i = j /\ a = b
    BY <1>7, Zenon
  <1>10. \A i, j \in f.imports : Binding(i).name = Binding(j).name => i = j
    BY <1>5, Zenon
  <1>11. {Binding(i) : i \in f.imports} = UNION {s.text.uses : s \in AllSpecs(f)}
    BY <1>4, Zenon
  <1> HIDE DEF texts, I
  <1> QED
    BY <1>6, <1>8, <1>9, <1>10, <1>11 DEF WellFormed

-----------------------------------------------------------------------------
(***************************************************************************)
(* All locks of one file.                                                  *)
(***************************************************************************)

\* Where a scope comes, files before symbols.
LEMMA PositionIs ==
    /\ DOMAIN ScopeOrder = 1 .. Len(ScopeOrder) /\ Len(ScopeOrder) \in Nat
    /\ \A l : Asked(l) => /\ Position(l) \in DOMAIN ScopeOrder
                          /\ \A n \in DOMAIN ScopeOrder : ScopeOrder[n] = codeLockScope(l) <=> n = Position(l)
    /\ \A k, l : Asked(k) /\ Asked(l) /\ k.mode = "file" /\ l.mode = "go_symbol" => Position(k) < Position(l)
  <1>1. DOMAIN ScopeOrder = 1 .. Len(ScopeOrder) /\ Len(ScopeOrder) \in Nat
    BY CodeLocksAssumption DEF IsSeq
  <1>2. ASSUME NEW l, Asked(l)
        PROVE  /\ Position(l) \in DOMAIN ScopeOrder
               /\ \A n \in DOMAIN ScopeOrder : ScopeOrder[n] = codeLockScope(l) <=> n = Position(l)
    <2>1. \E n \in DOMAIN ScopeOrder : ScopeOrder[n] = codeLockScope(l)
      BY <1>2 DEF Asked, ToSet
    <2>2. Position(l) \in DOMAIN ScopeOrder /\ ScopeOrder[Position(l)] = codeLockScope(l)
      BY <2>1, Zenon DEF Position
    <2>3. \A m, n \in DOMAIN ScopeOrder : ScopeOrder[m] = ScopeOrder[n] => m = n
      BY CodeLocksAssumption
    <2> QED
      BY <2>2, <2>3
  <1>3. ASSUME NEW k, NEW l, Asked(k), Asked(l), k.mode = "file", l.mode = "go_symbol"
        PROVE  Position(k) < Position(l)
    <2>1. codeLockScope(k)[1] = "file" /\ codeLockScope(l)[1] = "go_symbol"
      BY <1>3 DEF codeLockScope
    <2>2. Position(k) \in DOMAIN ScopeOrder /\ Position(l) \in DOMAIN ScopeOrder
          /\ ScopeOrder[Position(k)] = codeLockScope(k) /\ ScopeOrder[Position(l)] = codeLockScope(l)
      BY <1>2, <1>3
    <2>3. \A m, n \in DOMAIN ScopeOrder : ScopeOrder[m][1] = "go_symbol" /\ ScopeOrder[n][1] = "file" => n < m
      BY CodeLocksAssumption
    <2> QED
      BY <2>1, <2>2, <2>3
  <1> QED
    BY <1>1, <1>2, <1>3

\* The locks of a file that a bundle applies: one for each scope.
IsHere(here, p) ==
    /\ here \subseteq LockRecord
    /\ \A l \in here : Asked(l) /\ Cleaned[l.path] = p
    /\ \A k, l \in here : codeLockScope(k) = codeLockScope(l) => k = l

\* The file after the first n scopes, f what it was before them and C the contents
\* that it is made of.
After(g, f, here, C, n) ==
    /\ g \in FileRecord \cup {NoFile}
    /\ \A l \in here : Position(l) <= n => Preserved(g, l) \/ \E k \in here : Disturbs(k, l)
    /\ g # NoFile => \A s \in AllSpecs(g) :
          \/ f # NoFile /\ s \in AllSpecs(f)
          \/ \E l \in here : l.id = s.by /\ (l.mode = "go_symbol" => s \in ToSet(LockedDecl(l).specs))
    /\ f # NoFile => /\ g # NoFile
                     /\ \A s \in AllSpecs(f) : \/ s \in AllSpecs(g)
                                               \/ \E l \in here : l.mode = "file" \/ Selects(l, s.text)
    /\ Kept(C, here) /\ (f = NoFile \/ Tidy(f, C)) => g = NoFile \/ Tidy(g, C)

\* One more scope.
LEMMA AfterOne ==
    ASSUME NEW here, NEW p, IsHere(here, p), NEW f0, NEW C, NEW n \in Nat, n + 1 \in DOMAIN ScopeOrder,
           NEW f, f = Broken \/ After(f, f0, here, C, n)
    PROVE  LET g == OneScope(f, here, ScopeOrder[n + 1]) IN g = Broken \/ After(g, f0, here, C, n + 1)
  <1> DEFINE on == {l \in here : codeLockScope(l) = ScopeOrder[n + 1]}
             l == CHOOSE k \in on : TRUE
             g == OneScope(f, here, ScopeOrder[n + 1])
  <1>1. g = IF f = Broken \/ on = {} THEN f
            ELSE IF l.mode = "file" THEN FileOf(l.content, l.id) ELSE applyGoSymbolLock(f, l)
    BY DEF OneScope
  <1>2. on # {} => l \in on
    OBVIOUS
  <1>3. \A k \in here : /\ Position(k) \in Nat /\ (codeLockScope(k) = ScopeOrder[n + 1] <=> Position(k) = n + 1)
                        /\ Asked(k) /\ k \in LockRecord /\ Cleaned[k.path] = p
    BY PositionIs DEF IsHere
  <1> HIDE DEF on, l, g
  <1>4. CASE f = Broken
    BY <1>1, <1>4 DEF g
  <1>5. CASE f # Broken /\ on = {}
    <2>1. g = f /\ After(f, f0, here, C, n)
      BY <1>1, <1>5
    <2>2. \A k \in here : Position(k) <= n + 1 => Position(k) <= n
      BY <1>3, <1>5 DEF on
    <2> QED
      BY <2>1, <2>2 DEF After, g
  <1>6. CASE f # Broken /\ on # {}
    <2>1. l \in here /\ Position(l) = n + 1 /\ Asked(l) /\ l \in LockRecord /\ Cleaned[l.path] = p
      BY <1>2, <1>3, <1>6 DEF on
    <2>2. After(f, f0, here, C, n) /\ f \in FileRecord \cup {NoFile}
      BY <1>6 DEF After
    <2>3. g = IF l.mode = "file" THEN FileOf(l.content, l.id) ELSE applyGoSymbolLock(f, l)
      BY <1>1, <1>6
    <2>4. l.mode \in {"file", "go_symbol"} /\ l.content \in Contents /\ l.id \in Nat
      BY <2>1, LockType
    <2>5. \A k \in here : Position(k) <= n + 1 => k = l \/ Position(k) <= n
      <3> SUFFICES ASSUME NEW k \in here, Position(k) <= n + 1, ~(Position(k) <= n) PROVE k = l
        OBVIOUS
      <3>1. Position(k) = n + 1
        BY <1>3
      <3>2. codeLockScope(k) = codeLockScope(l)
        BY <1>3, <2>1, <3>1
      <3> QED
        BY <2>1, <3>2 DEF IsHere
    <2>6. \A k \in here : Position(k) <= n /\ k.mode = "file" => Disturbs(l, k)
      BY <1>3, <2>1 DEF Disturbs
    <2> SUFFICES ASSUME g # Broken PROVE After(g, f0, here, C, n + 1)
      BY DEF g
    <2>7. CASE l.mode = "file"
      <3>1. g = FileOf(l.content, l.id)
        BY <2>3, <2>7
      <3>2. g \in FileRecord /\ g # NoFile
        BY <2>4, <3>1, FileOfType, NotAFile
      <3>3. ASSUME NEW k \in here, Position(k) <= n + 1
            PROVE  Preserved(g, k) \/ \E j \in here : Disturbs(j, k)
        <4>1. CASE k = l
          BY <2>7, <3>1, <4>1 DEF Preserved
        <4>2. CASE Position(k) <= n
          <5>1. ~(Position(l) < Position(k))
            BY <1>3, <2>1, <4>2
          <5>2. k.mode # "go_symbol"
            BY <1>3, <2>1, <2>7, <5>1, PositionIs
          <5>3. k.mode = "file"
            BY <1>3, <5>2, LockType
          <5> QED
            BY <2>1, <2>6, <4>2, <5>3
        <4> QED
          BY <2>5, <3>3, <4>1, <4>2
      <3>4. \A s \in AllSpecs(g) : s.by = l.id
        BY <2>4, <3>1, WholeIs
      <3>5. Kept(C, here) => Tidy(g, C)
        <4> SUFFICES ASSUME Kept(C, here) PROVE Tidy(g, C)
          OBVIOUS
        <4>1. l.content \in C
          BY <2>1 DEF Kept
        <4> QED
          BY <2>4, <3>1, <4>1, ContentTidy
      <3> QED
        BY <2>1, <2>7, <3>2, <3>3, <3>4, <3>5 DEF After
    <2>8. CASE l.mode = "go_symbol"
      <3>1. IsSymbolLock(l) /\ g = applyGoSymbolLock(f, l)
        BY <2>1, <2>3, <2>8 DEF IsSymbolLock, Asked
      <3>2. PICK h : Merged(f, h, l) /\ g = reconcileGoImports(h, l.content)
        BY <2>2, <3>1, ApplyIs
      <3>3. h \in FileRecord
        BY <3>2 DEF Merged
      <3>4. g \in FileRecord /\ g.decls = h.decls
        BY <2>4, <3>2, <3>3, ReconcileIs
      <3>5. g # NoFile /\ AllSpecs(g) = AllSpecs(h)
        BY <3>4, NotAFile DEF AllSpecs
      <3>6. ASSUME NEW k \in here, Position(k) <= n + 1
            PROVE  Preserved(g, k) \/ \E j \in here : Disturbs(j, k)
        <4>1. CASE k = l
          BY <2>8, <3>2, <3>5, <4>1 DEF Preserved, Merged
        <4>2. CASE Position(k) <= n /\ k.mode = "file"
          BY <2>1, <2>6, <4>2
        <4>3. CASE Position(k) <= n /\ k.mode = "go_symbol"
          <5>1. Preserved(f, k) \/ \E j \in here : Disturbs(j, k)
            BY <2>2, <4>3 DEF After
          <5>2. CASE Preserved(f, k)
            <6>1. f # NoFile /\ LockedSpec(k) \in AllSpecs(f)
              BY <4>3, <5>2 DEF Preserved
            <6>2. LockedSpec(k) \in AllSpecs(h) \/ Selects(l, LockedSpec(k).text)
              BY <3>2, <6>1 DEF Merged
            <6>3. Selects(l, LockedSpec(k).text) => Disturbs(l, k)
              BY <1>3, <2>1, <4>3 DEF Disturbs
            <6> QED
              BY <2>1, <3>5, <4>3, <6>2, <6>3 DEF Preserved
          <5> QED
            BY <5>1, <5>2
        <4> QED
          BY <1>3, <2>5, <3>6, <4>1, <4>2, <4>3, LockType
      <3>7. \A s \in AllSpecs(g) :
               \/ f0 # NoFile /\ s \in AllSpecs(f0)
               \/ \E k \in here : k.id = s.by /\ (k.mode = "go_symbol" => s \in ToSet(LockedDecl(k).specs))
        <4> SUFFICES ASSUME NEW s \in AllSpecs(h)
                     PROVE  \/ f0 # NoFile /\ s \in AllSpecs(f0)
                            \/ \E k \in here : k.id = s.by /\ (k.mode = "go_symbol" => s \in ToSet(LockedDecl(k).specs))
          BY <3>5
        <4>1. CASE f # NoFile /\ s \in AllSpecs(f)
          BY <2>2, <4>1 DEF After
        <4>2. CASE s \in ToSet(LockedDecl(l).specs)
          <5>1. s.by = l.id
            BY <3>1, <4>2, LockedDeclIs
          <5> QED
            BY <2>1, <4>2, <5>1
        <4> QED
          BY <3>2, <4>1, <4>2 DEF Merged
      <3>8. f0 # NoFile => \A s \in AllSpecs(f0) : \/ s \in AllSpecs(g)
                                                   \/ \E k \in here : k.mode = "file" \/ Selects(k, s.text)
        BY <2>1, <2>2, <3>2, <3>5 DEF After, Merged
      <3>9. Kept(C, here) /\ (f0 = NoFile \/ Tidy(f0, C)) => Tidy(g, C)
        <4> SUFFICES ASSUME Kept(C, here), f0 = NoFile \/ Tidy(f0, C) PROVE Tidy(g, C)
          OBVIOUS
        <4>1. f = NoFile \/ Tidy(f, C)
          BY <2>2 DEF After
        <4> QED
          BY <2>1, <2>2, <3>1, <3>2, <4>1, ApplyTidy
      <3> QED
        BY <3>4, <3>5, <3>6, <3>7, <3>8, <3>9 DEF After
    <2> QED
      BY <2>4, <2>7, <2>8
  <1> QED
    BY <1>4, <1>5, <1>6

\* The recursive function of Locked exists, so it is what its equation says.
LEMMA LockedIs ==
    ASSUME NEW f, NEW here
    PROVE  \E a : /\ a[0] = f
                  /\ \A n \in 1 .. Len(ScopeOrder) : a[n] = OneScope(a[n - 1], here, ScopeOrder[n])
                  /\ Locked(f, here) = a[Len(ScopeOrder)]
  <1> DEFINE E(a, n) == a = [k \in 0 .. n |-> IF k = 0 THEN f ELSE OneScope(a[k - 1], here, ScopeOrder[k])]
             P == {n \in Nat : \E a : E(a, n)}
             after == CHOOSE a : E(a, Len(ScopeOrder))
  <1>1. Len(ScopeOrder) \in Nat
    BY PositionIs
  <1>2. 0 \in P
    <2>1. E([k \in 0 .. 0 |-> f], 0)
      OBVIOUS
    <2> QED
      BY <2>1
  <1>3. \A n \in P : n + 1 \in P
    <2> SUFFICES ASSUME NEW n \in P PROVE \E a : E(a, n + 1)
      OBVIOUS
    <2>1. PICK a : E(a, n)
      OBVIOUS
    <2> DEFINE x == OneScope(a[n], here, ScopeOrder[n + 1])
               b == [k \in 0 .. n + 1 |-> IF k = n + 1 THEN x ELSE a[k]]
    <2>2. n \in Nat
      OBVIOUS
    <2> HIDE DEF P, x
    <2>3. \A k \in 0 .. n : b[k] = a[k]
      BY <2>2
    <2>4. \A k \in 0 .. n + 1 : b[k] = IF k = 0 THEN f ELSE OneScope(b[k - 1], here, ScopeOrder[k])
      <3> SUFFICES ASSUME NEW k \in 0 .. n + 1
                   PROVE  b[k] = IF k = 0 THEN f ELSE OneScope(b[k - 1], here, ScopeOrder[k])
        OBVIOUS
      <3>1. CASE k = n + 1
        <4>1. b[k] = x /\ b[k - 1] = a[n] /\ k # 0
          BY <2>2, <3>1
        <4> QED
          BY <3>1, <4>1 DEF x
      <3>2. CASE k # n + 1
        <4>1. k \in 0 .. n /\ b[k] = a[k] /\ (k # 0 => b[k - 1] = a[k - 1])
          BY <2>2, <2>3, <3>2
        <4> HIDE DEF b
        <4>2. a[k] = IF k = 0 THEN f ELSE OneScope(a[k - 1], here, ScopeOrder[k])
          BY <2>1, <4>1
        <4> QED
          BY <4>1, <4>2
      <3> QED
        BY <3>1, <3>2
    <2>5. b = [k \in 0 .. n + 1 |-> b[k]]
      OBVIOUS
    <2> HIDE DEF b
    <2>6. E(b, n + 1)
      BY <2>4, <2>5
    <2> QED
      BY <2>6
  <1>4. P = Nat
    <2> HIDE DEF P
    <2>1. P \in SUBSET Nat
      BY DEF P
    <2> QED
      BY <1>2, <1>3, <2>1, NatInductionOnSets
  <1>5. E(after, Len(ScopeOrder))
    BY <1>1, <1>4
  <1>6. Locked(f, here) = after[Len(ScopeOrder)]
    BY DEF Locked
  <1> HIDE DEF after
  <1>7. after[0] = f
    BY <1>1, <1>5
  <1>8. \A n \in 1 .. Len(ScopeOrder) : after[n] = OneScope(after[n - 1], here, ScopeOrder[n])
    BY <1>1, <1>5
  <1> QED
    BY <1>6, <1>7, <1>8


\* Locked, whatever the locks of the file are.
LEMMA LockedAfter ==
    ASSUME NEW f \in FileRecord \cup {NoFile}, NEW here, NEW p, IsHere(here, p), NEW C
    PROVE  Locked(f, here) = Broken \/ After(Locked(f, here), f, here, C, Len(ScopeOrder))
  <1> DEFINE N == Len(ScopeOrder)
  <1>1. PICK a : /\ a[0] = f
                 /\ \A n \in 1 .. N : a[n] = OneScope(a[n - 1], here, ScopeOrder[n])
                 /\ Locked(f, here) = a[N]
    BY LockedIs
  <1>2. N \in Nat /\ DOMAIN ScopeOrder = 1 .. N
    BY PositionIs
  <1> HIDE DEF N
  <1> DEFINE P == {n \in Nat : n <= N => a[n] = Broken \/ After(a[n], f, here, C, n)}
  <1>3. 0 \in P
    <2>1. \A l \in here : Position(l) \in 1 .. N
      BY <1>2, PositionIs DEF IsHere
    <2>2. \A l \in here : ~(Position(l) <= 0)
      BY <2>1
    <2>3. After(f, f, here, C, 0)
      BY <2>2 DEF After
    <2> QED
      BY <1>1, <2>3
  <1>4. \A n \in P : n + 1 \in P
    <2> SUFFICES ASSUME NEW n \in P, n + 1 <= N
                 PROVE  a[n + 1] = Broken \/ After(a[n + 1], f, here, C, n + 1)
      OBVIOUS
    <2>1. n \in Nat /\ n <= N /\ n + 1 \in 1 .. N /\ (n + 1) - 1 = n
      BY <1>2
    <2>2. a[n] = Broken \/ After(a[n], f, here, C, n)
      BY <2>1
    <2>3. a[n + 1] = OneScope(a[n], here, ScopeOrder[n + 1])
      BY <1>1, <2>1
    <2> HIDE DEF P
    <2> QED
      BY <1>2, <2>1, <2>2, <2>3, AfterOne
  <1>5. P = Nat
    <2>1. P \in SUBSET Nat
      OBVIOUS
    <2> HIDE DEF P
    <2> QED
      BY <1>3, <1>4, <2>1, NatInductionOnSets
  <1> QED
    BY <1>1, <1>2, <1>5 DEF N

(***************************************************************************)
(* The steps.                                                              *)
(***************************************************************************)

\* A generation does not notice that locks are added.
LEMMA BundlesKeep ==
    ASSUME Bundles, bundle' = bundle, locks \subseteq locks'
    PROVE  Bundles'
  <1> SUFFICES ASSUME NEW t \in Task, bundle[t] # NoBundle
               PROVE  BundleOK(bundle[t], t)'
    BY DEF Bundles
  <1>1. BundleOK(bundle[t], t)
    BY DEF Bundles
  <1> QED
    BY <1>1 DEF BundleOK

\* Locks stay sound while ids and the clock go up.
LEMMA LocksKeep ==
    ASSUME NEW S \in SUBSET LockRecord, SoundLocks(S), nextId \in Nat, clock \in Nat,
           nextId' \in {nextId, nextId + 1}, clock' \in {clock, clock + 1}
    PROVE  SoundLocks(S)'
  BY SoundLater DEF SoundLocks

\* Time passes.
LEMMA TickStep ==
    ASSUME CodeLocksInv, Tick
    PROVE  CodeLocksInv'
  <1>1. clock \in Nat /\ clock' = clock + 1 /\ UNCHANGED <<inputs, pending, nextId, locks, conflicts, stored, answered, bundle>>
    BY DEF CodeLocksInv, Types, Tick
  <1>2. pending' \in [Human -> {NoRequest} \cup [request : inputs, at : 0 .. clock']]
    <2>1. pending \in [Human -> {NoRequest} \cup [request : inputs, at : 0 .. clock]]
      BY DEF CodeLocksInv, Types
    <2>2. 0 .. clock \subseteq 0 .. clock'
      BY <1>1
    <2> QED
      BY <1>1, <2>1, <2>2
  <1>3. Types'
    BY <1>1, <1>2 DEF CodeLocksInv, Types
  <1>4. SoundLocks(locks)'
    BY <1>1, LocksKeep DEF CodeLocksInv, Types
  <1>5. SoundLocks(stored.locks)'
    BY <1>1, LocksKeep DEF CodeLocksInv, Types
  <1>6. Bundles'
    BY <1>1, BundlesKeep DEF CodeLocksInv
  <1> QED
    BY <1>1, <1>3, <1>4, <1>5, <1>6 DEF CodeLocksInv, SoundConflicts, SoundClashes, Answers

\* Only what waits for the mutex changes.
LEMMA PendingStep ==
    ASSUME CodeLocksInv, NEW h \in Human,
           NEW x \in {NoRequest} \cup [request : inputs, at : 0 .. clock],
           pending' = [pending EXCEPT ![h] = x],
           UNCHANGED <<inputs, clock, nextId, locks, conflicts, stored, answered, bundle, faults>>
    PROVE  CodeLocksInv'
  <1>1. Types'
    BY DEF CodeLocksInv, Types
  <1>2. SoundLocks(locks)' /\ SoundLocks(stored.locks)'
    BY DEF CodeLocksInv, SoundLocks
  <1>3. Bundles'
    BY BundlesKeep DEF CodeLocksInv
  <1> QED
    BY <1>1, <1>2, <1>3 DEF CodeLocksInv, SoundConflicts, SoundClashes, Answers

\* A request reads the clock.
LEMMA RequestStep ==
    ASSUME CodeLocksInv, NEW h \in Human, Request(h)
    PROVE  CodeLocksInv'
  <1>1. PICK r \in inputs : pending' = [pending EXCEPT ![h] = [request |-> r, at |-> clock]]
    BY DEF Request
  <1>2. clock \in Nat
    BY DEF CodeLocksInv, Types
  <1>3. [request |-> r, at |-> clock] \in [request : inputs, at : 0 .. clock]
    BY <1>2
  <1> QED
    BY <1>1, <1>3, PendingStep DEF Request

\* An invalid request is refused.
LEMMA RefuseStep ==
    ASSUME CodeLocksInv, NEW h \in Human, Refuse(h)
    PROVE  CodeLocksInv'
  BY PendingStep DEF Refuse

\* The lock that a pending request asks for.
LEMMA AskedLock ==
    ASSUME CodeLocksInv, NEW h \in Human, pending[h] # NoRequest, Valid(pending[h].request), nextId <= MaxLocks
    PROVE  LET r == pending[h].request
               now == pending[h].at
               lock == [id |-> nextId, mode |-> r.mode, path |-> r.path, kind |-> r.kind, name |-> r.name,
                        content |-> r.content, owner |-> h, task |-> r.task,
                        created |-> now, expires |-> now + r.ttl]
           IN  /\ lock \in LockRecord /\ Asked(lock) /\ lock.created = now /\ lock.id = nextId
               /\ now \in Nat /\ now <= clock
  <1> DEFINE r == pending[h].request
             now == pending[h].at
             lock == [id |-> nextId, mode |-> r.mode, path |-> r.path, kind |-> r.kind, name |-> r.name,
                      content |-> r.content, owner |-> h, task |-> r.task,
                      created |-> now, expires |-> now + r.ttl]
  <1>1. nextId \in Nat /\ clock \in Nat /\ inputs \in Inputs
        /\ pending[h] \in {NoRequest} \cup [request : inputs, at : 0 .. clock]
    BY DEF CodeLocksInv, Types
  <1>2. r \in inputs /\ now \in 0 .. clock
    BY <1>1
  <1>3. r \in Requests
    BY <1>1, <1>2 DEF Requests
  <1>4. r.ttl \in Nat /\ r.mode \in {"file", "go_symbol"} /\ codeLockScope(r) \in ToSet(ScopeOrder)
    BY <1>1, <1>2, CodeLocksAssumption
  <1>5. now \in Nat /\ now + r.ttl \in Nat /\ now <= clock
    BY <1>1, <1>2, <1>4
  <1> HIDE DEF r, now
  <1>6. lock \in LockRecord
    BY <1>1, <1>3, <1>4, <1>5 DEF LockRecord
  <1>7. /\ lock.mode = r.mode /\ lock.content = r.content /\ lock.path = r.path
        /\ lock.kind = r.kind /\ lock.name = r.name
    OBVIOUS
  <1> HIDE DEF lock
  <1>8. codeLockScope(lock) = codeLockScope(r)
    BY <1>7 DEF codeLockScope
  <1>9. Valid(lock)
    BY <1>7 DEF Valid, Selects, parseGoSymbolSelector, r
  <1> QED
    BY <1>4, <1>5, <1>6, <1>8, <1>9 DEF Asked, r, now, lock

\* The lock that blocks is one of those that could.
LEMMA FirstIs ==
    ASSUME NEW S \in SUBSET LockRecord, S # {}
    PROVE  First(S) \in S
  <1>1. {l.id : l \in S} \in SUBSET Nat /\ {l.id : l \in S} # {}
    BY LockType
  <1>2. PICK n \in {l.id : l \in S} : \A m \in {l.id : l \in S} : n <= m
    BY <1>1, NatLeast
  <1> QED
    BY <1>2 DEF First

\* ApplyCodeLock: the lease is granted or the conflict queued, and saved or not.
LEMMA ApplyCodeLockStep ==
    ASSUME CodeLocksInv, NEW h \in Human, ApplyCodeLock(h)
    PROVE  CodeLocksInv'
  <1> DEFINE r == pending[h].request
             now == pending[h].at
             lock == [id |-> nextId, mode |-> r.mode, path |-> r.path, kind |-> r.kind, name |-> r.name,
                      content |-> r.content, owner |-> h, task |-> r.task,
                      created |-> now, expires |-> now + r.ttl]
             B == Blocking(lock, now)
  <1>1. /\ nextId' = nextId + 1 /\ pending' = [pending EXCEPT ![h] = NoRequest]
        /\ UNCHANGED <<inputs, clock, bundle>>
    BY DEF ApplyCodeLock
  <1>2. lock \in LockRecord /\ Asked(lock) /\ lock.created = now /\ lock.id = nextId /\ now \in Nat /\ now <= clock
    BY AskedLock DEF ApplyCodeLock
  <1>3. PICK ok \in BOOLEAN : IF B = {} THEN Register(lock, ok) ELSE QueueConflict(lock, First(B), ok)
    BY DEF ApplyCodeLock
  <1>4. nextId \in Nat /\ clock \in Nat /\ locks \in SUBSET LockRecord /\ stored.locks \in SUBSET LockRecord
        /\ conflicts \in Seq(ConflictRecord)
    BY DEF CodeLocksInv, Types
  <1>5. nextId' \in Nat /\ pending' \in [Human -> {NoRequest} \cup [request : inputs', at : 0 .. clock']]
        /\ bundle' \in [Task -> {NoBundle} \cup BundleRecord] /\ inputs' \in Inputs /\ clock' \in Nat
    BY <1>1 DEF CodeLocksInv, Types
  <1>6. SoundClashes'
    BY <1>1 DEF CodeLocksInv, SoundClashes
  <1>7. ASSUME locks' \in SUBSET LockRecord, conflicts' \in Seq(ConflictRecord), Persist(ok),
               SoundLocks(locks)', SoundConflicts(conflicts)', locks \subseteq locks',
               answered \subseteq answered', \A i \in answered' \ answered : ok /\ i \in {l.id : l \in locks'}
        PROVE  CodeLocksInv'
    <2>1. Types
      BY DEF CodeLocksInv
    <2>2. /\ stored' \in [locks : SUBSET LockRecord, conflicts : Seq(ConflictRecord)]
          /\ \/ stored' = stored
             \/ stored'.locks = locks' /\ stored'.conflicts = conflicts'
          /\ ok => stored'.locks = locks' /\ stored'.conflicts = conflicts'
      BY <1>7, <2>1, PersistSound
    <2>3. Types'
      BY <1>5, <1>7, <2>2 DEF Types
    <2>4. SoundLocks(stored.locks)'
      <3>1. CASE stored' = stored
        BY <1>1, <1>4, <3>1, LocksKeep DEF CodeLocksInv
      <3>2. CASE stored'.locks = locks'
        BY <1>7, <3>2 DEF SoundLocks
      <3> QED
        BY <2>2, <3>1, <3>2
    <2>5. SoundConflicts(stored.conflicts)'
      BY <1>7, <2>2 DEF CodeLocksInv, SoundConflicts
    <2>6. answered \subseteq {l.id : l \in locks'}
      BY <1>7 DEF CodeLocksInv, Answers
    <2>7. answered' \subseteq {l.id : l \in locks'}
      BY <1>7, <2>6
    <2>8. answered' \subseteq {l.id : l \in stored'.locks}
      <3>1. CASE stored'.locks = locks'
        BY <2>7, <3>1
      <3>2. CASE stored' = stored /\ ~ok
        BY <1>7, <3>2 DEF CodeLocksInv, Answers
      <3> QED
        BY <2>2, <3>1, <3>2
    <2>9. Bundles'
      BY <1>1, <1>7, BundlesKeep DEF CodeLocksInv
    <2> QED
      BY <1>6, <1>7, <2>3, <2>4, <2>5, <2>7, <2>8, <2>9 DEF CodeLocksInv, Answers
  <1> HIDE DEF B, lock, r, now
  <1>8. CASE B = {}
    <2>1. /\ locks' = locks \cup {lock} /\ conflicts' = conflicts /\ Persist(ok)
          /\ answered' = IF ok THEN answered \cup {lock.id} ELSE answered
      BY <1>3, <1>8 DEF Register
    <2>2. \A k \in locks : codeLockScope(k) = codeLockScope(lock) /\ k.owner # lock.owner => ~Active(k, lock.created)
      BY <1>2, <1>8 DEF B, Blocking
    <2>4. SoundLocks(locks)'
      BY <1>1, <1>2, <1>4, <2>1, <2>2, RegisterSound DEF CodeLocksInv
    <2>5. SoundConflicts(conflicts)'
      BY <2>1 DEF CodeLocksInv, SoundConflicts
    <2> QED
      BY <1>2, <1>4, <1>7, <2>1, <2>4, <2>5
  <1>9. CASE B # {}
    <2>1. locks' = locks /\ answered' = answered /\ Persist(ok)
          /\ conflicts' = Append(conflicts, Conflict("code_lock", lock, First(B)))
      BY <1>3, <1>9 DEF QueueConflict
    <2>2. First(B) \in LockRecord
      <3>1. B \in SUBSET locks
        BY DEF B, Blocking
      <3> QED
        BY <1>4, <1>9, <3>1, FirstIs
    <2>3. conflicts' \in Seq(ConflictRecord) /\ SoundConflicts(Append(conflicts, Conflict("code_lock", lock, First(B))))
      BY <1>2, <1>4, <2>1, <2>2, ConflictType, QueueSound DEF CodeLocksInv
    <2>4. SoundConflicts(conflicts)'
      BY <2>1, <2>3 DEF SoundConflicts
    <2>5. SoundLocks(locks)'
      BY <1>1, <1>4, <2>1, LocksKeep DEF CodeLocksInv
    <2> QED
      BY <1>4, <1>7, <2>1, <2>3, <2>4, <2>5
  <1> QED
    BY <1>8, <1>9

\* A conflict is added or resolved, and saved or not.
LEMMA QueueStep ==
    ASSUME CodeLocksInv, NEW ok \in BOOLEAN, Persist(ok),
           conflicts' \in Seq(ConflictRecord), SoundConflicts(conflicts)',
           UNCHANGED <<inputs, clock, pending, nextId, locks, answered>>
    PROVE  /\ bundle' \in [Task -> {NoBundle} \cup BundleRecord] => Types'
           /\ SoundLocks(locks)' /\ SoundLocks(stored.locks)'
           /\ SoundConflicts(conflicts)' /\ SoundConflicts(stored.conflicts)'
           /\ Answers'
  <1>1. Types /\ locks' \in SUBSET LockRecord
    BY DEF CodeLocksInv, Types
  <1>2. /\ stored' \in [locks : SUBSET LockRecord, conflicts : Seq(ConflictRecord)]
        /\ \/ stored' = stored
           \/ stored'.locks = locks' /\ stored'.conflicts = conflicts'
    BY <1>1, PersistSound
  <1>3. bundle' \in [Task -> {NoBundle} \cup BundleRecord] => Types'
    BY <1>2 DEF CodeLocksInv, Types
  <1>4. SoundLocks(locks)'
    BY DEF CodeLocksInv, SoundLocks
  <1>5. SoundLocks(stored.locks)'
    BY <1>2 DEF CodeLocksInv, SoundLocks
  <1>6. SoundConflicts(stored.conflicts)'
    BY <1>2 DEF CodeLocksInv, SoundConflicts
  <1>7. Answers'
    BY <1>2 DEF CodeLocksInv, Answers
  <1> QED
    BY <1>3, <1>4, <1>5, <1>6, <1>7

\* ResolveConflictQueueEntry changes the status of an entry only.
LEMMA ResolveConflictQueueEntryStep ==
    ASSUME CodeLocksInv, NEW i \in DOMAIN conflicts, ResolveConflictQueueEntry(i)
    PROVE  CodeLocksInv'
  <1>1. conflicts \in Seq(ConflictRecord) /\ conflicts[i] \in ConflictRecord
        /\ DOMAIN conflicts = 1 .. Len(conflicts)
    BY DEF CodeLocksInv, Types
  <1> DEFINE c == [conflicts[i] EXCEPT !.status = "RESOLVED"]
  <1>2. c \in ConflictRecord /\ c.kind = conflicts[i].kind
        /\ c.current = conflicts[i].current /\ c.requested = conflicts[i].requested
    BY <1>1 DEF ConflictRecord
  <1>3. conflicts' = [conflicts EXCEPT ![i] = c]
    BY DEF ResolveConflictQueueEntry
  <1> HIDE DEF c
  <1>4. conflicts' \in Seq(ConflictRecord) /\ DOMAIN conflicts' = DOMAIN conflicts
        /\ \A j \in DOMAIN conflicts : conflicts'[j] = IF j = i THEN c ELSE conflicts[j]
    BY <1>1, <1>2, <1>3
  <1>5. SoundConflicts(conflicts)'
    BY <1>2, <1>4 DEF CodeLocksInv, SoundConflicts
  <1>6. PICK ok \in BOOLEAN : Persist(ok)
    BY DEF ResolveConflictQueueEntry
  <1>7. UNCHANGED <<inputs, clock, pending, nextId, locks, answered, bundle>>
    BY DEF ResolveConflictQueueEntry
  <1>8. Bundles' /\ SoundClashes'
    BY <1>7, BundlesKeep DEF CodeLocksInv, SoundClashes
  <1>9. bundle' \in [Task -> {NoBundle} \cup BundleRecord]
    BY <1>7 DEF CodeLocksInv, Types
  <1> QED
    BY <1>4, <1>5, <1>6, <1>7, <1>8, <1>9, QueueStep DEF CodeLocksInv

\* The generation of one task moves on, and nothing else changes.
LEMMA BundleStep ==
    ASSUME CodeLocksInv, NEW t \in Task, NEW b \in BundleRecord,
           bundle' = [bundle EXCEPT ![t] = b], locks' = locks,
           BundleOK(b, t), \A c \in b.clashes : c[1].expires <= c[2].created
    PROVE  bundle' \in [Task -> {NoBundle} \cup BundleRecord] /\ Bundles' /\ SoundClashes'
  <1>1. bundle \in [Task -> {NoBundle} \cup BundleRecord]
    BY DEF CodeLocksInv, Types
  <1>2. bundle' \in [Task -> {NoBundle} \cup BundleRecord] /\ bundle'[t] = b
        /\ \A u \in Task : u # t => bundle'[u] = bundle[u]
    BY <1>1
  <1>3. ASSUME NEW u \in Task, bundle'[u] # NoBundle
        PROVE  BundleOK(bundle[u], u)' /\ \A c \in bundle'[u].clashes : c[1].expires <= c[2].created
    <2>1. CASE u = t
      BY <1>2, <2>1 DEF BundleOK
    <2>2. CASE u # t
      <3>1. bundle'[u] = bundle[u] /\ BundleOK(bundle[u], u)
        BY <1>2, <1>3, <2>2 DEF CodeLocksInv, Bundles
      <3> QED
        BY <1>3, <3>1 DEF BundleOK, CodeLocksInv, SoundClashes
    <2> QED
      BY <2>1, <2>2
  <1> QED
    BY <1>2, <1>3 DEF Bundles, SoundClashes

\* The rest of the invariant, when only a generation changes.
LEMMA OnlyBundle ==
    ASSUME CodeLocksInv, UNCHANGED <<inputs, clock, pending, nextId, locks, conflicts, stored, answered>>,
           bundle' \in [Task -> {NoBundle} \cup BundleRecord], Bundles', SoundClashes'
    PROVE  CodeLocksInv'
  <1>1. Types'
    BY DEF CodeLocksInv, Types
  <1>2. SoundLocks(locks)' /\ SoundLocks(stored.locks)'
    BY DEF CodeLocksInv, SoundLocks
  <1> QED
    BY <1>1, <1>2 DEF CodeLocksInv, SoundConflicts, Answers

\* What generateDeliveryBundle writes before it applies the locks.
LEMMA StartType ==
    ASSUME NEW p \in Path
    PROVE  Start(p) \in FileRecord \cup {NoFile}
  BY FileOfType, ContentType DEF Start

\* A generation reads the clock,
LEMMA StartBundleStep ==
    ASSUME CodeLocksInv, NEW t \in Task, StartBundle(t)
    PROVE  CodeLocksInv'
  <1> DEFINE fs == [p \in Path |-> IF p = "main.go" THEN FileOf(Generated, 0) ELSE NoFile]
             b == [pc |-> "copy", now |-> clock, known |-> locks, copy |-> {}, clashes |-> {}, files |-> fs]
  <1>1. bundle' = [bundle EXCEPT ![t] = b] /\ UNCHANGED <<inputs, clock, pending, nextId, locks, conflicts, stored, answered>>
    BY DEF StartBundle
  <1>2. clock \in Nat /\ locks \in SUBSET LockRecord
    BY DEF CodeLocksInv, Types
  <1>3. fs \in [Path -> Files] /\ \A p \in Path : fs[p] = Start(p)
    <2>1. \A p \in Path : fs[p] = Start(p)
      BY DEF Start
    <2>2. \A p \in Path : Start(p) \in Files
      BY StartType DEF Files
    <2> QED
      BY <2>1, <2>2
  <1> HIDE DEF fs
  <1>4. b \in BundleRecord
    BY <1>2, <1>3 DEF BundleRecord
  <1>5. b.pc = "copy" /\ b.known = locks /\ b.files = fs /\ b.clashes = {}
    OBVIOUS
  <1> HIDE DEF b
  <1>6. BundleOK(b, t)
    BY <1>3, <1>5 DEF BundleOK
  <1>7. bundle' \in [Task -> {NoBundle} \cup BundleRecord] /\ Bundles' /\ SoundClashes'
    BY <1>1, <1>4, <1>5, <1>6, BundleStep
  <1> QED
    BY <1>1, <1>7, OnlyBundle

\* A generation that is under way.
LEMMA BundleIs ==
    ASSUME CodeLocksInv, NEW t \in Task, bundle[t].pc \in {"copy", "apply", "done"}
    PROVE  bundle[t] \in BundleRecord /\ bundle[t] # NoBundle /\ BundleOK(bundle[t], t)
  <1>1. bundle[t] \in {NoBundle} \cup BundleRecord
    BY DEF CodeLocksInv, Types
  <1>2. bundle[t] # NoBundle
    BY DEF NoBundle
  <1> QED
    BY <1>1, <1>2 DEF CodeLocksInv, Bundles

\* copies the locks,
LEMMA CopyLocksStep ==
    ASSUME CodeLocksInv, NEW t \in Task, CopyLocks(t)
    PROVE  CodeLocksInv'
  <1> DEFINE b == bundle[t]
             copy == {l \in locks : Active(l, b.now) /\ l.task \in {NoTask, t}}
             cl == Clashes(copy)
             b2 == [b EXCEPT !.pc = "apply", !.copy = copy, !.clashes = cl]
  <1>1. b.pc = "copy" /\ UNCHANGED <<inputs, clock, pending, nextId, locks, conflicts, stored, answered>>
    BY DEF CopyLocks
  <1>2. bundle \in [Task -> {NoBundle} \cup BundleRecord] /\ locks \in SUBSET LockRecord
    BY DEF CodeLocksInv, Types
  <1>3. bundle' = [bundle EXCEPT ![t] = b2]
    BY <1>2 DEF CopyLocks
  <1>4. b \in BundleRecord /\ BundleOK(b, t)
    BY <1>1, BundleIs
  <1>5. copy \in SUBSET LockRecord /\ cl \in SUBSET (LockRecord \X LockRecord)
    BY <1>2 DEF Clashes
  <1>6. \A c \in cl : c[1].expires <= c[2].created
    <2> SUFFICES ASSUME NEW c \in cl PROVE c[1].expires <= c[2].created
      OBVIOUS
    <2>1. c[1] \in locks /\ c[2] \in locks /\ Later(c[2], c[1]) /\ c[1].owner # c[2].owner
      BY DEF Clashes
    <2> QED
      BY <2>1 DEF CodeLocksInv, SoundLocks
  <1>7. CopyFor(copy, t)
    BY DEF CodeLocksInv, SoundLocks, CopyFor
  <1>8. \A l \in b.known : Active(l, b.now) /\ l.task \in {NoTask, t} => l \in copy
    BY <1>1, <1>4 DEF BundleOK
  <1> HIDE DEF copy, cl, b
  <1>9. /\ b2 \in BundleRecord /\ b2.pc = "apply" /\ b2.copy = copy /\ b2.clashes = cl
        /\ b2.known = b.known /\ b2.now = b.now /\ b2.files = b.files
    BY <1>4, <1>5 DEF BundleRecord
  <1> HIDE DEF b2
  <1>10. BundleOK(b2, t)
    BY <1>1, <1>4, <1>7, <1>8, <1>9 DEF BundleOK
  <1>11. bundle' \in [Task -> {NoBundle} \cup BundleRecord] /\ Bundles' /\ SoundClashes'
    BY <1>1, <1>3, <1>6, <1>9, <1>10, BundleStep DEF b
  <1> QED
    BY <1>1, <1>11, OnlyBundle

\* and queues the conflicts between them.
LEMMA RecordStep ==
    ASSUME CodeLocksInv, NEW t \in Task, recordCodeLockApplyConflict(t)
    PROVE  CodeLocksInv'
  <1> DEFINE b == bundle[t]
  <1>1. b.pc = "apply" /\ UNCHANGED <<inputs, clock, pending, nextId, locks, answered>>
    BY DEF recordCodeLockApplyConflict
  <1>2. PICK c \in b.clashes :
           /\ conflicts' = Append(conflicts, Conflict("code_lock_apply", c[2], c[1]))
           /\ bundle' = [bundle EXCEPT ![t].clashes = @ \ {c}]
    BY DEF recordCodeLockApplyConflict
  <1>3. PICK ok \in BOOLEAN : Persist(ok)
    BY DEF recordCodeLockApplyConflict
  <1>4. b \in BundleRecord /\ b # NoBundle /\ BundleOK(b, t)
    BY <1>1, BundleIs
  <1>5. bundle \in [Task -> {NoBundle} \cup BundleRecord] /\ conflicts \in Seq(ConflictRecord)
    BY DEF CodeLocksInv, Types
  <1>6. \A d \in b.clashes : d[1] \in LockRecord /\ d[2] \in LockRecord /\ d[1].expires <= d[2].created
    BY <1>4 DEF CodeLocksInv, SoundClashes, BundleRecord
  <1>7. conflicts' \in Seq(ConflictRecord) /\ SoundConflicts(Append(conflicts, Conflict("code_lock_apply", c[2], c[1])))
    BY <1>2, <1>5, <1>6, ConflictType, QueueSound DEF CodeLocksInv
  <1>8. SoundConflicts(conflicts)'
    BY <1>2, <1>7 DEF SoundConflicts
  <1> DEFINE b2 == [b EXCEPT !.clashes = b.clashes \ {c}]
  <1>9. bundle' = [bundle EXCEPT ![t] = b2]
    BY <1>2, <1>5
  <1> HIDE DEF b
  <1>10. /\ b2 \in BundleRecord /\ b2.pc = b.pc /\ b2.copy = b.copy /\ b2.clashes = b.clashes \ {c}
         /\ b2.known = b.known /\ b2.now = b.now /\ b2.files = b.files
    BY <1>4 DEF BundleRecord
  <1> HIDE DEF b2
  <1>11. BundleOK(b2, t)
    BY <1>4, <1>10 DEF BundleOK
  <1>12. bundle' \in [Task -> {NoBundle} \cup BundleRecord] /\ Bundles' /\ SoundClashes'
    BY <1>1, <1>6, <1>9, <1>10, <1>11, BundleStep DEF b
  <1> QED
    BY <1>1, <1>3, <1>7, <1>8, <1>12, QueueStep DEF CodeLocksInv

-----------------------------------------------------------------------------
(***************************************************************************)
(* The merged bundle.                                                      *)
(***************************************************************************)

\* The scopes of a copy have one lock each.
LEMMA HereIs ==
    ASSUME NEW copy \in SUBSET LockRecord, NEW t, CopyFor(copy, t), NEW p
    PROVE  IsHere(Here(copy, p), p) /\ Here(copy, p) \subseteq copy
  <1> DEFINE here == Here(copy, p)
  <1>1. here \subseteq copy /\ \A l \in here : Cleaned[l.path] = p /\ l \in activeScopes(copy)
    BY DEF Here, activeScopes
  <1>2. \A l \in here : Asked(l) /\ l \in LockRecord /\ l.id \in Nat
    BY <1>1, LockType DEF CopyFor
  <1>3. ASSUME NEW k \in here, NEW l \in here, codeLockScope(k) = codeLockScope(l)
        PROVE  k = l
    <2>1. ~(k.id > l.id) /\ ~(l.id > k.id)
      BY <1>1, <1>3 DEF activeScopes, Later
    <2>2. k.id = l.id
      BY <1>2, <2>1
    <2> QED
      BY <1>1, <2>2 DEF CopyFor
  <1> QED
    BY <1>1, <1>2, <1>3 DEF IsHere

\* What the locks of one path make of its file.
LEMMA LockedType ==
    ASSUME NEW copy \in SUBSET LockRecord, NEW t, CopyFor(copy, t), NEW p \in Path
    PROVE  Locked(Start(p), Here(copy, p)) \in Files
  <1> DEFINE here == Here(copy, p)
  <1>1. IsHere(here, p) /\ Start(p) \in FileRecord \cup {NoFile}
    BY HereIs, StartType
  <1>2. Locked(Start(p), here) = Broken \/ After(Locked(Start(p), here), Start(p), here, {}, Len(ScopeOrder))
    BY <1>1, LockedAfter
  <1> QED
    BY <1>2 DEF After, Files

\* applyProjectLocksToBundle merges the locks of all paths, or fails.
LEMMA ApplyBundleStep ==
    ASSUME CodeLocksInv, NEW t \in Task, applyProjectLocksToBundle(t)
    PROVE  CodeLocksInv'
  <1> DEFINE b == bundle[t]
             fs == [p \in Path |-> Locked(b.files[p], Here(b.copy, p))]
             written(logged) == {"release-gate.json", "manifest.json"} \cup (IF logged THEN {"lock-conflicts.log"} ELSE {})
             gs(logged) == [p \in Path |-> IF p \in written(logged) THEN Metadata ELSE fs[p]]
             pc == IF \E p \in Path : fs[p] = Broken THEN "failed" ELSE "done"
  <1>1. b.pc = "apply" /\ b.clashes = {} /\ UNCHANGED <<inputs, clock, pending, nextId, locks, conflicts, stored, answered>>
    BY DEF applyProjectLocksToBundle
  <1>2. bundle \in [Task -> {NoBundle} \cup BundleRecord]
    BY DEF CodeLocksInv, Types
  <1>3. PICK logged \in BOOLEAN : bundle' = [bundle EXCEPT ![t].pc = pc, ![t].files = gs(logged)]
    BY DEF applyProjectLocksToBundle
  <1> DEFINE b2 == [b EXCEPT !.pc = pc, !.files = gs(logged)]
  <1>4. bundle' = [bundle EXCEPT ![t] = b2]
    BY <1>2, <1>3
  <1>5. b \in BundleRecord /\ BundleOK(b, t) /\ b.copy \in SUBSET LockRecord /\ CopyFor(b.copy, t)
    BY <1>1, BundleIs DEF BundleRecord, BundleOK
  <1>6. \A p \in Path : fs[p] = Locked(Start(p), Here(b.copy, p))
    BY <1>1, <1>5 DEF BundleOK
  <1>7. \A p \in Path : fs[p] \in Files
    BY <1>5, <1>6, LockedType
  <1>8. gs(logged) \in [Path -> Files] /\ \A p \in GoPath : p \in Path /\ gs(logged)[p] = fs[p]
    <2>1. \A p \in GoPath : p \in Path /\ p \notin written(logged)
      BY DEF GoPath, Path
    <2> QED
      BY <1>7, <2>1 DEF Files
  <1>9. pc \in {"failed", "done"} /\ (pc = "done" => \A p \in Path : fs[p] # Broken)
    OBVIOUS
  <1> HIDE DEF b, fs, gs, pc
  <1>10. /\ b2 \in BundleRecord /\ b2.pc = pc /\ b2.copy = b.copy /\ b2.clashes = b.clashes
         /\ b2.known = b.known /\ b2.now = b.now /\ b2.files = gs(logged)
    BY <1>5, <1>8, <1>9 DEF BundleRecord
  <1> HIDE DEF b2
  <1>11. BundleOK(b2, t)
    BY <1>1, <1>5, <1>6, <1>8, <1>9, <1>10 DEF BundleOK
  <1>12. bundle' \in [Task -> {NoBundle} \cup BundleRecord] /\ Bundles' /\ SoundClashes'
    BY <1>1, <1>4, <1>10, <1>11, BundleStep DEF b
  <1> QED
    BY <1>1, <1>12, OnlyBundle

\* A restart: what was saved is sound, and no generation is under way.
LEMMA RestartStep ==
    ASSUME CodeLocksInv, Restart
    PROVE  CodeLocksInv'
  <1>1. /\ locks' = stored.locks /\ conflicts' = stored.conflicts /\ pending' = [h \in Human |-> NoRequest]
        /\ bundle' = [t \in Task |-> IF bundle[t] # NoBundle /\ bundle[t].pc \in {"copy", "apply"}
                                     THEN [bundle[t] EXCEPT !.pc = "lost"] ELSE bundle[t]]
        /\ UNCHANGED <<inputs, clock, nextId, stored, answered>>
    BY DEF Restart
  <1>2. ASSUME NEW t \in Task
        PROVE  /\ bundle'[t] \in {NoBundle} \cup BundleRecord
               /\ bundle'[t] # NoBundle =>
                    BundleOK(bundle[t], t)' /\ \A c \in bundle'[t].clashes : c[1].expires <= c[2].created
    <2>1. bundle[t] \in {NoBundle} \cup BundleRecord
      BY DEF CodeLocksInv, Types
    <2>2. CASE bundle[t] # NoBundle /\ bundle[t].pc \in {"copy", "apply"}
      <3>1. bundle'[t] = [bundle[t] EXCEPT !.pc = "lost"]
        BY <1>1, <2>2
      <3>2. bundle'[t] \in BundleRecord /\ bundle'[t].pc = "lost" /\ bundle'[t].clashes = bundle[t].clashes
        BY <2>1, <2>2, <3>1 DEF BundleRecord
      <3>3. BundleOK(bundle[t], t)'
        BY <3>2 DEF BundleOK
      <3> QED
        BY <2>2, <3>2, <3>3 DEF CodeLocksInv, SoundClashes
    <2>3. CASE bundle[t] = NoBundle
      BY <1>1, <2>3
    <2>4. CASE bundle[t] # NoBundle /\ bundle[t].pc \notin {"copy", "apply"}
      <3>1. bundle'[t] = bundle[t]
        BY <1>1, <2>4
      <3>2. BundleOK(bundle[t], t)
        BY <2>4 DEF CodeLocksInv, Bundles
      <3>3. BundleOK(bundle[t], t)'
        BY <2>4, <3>1, <3>2 DEF BundleOK
      <3> QED
        BY <2>1, <2>4, <3>1, <3>3 DEF CodeLocksInv, SoundClashes
    <2> QED
      BY <2>2, <2>3, <2>4
  <1>3. bundle' \in [Task -> {NoBundle} \cup BundleRecord]
    <2>1. bundle' = [t \in Task |-> bundle'[t]]
      BY <1>1
    <2> QED
      BY <1>2, <2>1
  <1>4. Types'
    BY <1>1, <1>3 DEF CodeLocksInv, Types
  <1>5. SoundLocks(locks)' /\ SoundLocks(stored.locks)'
    BY <1>1 DEF CodeLocksInv, SoundLocks
  <1>6. SoundConflicts(conflicts)' /\ SoundConflicts(stored.conflicts)' /\ Answers'
    BY <1>1 DEF CodeLocksInv, SoundConflicts, Answers
  <1>7. Bundles' /\ SoundClashes'
    BY <1>2 DEF Bundles, SoundClashes
  <1> QED
    BY <1>4, <1>5, <1>6, <1>7 DEF CodeLocksInv

\* The invariant holds at first,
LEMMA InitInv ==
    ASSUME Init
    PROVE  CodeLocksInv
  <1>1. Types
    BY DEF Init, Types
  <1>2. SoundLocks(locks) /\ SoundLocks(stored.locks)
    BY DEF Init, SoundLocks
  <1>3. SoundConflicts(conflicts) /\ SoundConflicts(stored.conflicts) /\ Answers
    BY DEF Init, SoundConflicts, Answers
  <1>4. SoundClashes /\ Bundles
    BY DEF Init, SoundClashes, Bundles
  <1> QED
    BY <1>1, <1>2, <1>3, <1>4 DEF CodeLocksInv

\* and every step keeps it.
LEMMA NextInv ==
    ASSUME CodeLocksInv, [Next]_vars
    PROVE  CodeLocksInv'
  <1>1. CASE Tick
    BY <1>1, TickStep
  <1>2. ASSUME NEW h \in Human, Request(h) \/ ApplyCodeLock(h) \/ Refuse(h)
        PROVE  CodeLocksInv'
    BY <1>2, RequestStep, ApplyCodeLockStep, RefuseStep
  <1>3. ASSUME NEW i \in DOMAIN conflicts, ResolveConflictQueueEntry(i)
        PROVE  CodeLocksInv'
    BY <1>3, ResolveConflictQueueEntryStep
  <1>4. ASSUME NEW t \in Task,
               StartBundle(t) \/ CopyLocks(t) \/ recordCodeLockApplyConflict(t) \/ applyProjectLocksToBundle(t)
        PROVE  CodeLocksInv'
    BY <1>4, StartBundleStep, CopyLocksStep, RecordStep, ApplyBundleStep
  <1>5. CASE Restart
    BY <1>5, RestartStep
  <1>6. CASE UNCHANGED vars
    <2>1. UNCHANGED <<inputs, clock, pending, nextId, locks, conflicts, stored, answered, bundle>>
      BY <1>6 DEF vars
    <2>2. bundle' \in [Task -> {NoBundle} \cup BundleRecord] /\ Bundles' /\ SoundClashes'
      BY <2>1, BundlesKeep DEF CodeLocksInv, Types, SoundClashes
    <2> QED
      BY <2>1, <2>2, OnlyBundle
  <1> QED
    BY <1>1, <1>2, <1>3, <1>4, <1>5, <1>6 DEF Next

-----------------------------------------------------------------------------
(***************************************************************************)
(* What the invariant says.                                                *)
(***************************************************************************)

\* Two leases of different owners are one after the other, so the clock is in one
\* of them at most.
LEMMA InvLeases ==
    ASSUME CodeLocksInv
    PROVE  LeasesHold
  <1>1. OneOwnerPerScope
    <2> SUFFICES ASSUME NEW k \in locks, NEW l \in locks, codeLockScope(k) = codeLockScope(l),
                        Active(k, clock), Active(l, clock), k.owner # l.owner
                 PROVE  FALSE
      BY DEF OneOwnerPerScope
    <2>1. k \in LockRecord /\ l \in LockRecord /\ clock \in Nat
      BY DEF CodeLocksInv, Types
    <2>2. k.id \in Nat /\ l.id \in Nat /\ k.expires \in Nat /\ l.expires \in Nat /\ k.created \in Nat /\ l.created \in Nat
      BY <2>1, LockType
    <2>3. k.created <= clock /\ l.created <= clock /\ k.id # l.id
      BY DEF CodeLocksInv, SoundLocks
    <2>4. CASE k.id > l.id
      <3>1. l.expires <= k.created
        BY <2>4 DEF CodeLocksInv, SoundLocks, Later
      <3> QED
        BY <2>1, <2>2, <2>3, <3>1 DEF Active
    <2>5. CASE l.id > k.id
      <3>1. k.expires <= l.created
        BY <2>5 DEF CodeLocksInv, SoundLocks, Later
      <3> QED
        BY <2>1, <2>2, <2>3, <3>1 DEF Active
    <2> QED
      BY <2>2, <2>3, <2>4, <2>5
  <1>2. ApplyConflictMeansExpiry
    BY DEF CodeLocksInv, SoundConflicts, ApplyConflictMeansExpiry
  <1>3. AcknowledgedLocksStored
    BY DEF CodeLocksInv, Answers, AcknowledgedLocksStored
  <1> QED
    BY <1>1, <1>2, <1>3 DEF LeasesHold

\* A Go file of a finished bundle and the locks of it.
LEMMA FinishedIs ==
    ASSUME CodeLocksInv, NEW t \in Finished, NEW p \in GoPath, NEW C
    PROVE  LET b == bundle[t]
               here == Here(b.copy, p)
           IN  /\ After(b.files[p], Start(p), here, C, Len(ScopeOrder))
               /\ IsHere(here, p) /\ here \subseteq b.copy
               /\ b.copy \in SUBSET LockRecord /\ CopyFor(b.copy, t) /\ BundleOK(b, t)
  <1>1. t \in Task /\ bundle[t].pc = "done" /\ p \in Path
    BY DEF Finished, Path
  <1>2. bundle[t] \in BundleRecord /\ BundleOK(bundle[t], t)
    BY <1>1, BundleIs
  <1>3. bundle[t].copy \in SUBSET LockRecord /\ CopyFor(bundle[t].copy, t)
    BY <1>1, <1>2 DEF BundleRecord, BundleOK
  <1>4. bundle[t].files[p] = Locked(Start(p), Here(bundle[t].copy, p)) /\ bundle[t].files[p] # Broken
    BY <1>1, <1>2 DEF BundleOK
  <1>5. IsHere(Here(bundle[t].copy, p), p) /\ Here(bundle[t].copy, p) \subseteq bundle[t].copy
    BY <1>3, HereIs
  <1>6. Start(p) \in FileRecord \cup {NoFile}
    BY <1>1, StartType
  <1> QED
    BY <1>2, <1>3, <1>4, <1>5, <1>6, LockedAfter

\* A lock is applied when its scope's turn comes, and a later one that does not
\* disturb it keeps what it asked for.
LEMMA InvPreserved ==
    ASSUME CodeLocksInv
    PROVE  ActiveLocksPreserved
  <1> SUFFICES ASSUME NEW t \in Finished, NEW l \in bundle[t].known,
                      Active(l, bundle[t].now), l.task \in {NoTask, t}, Cleaned[l.path] \in GoPath,
                      ~\E k \in bundle[t].copy : Later(k, l),
                      ~\E k \in activeScopes(bundle[t].copy) : Disturbs(k, l)
               PROVE  Preserved(bundle[t].files[Cleaned[l.path]], l)
    BY DEF ActiveLocksPreserved
  <1> DEFINE b == bundle[t]
             p == Cleaned[l.path]
             here == Here(b.copy, p)
  <1>1. b.pc = "done"
    BY DEF Finished
  <1>2. After(b.files[p], Start(p), here, {}, Len(ScopeOrder)) /\ IsHere(here, p) /\ BundleOK(b, t)
    BY FinishedIs
  <1>3. l \in b.copy
    BY <1>1, <1>2 DEF BundleOK
  <1>4. l \in here
    BY <1>3 DEF Here, activeScopes
  <1>5. Position(l) <= Len(ScopeOrder)
    BY <1>2, <1>4, PositionIs DEF IsHere
  <1>6. \A k \in here : k \in activeScopes(b.copy)
    BY DEF Here
  <1> QED
    BY <1>2, <1>4, <1>5, <1>6 DEF After

\* What is in a file was generated or comes from a lock of the file.
LEMMA InvTarget ==
    ASSUME CodeLocksInv
    PROVE  OnlyTargetReplaced
  <1>1. ASSUME NEW t \in Finished, NEW p \in GoPath, bundle[t].files[p] # NoFile,
               NEW s \in AllSpecs(bundle[t].files[p]), s.by # 0
        PROVE  \E l \in Here(bundle[t].copy, p) :
                  l.id = s.by /\ (l.mode = "go_symbol" => s \in ToSet(LockedDecl(l).specs))
    <2>1. After(bundle[t].files[p], Start(p), Here(bundle[t].copy, p), {}, Len(ScopeOrder))
      BY FinishedIs
    <2>2. \A x \in AllSpecs(FileOf(Generated, 0)) : x.by = 0
      BY ContentType, WholeIs
    <2>3. ~(Start(p) # NoFile /\ s \in AllSpecs(Start(p)))
      BY <1>1, <2>2 DEF Start
    <2> QED
      BY <1>1, <2>1, <2>3 DEF After
  <1>2. ASSUME NEW t \in Finished, NEW s \in AllSpecs(FileOf(Generated, 0))
        PROVE  \/ s \in AllSpecs(bundle[t].files["main.go"])
               \/ \E l \in Here(bundle[t].copy, "main.go") : l.mode = "file" \/ Selects(l, s.text)
    <2>1. "main.go" \in GoPath
      BY DEF GoPath
    <2>2. Start("main.go") = FileOf(Generated, 0) /\ Start("main.go") # NoFile
      BY ContentType, FileOfType, NotAFile DEF Start
    <2>3. After(bundle[t].files["main.go"], Start("main.go"), Here(bundle[t].copy, "main.go"), {}, Len(ScopeOrder))
      BY <2>1, FinishedIs
    <2> QED
      BY <2>2, <2>3 DEF After
  <1> QED
    BY <1>1, <1>2 DEF OnlyTargetReplaced

\* What the locks make of well-formed contents in which a name has one meaning.
LEMMA InvWellFormed ==
    ASSUME CodeLocksInv
    PROVE  BundleFilesWellFormed
  <1> SUFFICES ASSUME NEW t \in Finished, NEW p \in GoPath,
                      \A c \in Sources(bundle[t].copy, p) : Plain(c) /\ WellFormed(FileOf(c, 0)),
                      Harmonious(Sources(bundle[t].copy, p), {l \in Here(bundle[t].copy, p) : l.mode = "go_symbol"}),
                      bundle[t].files[p] # NoFile
               PROVE  WellFormed(bundle[t].files[p])
    BY DEF BundleFilesWellFormed
  <1> DEFINE here == Here(bundle[t].copy, p)
             C == Sources(bundle[t].copy, p)
             f == bundle[t].files[p]
  <1>1. After(f, Start(p), here, C, Len(ScopeOrder)) /\ IsHere(here, p)
    BY FinishedIs
  <1>2. C \subseteq Contents /\ \A l \in here : l.content \in C
    BY <1>1, LockType, ContentType DEF IsHere, Sources
  <1>3. Kept(C, here)
    BY <1>2 DEF Kept
  <1>4. Start(p) = NoFile \/ Tidy(Start(p), C)
    <2>1. CASE p = "main.go"
      <3>1. Generated \in C
        BY <2>1 DEF Sources
      <3> HIDE DEF C, here
      <3>2. Tidy(FileOf(Generated, 0), C)
        BY <1>3, <3>1, ContentTidy
      <3> QED
        BY <2>1, <3>2 DEF Start
    <2>2. CASE p # "main.go"
      BY <2>2 DEF Start
    <2> QED
      BY <2>1, <2>2
  <1> HIDE DEF C, here
  <1>5. f \in FileRecord /\ Tidy(f, C)
    BY <1>1, <1>3, <1>4 DEF After
  <1> QED
    BY <1>3, <1>5, TidyWellFormed

\* For any operators, requests, clocks, failed saves and restarts: a lease that
\* findActiveCodeLockConflictLocked granted is its owner's alone while it lasts, two
\* leases that meet in a generation did not overlap, and ApplyCodeLock acknowledges
\* no lock that a restart loses.
THEOREM Leases == Spec => []LeasesHold
  <1>1. Init => CodeLocksInv
    BY InitInv
  <1>2. CodeLocksInv /\ [Next]_vars => CodeLocksInv'
    BY NextInv
  <1>3. CodeLocksInv => LeasesHold
    BY InvLeases
  <1> QED
    BY <1>1, <1>2, <1>3, PTL DEF Spec

\* For any number of locks and scopes and any contents: what
\* applyProjectLocksToBundle delivers holds every lock in force that no later one of
\* its scope replaced, and nothing else but what was generated.  Locks that a later
\* scope of the same target overwrites are excepted, and the files written after
\* the locks.
THEOREM BundlesHonourLocks == Spec => []BundleHonoursLocks
  <1>1. Init => CodeLocksInv
    BY InitInv
  <1>2. CodeLocksInv /\ [Next]_vars => CodeLocksInv'
    BY NextInv
  <1>3. CodeLocksInv => BundleHonoursLocks
    BY InvPreserved, InvTarget DEF BundleHonoursLocks
  <1> QED
    BY <1>1, <1>2, <1>3, PTL DEF Spec

\* For any number of locks and scopes: what applyProjectLocksToBundle makes of
\* plain, well-formed contents that give every name one meaning is well-formed,
\* since reconcileGoImports leaves exactly the imports that are used.
THEOREM BundlesWellFormed == Spec => []BundleFilesWellFormed
  <1>1. Init => CodeLocksInv
    BY InitInv
  <1>2. CodeLocksInv /\ [Next]_vars => CodeLocksInv'
    BY NextInv
  <1>3. CodeLocksInv => BundleFilesWellFormed
    BY InvWellFormed
  <1> QED
    BY <1>1, <1>2, <1>3, PTL DEF Spec
=============================================================================
