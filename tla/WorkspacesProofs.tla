-------------------------- MODULE WorkspacesProofs --------------------------
(***************************************************************************)
(* Proofs about Workspaces, for any number of sandboxes, snapshots,        *)
(* upstream changes, rebases and failures, and for every setting of push   *)
(* and cleanup.                                                            *)
(*                                                                         *)
(* The metadata of a sandbox is kept in places that move at different      *)
(* times: in memory and in the store, and in each of the two in the maps   *)
(* and in every snapshot, which a rollback brings back.  The inductive     *)
(* invariant says for each of them how an entry relates to the branch it   *)
(* names.                                                                  *)
(***************************************************************************)
EXTENDS Workspaces, TLAPS

Commits == {c \in SUBSET Change : <<0, 0>> \notin c}
Heads == Commits \cup {NoCommit}

Entries == [scope : {"NONE", "PRIVATE", "SHARED"},
            status : {"NONE", "ACTIVE", "RELEASED", "FAILED"},
            head : Heads, gone : BOOLEAN]

Metadata == [SandboxId -> Entries]

Snaps == [commit : Commits, kind : {"shared", "rollback"}, maps : Metadata]

Types ==
    /\ maps \in Metadata
    /\ snaps \in Seq(Snaps)
    /\ behind \in SUBSET SandboxId
    /\ disk \in [maps : Metadata, snaps : Seq(Snaps), behind : SUBSET SandboxId]
    /\ tree \in [SandboxId -> TreeStatus]
    /\ branch \in [SandboxId -> Heads]
    /\ remote \in [SandboxId -> Heads]
    /\ main \in Commits
    /\ writing \in [SandboxId -> 0 .. MaxRebases]
    /\ agent \in SUBSET SandboxId
    /\ lastId \in 0 .. MaxSandboxes

\* The entry e of sandbox s, whose branch is b, when the base ref is mn, the
\* newest sandbox lid and the goroutines work in ag.  Only if old says so may
\* it name a head from before a rebase.
EntryOK(e, s, b, mn, lid, ag, old) ==
    /\ e.scope = "NONE" => e = Absent
    /\ s > lid => e = Absent
    /\ s \in ag => e.status # "RELEASED" /\ e.scope # "SHARED"
    /\ e.status = "RELEASED" => e.head \in Commits
    /\ e.scope = "SHARED" /\ e.status = "RELEASED" => e.head = b
    /\ e.scope = "PRIVATE" /\ e.status = "RELEASED" =>
          \/ e.head = b
          \/ b = NoCommit /\ e.head \subseteq mn
          \/ old

Entry(e, s, old) == EntryOK(e, s, branch[s], main, lastId, agent, old)

\* A sandbox that does not exist yet has nothing in git; one that a goroutine
\* works in has a worktree and a branch, and nothing is published.
GitOK(s) ==
    /\ s > lastId => branch[s] = NoCommit /\ remote[s] = NoCommit /\ s \notin agent
    /\ s \in agent => tree[s] # "none" /\ branch[s] # NoCommit /\ remote[s] = NoCommit

\* All the places that name sandboxes agree on which of them are shared.
Places(m, ss) == {m} \cup {ss[i].maps : i \in 1 .. Len(ss)}

KindsAgree(P) ==
    \A m1, m2 \in P, s \in SandboxId :
        ~(m1[s].scope = "SHARED" /\ m2[s].scope = "PRIVATE")

\* A snapshot contains the shared sandbox that its commit was made in.
SnapshotOK(x) ==
    \E s \in SandboxId :
        x.maps[s].scope = "SHARED" /\ x.maps[s].status = "RELEASED" /\ x.maps[s].head = x.commit

\* The maps m and the snapshots ss, of memory or of the store, where the
\* entries of the sandboxes in b may be from before a rebase.
CopyOK(m, ss, b) ==
    /\ \A s \in SandboxId : Entry(m[s], s, s \in b)
    /\ \A i \in 1 .. Len(ss), s \in SandboxId : Entry(ss[i].maps[s], s, writing[s] > 0)
    /\ \A s \in b : writing[s] > 0
    /\ \A i \in 1 .. Len(ss) : SnapshotOK(ss[i])
    /\ BuildUp(ss)

\* The inductive invariant.
IInv ==
    /\ Types
    /\ \A s \in SandboxId : GitOK(s)
    /\ CopyOK(maps, snaps, behind)
    /\ CopyOK(disk.maps, disk.snaps, disk.behind)
    /\ KindsAgree(Places(maps, snaps) \cup Places(disk.maps, disk.snaps))

USE DEF SandboxId

\* SandboxId and MaxRebases are what they are thought to be.
LEMMA Numbers ==
    /\ MaxSandboxes \in Nat /\ MaxRebases \in Nat /\ MaxUpstream \in Nat /\ MaxSnapshots \in Nat
    /\ SandboxId \subseteq Nat \ {0}
    /\ PushEnabled \in BOOLEAN /\ CleanupEnabled \in BOOLEAN /\ DeleteBranches \in BOOLEAN
BY WorkspacesAssumption DEF WorkspacesAssumption

\* A change is a pair, and work is never the change that stands for no commit.
LEMMA Changes ==
    ASSUME NEW s \in 0 .. MaxSandboxes, NEW k \in 0 .. (MaxUpstream + MaxRebases)
    PROVE  <<s, k>> \in Change
BY DEF Change

LEMMA Work ==
    ASSUME NEW s \in SandboxId, NEW k \in 0 .. MaxRebases
    PROVE  {<<s, k>>} \in Commits
<1>1. s \in 0 .. MaxSandboxes /\ k \in 0 .. (MaxUpstream + MaxRebases) /\ s # 0
    BY Numbers
<1>2. <<s, k>> \in Change
    BY <1>1, Changes
<1>3. <<s, k>> # <<0, 0>>
    BY <1>1
<1> QED
    BY <1>2, <1>3 DEF Commits

LEMMA Upstreams ==
    ASSUME NEW k \in 1 .. MaxUpstream
    PROVE  {<<0, k>>} \in Commits
<1>1. 0 \in 0 .. MaxSandboxes /\ k \in 0 .. (MaxUpstream + MaxRebases) /\ k # 0
    BY Numbers
<1>2. <<0, k>> \in Change
    BY <1>1, Changes
<1>3. <<0, k>> # <<0, 0>>
    BY <1>1
<1> QED
    BY <1>2, <1>3 DEF Commits

\* Commits are closed under union, and none of them is "no commit".
LEMMA Unions ==
    /\ \A c, d \in Commits : c \cup d \in Commits
    /\ \A C \in SUBSET Commits : UNION C \in Commits
    /\ {} \in Commits
    /\ NoCommit \notin Commits
    /\ \A c \in Commits : ~(NoCommit \subseteq c)
BY DEF Commits, NoCommit

\* An entry that a step leaves alone stays true of its branch: the branch stays
\* where it is, or is deleted once the base ref has it, or is rebased.
LEMMA EntryKept ==
    ASSUME NEW e, NEW s \in SandboxId,
           NEW b, NEW mn, NEW lid \in Nat, NEW ag, NEW old \in BOOLEAN,
           NEW b2, NEW mn2, NEW lid2 \in Nat, NEW ag2, NEW old2 \in BOOLEAN,
           EntryOK(e, s, b, mn, lid, ag, old),
           mn \subseteq mn2, lid <= lid2, old => old2,
           s \in ag2 => s \in ag \/ e = Absent,
           \/ b2 = b
           \/ e.status # "RELEASED"
           \/ e.scope # "SHARED" /\ b2 = NoCommit /\ b \subseteq mn
           \/ e.scope # "SHARED" /\ old2
    PROVE  EntryOK(e, s, b2, mn2, lid2, ag2, old2)
<1>1. s \in Nat
    BY Numbers
<1>2. e = Absent => e.status # "RELEASED" /\ e.scope # "SHARED"
    BY DEF Absent
<1>3. s > lid2 => e = Absent
    BY <1>1 DEF EntryOK
<1>4. s \in ag2 => e.status # "RELEASED" /\ e.scope # "SHARED"
    BY <1>2 DEF EntryOK
<1>5. e.scope = "SHARED" /\ e.status = "RELEASED" => e.head = b2
    BY DEF EntryOK
<1>6. ASSUME e.scope = "PRIVATE", e.status = "RELEASED"
      PROVE  \/ e.head = b2
             \/ b2 = NoCommit /\ e.head \subseteq mn2
             \/ old2
    <2>1. \/ e.head = b
          \/ b = NoCommit /\ e.head \subseteq mn
          \/ old
        BY <1>6 DEF EntryOK
    <2>2. CASE b2 = b
        BY <2>1, <2>2
    <2>3. CASE b2 = NoCommit /\ b \subseteq mn
        BY <2>1, <2>3
    <2> QED
        BY <1>6, <2>2, <2>3
<1> QED
    BY <1>3, <1>4, <1>5, <1>6 DEF EntryOK

\* The entries of sandboxes that are new: a private one that is at work, and
\* shared ones.
LEMMA NewEntries ==
    /\ Absent \in Entries
    /\ \A st \in {"ACTIVE", "RELEASED", "FAILED"}, h \in Heads :
          Private(st, h) \in Entries /\ Shared(st, h) \in Entries
BY DEF Absent, Entries, Heads, Private, Shared

LEMMA AppendFacts ==
    ASSUME NEW T, NEW ss \in Seq(T), NEW x \in T
    PROVE  /\ Append(ss, x) \in Seq(T)
           /\ Len(Append(ss, x)) = Len(ss) + 1
           /\ Len(ss) \in Nat
           /\ \A i \in 1 .. Len(ss) : Append(ss, x)[i] = ss[i]
           /\ Append(ss, x)[Len(ss) + 1] = x
           /\ \A i \in 1 .. (Len(ss) + 1) : i \in 1 .. Len(ss) \/ i = Len(ss) + 1
OBVIOUS

\* No place calls a sandbox private that another calls shared if every scope in
\* the places Q was in one of the places P.
LEMMA KindsKept ==
    ASSUME NEW P, NEW Q, KindsAgree(P),
           \A q \in Q, s \in SandboxId :
              \/ q[s].scope = "NONE"
              \/ \E p \in P : p[s].scope = q[s].scope
    PROVE  KindsAgree(Q)
<1> SUFFICES ASSUME NEW q1 \in Q, NEW q2 \in Q, NEW s \in SandboxId,
                    q1[s].scope = "SHARED", q2[s].scope = "PRIVATE"
             PROVE  FALSE
    BY DEF KindsAgree
<1>1. PICK p1 \in P : p1[s].scope = "SHARED"
    OBVIOUS
<1>2. PICK p2 \in P : p2[s].scope = "PRIVATE"
    OBVIOUS
<1> QED
    BY <1>1, <1>2 DEF KindsAgree

\* What a step may do to git: the base ref and the counters grow, goroutines
\* start in new sandboxes, and the branch of a sandbox that exists and is not
\* being worked in is deleted or rebased, if the maps call it private.
GitStep ==
    /\ main \subseteq main' /\ lastId <= lastId'
    /\ \A s \in SandboxId :
          /\ writing[s] <= writing'[s]
          /\ s \in agent' => s \in agent \/ s > lastId
          /\ \/ branch'[s] = branch[s]
             \/ s > lastId \/ s \in agent
             \/ maps[s].scope = "PRIVATE" /\ branch'[s] = NoCommit /\ branch[s] \subseteq main
             \/ maps[s].scope = "PRIVATE" /\ writing'[s] > 0

\* The same for an entry that is not rebased in the step.
NotRebased(s) ==
    \/ branch'[s] = branch[s]
    \/ s > lastId \/ s \in agent
    \/ maps[s].scope = "PRIVATE" /\ branch'[s] = NoCommit /\ branch[s] \subseteq main

LEMMA SnapsTypes ==
    ASSUME NEW ss \in Seq(Snaps)
    PROVE  /\ Len(ss) \in Nat
           /\ \A i \in 1 .. Len(ss) : ss[i] \in Snaps /\ ss[i].maps \in Metadata /\ ss[i].commit \in Commits
<1>1. \A i \in 1 .. Len(ss) : ss[i] \in Snaps
    OBVIOUS
<1> QED
    BY <1>1 DEF Snaps

LEMMA TypesOf ==
    ASSUME Types
    PROVE  /\ lastId \in Nat /\ lastId <= MaxSandboxes
           /\ \A s \in SandboxId : writing[s] \in Nat
           /\ maps \in Metadata /\ disk.maps \in Metadata
           /\ snaps \in Seq(Snaps) /\ disk.snaps \in Seq(Snaps)
           /\ behind \subseteq SandboxId /\ disk.behind \subseteq SandboxId
           /\ \A s \in SandboxId :
                 /\ maps[s] \in Entries /\ disk.maps[s] \in Entries
                 /\ branch[s] \in Heads /\ remote[s] \in Heads
<1>1. lastId \in Nat /\ lastId <= MaxSandboxes /\ \A s \in SandboxId : writing[s] \in Nat
    BY Numbers DEF Types
<1>2. /\ maps \in Metadata /\ disk.maps \in Metadata
      /\ snaps \in Seq(Snaps) /\ disk.snaps \in Seq(Snaps)
      /\ behind \subseteq SandboxId /\ disk.behind \subseteq SandboxId
    BY DEF Types
<1>3. \A s \in SandboxId : /\ maps[s] \in Entries /\ disk.maps[s] \in Entries
                           /\ branch[s] \in Heads /\ remote[s] \in Heads
    BY <1>2 DEF Types, Metadata
<1> QED
    BY <1>1, <1>2, <1>3

LEMMA TypesOfNext ==
    ASSUME Types'
    PROVE  /\ lastId' \in Nat
           /\ \A s \in SandboxId : writing'[s] \in Nat
BY Numbers DEF Types

\* What is true of an entry, and of the maps and snapshots, after a step.
NextEntry(e, s, old) == EntryOK(e, s, branch'[s], main', lastId', agent', old)

NextCopyOK(m, ss, b) ==
    /\ \A s \in SandboxId : NextEntry(m[s], s, s \in b)
    /\ \A i \in 1 .. Len(ss), s \in SandboxId : NextEntry(ss[i].maps[s], s, writing'[s] > 0)
    /\ \A s \in b : writing'[s] > 0
    /\ \A i \in 1 .. Len(ss) : SnapshotOK(ss[i])
    /\ BuildUp(ss)

\* Every place that agrees with the maps on what is shared.
Agrees(m) == \A s \in SandboxId : maps[s].scope = "PRIVATE" => m[s].scope # "SHARED"

LEMMA PlacesAgree ==
    ASSUME IInv
    PROVE  /\ Agrees(maps) /\ Agrees(disk.maps)
           /\ \A i \in 1 .. Len(snaps) : Agrees(snaps[i].maps)
           /\ \A i \in 1 .. Len(disk.snaps) : Agrees(disk.snaps[i].maps)
<1> DEFINE P == Places(maps, snaps) \cup Places(disk.maps, disk.snaps)
<1>1. KindsAgree(P)
    BY DEF IInv
<1>2. \A m \in P : Agrees(m)
    <2>1. maps \in P
        BY DEF Places
    <2> HIDE DEF P
    <2> QED
        BY <1>1, <2>1 DEF KindsAgree, Agrees
<1> QED
    BY <1>2 DEF Places

\* The entry of a sandbox in a place that the step leaves alone.
LEMMA OldEntry ==
    ASSUME IInv, Types', GitStep, NEW s \in SandboxId, NEW e, NEW old \in BOOLEAN,
           NEW old2 \in BOOLEAN, old => old2,
           Entry(e, s, old), maps[s].scope = "PRIVATE" => e.scope # "SHARED",
           NotRebased(s) \/ old2
    PROVE  NextEntry(e, s, old2)
<1> USE TypesOf, TypesOfNext
<1>1. Types
    BY DEF IInv
<1>2. EntryOK(e, s, branch[s], main, lastId, agent, old)
    BY DEF Entry
<1>3. /\ main \subseteq main' /\ lastId <= lastId' /\ lastId \in Nat /\ lastId' \in Nat
    BY <1>1 DEF GitStep
<1>4. s > lastId => e = Absent /\ e.status # "RELEASED"
    BY <1>2 DEF EntryOK, Absent
<1>5. s \in agent => e.status # "RELEASED"
    BY <1>2 DEF EntryOK
<1>6. s \in agent' => s \in agent \/ e = Absent
    BY <1>4 DEF GitStep
<1>7. \/ branch'[s] = branch[s]
      \/ e.status # "RELEASED"
      \/ e.scope # "SHARED" /\ branch'[s] = NoCommit /\ branch[s] \subseteq main
      \/ e.scope # "SHARED" /\ old2
    <2>1. CASE NotRebased(s)
        BY <2>1, <1>4, <1>5 DEF NotRebased
    <2>2. CASE ~NotRebased(s)
        BY <2>2, <1>4, <1>5 DEF NotRebased, GitStep
    <2> QED
        BY <2>1, <2>2
<1>8. EntryOK(e, s, branch'[s], main', lastId', agent', old2)
    BY <1>2, <1>3, <1>6, <1>7, EntryKept
<1> QED
    BY <1>8 DEF NextEntry

\* Snapshots that exist stay true of git.
LEMMA SnapshotsKept ==
    ASSUME IInv, Types', GitStep, NEW ss, NEW i \in 1 .. Len(ss), NEW s \in SandboxId,
           Entry(ss[i].maps[s], s, writing[s] > 0), Agrees(ss[i].maps)
    PROVE  NextEntry(ss[i].maps[s], s, writing'[s] > 0)
<1>1. writing[s] \in Nat /\ writing'[s] \in Nat /\ writing[s] <= writing'[s]
    BY TypesOf, TypesOfNext DEF IInv, GitStep
<1>2. writing[s] > 0 => writing'[s] > 0
    BY <1>1
<1>3. NotRebased(s) \/ writing'[s] > 0
    BY DEF GitStep, NotRebased
<1>4. maps[s].scope = "PRIVATE" => ss[i].maps[s].scope # "SHARED"
    BY DEF Agrees
<1>5. (writing[s] > 0) \in BOOLEAN /\ (writing'[s] > 0) \in BOOLEAN
    OBVIOUS
<1> QED
    BY <1>2, <1>3, <1>4, <1>5, OldEntry

\* So do the maps and the snapshots, of memory or of the store, that a step
\* leaves alone, if those that it rebases are known to be from before.
LEMMA CopyKept ==
    ASSUME IInv, Types', GitStep, NEW m, NEW ss, NEW b, NEW b2,
           CopyOK(m, ss, b), Agrees(m), \A i \in 1 .. Len(ss) : Agrees(ss[i].maps),
           b \subseteq SandboxId, b \subseteq b2, \A s \in b2 : s \in b \/ writing'[s] > 0,
           \A s \in SandboxId : NotRebased(s) \/ s \in b2
    PROVE  NextCopyOK(m, ss, b2)
<1>1. ASSUME NEW s \in SandboxId
      PROVE  NextEntry(m[s], s, s \in b2)
    <2>1. Entry(m[s], s, s \in b)
        BY DEF CopyOK
    <2>2. (s \in b) \in BOOLEAN /\ (s \in b2) \in BOOLEAN /\ (s \in b => s \in b2)
        OBVIOUS
    <2>3. maps[s].scope = "PRIVATE" => m[s].scope # "SHARED"
        BY DEF Agrees
    <2> QED
        BY <2>1, <2>2, <2>3, OldEntry
<1>2. \A i \in 1 .. Len(ss), s \in SandboxId : NextEntry(ss[i].maps[s], s, writing'[s] > 0)
    BY SnapshotsKept DEF CopyOK
<1>3. ASSUME NEW s \in b2
      PROVE  writing'[s] > 0
    <2>1. CASE s \in b
        <3>1. writing[s] > 0 /\ s \in SandboxId
            BY <2>1 DEF CopyOK
        <3>2. writing[s] \in Nat /\ writing'[s] \in Nat /\ writing[s] <= writing'[s]
            BY <3>1, TypesOf, TypesOfNext DEF IInv, GitStep
        <3> QED
            BY <3>1, <3>2
    <2> QED
        BY <2>1
<1> QED
    BY <1>1, <1>2, <1>3 DEF CopyOK, NextCopyOK

\* What a step leaves alone in memory or in the store.
LEMMA MemoryKept ==
    ASSUME IInv, Types', GitStep, \A s \in SandboxId : NotRebased(s)
    PROVE  NextCopyOK(maps, snaps, behind)
<1>1. /\ CopyOK(maps, snaps, behind) /\ behind \subseteq SandboxId
      /\ Agrees(maps) /\ \A i \in 1 .. Len(snaps) : Agrees(snaps[i].maps)
    BY PlacesAgree, TypesOf DEF IInv
<1> QED
    BY <1>1, CopyKept

LEMMA StoreKept ==
    ASSUME IInv, Types', GitStep, NEW b2, disk.behind \subseteq b2,
           \A s \in b2 : s \in disk.behind \/ writing'[s] > 0,
           \A s \in SandboxId : NotRebased(s) \/ s \in b2
    PROVE  NextCopyOK(disk.maps, disk.snaps, b2)
<1>1. /\ CopyOK(disk.maps, disk.snaps, disk.behind) /\ disk.behind \subseteq SandboxId
      /\ Agrees(disk.maps) /\ \A i \in 1 .. Len(disk.snaps) : Agrees(disk.snaps[i].maps)
    BY PlacesAgree, TypesOf DEF IInv
<1> QED
    BY <1>1, CopyKept

\* A step that leaves memory as m, ss and b, and the store as it was or with
\* the same: R has the sandboxes that the store may not know to be rebased.
StoreStep(m, ss, b, R) ==
    /\ maps' = m /\ snaps' = ss /\ behind' = b
    /\ \/ disk' = [maps |-> m, snaps |-> ss, behind |-> b]
       \/ disk' = [disk EXCEPT !.behind = @ \cup R]

LEMMA SaveIsStoreStep ==
    ASSUME NEW m, NEW ss, NEW b, NEW R,
           Save(m, ss, b, R) \/ Persist(m, ss, b) \/ PersistFails(m, ss, b, R)
    PROVE  StoreStep(m, ss, b, R)
BY DEF Save, Persist, PersistFails, InMemory, StoreStep

LEMMA StoreTypes ==
    ASSUME Types, NEW m \in Metadata, NEW ss \in Seq(Snaps), NEW b \in SUBSET SandboxId,
           NEW R \in SUBSET SandboxId, StoreStep(m, ss, b, R)
    PROVE  /\ maps' \in Metadata /\ snaps' \in Seq(Snaps) /\ behind' \in SUBSET SandboxId
           /\ disk' \in [maps : Metadata, snaps : Seq(Snaps), behind : SUBSET SandboxId]
<1>1. disk.behind \cup R \in SUBSET SandboxId
    BY TypesOf
<1>2. [disk EXCEPT !.behind = @ \cup R] \in [maps : Metadata, snaps : Seq(Snaps), behind : SUBSET SandboxId]
    BY <1>1 DEF Types
<1>3. [maps |-> m, snaps |-> ss, behind |-> b]
         \in [maps : Metadata, snaps : Seq(Snaps), behind : SUBSET SandboxId]
    OBVIOUS
<1> QED
    BY <1>2, <1>3 DEF StoreStep

\* Memory and the store after a step.
LEMMA StepOK ==
    ASSUME IInv, Types', GitStep, \A s \in SandboxId : GitOK(s)',
           NEW m, NEW ss, NEW b, NEW R, R \subseteq SandboxId, StoreStep(m, ss, b, R),
           NextCopyOK(m, ss, b),
           \A s \in R : writing'[s] > 0,
           \A s \in SandboxId : NotRebased(s) \/ s \in R,
           KindsAgree(Places(m, ss) \cup Places(disk.maps, disk.snaps))
    PROVE  IInv'
<1>1. maps' = m /\ snaps' = ss /\ behind' = b
    BY DEF StoreStep
<1>2. NextCopyOK(disk'.maps, disk'.snaps, disk'.behind)
    <2>1. CASE disk' = [maps |-> m, snaps |-> ss, behind |-> b]
        BY <2>1
    <2>2. CASE disk' = [disk EXCEPT !.behind = @ \cup R]
        <3>1. /\ disk'.maps = disk.maps /\ disk'.snaps = disk.snaps
              /\ disk'.behind = disk.behind \cup R
            BY <2>2 DEF IInv, Types
        <3>2. NextCopyOK(disk.maps, disk.snaps, disk.behind \cup R)
            BY StoreKept
        <3> QED
            BY <3>1, <3>2
    <2> QED
        BY <2>1, <2>2 DEF StoreStep
<1>3. KindsAgree(Places(m, ss) \cup Places(disk'.maps, disk'.snaps))
    <2>1. \/ disk'.maps = m /\ disk'.snaps = ss
          \/ disk'.maps = disk.maps /\ disk'.snaps = disk.snaps
        BY DEF StoreStep, IInv, Types
    <2> QED
        BY <2>1 DEF KindsAgree
<1>4. CopyOK(maps, snaps, behind)'
    BY <1>1 DEF CopyOK, NextCopyOK, Entry, NextEntry
<1>5. CopyOK(disk.maps, disk.snaps, disk.behind)'
    BY <1>2 DEF CopyOK, NextCopyOK, Entry, NextEntry
<1>6. KindsAgree(Places(maps, snaps) \cup Places(disk.maps, disk.snaps))'
    BY <1>1, <1>3
<1> QED
    BY <1>4, <1>5, <1>6 DEF IInv

\* The same for a step that records no snapshot and that rebases nothing.
LEMMA NoSnapshot ==
    ASSUME IInv, Types', GitStep, \A s \in SandboxId : GitOK(s)',
           NEW m, StoreStep(m, snaps, behind, {}),
           \A s \in SandboxId : NotRebased(s) /\ NextEntry(m[s], s, s \in behind),
           KindsAgree(Places(m, snaps) \cup Places(disk.maps, disk.snaps))
    PROVE  IInv'
<1>1. NextCopyOK(m, snaps, behind)
    BY MemoryKept DEF NextCopyOK
<1> QED
    BY <1>1, StepOK

-----------------------------------------------------------------------------
(***************************************************************************)
(* The steps.                                                              *)
(***************************************************************************)
LEMMA InitOK == Init => IInv
<1> SUFFICES ASSUME Init PROVE IInv
    OBVIOUS
<1> DEFINE none == [s \in SandboxId |-> Absent]
<1>1. Absent \in Entries /\ NoCommit \in Heads /\ {} \in Commits
    BY NewEntries, Unions DEF Heads
<1>2. /\ maps = none /\ snaps = <<>> /\ behind = {}
      /\ disk.maps = none /\ disk.snaps = <<>> /\ disk.behind = {}
      /\ <<>> \in Seq(Snaps) /\ Len(snaps) = 0
    BY DEF Init
<1>3. \A i \in 1 .. Len(<<>>) : FALSE
    OBVIOUS
<1>4. none \in Metadata
    BY <1>1 DEF Metadata
<1>5. disk \in [maps : Metadata, snaps : Seq(Snaps), behind : SUBSET SandboxId]
    BY <1>2, <1>4 DEF Init
<1>6. Types
    BY <1>1, <1>2, <1>4, <1>5, Numbers DEF Init, Types, TreeStatus
<1>7. \A s \in SandboxId : Entry(none[s], s, s \in {})
    BY DEF Init, Entry, EntryOK, Absent
<1>8. CopyOK(none, <<>>, {})
    BY <1>3, <1>7 DEF CopyOK, BuildUp
<1>9. \A s \in SandboxId : GitOK(s)
    BY DEF Init, GitOK
<1>10. KindsAgree(Places(none, <<>>) \cup Places(none, <<>>))
    <2>1. \A m \in Places(none, <<>>) : m = none
        BY <1>3 DEF Places
    <2> QED
        BY <2>1 DEF KindsAgree, Absent
<1> QED
    BY <1>2, <1>6, <1>8, <1>9, <1>10 DEF IInv

\* The places that name sandboxes.
AllPlaces == Places(maps, snaps) \cup Places(disk.maps, disk.snaps)

LEMMA PlacesOf ==
    /\ maps \in AllPlaces
    /\ \A i \in 1 .. Len(snaps) : snaps[i].maps \in AllPlaces
    /\ \A p \in Places(disk.maps, disk.snaps) : p \in AllPlaces
BY DEF AllPlaces, Places

\* The next sandbox is new everywhere.
LEMMA NextIsNew ==
    ASSUME IInv, lastId + 1 \in SandboxId
    PROVE  /\ lastId \in Nat /\ lastId + 1 > lastId
           /\ lastId + 1 \in 0 .. MaxSandboxes
           /\ \A p \in AllPlaces : p[lastId + 1] = Absent /\ p[lastId + 1].scope = "NONE"
           /\ branch[lastId + 1] = NoCommit /\ remote[lastId + 1] = NoCommit
           /\ lastId + 1 \notin agent
<1>1. Types
    BY DEF IInv
<1>2. lastId \in Nat /\ lastId + 1 > lastId /\ lastId + 1 \in 0 .. MaxSandboxes
    BY <1>1, TypesOf
<1>3. ASSUME NEW m, NEW ss, NEW b, CopyOK(m, ss, b)
      PROVE  \A p \in Places(m, ss) : p[lastId + 1] = Absent
    BY <1>2, <1>3 DEF CopyOK, Entry, EntryOK, Places
<1>4. \A p \in AllPlaces : p[lastId + 1] = Absent
    BY <1>3 DEF IInv, AllPlaces
<1>5. branch[lastId + 1] = NoCommit /\ remote[lastId + 1] = NoCommit /\ lastId + 1 \notin agent
    BY <1>2 DEF IInv, GitOK
<1>6. Absent.scope = "NONE"
    BY DEF Absent
<1> QED
    BY <1>2, <1>4, <1>5, <1>6

\* A new sandbox n has the same scope wherever it is.
LEMMA KindsWithNew ==
    ASSUME NEW P, NEW Q, NEW n, NEW k, KindsAgree(P),
           \A q \in Q, s \in SandboxId : s # n => \E p \in P : p[s].scope = q[s].scope,
           \A q \in Q : q[n].scope \in {"NONE", k}
    PROVE  KindsAgree(Q)
<1> SUFFICES ASSUME NEW q1 \in Q, NEW q2 \in Q, NEW s \in SandboxId,
                    q1[s].scope = "SHARED", q2[s].scope = "PRIVATE"
             PROVE  FALSE
    BY DEF KindsAgree
<1>1. CASE s = n
    BY <1>1
<1>2. CASE s # n
    <2>1. PICK p1 \in P : p1[s].scope = "SHARED"
        BY <1>2
    <2>2. PICK p2 \in P : p2[s].scope = "PRIVATE"
        BY <1>2
    <2> QED
        BY <2>1, <2>2 DEF KindsAgree
<1> QED
    BY <1>1, <1>2

\* The scopes after a step that leaves the snapshots and writes the maps m,
\* in which n is new.
LEMMA KindsAfterSave ==
    ASSUME IInv, NEW m, NEW n, NEW k,
           \A s \in SandboxId : s # n => m[s].scope = maps[s].scope,
           m[n].scope \in {"NONE", k},
           \A p \in AllPlaces : p[n].scope = "NONE"
    PROVE  KindsAgree(Places(m, snaps) \cup Places(disk.maps, disk.snaps))
<1> DEFINE Q == Places(m, snaps) \cup Places(disk.maps, disk.snaps)
<1>1. KindsAgree(AllPlaces)
    BY DEF IInv, AllPlaces
<1>2. \A q \in Q : q = m \/ q \in AllPlaces
    BY DEF Places, AllPlaces
<1>3. \A q \in Q, s \in SandboxId : s # n => \E p \in AllPlaces : p[s].scope = q[s].scope
    BY <1>2, PlacesOf
<1>4. \A q \in Q : q[n].scope \in {"NONE", k}
    BY <1>2
<1> HIDE DEF Q
<1>5. KindsAgree(Q)
    BY <1>1, <1>3, <1>4, KindsWithNew
<1> QED
    BY <1>5 DEF Q

\* The same if no sandbox is new.
LEMMA KindsSame ==
    ASSUME IInv, NEW m, NEW p0 \in AllPlaces, \A s \in SandboxId : m[s].scope = p0[s].scope
    PROVE  KindsAgree(Places(m, snaps) \cup Places(disk.maps, disk.snaps))
<1> DEFINE Q == Places(m, snaps) \cup Places(disk.maps, disk.snaps)
<1>1. KindsAgree(AllPlaces)
    BY DEF IInv, AllPlaces
<1>2. \A q \in Q : q = m \/ q \in AllPlaces
    BY DEF Places, AllPlaces
<1>3. \A q \in Q, s \in SandboxId : \E p \in AllPlaces : p[s].scope = q[s].scope
    BY <1>2
<1> HIDE DEF Q
<1>4. KindsAgree(Q)
    BY <1>1, <1>3, KindsKept
<1> QED
    BY <1>4 DEF Q

LEMMA CreatePrivateOK ==
    ASSUME IInv, CreatePrivate
    PROVE  IInv'
<1> DEFINE n == lastId + 1
           m == [maps EXCEPT ![n] = Private("ACTIVE", NoCommit)]
<1>1. /\ n \in SandboxId /\ lastId' = n
      /\ StoreStep(m, snaps, behind, {})
      /\ branch' = [branch EXCEPT ![n] = main]
      /\ tree' = [tree EXCEPT ![n] = "clean"]
      /\ agent' = agent \cup {n} \/ agent' = agent
      /\ remote' = remote /\ main' = main /\ writing' = writing
    BY SaveIsStoreStep DEF CreatePrivate
<1>2. Types
    BY DEF IInv
<1>3. /\ lastId \in Nat /\ n > lastId /\ n \in 0 .. MaxSandboxes
      /\ \A p \in AllPlaces : p[n].scope = "NONE"
      /\ branch[n] = NoCommit /\ remote[n] = NoCommit /\ n \notin agent
    BY <1>1, NextIsNew
<1>4. /\ \A s \in SandboxId : s > n => s > lastId
      /\ \A s \in SandboxId : s # n /\ s > lastId => s > n
    BY <1>3, Numbers
<1>5. NoCommit \in Heads /\ Private("ACTIVE", NoCommit) \in Entries
    BY NewEntries DEF Heads
<1>6. m \in Metadata
    BY <1>2, <1>5 DEF Types, Metadata
<1>7. m[n].scope = "PRIVATE" /\ m[n].status = "ACTIVE"
    BY <1>1, <1>2 DEF Private, Types, Metadata
<1>8. \A s \in SandboxId : s # n => m[s] = maps[s] /\ NotRebased(s)
    BY <1>1, <1>2 DEF NotRebased, Types, Metadata
<1> HIDE DEF n, m
<1>9. Types'
    <2>1. /\ maps' \in Metadata /\ snaps' \in Seq(Snaps) /\ behind' \in SUBSET SandboxId
          /\ disk' \in [maps : Metadata, snaps : Seq(Snaps), behind : SUBSET SandboxId]
        BY <1>1, <1>2, <1>6, TypesOf, StoreTypes
    <2> QED
        BY <2>1, <1>1, <1>2, <1>3, <1>5 DEF Types, TreeStatus, Heads
<1>10. GitStep
    BY <1>1, <1>2, <1>3, TypesOf DEF GitStep, Types
<1>11. \A s \in SandboxId : NotRebased(s)
    BY <1>3, <1>8 DEF NotRebased
<1>12. NextEntry(m[n], n, n \in behind)
    <2>1. ~(n > n)
        BY <1>3
    <2> QED
        BY <1>1, <1>7, <2>1 DEF NextEntry, EntryOK
<1>13. \A s \in SandboxId : NextEntry(m[s], s, s \in behind)
    BY <1>8, <1>9, <1>10, <1>11, <1>12, MemoryKept DEF NextCopyOK
<1>14. \A s \in SandboxId : GitOK(s)'
    <2> SUFFICES ASSUME NEW s \in SandboxId PROVE GitOK(s)'
        OBVIOUS
    <2>1. CASE s = n
        BY <2>1, <1>1, <1>2, <1>3, Unions DEF GitOK, Types
    <2>2. CASE s # n
        BY <2>2, <1>1, <1>2, <1>4 DEF IInv, GitOK, Types
    <2> QED
        BY <2>1, <2>2
<1>15. KindsAgree(Places(m, snaps) \cup Places(disk.maps, disk.snaps))
    BY <1>3, <1>7, <1>8, KindsAfterSave
<1> QED
    BY <1>1, <1>9, <1>10, <1>11, <1>13, <1>14, <1>15, NoSnapshot

\* A step that leaves the maps, the store and the snapshots alone.
LEMMA NothingSaved ==
    ASSUME IInv, Types', GitStep, UNCHANGED <<maps, snaps, behind, disk>>,
           \A s \in SandboxId : NotRebased(s) /\ GitOK(s)'
    PROVE  IInv'
<1>1. [disk EXCEPT !.behind = @ \cup {}] = disk
    BY DEF IInv, Types
<1>2. StoreStep(maps, snaps, behind, {})
    BY <1>1 DEF StoreStep
<1>3. \A s \in SandboxId : NextEntry(maps[s], s, s \in behind)
    BY MemoryKept DEF NextCopyOK
<1>4. KindsAgree(Places(maps, snaps) \cup Places(disk.maps, disk.snaps))
    BY DEF IInv
<1> QED
    BY <1>2, <1>3, <1>4, NoSnapshot

\* A step that writes the maps m, in which no scope has changed.
LEMMA MapsWritten ==
    ASSUME IInv, Types', GitStep, NEW m, StoreStep(m, snaps, behind, {}),
           \A s \in SandboxId :
              /\ m[s].scope = maps[s].scope
              /\ NotRebased(s) /\ NextEntry(m[s], s, s \in behind)
              /\ GitOK(s)'
    PROVE  IInv'
<1>1. KindsAgree(Places(m, snaps) \cup Places(disk.maps, disk.snaps))
    BY PlacesOf, KindsSame
<1> QED
    BY <1>1, NoSnapshot

LEMMA FinalizePrivateRunOK ==
    ASSUME IInv, NEW s \in SandboxId, FinalizePrivateRun(s)
    PROVE  IInv'
<1>1. /\ s \in agent /\ branch' = [branch EXCEPT ![s] = Committed(s)]
      /\ tree' = [tree EXCEPT ![s] = "manifest"]
      /\ UNCHANGED <<maps, snaps, behind, disk, remote, main, writing, agent, lastId>>
    BY DEF FinalizePrivateRun, store
<1>2. Types
    BY DEF IInv
<1>3. GitOK(s) /\ branch[s] \in Heads
    BY <1>2, TypesOf DEF IInv
<1>4. branch[s] \in Commits
    BY <1>1, <1>3 DEF GitOK, Heads
<1>5. {<<s, 0>>} \in Commits
    BY Work, Numbers
<1>6. Committed(s) \in Commits
    BY <1>4, <1>5, Unions DEF Committed
<1>7. Committed(s) # NoCommit /\ Committed(s) \in Heads
    BY <1>6, Unions DEF Heads
<1>8. Types'
    BY <1>1, <1>2, <1>7 DEF Types, TreeStatus
<1>9. \A x \in SandboxId : NotRebased(x)
    BY <1>1, <1>2 DEF NotRebased, Types
<1>10. GitStep
    BY <1>1, <1>2, <1>9, TypesOf DEF GitStep, NotRebased
<1>11. \A x \in SandboxId : GitOK(x)'
    <2> SUFFICES ASSUME NEW x \in SandboxId PROVE GitOK(x)'
        OBVIOUS
    <2>1. CASE x = s
        BY <2>1, <1>1, <1>2, <1>3, <1>7 DEF GitOK, Types
    <2>2. CASE x # s
        BY <2>2, <1>1, <1>2 DEF IInv, GitOK, Types
    <2> QED
        BY <2>1, <2>2
<1> QED
    BY <1>1, <1>8, <1>9, <1>10, <1>11, NothingSaved

\* The end of a run, with or without success, for the entry e of its sandbox.
LEMMA RunEndsOK ==
    ASSUME IInv, NEW s \in SandboxId, NEW e \in Entries, s \in agent,
           e.scope = maps[s].scope \/ maps[s] = Absent,
           maps[s] # Absent => e.scope # "NONE",
           e.status = "RELEASED" => e.head = branch[s] /\ e.head \in Commits,
           \/ maps[s] = Absent /\ UNCHANGED store
           \/ maps[s] # Absent /\ Save([maps EXCEPT ![s] = e], snaps, behind, {}),
           agent' = agent \ {s}, UNCHANGED <<tree, branch, main, writing, lastId>>,
           remote' \in [SandboxId -> Heads],
           \A x \in SandboxId : x # s => remote'[x] = remote[x]
    PROVE  IInv'
<1> DEFINE m == [maps EXCEPT ![s] = e]
<1>1. Types
    BY DEF IInv
<1>2. m \in Metadata /\ m[s] = e /\ \A x \in SandboxId : x # s => m[x] = maps[x]
    BY <1>1 DEF Types, Metadata
<1>3. \A x \in SandboxId : NotRebased(x)
    BY DEF NotRebased
<1>4. GitStep
    BY <1>1, TypesOf DEF GitStep
<1>5. GitOK(s) /\ lastId \in Nat /\ s \in Nat
    BY <1>1, TypesOf, Numbers DEF IInv
<1>6. \A x \in SandboxId : GitOK(x)'
    <2> SUFFICES ASSUME NEW x \in SandboxId PROVE GitOK(x)'
        OBVIOUS
    <2>1. CASE x = s
        BY <2>1, <1>5 DEF GitOK
    <2>2. CASE x # s
        BY <2>2 DEF IInv, GitOK
    <2> QED
        BY <2>1, <2>2
<1>7. CASE maps[s] = Absent /\ UNCHANGED store
    <2>1. UNCHANGED <<maps, snaps, behind, disk>>
        BY <1>7 DEF store
    <2>2. Types'
        BY <1>1, <2>1 DEF Types
    <2> QED
        BY <1>3, <1>4, <1>6, <2>1, <2>2, NothingSaved
<1>8. CASE maps[s] # Absent /\ Save([maps EXCEPT ![s] = e], snaps, behind, {})
    <2>1. StoreStep(m, snaps, behind, {})
        BY <1>8, SaveIsStoreStep
    <2>2. /\ maps' \in Metadata /\ snaps' \in Seq(Snaps) /\ behind' \in SUBSET SandboxId
          /\ disk' \in [maps : Metadata, snaps : Seq(Snaps), behind : SUBSET SandboxId]
        BY <1>1, <1>2, <2>1, TypesOf, StoreTypes
    <2>3. Types'
        BY <1>1, <2>2 DEF Types
    <2>4. NextEntry(e, s, s \in behind)
        BY <1>5, <1>8 DEF NextEntry, EntryOK, GitOK
    <2>5. \A x \in SandboxId : NextEntry(maps[x], x, x \in behind)
        BY <1>3, <1>4, <2>3, MemoryKept DEF NextCopyOK
    <2>6. \A x \in SandboxId :
             m[x].scope = maps[x].scope /\ NextEntry(m[x], x, x \in behind)
        BY <1>2, <1>8, <2>4, <2>5
    <2> HIDE DEF m
    <2> QED
        BY <1>3, <1>4, <1>6, <2>1, <2>3, <2>6, MapsWritten
<1> QED
    BY <1>7, <1>8

LEMMA CompleteRunOK ==
    ASSUME IInv, NEW s \in SandboxId, CompleteRun(s)
    PROVE  IInv'
<1> DEFINE e == Private("RELEASED", branch[s])
<1>1. Types
    BY DEF IInv
<1>2. s \in agent /\ branch[s] \in Commits /\ branch[s] \in Heads
    BY <1>1, TypesOf DEF CompleteRun, IInv, GitOK, Heads
<1>3. e \in Entries /\ e.scope = "PRIVATE" /\ e.status = "RELEASED" /\ e.head = branch[s]
    BY <1>2, NewEntries DEF Private
<1>4. maps[s].scope = "PRIVATE" \/ maps[s] = Absent
    <2>1. Entry(maps[s], s, s \in behind) /\ maps[s] \in Entries
        BY <1>1, TypesOf DEF IInv, CopyOK
    <2>2. maps[s].scope # "SHARED"
        BY <2>1, <1>2 DEF Entry, EntryOK
    <2> QED
        BY <2>1, <2>2 DEF Entries, Entry, EntryOK
<1>5. remote' \in [SandboxId -> Heads] /\ \A x \in SandboxId : x # s => remote'[x] = remote[x]
    BY <1>1, <1>2 DEF CompleteRun, Pushed, Types
<1>6. \/ maps[s] = Absent /\ UNCHANGED store
      \/ maps[s] # Absent /\ Save([maps EXCEPT ![s] = e], snaps, behind, {})
    BY DEF CompleteRun
<1>7. agent' = agent \ {s} /\ UNCHANGED <<tree, branch, main, writing, lastId>>
    BY DEF CompleteRun
<1> HIDE DEF e
<1> QED
    BY <1>2, <1>3, <1>4, <1>5, <1>6, <1>7, RunEndsOK

LEMMA FailRunOK ==
    ASSUME IInv, NEW s \in SandboxId, FailRun(s)
    PROVE  IInv'
<1> DEFINE e == [maps[s] EXCEPT !.status = "FAILED"]
<1>1. Types
    BY DEF IInv
<1>2. s \in agent /\ remote' = remote /\ remote \in [SandboxId -> Heads]
    BY <1>1 DEF FailRun, Types
<1>3. maps[s] \in Entries
    BY <1>1, TypesOf
<1>4. e \in Entries /\ e.scope = maps[s].scope /\ e.status = "FAILED"
    BY <1>3 DEF Entries
<1>5. maps[s] # Absent => e.scope # "NONE"
    BY <1>4 DEF IInv, CopyOK, Entry, EntryOK
<1>6. \/ maps[s] = Absent /\ UNCHANGED store
      \/ maps[s] # Absent /\ Save([maps EXCEPT ![s] = e], snaps, behind, {})
    BY DEF FailRun
<1>7. agent' = agent \ {s} /\ UNCHANGED <<tree, branch, main, writing, lastId>>
    BY DEF FailRun
<1> HIDE DEF e
<1> QED
    BY <1>2, <1>4, <1>5, <1>6, <1>7, RunEndsOK

LEMMA EditOK ==
    ASSUME IInv, NEW s \in SandboxId, Edit(s)
    PROVE  IInv'
<1>1. /\ s \notin agent /\ tree' = [tree EXCEPT ![s] = "edited"]
      /\ UNCHANGED <<maps, snaps, behind, disk, branch, remote, main, writing, agent, lastId>>
    BY DEF Edit, store
<1>2. Types
    BY DEF IInv
<1>3. Types'
    BY <1>1, <1>2 DEF Types, TreeStatus
<1>4. \A x \in SandboxId : NotRebased(x)
    BY <1>1 DEF NotRebased
<1>5. GitStep
    BY <1>1, <1>2, TypesOf DEF GitStep
<1>6. \A x \in SandboxId : GitOK(x)'
    BY <1>1, <1>2 DEF IInv, GitOK, Types
<1> QED
    BY <1>1, <1>3, <1>4, <1>5, <1>6, NothingSaved

LEMMA UpstreamOK ==
    ASSUME IInv, Upstream
    PROVE  IInv'
<1>1. UNCHANGED <<maps, snaps, behind, disk, tree, branch, remote, writing, agent, lastId>>
    BY DEF Upstream, store
<1>2. Types
    BY DEF IInv
<1>3. main' \in Commits /\ main \subseteq main'
    <2>1. ASSUME NEW k \in 1 .. MaxUpstream, main' = main \cup {<<0, k>>}
          PROVE  main' \in Commits /\ main \subseteq main'
        <3>1. {<<0, k>>} \in Commits
            BY Upstreams
        <3> QED
            BY <2>1, <3>1, <1>2, Unions DEF Types
    <2>2. ASSUME NEW s \in SandboxId, branch[s] # NoCommit, main' = main \cup branch[s]
          PROVE  main' \in Commits /\ main \subseteq main'
        <3>1. branch[s] \in Commits
            BY <2>2, <1>2, TypesOf DEF Heads
        <3> QED
            BY <2>2, <3>1, <1>2, Unions DEF Types
    <2> QED
        BY <2>1, <2>2 DEF Upstream
<1>4. Types'
    BY <1>1, <1>2, <1>3 DEF Types
<1>5. \A x \in SandboxId : NotRebased(x)
    BY <1>1 DEF NotRebased
<1>6. GitStep
    BY <1>1, <1>2, <1>3, TypesOf DEF GitStep
<1>7. \A x \in SandboxId : GitOK(x)'
    BY <1>1 DEF IInv, GitOK
<1> QED
    BY <1>1, <1>4, <1>5, <1>6, <1>7, NothingSaved

LEMMA RestartOK ==
    ASSUME IInv, Restart
    PROVE  IInv'
<1>1. /\ maps' = disk.maps /\ snaps' = disk.snaps /\ behind' = disk.behind /\ agent' = {}
      /\ UNCHANGED <<disk, tree, branch, remote, main, writing, lastId>>
    BY DEF Restart, InMemory, git
<1>2. Types
    BY DEF IInv
<1>3. Types'
    BY <1>1, <1>2, TypesOf DEF Types
<1>4. \A x \in SandboxId : NotRebased(x)
    BY <1>1 DEF NotRebased
<1>5. GitStep
    BY <1>1, <1>2, TypesOf DEF GitStep
<1>6. \A x \in SandboxId : GitOK(x)'
    BY <1>1 DEF IInv, GitOK
<1>7. NextCopyOK(disk.maps, disk.snaps, disk.behind)
    BY <1>3, <1>4, <1>5, StoreKept
<1>8. KindsAgree(Places(disk.maps, disk.snaps) \cup Places(disk.maps, disk.snaps))
    BY DEF IInv, KindsAgree
<1>9. disk = [maps |-> disk.maps, snaps |-> disk.snaps, behind |-> disk.behind]
    BY <1>2 DEF Types
<1>10. StoreStep(disk.maps, disk.snaps, disk.behind, {})
    BY <1>1, <1>9 DEF StoreStep
<1> QED
    BY <1>3, <1>4, <1>5, <1>6, <1>7, <1>8, <1>10, StepOK

\* A rebase that changes no branch still saves the maps.
LEMMA RebaseRefusedOK ==
    ASSUME IInv, NEW s \in SandboxId, Save(maps, snaps, behind, {}), Rebasable(s),
           tree' = [tree EXCEPT ![s] = "clean"] \/ tree' = [tree EXCEPT ![s] = "manifest"],
           UNCHANGED <<branch, remote, main, writing, agent, lastId>>
    PROVE  IInv'
<1>1. StoreStep(maps, snaps, behind, {})
    BY SaveIsStoreStep
<1>2. Types
    BY DEF IInv
<1>3. /\ maps' \in Metadata /\ snaps' \in Seq(Snaps) /\ behind' \in SUBSET SandboxId
      /\ disk' \in [maps : Metadata, snaps : Seq(Snaps), behind : SUBSET SandboxId]
    BY <1>1, <1>2, TypesOf, StoreTypes
<1>4. Types'
    BY <1>2, <1>3 DEF Types, TreeStatus
<1>5. \A x \in SandboxId : NotRebased(x)
    BY DEF NotRebased
<1>6. GitStep
    BY <1>2, TypesOf DEF GitStep
<1>7. \A x \in SandboxId : GitOK(x)'
    BY <1>2 DEF IInv, GitOK, Types
<1>8. \A x \in SandboxId : NextEntry(maps[x], x, x \in behind)
    BY <1>4, <1>5, <1>6, MemoryKept DEF NextCopyOK
<1> QED
    BY <1>1, <1>4, <1>5, <1>6, <1>7, <1>8, MapsWritten

\* What Rebasable says of the sandbox that is rebased.
LEMMA RebasableIsQuiet ==
    ASSUME IInv, NEW s \in SandboxId, Rebasable(s)
    PROVE  /\ s \notin agent /\ ~(s > lastId)
           /\ branch[s] \in Commits
           /\ maps[s].scope = "PRIVATE"
<1>1. Entry(maps[s], s, s \in behind)
    BY DEF IInv, CopyOK
<1>2. maps[s].scope = "PRIVATE" /\ maps[s].status = "RELEASED" /\ branch[s] = maps[s].head
    BY DEF Rebasable
<1> QED
    BY <1>1, <1>2 DEF Entry, EntryOK, Absent

LEMMA RebaseOK ==
    ASSUME IInv, NEW s \in SandboxId, NEW publish \in BOOLEAN, Rebase(s, publish)
    PROVE  IInv'
<1> DEFINE c == Rebased(s)
           m == RebasedMaps(s, c)
<1>1. /\ Rebasable(s) /\ writing[s] < MaxRebases
      /\ writing' = [writing EXCEPT ![s] = @ + 1]
      /\ branch' = [branch EXCEPT ![s] = c]
      /\ tree' = [tree EXCEPT ![s] = "manifest"]
      /\ remote' = IF publish /\ Accepted(s, c) THEN Pushed(s, c) ELSE remote
      /\ Save(m, snaps, behind \ {s}, {s})
      /\ main' = main /\ agent' = agent /\ lastId' = lastId
    BY DEF Rebase
<1>2. Types
    BY DEF IInv
<1>3. s \notin agent /\ ~(s > lastId) /\ maps[s].scope = "PRIVATE"
    BY <1>1, RebasableIsQuiet
<1>4. writing[s] \in Nat /\ writing[s] + 1 \in 0 .. MaxRebases
    BY <1>1, <1>2, TypesOf, Numbers
<1>5. c \in Commits
    <2>1. {<<s, writing[s] + 1>>} \in Commits
        BY <1>4, Work
    <2>2. main \in Commits
        BY <1>2 DEF Types
    <2> QED
        BY <2>1, <2>2, Unions DEF Rebased
<1> HIDE DEF c
<1>6. c \in Heads
    BY <1>5 DEF Heads
<1>7. StoreStep(m, snaps, behind \ {s}, {s})
    BY <1>1, SaveIsStoreStep
<1>8. /\ m \in Metadata
      /\ m[s] = [maps[s] EXCEPT !.head = c]
      /\ \A x \in SandboxId : x # s => m[x] = maps[x]
    <2>1. maps[s] \in Entries /\ maps \in [SandboxId -> Entries]
        BY <1>2, TypesOf DEF Types, Metadata
    <2>2. [maps[s] EXCEPT !.head = c] \in Entries
        BY <2>1, <1>6 DEF Entries
    <2> QED
        BY <2>1, <2>2 DEF RebasedMaps, Metadata
<1>9. m[s].scope = "PRIVATE" /\ m[s].status = "RELEASED" /\ m[s].head = c
    BY <1>1, <1>2, <1>8, TypesOf DEF Rebasable, Entries
<1> HIDE DEF m
<1>10. Types'
    <2>1. /\ maps' \in Metadata /\ snaps' \in Seq(Snaps) /\ behind' \in SUBSET SandboxId
          /\ disk' \in [maps : Metadata, snaps : Seq(Snaps), behind : SUBSET SandboxId]
        BY <1>2, <1>7, <1>8, TypesOf, StoreTypes
    <2>2. remote' \in [SandboxId -> Heads]
        BY <1>1, <1>2, <1>6 DEF Pushed, Types
    <2>3. writing' \in [SandboxId -> 0 .. MaxRebases]
        BY <1>1, <1>2, <1>4 DEF Types
    <2> QED
        BY <1>1, <1>2, <1>6, <2>1, <2>2, <2>3 DEF Types, TreeStatus
<1>11. writing'[s] = writing[s] + 1 /\ \A x \in SandboxId : x # s => writing'[x] = writing[x]
    BY <1>1, <1>2 DEF Types
<1>12. branch'[s] = c /\ \A x \in SandboxId : x # s => branch'[x] = branch[x] /\ remote'[x] = remote[x]
    BY <1>1, <1>2 DEF Types, Pushed
<1>13. GitStep
    <2>1. \A x \in SandboxId : writing[x] <= writing'[x]
        BY <1>2, <1>4, <1>11, TypesOf
    <2>2. lastId <= lastId
        BY <1>2, TypesOf
    <2>3. writing'[s] > 0
        BY <1>4, <1>11
    <2> QED
        BY <1>1, <1>3, <1>12, <2>1, <2>2, <2>3 DEF GitStep
<1>14. NextEntry(m[s], s, FALSE)
    BY <1>1, <1>3, <1>5, <1>9, <1>12 DEF NextEntry, EntryOK
<1>15. NextCopyOK(m, snaps, behind \ {s})
    <2>1. NextCopyOK(maps, snaps, behind \cup {s})
        <3>1. /\ CopyOK(maps, snaps, behind) /\ behind \subseteq SandboxId
              /\ Agrees(maps) /\ \A i \in 1 .. Len(snaps) : Agrees(snaps[i].maps)
            BY <1>2, PlacesAgree, TypesOf DEF IInv
        <3>2. \A x \in SandboxId : NotRebased(x) \/ x \in behind \cup {s}
            BY <1>12 DEF NotRebased
        <3>3. \A x \in behind \cup {s} : x \in behind \/ writing'[x] > 0
            BY <1>4, <1>11
        <3> QED
            BY <3>1, <3>2, <3>3, <1>10, <1>13, CopyKept
    <2>2. ASSUME NEW x \in SandboxId
          PROVE  NextEntry(m[x], x, x \in behind \ {s})
        <3>1. CASE x = s
            <4>1. (x \in behind \ {s}) = FALSE
                BY <3>1
            <4> QED
                BY <3>1, <4>1, <1>14
        <3>2. CASE x # s
            <4>1. NextEntry(maps[x], x, x \in behind \cup {s})
                BY <2>1 DEF NextCopyOK
            <4>2. (x \in behind \cup {s}) = (x \in behind \ {s})
                BY <3>2
            <4> QED
                BY <3>2, <4>1, <4>2, <1>8
        <3> QED
            BY <3>1, <3>2
    <2> QED
        BY <2>1, <2>2 DEF NextCopyOK
<1>16. \A x \in SandboxId : GitOK(x)'
    <2> SUFFICES ASSUME NEW x \in SandboxId PROVE GitOK(x)'
        OBVIOUS
    <2>1. CASE x = s
        BY <2>1, <1>1, <1>3 DEF GitOK
    <2>2. CASE x # s
        BY <2>2, <1>1, <1>2, <1>12 DEF IInv, GitOK, Types
    <2> QED
        BY <2>1, <2>2
<1>17. KindsAgree(Places(m, snaps) \cup Places(disk.maps, disk.snaps))
    <2>1. \A x \in SandboxId : m[x].scope = maps[x].scope
        BY <1>3, <1>8, <1>9
    <2> QED
        BY <2>1, PlacesOf, KindsSame
<1>18. \A x \in SandboxId : NotRebased(x) \/ x \in {s}
    BY <1>12 DEF NotRebased
<1>19. \A x \in {s} : writing'[x] > 0
    BY <1>4, <1>11
<1> QED
    BY <1>7, <1>10, <1>13, <1>15, <1>16, <1>17, <1>18, <1>19, StepOK

LEMMA RebaseWorkspacesOK ==
    ASSUME IInv, NEW s \in SandboxId, RebaseWorkspaces(s)
    PROVE  IInv'
<1>1. CASE \E publish \in BOOLEAN : Rebase(s, publish)
    BY <1>1, RebaseOK
<1>2. CASE RebaseConflicts(s)
    BY <1>2, RebaseRefusedOK DEF RebaseConflicts
<1>3. CASE RebaseUpToDate(s)
    BY <1>3, RebaseRefusedOK DEF RebaseUpToDate
<1> QED
    BY <1>1, <1>2, <1>3 DEF RebaseWorkspaces

\* What a cleanup does to the worktree, the branch and the entry of a sandbox.
LEMMA CleanedBranch ==
    ASSUME NEW m, NEW ss, NEW S, NEW x \in SandboxId,
           CleanedBranches(m, ss, S)[x] # branch[x]
    PROVE  Cleanable(m, x) /\ branch[x] \subseteq main /\ CleanedBranches(m, ss, S)[x] = NoCommit
BY DEF CleanedBranches, Deletable, IsAncestor

LEMMA CleanedTree ==
    ASSUME NEW m, NEW S, NEW x \in SandboxId, CleanedTrees(m, S)[x] # tree[x]
    PROVE  Cleanable(m, x) /\ CleanedTrees(m, S)[x] = "none"
BY DEF CleanedTrees

LEMMA CleanedEntry ==
    ASSUME NEW m, NEW S, NEW x \in SandboxId, CleanedMaps(m, S)[x] # m[x]
    PROVE  Cleanable(m, x) /\ CleanedMaps(m, S)[x] = [m[x] EXCEPT !.gone = TRUE]
BY DEF CleanedMaps

LEMMA CleanedTypes ==
    ASSUME Types, NEW m \in Metadata, NEW ss, NEW S
    PROVE  /\ CleanedMaps(m, S) \in Metadata
           /\ CleanedBranches(m, ss, S) \in [SandboxId -> Heads]
           /\ CleanedTrees(m, S) \in [SandboxId -> TreeStatus]
<1>1. \A x \in SandboxId : m[x] \in Entries
    BY DEF Metadata
<1>2. \A x \in SandboxId : [m[x] EXCEPT !.gone = TRUE] \in Entries
    BY <1>1 DEF Entries
<1>3. CleanedMaps(m, S) \in Metadata
    BY <1>1, <1>2 DEF CleanedMaps, Metadata
<1>4. CleanedBranches(m, ss, S) \in [SandboxId -> Heads]
    BY DEF CleanedBranches, Types, Heads
<1>5. CleanedTrees(m, S) \in [SandboxId -> TreeStatus]
    BY DEF CleanedTrees, Types, TreeStatus
<1> QED
    BY <1>3, <1>4, <1>5

\* That the worktree of an entry is gone does not matter to its head.
LEMMA GoneOK ==
    ASSUME NEW m \in Metadata, NEW S, NEW s \in SandboxId,
           NEW b, NEW mn, NEW lid, NEW ag, NEW old,
           EntryOK(m[s], s, b, mn, lid, ag, old)
    PROVE  /\ EntryOK(CleanedMaps(m, S)[s], s, b, mn, lid, ag, old)
           /\ CleanedMaps(m, S)[s].scope = m[s].scope
<1> DEFINE e == m[s]
           f == [e EXCEPT !.gone = TRUE]
<1>1. e \in Entries
    BY DEF Metadata
<1>2. f.scope = e.scope /\ f.status = e.status /\ f.head = e.head
    BY <1>1 DEF Entries
<1>3. CleanedMaps(m, S)[s] = e \/ (Cleanable(m, s) /\ CleanedMaps(m, S)[s] = f)
    BY CleanedEntry
<1>4. ASSUME Cleanable(m, s) PROVE EntryOK(f, s, b, mn, lid, ag, old)
    <2>1. e.scope = "PRIVATE" /\ e.status = "RELEASED"
        BY <1>4 DEF Cleanable
    <2>2. e # Absent
        BY <2>1 DEF Absent
    <2>3. EntryOK(e, s, b, mn, lid, ag, old)
        OBVIOUS
    <2> HIDE DEF e, f
    <2> QED
        BY <1>2, <2>1, <2>2, <2>3 DEF EntryOK
<1> QED
    BY <1>2, <1>3, <1>4

\* No goroutine works in a sandbox that is cleaned, and its entry is private.
LEMMA CleanableIsQuiet ==
    ASSUME IInv, NEW m, NEW s \in SandboxId, m[s] = maps[s], Cleanable(m, s)
    PROVE  s \notin agent /\ maps[s].scope = "PRIVATE" /\ ~(s > lastId)
<1>1. Entry(maps[s], s, s \in behind)
    BY DEF IInv, CopyOK
<1>2. maps[s].scope = "PRIVATE" /\ maps[s].status = "RELEASED"
    BY DEF Cleanable
<1> QED
    BY <1>1, <1>2 DEF Entry, EntryOK, Absent

LEMMA UnsavedIsStoreStep ==
    ASSUME Types, UNCHANGED disk, NEW m, NEW ss, NEW b, maps' = m, snaps' = ss, behind' = b
    PROVE  StoreStep(m, ss, b, {})
<1>1. [disk EXCEPT !.behind = @ \cup {}] = disk
    BY DEF Types
<1> QED
    BY <1>1 DEF StoreStep

LEMMA CleanupWorkspacesOK ==
    ASSUME IInv, NEW S, CleanupWorkspaces(S)
    PROVE  IInv'
<1> DEFINE m == CleanedMaps(maps, S)
<1>1. /\ tree' = CleanedTrees(maps, S)
      /\ branch' = CleanedBranches(maps, snaps, S)
      /\ maps' = m
      /\ UNCHANGED <<snaps, behind, disk, remote, main, writing, agent, lastId>>
    BY DEF CleanupWorkspaces
<1>2. Types
    BY DEF IInv
<1>3. maps \in Metadata
    BY <1>2 DEF Types
<1>4. Types'
    BY <1>1, <1>2, <1>3, CleanedTypes DEF Types
<1>5. \A s \in SandboxId :
         Cleanable(maps, s) => s \notin agent /\ maps[s].scope = "PRIVATE" /\ ~(s > lastId)
    BY CleanableIsQuiet
<1>6. \A s \in SandboxId :
         /\ \/ branch'[s] = branch[s]
            \/ Cleanable(maps, s) /\ branch[s] \subseteq main /\ branch'[s] = NoCommit
         /\ tree'[s] = tree[s] \/ Cleanable(maps, s)
    <2> SUFFICES ASSUME NEW s \in SandboxId
                 PROVE  /\ \/ branch'[s] = branch[s]
                           \/ Cleanable(maps, s) /\ branch[s] \subseteq main /\ branch'[s] = NoCommit
                        /\ tree'[s] = tree[s] \/ Cleanable(maps, s)
        OBVIOUS
    <2>1. CleanedBranches(maps, snaps, S)[s] # branch[s] =>
             /\ Cleanable(maps, s) /\ branch[s] \subseteq main
             /\ CleanedBranches(maps, snaps, S)[s] = NoCommit
        BY CleanedBranch
    <2>2. CleanedTrees(maps, S)[s] # tree[s] => Cleanable(maps, s)
        BY CleanedTree
    <2> QED
        BY <1>1, <2>1, <2>2
<1>7. \A s \in SandboxId : NotRebased(s)
    BY <1>5, <1>6 DEF NotRebased
<1>8. GitStep
    BY <1>1, <1>2, <1>7, TypesOf DEF GitStep, NotRebased
<1>9. \A s \in SandboxId : NextEntry(maps[s], s, s \in behind)
    BY <1>4, <1>7, <1>8, MemoryKept DEF NextCopyOK
<1>10. \A s \in SandboxId : NextEntry(m[s], s, s \in behind) /\ m[s].scope = maps[s].scope
    BY <1>3, <1>9, GoneOK DEF NextEntry
<1> HIDE DEF m
<1>11. \A s \in SandboxId : GitOK(s)'
    <2> SUFFICES ASSUME NEW s \in SandboxId PROVE GitOK(s)'
        OBVIOUS
    <2>1. GitOK(s)
        BY DEF IInv
    <2>2. \/ branch'[s] = branch[s] /\ tree'[s] = tree[s]
          \/ s \notin agent /\ ~(s > lastId)
        BY <1>5, <1>6
    <2> QED
        BY <1>1, <2>1, <2>2 DEF GitOK
<1>12. StoreStep(m, snaps, behind, {})
    BY <1>1, <1>2, UnsavedIsStoreStep
<1> QED
    BY <1>4, <1>7, <1>8, <1>10, <1>11, <1>12, MapsWritten

\* The commits that a merge starts from and merges.
LEMMA MergedHeads ==
    ASSUME IInv, NEW S, S \subseteq SandboxId, Mergeable(S), NEW U, U \subseteq S
    PROVE  /\ LatestWorkspaceHead \in Commits
           /\ UNION {maps[s].head : s \in U} \in Commits
<1>1. Types
    BY DEF IInv
<1>2. LatestWorkspaceHead \in Commits
    <2>1. CASE snaps = <<>>
        BY <2>1, <1>1 DEF LatestWorkspaceHead, Types
    <2>2. CASE snaps # <<>>
        <3>1. snaps \in Seq(Snaps) /\ Len(snaps) \in 1 .. Len(snaps)
            BY <2>2, <1>1 DEF Types
        <3> QED
            BY <2>2, <3>1, SnapsTypes DEF LatestWorkspaceHead, Last
    <2> QED
        BY <2>1, <2>2
<1>3. \A s \in U : maps[s].head \in Commits
    BY DEF Mergeable, IInv, CopyOK, Entry, EntryOK
<1>4. {maps[s].head : s \in U} \in SUBSET Commits
    BY <1>3
<1> QED
    BY <1>2, <1>4, Unions

\* A merge that leaves a failed sandbox n with a branch at c.
LEMMA FailedMergeOK ==
    ASSUME IInv, NEW n, n = lastId + 1, n \in SandboxId,
           NEW c \in Commits, NEW h \in Heads, NEW w \in TreeStatus,
           Save([maps EXCEPT ![n] = Shared("FAILED", h)], snaps, behind, {}),
           lastId' = n, branch' = [branch EXCEPT ![n] = c],
           remote' = remote \/ remote' = [remote EXCEPT ![n] = c],
           tree' = [tree EXCEPT ![n] = w], UNCHANGED <<main, writing, agent>>
    PROVE  IInv'
<1> DEFINE m == [maps EXCEPT ![n] = Shared("FAILED", h)]
<1>1. StoreStep(m, snaps, behind, {})
    BY SaveIsStoreStep
<1>2. Types
    BY DEF IInv
<1>3. /\ lastId \in Nat /\ n > lastId /\ n \in 0 .. MaxSandboxes
      /\ \A p \in AllPlaces : p[n].scope = "NONE"
      /\ branch[n] = NoCommit /\ remote[n] = NoCommit /\ n \notin agent
    BY NextIsNew
<1>4. /\ \A s \in SandboxId : s > n => s > lastId
      /\ ~(n > n)
    BY <1>3, Numbers
<1>5. m \in Metadata
    <2>1. Shared("FAILED", h) \in Entries
        BY NewEntries
    <2> QED
        BY <2>1, <1>2 DEF Types, Metadata
<1>6. c \in Heads
    BY DEF Heads
<1>7. \A s \in SandboxId : s # n => m[s] = maps[s] /\ NotRebased(s)
    BY <1>2 DEF NotRebased, Types, Metadata
<1>8. m[n].scope = "SHARED" /\ m[n].status = "FAILED"
    BY <1>2 DEF Shared, Types, Metadata
<1> HIDE DEF m
<1>9. Types'
    <2>1. /\ maps' \in Metadata /\ snaps' \in Seq(Snaps) /\ behind' \in SUBSET SandboxId
          /\ disk' \in [maps : Metadata, snaps : Seq(Snaps), behind : SUBSET SandboxId]
        BY <1>1, <1>2, <1>5, TypesOf, StoreTypes
    <2> QED
        BY <2>1, <1>2, <1>3, <1>6 DEF Types
<1>10. \A s \in SandboxId : NotRebased(s)
    BY <1>3, <1>7 DEF NotRebased
<1>11. GitStep
    BY <1>2, <1>3, <1>10, TypesOf DEF GitStep, NotRebased
<1>12. NextEntry(m[n], n, n \in behind)
    BY <1>3, <1>4, <1>8 DEF NextEntry, EntryOK
<1>13. \A s \in SandboxId : NextEntry(m[s], s, s \in behind)
    BY <1>7, <1>9, <1>10, <1>11, <1>12, MemoryKept DEF NextCopyOK
<1>14. \A s \in SandboxId : GitOK(s)'
    <2> SUFFICES ASSUME NEW s \in SandboxId PROVE GitOK(s)'
        OBVIOUS
    <2>1. CASE s = n
        BY <2>1, <1>3, <1>4 DEF GitOK
    <2>2. CASE s # n
        BY <2>2, <1>2, <1>4 DEF IInv, GitOK, Types
    <2> QED
        BY <2>1, <2>2
<1>15. KindsAgree(Places(m, snaps) \cup Places(disk.maps, disk.snaps))
    BY <1>3, <1>7, <1>8, KindsAfterSave
<1> QED
    BY <1>1, <1>9, <1>10, <1>11, <1>13, <1>14, <1>15, NoSnapshot

LEMMA MergeSharedFailsOK ==
    ASSUME IInv, NEW S, S \subseteq SandboxId, MergeSharedFails(S)
    PROVE  IInv'
<1> DEFINE n == lastId + 1
<1>1. /\ n \in SandboxId /\ Mergeable(S) /\ lastId' = n
      /\ Save([maps EXCEPT ![n] = Shared("FAILED", NoCommit)], snaps, behind, {})
      /\ tree' = [tree EXCEPT ![n] = "clean"]
      /\ UNCHANGED <<remote, main, writing, agent>>
    BY DEF MergeSharedFails
<1>2. PICK U \in SUBSET S :
         branch' = [branch EXCEPT ![n] = LatestWorkspaceHead \cup UNION {maps[s].head : s \in U}]
    BY DEF MergeSharedFails
<1> DEFINE c == LatestWorkspaceHead \cup UNION {maps[s].head : s \in U}
<1>3. c \in Commits /\ NoCommit \in Heads /\ "clean" \in TreeStatus
    BY <1>1, MergedHeads, Unions DEF Heads, TreeStatus
<1> HIDE DEF n, c
<1>4. branch' = [branch EXCEPT ![n] = c] /\ n = lastId + 1
    BY <1>2 DEF c, n
<1> QED
    BY <1>1, <1>3, <1>4, FailedMergeOK

\* The commit that a complete merge makes.
LEMMA MergedCommit ==
    ASSUME IInv, NEW S, S \subseteq SandboxId, Mergeable(S), NEW n \in SandboxId
    PROVE  Merged(n, S) \in Commits /\ LatestWorkspaceHead \subseteq Merged(n, S)
<1> DEFINE heads == UNION {maps[s].head : s \in S}
<1>1. LatestWorkspaceHead \in Commits /\ heads \in Commits
    BY MergedHeads
<1>2. {<<n, 0>>} \in Commits
    BY Work, Numbers
<1>3. Merged(n, S) = (LatestWorkspaceHead \cup heads) \cup {<<n, 0>>}
    BY DEF Merged
<1> HIDE DEF heads
<1>4. LatestWorkspaceHead \cup heads \in Commits
    BY <1>1, Unions
<1> QED
    BY <1>2, <1>3, <1>4, Unions

LEMMA IntegrationFailsOK ==
    ASSUME IInv, NEW S, S \subseteq SandboxId, IntegrationFails(S)
    PROVE  IInv'
<1> DEFINE n == lastId + 1
           c == Merged(n, S)
<1>1. /\ n \in SandboxId /\ Mergeable(S) /\ lastId' = n
      /\ branch' = [branch EXCEPT ![n] = c]
      /\ remote' = remote \/ remote' = Pushed(n, c)
      /\ Save([maps EXCEPT ![n] = Shared("FAILED", c)], snaps, behind, {})
      /\ tree' = [tree EXCEPT ![n] = "manifest"]
      /\ UNCHANGED <<main, writing, agent>>
    BY DEF IntegrationFails
<1>2. c \in Commits /\ "manifest" \in TreeStatus
    BY <1>1, MergedCommit DEF TreeStatus
<1> HIDE DEF n, c
<1>3. remote' = remote \/ remote' = [remote EXCEPT ![n] = c]
    BY <1>1 DEF Pushed
<1>4. c \in Heads /\ n = lastId + 1
    BY <1>2 DEF Heads, n
<1> QED
    BY <1>1, <1>2, <1>3, <1>4, FailedMergeOK

\* A place may say less about heads than another.
LEMMA OldWeaker ==
    ASSUME NEW e, NEW s, NEW old, NEW old2, old => old2, NextEntry(e, s, old)
    PROVE  NextEntry(e, s, old2)
BY DEF NextEntry, EntryOK

\* A step that writes the maps m and records the snapshot x, which builds on the
\* newest one if it comes from a merge.
LEMMA WithSnapshot ==
    ASSUME IInv, Types', GitStep, NEW m, NEW x \in Snaps, NEW b,
           StoreStep(m, Append(snaps, x), b, {}),
           \A s \in SandboxId :
              /\ NotRebased(s) /\ GitOK(s)'
              /\ NextEntry(m[s], s, s \in b)
              /\ NextEntry(x.maps[s], s, writing'[s] > 0),
           \A s \in b : writing'[s] > 0,
           KindsAgree(Places(m, Append(snaps, x)) \cup Places(disk.maps, disk.snaps)),
           SnapshotOK(x),
           x.kind = "shared" /\ snaps # <<>> => snaps[Len(snaps)].commit \subseteq x.commit
    PROVE  IInv'
<1> DEFINE ss == Append(snaps, x)
           n == Len(snaps)
<1>1. snaps \in Seq(Snaps)
    BY DEF IInv, Types
<1>2. /\ Len(ss) = n + 1 /\ n \in Nat
      /\ \A i \in 1 .. n : ss[i] = snaps[i]
      /\ ss[n + 1] = x
      /\ \A i \in 1 .. (n + 1) : i \in 1 .. n \/ i = n + 1
    BY <1>1, AppendFacts
<1>3. NextCopyOK(maps, snaps, behind)
    BY MemoryKept
<1>4. snaps # <<>> <=> n > 0
    BY <1>1
<1>5. /\ \A i \in 1 .. n, s \in SandboxId : NextEntry(snaps[i].maps[s], s, writing'[s] > 0)
      /\ \A i \in 1 .. n : SnapshotOK(snaps[i])
    BY <1>3 DEF NextCopyOK
<1>6. \A p, q \in 1 .. n :
         p < q /\ (\A k \in p .. q : snaps[k].kind = "shared")
             => snaps[p].commit \subseteq snaps[q].commit
    BY <1>3 DEF NextCopyOK, BuildUp, IsAncestor
<1>7. x.kind = "shared" /\ n > 0 => snaps[n].commit \subseteq x.commit
    BY <1>4
<1> HIDE DEF n, ss
<1>8. \A i \in 1 .. Len(ss) :
         /\ SnapshotOK(ss[i])
         /\ \A s \in SandboxId : NextEntry(ss[i].maps[s], s, writing'[s] > 0)
    <2> SUFFICES ASSUME NEW i \in 1 .. (n + 1)
                 PROVE  /\ SnapshotOK(ss[i])
                        /\ \A s \in SandboxId : NextEntry(ss[i].maps[s], s, writing'[s] > 0)
        BY <1>2
    <2>1. CASE i \in 1 .. n
        BY <2>1, <1>2, <1>5
    <2>2. CASE i = n + 1
        BY <2>2, <1>2
    <2> QED
        BY <1>2, <2>1, <2>2
<1>9. BuildUp(ss)
    <2> SUFFICES ASSUME NEW i \in 1 .. (n + 1), NEW j \in 1 .. (n + 1), i < j,
                        \A k \in i .. j : ss[k].kind = "shared"
                 PROVE  ss[i].commit \subseteq ss[j].commit
        BY <1>2 DEF BuildUp, IsAncestor
    <2>1. CASE j \in 1 .. n
        <3>1. i \in 1 .. n /\ \A k \in i .. j : k \in 1 .. n
            BY <2>1, <1>2
        <3> QED
            BY <1>6, <2>1, <3>1, <1>2
    <2>2. CASE j = n + 1
        <3>1. i \in 1 .. n /\ n \in 1 .. n /\ n > 0 /\ ss[n] = snaps[n] /\ ss[i] = snaps[i] /\ ss[j] = x
            BY <2>2, <1>2
        <3>2. j \in i .. j
            BY <2>2, <1>2, <3>1
        <3>3. x.kind = "shared"
            BY <3>1, <3>2
        <3>4. snaps[n].commit \subseteq x.commit
            BY <3>1, <3>3, <1>7
        <3>5. CASE i = n
            BY <3>1, <3>4, <3>5
        <3>6. CASE i < n
            <4>1. \A k \in i .. n : k \in i .. j /\ k \in 1 .. n
                BY <2>2, <3>1, <1>2
            <4>2. \A k \in i .. n : snaps[k].kind = "shared"
                BY <4>1, <1>2
            <4>3. snaps[i].commit \subseteq snaps[n].commit
                BY <1>6, <3>1, <3>6, <4>2
            <4> QED
                BY <4>3, <3>1, <3>4
        <3> QED
            BY <3>1, <3>5, <3>6, <1>2
    <2> QED
        BY <2>1, <2>2, <1>2
<1>10. NextCopyOK(m, ss, b)
    BY <1>8, <1>9 DEF NextCopyOK
<1> QED
    BY <1>10, StepOK DEF ss

\* The scopes after such a step, when n is the new shared sandbox.
LEMMA KindsAfterSnapshot ==
    ASSUME IInv, NEW m, NEW x \in Snaps, NEW n, NEW p0 \in AllPlaces,
           \A s \in SandboxId : s # n => m[s].scope = p0[s].scope /\ x.maps[s].scope = p0[s].scope,
           m[n].scope = "SHARED", x.maps[n].scope = "SHARED",
           \A p \in AllPlaces : p[n].scope = "NONE"
    PROVE  KindsAgree(Places(m, Append(snaps, x)) \cup Places(disk.maps, disk.snaps))
<1> DEFINE ss == Append(snaps, x)
           Q == Places(m, ss) \cup Places(disk.maps, disk.snaps)
<1>1. KindsAgree(AllPlaces)
    BY DEF IInv, AllPlaces
<1>2. snaps \in Seq(Snaps)
    BY DEF IInv, Types
<1>3. /\ Len(ss) = Len(snaps) + 1
      /\ \A i \in 1 .. Len(snaps) : ss[i] = snaps[i]
      /\ ss[Len(snaps) + 1] = x
      /\ \A i \in 1 .. (Len(snaps) + 1) : i \in 1 .. Len(snaps) \/ i = Len(snaps) + 1
    BY <1>2, AppendFacts
<1>4. \A q \in Q : q = m \/ q = x.maps \/ q \in AllPlaces
    <2> HIDE DEF ss
    <2>1. \A q \in Places(m, ss) : q = m \/ q = x.maps \/ \E i \in 1 .. Len(snaps) : q = snaps[i].maps
        BY <1>3 DEF Places
    <2> QED
        BY <2>1, PlacesOf
<1> HIDE DEF Q
<1>5. \A q \in Q, s \in SandboxId : s # n => \E p \in AllPlaces : p[s].scope = q[s].scope
    BY <1>4
<1>6. \A q \in Q : q[n].scope \in {"NONE", "SHARED"}
    BY <1>4
<1>7. KindsAgree(Q)
    BY <1>1, <1>5, <1>6, KindsWithNew
<1> QED
    BY <1>7 DEF Q

LEMMA RestoreSharedSnapshotOK ==
    ASSUME IInv, NEW i \in 1 .. Len(snaps), RestoreSharedSnapshot(i)
    PROVE  IInv'
<1> DEFINE n == lastId + 1
           c == snaps[i].commit
           m == [snaps[i].maps EXCEPT ![n] = Shared("RELEASED", c)]
           x == [commit |-> c, kind |-> "rollback", maps |-> m]
<1>1. /\ n \in SandboxId /\ lastId' = n
      /\ branch' = [branch EXCEPT ![n] = c]
      /\ tree' = [tree EXCEPT ![n] = "manifest"]
      /\ Save(m, Append(snaps, x), Rewritten, {})
      /\ remote' = remote /\ main' = main /\ writing' = writing /\ agent' = agent
    BY DEF RestoreSharedSnapshot, Snapshot
<1>2. Types /\ snaps \in Seq(Snaps)
    BY DEF IInv, Types
<1>3. /\ lastId \in Nat /\ n > lastId /\ n \in 0 .. MaxSandboxes
      /\ \A p \in AllPlaces : p[n].scope = "NONE"
      /\ branch[n] = NoCommit /\ remote[n] = NoCommit /\ n \notin agent
    BY <1>1, NextIsNew
<1>4. (\A s \in SandboxId : s > n => s > lastId) /\ ~(n > n)
    BY <1>3, Numbers
<1>5. c \in Commits /\ c \in Heads /\ snaps[i].maps \in Metadata
    BY <1>2, SnapsTypes DEF Heads
<1>6. StoreStep(m, Append(snaps, x), Rewritten, {})
    BY <1>1, SaveIsStoreStep
<1> HIDE DEF n, c
<1>7. Shared("RELEASED", c) \in Entries
    BY <1>5, NewEntries
<1>8. /\ m \in Metadata /\ m[n] = Shared("RELEASED", c)
      /\ \A s \in SandboxId : s # n => m[s] = snaps[i].maps[s]
    BY <1>1, <1>5, <1>7 DEF Metadata
<1>9. m[n].scope = "SHARED" /\ m[n].status = "RELEASED" /\ m[n].head = c
    BY <1>8 DEF Shared
<1> HIDE DEF m
<1>10. x \in Snaps /\ x.maps = m /\ x.commit = c /\ x.kind = "rollback"
    BY <1>5, <1>8 DEF Snaps
<1> HIDE DEF x
<1>11. Append(snaps, x) \in Seq(Snaps) /\ Rewritten \in SUBSET SandboxId
    BY <1>2, <1>10, AppendFacts DEF Rewritten
<1>12. Types'
    <2>1. /\ maps' \in Metadata /\ snaps' \in Seq(Snaps) /\ behind' \in SUBSET SandboxId
          /\ disk' \in [maps : Metadata, snaps : Seq(Snaps), behind : SUBSET SandboxId]
        BY <1>2, <1>6, <1>8, <1>11, StoreTypes
    <2> QED
        BY <1>1, <1>2, <1>3, <1>5, <2>1 DEF Types, TreeStatus
<1>13. \A s \in SandboxId : NotRebased(s)
    BY <1>1, <1>2, <1>3 DEF NotRebased, Types
<1>14. GitStep
    BY <1>1, <1>2, <1>3, <1>13, TypesOf DEF GitStep, NotRebased
<1>15. branch'[n] = c
    BY <1>1, <1>2 DEF Types
<1>16. \A old \in BOOLEAN : NextEntry(m[n], n, old)
    BY <1>1, <1>3, <1>4, <1>5, <1>9, <1>15 DEF NextEntry, EntryOK
<1>17. \A s \in SandboxId : NextEntry(m[s], s, writing'[s] > 0)
    <2> SUFFICES ASSUME NEW s \in SandboxId PROVE NextEntry(m[s], s, writing'[s] > 0)
        OBVIOUS
    <2>1. CASE s = n
        <3>1. (writing'[s] > 0) \in BOOLEAN
            OBVIOUS
        <3> QED
            BY <2>1, <3>1, <1>16
    <2>2. CASE s # n
        <3>1. NextEntry(snaps[i].maps[s], s, writing'[s] > 0)
            BY <1>12, <1>13, <1>14, MemoryKept DEF NextCopyOK
        <3> QED
            BY <2>2, <3>1, <1>8
    <2> QED
        BY <2>1, <2>2
<1>18. /\ \A s \in SandboxId : (s \in Rewritten) = (writing'[s] > 0)
       /\ \A s \in Rewritten : writing'[s] > 0
    BY <1>1 DEF Rewritten
<1>19. \A s \in SandboxId : NextEntry(m[s], s, s \in Rewritten)
    BY <1>17, <1>18
<1>20. \A s \in SandboxId : GitOK(s)'
    <2> SUFFICES ASSUME NEW s \in SandboxId PROVE GitOK(s)'
        OBVIOUS
    <2>1. CASE s = n
        BY <2>1, <1>1, <1>3, <1>4 DEF GitOK
    <2>2. CASE s # n
        BY <2>2, <1>1, <1>2, <1>4 DEF IInv, GitOK, Types
    <2> QED
        BY <2>1, <2>2
<1>21. KindsAgree(Places(m, Append(snaps, x)) \cup Places(disk.maps, disk.snaps))
    <2>1. snaps[i].maps \in AllPlaces
        BY PlacesOf
    <2> QED
        BY <2>1, <1>3, <1>8, <1>9, <1>10, KindsAfterSnapshot
<1>22. SnapshotOK(x)
    BY <1>1, <1>9, <1>10 DEF SnapshotOK
<1>23. x.kind # "shared"
    BY <1>10
<1> QED
    BY <1>6, <1>10, <1>12, <1>13, <1>14, <1>17, <1>18, <1>19, <1>20, <1>21, <1>22, <1>23, WithSnapshot
       DEF x

LEMMA RestoreFailsOK ==
    ASSUME IInv, NEW i \in 1 .. Len(snaps), RestoreFails(i)
    PROVE  IInv'
<1> DEFINE m == snaps[i].maps
<1>1. /\ maps' = m /\ snaps' = snaps /\ behind' = Rewritten
      /\ UNCHANGED <<disk, tree, branch, remote, main, writing, agent, lastId>>
    BY DEF RestoreFails, InMemory, git
<1>2. Types
    BY DEF IInv
<1>3. m \in Metadata /\ m \in AllPlaces
    BY <1>2, TypesOf, SnapsTypes, PlacesOf
<1>4. Types'
    BY <1>1, <1>2, <1>3 DEF Types, Rewritten
<1>5. \A s \in SandboxId : NotRebased(s)
    BY <1>1 DEF NotRebased
<1>6. GitStep
    BY <1>1, <1>2, TypesOf DEF GitStep
<1>7. \A s \in SandboxId : GitOK(s)'
    BY <1>1 DEF IInv, GitOK
<1>8. NextCopyOK(maps, snaps, behind)
    BY <1>4, <1>5, <1>6, MemoryKept
<1>9. \A s \in SandboxId : NextEntry(m[s], s, writing'[s] > 0)
    BY <1>8 DEF NextCopyOK
<1>10. /\ \A s \in SandboxId : (s \in Rewritten) = (writing'[s] > 0)
       /\ \A s \in Rewritten : writing'[s] > 0
    BY <1>1 DEF Rewritten
<1> HIDE DEF m
<1>11. NextCopyOK(m, snaps, Rewritten)
    BY <1>8, <1>9, <1>10 DEF NextCopyOK
<1>12. StoreStep(m, snaps, Rewritten, {})
    BY <1>1, <1>2, UnsavedIsStoreStep
<1>13. KindsAgree(Places(m, snaps) \cup Places(disk.maps, disk.snaps))
    BY <1>3, KindsSame
<1> QED
    BY <1>4, <1>5, <1>6, <1>7, <1>11, <1>12, <1>13, StepOK

LEMMA MergeSharedOK ==
    ASSUME IInv, NEW S, S \subseteq SandboxId, MergeShared(S)
    PROVE  IInv'
<1> DEFINE n == lastId + 1
           c == Merged(n, S)
           done == [maps EXCEPT ![n] = Shared("RELEASED", c)]
           x == [commit |-> c, kind |-> "shared", maps |-> done]
           cl == IF CleanupEnabled THEN S ELSE {}
           m == CleanedMaps(done, cl)
           bs == CleanedBranches(done, Append(snaps, x), cl)
           ts == CleanedTrees(done, cl)
<1>1. /\ n \in SandboxId /\ Mergeable(S) /\ lastId' = n
      /\ Save(m, Append(snaps, x), behind, {})
      /\ tree' = [ts EXCEPT ![n] = "manifest"]
      /\ branch' = [bs EXCEPT ![n] = c]
      /\ remote' = Pushed(n, c)
      /\ main' = main /\ writing' = writing /\ agent' = agent
    BY DEF MergeShared, Snapshot
<1>2. Types /\ snaps \in Seq(Snaps)
    BY DEF IInv, Types
<1>3. /\ lastId \in Nat /\ n > lastId /\ n \in 0 .. MaxSandboxes
      /\ \A p \in AllPlaces : p[n].scope = "NONE"
      /\ branch[n] = NoCommit /\ remote[n] = NoCommit /\ n \notin agent
    BY <1>1, NextIsNew
<1>4. (\A s \in SandboxId : s > n => s > lastId) /\ ~(n > n)
    BY <1>3, Numbers
<1>5. c \in Commits /\ LatestWorkspaceHead \subseteq c
    BY <1>1, MergedCommit
<1>6. StoreStep(m, Append(snaps, x), behind, {})
    BY <1>1, SaveIsStoreStep
<1> HIDE DEF n, c
<1>7. c \in Heads /\ Shared("RELEASED", c) \in Entries
    BY <1>5, NewEntries DEF Heads
<1>8. /\ done \in Metadata /\ done[n] = Shared("RELEASED", c)
      /\ \A s \in SandboxId : s # n => done[s] = maps[s]
    BY <1>1, <1>2, <1>7 DEF Metadata, Types
<1>9. done[n].scope = "SHARED" /\ done[n].status = "RELEASED" /\ done[n].head = c
    BY <1>8 DEF Shared
<1> HIDE DEF done
<1>10. x \in Snaps /\ x.maps = done /\ x.commit = c /\ x.kind = "shared"
    BY <1>5, <1>8 DEF Snaps
<1> HIDE DEF x, cl
<1>11. /\ m \in Metadata /\ bs \in [SandboxId -> Heads] /\ ts \in [SandboxId -> TreeStatus]
    BY <1>2, <1>8, CleanedTypes
<1>12. Append(snaps, x) \in Seq(Snaps)
    BY <1>2, <1>10, AppendFacts
<1>13. Types'
    <2> HIDE DEF m, bs, ts
    <2>1. /\ maps' \in Metadata /\ snaps' \in Seq(Snaps) /\ behind' \in SUBSET SandboxId
          /\ disk' \in [maps : Metadata, snaps : Seq(Snaps), behind : SUBSET SandboxId]
        BY <1>2, <1>6, <1>11, <1>12, TypesOf, StoreTypes
    <2>2. remote' \in [SandboxId -> Heads]
        BY <1>1, <1>2, <1>7 DEF Pushed, Types
    <2>3. branch' \in [SandboxId -> Heads] /\ tree' \in [SandboxId -> TreeStatus]
        BY <1>1, <1>7, <1>11 DEF TreeStatus
    <2> QED
        BY <1>1, <1>2, <1>3, <2>1, <2>2, <2>3 DEF Types
<1>14. \A s \in SandboxId : s # n =>
          /\ branch'[s] = bs[s] /\ tree'[s] = ts[s] /\ remote'[s] = remote[s]
          /\ Cleanable(done, s) => s \notin agent /\ maps[s].scope = "PRIVATE" /\ ~(s > lastId)
    <2>1. \A s \in SandboxId : s # n => branch'[s] = bs[s] /\ tree'[s] = ts[s] /\ remote'[s] = remote[s]
        BY <1>1, <1>2, <1>11 DEF Pushed, Types
    <2>2. ASSUME NEW s \in SandboxId, s # n, Cleanable(done, s)
          PROVE  s \notin agent /\ maps[s].scope = "PRIVATE" /\ ~(s > lastId)
        BY <2>2, <1>8, CleanableIsQuiet
    <2> QED
        BY <2>1, <2>2
<1>15. branch'[n] = c /\ tree'[n] = "manifest"
    BY <1>1, <1>11
<1>16. \A s \in SandboxId : bs[s] # branch[s] =>
          Cleanable(done, s) /\ branch[s] \subseteq main /\ bs[s] = NoCommit
    BY CleanedBranch
<1>17. \A s \in SandboxId : ts[s] # tree[s] => Cleanable(done, s)
    BY CleanedTree
<1>18. \A s \in SandboxId : NotRebased(s)
    BY <1>3, <1>14, <1>16 DEF NotRebased
<1>19. GitStep
    BY <1>1, <1>2, <1>3, <1>18, TypesOf DEF GitStep, NotRebased
<1>20. \A s \in SandboxId : GitOK(s)'
    <2> SUFFICES ASSUME NEW s \in SandboxId PROVE GitOK(s)'
        OBVIOUS
    <2>1. CASE s = n
        BY <2>1, <1>1, <1>3, <1>4 DEF GitOK
    <2>2. CASE s # n
        <3>1. GitOK(s)
            BY DEF IInv
        <3>2. remote'[s] = remote[s]
            BY <2>2, <1>14
        <3>3. s > n => s > lastId
            BY <1>4
        <3>4. \/ branch'[s] = branch[s] /\ tree'[s] = tree[s]
              \/ s \notin agent /\ ~(s > lastId)
            BY <2>2, <1>14, <1>16, <1>17
        <3> QED
            BY <1>1, <3>1, <3>2, <3>3, <3>4 DEF GitOK
    <2> QED
        BY <2>1, <2>2
<1>21. \A old \in BOOLEAN : NextEntry(done[n], n, old)
    BY <1>1, <1>3, <1>4, <1>5, <1>9, <1>15 DEF NextEntry, EntryOK
<1>22. NextCopyOK(maps, snaps, behind)
    BY <1>13, <1>18, <1>19, MemoryKept
<1>23. \A s \in SandboxId :
          /\ NextEntry(done[s], s, s \in behind)
          /\ NextEntry(done[s], s, writing'[s] > 0)
    <2> SUFFICES ASSUME NEW s \in SandboxId
                 PROVE  /\ NextEntry(done[s], s, s \in behind)
                        /\ NextEntry(done[s], s, writing'[s] > 0)
        OBVIOUS
    <2>1. s \in behind => writing'[s] > 0
        BY <1>22 DEF NextCopyOK
    <2>2. NextEntry(done[s], s, s \in behind)
        <3>1. CASE s = n
            <4>1. (s \in behind) \in BOOLEAN
                OBVIOUS
            <4> QED
                BY <3>1, <4>1, <1>21
        <3>2. CASE s # n
            BY <3>2, <1>8, <1>22 DEF NextCopyOK
        <3> QED
            BY <3>1, <3>2
    <2> QED
        BY <2>1, <2>2, OldWeaker
<1>24. \A s \in SandboxId :
          NextEntry(m[s], s, s \in behind) /\ m[s].scope = done[s].scope
    BY <1>8, <1>23, GoneOK DEF NextEntry
<1> HIDE DEF m, bs, ts
<1>25. KindsAgree(Places(m, Append(snaps, x)) \cup Places(disk.maps, disk.snaps))
    <2>1. m[n].scope = "SHARED" /\ x.maps[n].scope = "SHARED"
        BY <1>1, <1>9, <1>10, <1>24
    <2>2. \A s \in SandboxId : s # n => m[s].scope = maps[s].scope /\ x.maps[s].scope = maps[s].scope
        BY <1>8, <1>10, <1>24
    <2> QED
        BY <2>1, <2>2, <1>3, <1>10, PlacesOf, KindsAfterSnapshot
<1>26. SnapshotOK(x)
    BY <1>1, <1>9, <1>10 DEF SnapshotOK
<1>27. snaps # <<>> => snaps[Len(snaps)].commit \subseteq x.commit
    BY <1>5, <1>10 DEF LatestWorkspaceHead, Last
<1>28. \A s \in SandboxId :
          /\ NotRebased(s) /\ GitOK(s)'
          /\ NextEntry(m[s], s, s \in behind)
          /\ NextEntry(x.maps[s], s, writing'[s] > 0)
    BY <1>10, <1>18, <1>20, <1>23, <1>24
<1>29. \A s \in behind : writing'[s] > 0
    BY <1>22 DEF NextCopyOK
<1> QED
    BY <1>6, <1>10, <1>13, <1>19, <1>25, <1>26, <1>27, <1>28, <1>29, WithSnapshot

LEMMA StutterOK ==
    ASSUME IInv, UNCHANGED vars
    PROVE  IInv'
<1>1. UNCHANGED <<maps, snaps, behind, disk, tree, branch, remote, main, writing, agent, lastId>>
    BY DEF vars, store, git
<1>2. Types
    BY DEF IInv
<1>3. Types'
    BY <1>1, <1>2 DEF Types
<1>4. \A s \in SandboxId : NotRebased(s) /\ GitOK(s)'
    BY <1>1 DEF NotRebased, IInv, GitOK
<1>5. GitStep
    BY <1>1, <1>2, TypesOf DEF GitStep
<1> QED
    BY <1>1, <1>3, <1>4, <1>5, NothingSaved

LEMMA NextOK ==
    ASSUME IInv, [Next]_vars
    PROVE  IInv'
<1>1. CASE CreatePrivate
    BY <1>1, CreatePrivateOK
<1>2. ASSUME NEW s \in SandboxId,
             FinalizePrivateRun(s) \/ CompleteRun(s) \/ FailRun(s) \/ RebaseWorkspaces(s) \/ Edit(s)
      PROVE  IInv'
    BY <1>2, FinalizePrivateRunOK, CompleteRunOK, FailRunOK, RebaseWorkspacesOK, EditOK
<1>3. ASSUME NEW S \in (SUBSET Present) \ {{}},
             \/ MergeShared(S) \/ MergeSharedFails(S) \/ IntegrationFails(S)
             \/ CleanupWorkspaces(S)
      PROVE  IInv'
    <2>1. S \subseteq SandboxId
        BY DEF Present
    <2> QED
        BY <1>3, <2>1, MergeSharedOK, MergeSharedFailsOK, IntegrationFailsOK, CleanupWorkspacesOK
<1>4. ASSUME NEW i \in 1 .. Len(snaps), RestoreSharedSnapshot(i) \/ RestoreFails(i)
      PROVE  IInv'
    BY <1>4, RestoreSharedSnapshotOK, RestoreFailsOK
<1>5. CASE Upstream
    BY <1>5, UpstreamOK
<1>6. CASE Restart
    BY <1>6, RestartOK
<1>7. CASE UNCHANGED vars
    BY <1>7, StutterOK
<1> QED
    BY <1>1, <1>2, <1>3, <1>4, <1>5, <1>6, <1>7 DEF Next

-----------------------------------------------------------------------------
(***************************************************************************)
(* The theorems.                                                           *)
(***************************************************************************)
\* The maps, the store and the snapshots stay true of git in every step.
THEOREM Invariance == Spec => []IInv
<1>1. Init => IInv
    BY InitOK
<1>2. IInv /\ [Next]_vars => IInv'
    BY NextOK
<1> QED
    BY <1>1, <1>2, PTL DEF Spec

LEMMA BranchReaches ==
    ASSUME NEW s \in SandboxId, NEW c \in Commits, c = branch[s]
    PROVE  Reachable(c)
<1>1. branch[s] \in Refs /\ branch[s] # NoCommit /\ c \subseteq branch[s]
    BY Unions DEF Refs
<1> QED
    BY <1>1 DEF Reachable, IsAncestor

LEMMA MainReaches ==
    ASSUME Types, NEW c, c \subseteq main
    PROVE  Reachable(c)
<1>1. main \in Refs /\ main # NoCommit
    BY Unions DEF Refs, Types
<1> QED
    BY <1>1 DEF Reachable, IsAncestor

LEMMA CopyReaches ==
    ASSUME IInv, NEW m \in Metadata, NEW ss \in Seq(Snaps), NEW b, CopyOK(m, ss, b)
    PROVE  /\ \A s \in SandboxId : m[s].status = "RELEASED" => Reachable(m[s].head) \/ s \in b
           /\ \A i \in 1 .. Len(ss) : Reachable(ss[i].commit)
<1>1. Types
    BY DEF IInv
<1>2. ASSUME NEW s \in SandboxId, m[s].status = "RELEASED"
      PROVE  Reachable(m[s].head) \/ s \in b
    <2>1. Entry(m[s], s, s \in b) /\ m[s] \in Entries
        BY DEF CopyOK, Metadata
    <2>2. m[s].head \in Commits
        BY <1>2, <2>1 DEF Entry, EntryOK
    <2>3. m[s].scope # "NONE"
        BY <1>2, <2>1 DEF Entry, EntryOK, Absent
    <2>4. \/ m[s].head = branch[s]
          \/ m[s].head \subseteq main
          \/ s \in b
        BY <1>2, <2>1, <2>3 DEF Entry, EntryOK, Entries
    <2>5. CASE m[s].head = branch[s]
        BY <2>2, <2>5, BranchReaches
    <2>6. CASE m[s].head \subseteq main
        BY <1>1, <2>6, MainReaches
    <2> QED
        BY <2>4, <2>5, <2>6
<1>3. ASSUME NEW i \in 1 .. Len(ss)
      PROVE  Reachable(ss[i].commit)
    <2>1. SnapshotOK(ss[i]) /\ ss[i].commit \in Commits
        BY SnapsTypes DEF CopyOK
    <2>2. PICK s \in SandboxId :
             /\ ss[i].maps[s].scope = "SHARED" /\ ss[i].maps[s].status = "RELEASED"
             /\ ss[i].maps[s].head = ss[i].commit
        BY <2>1 DEF SnapshotOK
    <2>3. ss[i].commit = branch[s]
        BY <2>2 DEF CopyOK, Entry, EntryOK
    <2> QED
        BY <2>1, <2>3, BranchReaches
<1> QED
    BY <1>2, <1>3

LEMMA InvReaches == IInv => WorkIsReachable
<1> SUFFICES ASSUME IInv PROVE WorkIsReachable
    OBVIOUS
<1>1. /\ maps \in Metadata /\ disk.maps \in Metadata
      /\ snaps \in Seq(Snaps) /\ disk.snaps \in Seq(Snaps)
      /\ CopyOK(maps, snaps, behind) /\ CopyOK(disk.maps, disk.snaps, disk.behind)
    BY TypesOf DEF IInv
<1>2. /\ \A s \in SandboxId : maps[s].status = "RELEASED" => Reachable(maps[s].head) \/ s \in behind
      /\ \A i \in 1 .. Len(snaps) : Reachable(snaps[i].commit)
    BY <1>1, CopyReaches
<1>3. /\ \A s \in SandboxId :
            disk.maps[s].status = "RELEASED" => Reachable(disk.maps[s].head) \/ s \in disk.behind
      /\ \A i \in 1 .. Len(disk.snaps) : Reachable(disk.snaps[i].commit)
    BY <1>1, CopyReaches
<1> QED
    BY <1>2, <1>3 DEF WorkIsReachable

\* Whatever is created, finished, merged, rebased, rolled back, cleaned up,
\* edited upstream or restarted, in any order, and whatever saves and rollbacks
\* fail: the commits of finished runs and of snapshots stay in the history of a
\* branch.  Only the entry of a sandbox that was rebased before can name a head
\* that is gone, if a rollback or a lost save has brought it back.
THEOREM WorkSurvives == Spec => []WorkIsReachable
BY Invariance, InvReaches, PTL

\* The maps name the head of the branch of a finished run, or the branch has
\* been deleted: a conflict, a push that is refused, a cleanup or a merge that
\* fails does not set them apart; only a rollback over a rebase, or a restart
\* after the save of a rebase was lost, does.
THEOREM MetadataFollows == Spec => []MetadataIsCurrent
<1>1. IInv => MetadataIsCurrent
    <2> SUFFICES ASSUME IInv, NEW s \in SandboxId,
                        maps[s].scope = "PRIVATE", maps[s].status = "RELEASED"
                 PROVE  branch[s] \in {NoCommit, maps[s].head} \/ s \in behind
        BY DEF MetadataIsCurrent
    <2>1. \/ maps[s].head = branch[s]
          \/ branch[s] = NoCommit
          \/ s \in behind
        BY DEF IInv, CopyOK, Entry, EntryOK
    <2> QED
        BY <2>1
<1> QED
    BY <1>1, Invariance, PTL

\* Snapshots of merges contain the snapshots before them, up to a rollback.
THEOREM MergesBuildUp == Spec => []SnapshotsBuildUp
<1>1. IInv => SnapshotsBuildUp
    BY DEF IInv, CopyOK, SnapshotsBuildUp
<1> QED
    BY <1>1, Invariance, PTL

\* What a step may do to a worktree that a person has edited and to a branch
\* that is published.
TakesNothing ==
    \A s \in SandboxId :
        /\ tree[s] = "edited" => tree'[s] # "none"
        /\ remote[s] # NoCommit => remote[s] \subseteq remote'[s]

LEMMA CleanedEdits ==
    ASSUME NEW m, NEW S, NEW s \in SandboxId, tree[s] = "edited"
    PROVE  CleanedTrees(m, S)[s] # "none"
BY CleanedTree DEF Cleanable

LEMMA StepTakesNothing ==
    ASSUME IInv, [Next]_vars
    PROVE  TakesNothing
<1>1. Types
    BY DEF IInv
<1>2. ASSUME UNCHANGED <<tree, remote>> PROVE TakesNothing
    BY <1>2 DEF TakesNothing
<1>3. CASE CreatePrivate
    BY <1>1, <1>3 DEF CreatePrivate, TakesNothing, Types
<1>4. ASSUME NEW s \in SandboxId, FinalizePrivateRun(s) \/ Edit(s) \/ RebaseConflicts(s) \/ RebaseUpToDate(s)
      PROVE  TakesNothing
    <2>1. remote' = remote
        BY <1>4 DEF FinalizePrivateRun, Edit, RebaseConflicts, RebaseUpToDate
    <2>2. \E t \in {"manifest", "edited", "clean"} : tree' = [tree EXCEPT ![s] = t]
        BY <1>4 DEF FinalizePrivateRun, Edit, RebaseConflicts, RebaseUpToDate
    <2> QED
        BY <1>1, <2>1, <2>2 DEF TakesNothing, Types
<1>5. ASSUME NEW s \in SandboxId, CompleteRun(s)
      PROVE  TakesNothing
    <2>1. tree' = tree /\ remote' = Pushed(s, branch[s]) /\ remote[s] = NoCommit
        BY <1>5 DEF CompleteRun, IInv, GitOK
    <2> QED
        BY <1>1, <2>1 DEF TakesNothing, Pushed, Types
<1>6. ASSUME NEW s \in SandboxId, FailRun(s)
      PROVE  TakesNothing
    BY <1>2, <1>6 DEF FailRun
<1>7. ASSUME NEW s \in SandboxId, NEW publish \in BOOLEAN, Rebase(s, publish)
      PROVE  TakesNothing
    <2> DEFINE c == Rebased(s)
    <2>1. /\ tree' = [tree EXCEPT ![s] = "manifest"]
          /\ remote' = IF publish /\ Accepted(s, c) THEN Pushed(s, c) ELSE remote
        BY <1>7 DEF Rebase
    <2> HIDE DEF c
    <2>2. \A x \in SandboxId : tree[x] = "edited" => tree'[x] # "none"
        BY <1>1, <2>1 DEF Types
    <2>3. CASE remote' = remote
        BY <2>2, <2>3 DEF TakesNothing
    <2>4. CASE Accepted(s, c) /\ remote' = [remote EXCEPT ![s] = c]
        BY <1>1, <2>2, <2>4 DEF TakesNothing, Accepted, IsAncestor, Types
    <2> QED
        BY <2>1, <2>3, <2>4 DEF Pushed
<1>8. ASSUME NEW S, MergeShared(S)
      PROVE  TakesNothing
    <2> DEFINE n == lastId + 1
               done == [maps EXCEPT ![n] = Shared("RELEASED", Merged(n, S))]
               cl == IF CleanupEnabled THEN S ELSE {}
               ts == CleanedTrees(done, cl)
    <2>1. /\ n \in SandboxId
          /\ tree' = [ts EXCEPT ![n] = "manifest"] /\ remote' = Pushed(n, Merged(n, S))
        BY <1>8 DEF MergeShared
    <2>2. remote[n] = NoCommit
        BY <2>1, NextIsNew
    <2>3. DOMAIN ts = SandboxId
        BY DEF CleanedTrees
    <2>4. \A s \in SandboxId : tree[s] = "edited" => ts[s] # "none"
        BY CleanedEdits
    <2> HIDE DEF n, ts
    <2>5. \A s \in SandboxId : tree[s] = "edited" => tree'[s] # "none"
        BY <2>1, <2>3, <2>4
    <2> QED
        BY <1>1, <2>1, <2>2, <2>5 DEF TakesNothing, Pushed, Types
<1>9. ASSUME NEW S, MergeSharedFails(S) \/ IntegrationFails(S)
      PROVE  TakesNothing
    <2> DEFINE n == lastId + 1
               c == Merged(n, S)
    <2>1. /\ n \in SandboxId
          /\ remote' = remote \/ remote' = Pushed(n, c)
          /\ \E t \in {"clean", "manifest"} : tree' = [tree EXCEPT ![n] = t]
        BY <1>9 DEF MergeSharedFails, IntegrationFails
    <2>2. remote[n] = NoCommit
        BY <2>1, NextIsNew
    <2> HIDE DEF n, c
    <2> QED
        BY <1>1, <2>1, <2>2 DEF TakesNothing, Pushed, Types
<1>10. ASSUME NEW S, CleanupWorkspaces(S)
       PROVE  TakesNothing
    BY <1>10, CleanedEdits DEF CleanupWorkspaces, TakesNothing
<1>11. ASSUME NEW i \in 1 .. Len(snaps), RestoreSharedSnapshot(i) \/ RestoreFails(i)
       PROVE  TakesNothing
    BY <1>1, <1>11 DEF RestoreSharedSnapshot, RestoreFails, git, TakesNothing, Types
<1>12. CASE Upstream
    BY <1>2, <1>12 DEF Upstream
<1>13. CASE Restart
    BY <1>2, <1>13 DEF Restart, git
<1>14. CASE UNCHANGED vars
    BY <1>2, <1>14 DEF vars, git
<1> QED
    BY <1>3, <1>4, <1>5, <1>6, <1>7, <1>8, <1>9, <1>10, <1>11, <1>12, <1>13, <1>14
       DEF Next, RebaseWorkspaces

\* No step takes a worktree or a branch from a goroutine at work, the edits of
\* a person, or a commit that was published.
THEOREM NothingIsTakenAway == Spec => NothingTakenAway
<1> DEFINE A == \A s \in SandboxId :
                   /\ s \in agent' => tree'[s] # "none" /\ branch'[s] # NoCommit
                   /\ tree[s] = "edited" => tree'[s] # "none"
                   /\ remote[s] # NoCommit => IsAncestor(remote[s], remote'[s])
<1>1. IInv /\ [Next]_vars => A
    <2> SUFFICES ASSUME IInv, [Next]_vars PROVE A
        OBVIOUS
    <2>1. IInv' /\ TakesNothing
        BY NextOK, StepTakesNothing
    <2>2. \A s \in SandboxId : s \in agent' => tree'[s] # "none" /\ branch'[s] # NoCommit
        BY <2>1 DEF IInv, GitOK
    <2> QED
        BY <2>1, <2>2 DEF TakesNothing, IsAncestor
<1>2. IInv /\ [Next]_vars => [A]_vars
    BY <1>1
<1> QED
    BY <1>2, Invariance, PTL DEF Spec, NothingTakenAway
=============================================================================
