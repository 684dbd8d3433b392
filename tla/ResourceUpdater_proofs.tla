------------------------ MODULE ResourceUpdater_proofs ------------------------
(***************************************************************************)
(* Proofs about a release, its updates and the jails made from it, for any *)
(* set of jails, any number of patch levels and snapshots, and both        *)
(* distributions.                                                          *)
(***************************************************************************)
EXTENDS ResourceUpdater, WellFoundedInduction, SequenceTheorems, TLAPS

----------------------------------------------------------------------------
(***************************************************************************)
(* The operation that runs.                                                *)
(***************************************************************************)
LEMMA GotoKeeps ==
  ASSUME op \in Operations, NEW step \in Steps, Goto(step)
  PROVE  /\ op' \in Operations /\ op'.pc = step
         /\ op'.on = op.on /\ op'.failed = op.failed
  BY DEF Goto, Operations

LEMMA OverIs ==
  ASSUME Over
  PROVE  op' \in Operations /\ op'.pc = "idle" /\ op'.on = "release"
  BY DEF Over, NoOperation, Operations, Steps

LEMMA StraysIs ==
  ASSUME Strays
  PROVE  op' \in Operations /\ op'.pc = "strayed" /\ op'.on = "release"
  BY DEF Strays, NoOperation, Operations, Steps

LEMMA FetchingIs ==
  ASSUME NEW update \in BOOLEAN, Fetching(update)
  PROVE  /\ op' \in Operations /\ op'.on = "release"
         /\ op'.pc = IF update THEN "save" ELSE "base"
  BY DEF Fetching, NoOperation, Operations, Steps

----------------------------------------------------------------------------
(***************************************************************************)
(* Snapshots.                                                              *)
(***************************************************************************)
NamesIn(t) == {t[i].name : i \in DOMAIN t}

LEMMA NothingTaken ==
  DOMAIN <<>> = {}
  OBVIOUS

\* What is left of a sequence without its first n elements.
LEMMA LaterSnaps ==
  ASSUME NEW S, NEW s \in Seq(S), NEW n \in 1 .. Len(s)
  PROVE  LET t == SubSeq(s, n + 1, Len(s))
         IN /\ t \in Seq(S) /\ DOMAIN t = 1 .. Len(s) - n
            /\ \A i \in 1 .. Len(s) - n : t[i] = s[n + i]
<1>1. n \in Nat /\ Len(s) \in Nat /\ n + 1 \in 1 .. Len(s) + 1
  OBVIOUS
<1> QED
  BY <1>1, SubSeqProperties

\* The root of a jail gets another origin.
WithOrigin(r, from, snap) == [r EXCEPT !.from = from, !.snap = snap]

LEMMA OriginIs ==
  ASSUME NEW r \in JailRoots, NEW from \in {"release", NoJail} \union Jails,
         NEW snap \in Names
  PROVE  LET t == WithOrigin(r, from, snap)
         IN t \in JailRoots /\ t.state = r.state /\ t.from = from /\ t.snap = snap
  BY DEF JailRoots, WithOrigin

\* A snapshot is added at the end, unless there is one of the name.
LEMMA SnapshottedIs ==
  ASSUME snaps \in Seq(Snapshots), root \in Trees, NEW name \in Names
  PROVE  /\ Snapshotted(name) \in Seq(Snapshots)
         /\ NamesIn(Snapshotted(name)) = SnapNames \union {name}
         /\ \A i \in DOMAIN Snapshotted(name) :
              \/ i \in DOMAIN snaps /\ Snapshotted(name)[i] = snaps[i]
              \/ name \notin SnapNames
                 /\ Snapshotted(name)[i] = [name |-> name, tree |-> root]
<1>1. CASE name \in SnapNames
  BY <1>1 DEF Snapshotted, SnapNames, NamesIn
<1>2. CASE name \notin SnapNames
  <2> DEFINE new == [name |-> name, tree |-> root]
             t == Append(snaps, new)
  <2>1. Snapshotted(name) = t /\ new \in Snapshots /\ new.name = name
    BY <1>2 DEF Snapshotted, Snapshots
  <2>2. /\ t \in Seq(Snapshots) /\ DOMAIN t = DOMAIN snaps \union {Len(snaps) + 1}
        /\ \A i \in DOMAIN snaps : t[i] = snaps[i]
        /\ t[Len(snaps) + 1] = new
    BY <2>1
  <2> HIDE DEF t, new
  <2>3. NamesIn(t) = SnapNames \union {name}
    BY <2>1, <2>2 DEF NamesIn, SnapNames
  <2> QED
    BY <1>2, <2>1, <2>2, <2>3 DEF new
<1> QED
  BY <1>1, <1>2

\* What is left when snapshots go are snapshots, among them those with clones.
LEMMA SnapsLeftAre ==
  ASSUME snaps \in Seq(Snapshots), NEW t \in SnapsLeft
  PROVE  /\ t \in Seq(Snapshots)
         /\ \A s \in SnapNames : Clones(s) # {} => s \in NamesIn(t)
<1> DEFINE Kept(at) == /\ \A i \in DOMAIN snaps \ Range(at) : Clones(snaps[i].name) = {}
                       /\ t = [i \in DOMAIN at |-> snaps[at[i]]]
<1>0. PICK n \in 0 .. Len(snaps) : \E at \in [1 .. n -> DOMAIN snaps] : Kept(at)
  BY DEF SnapsLeft
<1>1. PICK at \in [1 .. n -> DOMAIN snaps] : Kept(at)
  BY <1>0
<1>2. t \in [1 .. n -> Snapshots] /\ n \in Nat
  BY <1>1
<1>3. t \in Seq(Snapshots)
  BY <1>2
<1>4. ASSUME NEW s \in SnapNames, Clones(s) # {}
      PROVE  s \in NamesIn(t)
  <2>1. PICK i \in DOMAIN snaps : snaps[i].name = s
    BY <1>4 DEF SnapNames
  <2>2. i \in Range(at)
    BY <1>1, <1>4, <2>1
  <2>3. PICK k \in 1 .. n : at[k] = i
    BY <1>1, <2>2 DEF Range
  <2>4. k \in DOMAIN t /\ t[k].name = s
    BY <1>1, <2>1, <2>3
  <2> QED
    BY <2>4 DEF NamesIn
<1> QED
  BY <1>3, <1>4

\* The snapshots of one name get another one.
LEMMA SnapRenamedIs ==
  ASSUME snaps \in Seq(Snapshots), NEW old, NEW new \in Names
  PROVE  /\ SnapRenamed(old, new) \in Seq(Snapshots)
         /\ NamesIn(SnapRenamed(old, new))
              = IF old \in SnapNames THEN (SnapNames \ {old}) \union {new} ELSE SnapNames
         /\ \A i \in DOMAIN SnapRenamed(old, new) :
              /\ i \in DOMAIN snaps
              /\ \/ SnapRenamed(old, new)[i] = snaps[i] /\ snaps[i].name # old
                 \/ SnapRenamed(old, new)[i].name = new
<1> DEFINE t == SnapRenamed(old, new)
<1>1. /\ DOMAIN t = DOMAIN snaps
      /\ \A i \in DOMAIN snaps :
           IF snaps[i].name = old
           THEN t[i] = [snaps[i] EXCEPT !.name = new] ELSE t[i] = snaps[i]
  BY DEF SnapRenamed
<1>2. \A i \in DOMAIN snaps : snaps[i] \in Snapshots
  OBVIOUS
<1>3. \A i \in DOMAIN snaps : t[i] \in Snapshots /\
         t[i].name = IF snaps[i].name = old THEN new ELSE snaps[i].name
  BY <1>1, <1>2 DEF Snapshots
<1>4. t \in Seq(Snapshots)
  <2>1. t = [i \in 1 .. Len(snaps) |-> t[i]]
    BY DEF SnapRenamed
  <2>2. t \in [1 .. Len(snaps) -> Snapshots]
    BY <1>3, <2>1
  <2> QED
    BY <2>2
<1> HIDE DEF t
<1>5. NamesIn(t) = IF old \in SnapNames THEN (SnapNames \ {old}) \union {new} ELSE SnapNames
  BY <1>1, <1>3 DEF NamesIn, SnapNames
<1> QED
  BY <1>1, <1>3, <1>4, <1>5 DEF t

\* The versions are numbers up to MaxPatch: if there is one, there is a latest.
LEMMA LatestIs ==
  ASSUME Versions # {}
  PROVE  Latest \in Versions
<1>1. MaxPatch \in Nat /\ \A n \in Versions : n \in Nat /\ n <= MaxPatch
  BY PatchAssumption DEF Versions, Levels
<1> DEFINE Below == {MaxPatch - n : n \in Versions}
<1>2. Below \subseteq Nat /\ Below # {}
  <2>1. \A n \in Versions : MaxPatch - n \in Nat
    BY <1>1
  <2> QED
    BY <2>1
<1>3. \E x \in Below : \A y \in Below : ~(<<y, x>> \in OpToRel(<, Nat))
  BY <1>2, NatLessThanWellFounded, WFMin
<1>4. PICK x \in Below : \A y \in Below : ~(<<y, x>> \in OpToRel(<, Nat))
  BY <1>3
<1>5. \A y \in Below : ~(y < x)
  BY <1>2, <1>4 DEF OpToRel
<1>6. PICK n \in Versions : x = MaxPatch - n
  OBVIOUS
<1>7. ASSUME NEW k \in Versions
      PROVE  k <= n
  <2>1. MaxPatch - k \in Below
    OBVIOUS
  <2>2. ~(MaxPatch - k < MaxPatch - n)
    BY <1>5, <1>6, <2>1
  <2> QED
    BY <1>1, <2>2
<1> QED
  BY <1>7 DEF Latest

LEMMA LatestNameIs ==
  /\ LatestName \in Levels
  /\ Versions # {} => LatestName \in SnapNames
  /\ Versions = {} => LatestName = 0 /\ 0 \notin SnapNames
<1>1. 0 \in Levels
  BY PatchAssumption DEF Levels
<1> QED
  BY <1>1, LatestIs DEF LatestName, Versions

\* The snapshot that a new jail is cloned from.
LEMMA WithLatestIs ==
  ASSUME snaps \in Seq(Snapshots), root \in Trees
  PROVE  /\ WithLatest \in Seq(Snapshots)
         /\ LatestName \in NamesIn(WithLatest) /\ SnapNames \subseteq NamesIn(WithLatest)
         /\ \A i \in DOMAIN WithLatest :
              \/ i \in DOMAIN snaps /\ WithLatest[i] = snaps[i]
              \/ 0 \notin SnapNames /\ WithLatest[i] = [name |-> 0, tree |-> root]
<1>1. CASE Versions = {}
  BY <1>1, LatestNameIs, SnapshottedIs DEF WithLatest, Names
<1>2. CASE Versions # {}
  BY <1>2, LatestNameIs DEF WithLatest, NamesIn, SnapNames
<1> QED
  BY <1>1, <1>2

----------------------------------------------------------------------------
(***************************************************************************)
(* The inductive invariant.                                                *)
(***************************************************************************)

\* The snapshot that a root is a clone of exists; what is not made is no clone.
Origins ==
  \A j \in Jails :
    /\ ~Made(j) => jails[j].from # "release"
    /\ Made(j) /\ jails[j].from = "release" => jails[j].snap \in SnapNames

FetchSteps == {"extract", "configure", "pull", "get", "base"}
Configured == {"pull", "get", "save", "prepare", "execute", "tidy", "restore", "version"}

\* Only what was published is ready; nothing is installed before it was saved.
Saved ==
  /\ updates.ready <= published /\ saved.ready <= published
  /\ At("prepare") \/ At("execute") => updates = saved
  /\ op.pc \in FetchSteps => op.on = "release"

Clean(tree) == tree.whole /\ ~tree.link

\* As long as no version snapshot went astray: if an update was installed in
\* part, it is still ready to be installed.
Ready == IF Applying THEN saved.ready ELSE updates.ready
Repairable == ~lost => root.whole \/ Ready > 0

\* Nothing is installed before p0 was taken.
FirstTaken ==
  ~lost => \/ 0 \in SnapNames
           \/ Clean(root) /\ ~(op.on = "release" /\ op.pc \in Configured)

\* From the configuration on, all archives are extracted.
Extracted ==
  op.on = "release" /\ op.pc \in Configured \union {"configure"} =>
    root.complete \/ premature

\* An update that did not fail has left all files and no link.
Updated ==
  ~lost /\ op.on = "release" =>
    /\ At("tidy") /\ ~op.failed => root.whole
    /\ At("restore") \/ At("version") => root.whole /\ ~root.link

SnapsClean ==
  ~lost => \A i \in DOMAIN snaps : snaps[i].name \in Levels =>
    /\ Clean(snaps[i].tree) /\ (snaps[i].tree.complete \/ premature)
    /\ ~hardened /\ snaps[i].name # 0 => snaps[i].tree.level = snaps[i].name

UpdateInv ==
  /\ TypeOK /\ Origins /\ Saved
  /\ Repairable /\ FirstTaken /\ Extracted /\ Updated /\ SnapsClean

LEMMA StorageKept ==
  ASSUME Origins, SnapsClean, UNCHANGED <<hardened, snaps, jails>>, lost => lost',
         premature => premature'
  PROVE  Origins' /\ SnapsClean'
<1>1. Origins'
  BY DEF Origins, Absent, Made, SnapNames
<1>2. SnapsClean'
  BY DEF SnapsClean, Clean, Levels
<1> QED
  BY <1>1, <1>2

\* The updates dataset gets the latest revision, or nothing.
LEMMA PullStep ==
  ASSUME UpdateInv, Pull
  PROVE  UpdateInv'
<1>1. op \in Operations /\ op.pc = "pull" /\ op.on = "release"
  BY DEF UpdateInv, Pull, At, TypeOK, StorageTypeOK, Saved, FetchSteps
<1>2. /\ op' \in Operations /\ op'.on = "release"
      /\ op'.pc \in {"get", "save", "base", "idle"}
  <2>1. op.update \in BOOLEAN
    BY <1>1 DEF Operations
  <2> QED
    BY <1>1, <2>1, GotoKeeps, OverIs, FetchingIs DEF Pull, FetchFails, Steps
<1>3. updates' \in Updates /\ updates'.ready = updates.ready
  <2>1. 0 \in Levels /\ published \in Levels /\ updates \in Updates
    BY PatchAssumption DEF UpdateInv, TypeOK, Levels
  <2>2. PullLatest \/ updates' = updates
    BY DEF Pull
  <2>3. PICK n \in Levels : PullLatest => updates' = [updates EXCEPT !.latest = n]
    BY <2>1 DEF PullLatest
  <2> QED
    BY <2>1, <2>2, <2>3 DEF Updates
<1>4. UNCHANGED <<storage, jails, lost, premature, published, saved>>
  BY DEF Pull, history
<1>5. TypeOK'
  BY <1>2, <1>3, <1>4 DEF UpdateInv, TypeOK, StorageTypeOK, storage, release
<1>6. Origins' /\ SnapsClean'
  BY <1>4, StorageKept DEF UpdateInv, storage, release
<1>7. Saved' /\ Updated'
  BY <1>2, <1>3, <1>4 DEF UpdateInv, Saved, FetchSteps, Updated, At
<1>8. Repairable'
  BY <1>1, <1>2, <1>3, <1>4
     DEF UpdateInv, Repairable, Ready, Applying, At, storage
<1>9. FirstTaken' /\ Extracted'
  BY <1>1, <1>2, <1>4 DEF UpdateInv, FirstTaken, Extracted, Configured, SnapNames, storage
<1> QED
  BY <1>5, <1>6, <1>7, <1>8, <1>9 DEF UpdateInv

\* What is published is ready to be installed.
LEMMA GetStep ==
  ASSUME UpdateInv, Get
  PROVE  UpdateInv'
<1>1. op \in Operations /\ op.pc = "get" /\ op.on = "release"
  BY DEF UpdateInv, Get, At, TypeOK, StorageTypeOK, Saved, FetchSteps
<1>2. /\ op' \in Operations /\ op'.on = "release"
      /\ op'.pc \in {"save", "base", "idle"}
  <2>1. op.update \in BOOLEAN
    BY <1>1 DEF Operations
  <2> QED
    BY <2>1, OverIs, FetchingIs DEF Get, FetchFails
<1>3. /\ updates' \in Updates /\ updates.ready \in Levels
      /\ updates'.ready \in {updates.ready, published}
  BY DEF UpdateInv, Get, TypeOK, Updates
<1>4. UNCHANGED <<storage, jails, lost, premature, published, saved>>
  BY DEF Get, history
<1>5. TypeOK'
  BY <1>2, <1>3, <1>4 DEF UpdateInv, TypeOK, StorageTypeOK, storage, release
<1>6. Origins' /\ SnapsClean'
  BY <1>4, StorageKept DEF UpdateInv, storage, release
<1>7. published \in Nat /\ updates.ready \in Nat /\ updates.ready <= updates'.ready
  BY <1>3, PatchAssumption DEF UpdateInv, TypeOK, Levels, Saved
<1>8. Saved' /\ Updated'
  BY <1>2, <1>3, <1>4, <1>7 DEF UpdateInv, Saved, FetchSteps, Updated, At
<1>9. Repairable'
  BY <1>1, <1>2, <1>3, <1>4, <1>7
     DEF UpdateInv, Repairable, Ready, Applying, At, storage
<1>10. FirstTaken' /\ Extracted'
  BY <1>1, <1>2, <1>4 DEF UpdateInv, FirstTaken, Extracted, Configured, SnapNames, storage
<1> QED
  BY <1>5, <1>6, <1>8, <1>9, <1>10 DEF UpdateInv

\* The updates are saved.
LEMMA SaveStep ==
  ASSUME UpdateInv, Save
  PROVE  UpdateInv'
<1>1. op \in Operations /\ op.pc = "save"
  BY DEF UpdateInv, Save, At, TypeOK, StorageTypeOK
<1>2. \/ /\ op' \in Operations /\ op'.pc = "prepare" /\ op'.on = op.on
         /\ saved' = updates
      \/ /\ op' \in Operations /\ op'.pc = "idle" /\ op'.on = "release"
         /\ saved' = saved
  BY <1>1, GotoKeeps, OverIs DEF Save, Steps
<1>3. UNCHANGED <<release, snaps, jails, lost, premature, published, root, updates>>
  BY DEF Save, apart, history
<1>4. TypeOK'
  BY <1>2, <1>3 DEF UpdateInv, TypeOK, StorageTypeOK, release
<1>5. Origins' /\ SnapsClean'
  BY <1>3, StorageKept DEF UpdateInv, release
<1>6. Saved' /\ Updated'
  BY <1>2, <1>3 DEF UpdateInv, Saved, FetchSteps, Updated, At
<1>7. Repairable'
  BY <1>1, <1>2, <1>3 DEF UpdateInv, Repairable, Ready, Applying, At
<1>8. FirstTaken' /\ Extracted'
  BY <1>1, <1>2, <1>3 DEF UpdateInv, FirstTaken, Extracted, Configured, SnapNames
<1> QED
  BY <1>4, <1>5, <1>6, <1>7, <1>8 DEF UpdateInv

\* The link is put into the root, or the updates are as they were saved.
LEMMA PrepareStep ==
  ASSUME UpdateInv, Prepare
  PROVE  UpdateInv'
<1>1. op \in Operations /\ op.pc = "prepare" /\ updates = saved
  BY DEF UpdateInv, Prepare, At, TypeOK, StorageTypeOK, Saved
<1>2. UNCHANGED <<apart>> /\ updates' = updates /\ saved' \in {saved, NoUpdates}
  BY <1>1 DEF Prepare, SnapshotStays, RolledBack
<1>3. \/ /\ op' \in Operations /\ op'.pc = "execute" /\ op'.on = op.on
         /\ saved' = saved /\ root' \in {root, Linked}
         /\ root' = Linked => op.on = "release" \/ root' = root
      \/ /\ op' \in Operations /\ op'.pc \in {"idle", "strayed"}
         /\ op'.on = "release" /\ root' = root
  BY <1>1, GotoKeeps, OverIs, StraysIs DEF Prepare, RootBecomes, SnapshotStays, Steps
<1>4. root \in Trees /\ Linked \in Trees /\ Linked.whole = root.whole
      /\ Linked.complete = root.complete
  <2>1. root \in Trees /\ hardened \in BOOLEAN
    BY DEF UpdateInv, TypeOK, StorageTypeOK
  <2> QED
    BY <2>1 DEF Linked, Trees
<1>5. NoUpdates \in Updates /\ NoUpdates.ready = 0 /\ published \in Nat
  BY PatchAssumption DEF UpdateInv, TypeOK, NoUpdates, Updates, Levels
<1>6. TypeOK'
  BY <1>2, <1>3, <1>4, <1>5 DEF UpdateInv, TypeOK, StorageTypeOK, apart, history, release
<1>7. Origins' /\ SnapsClean'
  BY <1>2, StorageKept DEF UpdateInv, apart, history, release
<1>8. Saved' /\ Updated'
  BY <1>1, <1>2, <1>3, <1>5 DEF UpdateInv, Saved, FetchSteps, Updated, At, apart, history
<1>9. Repairable'
  BY <1>1, <1>2, <1>3, <1>4
     DEF UpdateInv, Repairable, Ready, Applying, At, apart, history
<1>10. FirstTaken' /\ Extracted'
  BY <1>1, <1>2, <1>3, <1>4 DEF UpdateInv, FirstTaken, Extracted, Configured, SnapNames, apart, history
<1> QED
  BY <1>6, <1>7, <1>8, <1>9, <1>10 DEF UpdateInv

\* All of the update is installed, or part of it, or nothing.
LEMMA ExecuteStep ==
  ASSUME UpdateInv, Execute
  PROVE  UpdateInv'
<1>1. op \in Operations /\ op.pc = "execute" /\ updates = saved
  BY DEF UpdateInv, Execute, At, TypeOK, StorageTypeOK, Saved
<1>2. UNCHANGED <<apart, saved>>
  BY DEF Execute
<1>3. /\ op' \in Operations /\ op'.pc = "tidy" /\ op'.on = op.on
      /\ root' # root => op.on = "release"
  BY <1>1 DEF Execute, Operations, Steps, RootBecomes
<1>4. /\ root \in Trees /\ updates \in Updates /\ updates.ready \in Levels
      /\ updates.ready \in Nat /\ published \in Nat /\ updates.ready <= published
  BY PatchAssumption DEF UpdateInv, TypeOK, StorageTypeOK, Updates, Levels, Saved
<1>5. root' \in Trees /\ root'.complete = root.complete /\ updates' \in Updates /\ updates'.ready \in {updates.ready, 0}
  <2>1. 0 \in Levels /\ root.level \in Levels
    BY <1>4, PatchAssumption DEF Levels, Trees
  <2>2. /\ Installed \in Trees /\ Installed.complete = root.complete
        /\ \A n \in {root.level, updates.ready} :
             LET t == [root EXCEPT !.level = n, !.whole = FALSE]
             IN t \in Trees /\ t.complete = root.complete
    BY <1>4, <2>1 DEF Installed, Trees
  <2>3. [updates EXCEPT !.ready = 0] \in Updates
    BY <1>4, <2>1 DEF Updates
  <2> QED
    BY <1>4, <2>2, <2>3 DEF Execute, RootBecomes, Updates
<1>6. op.on = "release" => root'.whole \/ updates.ready > 0 \/ root' = root
  BY <1>1 DEF Execute, RootBecomes
<1>7. op.on = "release" /\ ~op'.failed => root'.whole \/ (updates.ready = 0 /\ root' = root)
  BY <1>1, <1>4 DEF Execute, RootBecomes, Operations, Installed, Trees
<1>8. TypeOK'
  BY <1>2, <1>3, <1>5 DEF UpdateInv, TypeOK, StorageTypeOK, apart, history, release
<1>9. Origins' /\ SnapsClean'
  BY <1>2, StorageKept DEF UpdateInv, apart, history, release
<1>10. Saved'
  BY <1>2, <1>3, <1>4, <1>5 DEF UpdateInv, Saved, FetchSteps, At, apart, history
<1>11. Repairable'
  BY <1>1, <1>2, <1>3, <1>6 DEF UpdateInv, Repairable, Ready, Applying, At, apart, history
<1>12. Updated'
  BY <1>1, <1>2, <1>3, <1>4, <1>7
     DEF UpdateInv, Updated, Repairable, Ready, Applying, At, apart, history
<1>13. FirstTaken' /\ Extracted'
  BY <1>1, <1>2, <1>3, <1>5 DEF UpdateInv, FirstTaken, Extracted, Configured, SnapNames, apart, history
<1> QED
  BY <1>8, <1>9, <1>10, <1>11, <1>12, <1>13 DEF UpdateInv

\* The link goes.  What failed is undone, what did not is whole.
LEMMA TidyStep ==
  ASSUME UpdateInv, Tidy
  PROVE  UpdateInv'
<1>1. op \in Operations /\ op.pc = "tidy"
  BY DEF UpdateInv, Tidy, At, TypeOK, StorageTypeOK
<1>2. UNCHANGED <<apart>> /\ (root' # root => op.on = "release" /\ root' = Tidied)
  BY DEF Tidy, RootBecomes
<1>3. \/ /\ op' \in Operations /\ op'.pc = "restore" /\ op'.on = op.on /\ ~op.failed
         /\ updates' = updates /\ saved' = saved
         /\ op.on = "release" => root' = Tidied
      \/ /\ op' \in Operations /\ op'.pc = "idle" /\ op'.on = "release"
         /\ updates' = saved /\ saved' = NoUpdates
  BY <1>1, GotoKeeps, OverIs DEF Tidy, UpdateFailed, RolledBack, RootBecomes, Steps
<1>4. Tidied \in Trees /\ Tidied.whole = root.whole /\ ~Tidied.link
      /\ Tidied.complete = root.complete
  <2>1. root \in Trees
    BY DEF UpdateInv, TypeOK, StorageTypeOK
  <2> QED
    BY <2>1 DEF Tidied, Trees
<1>5. NoUpdates \in Updates /\ NoUpdates.ready = 0 /\ published \in Nat
  BY PatchAssumption DEF UpdateInv, TypeOK, NoUpdates, Updates, Levels
<1>6. TypeOK'
  BY <1>2, <1>3, <1>4, <1>5 DEF UpdateInv, TypeOK, StorageTypeOK, apart, history, release
<1>7. Origins' /\ SnapsClean'
  BY <1>2, StorageKept DEF UpdateInv, apart, history, release
<1>8. Saved'
  BY <1>2, <1>3, <1>5 DEF UpdateInv, Saved, FetchSteps, At, apart, history
<1>9. Repairable'
  BY <1>1, <1>2, <1>3, <1>4
     DEF UpdateInv, Repairable, Ready, Applying, At, apart, history
<1>10. Updated'
  BY <1>1, <1>2, <1>3, <1>4 DEF UpdateInv, Updated, At, apart, history
<1>11. FirstTaken' /\ Extracted'
  <2>1. CASE root' = root
    BY <1>1, <1>2, <1>3, <2>1 DEF UpdateInv, FirstTaken, Extracted, Configured, SnapNames, apart, history
  <2>2. CASE root' # root
    BY <1>1, <1>2, <1>3, <1>4, <2>2 DEF UpdateInv, FirstTaken, Extracted, Configured, SnapNames, apart, history
  <2> QED
    BY <2>1, <2>2
<1> QED
  BY <1>6, <1>7, <1>8, <1>9, <1>10, <1>11 DEF UpdateInv

\* The updates are as they were saved, or the process strays.
LEMMA RestoreStep ==
  ASSUME UpdateInv, Restore
  PROVE  UpdateInv'
<1>1. op \in Operations /\ op.pc = "restore"
  BY DEF UpdateInv, Restore, At, TypeOK, StorageTypeOK
<1>2. UNCHANGED <<release, root, snaps, jails, premature, published>> /\ saved' = NoUpdates
  BY DEF Restore, RolledBack, SnapshotStays
<1>3. \/ /\ op' \in Operations /\ op'.pc = "version" /\ op'.on = op.on
         /\ updates' = saved /\ lost' = lost
      \/ /\ op' \in Operations /\ op'.pc = "strayed" /\ op'.on = "release"
         /\ updates' = updates /\ lost' = (lost \/ updates # saved)
  BY <1>1, GotoKeeps, StraysIs
     DEF Restore, RolledBack, SnapshotStays, UsedUp, Applying, At, Steps
<1>4. NoUpdates \in Updates /\ NoUpdates.ready = 0 /\ published \in Nat
  BY PatchAssumption DEF UpdateInv, TypeOK, NoUpdates, Updates, Levels
<1>5. lost' \in BOOLEAN /\ (lost => lost')
  BY <1>3 DEF UpdateInv, TypeOK, StorageTypeOK
<1>6. TypeOK'
  BY <1>2, <1>3, <1>4, <1>5 DEF UpdateInv, TypeOK, StorageTypeOK, release
<1>7. Origins' /\ SnapsClean'
  BY <1>2, <1>5, StorageKept DEF UpdateInv, release
<1>8. Saved'
  BY <1>2, <1>3, <1>4 DEF UpdateInv, Saved, FetchSteps, At
<1>9. Repairable'
  BY <1>1, <1>2, <1>3 DEF UpdateInv, Repairable, Ready, Applying, At
<1>10. Updated'
  BY <1>1, <1>2, <1>3, <1>5 DEF UpdateInv, Updated, At
<1>11. FirstTaken' /\ Extracted'
  BY <1>1, <1>2, <1>3, <1>5 DEF UpdateInv, FirstTaken, Extracted, Configured, SnapNames
<1> QED
  BY <1>6, <1>7, <1>8, <1>9, <1>10, <1>11 DEF UpdateInv

\* A process that dies in the midst of apply() leaves what is not installed.
LEMMA CrashStep ==
  ASSUME UpdateInv, Crash
  PROVE  UpdateInv'
<1>1. /\ UNCHANGED <<storage, jails, premature, published, updates>> /\ saved' = NoUpdates
      /\ lost' = (lost \/ (Applying /\ updates # saved))
      /\ op' \in Operations /\ op'.pc = "strayed" /\ op'.on = "release"
  BY StraysIs DEF Crash, SnapshotStays, UsedUp
<1>2. NoUpdates \in Updates /\ NoUpdates.ready = 0 /\ published \in Nat
  BY PatchAssumption DEF UpdateInv, TypeOK, NoUpdates, Updates, Levels
<1>3. lost' \in BOOLEAN /\ (lost => lost')
  BY <1>1 DEF UpdateInv, TypeOK, StorageTypeOK, Applying, At
<1>4. TypeOK'
  BY <1>1, <1>2, <1>3 DEF UpdateInv, TypeOK, StorageTypeOK, storage, release
<1>5. Origins' /\ SnapsClean'
  BY <1>1, <1>3, StorageKept DEF UpdateInv, storage, release
<1>6. Saved'
  BY <1>1, <1>2 DEF UpdateInv, Saved, FetchSteps, At
<1>7. Repairable' /\ Updated'
  BY <1>1, <1>3 DEF UpdateInv, Repairable, Updated, Ready, Applying, At, storage
<1>8. FirstTaken' /\ Extracted'
  BY <1>1, <1>3 DEF UpdateInv, FirstTaken, Extracted, Configured, SnapNames, storage
<1> QED
  BY <1>4, <1>5, <1>6, <1>7, <1>8 DEF UpdateInv

LEMMA PublishStep ==
  ASSUME UpdateInv, Publish
  PROVE  UpdateInv'
<1>1. UNCHANGED <<storage, jails, op, lost, premature, updates, saved>>
  BY DEF Publish, updater, history
<1>2. published' \in Levels /\ published' \in Nat /\ published <= published'
  BY PatchAssumption DEF UpdateInv, TypeOK, Publish, Levels
<1>3. TypeOK'
  BY <1>1, <1>2 DEF UpdateInv, TypeOK, StorageTypeOK, storage, release
<1>4. Origins' /\ SnapsClean'
  BY <1>1, StorageKept DEF UpdateInv, storage, release
<1>5. Saved'
  <2>1. /\ published \in Nat /\ updates.ready \in Nat /\ saved.ready \in Nat
    BY PatchAssumption DEF UpdateInv, TypeOK, Updates, Levels
  <2> QED
    BY <1>1, <1>2, <2>1 DEF UpdateInv, Saved, FetchSteps, At
<1>6. Repairable' /\ Updated' /\ FirstTaken' /\ Extracted'
  BY <1>1 DEF UpdateInv, Repairable, Updated, Ready, Applying, At, FirstTaken,
              Extracted,               SnapNames, storage
<1> QED
  BY <1>3, <1>4, <1>5, <1>6 DEF UpdateInv

\* What is neither about the root nor its snapshots; the operation that runs is
\* not in a step that the invariant speaks of.
LEMMA Elsewhere ==
  ASSUME UpdateInv, TypeOK', ~Applying, ~Applying', Origins', SnapsClean',
         UNCHANGED <<published, updater>>, lost => lost', premature => premature',
         \/ root' = root
         \/ /\ root'.whole = root.whole /\ root'.link = root.link /\ root'.complete
            /\ op'.pc # "tidy",
         ~lost' => (0 \in SnapNames => 0 \in SnapNames'),
         op' = op \/ (~At("prepare")' /\ ~At("version")'),
         op'.pc \in FetchSteps => op'.on = "release",
         ~lost' /\ op'.on = "release" /\ op'.pc \in Configured =>
           0 \in SnapNames' \/ (op.on = "release" /\ op.pc \in Configured),
         op'.on = "release" /\ op'.pc \in Configured \union {"configure"} =>
           \/ root'.complete \/ premature'
           \/ op.on = "release" /\ op.pc \in Configured \union {"configure"}
  PROVE  UpdateInv'
<1>1. Saved'
  BY DEF UpdateInv, Saved, At, Applying, updater
<1>2. Repairable'
  BY DEF UpdateInv, Repairable, Ready, updater, Applying, At
<1>3. Updated'
  BY DEF UpdateInv, Updated, Applying, At
<1>4. FirstTaken'
  BY DEF UpdateInv, FirstTaken, Configured, At, Clean
<1>5. Extracted'
  BY DEF UpdateInv, Extracted
<1> QED
  BY <1>1, <1>2, <1>3, <1>4, <1>5 DEF UpdateInv

LEMMA RebootStep ==
  ASSUME UpdateInv, Reboot
  PROVE  UpdateInv'
<1>1. UNCHANGED <<root, snaps, hardened, jails, op, lost, premature, published, updater>>
  BY DEF Reboot, Mount, history
<1>2. TypeOK'
  BY DEF Reboot, Mount, UpdateInv, TypeOK, StorageTypeOK, updater, history
<1>3. Origins' /\ SnapsClean'
  BY <1>1, StorageKept DEF UpdateInv
<1>4. ~Applying /\ ~Applying'
  BY DEF Reboot, Mount, Idle, At, Applying
<1> QED
  BY <1>1, <1>2, <1>3, <1>4, Elsewhere DEF UpdateInv, Saved, SnapNames

LEMMA CallUpdateStep ==
  ASSUME UpdateInv, NEW j \in Jails, CallUpdate(j)
  PROVE  UpdateInv'
<1>1. UNCHANGED <<storage, jails, lost, premature, published, updater>> /\ j # "release"
  BY JailAssumption DEF CallUpdate, history
<1>2. op' \in Operations /\ op'.pc = "save" /\ op'.on = j
  BY DEF CallUpdate, NoOperation, Operations, Steps
<1>3. TypeOK'
  BY <1>1, <1>2 DEF UpdateInv, TypeOK, StorageTypeOK, updater, storage, release
<1>4. Origins' /\ SnapsClean'
  BY <1>1, StorageKept DEF UpdateInv, storage, release
<1>5. ~Applying /\ ~Applying'
  BY <1>2 DEF CallUpdate, Idle, At, Applying
<1> QED
  BY <1>1, <1>2, <1>3, <1>4, <1>5, Elsewhere DEF At, FetchSteps, SnapNames, storage

LEMMA CallFetchStep ==
  ASSUME UpdateInv, NEW update \in BOOLEAN, NEW fetch \in BOOLEAN,
         CallFetch(update, fetch), UNCHANGED <<published, updater>>
  PROVE  UpdateInv'
<1>1. UNCHANGED <<hardened, root, snaps, parent, jails, lost>>
  BY DEF CallFetch
<1>2. op' \in Operations /\ op'.pc \in {"idle", "configure", "extract"}
      /\ op'.on = "release"
  BY OverIs DEF CallFetch, DownloadFails, NoOperation, Operations, Steps
<1>3. dataset' \in BOOLEAN /\ mounted' \in BOOLEAN /\ extent' \in Extents
  BY DEF UpdateInv, TypeOK, StorageTypeOK, CallFetch, CreateDataset, CreateRoot, Extents
<1>7. premature' \in BOOLEAN /\ (premature => premature')
      /\ (op'.pc = "configure" => root.complete \/ premature')
  <2>1. root.complete \in BOOLEAN /\ premature \in BOOLEAN
    BY DEF UpdateInv, TypeOK, StorageTypeOK, Trees
  <2>2. CASE TakenForFetched
    BY <2>1, <2>2 DEF TakenForFetched
  <2>3. CASE UNCHANGED premature /\ op'.pc # "configure"
    BY <2>1, <2>3
  <2>4. TakenForFetched \/ op'.pc # "configure"
    <3>1. CASE Over
      BY <3>1, OverIs
    <3>2. CASE op' = [NoOperation EXCEPT !.pc = "extract", !.update = update,
                                         !.fetch = fetch]
      BY <3>2 DEF NoOperation
    <3> QED
      BY <3>1, <3>2 DEF CallFetch, DownloadFails
  <2>5. TakenForFetched \/ UNCHANGED premature
    BY DEF CallFetch
  <2> QED
    BY <2>2, <2>3, <2>4, <2>5
<1>4. TypeOK'
  BY <1>1, <1>2, <1>3, <1>7 DEF UpdateInv, TypeOK, StorageTypeOK, updater
<1>5. Origins' /\ SnapsClean'
  BY <1>1, <1>7, StorageKept DEF UpdateInv
<1>6. ~Applying /\ ~Applying'
  BY <1>2 DEF CallFetch, Idle, At, Applying
<1> QED
  BY <1>1, <1>2, <1>4, <1>5, <1>6, <1>7, Elsewhere DEF At, Configured, SnapNames

LEMMA ExtractStep ==
  ASSUME UpdateInv, Extract, UNCHANGED <<published, updater>>
  PROVE  UpdateInv'
<1>1. UNCHANGED <<hardened, dataset, mounted, snaps, parent, jails, lost, premature>>
  BY DEF Extract, history
<1>2. op \in Operations /\ op.pc = "extract" /\ op.on = "release"
  BY DEF UpdateInv, Extract, At, TypeOK, StorageTypeOK, Saved, FetchSteps
<1>3. op' \in Operations /\ op'.pc \in {"extract", "configure", "idle"}
      /\ op'.on = "release"
  BY <1>2, GotoKeeps, OverIs DEF Extract, ArchiveRefused, Steps
<1>7. /\ root' \in Trees /\ root'.whole = root.whole /\ root'.link = root.link
      /\ (root' = root \/ root'.complete)
      /\ (op'.pc = "configure" => root'.complete)
  <2>1. root \in Trees
    BY DEF UpdateInv, TypeOK, StorageTypeOK
  <2>2. LET t == [root EXCEPT !.complete = TRUE]
        IN t \in Trees /\ t.whole = root.whole /\ t.link = root.link /\ t.complete
    BY <2>1 DEF Trees
  <2>3. \/ root' = [root EXCEPT !.complete = TRUE]
        \/ root' = root /\ op'.pc \in {"extract", "idle"}
    BY <1>2, OverIs DEF Extract, ArchiveRefused
  <2> QED
    BY <2>1, <2>2, <2>3
<1>4. TypeOK'
  BY <1>1, <1>3, <1>7
     DEF UpdateInv, TypeOK, StorageTypeOK, updater, Extract, ArchiveRefused, Extents
<1>5. Origins' /\ SnapsClean'
  BY <1>1, StorageKept DEF UpdateInv
<1>6. ~Applying /\ ~Applying'
  BY <1>2, <1>3 DEF At, Applying
<1> QED
  BY <1>1, <1>3, <1>4, <1>5, <1>6, <1>7, Elsewhere DEF At, Configured, SnapNames

LEMMA CopyBaseStep ==
  ASSUME UpdateInv, CopyBase, UNCHANGED <<published, updater>>
  PROVE  UpdateInv'
<1>1. UNCHANGED <<storage, jails, lost, premature>> /\ op.pc = "base"
  BY DEF CopyBase, At, history
<1>2. op' \in Operations /\ op'.pc = "idle" /\ op'.on = "release"
  BY OverIs DEF CopyBase
<1>3. TypeOK'
  BY <1>1, <1>2 DEF UpdateInv, TypeOK, StorageTypeOK, updater, storage, release
<1>4. Origins' /\ SnapsClean'
  BY <1>1, StorageKept DEF UpdateInv, storage, release
<1>5. ~Applying /\ ~Applying'
  BY <1>1, <1>2 DEF Applying, At
<1> QED
  BY <1>1, <1>2, <1>3, <1>4, <1>5, Elsewhere DEF At, Configured, SnapNames, storage

\* A snapshot of the root of the release is taken.
LEMMA TakenStep ==
  ASSUME UpdateInv, NEW name \in Names, snaps' = Snapshotted(name),
         UNCHANGED <<hardened, root, jails, lost, premature>>,
         ~lost /\ name \notin SnapNames /\ name \in Levels =>
           Clean(root) /\ (root.complete \/ premature) /\ (~hardened /\ name # 0 => root.level = name)
  PROVE  /\ snaps' \in Seq(Snapshots) /\ SnapNames' = SnapNames \union {name}
         /\ Origins' /\ SnapsClean'
<1>1. snaps \in Seq(Snapshots) /\ root \in Trees
  BY DEF UpdateInv, TypeOK, StorageTypeOK
<1>2. /\ snaps' \in Seq(Snapshots)
      /\ \A i \in DOMAIN snaps' :
           \/ i \in DOMAIN snaps /\ snaps'[i] = snaps[i]
           \/ name \notin SnapNames /\ snaps'[i] = [name |-> name, tree |-> root]
  BY <1>1, SnapshottedIs
<1>3. SnapNames' = SnapNames \union {name}
  <2>1. SnapNames' = NamesIn(Snapshotted(name))
    BY DEF NamesIn, SnapNames
  <2> QED
    BY <1>1, <2>1, SnapshottedIs
<1>4. Origins'
  BY <1>3 DEF UpdateInv, Origins, Made
<1>5. SnapsClean'
  <2> SUFFICES ASSUME ~lost, NEW i \in DOMAIN snaps', snaps'[i].name \in Levels
               PROVE  /\ Clean(snaps'[i].tree) /\ (snaps'[i].tree.complete \/ premature)
                      /\ ~hardened /\ snaps'[i].name # 0 =>
                           snaps'[i].tree.level = snaps'[i].name
    BY DEF SnapsClean, Levels, Clean
  <2>1. CASE i \in DOMAIN snaps /\ snaps'[i] = snaps[i]
    BY <2>1 DEF UpdateInv, SnapsClean
  <2>2. CASE name \notin SnapNames /\ snaps'[i] = [name |-> name, tree |-> root]
    BY <2>2
  <2> QED
    BY <1>2, <2>1, <2>2
<1> QED
  BY <1>2, <1>3, <1>4, <1>5

\* The snapshot of the version is one of what the update left.
LEMMA VersionStep ==
  ASSUME UpdateInv, Version
  PROVE  UpdateInv'
<1>1. op \in Operations /\ op.pc = "version"
  BY DEF UpdateInv, Version, At, TypeOK, StorageTypeOK
<1>2. UNCHANGED <<release, root, jails, lost, premature, published, updater>>
  BY DEF Version, history
<1>3. \/ /\ op.on = "release" /\ snaps' = Snapshotted(PatchVersion)
         /\ op' \in Operations /\ op'.pc = "base" /\ op'.on = "release"
      \/ /\ snaps' = snaps
         /\ op' \in Operations /\ op'.pc = "idle" /\ op'.on = "release"
  BY <1>1, GotoKeeps, OverIs DEF Version, Steps
<1>4. /\ snaps' \in Seq(Snapshots) /\ SnapNames \subseteq SnapNames'
      /\ Origins' /\ SnapsClean'
  <2>1. CASE op.on = "release" /\ snaps' = Snapshotted(PatchVersion)
    <3>1. PatchVersion \in Levels /\ PatchVersion \in Names
      BY DEF UpdateInv, TypeOK, StorageTypeOK, PatchVersion, Updates, Trees, Names
    <3>2. ~lost => Clean(root) /\ (root.complete \/ premature) /\ (~hardened => root.level = PatchVersion)
      BY <1>1, <2>1 DEF UpdateInv, Updated, Extracted, Configured, At, Clean, PatchVersion
    <3> QED
      BY <1>2, <2>1, <3>1, <3>2, TakenStep DEF release
  <2>2. CASE snaps' = snaps
    BY <1>2, <2>2, StorageKept
       DEF UpdateInv, TypeOK, StorageTypeOK, release, SnapNames
  <2> QED
    BY <1>3, <2>1, <2>2
<1>5. TypeOK'
  BY <1>2, <1>3, <1>4 DEF UpdateInv, TypeOK, StorageTypeOK, updater, release
<1>6. ~Applying /\ ~Applying'
  BY <1>1, <1>3 DEF Applying, At
<1> QED
  BY <1>1, <1>2, <1>3, <1>4, <1>5, <1>6, Elsewhere DEF At, Configured

\* p0 is taken before anything can be installed.
LEMMA ConfigureStep ==
  ASSUME UpdateInv, Configure, UNCHANGED <<published, updater>>
  PROVE  UpdateInv'
<1>1. op \in Operations /\ op.pc = "configure" /\ op.on = "release"
  BY DEF UpdateInv, Configure, At, TypeOK, StorageTypeOK, Saved, FetchSteps
<1>2. UNCHANGED <<release, root, jails, lost, premature>>
  BY DEF Configure, history
<1>3. \/ /\ snaps' = Snapshotted(0)
         /\ op' \in Operations /\ op'.pc \in {"pull", "save", "base"}
         /\ op'.on = "release"
      \/ /\ snaps' = snaps
         /\ op' \in Operations /\ op'.pc = "idle" /\ op'.on = "release"
  <2>1. op.update \in BOOLEAN
    BY <1>1 DEF Operations
  <2> QED
    BY <1>1, <2>1, GotoKeeps, OverIs, FetchingIs DEF Configure, ConfigureFails, Steps
<1>4. /\ snaps' \in Seq(Snapshots) /\ SnapNames \subseteq SnapNames'
      /\ snaps' = Snapshotted(0) => 0 \in SnapNames'
      /\ Origins' /\ SnapsClean'
  <2>1. CASE snaps' = Snapshotted(0)
    <3>1. 0 \in Levels /\ 0 \in Names
      BY PatchAssumption DEF Levels, Names
    <3>2. ~lost /\ 0 \notin SnapNames => Clean(root) /\ (root.complete \/ premature)
      BY <1>1 DEF UpdateInv, FirstTaken, Extracted
    <3> QED
      BY <1>2, <2>1, <3>1, <3>2, TakenStep DEF release
  <2>2. CASE snaps' = snaps /\ snaps' # Snapshotted(0)
    BY <1>2, <2>2, StorageKept
       DEF UpdateInv, TypeOK, StorageTypeOK, release, SnapNames
  <2> QED
    BY <1>3, <2>1, <2>2
<1>5. TypeOK'
  BY <1>2, <1>3, <1>4 DEF UpdateInv, TypeOK, StorageTypeOK, updater, release
<1>6. ~Applying /\ ~Applying'
  BY <1>1, <1>3 DEF Applying, At
<1> QED
  BY <1>1, <1>2, <1>3, <1>4, <1>5, <1>6, Elsewhere DEF At, Configured

\* Either nothing is left, and no jail was a clone, or a snapshot was deleted.
LEMMA DestroyStep ==
  ASSUME UpdateInv, Destroy
  PROVE  UpdateInv'
<1>1. /\ UNCHANGED <<hardened, jails, op, published, saved>>
      /\ updates' \in {NoUpdates, updates} /\ mounted' = FALSE
      /\ op.pc \in {"idle", "strayed"}
  BY DEF Destroy, DestroyRelease, DeleteDataset, Idle, At
<1>2. NoUpdates \in Updates /\ NoUpdates.ready = 0 /\ published \in Nat
  BY PatchAssumption DEF UpdateInv, TypeOK, NoUpdates, Updates, Levels
<1>3. Saved'
  BY <1>1, <1>2 DEF UpdateInv, Saved, FetchSteps, At
<1>4. Updated' /\ Extracted'
  BY <1>1 DEF Updated, Extracted, Configured, At
<1>5. CASE DeleteRoot /\ dataset' \in {FALSE, dataset}
  <2>1. /\ dataset' \in {FALSE, dataset} /\ extent' = "no root" /\ root' = Pristine
        /\ snaps' = <<>> /\ parent' = NoJail /\ lost' = FALSE /\ premature' = FALSE
        /\ \A s \in SnapNames : Clones(s) = {}
    BY <1>5 DEF DeleteRoot
  <2>2. TypeOK'
    <3>1. Pristine \in Trees /\ <<>> \in Seq(Snapshots)
      BY PatchAssumption DEF Pristine, Trees, Levels
    <3> QED
      BY <1>1, <1>2, <2>1, <3>1 DEF UpdateInv, TypeOK, StorageTypeOK, Extents
  <2>3. Origins'
    <3>1. \A j \in Jails : ~(Made(j) /\ jails[j].from = "release")
      BY <2>1 DEF UpdateInv, Origins, Clones
    <3> QED
      BY <1>1, <3>1 DEF UpdateInv, Origins, Made
  <2>4. SnapsClean' /\ FirstTaken'
    <3>1. FirstTaken'
      BY <1>1, <2>1 DEF FirstTaken, Configured, Clean, Pristine
    <3>2. DOMAIN snaps' = {}
      BY <2>1, NothingTaken
    <3> QED
      BY <3>1, <3>2 DEF SnapsClean
  <2>5. Repairable'
    BY <2>1 DEF Repairable, Pristine
  <2> QED
    BY <1>3, <1>4, <2>2, <2>3, <2>4, <2>5 DEF UpdateInv
<1>6. CASE RootStays
  <2>1. /\ snaps' \in SnapsLeft /\ lost' = TRUE
        /\ UNCHANGED <<dataset, extent, root, parent, premature>>
    BY <1>6 DEF RootStays
  <2>2. /\ snaps' \in Seq(Snapshots)
        /\ \A s \in SnapNames : Clones(s) # {} => s \in SnapNames'
    BY <2>1, SnapsLeftAre DEF UpdateInv, TypeOK, StorageTypeOK, NamesIn, SnapNames
  <2>3. TypeOK'
    BY <1>1, <1>2, <2>1, <2>2 DEF UpdateInv, TypeOK, StorageTypeOK
  <2>4. Origins'
    BY <1>1, <2>2 DEF UpdateInv, Origins, Clones, Made
  <2> QED
    BY <1>3, <1>4, <2>1, <2>3, <2>4 DEF UpdateInv, SnapsClean, Repairable, FirstTaken
<1> QED
  BY <1>5, <1>6 DEF Destroy, DestroyRelease, DeleteDataset

LEMMA CreateStep ==
  ASSUME UpdateInv, NEW j \in Jails, Create(j), UNCHANGED <<published, updater>>
  PROVE  UpdateInv'
<1>1. UNCHANGED <<release, root, op, lost, published, updater>> /\ Absent(j)
      /\ premature' \in BOOLEAN /\ (premature => premature')
      /\ (root.complete \/ premature')
  BY DEF UpdateInv, TypeOK, StorageTypeOK, Trees, Create, TakenForFetched
<1>2. snaps \in Seq(Snapshots) /\ root \in Trees /\ jails \in [Jails -> JailRoots]
  BY DEF UpdateInv, TypeOK, StorageTypeOK
<1>3. snaps' \in {snaps, WithLatest}
  BY DEF Create, CloneRelease, Skeleton
<1>4. NamesIn(snaps) = SnapNames /\ NamesIn(snaps') = SnapNames'
  BY DEF NamesIn, SnapNames
<1>5. /\ snaps' \in Seq(Snapshots) /\ SnapNames \subseteq SnapNames'
      /\ snaps' = WithLatest => LatestName \in SnapNames'
      /\ \A i \in DOMAIN snaps' :
           \/ i \in DOMAIN snaps /\ snaps'[i] = snaps[i]
           \/ 0 \notin SnapNames /\ snaps'[i] = [name |-> 0, tree |-> root]
  <2>1. CASE snaps' = WithLatest
    BY <1>2, <1>4, <2>1, WithLatestIs
  <2>2. CASE snaps' = snaps /\ snaps' # WithLatest
    BY <1>2, <1>4, <2>2
  <2> QED
    BY <1>3, <2>1, <2>2
<1>6. /\ jails' \in [Jails -> JailRoots]
      /\ \A k \in Jails \ {j} : jails'[k] = jails[k]
      /\ \/ /\ jails'[j].state = "made" /\ jails'[j].from = "release"
            /\ jails'[j].snap = LatestName /\ snaps' = WithLatest
         \/ jails'[j].state = "empty" /\ jails'[j].from = jails[j].from
  <2>1. CASE CloneRelease(j)
    BY <1>2, <2>1, LatestNameIs DEF CloneRelease, JailRoots, Names
  <2>2. CASE Skeleton(j)
    BY <1>2, <2>2 DEF Skeleton, JailRoots
  <2> QED
    BY <2>1, <2>2 DEF Create
<1>7. Origins'
  <2>1. Origins /\ ~Made(j)
    BY <1>1 DEF UpdateInv, Made, Absent
  <2> QED
    BY <1>5, <1>6, <2>1 DEF Origins, Made
<1>8. SnapsClean'
  <2> SUFFICES ASSUME ~lost, NEW i \in DOMAIN snaps', snaps'[i].name \in Levels
               PROVE  /\ Clean(snaps'[i].tree) /\ (snaps'[i].tree.complete \/ premature')
                      /\ ~hardened /\ snaps'[i].name # 0 =>
                           snaps'[i].tree.level = snaps'[i].name
    BY <1>1 DEF SnapsClean, Levels, Clean, release
  <2>1. CASE i \in DOMAIN snaps /\ snaps'[i] = snaps[i]
    BY <1>1, <2>1 DEF UpdateInv, SnapsClean
  <2>2. CASE 0 \notin SnapNames /\ snaps'[i] = [name |-> 0, tree |-> root]
    BY <1>1, <2>2 DEF UpdateInv, FirstTaken, Clean
  <2> QED
    BY <1>5, <2>1, <2>2
<1>9. TypeOK'
  BY <1>1, <1>5, <1>6 DEF UpdateInv, TypeOK, StorageTypeOK, release, updater
<1>10. Saved' /\ Repairable' /\ Updated'
  BY <1>1 DEF UpdateInv, Saved, FetchSteps, Repairable, Ready, Updated, Applying, At,
              updater
<1>11. FirstTaken' /\ Extracted'
  BY <1>1, <1>5 DEF UpdateInv, FirstTaken, Extracted, Configured, Clean
<1> QED
  BY <1>7, <1>8, <1>9, <1>10, <1>11 DEF UpdateInv

\* The jails alone: what is a clone of the release was one before.
LEMMA JailsStep ==
  ASSUME UpdateInv, jails' \in [Jails -> JailRoots], Origins',
         UNCHANGED <<storage, op, lost, premature, published, updater>>
  PROVE  UpdateInv'
<1>1. TypeOK'
  BY DEF UpdateInv, TypeOK, StorageTypeOK, storage, release, updater
<1>2. SnapsClean'
  BY DEF UpdateInv, SnapsClean, Clean, Levels, storage, release
<1>3. Saved' /\ Repairable' /\ Updated' /\ FirstTaken' /\ Extracted'
  BY DEF UpdateInv, Saved, FetchSteps, Repairable, Ready, Updated, Applying, At,
         FirstTaken, Extracted, Configured, SnapNames, updater, storage
<1> QED
  BY <1>1, <1>2, <1>3 DEF UpdateInv

LEMMA CloneStep ==
  ASSUME UpdateInv, NEW j \in Jails, NEW source \in Jails \ {j}, Clone(j, source),
         UNCHANGED <<published, updater>>
  PROVE  UpdateInv'
<1>1. UNCHANGED <<storage, op, lost, premature, published, updater>> /\ source # "release"
  BY JailAssumption DEF Clone, history
<1>2. /\ jails' \in [Jails -> JailRoots]
      /\ \A k \in Jails \ {j} : jails'[k] = jails[k]
      /\ jails'[j].from # "release"
  BY <1>1, PatchAssumption
     DEF UpdateInv, TypeOK, StorageTypeOK, Clone, CloneJail, Absent, Made, Origins, JailRoots, Names, Levels
<1>3. Origins'
  BY <1>1, <1>2 DEF UpdateInv, Origins, Made, SnapNames, storage
<1> QED
  BY <1>1, <1>2, <1>3, JailsStep

LEMMA DestroyJailStep ==
  ASSUME UpdateInv, NEW j \in Jails, DestroyJail(j), UNCHANGED <<published, updater>>
  PROVE  UpdateInv'
<1>1. UNCHANGED <<storage, op, lost, premature, published, updater>>
  BY DEF DestroyJail, history
<1>2. /\ jails' \in [Jails -> JailRoots]
      /\ \A k \in Jails \ {j} : jails'[k] = jails[k]
      /\ jails'[j].state # "made" /\ jails'[j].from # "release"
  BY PatchAssumption, JailAssumption
     DEF UpdateInv, TypeOK, StorageTypeOK, DestroyJail, NoRoot, JailRoots, Names, Levels
<1>3. Origins'
  BY <1>1, <1>2 DEF UpdateInv, Origins, Made, SnapNames, storage
<1> QED
  BY <1>1, <1>2, <1>3, JailsStep

\* A clone keeps its origin under the name that the origin has.
LEMMA RenameStep ==
  ASSUME UpdateInv, NEW j \in Jails, NEW new \in Jails \ {j}, Rename(j, new),
         UNCHANGED <<published, updater>>
  PROVE  UpdateInv'
<1> DEFINE old == jails[j].snap
<1>0. PICK origin \in BOOLEAN :
        /\ RenameDataset(j, new, origin) /\ (origin => RenamesOrigin(j, new))
        /\ origin => snaps' = SnapRenamed(old, new) /\ lost' = (lost \/ old \in Levels)
        /\ ~origin => UNCHANGED <<snaps, lost>>
  BY DEF Rename
<1>1. /\ UNCHANGED <<hardened, dataset, extent, root, mounted, op, published, updater>>
      /\ Made(j) /\ Absent(new)
      /\ premature' = premature
  BY DEF Rename
<1>2. /\ new # "release" /\ NoJail # "release" /\ new \notin Levels
      /\ new \in Names /\ 0 \in Names
  BY JailAssumption, PatchAssumption DEF Levels, Names
<1>3. snaps \in Seq(Snapshots) /\ jails \in [Jails -> JailRoots] /\ Origins
  BY DEF UpdateInv, TypeOK, StorageTypeOK
<1>4. \A k \in Jails :
        /\ Renamed(k, j, new, origin) \in JailRoots
        /\ Renamed(k, j, new, origin).state = jails[k].state
        /\ Renamed(k, j, new, origin).from = "release" =>
             /\ jails[k].from = "release"
             /\ Renamed(k, j, new, origin).snap =
                  IF origin /\ Made(k) /\ jails[k].snap = old
                  THEN new ELSE jails[k].snap
  BY <1>2, <1>3 DEF Renamed, JailRoots, Clones
<1>5. /\ jails' \in [Jails -> JailRoots]
      /\ \A k \in Jails : jails'[k] \in {NoRoot, Renamed(k, j, new, origin), Renamed(j, j, new, origin)}
  <2>1. NoRoot \in JailRoots
    BY <1>2 DEF NoRoot, JailRoots
  <2> QED
    BY <1>0, <1>4, <2>1 DEF RenameDataset
<1>6. /\ snaps' \in Seq(Snapshots)
      /\ SnapNames' = IF origin THEN (SnapNames \ {old}) \union {new}
                      ELSE SnapNames
      /\ ~lost' => ~lost /\ (origin => old \notin Levels)
      /\ ~lost' => \A i \in DOMAIN snaps' : snaps'[i].name \in Levels =>
                     i \in DOMAIN snaps /\ snaps'[i] = snaps[i]
  <2>1. CASE origin
    <3>1. snaps' = SnapRenamed(old, new) /\ lost' = (lost \/ old \in Levels)
      BY <1>0, <2>1
    <3>2. old \in SnapNames
      BY <1>0, <1>1, <1>3, <2>1 DEF Origins, RenamesOrigin
    <3>3. SnapNames' = NamesIn(SnapRenamed(old, new))
      BY <3>1 DEF SnapNames, NamesIn
    <3>4. /\ snaps' \in Seq(Snapshots)
          /\ SnapNames' = (SnapNames \ {old}) \union {new}
          /\ \A i \in DOMAIN snaps' :
               /\ i \in DOMAIN snaps
               /\ snaps'[i] = snaps[i] \/ snaps'[i].name = new
      BY <1>2, <1>3, <3>1, <3>2, <3>3, SnapRenamedIs
    <3>5. ~lost' => ~lost /\ old \notin Levels
      BY <3>1
    <3>6. \A i \in DOMAIN snaps' : snaps'[i].name \in Levels =>
            i \in DOMAIN snaps /\ snaps'[i] = snaps[i]
      BY <1>2, <3>4
    <3> QED
      BY <2>1, <3>4, <3>5, <3>6
  <2>2. CASE ~origin
    BY <1>0, <1>3, <2>2 DEF SnapNames
  <2> QED
    BY <2>1, <2>2
<1>7. lost' \in BOOLEAN /\ parent' \in {NoJail} \union Jails
  BY DEF UpdateInv, TypeOK, StorageTypeOK, Rename
<1>8. TypeOK'
  BY <1>1, <1>5, <1>6, <1>7 DEF UpdateInv, TypeOK, StorageTypeOK, updater
<1>9. Origins'
  <2>1. \A k \in Jails : LET r == Renamed(k, j, new, origin) IN
          /\ r.state # "made" => r.from # "release"
          /\ r.state = "made" /\ r.from = "release" => r.snap \in SnapNames'
    BY <1>3, <1>4, <1>6 DEF Origins, Made
  <2>2. NoRoot.from # "release" /\ NoRoot.state # "made"
    BY <1>2 DEF NoRoot
  <2> QED
    BY <1>5, <2>1, <2>2 DEF Origins, Made
<1>10. SnapsClean'
  BY <1>1, <1>6 DEF UpdateInv, SnapsClean, Clean, Levels
<1>11. Saved' /\ Repairable' /\ Updated' /\ Extracted'
  BY <1>1, <1>6 DEF UpdateInv, Saved, FetchSteps, Repairable, Ready, Updated, Extracted, Applying,
                   At, updater
<1>12. FirstTaken'
  <2>1. 0 \in Levels
    BY PatchAssumption DEF Levels
  <2> QED
    BY <1>1, <1>6, <2>1 DEF UpdateInv, FirstTaken, Configured
<1> QED
  BY <1>8, <1>9, <1>10, <1>11, <1>12 DEF UpdateInv

\* The snapshots that stay are those that were taken after the origin.
LEMMA PromoteStep ==
  ASSUME UpdateInv, NEW j \in Jails, Promote(j), UNCHANGED <<published, updater>>
  PROVE  UpdateInv'
<1>1. /\ UNCHANGED <<hardened, dataset, extent, root, mounted, op, published, updater>>
      /\ Made(j) /\ premature' = premature
  BY DEF Promote
<1>2. /\ snaps \in Seq(Snapshots) /\ jails \in [Jails -> JailRoots] /\ Origins
      /\ parent \in {NoJail} \union Jails
  BY DEF UpdateInv, TypeOK, StorageTypeOK
<1>3. j # "release" /\ NoJail # "release" /\ 0 \in Names
  BY JailAssumption, PatchAssumption DEF Levels, Names
<1>4. CASE jails[j].from = "release" /\ PromotedOfRelease(j)
  <2> DEFINE n == CHOOSE i \in DOMAIN snaps : snaps[i].name = jails[j].snap
             moved == {snaps[i].name : i \in 1 .. n}
  <2>1. n \in DOMAIN snaps
    BY <1>1, <1>2, <1>4 DEF Origins, SnapNames
  <2>2. /\ snaps' = SubSeq(snaps, n + 1, Len(snaps)) /\ lost' = TRUE /\ parent' = j
        /\ jails' = [k \in Jails |->
             IF k = j THEN [jails[k] EXCEPT !.from = parent, !.snap = 0]
             ELSE IF \E s \in moved : k \in Clones(s)
                  THEN [jails[k] EXCEPT !.from = j, !.snap = 0] ELSE jails[k]]
    BY <1>4 DEF PromotedOfRelease
  <2> HIDE DEF n
  <2>3. snaps' \in Seq(Snapshots) /\ SnapNames \subseteq SnapNames' \union moved
    <3>1. /\ n \in 1 .. Len(snaps) /\ DOMAIN snaps = 1 .. Len(snaps)
          /\ Len(snaps) \in Nat
      BY <1>2, <2>1
    <3>2. /\ snaps' \in Seq(Snapshots) /\ DOMAIN snaps' = 1 .. Len(snaps) - n
          /\ \A i \in 1 .. Len(snaps) - n : snaps'[i] = snaps[n + i]
      BY <1>2, <2>2, <3>1, LaterSnaps
    <3>3. ASSUME NEW i \in DOMAIN snaps, ~(i \in 1 .. n)
          PROVE  snaps[i].name \in SnapNames'
      <4>1. i - n \in DOMAIN snaps' /\ snaps'[i - n] = snaps[i]
        BY <3>1, <3>2, <3>3
      <4> QED
        BY <4>1 DEF SnapNames
    <3> QED
      BY <3>2, <3>3 DEF SnapNames
  <2> HIDE DEF moved
  <2>4. jails' \in [Jails -> JailRoots]
    <3>1. \A k \in Jails : jails[k] \in JailRoots
      BY <1>2
    <3>2. \A k \in Jails : /\ WithOrigin(jails[k], parent, 0) \in JailRoots
                           /\ WithOrigin(jails[k], j, 0) \in JailRoots
      BY <1>2, <1>3, <3>1, OriginIs
    <3> QED
      BY <2>2, <3>1, <3>2 DEF WithOrigin
  <2>5. \A k \in Jails :
          \/ jails'[k].from # "release"
          \/ jails'[k] = jails[k] /\ k # j /\ ~ \E s \in moved : k \in Clones(s)
    BY <1>2, <1>3, <2>2, <2>4, JailAssumption DEF JailRoots
  <2>6. Origins'
    <3> SUFFICES ASSUME NEW k \in Jails, jails'[k].from = "release"
                 PROVE  jails'[k].state = "made" /\ jails'[k].snap \in SnapNames'
      BY DEF Origins, Made
    <3>1. jails'[k] = jails[k] /\ ~ \E s \in moved : k \in Clones(s)
      BY <2>5
    <3>2. Made(k) /\ jails[k].snap \in SnapNames
      BY <1>2, <3>1 DEF Origins
    <3> QED
      BY <2>3, <3>1, <3>2 DEF Clones, Made
  <2>7. TypeOK'
    BY <1>1, <2>2, <2>3, <2>4 DEF UpdateInv, TypeOK, StorageTypeOK, updater
  <2>8. Saved' /\ Repairable' /\ Updated' /\ FirstTaken' /\ SnapsClean' /\ Extracted'
    BY <1>1, <2>2 DEF UpdateInv, Saved, FetchSteps, Repairable, Updated, At,
                      FirstTaken, SnapsClean, Extracted, updater
  <2> QED
    BY <2>6, <2>7, <2>8 DEF UpdateInv
<1>5. CASE jails[j].from \in Jails /\ UNCHANGED <<snaps, lost, parent>>
           /\ LET source == jails[jails[j].from]
              IN jails' = [jails EXCEPT ![j] = [@ EXCEPT !.from = source.from,
                                                        !.snap = source.snap],
                                        ![jails[j].from] = [@ EXCEPT !.from = j,
                                                                     !.snap = 0]]
  <2> DEFINE origin == jails[j].from
             first == WithOrigin(jails[j], jails[origin].from, jails[origin].snap)
             left == IF origin = j THEN first ELSE jails[origin]
             second == WithOrigin(left, j, 0)
  <2>0. /\ first \in JailRoots /\ first.state = jails[j].state
        /\ first.from = jails[origin].from /\ first.snap = jails[origin].snap
        /\ second \in JailRoots /\ second.from = j
    <3>1. /\ jails[j] \in JailRoots /\ jails[origin] \in JailRoots
          /\ jails[origin].from \in {"release", NoJail} \union Jails
          /\ jails[origin].snap \in Names
      BY <1>2, <1>5 DEF JailRoots
    <3>2. /\ first \in JailRoots /\ first.state = jails[j].state
          /\ first.from = jails[origin].from /\ first.snap = jails[origin].snap
      <4> DEFINE r == jails[j]  from == jails[origin].from  snap == jails[origin].snap
      <4>1. r \in JailRoots /\ from \in {"release", NoJail} \union Jails /\ snap \in Names
        BY <3>1
      <4> HIDE DEF r, from, snap
      <4>2. LET t == WithOrigin(r, from, snap)
            IN t \in JailRoots /\ t.state = r.state /\ t.from = from /\ t.snap = snap
        BY <4>1, OriginIs
      <4> QED
        BY <4>2 DEF r, from, snap
    <3> HIDE DEF first
    <3>3. /\ left \in JailRoots
          /\ j \in {"release", NoJail} \union Jails /\ 0 \in Names
      BY <1>3, <3>1, <3>2
    <3> HIDE DEF left
    <3>4. LET t == WithOrigin(left, j, 0)
          IN t \in JailRoots /\ t.state = left.state /\ t.from = j /\ t.snap = 0
      BY <3>3, OriginIs
    <3> QED
      BY <3>2, <3>4
  <2>3. jails' = [k \in Jails |-> IF k = origin THEN second
                                 ELSE IF k = j THEN first ELSE jails[k]]
    BY <1>2, <1>5 DEF WithOrigin
  <2> HIDE DEF first, second
  <2>1. jails' \in [Jails -> JailRoots]
    BY <1>2, <2>0, <2>3
  <2>2. \A k \in Jails :
          \/ k = origin /\ jails'[k].from # "release"
          \/ /\ k = j /\ k # origin /\ jails'[k].state = "made"
             /\ jails'[k].from = jails[origin].from
             /\ jails'[k].snap = jails[origin].snap
          \/ k # j /\ k # origin /\ jails'[k] = jails[k]
    BY <1>1, <1>3, <2>0, <2>3 DEF Made
  <2>4. Origins'
    <3>1. SnapNames' = SnapNames
      BY <1>5 DEF SnapNames
    <3> QED
      BY <1>2, <1>5, <2>2, <3>1 DEF Origins, Made
  <2> QED
    BY <1>1, <1>5, <2>1, <2>4, JailsStep DEF storage, release
<1> QED
  BY <1>4, <1>5 DEF Promote

----------------------------------------------------------------------------
(***************************************************************************)
(* The theorems.                                                           *)
(***************************************************************************)
LEMMA UpdateInit ==
  Init => UpdateInv
<1> SUFFICES ASSUME Init
             PROVE  UpdateInv
  OBVIOUS
<1>1. TypeOK
  <2>1. Pristine \in Trees /\ NoUpdates \in Updates /\ <<>> \in Seq(Snapshots)
    BY PatchAssumption DEF Pristine, Trees, NoUpdates, Updates, Levels
  <2>2. NoRoot \in JailRoots /\ NoOperation \in Operations
    BY PatchAssumption
       DEF NoRoot, JailRoots, Names, Levels, NoOperation, Operations, Steps
  <2> QED
    <3>1. 0 \in Levels /\ "no root" \in Extents
      BY PatchAssumption DEF Levels, Extents
    <3> QED
      BY <2>1, <2>2, <3>1, HardenedAssumption
         DEF Init, StorageInit, TypeOK, StorageTypeOK
<1>2. Origins
  BY JailAssumption DEF Init, StorageInit, Origins, Made, NoRoot
<1>3. Saved /\ Repairable /\ Updated /\ FirstTaken /\ Extracted
  <2>1. /\ op.pc = "idle" /\ root = Pristine /\ root.whole
        /\ updates.ready = 0 /\ saved.ready = 0 /\ published = 0
    BY DEF Init, StorageInit, NoOperation, NoUpdates, Pristine
  <2> QED
    BY <2>1 DEF Saved, Repairable, Updated, FirstTaken, Extracted, At, FetchSteps, Configured, Clean, Pristine
<1>4. SnapsClean
  BY NothingTaken DEF Init, StorageInit, SnapsClean
<1> QED
  BY <1>1, <1>2, <1>3, <1>4 DEF UpdateInv

LEMMA UpdateStep ==
  UpdateInv /\ [Next]_vars => UpdateInv'
<1> SUFFICES ASSUME UpdateInv, [Next]_vars
             PROVE  UpdateInv'
  OBVIOUS
<1>1. CASE UpdaterStep
  BY <1>1, PullStep, GetStep, SaveStep, PrepareStep, ExecuteStep, TidyStep,
     RestoreStep, VersionStep DEF UpdaterStep
<1>2. CASE Crash \/ Publish \/ Destroy \/ Reboot
  BY <1>2, CrashStep, PublishStep, DestroyStep, RebootStep
<1>3. CASE \E j \in Jails : CallUpdate(j)
  BY <1>3, CallUpdateStep
<1>4. ASSUME UNCHANGED <<published, updater>>,
             (\E update, fetch \in BOOLEAN : CallFetch(update, fetch)) \/ ReleaseStep
      PROVE  UpdateInv'
  BY <1>4, CallFetchStep, ExtractStep, ConfigureStep, CopyBaseStep DEF ReleaseStep
<1>5. ASSUME UNCHANGED <<published, updater>>, JailStep
      PROVE  UpdateInv'
  BY <1>5, CreateStep, PromoteStep, DestroyJailStep, CloneStep, RenameStep
     DEF JailStep
<1>6. CASE UNCHANGED vars
  <2>1. UNCHANGED <<storage, jails, op, lost, premature, published, updates, saved>>
    BY <1>6 DEF vars, updater, history
  <2>2. TypeOK' /\ Origins' /\ SnapsClean'
    BY <2>1, StorageKept DEF UpdateInv, TypeOK, StorageTypeOK, storage, release
  <2>3. Saved' /\ Repairable' /\ Updated' /\ FirstTaken' /\ Extracted'
    BY <2>1 DEF UpdateInv, Saved, FetchSteps, Repairable, Ready, Updated, Applying, At,
                FirstTaken, Extracted, Configured, SnapNames, storage
  <2> QED
    BY <2>2, <2>3 DEF UpdateInv
<1> QED
  BY <1>1, <1>2, <1>3, <1>4, <1>5, <1>6 DEF Next

\* Whatever fails, crashes and is tried again while a release is fetched and it
\* or its jails are updated (Release.fetch, Updater.apply): every clone has its
\* snapshot, an update that was installed in part is still ready, and the
\* version snapshots are whole, unless one went astray, and have the files of all
\* archives, unless a root was taken for a fetched release too early.
THEOREM UpdateInvariant ==
  Spec => []UpdateInv
<1> QED
  BY UpdateInit, UpdateStep, PTL DEF Spec

\* The datasets, snapshots, roots and updates keep their types: in particular
\* their number stays within the bounds however often apply() fails.
THEOREM UpdateTypeCorrect ==
  Spec => []TypeOK
<1>1. UpdateInv => TypeOK
  BY DEF UpdateInv
<1> QED
  BY <1>1, UpdateInvariant, PTL

\* VersionWhole: a version snapshot of FreeBSD, taken by Release.snapshot() at
\* the end of an update, has the patch level in all files and no link of the
\* updater, unless a snapshot of the release went astray, and the files of all
\* archives, unless Release.fetched took a root for fetched before it had them.
THEOREM VersionWholeTheorem ==
  Spec => []VersionWhole
<1>1. ASSUME UpdateInv
      PROVE  VersionWhole
  <2> SUFFICES ASSUME ~hardened, ~lost, NEW n \in Versions \ {0}
               PROVE  LET t == Snap(n).tree
                      IN t.level = n /\ t.whole /\ ~t.link /\ (t.complete \/ premature)
    BY DEF VersionWhole
  <2>1. n \in Levels /\ \E i \in DOMAIN snaps : snaps[i].name = n
    BY DEF Versions, SnapNames
  <2>2. PICK i \in DOMAIN snaps : Snap(n) = snaps[i] /\ snaps[i].name = n
    BY <2>1 DEF Snap
  <2> QED
    BY <1>1, <2>1, <2>2 DEF UpdateInv, SnapsClean, Clean
<1> QED
  BY <1>1, UpdateInvariant, PTL

\* A jail that is created from a release is a clone of a whole snapshot.
LEMMA CreatedWhole ==
  ASSUME UpdateInv, UpdateInv', [Next]_vars,
         NEW j \in Jails, ~lost, Absent(j), jails'[j].from = "release",
         \A k \in Jails \ {j} : jails'[k] = jails[k]
  PROVE  \E i \in DOMAIN snaps' :
           /\ snaps'[i].name = jails'[j].snap
           /\ snaps'[i].tree.whole /\ ~snaps'[i].tree.link
           /\ snaps'[i].tree.complete \/ premature'
<1>1. /\ jails \in [Jails -> JailRoots] /\ jails[j].from # "release" /\ ~Made(j)
      /\ "release" \notin Jails \union {NoJail} /\ parent # "release"
  BY JailAssumption
     DEF UpdateInv, Origins, Absent, Made, TypeOK, StorageTypeOK
<1>2. JailStep
  <2>1. jails' # jails
    BY <1>1
  <2>2. ~UpdaterStep
    BY <2>1 DEF UpdaterStep, Pull, Get, Save, Prepare, Execute, Tidy, Restore, Version,
                apart, storage
  <2>3. ~Crash /\ ~Publish /\ ~Destroy /\ ~Reboot /\ ~ReleaseStep
    BY <2>1 DEF Crash, Publish, Destroy, DestroyRelease, Reboot, Mount,
                ReleaseStep, Extract, Configure, CopyBase
  <2>4. /\ ~ \E k \in Jails : CallUpdate(k)
        /\ ~ \E update, fetch \in BOOLEAN : CallFetch(update, fetch)
    BY <2>1 DEF CallUpdate, CallFetch
  <2> QED
    BY <2>1, <2>2, <2>3, <2>4 DEF Next, vars
<1>3. CASE \E k \in Jails : Create(k)
  <2>1. PICK k \in Jails : Create(k)
    BY <1>3
  <2>2. k = j /\ CloneRelease(j)
    <3>1. CASE CloneRelease(k)
      BY <1>1, <2>1, <3>1 DEF CloneRelease
    <3>2. CASE Skeleton(k)
      <4>1. jails' = [jails EXCEPT ![k].state = "empty"] /\ jails[k] \in JailRoots
        BY <1>1, <3>2 DEF Skeleton
      <4>2. jails'[j].from = jails[j].from
        BY <1>1, <4>1 DEF JailRoots
      <4> QED
        BY <1>1, <4>2
    <3> QED
      BY <2>1, <3>1, <3>2 DEF Create
  <2>3. jails'[j].snap = LatestName /\ snaps' = WithLatest /\ ~lost'
    BY <1>1, <2>1, <2>2 DEF Create, CloneRelease
  <2>4. LatestName \in Levels /\ \E i \in DOMAIN snaps' : snaps'[i].name = LatestName
    BY <2>3, LatestNameIs, WithLatestIs DEF UpdateInv, TypeOK, StorageTypeOK, NamesIn
  <2> QED
    BY <2>3, <2>4 DEF UpdateInv, SnapsClean, Clean, Levels
<1>4. ~ \E k \in Jails : Promote(k)
  <2> SUFFICES ASSUME NEW k \in Jails, Promote(k)
               PROVE  FALSE
    OBVIOUS
  <2>1. Made(k) /\ k # j /\ jails'[k] = jails[k]
    BY <1>1 DEF Promote
  <2>2. ~(jails[k].from = "release" /\ PromotedOfRelease(k))
    <3> SUFFICES ASSUME jails[k].from = "release", PromotedOfRelease(k)
                 PROVE  FALSE
      OBVIOUS
    <3>1. jails[k] \in JailRoots
      BY <1>1
    <3>2. jails'[k] = WithOrigin(jails[k], parent, 0)
      BY <1>1 DEF PromotedOfRelease, WithOrigin
    <3>3. jails'[k].from = parent
      BY <3>1, <3>2 DEF WithOrigin, JailRoots
    <3> QED
      BY <1>1, <2>1, <3>3
  <2>3. jails'[j].from = k \/ jails'[j] = jails[j]
    BY <1>1, <2>1, <2>2 DEF Promote, JailRoots
  <2> QED
    BY <1>1, <2>3
<1>5. ~ \E k \in Jails : DestroyJail(k)
  BY <1>1 DEF DestroyJail, NoRoot
<1>6. ~ \E k \in Jails : \E source \in Jails \ {k} : Clone(k, source)
  <2> SUFFICES ASSUME NEW k \in Jails, NEW source \in Jails \ {k}, Clone(k, source)
               PROVE  FALSE
    OBVIOUS
  <2>1. \A h \in Jails : jails'[h].from \in {jails[h].from, source}
    BY <1>1 DEF Clone, CloneJail, JailRoots
  <2> QED
    BY <1>1, <2>1
<1>7. ~ \E k \in Jails : \E new \in Jails \ {k} : Rename(k, new)
  <2> SUFFICES ASSUME NEW k \in Jails, NEW new \in Jails \ {k}, Rename(k, new)
               PROVE  FALSE
    OBVIOUS
  <2>1. Made(k) /\ k # j /\ jails'[k] = NoRoot
    BY <1>1 DEF Rename, RenameDataset
  <2> QED
    BY <2>1 DEF NoRoot, Made
<1> QED
  BY <1>2, <1>3, <1>4, <1>5, <1>6, <1>7 DEF JailStep

\* JailsWhole: a jail that is created from a release (Release.clone,
\* Storage.clone_release) is a clone of a snapshot without a part of an update and
\* without a link, whatever update of the release failed or was interrupted before.
\* The snapshot has the files of all archives, unless Release.fetched took a root
\* for fetched before it had them, for this jail or before.
THEOREM JailsWholeTheorem ==
  Spec => JailsWhole
<1> DEFINE FromWhole ==
      \A j \in Jails :
        /\ ~lost /\ Absent(j) /\ jails'[j].from = "release"
        /\ \A k \in Jails \ {j} : jails'[k] = jails[k]
        => \E i \in DOMAIN snaps' :
             /\ snaps'[i].name = jails'[j].snap
             /\ snaps'[i].tree.whole /\ ~snaps'[i].tree.link
             /\ snaps'[i].tree.complete \/ premature'
<1>1. UpdateInv /\ UpdateInv' /\ [Next]_vars => [FromWhole]_vars
  BY CreatedWhole
<1> QED
  BY <1>1, UpdateInvariant, PTL DEF Spec, JailsWhole

\* UpdatesKept: whether an update that began to install succeeds or fails
\* (Updater.apply), the updates dataset is rolled back to what it was before,
\* unless the process dies or cannot roll back, which leaves its snapshot.
THEOREM UpdatesKeptTheorem ==
  Spec => UpdatesKept
<1> DEFINE Kept == Applying => \/ op'.pc \in {"tidy", "restore", "strayed"}
                               \/ updates' = saved
<1>1. ASSUME UpdateInv, Next, Applying
      PROVE  op'.pc \in {"tidy", "restore", "strayed"} \/ updates' = saved
  <2>1. /\ op \in Operations /\ op.pc \in {"execute", "tidy", "restore"}
        /\ op.pc = "execute" => updates = saved
    BY <1>1 DEF UpdateInv, TypeOK, StorageTypeOK, Applying, At, Saved
  <2>2. CASE UpdaterStep
    <3>1. Execute \/ Tidy \/ Restore
      BY <2>1, <2>2 DEF UpdaterStep, Pull, Get, Save, Prepare, Version, At
    <3>2. CASE Execute
      BY <2>1, <3>2 DEF Execute, Operations
    <3>3. CASE Tidy
      BY <2>1, <3>3, GotoKeeps DEF Tidy, UpdateFailed, RolledBack, Steps
    <3>4. CASE Restore
      BY <3>4, StraysIs DEF Restore, RolledBack, SnapshotStays
    <3> QED
      BY <3>1, <3>2, <3>3, <3>4
  <2>3. CASE Crash
    BY <2>3, StraysIs DEF Crash, SnapshotStays
  <2>4. CASE op' = op /\ updates' = updates
    BY <2>1, <2>4
  <2>5. CASE Publish \/ (JailStep /\ UNCHANGED <<published, updater>>)
    BY <2>4, <2>5 DEF Publish, JailStep, Create, Promote, DestroyJail, Clone, Rename, updater
  <2>6. /\ ~Destroy /\ ~Reboot /\ ~ReleaseStep
        /\ ~ \E j \in Jails : CallUpdate(j)
        /\ ~ \E update, fetch \in BOOLEAN : CallFetch(update, fetch)
    BY <2>1 DEF Destroy, DestroyRelease, Reboot, Mount, ReleaseStep, Extract,
                Configure, CopyBase, CallUpdate, CallFetch, Idle, At
  <2> QED
    BY <1>1, <2>2, <2>3, <2>5, <2>6 DEF Next
<1>2. UpdateInv /\ [Next]_vars => [Kept]_vars
  BY <1>1
<1> QED
  BY <1>2, UpdateInvariant, PTL DEF Spec, UpdatesKept
=============================================================================
