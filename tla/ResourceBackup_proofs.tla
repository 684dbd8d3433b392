------------------------ MODULE ResourceBackup_proofs ------------------------
(***************************************************************************)
(* Proofs about ResourceBackup, for any jails and any number of versions.  *)
(***************************************************************************)
EXTENDS ResourceBackup, TLAPS

(***************************************************************************)
(* Contents by name.                                                       *)
(***************************************************************************)
LEMMA ContentsDef ==
  ASSUME NEW S, NEW f
  PROVE  f \in Contents(S) <=>
           /\ DOMAIN f \subseteq S /\ f = [d \in DOMAIN f |-> f[d]]
           /\ \A d \in DOMAIN f : f[d] \in Versions
<1>1. f \in Contents(S) <=> \E T \in SUBSET S : f \in [T -> Versions]
  BY DEF Contents
<1>2. ASSUME NEW T \in SUBSET S, f \in [T -> Versions]
      PROVE  /\ DOMAIN f \subseteq S /\ f = [d \in DOMAIN f |-> f[d]]
             /\ \A d \in DOMAIN f : f[d] \in Versions
  BY <1>2
<1>3. ASSUME DOMAIN f \subseteq S, f = [d \in DOMAIN f |-> f[d]],
             \A d \in DOMAIN f : f[d] \in Versions
      PROVE  f \in [DOMAIN f -> Versions]
  BY <1>3
<1> QED
  BY <1>1, <1>2, <1>3

\* How contents are made: of nothing, one entry, two contents, a replaced entry.
LEMMA NothingTyped == ASSUME NEW S PROVE Nothing \in Contents(S)
BY ContentsDef DEF Nothing

LEMMA OneTyped ==
  ASSUME NEW S, NEW d \in S, NEW v \in Versions
  PROVE  One(d, v) \in Contents(S)
BY ContentsDef DEF One

LEMMA OverTyped ==
  ASSUME NEW S, NEW f \in Contents(S), NEW g \in Contents(S)
  PROVE  Over(f, g) \in Contents(S)
<1>1. /\ DOMAIN f \subseteq S /\ DOMAIN g \subseteq S
      /\ \A d \in DOMAIN f : f[d] \in Versions
      /\ \A d \in DOMAIN g : g[d] \in Versions
  BY ContentsDef
<1>2. /\ DOMAIN Over(f, g) = DOMAIN f \union DOMAIN g
      /\ Over(f, g) = [d \in DOMAIN Over(f, g) |-> Over(f, g)[d]]
      /\ \A d \in DOMAIN Over(f, g) : Over(f, g)[d] \in Versions
  BY <1>1 DEF Over
<1> QED
  BY <1>1, <1>2, ContentsDef

LEMMA ReplacedTyped ==
  ASSUME NEW S, NEW f \in Contents(S), NEW d, NEW v \in Versions
  PROVE  [f EXCEPT ![d] = v] \in Contents(S)
<1> DEFINE g == [f EXCEPT ![d] = v]
<1>1. /\ DOMAIN g = DOMAIN f /\ g = [e \in DOMAIN g |-> g[e]]
      /\ \A e \in DOMAIN g : g[e] = IF e = d THEN v ELSE f[e]
  OBVIOUS
<1> HIDE DEF g
<1>2. DOMAIN g \subseteq S /\ \A e \in DOMAIN g : g[e] \in Versions
  BY <1>1, ContentsDef
<1>3. g \in Contents(S)
  BY <1>1, <1>2, ContentsDef
<1> QED
  BY <1>3 DEF g

LEMMA NoArchiveTyped == NoArchive \in Archives
BY NothingTyped DEF NoArchive, Archives

LEMMA ZeroVersion == 0 \in Versions
BY VersionAssumption DEF Versions

(***************************************************************************)
(* Types.                                                                  *)
(***************************************************************************)
LEMMA InitTyped == Init => TypeOK
<1> SUFFICES ASSUME Init PROVE TypeOK
  OBVIOUS
<1>1. [d \in Datasets |-> 0] \in Contents(Datasets)
  BY ZeroVersion, ContentsDef
<1>2. tree \in [Jails -> Contents(Datasets)]
  BY <1>1, NothingTyped DEF Init
<1>3. work \in Archives /\ archive \in Archives /\ snapshot \in Contents(Datasets)
  BY NoArchiveTyped, NothingTyped DEF Init
<1>4. hasRelease \in BOOLEAN /\ fresh \in BOOLEAN
  BY Zenon DEF Init
<1>5. version \in Versions /\ pc = "idle" /\ target \in Jails /\ imported \subseteq Datasets
  BY ZeroVersion, SourceAssumption DEF Init
<1> QED
  BY <1>2, <1>3, <1>4, <1>5 DEF TypeOK, Ended

\* What a step does not change but for the tree or what the export has.
LEMMA WriteTyped ==
  ASSUME TypeOK, NEW d \in Datasets, Write(d)
  PROVE  TypeOK'
<1>1. version' \in Versions
  BY VersionAssumption DEF Write, TypeOK, Versions
<1>2. tree[Source] \in Contents(Datasets)
  BY SourceAssumption DEF TypeOK
<1>3. [tree[Source] EXCEPT ![d] = version'] \in Contents(Datasets)
  BY <1>1, <1>2, ReplacedTyped
<1>4. tree' \in [Jails -> Contents(Datasets)]
  BY <1>3, SourceAssumption DEF Write, TypeOK
<1> QED
  BY <1>1, <1>4 DEF Write, TypeOK, restore, Exporting, Restoring, Ended

\* A jail that is destroyed has no contents.
LEMMA DestroyTyped ==
  ASSUME TypeOK, NEW j \in Jails, Destroy(j)
  PROVE  TypeOK'
BY NothingTyped DEF Destroy, TypeOK, restore, Exporting, Restoring, Ended

\* What the export writes, and what is left when it is over.
LEMMA WrittenTyped ==
  ASSUME TypeOK, NEW name \in Files, NEW v \in Versions, Written(name, v)
  PROVE  work' \in Archives /\ archive' \in Archives /\ snapshot' \in Contents(Datasets)
<1>1. Over(One(name, v), work.files) \in Contents(Files)
  BY OneTyped, OverTyped DEF TypeOK, Archives
<1>2. work' \in Archives
  BY <1>1 DEF Written, TypeOK, Archives
<1> QED
  BY <1>2 DEF Written, TypeOK

LEMMA ExportOverTyped ==
  ASSUME TypeOK, ExportOver
  PROVE  work' \in Archives /\ snapshot' \in Contents(Datasets) /\ pc' = "idle"
BY NoArchiveTyped, NothingTyped DEF ExportOver

\* Every step of an export keeps the types.
LEMMA ExportTyped ==
  ASSUME TypeOK, ExportStep
  PROVE  TypeOK'
<1> USE DEF Exporting, Restoring, Ended
<1>1. ASSUME NEW standalone \in BOOLEAN, NEW recursive \in BOOLEAN, NEW tar \in BOOLEAN,
             CallExport(standalone, recursive, tar)
      PROVE  TypeOK'
  <2>1. work' \in Archives
    <3>1. IsStandalone(standalone) \in BOOLEAN
      BY Zenon DEF IsStandalone
    <3> QED
      BY <1>1, <3>1, NothingTyped DEF CallExport, NoArchive, Archives
  <2>2. archive' \in Archives
    BY <1>1, <2>1 DEF CallExport, TypeOK
  <2>3. pc' = "snapshot" /\ UNCHANGED <<tree, version, hasRelease, snapshot, restore>>
    BY <1>1 DEF CallExport, Goto
  <2> QED
    BY <2>1, <2>2, <2>3 DEF TypeOK, restore
<1>2. ASSUME TakeSnapshot PROVE TypeOK'
  <2>1. CASE ExportOver
    BY <1>2, <2>1, ExportOverTyped DEF TakeSnapshot, TypeOK, restore
  <2>2. CASE /\ Goto("config") /\ snapshot' = tree[Source]
             /\ work' = [work EXCEPT !.taken = tree[Source]]
    <3>1. tree[Source] \in Contents(Datasets)
      BY SourceAssumption DEF TypeOK
    <3>2. work' \in Archives
      BY <2>2, <3>1 DEF TypeOK, Archives
    <3> QED
      BY <1>2, <2>2, <3>1, <3>2 DEF TakeSnapshot, TypeOK, Goto, restore
  <2> QED
    BY <1>2, <2>1, <2>2 DEF TakeSnapshot
<1>3. ASSUME ExportConfig PROVE TypeOK'
  <2>1. CASE ExportOver /\ UNCHANGED archive
    BY <1>3, <2>1, ExportOverTyped DEF ExportConfig, TypeOK, restore
  <2>2. CASE Written("config", 0) /\ Goto(IF work.standalone THEN "others" ELSE "difference")
    BY <1>3, <2>2, WrittenTyped, ZeroVersion DEF ExportConfig, TypeOK, Files, Goto, restore
  <2> QED
    BY <1>3, <2>1, <2>2 DEF ExportConfig
<1>4. ASSUME ExportRoot PROVE TypeOK'
  <2>1. CASE ExportOver /\ UNCHANGED archive
    BY <1>4, <2>1, ExportOverTyped DEF ExportRoot, TypeOK, restore
  <2>2. CASE /\ "root" \in DOMAIN tree[Source]
             /\ Written("difference", tree[Source]["root"]) /\ Goto("others")
    <3>1. tree[Source]["root"] \in Versions
      BY <2>2, SourceAssumption, ContentsDef DEF TypeOK
    <3> QED
      BY <1>4, <2>2, <3>1, WrittenTyped DEF ExportRoot, TypeOK, Files, Goto, restore
  <2> QED
    BY <1>4, <2>1, <2>2 DEF ExportRoot
<1>5. ASSUME ExportOther PROVE TypeOK'
  <2>1. CASE ExportOver /\ UNCHANGED archive
    BY <1>5, <2>1, ExportOverTyped DEF ExportOther, TypeOK, restore
  <2>2. CASE /\ \E d \in Exported \ DOMAIN work.files : Written(d, Stream(d))
             /\ UNCHANGED pc
    <3>1. PICK d \in Exported : Written(d, Stream(d))
      BY <2>2
    <3>2. d \in DOMAIN snapshot /\ d # "jail"
      BY DEF Exported
    <3>3. d \in Datasets /\ snapshot[d] \in Versions
      BY <3>2, ContentsDef DEF TypeOK
    <3>4. d \in Files /\ Stream(d) \in Versions
      BY <3>2, <3>3 DEF Stream, Files, Datasets, Children
    <3> QED
      BY <1>5, <2>2, <3>1, <3>4, WrittenTyped DEF ExportOther, TypeOK, restore
  <2>3. CASE /\ Goto(IF work.tar THEN "bundle" ELSE "unlock")
             /\ UNCHANGED <<snapshot, work, archive>>
    BY <1>5, <2>3 DEF ExportOther, TypeOK, Goto, restore
  <2> QED
    BY <1>5, <2>1, <2>2, <2>3 DEF ExportOther
<1>6. ASSUME Bundle PROVE TypeOK'
  <2>1. archive' \in Archives
    BY <1>6 DEF Bundle, TypeOK, Archives
  <2>2. CASE ExportOver
    BY <1>6, <2>1, <2>2, ExportOverTyped DEF Bundle, TypeOK, restore
  <2>3. CASE Goto("unlock") /\ UNCHANGED <<snapshot, work>>
    BY <1>6, <2>1, <2>3 DEF Bundle, TypeOK, Goto, restore
  <2> QED
    BY <1>6, <2>2, <2>3 DEF Bundle
<1>7. ASSUME ExportEnds PROVE TypeOK'
  <2>1. archive' \in Archives
    BY <1>7 DEF ExportEnds, TypeOK, Archives
  <2>2. ExportOver
    BY <1>7 DEF ExportEnds
  <2> QED
    BY <1>7, <2>1, <2>2, ExportOverTyped DEF ExportEnds, TypeOK, restore
<1> QED
  BY <1>1, <1>2, <1>3, <1>4, <1>5, <1>6, <1>7 DEF ExportStep

\* What is left when a restore is over.
LEMMA RestoreOverTyped ==
  ASSUME NEW end \in {"idle", "stuck"}, RestoreOver(end)
  PROVE  /\ target' \in Jails /\ imported' \subseteq Datasets /\ fresh' \in BOOLEAN
         /\ pc' = end
<1>1. fresh' \in BOOLEAN
  BY Zenon DEF RestoreOver
<1> QED
  BY <1>1, SourceAssumption DEF RestoreOver

\* The datasets that a stream creates are datasets with their contents.
LEMMA ReceivedTyped ==
  ASSUME TypeOK, NEW d \in Importable
  PROVE  Received(d) \in Contents(Datasets)
<1>1. /\ d \in Children /\ d \in DOMAIN archive.files
      /\ archive.files[d] \in Versions
  BY ContentsDef DEF Importable, TypeOK, Archives
<1>2. \A e \in DOMAIN archive.taken : archive.taken[e] \in Versions
  BY ContentsDef DEF TypeOK, Archives
<1>3. /\ DOMAIN Received(d) \subseteq Datasets
      /\ Received(d) = [e \in DOMAIN Received(d) |-> Received(d)[e]]
      /\ \A e \in DOMAIN Received(d) : Received(d)[e] \in Versions
  BY <1>1, <1>2 DEF Received, Below, Datasets
<1> QED
  BY <1>3, ContentsDef

\* Every step of a restore keeps the types.
LEMMA RestoreTyped ==
  ASSUME TypeOK, RestoreStep
  PROVE  TypeOK'
<1> USE DEF Exporting, Restoring, Ended
<1>a. tree[target] \in Contents(Datasets)
  BY DEF TypeOK
<1>1. ASSUME NEW j \in Jails, CallRestore(j) PROVE TypeOK'
  <2>1. fresh' \in BOOLEAN
    BY <1>1, Zenon DEF CallRestore, Exists
  <2>2. /\ pc' \in {"extract", "read"} /\ target' = j /\ imported' = {}
        /\ UNCHANGED <<tree, source>>
    BY <1>1 DEF CallRestore, Goto
  <2> QED
    BY <2>1, <2>2 DEF TypeOK, source
<1>2. ASSUME Extract \/ ReadConfig \/ ImportConfig PROVE TypeOK'
  <2>1. UNCHANGED <<tree, source>>
    BY <1>2 DEF Extract, ReadConfig, ImportConfig
  <2>2. CASE RestoreOver("idle")
    BY <2>1, <2>2, RestoreOverTyped DEF TypeOK, source
  <2>3. CASE pc' \in {"read", "create", "rollback"} /\ UNCHANGED restore
    BY <2>1, <2>3 DEF TypeOK, source, restore
  <2> QED
    BY <1>2, <2>2, <2>3 DEF Extract, ReadConfig, ImportConfig, Goto
<1>3. ASSUME CreateJail PROVE TypeOK'
  <2>1. One("jail", 0) \in Contents(Datasets)
    BY OneTyped, ZeroVersion DEF Datasets
  <2>2. [d \in {"jail"} \union (IF FromRelease THEN {"root"} ELSE {}) |-> 0]
          \in Contents(Datasets)
    BY ContentsDef, ZeroVersion DEF Datasets, Children
  <2>3. tree' \in [Jails -> Contents(Datasets)]
    BY <1>3, <2>1, <2>2 DEF CreateJail, TypeOK
  <2>4. pc' \in {"import others", "import root", "rollback"} /\ UNCHANGED <<source, restore>>
    BY <1>3 DEF CreateJail, CreateFails, Goto
  <2> QED
    BY <2>3, <2>4 DEF TypeOK, source, restore
<1>4. ASSUME ImportRoot PROVE TypeOK'
  <2>1. CASE Goto("rollback") /\ UNCHANGED tree
    BY <1>4, <2>1 DEF ImportRoot, TypeOK, Goto, source, restore
  <2>2. CASE /\ "difference" \in DOMAIN archive.files
             /\ tree' = [tree EXCEPT ![target]["root"] = archive.files["difference"]]
             /\ Goto("import others")
    <3>1. archive.files["difference"] \in Versions
      BY <2>2, ContentsDef DEF TypeOK, Archives
    <3>2. [tree[target] EXCEPT !["root"] = archive.files["difference"]] \in Contents(Datasets)
      BY <1>a, <3>1, ReplacedTyped
    <3>3. tree' \in [Jails -> Contents(Datasets)]
      BY <2>2, <3>2 DEF TypeOK
    <3> QED
      BY <1>4, <2>2, <3>3 DEF ImportRoot, TypeOK, Goto, source, restore
  <2> QED
    BY <1>4, <2>1, <2>2 DEF ImportRoot
<1>5. ASSUME ImportOther PROVE TypeOK'
  <2>1. tree' \in [Jails -> Contents(Datasets)] /\ imported' \subseteq Datasets
    <3>1. CASE UNCHANGED <<tree, imported>>
      BY <3>1 DEF TypeOK
    <3>2. ASSUME NEW d \in Importable,
                 tree' = [tree EXCEPT ![target] = Over(Received(d), @)],
                 imported' = imported \union {d}
          PROVE  tree' \in [Jails -> Contents(Datasets)] /\ imported' \subseteq Datasets
      <4>1. Received(d) \in Contents(Datasets) /\ d \in Datasets
        BY ReceivedTyped DEF Importable, Datasets
      <4>2. Over(Received(d), tree[target]) \in Contents(Datasets)
        BY <1>a, <4>1, OverTyped
      <4> QED
        BY <3>2, <4>1, <4>2 DEF TypeOK
    <3> QED
      BY <1>5, <3>1, <3>2 DEF ImportOther
  <2>2. pc' \in {pc, "import config", "rollback"} /\ UNCHANGED <<source, target, fresh>>
    BY <1>5 DEF ImportOther, Goto
  <2> QED
    BY <2>1, <2>2 DEF TypeOK, source
<1>6. ASSUME RestoreRollback PROVE TypeOK'
  <2>1. UNCHANGED source
    BY <1>6 DEF RestoreRollback
  <2>2. CASE tree' = [tree EXCEPT ![target] = Nothing] /\ RestoreOver("idle")
    BY <2>1, <2>2, NothingTyped, RestoreOverTyped DEF TypeOK, source
  <2>3. ASSUME NEW kept \in SUBSET DOMAIN tree[target],
               tree' = [tree EXCEPT ![target] = [d \in kept |-> @[d]]],
               RestoreOver("stuck")
        PROVE  TypeOK'
    <3>1. [d \in kept |-> tree[target][d]] \in Contents(Datasets)
      BY <1>a, ContentsDef
    <3>2. tree' \in [Jails -> Contents(Datasets)]
      BY <2>3, <3>1 DEF TypeOK
    <3> QED
      BY <2>1, <2>3, <3>2, RestoreOverTyped DEF TypeOK, source
  <2> QED
    BY <1>6, <2>2, <2>3 DEF RestoreRollback
<1> QED
  BY <1>1, <1>2, <1>3, <1>4, <1>5, <1>6 DEF RestoreStep

\* Whatever the jails, the source and the number of versions: the contents of
\* the datasets, the archive and the steps of an operation keep their types.
THEOREM TypeCorrect == Spec => []TypeOK
<1>1. Init => TypeOK
  BY InitTyped
<1>2. TypeOK /\ [Next]_vars => TypeOK'
  <2> SUFFICES ASSUME TypeOK, [Next]_vars PROVE TypeOK'
    OBVIOUS
  <2>1. CASE UNCHANGED vars
    BY <2>1 DEF TypeOK, vars, source, restore, Exporting, Restoring, Ended
  <2>2. CASE Next
    BY <2>2, WriteTyped, DestroyTyped, ExportTyped, RestoreTyped DEF Next
  <2> QED
    BY <2>1, <2>2
<1> QED
  BY <1>1, <1>2, PTL DEF Spec

(***************************************************************************)
(* A failed restore.                                                       *)
(***************************************************************************)

\* Until a restore creates the jail, a jail that did not exist when it was
\* called does not exist: nobody else creates it meanwhile.
NotYetCreated ==
  pc \in {"extract", "read", "create"} /\ fresh => tree[target] = Nothing

\* Nobody but the restore creates its jail.
LEMMA NotYetCreatedKept ==
  ASSUME TypeOK, NotYetCreated, Next
  PROVE  NotYetCreated'
<1>1. ASSUME NEW d \in Datasets, Write(d) PROVE NotYetCreated'
  <2>1. /\ tree' = [tree EXCEPT ![Source][d] = version']
        /\ UNCHANGED <<pc, target, fresh>> /\ ~(Restoring /\ target = Source)
    BY <1>1 DEF Write, restore
  <2> QED
    BY <2>1 DEF NotYetCreated, Restoring, TypeOK
<1>2. ASSUME NEW j \in Jails, Destroy(j) PROVE NotYetCreated'
  BY <1>2 DEF Destroy, NotYetCreated, TypeOK, restore
<1>3. ASSUME ExportStep PROVE NotYetCreated'
  BY <1>3 DEF ExportStep, CallExport, TakeSnapshot, ExportConfig, ExportRoot,
              ExportOther, Bundle, ExportEnds, ExportOver, Goto, At, NotYetCreated
<1>4. ASSUME NEW j \in Jails, CallRestore(j) PROVE NotYetCreated'
  BY <1>4 DEF CallRestore, Exists, NotYetCreated
<1>5. ASSUME Extract \/ ReadConfig PROVE NotYetCreated'
  BY <1>5 DEF Extract, ReadConfig, At, Goto, RestoreOver, restore, NotYetCreated
<1>6. ASSUME \/ CreateJail \/ ImportRoot \/ ImportOther \/ ImportConfig \/ RestoreRollback
      PROVE  NotYetCreated'
  <2>1. pc' \notin {"extract", "read", "create"}
    BY <1>6 DEF CreateJail, CreateFails, ImportRoot, ImportOther, ImportConfig,
                RestoreRollback, At, Goto, RestoreOver
  <2> QED
    BY <2>1 DEF NotYetCreated
<1> QED
  BY <1>1, <1>2, <1>3, <1>4, <1>5, <1>6 DEF Next, RestoreStep

\* Whatever ran before and meanwhile: a restore that raises leaves nothing under
\* the name of a jail that it was to create, unless ZFS did not destroy it.
THEOREM RestoreUndone == Spec => FailedRestoreUndone
<1>1. Init => NotYetCreated
  BY DEF Init, NotYetCreated
<1>2. TypeOK /\ NotYetCreated /\ [Next]_vars => NotYetCreated'
  <2>1. CASE UNCHANGED vars
    BY <2>1 DEF NotYetCreated, vars, restore
  <2> QED
    BY <2>1, NotYetCreatedKept
<1>3. TypeOK /\ NotYetCreated /\ Next =>
        (Restoring /\ pc' = "idle" /\ ~At("import config") /\ fresh => tree'[target] = Nothing)
  <2> SUFFICES ASSUME TypeOK, NotYetCreated, Next, Restoring, pc' = "idle",
                      ~At("import config"), fresh
               PROVE  tree'[target] = Nothing
    OBVIOUS
  <2>1. RestoreStep
    BY DEF Next, Write, Destroy, ExportStep, CallExport, TakeSnapshot, ExportConfig,
           ExportRoot, ExportOther, Bundle, ExportEnds, At, Ended, Restoring
  <2>2. CASE Extract \/ ReadConfig \/ CreateJail
    <3>1. At("extract") \/ At("read") \/ At("create")
      BY <2>2 DEF Extract, ReadConfig, CreateJail
    <3>2. UNCHANGED tree
      BY <2>2 DEF Extract, ReadConfig, CreateJail, CreateFails, Goto
    <3> QED
      BY <3>1, <3>2 DEF At, NotYetCreated
  <2>3. CASE RestoreRollback
    BY <2>3 DEF RestoreRollback, RestoreOver, TypeOK
  <2> QED
    BY <2>1, <2>2, <2>3 DEF RestoreStep, CallRestore, ImportRoot, ImportOther,
                            ImportConfig, At, Goto, Ended, Restoring
<1> QED
  BY <1>1, <1>2, <1>3, TypeCorrect, PTL DEF Spec, FailedRestoreUndone

(***************************************************************************)
(* A restore from a complete archive.                                      *)
(***************************************************************************)
\* The child of a dataset comes with the dataset.
WithParents(f) == "nested" \in DOMAIN f => "data" \in DOMAIN f

\* The streams are those of the snapshot, and there is one of every dataset
\* that is neither in the stream of another nor in the difference.
Streams == Children \union {"nested"}
Faithful(a) ==
  /\ WithParents(a.taken)
  /\ \A d \in Streams \intersect DOMAIN a.files :
       d \in DOMAIN a.taken /\ a.files[d] = a.taken[d]
Complete(a) ==
  \A d \in DOMAIN a.taken :
    \/ d = "jail" \/ (d = "root" /\ ~a.standalone) \/ (d = "nested" /\ a.streams)
    \/ d \in DOMAIN a.files

ExportSound ==
  /\ \A j \in Jails : WithParents(tree[j])
  /\ Faithful(work) /\ ~work.whole
  /\ Faithful(archive) /\ (archive.whole => Complete(archive))
  /\ pc = "snapshot" => DOMAIN work.files = {}
  /\ pc \in {"config", "difference", "others", "bundle", "unlock"} =>
       snapshot \in {Nothing, work.taken}
  /\ pc \in {"bundle", "unlock"} => snapshot = Nothing \/ Complete(work)
  /\ pc \in {"difference", "others"} => work.tar \/ archive = work
  /\ pc = "unlock" => archive = work

\* What is restored so far is what the archive contains.
RestoreSound ==
  /\ pc \in {"extract", "read", "create", "import root"} => imported = {}
  /\ pc \in {"import others", "import config"} =>
       /\ imported \subseteq Importable
       /\ \A d \in imported : \A e \in DOMAIN Received(d) :
            e \in DOMAIN tree[target] /\ tree[target][e] = Received(d)[e]
  /\ pc = "import config" => Importable \subseteq imported

\* What is written under the name of a stream is from the snapshot.
LEMMA WrittenFaithful ==
  ASSUME TypeOK, Faithful(work), NEW name, NEW v, Written(name, v),
         name \in Streams => name \in DOMAIN work.taken /\ v = work.taken[name]
  PROVE  /\ Faithful(work') /\ work'.whole = work.whole /\ work'.taken = work.taken
         /\ work'.tar = work.tar
<1>1. /\ work'.files = Over(One(name, v), work.files)
      /\ work'.taken = work.taken /\ work'.whole = work.whole /\ work'.tar = work.tar
  BY DEF Written, TypeOK, Archives
<1>2. /\ DOMAIN work'.files = {name} \union DOMAIN work.files
      /\ \A d \in DOMAIN work'.files :
           work'.files[d] = IF d = name THEN v ELSE work.files[d]
  BY <1>1 DEF Over, One
<1> QED
  BY <1>1, <1>2 DEF Faithful

\* There is nothing in no archive.
LEMMA NoArchiveFaithful == Faithful(NoArchive) /\ ~NoArchive.whole
BY DEF NoArchive, Nothing, Faithful, WithParents

LEMMA InitSound == Init => ExportSound /\ RestoreSound
<1> SUFFICES ASSUME Init PROVE ExportSound /\ RestoreSound
  OBVIOUS
<1>1. \A j \in Jails : WithParents(tree[j])
  BY DEF Init, WithParents, Datasets, Children, Nothing
<1> QED
  BY <1>1, NoArchiveFaithful DEF Init, ExportSound, RestoreSound

\* The steps that change the jails but not what is exported.
LEMMA WriteSound ==
  ASSUME TypeOK, ExportSound, RestoreSound, NEW d \in Datasets, Write(d)
  PROVE  ExportSound' /\ RestoreSound'
<1>1. /\ d \in DOMAIN tree[Source] /\ tree' = [tree EXCEPT ![Source][d] = version']
      /\ ~(Restoring /\ target = Source)
      /\ UNCHANGED <<snapshot, work, archive, pc, target, imported>>
  BY DEF Write, restore
<1>2. \A j \in Jails : WithParents(tree'[j])
  BY <1>1 DEF ExportSound, WithParents, TypeOK
<1>3. Restoring => tree'[target] = tree[target]
  BY <1>1 DEF TypeOK
<1>4. ExportSound'
  BY <1>1, <1>2 DEF ExportSound
<1>5. Importable' = Importable /\ \A e : Received(e)' = Received(e)
  BY <1>1 DEF Importable, Received
<1> QED
  BY <1>1, <1>3, <1>4, <1>5 DEF RestoreSound, Restoring

LEMMA DestroySound ==
  ASSUME TypeOK, ExportSound, RestoreSound, NEW j \in Jails, Destroy(j)
  PROVE  ExportSound' /\ RestoreSound'
<1>1. /\ tree' = [tree EXCEPT ![j] = Nothing] /\ ~(Restoring /\ target = j)
      /\ snapshot' \in {snapshot, Nothing}
      /\ UNCHANGED <<work, archive, pc, target, imported>>
  BY DEF Destroy, restore
<1>2. \A i \in Jails : WithParents(tree'[i])
  BY <1>1 DEF ExportSound, WithParents, TypeOK, Nothing
<1>3. Restoring => tree'[target] = tree[target]
  BY <1>1 DEF TypeOK
<1>4. ExportSound'
  BY <1>1, <1>2 DEF ExportSound
<1>5. Importable' = Importable /\ \A e : Received(e)' = Received(e)
  BY <1>1 DEF Importable, Received
<1> QED
  BY <1>1, <1>3, <1>4, <1>5 DEF RestoreSound, Restoring

\* An export does not run together with a restore.
LEMMA ExportOverSound ==
  ASSUME TypeOK, ExportSound, ExportOver, UNCHANGED tree,
         Faithful(archive'), archive'.whole => Complete(archive')
  PROVE  ExportSound'
BY NoArchiveFaithful DEF ExportOver, ExportSound

\* The files stay those of the snapshot, and the archive what was written.
LEMMA ExportStepSound ==
  ASSUME TypeOK, ExportSound, ExportStep
  PROVE  ExportSound' /\ RestoreSound'
<1>1. UNCHANGED tree /\ ~Restoring'
  BY DEF ExportStep, CallExport, TakeSnapshot, ExportConfig, ExportRoot, ExportOther,
         Bundle, ExportEnds, ExportOver, Goto, At, Restoring
<1>2. RestoreSound'
  BY <1>1 DEF RestoreSound, Restoring
<1>3. ASSUME NEW standalone \in BOOLEAN, NEW recursive \in BOOLEAN, NEW tar \in BOOLEAN,
             CallExport(standalone, recursive, tar)
      PROVE  ExportSound'
  <2>1. /\ pc' = "snapshot"
        /\ work'.files = Nothing /\ work'.taken = Nothing /\ ~work'.whole
        /\ archive' \in {archive, work'}
    BY <1>3 DEF CallExport, NoArchive, Goto
  <2>2. Faithful(work')
    BY <2>1 DEF Faithful, WithParents, Nothing
  <2> QED
    BY <1>1, <2>1, <2>2 DEF ExportSound, Nothing
<1>4. ASSUME TakeSnapshot PROVE ExportSound'
  <2>1. CASE ExportOver
    BY <1>1, <1>4, <2>1, ExportOverSound DEF TakeSnapshot, ExportSound
  <2>2. CASE /\ Goto("config") /\ snapshot' = tree[Source]
             /\ work' = [work EXCEPT !.taken = tree[Source]]
    <3>1. work'.taken = tree[Source] /\ work'.files = work.files /\ work'.whole = work.whole
      BY <2>2 DEF TypeOK, Archives
    <3>2. DOMAIN work.files = {} /\ WithParents(tree[Source])
      BY <1>4, SourceAssumption DEF TakeSnapshot, At, ExportSound
    <3>3. Faithful(work')
      BY <3>1, <3>2 DEF Faithful
    <3>4. pc' = "config" /\ UNCHANGED archive
      BY <1>4, <2>2 DEF TakeSnapshot, Goto
    <3> QED
      BY <1>1, <2>2, <3>1, <3>3, <3>4 DEF ExportSound
  <2> QED
    BY <1>4, <2>1, <2>2 DEF TakeSnapshot
<1>5. ASSUME NEW name, NEW v, Written(name, v),
             name \in Streams => name \in DOMAIN work.taken /\ v = work.taken[name],
             pc \in {"config", "difference", "others"},
             pc' \in {"difference", "others"}
      PROVE  ExportSound'
  <2>1. /\ Faithful(work') /\ ~work'.whole /\ work'.taken = work.taken
        /\ work'.tar = work.tar
    BY <1>5, WrittenFaithful DEF ExportSound
  <2>2. archive' = (IF work.tar THEN archive ELSE work') /\ UNCHANGED snapshot
    BY <1>5 DEF Written
  <2> QED
    BY <1>1, <1>5, <2>1, <2>2 DEF ExportSound
<1>6. ASSUME ExportOver /\ UNCHANGED archive PROVE ExportSound'
  BY <1>1, <1>6, ExportOverSound DEF ExportSound
<1>7. ASSUME ExportConfig PROVE ExportSound'
  BY <1>5, <1>6, <1>7 DEF ExportConfig, Goto, At, Streams, Children
<1>8. ASSUME ExportRoot PROVE ExportSound'
  BY <1>5, <1>6, <1>8 DEF ExportRoot, Goto, At, Streams, Children
<1>9. ASSUME ExportOther PROVE ExportSound'
  <2>1. CASE /\ \E d \in Exported \ DOMAIN work.files : Written(d, Stream(d))
             /\ UNCHANGED pc
    <3>1. PICK d \in Exported : Written(d, Stream(d))
      BY <2>1
    <3>2. d \in DOMAIN snapshot /\ Stream(d) = snapshot[d]
      BY DEF Exported, Stream
    <3>3. snapshot = work.taken
      BY <1>9, <3>2 DEF ExportOther, At, ExportSound, Nothing
    <3> QED
      BY <1>5, <1>9, <2>1, <3>1, <3>2, <3>3 DEF ExportOther, At
  <2>2. CASE /\ Exported \subseteq DOMAIN work.files
             /\ Goto(IF work.tar THEN "bundle" ELSE "unlock")
             /\ UNCHANGED <<snapshot, work, archive>>
    <3>1. snapshot = Nothing \/ Complete(work)
      BY <1>9, <2>2 DEF ExportOther, At, ExportSound, Exported, Complete
    <3> QED
      BY <1>1, <1>9, <2>2, <3>1 DEF ExportOther, At, Goto, ExportSound
  <2> QED
    BY <1>6, <1>9, <2>1, <2>2 DEF ExportOther
<1>10. ASSUME Bundle PROVE ExportSound'
  <2>1. CASE archive' = work /\ Goto("unlock") /\ UNCHANGED <<snapshot, work>>
    BY <1>1, <1>10, <2>1 DEF Bundle, At, Goto, ExportSound
  <2>2. CASE archive' = [work EXCEPT !.broken = TRUE] /\ ExportOver
    <3>1. /\ archive'.files = work.files /\ archive'.taken = work.taken
          /\ archive'.whole = work.whole
      BY <2>2 DEF TypeOK, Archives
    <3>2. Faithful(archive') /\ ~archive'.whole
      BY <3>1 DEF ExportSound, Faithful
    <3> QED
      BY <1>1, <2>2, <3>2, ExportOverSound
  <2> QED
    BY <1>10, <2>1, <2>2 DEF Bundle
<1>11. ASSUME ExportEnds PROVE ExportSound'
  <2>1. CASE snapshot # Nothing /\ archive' = [archive EXCEPT !.whole = TRUE]
    <3>1. /\ archive'.files = archive.files /\ archive'.taken = archive.taken
          /\ archive'.standalone = archive.standalone /\ archive'.streams = archive.streams
      BY <2>1 DEF TypeOK, Archives
    <3>2. Faithful(archive) /\ Complete(archive)
      BY <1>11, <2>1 DEF ExportEnds, At, ExportSound
    <3>3. Faithful(archive') /\ Complete(archive')
      BY <3>1, <3>2 DEF Faithful, Complete
    <3> QED
      BY <1>1, <1>11, <3>3, ExportOverSound DEF ExportEnds
  <2> QED
    BY <1>6, <1>11, <2>1 DEF ExportEnds
<1> QED
  BY <1>2, <1>3, <1>4, <1>7, <1>8, <1>9, <1>10, <1>11 DEF ExportStep

\* A restore does not run together with an export.
LEMMA RestoreKeepsExport ==
  ASSUME TypeOK, ExportSound, RestoreStep, \A j \in Jails : WithParents(tree'[j])
  PROVE  ExportSound'
<1>1. UNCHANGED source /\ ~Exporting'
  BY DEF RestoreStep, CallRestore, Extract, ReadConfig, CreateJail, CreateFails, ImportRoot,
         ImportOther, ImportConfig, RestoreRollback, RestoreOver, Goto, At, Exporting
<1> QED
  BY <1>1 DEF ExportSound, source, Exporting

\* What was imported stays as it is in the archive until the restore is over.
LEMMA RestoreStepSound ==
  ASSUME TypeOK, ExportSound, RestoreSound, RestoreStep
  PROVE  ExportSound' /\ RestoreSound'
<1>a. \A j \in Jails : WithParents(tree[j])
  BY DEF ExportSound
<1>b. tree \in [Jails -> Contents(Datasets)] /\ target \in Jails
  BY DEF TypeOK
<1>1. ASSUME NEW j \in Jails, CallRestore(j) PROVE RestoreSound' /\ UNCHANGED tree
  BY <1>1 DEF CallRestore, Goto, RestoreSound
<1>2. ASSUME Extract \/ ReadConfig \/ ImportConfig PROVE RestoreSound' /\ UNCHANGED tree
  BY <1>2 DEF Extract, ReadConfig, ImportConfig, At, Goto, RestoreOver, restore, RestoreSound
<1>3. ASSUME CreateJail
      PROVE  RestoreSound' /\ \A j \in Jails : WithParents(tree'[j])
  <2>1. imported' = {} /\ pc' # "import config"
    BY <1>3 DEF CreateJail, CreateFails, At, Goto, restore, RestoreSound
  <2>2. \/ UNCHANGED tree
        \/ tree' = [tree EXCEPT ![target] = One("jail", 0)]
        \/ tree' = [tree EXCEPT ![target] =
              [d \in {"jail"} \union (IF FromRelease THEN {"root"} ELSE {}) |-> 0]]
    BY <1>3 DEF CreateJail
  <2>3. /\ WithParents(One("jail", 0))
        /\ WithParents([d \in {"jail"} \union (IF FromRelease THEN {"root"} ELSE {}) |-> 0])
    BY DEF WithParents, One
  <2>4. \A j \in Jails : WithParents(tree'[j])
    BY <1>a, <1>b, <2>2, <2>3
  <2> QED
    BY <2>1, <2>4 DEF RestoreSound
<1>4. ASSUME ImportRoot
      PROVE  RestoreSound' /\ \A j \in Jails : WithParents(tree'[j])
  <2>1. imported' = {} /\ pc' # "import config"
    BY <1>4 DEF ImportRoot, At, Goto, restore, RestoreSound
  <2>2. \A j \in Jails : DOMAIN tree'[j] = DOMAIN tree[j]
    BY <1>4, <1>b DEF ImportRoot
  <2>3. \A j \in Jails : WithParents(tree'[j])
    BY <1>a, <2>2 DEF WithParents
  <2> QED
    BY <2>1, <2>3 DEF RestoreSound
<1>5. ASSUME ImportOther
      PROVE  RestoreSound' /\ \A j \in Jails : WithParents(tree'[j])
  <2>1. UNCHANGED <<source, target>> /\ pc = "import others"
    BY <1>5 DEF ImportOther, At
  <2>2. Importable' = Importable /\ \A e : Received(e)' = Received(e)
    BY <2>1 DEF Importable, Received, source
  <2>3. CASE UNCHANGED <<tree, imported>>
    BY <1>5, <1>a, <2>1, <2>2, <2>3 DEF ImportOther, Goto, RestoreSound
  <2>4. ASSUME NEW d \in Importable \ imported,
               tree' = [tree EXCEPT ![target] = Over(Received(d), @)],
               imported' = imported \union {d}, UNCHANGED pc
        PROVE  RestoreSound' /\ \A j \in Jails : WithParents(tree'[j])
    <3>1. /\ tree'[target] = Over(Received(d), tree[target])
          /\ \A j \in Jails : j # target => tree'[j] = tree[j]
      BY <1>b, <2>4
    <3>2. /\ DOMAIN tree'[target] = DOMAIN Received(d) \union DOMAIN tree[target]
          /\ \A e \in DOMAIN tree'[target] : tree'[target][e] =
                IF e \in DOMAIN Received(d) THEN Received(d)[e] ELSE tree[target][e]
      BY <3>1 DEF Over
    <3>3. \A c, e \in Importable : c # e => DOMAIN Received(c) \intersect DOMAIN Received(e) = {}
      BY DEF Importable, Children, Received, Below
    <3>4. WithParents(Received(d))
      BY DEF Importable, Children, Received, Below, WithParents
    <3>5. \A j \in Jails : WithParents(tree'[j])
      BY <1>a, <1>b, <3>1, <3>2, <3>4 DEF WithParents
    <3>6. imported \subseteq Importable
      BY <2>1 DEF RestoreSound
    <3>7. ASSUME NEW c \in imported, NEW e \in DOMAIN Received(c)
          PROVE  e \in DOMAIN tree'[target] /\ tree'[target][e] = Received(c)[e]
      BY <2>1, <3>2, <3>3, <3>6, <3>7 DEF RestoreSound
    <3>8. \A e \in DOMAIN Received(d) :
            e \in DOMAIN tree'[target] /\ tree'[target][e] = Received(d)[e]
      BY <3>2
    <3>9. \A c \in imported' : \A e \in DOMAIN Received(c)' :
            e \in DOMAIN tree'[target] /\ tree'[target][e] = Received(c)'[e]
      BY <2>2, <2>4, <3>7, <3>8
    <3>10. imported' \subseteq Importable' /\ pc' = "import others" /\ target' = target
      BY <2>1, <2>2, <2>4, <3>6
    <3> QED
      BY <3>5, <3>9, <3>10 DEF RestoreSound
  <2> QED
    BY <1>5, <2>3, <2>4 DEF ImportOther
<1>6. ASSUME RestoreRollback
      PROVE  RestoreSound' /\ \A j \in Jails : WithParents(tree'[j])
  <2>1. pc' \in {"idle", "stuck"}
    BY <1>6 DEF RestoreRollback, RestoreOver
  <2>2. \E f : tree' = [tree EXCEPT ![target] = f] /\ WithParents(f)
    BY <1>6 DEF RestoreRollback, WithParents, Nothing
  <2>3. \A j \in Jails : WithParents(tree'[j])
    BY <1>a, <1>b, <2>2
  <2> QED
    BY <2>1, <2>3 DEF RestoreSound
<1> QED
  BY <1>a, <1>1, <1>2, <1>3, <1>4, <1>5, <1>6, RestoreKeepsExport DEF RestoreStep

\* The inductive invariant: what the export has written is faithful to its
\* snapshot, and what the restore has imported to the archive.
THEOREM SoundTheorem == Spec => [](TypeOK /\ ExportSound /\ RestoreSound)
<1>1. Init => ExportSound /\ RestoreSound
  BY InitSound
<1>2. TypeOK /\ ExportSound /\ RestoreSound /\ [Next]_vars => ExportSound' /\ RestoreSound'
  <2> SUFFICES ASSUME TypeOK, ExportSound, RestoreSound, [Next]_vars
               PROVE  ExportSound' /\ RestoreSound'
    OBVIOUS
  <2>1. CASE UNCHANGED vars
    <3>1. /\ UNCHANGED <<tree, snapshot, work, archive, pc, target, imported>>
          /\ Importable' = Importable /\ \A e : Received(e)' = Received(e)
      BY <2>1 DEF vars, source, restore, Importable, Received
    <3> QED
      BY <3>1 DEF ExportSound, RestoreSound
  <2>2. CASE Next
    BY <2>2, WriteSound, DestroySound, ExportStepSound, RestoreStepSound DEF Next
  <2> QED
    BY <2>1, <2>2
<1> QED
  BY <1>1, <1>2, TypeCorrect, PTL DEF Spec

\* Whatever the source wrote meanwhile and whatever ran before: what a restore
\* takes from the streams of a complete archive is the snapshot, and all of it.
THEOREM SnapshotRestored == Spec => RestoredSnapshot
<1>1. ASSUME TypeOK, ExportSound, RestoreSound, At("import config"), archive.whole,
             NEW d \in DOMAIN archive.taken
      PROVE  \/ d = "jail" \/ (d = "root" /\ ~archive.standalone)
             \/ (d = "nested" /\ ~archive.streams)
             \/ d \in DOMAIN tree[target] /\ tree[target][d] = archive.taken[d]
  <2>1. Faithful(archive) /\ Complete(archive)
    BY <1>1 DEF ExportSound
  <2>2. Importable \subseteq imported
    BY <1>1 DEF RestoreSound, At
  <2>3. \A c \in Importable : \A e \in DOMAIN Received(c) :
          e \in DOMAIN tree[target] /\ tree[target][e] = Received(c)[e]
    BY <1>1, <2>2 DEF RestoreSound, At
  <2>4. d \in Datasets
    BY <1>1, ContentsDef DEF TypeOK, Archives
  <2>5. CASE d \in Children /\ ~(d = "root" /\ ~archive.standalone)
    <3>1. d \in Importable /\ archive.files[d] = archive.taken[d]
      BY <1>1, <2>1, <2>5 DEF Complete, Faithful, Streams, Importable, Children
    <3>2. d \in DOMAIN Received(d) /\ Received(d)[d] = archive.files[d]
      BY DEF Received
    <3> QED
      BY <2>3, <3>1, <3>2
  <2>6. CASE d = "nested" /\ archive.streams
    <3>1. "data" \in Importable
      BY <1>1, <2>1, <2>6 DEF Complete, Faithful, WithParents, Importable, Children
    <3>2. d \in DOMAIN Received("data") /\ Received("data")[d] = archive.taken[d]
      BY <1>1, <2>6 DEF Received, Below
    <3> QED
      BY <2>3, <3>1, <3>2
  <2> QED
    BY <2>4, <2>5, <2>6 DEF Datasets, Children
<1>2. TypeOK /\ ExportSound /\ RestoreSound /\ Next =>
        (At("import config") /\ pc' = "idle" /\ archive.whole =>
           \A d \in DOMAIN archive.taken :
             \/ d = "jail" \/ (d = "root" /\ ~archive.standalone)
             \/ (d = "nested" /\ ~archive.streams)
             \/ d \in DOMAIN tree[target] /\ tree[target][d] = archive.taken[d])
  BY <1>1
<1> QED
  BY <1>2, SoundTheorem, PTL DEF Spec, RestoredSnapshot

=============================================================================
