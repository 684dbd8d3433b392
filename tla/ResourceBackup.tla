--------------------------- MODULE ResourceBackup ---------------------------
(***************************************************************************)
(* Export and restore of jails (libioc/ResourceBackup.py).                 *)
(*                                                                         *)
(* An export takes a snapshot of the source jail, writes its datasets as   *)
(* ZFS streams, or its root as a difference from the release, and bundles  *)
(* them unless the destination is a directory.  A restore creates a jail   *)
(* and imports the files it finds.  The source jail runs meanwhile and     *)
(* writes to its datasets; their contents are numbered versions.  Every    *)
(* step may fail.  Operations take turns, each by an object of its own.    *)
(***************************************************************************)
EXTENDS Integers

CONSTANTS
  Jails,        \* the jails a restore may be called for
  Source,       \* the jail that is exported
  MaxVersion    \* bound: versions of the contents of the source

ASSUME SourceAssumption == Source \in Jails
ASSUME VersionAssumption == MaxVersion \in Nat

VARIABLES
  tree,         \* contents of the datasets of each jail
  version,      \* the latest version written by the source
  hasRelease,   \* the source was created from a release
  snapshot,     \* contents of the datasets in the snapshot of the export
  work,         \* what the export has written
  archive,      \* what there is at the destination
  pc,           \* the next step of the export or restore
  target,       \* the jail that is restored
  imported,     \* the datasets that are restored so far
  fresh         \* history: the jail did not exist before the restore

source == <<version, hasRelease, snapshot, work, archive>>
restore == <<target, imported, fresh>>
vars == <<tree, source, pc, restore>>

Versions == 0 .. MaxVersion
Children == {"root", "data"}               \* of the dataset of the jail
Datasets == {"jail", "nested"} \union Children
Below(d) == IF d = "data" THEN {"nested"} ELSE {}
Files == {"config", "difference", "nested"} \union Children

\* Contents by name; the empty function stands for nothing at all.
Contents(S) == UNION {[T -> Versions] : T \in SUBSET S}
Nothing == [d \in {} |-> 0]
One(d, v) == [e \in {d} |-> v]
Over(f, g) ==
  [d \in DOMAIN f \union DOMAIN g |-> IF d \in DOMAIN f THEN f[d] ELSE g[d]]

\* The files of an archive and the options of its export; as history, whether
\* the export completed and the snapshot it was made from.
Archives == [there : BOOLEAN, files : Contents(Files), tar : BOOLEAN,
             broken : BOOLEAN, streams : BOOLEAN, standalone : BOOLEAN,
             whole : BOOLEAN, taken : Contents(Datasets)]
NoArchive == [there |-> FALSE, files |-> Nothing, tar |-> FALSE,
              broken |-> FALSE, streams |-> FALSE, standalone |-> FALSE,
              whole |-> FALSE, taken |-> Nothing]

Exporting ==
  pc \in {"snapshot", "config", "difference", "others", "bundle", "unlock"}
Restoring ==
  pc \in {"extract", "read", "create", "import root", "import others",
          "import config", "rollback"}

\* A backup object is used once: _work_dir is set and never reset.  Objects of
\* other JailGenerators take over when an operation has ended, in "stuck" if a
\* restore could not be undone.
Ended == pc \in {"idle", "stuck"}

TypeOK ==
  /\ tree \in [Jails -> Contents(Datasets)]
  /\ version \in Versions
  /\ hasRelease \in BOOLEAN
  /\ snapshot \in Contents(Datasets)
  /\ work \in Archives /\ archive \in Archives
  /\ Exporting \/ Restoring \/ Ended
  /\ target \in Jails /\ imported \subseteq Datasets /\ fresh \in BOOLEAN

Init ==
  /\ tree = [j \in Jails |-> IF j = Source THEN [d \in Datasets |-> 0] ELSE Nothing]
  /\ version = 0
  /\ hasRelease \in BOOLEAN
  /\ snapshot = Nothing /\ work = NoArchive /\ archive = NoArchive
  /\ pc = "idle"
  /\ target = Source /\ imported = {} /\ fresh = FALSE

Exists(j) == tree[j] # Nothing
At(step) == pc = step
Goto(step) == pc' = step

\* The snapshot may stay, but under a name that nobody knows.
ExportOver == pc' = "idle" /\ work' = NoArchive /\ snapshot' = Nothing
RestoreOver(end) ==
  pc' = end /\ target' = Source /\ imported' = {} /\ fresh' = FALSE

----------------------------------------------------------------------------
(***************************************************************************)
(* The jails.                                                              *)
(***************************************************************************)

\* The source jail runs and writes to one of its datasets.
Write(d) ==
  /\ d \in DOMAIN tree[Source]
  /\ version < MaxVersion
  /\ ~(Restoring /\ target = Source)
  /\ version' = version + 1
  /\ tree' = [tree EXCEPT ![Source][d] = version']
  /\ UNCHANGED <<hasRelease, snapshot, work, archive, pc, restore>>

\* A jail is destroyed, with its snapshots, but not while it is restored.
Destroy(j) ==
  /\ Exists(j) /\ ~(Restoring /\ target = j)
  /\ tree' = [tree EXCEPT ![j] = Nothing]
  /\ snapshot' = IF j = Source THEN Nothing ELSE snapshot
  /\ UNCHANGED <<version, hasRelease, work, archive, pc, restore>>

----------------------------------------------------------------------------
(***************************************************************************)
(* export().  No handler fails its event when a step raises: the snapshot  *)
(* stays, and so does what was written to a destination directory.         *)
(***************************************************************************)

\* The default is a standalone export, and without a release the difference.
IsStandalone(standalone) == standalone # FALSE /\ hasRelease

\* A directory must not exist and is made at once, a file is replaced when it
\* is bundled.
CallExport(standalone, recursive, tar) ==
  /\ Ended /\ Exists(Source)
  /\ tar \/ ~archive.there
  /\ Goto("snapshot")
  /\ work' = [NoArchive EXCEPT !.there = TRUE, !.tar = tar, !.streams = recursive,
                               !.standalone = IsStandalone(standalone)]
  /\ archive' = IF tar THEN archive ELSE work'
  /\ UNCHANGED <<tree, version, hasRelease, snapshot, restore>>

TakeSnapshot ==
  /\ At("snapshot")
  /\ \/ /\ Exists(Source)
        /\ Goto("config")
        /\ snapshot' = tree[Source]
        /\ work' = [work EXCEPT !.taken = tree[Source]]
     \/ ExportOver
  /\ UNCHANGED <<tree, version, hasRelease, archive, restore>>

\* Files are written to a temporary directory, or straight to the destination.
Written(name, v) ==
  /\ work' = [work EXCEPT !.files = Over(One(name, v), @)]
  /\ archive' = IF work.tar THEN archive ELSE work'
  /\ UNCHANGED snapshot

\* Configuration and fstab; then the datasets are listed.
ExportConfig ==
  /\ At("config")
  /\ \/ /\ Written("config", 0)
        /\ Goto(IF work.standalone THEN "others" ELSE "difference")
     \/ ExportOver /\ UNCHANGED archive
  /\ UNCHANGED <<tree, version, hasRelease, restore>>

\* rsync compares the live root with the snapshot of the release.
ExportRoot ==
  /\ At("difference")
  /\ \/ /\ hasRelease /\ "root" \in DOMAIN tree[Source]
        /\ Written("difference", tree[Source]["root"])
        /\ Goto("others")
     \/ ExportOver /\ UNCHANGED archive
  /\ UNCHANGED <<tree, version, hasRelease, restore>>

\* The children, whose streams contain what is below them, or all datasets.
Exported ==
  DOMAIN snapshot \ ({"jail"} \union (IF work.streams THEN {"nested"} ELSE {})
                             \union (IF work.standalone THEN {} ELSE {"root"}))

\* A mutant: the stream is made from the file system instead of its snapshot.
LiveStream(d) == tree[Source][d]
Stream(d) == snapshot[d]

ExportOther ==
  /\ At("others")
  /\ \/ /\ "root" \in DOMAIN tree[Source]
        /\ \E d \in Exported \ DOMAIN work.files : Written(d, Stream(d))
        /\ UNCHANGED pc
     \/ /\ Exists(Source) /\ Exported \subseteq DOMAIN work.files
        /\ Goto(IF work.tar THEN "bundle" ELSE "unlock")
        /\ UNCHANGED <<snapshot, work, archive>>
     \/ ExportOver /\ UNCHANGED archive
  /\ UNCHANGED <<tree, version, hasRelease, restore>>

Bundle ==
  /\ At("bundle")
  /\ \/ archive' = work /\ Goto("unlock") /\ UNCHANGED <<snapshot, work>>
     \/ archive' = [work EXCEPT !.broken = TRUE] /\ ExportOver
  /\ UNCHANGED <<tree, version, hasRelease, restore>>

\* The snapshot is deleted; the temporary directory goes.
ExportEnds ==
  /\ At("unlock")
  /\ \/ snapshot # Nothing /\ archive' = [archive EXCEPT !.whole = TRUE]
     \/ UNCHANGED archive
  /\ ExportOver
  /\ UNCHANGED <<tree, version, hasRelease, restore>>

----------------------------------------------------------------------------
(***************************************************************************)
(* restore().                                                              *)
(***************************************************************************)
CallRestore(j) ==
  /\ Ended /\ archive.there
  /\ Goto(IF archive.tar THEN "extract" ELSE "read")
  /\ target' = j /\ imported' = {} /\ fresh' = ~Exists(j)
  /\ UNCHANGED <<tree, source>>

\* Failures of these two steps are not handled either.  A missing configuration
\* is no failure.
Extract ==
  /\ At("extract")
  /\ \/ ~archive.broken /\ Goto("read") /\ UNCHANGED restore
     \/ RestoreOver("idle")
  /\ UNCHANGED <<tree, source>>

ReadConfig ==
  /\ At("read")
  /\ \/ Goto("create") /\ UNCHANGED restore
     \/ RestoreOver("idle")
  /\ UNCHANGED <<tree, source>>

\* A mutant: the jail is created before the handler is entered.
CreateFailsUnhandled == RestoreOver("idle")
CreateFails == Goto("rollback") /\ UNCHANGED restore

\* A standalone archive is one with a stream of the root.  The jail is created
\* empty, or with the root of the release that the configuration names.
Standalone == "root" \in DOMAIN archive.files
FromRelease == hasRelease /\ "config" \in DOMAIN archive.files /\ ~Standalone
CreateJail ==
  /\ At("create")
  /\ \/ /\ ~Exists(target)
        /\ tree' = [tree EXCEPT ![target] =
             [d \in {"jail"} \union (IF FromRelease THEN {"root"} ELSE {}) |-> 0]]
        /\ Goto(IF Standalone THEN "import others" ELSE "import root")
        /\ UNCHANGED restore
     \/ /\ tree' \in {tree} \union
             (IF Exists(target) THEN {} ELSE {[tree EXCEPT ![target] = One("jail", 0)]})
        /\ CreateFails
  /\ UNCHANGED source

ImportRoot ==
  /\ At("import root")
  /\ \/ /\ "difference" \in DOMAIN archive.files /\ "root" \in DOMAIN tree[target]
        /\ tree' = [tree EXCEPT ![target]["root"] = archive.files["difference"]]
        /\ Goto("import others")
     \/ Goto("rollback") /\ UNCHANGED tree
  /\ UNCHANGED <<source, restore>>

\* A mutant: whatever is there is taken for a stream.
ImportableAnything == DOMAIN archive.files

\* _list_importable_datasets() looks at directories by their relative names,
\* so that it does not find what is in them.
Importable == Children \intersect DOMAIN archive.files

\* A stream of the kind REPLICATE contains the datasets below.
Received(d) ==
  [e \in {d} \union (IF archive.streams
                     THEN Below(d) \intersect DOMAIN archive.taken ELSE {}) |->
     IF e = d THEN archive.files[d] ELSE archive.taken[e]]

ImportOther ==
  /\ At("import others")
  /\ \/ /\ \E d \in Importable \ imported :
             /\ tree' = [tree EXCEPT ![target] = Over(Received(d), @)]
             /\ imported' = imported \union {d}
        /\ UNCHANGED pc
     \/ /\ Importable \subseteq imported
        /\ Goto("import config")
        /\ UNCHANGED <<tree, imported>>
     \/ Goto("rollback") /\ UNCHANGED <<tree, imported>>
  /\ UNCHANGED <<source, target, fresh>>

ImportConfig ==
  /\ At("import config")
  /\ RestoreOver("idle") \/ (Goto("rollback") /\ UNCHANGED restore)
  /\ UNCHANGED <<tree, source>>

\* _destroy_failed_import() destroys the dataset under the name of the jail
\* and its snapshots; what ZFS does not destroy is left.
RestoreRollback ==
  /\ At("rollback")
  /\ \/ tree' = [tree EXCEPT ![target] = Nothing] /\ RestoreOver("idle")
     \/ /\ \E kept \in SUBSET DOMAIN tree[target] :
             /\ "jail" \in kept /\ ("nested" \in kept => "data" \in kept)
             /\ tree' = [tree EXCEPT ![target] = [d \in kept |-> @[d]]]
        /\ RestoreOver("stuck")
  /\ UNCHANGED source

----------------------------------------------------------------------------
ExportStep ==
  \/ \E standalone, recursive, tar \in BOOLEAN :
       CallExport(standalone, recursive, tar)
  \/ TakeSnapshot \/ ExportConfig \/ ExportRoot \/ ExportOther \/ Bundle
  \/ ExportEnds

RestoreStep ==
  \/ \E j \in Jails : CallRestore(j)
  \/ Extract \/ ReadConfig \/ CreateJail \/ ImportRoot \/ ImportOther
  \/ ImportConfig \/ RestoreRollback

Next ==
  \/ \E d \in Datasets \ {"jail"} : Write(d)
  \/ \E j \in Jails : Destroy(j)
  \/ ExportStep \/ RestoreStep

Spec == Init /\ [][Next]_vars

----------------------------------------------------------------------------
(***************************************************************************)
(* Properties.                                                             *)
(***************************************************************************)

\* Whatever the running source wrote and whoever exported, restored or
\* destroyed jails before: what is restored from the streams of a complete
\* archive is what the datasets contained at one moment, that of its snapshot,
\* and all of it.  Only the difference of the root is from another moment.
RestoredSnapshot ==
  [][At("import config") /\ pc' = "idle" /\ archive.whole =>
       \A d \in DOMAIN archive.taken :
         \/ d = "jail" \/ (d = "root" /\ ~archive.standalone)
         \/ (d = "nested" /\ ~archive.streams)
         \/ d \in DOMAIN tree[target] /\ tree[target][d] = archive.taken[d]]_vars

\* A restore that raises leaves no part of the jail it was to create, unless
\* ZFS did not destroy what the restore had created.
FailedRestoreUndone ==
  [][Restoring /\ pc' = "idle" /\ ~At("import config") /\ fresh =>
       tree'[target] = Nothing]_vars
=============================================================================
