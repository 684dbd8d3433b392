--------------------------- MODULE ReleaseStorage ---------------------------
(***************************************************************************)
(* A release and the jails made from it, as ZFS datasets                   *)
(* (libioc/Release.py, libioc/ZFS.py, libioc/Storage and the parts of      *)
(* libioc/Jail.py that create, clone, rename, promote and destroy jails).  *)
(*                                                                         *)
(* fetch() extracts a release into its root dataset and takes snapshots of *)
(* it that are named by patch level.  The roots of jails are clones of     *)
(* these snapshots.  The operations on jails are called by other processes *)
(* while the release is fetched or updated; the updater itself is in the   *)
(* module ResourceUpdater.  Files are abstracted to their patch level,     *)
(* whether all of them have it, and whether all archives were extracted.   *)
(***************************************************************************)
EXTENDS Integers, Sequences, SequencesExt

CONSTANTS
  Jails,        \* the names of jails, which are also those of their snapshots
  MaxPatch,     \* bound: the latest patch level that is ever published
  MaxSnaps,     \* bound: the snapshots that the release has at a time
  NoJail,       \* the origin of a dataset that is not a clone
  Hardened      \* whether the distribution may be FreeBSD or HardenedBSD

ASSUME PatchAssumption == MaxPatch \in Nat \ {0} /\ MaxSnaps \in Nat
ASSUME JailAssumption == /\ NoJail \notin Jails /\ Jails \intersect Nat = {}
                        /\ "release" \notin Jails \union {NoJail}
ASSUME HardenedAssumption == Hardened \subseteq BOOLEAN

VARIABLES
  hardened,     \* the distribution is HardenedBSD
  dataset,      \* the dataset of the release exists
  extent,       \* how much of the release is extracted to its root dataset
  root,         \* the files in the root dataset
  mounted,      \* the root dataset is mounted
  snaps,        \* snapshots of the root, in the order they were taken
  parent,       \* the jail that the root of the release is a clone of
  jails,        \* the datasets of every jail and the origin of its root
  op,           \* the fetch or update that runs
  lost,         \* history: a version snapshot was renamed, moved or deleted, or a
                \* fetched update was used up or deleted
  premature     \* history: a release was taken for a fetched one before all of its
                \* archives were extracted

release == <<hardened, dataset, extent, mounted, parent>>
storage == <<release, root, snaps>>
history == <<lost, premature>>

Levels == 0 .. MaxPatch

\* A root "counts" as fetched when dev, var and etc are extracted.
Extents == {"no root", "nothing", "counts"}

\* A tree is complete when the last archive is extracted, and whole when no update
\* was installed in part.  The link is what an updater leaves in the root when it
\* is not cleaned up.
Trees == [level : Levels, complete : BOOLEAN, whole : BOOLEAN, link : BOOLEAN]
Pristine == [level |-> 0, complete |-> FALSE, whole |-> TRUE, link |-> FALSE]

\* Names of snapshots: the patch level n stands for p<n>.
Names == Levels \union Jails
Snapshots == [name : Names, tree : Trees]

\* The root of a jail has an origin, a snapshot of the release or of a jail.
\* The dataset of a jail may exist without a root.
Made(j) == jails[j].state = "made"
Absent(j) == jails[j].state = "absent"
JailRoots == [state : {"absent", "empty", "made"},
              from : {"release", NoJail} \union Jails, snap : Names]
NoRoot == [state |-> "absent", from |-> NoJail, snap |-> 0]

\* A process that dies, or fails where nothing is caught, has "strayed".
Steps == {"idle", "strayed", "extract", "configure", "pull", "get",
          "save", "prepare", "execute", "tidy", "restore", "version", "base"}
Operations == [pc : Steps, on : {"release"} \union Jails, update : BOOLEAN,
               fetch : BOOLEAN, failed : BOOLEAN]
NoOperation == [pc |-> "idle", on |-> "release", update |-> FALSE,
                fetch |-> FALSE, failed |-> FALSE]

StorageTypeOK ==
  /\ hardened \in BOOLEAN /\ dataset \in BOOLEAN /\ mounted \in BOOLEAN
  /\ extent \in Extents /\ root \in Trees
  /\ snaps \in Seq(Snapshots)
  /\ parent \in {NoJail} \union Jails
  /\ jails \in [Jails -> JailRoots]
  /\ op \in Operations
  /\ lost \in BOOLEAN /\ premature \in BOOLEAN

StorageInit ==
  /\ hardened \in Hardened
  /\ dataset = FALSE /\ mounted = FALSE
  /\ extent = "no root" /\ root = Pristine
  /\ snaps = <<>> /\ parent = NoJail
  /\ jails = [j \in Jails |-> NoRoot]
  /\ op = NoOperation
  /\ lost = FALSE /\ premature = FALSE

----------------------------------------------------------------------------
(***************************************************************************)
(* Snapshots.                                                              *)
(***************************************************************************)

SnapNames == {snaps[i].name : i \in DOMAIN snaps}
Snap(name) == snaps[CHOOSE i \in DOMAIN snaps : snaps[i].name = name]

Few(snapshots) == Len(snapshots) <= MaxSnaps

\* version_snapshots are those named p<n>, from which the highest is chosen.
Versions == SnapNames \intersect Levels
Latest == CHOOSE n \in Versions : \A k \in Versions : k <= n

\* A mutant: a snapshot of the name is taken again.
SnapshottedAnew(name) ==
  Append(SelectSeq(snaps, LAMBDA s : s.name # name), [name |-> name, tree |-> root])

\* snapshot() takes one of the root as it is, unless there is one of the name.
Snapshotted(name) ==
  IF name \in SnapNames THEN snaps
  ELSE Append(snaps, [name |-> name, tree |-> root])

\* latest_snapshot: without a version snapshot p0 is taken.
LatestName == IF Versions = {} THEN 0 ELSE Latest
WithLatest == IF Versions = {} THEN Snapshotted(0) ELSE snaps

\* fetched looks for dev, var and etc in the root, which must be mounted: those are
\* there as soon as the first archive is being extracted.
Fetched == dataset /\ extent = "counts"
TakenForFetched == premature' = (premature \/ ~root.complete)
Readable == extent = "no root" \/ mounted

\* Jails whose root is a clone of the snapshot, or of one of the jail.
Clones(name) ==
  {j \in Jails : Made(j) /\ jails[j].from = "release" /\ jails[j].snap = name}
CloneJails(j) == {k \in Jails : jails[k].from = j}

----------------------------------------------------------------------------
(***************************************************************************)
(* fetch() of a release.  The steps between configuration and the copy for *)
(* basejails are those of the updater.                                     *)
(***************************************************************************)

At(step) == op.pc = step
Idle == At("idle") \/ At("strayed")
Goto(step) == op' = [op EXCEPT !.pc = step]
Over == op' = NoOperation
Strays == op' = [NoOperation EXCEPT !.pc = "strayed"]

\* What follows when updates were fetched, were not, or are not asked for.
Fetching(update) ==
  op' = [NoOperation EXCEPT !.pc = IF update THEN "save" ELSE "base"]

\* The dataset of a release is created by create_resource(), which raises where
\* it is left over from an earlier attempt, and that of the root after it.
CreateDataset == ~dataset /\ dataset' = TRUE
CreateRoot == extent' = "nothing" /\ mounted' = TRUE

\* An archive or the list of hashes cannot be downloaded.
DownloadFails == Over

\* A release that is not fetched gets its datasets and archives first.
CallFetch(update, fetch) ==
  /\ Idle /\ Readable
  /\ LET call(step) == op' = [NoOperation EXCEPT !.pc = step, !.update = update,
                                                 !.fetch = fetch]
     IN \/ /\ Fetched
           /\ call("configure")
           /\ TakenForFetched
           /\ UNCHANGED <<dataset, extent, mounted>>
        \/ /\ CreateDataset
           /\ \/ CreateRoot /\ (call("extract") \/ DownloadFails)
              \/ Over /\ UNCHANGED <<extent, mounted>>
           /\ UNCHANGED premature
  /\ UNCHANGED <<hardened, root, snaps, parent, jails, lost>>

\* The hash of an archive is not the one in the list, it has an illegal member or
\* cannot be read.  What was extracted of this and earlier ones stays.
ArchiveRefused == Over /\ UNCHANGED <<extent, root>>

\* The archives base and, on FreeBSD, lib32, one after the other.
Extract ==
  /\ At("extract")
  /\ \/ extent = "nothing" /\ extent' = "counts" /\ UNCHANGED <<op, root>>
     \/ /\ extent = "counts" /\ root' = [root EXCEPT !.complete = TRUE]
        /\ Goto("configure") /\ UNCHANGED extent
     \/ ArchiveRefused
  /\ UNCHANGED <<hardened, dataset, mounted, snaps, parent, jails, history>>

\* Defaults are written to rc.conf, periodic.conf and sysctl.conf.
ConfigureFails == Over /\ UNCHANGED snaps

\* p0 is taken or used again, whether or not the release is new.
Configure ==
  /\ At("configure")
  /\ \/ /\ snaps' = Snapshotted(0) /\ Few(snaps')
        /\ IF op.fetch THEN Goto("pull") ELSE Fetching(op.update)
     \/ ConfigureFails
  /\ UNCHANGED <<release, root, jails, history>>

\* The root is copied for basejails of iocage_legacy, if the host asks for it,
\* and the assets are deleted.
CopyBase ==
  /\ At("base")
  /\ Over
  /\ UNCHANGED <<storage, jails, history>>

\* delete_dataset_recursive(): the root is unmounted and its snapshots go one
\* after the other, in the order of ZFS, until one has clones or another error ends
\* it.  What is left is as it was.
SnapsLeft ==
  {[i \in DOMAIN at |-> snaps[at[i]]] :
     at \in {f \in UNION {[1 .. n -> DOMAIN snaps] : n \in 0 .. Len(snaps)} :
               /\ \A i \in 2 .. Len(f) : f[i - 1] < f[i]
               /\ \A i \in DOMAIN snaps \ Range(f) : Clones(snaps[i].name) = {}}}

DeleteRoot ==
  /\ \A s \in SnapNames : Clones(s) = {}
  /\ extent' = "no root" /\ root' = Pristine
  /\ snaps' = <<>> /\ parent' = NoJail
  /\ lost' = FALSE /\ premature' = FALSE

RootStays ==
  /\ snaps' \in SnapsLeft
  /\ lost' = TRUE
  /\ UNCHANGED <<dataset, extent, root, parent, premature>>

DeleteDataset ==
  /\ mounted' = FALSE
  /\ \/ DeleteRoot /\ dataset' \in {FALSE, dataset}
     \/ RootStays

DestroyRelease ==
  /\ Idle /\ dataset
  /\ DeleteDataset
  /\ UNCHANGED <<hardened, jails, op>>

\* What a reboot does.
Mount ==
  /\ Idle /\ extent # "no root" /\ ~mounted
  /\ mounted' = TRUE
  /\ UNCHANGED <<hardened, dataset, extent, root, snaps, parent, jails, op, history>>

----------------------------------------------------------------------------
(***************************************************************************)
(* Operations on jails, at any time but while the jail is updated.         *)
(***************************************************************************)

Free(j) == op.on # j

\* The root of the jail is a clone of the latest snapshot.
CloneRelease(j) ==
  /\ snaps' = WithLatest
  /\ jails' = [jails EXCEPT ![j] =
       [state |-> "made", from |-> "release", snap |-> LatestName]]

\* The dataset of a jail is created first, and stays when the clone fails.
Skeleton(j) ==
  /\ snaps' \in {snaps, WithLatest}
  /\ jails' = [jails EXCEPT ![j].state = "empty"]

\* create_from_release()
Create(j) ==
  /\ Absent(j) /\ Fetched /\ mounted /\ Few(WithLatest)
  /\ CloneRelease(j) \/ Skeleton(j)
  /\ TakenForFetched
  /\ UNCHANGED <<release, root, op, lost>>

\* The snapshot that is cloned is deleted as far as ZFS can delete it.  The dataset
\* of the jail stays when the clone fails.
CloneJail(j, source) ==
  \/ jails' = [jails EXCEPT ![j] = [state |-> "made", from |-> source, snap |-> 0]]
  \/ jails' = [jails EXCEPT ![j].state = "empty"]

\* clone_from_jail(), and create_from_template() for the root alone.
Clone(j, source) ==
  /\ Absent(j) /\ Made(source)
  /\ CloneJail(j, source)
  /\ UNCHANGED <<storage, op, history>>

\* The jail and its snapshots have a new name.  The snapshot that is renamed is
\* the origin of the jail, wherever it is; where the name is taken or this fails,
\* the jail has its new name and the snapshot the old one.
SnapRenamed(old, new) ==
  [i \in DOMAIN snaps |-> IF snaps[i].name = old THEN [snaps[i] EXCEPT !.name = new]
                                                 ELSE snaps[i]]

RenamesOrigin(j, new) == jails[j].from = "release" /\ new \notin SnapNames

\* A jail after j and, if that is so, its origin are renamed.
Renamed(k, j, new, origin) ==
  IF jails[k].from = j THEN [jails[k] EXCEPT !.from = new]
  ELSE IF origin /\ k \in Clones(jails[j].snap)
       THEN [jails[k] EXCEPT !.snap = new] ELSE jails[k]

RenameDataset(j, new, origin) ==
  jails' = [k \in Jails |-> IF k = new THEN Renamed(j, j, new, origin)
                            ELSE IF k = j THEN NoRoot ELSE Renamed(k, j, new, origin)]

Rename(j, new) ==
  /\ Made(j) /\ Absent(new) /\ Free(j)
  /\ \/ /\ RenameDataset(j, new, FALSE)
        /\ UNCHANGED <<snaps, lost>>
     \/ /\ RenamesOrigin(j, new) /\ RenameDataset(j, new, TRUE)
        /\ snaps' = SnapRenamed(jails[j].snap, new)
        /\ lost' = (lost \/ jails[j].snap \in Levels)
  /\ parent' = IF parent = j THEN new ELSE parent
  /\ UNCHANGED <<hardened, dataset, extent, root, mounted, op, premature>>

\* promote() makes the origin a clone of the jail.  ZFS moves the snapshots up
\* to the one that was the origin to the jail.
PromotedOfRelease(j) ==
  LET n == CHOOSE i \in DOMAIN snaps : snaps[i].name = jails[j].snap
      moved == {snaps[i].name : i \in 1 .. n}
  IN /\ snaps' = SubSeq(snaps, n + 1, Len(snaps))
     /\ lost' = TRUE
     /\ parent' = j
     /\ jails' = [k \in Jails |->
          IF k = j THEN [jails[k] EXCEPT !.from = parent, !.snap = 0]
          ELSE IF \E s \in moved : k \in Clones(s)
               THEN [jails[k] EXCEPT !.from = j, !.snap = 0] ELSE jails[k]]

Promote(j) ==
  /\ Made(j) /\ Free(j)
  /\ \/ jails[j].from = "release" /\ PromotedOfRelease(j)
     \/ /\ jails[j].from \in Jails
        /\ LET source == jails[jails[j].from]
           IN jails' = [jails EXCEPT ![j] = [@ EXCEPT !.from = source.from,
                                                     !.snap = source.snap],
                                     ![jails[j].from] = [@ EXCEPT !.from = j,
                                                                  !.snap = 0]]
        /\ UNCHANGED <<snaps, lost, parent>>
  /\ UNCHANGED <<hardened, dataset, extent, root, mounted, op, premature>>

\* ZFS does not delete a snapshot that has clones: the jail stays.  Its root goes
\* first, and its dataset stays when that cannot be deleted.
DestroyJail(j) ==
  /\ ~Absent(j) /\ Free(j)
  /\ CloneJails(j) = {} /\ parent # j
  /\ \E state \in {"absent", "empty"} :
       jails' = [jails EXCEPT ![j] = [NoRoot EXCEPT !.state = state]]
  /\ UNCHANGED <<storage, op, history>>
=============================================================================
