--------------------------- MODULE ResourceUpdater ---------------------------
(***************************************************************************)
(* Updates of releases and jails (libioc/ResourceUpdater.py), and the      *)
(* specification of the release with its jails and updates.                *)
(*                                                                         *)
(* The updater fetches what freebsd-update or hbsd-update offer into a     *)
(* dataset next to the root of the release, and applies it in a temporary  *)
(* jail on the root of the release or of a jail.  The dataset is taken a   *)
(* snapshot of before and rolled back after, for others to apply the same  *)
(* update.  Every step may fail, and the process may die between any two.  *)
(***************************************************************************)
EXTENDS ReleaseStorage

VARIABLES
  published,    \* the patch level that the distribution publishes
  updates,      \* the updates dataset
  saved         \* the snapshot of it that the latest apply() took

updater == <<updates, saved>>
vars == <<storage, jails, op, history, published, updater>>

\* The update that is ready to be installed, 0 for none, and the revision that
\* hbsd-update says is the latest.
Updates == [ready : Levels, latest : Levels]
NoUpdates == [ready |-> 0, latest |-> 0]

TypeOK ==
  /\ StorageTypeOK
  /\ published \in Levels
  /\ updates \in Updates
  /\ saved \in Updates

Init ==
  /\ StorageInit
  /\ published = 0 /\ updates = NoUpdates
  /\ saved = NoUpdates

----------------------------------------------------------------------------
(***************************************************************************)
(* fetch() of the updater.                                                 *)
(***************************************************************************)

\* An error of libioc only means that no update is applied, another one ends
\* the fetch() of the release.
FetchFails == Fetching(FALSE) \/ Over

\* On HardenedBSD the latest revision is downloaded with the script.
PullLatestNext == updates' = [updates EXCEPT !.latest = published + 1]  \* a mutant
PullLatest == updates' = [updates EXCEPT !.latest = IF hardened THEN published ELSE 0]

\* The script and its configuration are downloaded.  Nothing is fetched if the
\* latest revision has a snapshot; an event that is skipped is not done, so that
\* the update is applied all the same.
Pull ==
  /\ At("pull")
  /\ \/ /\ PullLatest
        /\ IF hardened /\ published \in SnapNames THEN Fetching(op.update)
           ELSE Goto("get")
     \/ FetchFails /\ UNCHANGED updates
  /\ UNCHANGED <<storage, jails, history, published, saved>>

\* Fetching needs a link to p0 in /tmp.  If one is left over from a process that
\* died, _pre_fetch() raises; else the link goes whether or not the update is
\* fetched.
Get ==
  /\ At("get")
  /\ \/ updates' = [updates EXCEPT !.ready = published] /\ Fetching(op.update)
     \/ FetchFails /\ UNCHANGED updates
  /\ UNCHANGED <<storage, jails, history, published, saved>>

----------------------------------------------------------------------------
(***************************************************************************)
(* apply() on the release or on a jail.                                    *)
(***************************************************************************)

\* The files of jails are not modelled, but those of the release are.
RootBecomes(tree) == root' = IF op.on = "release" THEN tree ELSE root
apart == <<release, snaps, jails, history, published>>

CallUpdate(j) ==
  /\ Idle /\ Made(j) /\ dataset
  /\ op' = [NoOperation EXCEPT !.pc = "save", !.on = j]
  /\ UNCHANGED <<storage, jails, history, published, updater>>

Save ==
  /\ At("save")
  /\ \/ saved' = updates /\ Goto("prepare")
     \/ Over /\ UNCHANGED saved
  /\ UNCHANGED <<apart, root, updates>>

\* The updates dataset as it was; its snapshot is deleted.  A process that
\* strays leaves a snapshot of a name that nobody knows.
RolledBack == updates' = saved /\ saved' = NoUpdates
SnapshotStays == Strays /\ saved' = NoUpdates /\ UNCHANGED updates
Applying == At("execute") \/ At("tidy") \/ At("restore")
UsedUp == lost' = (lost \/ (Applying /\ updates # saved))

\* The updater of FreeBSD looks for the release below /tmp in the root.
Linked == [root EXCEPT !.link = ~hardened]

\* The temporary jail is made outside of any handler; then a link into the
\* root replaces the one that may be there, inside of the handler.
Prepare ==
  /\ At("prepare")
  /\ \/ /\ RootBecomes(Linked)
        /\ Goto("execute")
        /\ UNCHANGED <<updates, saved>>
     \/ SnapshotStays /\ UNCHANGED root
     \/ Over /\ RolledBack /\ UNCHANGED root
  /\ UNCHANGED <<apart>>

\* All files of the update are in place.  What was never extracted stays missing.
Installed == [root EXCEPT !.level = updates.ready, !.whole = TRUE]

\* fork_exec() of the updater.  It installs what is ready, which is gone then;
\* a failure may come before, in the midst of it or after.  On FreeBSD it is no
\* failure that there is nothing to install.
Execute ==
  /\ At("execute")
  /\ LET tidy(failed) == op' = [op EXCEPT !.pc = "tidy", !.failed = failed]
     IN \/ updates.ready = 0 /\ ~hardened /\ tidy(FALSE) /\ UNCHANGED <<root, updates>>
        \/ tidy(TRUE) /\ UNCHANGED <<root, updates>>
        \/ /\ updates.ready > 0
           /\ \E failed \in BOOLEAN : tidy(failed)
           /\ RootBecomes(Installed)
           /\ updates' = [updates EXCEPT !.ready = 0]
        \/ /\ updates.ready > 0
           /\ tidy(TRUE)
           /\ \E n \in {root.level, updates.ready} :
                RootBecomes([root EXCEPT !.level = n, !.whole = FALSE])
           /\ UNCHANGED updates
  /\ UNCHANGED <<apart, saved>>

\* The jail is stopped and the link deleted in any case, unless that fails.
\* When the event fails, the rollback step restores the updates.
Tidied == [root EXCEPT !.link = FALSE]
UpdateFailedGoesOn == Goto("restore") /\ UNCHANGED <<updates, saved>>  \* a mutant
UpdateFailedKeeps == Over /\ UNCHANGED <<updates, saved>>    \* a mutant: no rollback
UpdateFailed == Over /\ RolledBack

Tidy ==
  /\ At("tidy")
  /\ \/ /\ RootBecomes(Tidied)
        /\ IF op.failed THEN UpdateFailed
           ELSE Goto("restore") /\ UNCHANGED <<updates, saved>>
     \/ UpdateFailed /\ UNCHANGED root
  /\ UNCHANGED <<apart>>

\* Outside of the handler: what fails here leaves the snapshot.
Restore ==
  /\ At("restore")
  /\ \/ RolledBack /\ Goto("version") /\ UNCHANGED lost
     \/ SnapshotStays /\ UsedUp
  /\ UNCHANGED <<release, root, snaps, jails, premature, published>>

\* A release gets a snapshot that is named by patch_version: on FreeBSD what
\* the files say, on HardenedBSD the latest revision that was pulled.
PatchVersion == IF hardened THEN updates.latest ELSE root.level

Version ==
  /\ At("version")
  /\ IF op.on = "release"
     THEN \/ snaps' = Snapshotted(PatchVersion) /\ Few(snaps') /\ Goto("base")
          \/ Over /\ UNCHANGED snaps
     ELSE Over /\ UNCHANGED snaps
  /\ UNCHANGED <<release, root, jails, history, published, updater>>

----------------------------------------------------------------------------
(***************************************************************************)
(* Everything together.                                                    *)
(***************************************************************************)

\* The process dies; what it has done stays.
Crash ==
  /\ ~Idle
  /\ SnapshotStays /\ UsedUp
  /\ UNCHANGED <<storage, jails, premature, published>>

\* The distribution publishes a patch.
Publish ==
  /\ published < MaxPatch
  /\ published' = published + 1
  /\ UNCHANGED <<storage, jails, op, history, updater>>

\* The updates dataset is below that of the release, next to the root.
Destroy ==
  /\ DestroyRelease
  /\ updates' = NoUpdates \/ (dataset' /\ UNCHANGED updates)
  /\ UNCHANGED <<published, saved>>

Reboot ==
  /\ Mount
  /\ UNCHANGED <<published, updater>>

UpdaterStep ==
  \/ Pull \/ Get \/ Save \/ Prepare \/ Execute \/ Tidy \/ Restore \/ Version

ReleaseStep == Extract \/ Configure \/ CopyBase

JailStep ==
  \E j \in Jails :
    \/ Create(j) \/ Promote(j) \/ DestroyJail(j)
    \/ \E k \in Jails \ {j} : Clone(j, k) \/ Rename(j, k)

Next ==
  \/ UpdaterStep \/ Crash \/ Publish \/ Destroy \/ Reboot
  \/ \E j \in Jails : CallUpdate(j)
  \/ /\ \/ \E update, fetch \in BOOLEAN : CallFetch(update, fetch)
        \/ ReleaseStep \/ JailStep
     /\ UNCHANGED <<published, updater>>

Spec == Init /\ [][Next]_vars

----------------------------------------------------------------------------
(***************************************************************************)
(* Properties.                                                             *)
(***************************************************************************)

\* However updates fail, crash and are tried again: a version snapshot that an
\* update of FreeBSD took has its patch level in all files, and nothing that the
\* updater needed.  It has the files of all archives as well, wherever extractions
\* failed or crashed before, unless `fetched` (Release.py:563) took a root for a
\* release of which not all archives were extracted.
VersionWhole ==
  ~hardened /\ ~lost => \A n \in Versions \ {0} :
    LET t == Snap(n).tree
    IN t.level = n /\ t.whole /\ ~t.link /\ (t.complete \/ premature)

\* Unless a snapshot of the release went astray before, no jail is cloned from
\* a release in the midst of an update, though jails are created meanwhile.  Nor
\* is one cloned from a part of a release, unless that was taken for a fetched
\* one, for this or for an earlier jail or by a fetch().
JailsWhole ==
  [][\A j \in Jails :
       /\ ~lost /\ Absent(j) /\ jails'[j].from = "release"
       /\ \A k \in Jails \ {j} : jails'[k] = jails[k]
       => \E i \in DOMAIN snaps' :
            /\ snaps'[i].name = jails'[j].snap
            /\ snaps'[i].tree.whole /\ ~snaps'[i].tree.link
            /\ snaps'[i].tree.complete \/ premature']_vars

\* Whether an update that began to install succeeds or fails: the updates
\* dataset is as before in the end, for others to apply.
UpdatesKept ==
  [][Applying =>
       \/ op'.pc \in {"tidy", "restore", "strayed"}
       \/ updates' = saved]_vars
=============================================================================
