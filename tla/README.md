# libioc in TLA+

libioc manages FreeBSD jails: a Python library whose operations are generators
that yield events while they drive ZFS, `mount`, `jail_set`, `ifconfig`, `rctl`
and the files of the host. Nothing is locked. Between two steps of an operation
the consumer, another Python object for the same jail, or another process may
run, and every host command may fail. This directory holds TLA+ models of the
parts whose correctness depends on that, the TLC runs that check them on small
instances, and TLAPS proofs of what matters most.

| modules | models | checked by | proved in |
| --- | --- | --- | --- |
| `JailService` | what the operations of a jail promise to their callers | (refined by `JailLifecycle`) | `JailLifecycle_proofs` |
| `JailLifecycle` | create, start, fork_exec, stop, restart, destroy of one jail | `lifecycle_vnet`, `lifecycle_shared`, `lifecycle_race` | `JailLifecycle_proofs` |
| `JailDepends` | the recursive start of the jails a jail depends on | `depends_acyclic`, `depends_circular` | `JailDepends_proofs` |
| `IocEvents` | events of a scope, their count and their rollbacks | `events` | `IocEvents_proofs` |
| `DevfsRules` | devfs rulesets in memory, in the file and in the kernel | `devfs` | `DevfsRules_proofs` |
| `ResourceBackup` | export and restore of jails | `backup` | `ResourceBackup_proofs` |
| `ReleaseStorage` | the datasets and snapshots of a release and of the jails made from it | `releases` | `ResourceUpdater_proofs` |
| `ResourceUpdater` | updates of a release and of jails, on top of `ReleaseStorage` | `releases` | `ResourceUpdater_proofs` |
| `VnetNetwork` | epairs, bridges and ipfw rules of a vnet jail | `network` | `VnetNetwork_proofs` |
| `JailConfig` | the configuration of a jail and its three stored forms | `resources` | `Resources_proofs` |
| `JailFstab` | the fstab of a jail in memory, in the file and as mounts | `resources`, `fstab_rename` | `Resources_proofs` |
| `PoolActivation` | the choice of the pool that holds everything | `resources` | `Resources_proofs` |

`MC<module>.tla` only gives the constants of `<module>` their values; `<run>.cfg`
is the configuration of the run of that name. `MCResources` does so for three
modules that share no state: each behaviour of it is one of the part that
`part` names, so that the three are checked in one run. `PROJECT.json` maps every
definition to the lines of the source it stands for and lists runs, hazards,
theorems, findings and the components that are not modelled. Operators that a
comment calls a mutant are plausible mistakes; they are used by no
specification and show that a property notices them.

## Inventory

For each component: its state; its operations and partners; what is hard; what
makes it correct.

**Jail lifecycle** (`Jail.py`). State: the memoized jid (`__jid`), the
configuration in memory, and on the host the datasets, the kernel's jail, the
stack of mounts, epairs or aliases, rctl rules. Operations: create, start,
fork_exec, stop, restart, destroy, rename, clone, exec. It calls storage, fstab,
network, limits, devfs rules and reports through events. Hard: some twenty host
commands per operation, each of which may fail halfway; the rollback that is run
for some failures only; a jid that is memoized by one object and changed by
another; two consumers at once; removal of a jail that is dying. Correct if
services run in a completely prepared jail only, a teardown leaves nothing
behind, a loser of a race does not harm the winner, and operations end.

**Dependant jails** (`Jail.py`, `Config/Jail/Properties/Depends.py`). State: the
list of jails seen, the jails each nested start has started. A start calls the
start of every dependant first, and its rollback stops them. Hard: joins and
cycles of the graph, failures in the middle of the recursion, other consumers
that start the same jails. Correct if dependants run before their dependers, a
rollback stops all it has started and nothing else, and the recursion ends.

**Events** (`events.py`). State: pending, done, error and reverted flags of an
event, its rollback steps and child events, `PENDING_COUNT` and history of a
scope. Everything that takes time uses it. Hard: rollbacks are generators which
a consumer may drop, which may raise, and during which other events fail.
Correct if the count is the number of pending events and every step is undone
once, in reverse order.

**devfs rulesets** (`DevfsRules.py`, `Host.py`). State: rulesets and their
indexes in the memory of a Host object, `/etc/devfs.rules`, the rules loaded in
the kernel. A start looks up, or adds, the ruleset of its jail. Hard: the file
is read once and rewritten as a whole, by several processes. Correct if the file
stays readable, keeps the rules of the administrator, and the number a jail is
given is loaded with the rules it needs.

**Backup and restore** (`ResourceBackup.py`). State: the work directory that is
also the lock, the snapshot, the archive, the datasets of the jail. Hard: the
jail runs and writes meanwhile; every step may fail; the rollback of a restore
destroys datasets. Correct if what is restored is one moment of the source and a
failed restore leaves no part of a jail.

**Storage backends** (`Storage/`, `ZFS.py`). State: the datasets of a jail and
the snapshots they are clones of. Clones of a release (standalone), read-only
mounts of its directories (NullFS) or clones of its base datasets (ZFS).
Operations: setup, apply, teardown, clone, rename, promote. Hard: a clone and
its origin keep each other alive, a rename goes through several datasets one
after the other and reports a failure as an event only, a snapshot is shared by
jails. Correct if a jail is made from something complete and nobody's origin
goes away.

**fstab** (`Config/Jail/File/Fstab.py`). State: lines in memory, the file, the
mounts. A running jail mounts a line that is added and unmounts one that is
deleted; start and stop do it for all. Hard: a file that users edit and several
objects rewrite, destinations that are relative to a dataset whose name
changes, lines that hide base directories, paths whose text is read otherwise.
Correct if nothing is mounted twice and the file reads back as it was written,
as far as its text can.

**Network, interfaces and firewall** (`Network.py`, `NetworkInterface.py`,
`BridgeInterface.py`, `Firewall.py`). State: interfaces, memberships of
bridges, ipfw rules, all of the host and named by nic and jid. Epairs, a second
bridge and rules for secure vnet. Hard: some ten commands for each nic, a
teardown that goes by names and by the present configuration. Correct if a
complete start connects every nic, packets never pass before the rules that
deny, and a complete stop leaves nothing.

**Resource limits** (`Config/Jail/Properties/ResourceLimit.py`). Values with
actions and units, the rctl rules of a jail.

**Releases** (`Release.py`, `Releases.py`, `Distribution.py`). State: the dataset
of a release, how much of it is extracted, its snapshots by patch level. Fetch,
extract, configure, snapshot, destroy. Hard: a fetch that is interrupted and
tried again; what counts as fetched; which snapshot a new jail gets. Correct if
a version snapshot is what its name says.

**Updates** (`ResourceUpdater.py`). State: a dataset of fetched updates, a
snapshot of it, files put into the root to be updated. Hard: what is restored
when, and in which order; a process that dies half-way; jails that are created
meanwhile. Correct if a failed update leaves no version behind and the updates
stay for others to apply.

**Root datasets and pools** (`Datasets.py`, `Resource.py`). State: a property of
every pool, the sources a process has found. Hard: activation writes to every
pool in turn. Correct if at most one pool is active, at every moment.

**Configuration** (`Config/`). State: the stored text, the data of a process,
user defaults. Nested keys, special properties whose setters change others,
storage as JSON, UCL or ZFS properties. Hard: conversions between user input,
values and text; the order in which properties are read. Correct if what is
saved can be read and means the same.

**Packages** (`Pkg.py`): mirrors packages for a release, mounts them into a jail
and runs pkg in it. **Files in a jail** (rc.conf, sysctl.conf, periodic.conf),
**Provisioning**, **Shared ZFS datasets**, **Listing and selection**
(`Filter.py`, `ListableResource.py`, `ResourceSelector.py`), **Jail parameters
and helpers**, **Infrastructure** (errors, logger, types, prompts, tar
extraction): small state, mostly sequential, see the end of this file.

How they interact: a consumer calls a method of `JailGenerator`, iterates over
the events, and thereby executes its steps. Objects share nothing but the host:
two `JailGenerator`s of one jail know each other only through the kernel's table
of jails, the mounts and the datasets; two `Host`s only through files. An
updater starts a jail of its own on the root it updates and shares the release
with every jail that is created from it.

## The modules and the code

### JailLifecycle

One action per step of the generators, in the order of the code; each has the
outcome in which the host command succeeds and the one in which it raises, with
what the handler then does. `op[o]` is the running generator of object `o`:
`pc` the next step, `api` the method the consumer called, `via` the routine that
runs the step (`"up"` for `start()` itself, `"stop"` for `stop()`, also inside
`restart()` and `destroy()`, `"rollback"` for the `_stop_jails` rollback step),
`jid` its local variable. `memo[o]` is `__jid`, `cfg[o]` is `config["vnet"]` of
the object. The rest is the host; a mountpoint is the number of file systems
stacked on it, because devfs and fdescfs are mounted without looking.
`Call` contains the methods, `Start` the steps of `start()` and `fork_exec()`,
`Stop` the steps of `stop()` and of the teardown that `start()` writes out for a
single command; `DestructionFailed` is an exception in the loop that waits for
the kernel, `Reap` the kernel.

Assumed: rctl is enabled, the jail has addresses, `mount_devfs` and
`mount_fdescfs` are on, base jails use NullFS, `jail_remove` of an existing jail
succeeds, the hostid matches. Left out: soft restarts, resolver, `jail_zfs` and
the autoconfiguration of IPv6; rename, clone and promote are in `ReleaseStorage`.

`OverrideConfig` is what `fork_exec(dict(vnet=...))` does to the configuration
of its object. The runs have no overrides (`NoOverride`), the proofs allow any
except for `NetworkReleased`, see below.

### JailService

An abstract jail: it is stored or not (`present`), runs or not, and each caller
waits for an operation or has its outcome. A jail only comes up for who has
asked for it, only goes away in the course of a call, is only deleted by
`destroy()` and never while it runs; a call that returns normally has brought
about what it is for, and one that was rolled back has left no jail.
`ServiceProvided` in `JailLifecycle` is this specification with `present` the
datasets, `running` the jid in the kernel, and the caller read off the
generator: some forty steps of the code are eight of the abstract one, the
others stutter. With concurrent callers a call that returns promises nothing,
since another one may already have changed the jail; everything else holds.

### JailDepends

The stack of nested `start()` generators. A frame has the local variables
`started_jails` (`started`), `dependant_jails_started` (`collected`), the list
still to be looked at and the list a rollback has still to stop; `seen` is the
list shared by all. The steps of one start are condensed to those that differ in
what the recursion does when they fail: `Require`, `Prepare`, `Attach`,
`Network`, `Services`. An `IocException` is caught by the caller, which stops
what it has started; anything else leaves all of them. `OtherStart` is another
consumer. Priorities and filters are the order and content of `depends`.

### IocEvents

`pending`, `done`, `error`, `reverted`, `children`, `steps` are the attributes
of an event, `count` is `PENDING_COUNT`, `stack` the rollback generators that
run. `SetPending` is the property setter that all methods go through. `RunStep`
may succeed or raise, `Interrupt` is an exception or a dropped generator. The
one event with children is `Outer`, as in `rename()`. Assumed: the outer event
does not fail within another rollback, and an event that a parent has reverted
is not used any more; `rename()` behaves like that.

### DevfsRules

`view` and `index` are the list and the indexes of a Host object; an empty index
means that nothing was read yet. `DevfsRuleset` is the property of a jail up to
`save()`, `Save` writes or does not, `Restart` restarts the service, which loads
what the file says then. `SetRulesFile` reads again. Rulesets are identified by
number; names, comments and blank lines are left out, so that only the check of
numbers remains of the two checks for duplicates. `hide`, `unhide`, `bpf` are
lines of rulesets.

### ResourceBackup

A dataset's content is the number of the last write to it, the snapshot and the
archive are functions from names to such numbers. `pc` is the step of the one
operation under way; operations take turns, while the source writes and is
destroyed at any time outside of its own restore. What ZFS does when the
rollback of a restore fails to destroy everything is a choice (`"stuck"`).
Left out: exports of releases, paths in the fstab, the content of the
configuration.

### ReleaseStorage and ResourceUpdater

`ReleaseStorage` has one release: what `fetched` sees of it (`extent`), the files
of its root (`root`: patch level; whether the last archive was extracted,
`complete`; whether no update was installed in part, `whole`; the link that an
updater puts there), its snapshots in the order of their creation, and for each
jail the snapshot its root is a clone of. A name of a snapshot is a patch level
or a jail. `CallFetch`, `Extract`, `Configure`, `CopyBase` are the steps of
`fetch()`, each with its failures. `Extract` takes two steps: dev, var and etc,
which are all that `fetched` looks for, are there as soon as the first archive
is being extracted, while the release is complete after the last one; an
archive that is refused leaves what was extracted before. `Create`, `Clone`,
`Rename`, `Promote`, `DestroyJail` and `DestroyRelease` are single actions with
their partial outcomes (a dataset without its root, a dataset that was renamed
without its snapshot, a release of which only the oldest snapshots are gone),
called by other processes at any time: for them the interleaving with fetch and
update matters, not the one with each other. `SnapshottedAnew` and
`Snapshotted` are the two ways in which the code takes a snapshot whose name
exists already.

`ResourceUpdater` adds the updates dataset. `Pull` and `Get` are its `fetch()`;
`Save`, `Prepare`, `Execute`, `Tidy`, `Restore`, `Version` are `apply()`, in that
order, with what is undone on each way out. `Crash` ends the process between any
two of them, `Reboot` lets another one begin. `Hardened` chooses the
distribution, which decides where the patch level of the version snapshot comes
from. The temporary jail is a `fork_exec` of `JailLifecycle`; here it is the
outcome of `Execute`; what it installs does not bring the files of an archive
that was never extracted. Two variables record what the properties except:
`lost`, that a version snapshot was renamed, moved or deleted or that a crash
has used up the updates, and `premature`, that `fetch()` or the creation of a
jail took a root for a fetched release before it was complete.

Left out: the files of jails, hashes of assets (a differing hash is a failing
`Extract`), destroying the release while it is being fetched or updated, what a
failed deletion of a jail leaves of its snapshots.

### VnetNetwork

`op.plan` is the configuration as the running operation reads it: each nic has
no bridge property, no bridge, a bridge or a secure one, and a static or dynamic
address. `Setup` are the commands of `start()` in their order, nic by nic:
`Check`, `Pair`, `Join` or `SecurePair`, `AddRules`, `CreateNet`, `JoinSecure`,
`Move`, `ConfigureInside`, `ConfigureRoutes`; `Teardown` those of `stop()`. An
interface is its nic, jid and role; it exists (`ifs`), has its final name
(`named`), is in the jail (`inside`). Every command may fail, which ends the
operation without undoing anything. `CallStop` may find another configuration
than the one of the start, for one nic.

### JailConfig

Keys are properties whose getters or setters do something of their own; of
those that do, `jail_zfs_dataset`, `login_flags`, `host_hostuuid`,
`host_domainname` and the addresses, interfaces, resolvers and routers have no
key, and the id does not change. A value is a tagged text, number, truth value, list or none,
and a text is the sequence of its comma separated words. `Set*` and `Get` are the
special properties, `Stringify` and `ToText` the conversions that the stored
form goes through, `Reads` all ways in which a stored form can be read (only
JSON has sorted keys). `BeginSave` truncates the file, `EndSave` or
`WriteProperty` fill it, `Exit` may come in between; `Edit` is an administrator.
Nested keys are flattened, as in `Data`; `unknown` stands for a key that is no
property, which reading with `skip_on_error` stores too. `Given` says what a
setter gets: texts, as on a command line, nothing, or, where a number is
expected, a number. A setter that raises changes nothing (`Accepts`).
`ConfigReadsBack` leaves out a dependency on a jail whose name reads as a truth
value (`on`, `1`): `map_output()` stores it as such (`helpers.py:452`).

### JailFstab

`fstabLines[o]` are the lines an object has in memory (`Unread` before it opened
the file), `mounts` is a bag, so that a mount on top of another one can be seen.
`Parsed` is a fold over the file that does what `parse_lines()` and `add_line()`
do: lines of older versions are dropped, destinations get the root of the jail
in front unless they are below its dataset, a destination that was seen is skipped.
Paths are sequences of `Directories`, `Names` the names that a jail is given one
after the other; `written` has the lines of the object that wrote the file as a
whole, or `Unwritten`.
The file is kept as the lines that its text is read as. `AsRead` is that
conversion, `str()` of a line followed by what `parse_lines()` splits: blanks are
escaped and restored, but a path with a `#` (`Hashed`) or a tab (`Tabbed`) makes
a line that has not six fields and is skipped (`Malformed`), and a comment that
is the mark of older versions (`auto`) makes one that is dropped. The mark is
looked for before the fields are counted, but after the `#` of a path.
`Stripped` is `rstrip()`: empty lines at the end are none. `Invalid` is a line
with six fields of which a path or a number is refused, at which reading ends.
A blank or a backslash at the end of a path has the effect of a tab.
The jail starts and stops in the steps `ApplyBase`, `MountFstab`, `AttachJail`,
`RemoveJail`, `UnmountFstab`, `TeardownBase`. `RenameJail` renames the dataset and
updates the paths, `SaveInterrupted` loses the rest of a file, `MountPkgDirectory`
is what `Pkg.py` does, `ReplaceByLink` is the jail itself. Left out: `insert()`
and item assignment, adding without mounting (all callers mount), the other four
fields of a line and the texts of comments, a path with a `#` whose tabs happen
to complete six fields, and the other separators of `splitlines()`, such as a
form feed, in paths, which break a line in two.

### PoolActivation

`poolActive` is the user property of each pool, `datasets` the object that a
process makes from arguments, rc.conf or that property. `ActivatePool` begins an
activation, `DeactivateOther` writes one pool at a time, `SetPoolActive`,
`SetMountpoint` finish it; `ActivationFails` and `EndProcess` end it anywhere.
Pools come and go with `StatusChanges`. One process activates at a time.

## What is checked

| run | question | bounds |
| --- | --- | --- |
| `lifecycle_vnet` | vnet NullFS basejail, two objects take turns, every step may fail: types, `ServicesPrepared`, `StacksAccounted`, `TeardownComplete`, `NetworkReleased`, and the refinement `ServiceProvided` | `MaxJid` 2 |
| `lifecycle_shared` | jail with aliases: the same for the other branches, and `OperationsEnd` under fairness | `MaxJid` 1 |
| `lifecycle_race` | two objects at the same time: `LoserLeavesJail` | `MaxJid` 1 |
| `depends_acyclic` | all acyclic graphs of four jails: `DependantsRun`, `NothingLeft`, `StopsFirst`, `StopsOwn`, `StartEnds` | depth 5 |
| `events` | three events: `PendingCounted`, `UndoneInReverse`, `NothingForgotten` | 3 steps, 2 child registrations |
| `devfs` | two processes, several user files: `FileReadable`, `UserRulesKept`, `RulesetLoaded` | 3 lines, 2 default rulesets |
| `backup` | `RestoredSnapshot`, `FailedRestoreUndone` | 2 jails, 4 datasets, one write |
| `releases` | fetch, update, crash and retry of a release of either distribution, next to jails: `VersionWhole`, `UpdatesKept`, `JailsWhole` | 2 jails, `MaxPatch` 1, `MaxSnaps` 2 |
| `network` | two nics of any kind over two starts: `Connected`, `Filtered`, `NothingStays` | `MaxJid` 2 |
| `resources` | `ConfigReadsBack`; `NotStacked` and `FstabReadsBack`; `OneActive` | 2 keys besides id and type, one change after the load; 2 objects, 2 lines, one rename; 3 pools |
| `depends_circular`, `fstab_rename` | each finds what a docstring says and the code does not do | as above |

Why the bounds suffice. A jid distinguishes the interfaces of one start from those
of the next, so two of them show what is left from an earlier life; an object
has at most one operation, and the hazards involve one object that acts and one
whose memo is stale. The proofs below remove the bounds for all safety
properties that hold. Four jails contain a diamond with a tail, the smallest
graph in which a join and a transitive dependant meet; the depth is not reached
without a cycle. Three events are one parent, its child and an unrelated one.
In `devfs` no bound is needed: the combinations of the lines are finite, and
therefore the rulesets that are ever created. One write between snapshot and
stream is what mixes two moments. In `releases` one published update tells what
was there before from what it brings, two snapshots are the first one and a
version; a jail that is updated or cloned from needs another one beside it.
Behaviours are followed until both exceptions have happened, `lost` and
`premature` (`Claimed`), after which only `UpdatesKept` is left, which depends on
neither the snapshots nor what was extracted. Two
nics are enough for what one does to the rules and bridges of the other. In the
configuration at most two properties affect each other (`release` and
`cloned_release`, `tag` and `tags`, `type` and `basejail`), and the inputs have a
value for every branch of a setter or conversion. Two fstab lines are a line and
the one that replaces or hides it; two objects, one that acts and one that has
read before. The fstab is checked in two parts: with two objects, a running jail
and lines whose text is read as it is (`AllPlain`), and with all lines, those
with a `#`, a tab or the mark among them, but one object at a time and the jail
stopped (`OneStopped`), since what is lost in the text depends on neither. Three pools are the target, one to be deactivated and one that is
not reached. The parts of `resources` count some 133 000, 242 000, 2 000 and
151 000 states, `releases` 1.1 million, `network` 4.5 million, `lifecycle_vnet`
525 000.

Deadlock checking is off where the system may stop: when the bounded jids, steps
and depth are used up, when a start has ended (`JailDepends`), when neither a
jail nor an archive is left (`ResourceBackup`), when no change or rename is left
(`resources`).

Fairness is used by `OperationsEnd` and `StartEnds` only. `WF(Step(o))` says
that a consumer exhausts the generator it has called, which is what every
consumer of the library does (`list(...)`, `for event in ...`) and what its
documentation asks for; calls themselves are not fair. `WF(Reap)` says that the
kernel eventually frees a removed jail, without which `__destroy_jail` busy-waits
for ever. Neither says that a command succeeds.

## What the runs found

Two runs end in a violation on purpose, each of a sentence of the code's own
documentation (`findings` in `PROJECT.json`):

* `depends_circular`: circular dependencies are not recognised, because
  `JailGenerator.__eq__` is never true of two generators.
* `fstab_rename`: `rename()` updates the fstab after the dataset has its new
  name. Destinations below the old mountpoint are then taken as paths inside the
  jail and get the new root in front, before `replace_path()` looks for the old
  prefix (`Fstab.py:681`, `Jail.py:1321`).

What the properties except, because the code behaves otherwise there:

* `stop(force=True)` by an object that memoized no jid removes the jail and
  leaves its epairs (`Jail.py:1065`); `NetworkReleased` excepts forced stops.
* An override of `fork_exec()` outlives the call, although it is called
  temporary (`Jail.py:889`, `:903`): the next stop of the object goes by it.
* A process that saves its rulesets removes those that another one has added
  since (`DevfsRules.py:387`); `UserRulesKept` is about the administrator's.
* A restore for an existing jail destroys it (`ResourceBackup.py:213`);
  `FailedRestoreUndone` is about jails that were absent.
* Three directories make a release count as fetched (`Release.py:563`). When an
  archive after the first is refused or the process dies before it, no later
  `fetch()` extracts again: it configures what is there and takes p0 of it, an
  update makes a version snapshot that lacks the other archives, and jails are
  cloned from both. A jail that is created during the extraction takes such a p0
  too. `premature` records the moment; until then the snapshots and new jails
  have all files, after it `VersionWhole` and `JailsWhole` claim only that no
  update is half installed in them. A failed extraction alone does not set it.
* What an object accepts as a line of an fstab may not be read again
  (`Fstab.py:70`): only blanks are escaped, while `#` begins a comment
  (`Fstab.py:241`), tabs separate fields and a comment `iocage-auto` marks a line
  to drop. `Types.Path` allows all of them (`Types.py:33`), and a line is lost
  without an error, since what has not six fields is skipped (`Fstab.py:264`).
  `FstabReadsBack` names these lines, and that all others come back.
* Renaming a jail renames the version snapshot of the release it was cloned from
  (`Storage/__init__.py:230`), promoting one takes it away (`Release.py:463`): a
  p0 is then taken of whatever the release has become. `VersionWhole` and
  `JailsWhole` hold until that happens (`lost`).
* An update of a jail that crashes uses up the updates, and the next one finds
  nothing to do in a half updated root (`ResourceUpdater.py:422`); HardenedBSD
  names the version snapshot after a file that is fetched even if the update is
  not (`ResourceUpdater.py:597`).
* A start of the network that fails leaves epairs that nothing removes, a
  teardown ends at the first missing interface, and all go by the present
  configuration; `NothingStays` is about complete, unchanged lives.
* With UCL and ZFS the release depends on the order of the properties, and ZFS
  keeps properties that were deleted (`BaseConfig.py:492`, `ZFS.py:70`).

Seen while modelling, without a property: `force` does not ignore a failing
prestop or poststop hook (`Jail.py:1038`);
`destroy(force_stop=...)` computes a value that it overwrites
(`Jail.py:1191`, `:1203`); single commands run the created hook although the
docstring lists it for services only (`Jail.py:460`, `:615`); `next_number` is a
count, not the next highest number (`DevfsRules.py:301`); a second
`read_rules()` raises because indexes are not reset (`DevfsRules.py:311`);
`export(standalone=None)` is a full export exactly when there is a release,
the opposite of its docstring (`ResourceBackup.py:454`); streams of nested
datasets are written but not found by the import (`ResourceBackup.py:426`); a
difference of the root is taken from the live file system, not from the
snapshot; the export of a jail with an fstab line raises, since `backup:///` is
no absolute path (`ResourceBackup.py:583`, `Fstab.py:106`); path prefixes are
compared without a separator, so that jail `a` takes paths of jail `ab` for its
own (`Fstab.py:537`); a clone replaces the source's root by its own dataset,
without `/root` (`Jail.py:1424`); the dead `__replace_magic_path`
(`Fstab.py:278`, `:772`); a mount that fails loses the line it was to replace,
an unmount that fails leaves what is no longer listed (`Fstab.py:738`); the
numbers of ipfw rules are jid + 10000 whatever the jid (`Firewall.py:113`); all
rules of a jail go with the first nic (`Network.py:150`); dynamic addresses raise
in secure mode (`Network.py:406`); the second MAC address overflows at
`ffffffffffff` (`Network.py:462`); deleting `release` while `cloned_release` is
stored brings it back; `save()` truncates before it prints; a failed first
fetch leaves a dataset that makes the next one raise (`Release.py:732`); the
mountpoint of an activation is written to the main source, which may be the old
pool (`Datasets.py:384`); two activations at once can leave both pools active.

## What is proved

For every value of the constants, with the named assumptions of the modules
(finite sets where cardinalities occur, numbers that are natural):

* **Types and races** (`JailLifecycle_proofs`). `RaceInv` is inductive: types;
  in the steps after `attach` the local jid is that of the created jail and
  memoized; a teardown that is not a `stop()` belongs to an operation that has
  created a jail. `LoserLeavesJail` follows for any number of concurrent objects.
* **Operations that take turns** (same module). `ServicesPrepared` is not
  inductive: it needs, for every step of `start()`, what the steps before have
  established (`Prepared`), how high devfs and fdescfs are stacked at each step
  (`Accounted`, `Balanced`), what the steps of a teardown have removed
  (`TearingDown`), and that at most one object is active (`Alone`).
  `ExclusiveInv` is their conjunction. Each action is shown to keep the part of
  the acting object (`LocalInv`), from which the invariant for all objects
  follows, since the others rest. `ServicesPrepared`, `StacksAccounted` and
  `TeardownComplete` are consequences; `NetworkReleased` needs `NetworkInv` in
  addition, that the jid which names the epairs is known until they are removed.
* **The refinement** (same module). `ServiceProvided`: every step of
  `JailLifecycle` is a step of `JailService` or not visible, for any objects,
  exclusive or not, and any configuration. Besides `RaceInv` and `ExclusiveInv`
  it needs which method may have been called at each step (`CalledFor`): that no
  step of a stop is reached from a start except through its rollback, and that
  only `destroy()` deletes. `ServiceStep` goes through the actions: `Invisible`
  for most, `StartServes` and `StopServes` for those that create, remove or end.
* **Dependant jails** (`JailDepends_proofs`). For any number of jails, any
  dependency graph, circular ones included, and any recursion limit:
  `DependantsRun`, `NothingLeft`, `StopsFirst`, `StopsOwn` and the types, among
  them that the stack stays within the limit. `DependsInv` is about who stops
  which jail. What a generator will stop if its next command fails (`Held`) was
  attached by these generators and belongs to one of them only (`Owned`, `Once`);
  until something is stopped, what was collected runs and is held by nobody
  (`Collected`), and a dependant that is not running is yet to be looked at or is
  the one waited for (`Looked`). `Known` says that the start of `Root` has all of
  them in its list when its own rollback begins, which is what `NothingLeft`
  needs although each nested start only knows its own dependants; `First` that
  the jail itself heads that list. `StopsOwn` follows because a jail is removed
  only if it is held.
* **Events** (`IocEvents_proofs`). `PENDING_COUNT` is the number of pending
  events: one lemma about the setter, and the typing of the generator stack,
  without which a step could set the state of something that is no event.
  `UndoneInReverse` and `NothingForgotten` need to know where each rollback step
  is: with its event until the rollback takes it, then with the generator until
  it is run, and never in both (`Registered`, `Placed`); that an event is rolled
  back by one generator only, and the outer one never within another (`Alone`);
  what the generators on the stack have still to do (`Framed`); and that the
  outer event visits all its children before it takes its own steps (`Visited`).
  The numbers of steps grow with their registration, so that the reverse order
  is a descending sequence.
* **Rulesets** (`DevfsRules_proofs`). For any number of processes, rules and
  files: the file never repeats a number (`FileReadable`) and always begins with
  the rulesets of the administrator (`UserRulesKept`). The invariant is about
  memory: what a process has read and appended begins with the defaults and the
  original file, its numbers differ, and all of them are in its index.
  `RulesetLoaded` is not inductive, because a ruleset is granted from memory and
  loaded from the file. `LoadInv` relates the two as long as one process writes:
  what any of them has in memory is a beginning of the files, but for the
  ruleset it has just appended (`Older`, `Added`), the one that writes has all of
  them (`Newest`), and what was granted or is about to be is in the files. A
  second writer breaks this, and then the claim is not made. For the types it is
  shown that the recursive function in `Combine` exists and has its type: the
  smallest number of lines for which it would not is a contradiction.
* **Backups** (`ResourceBackup_proofs`). For any jails and any number of writes:
  `RestoredSnapshot` and `FailedRestoreUndone`. The second needs only that a jail
  that is to be created stays absent until the restore creates it. The first
  needs `ExportSound` and `RestoreSound`: every stream written so far is that of
  the snapshot, or the snapshot is gone with its jail and nothing more is
  written (`Faithful`); when everything is exported there is a stream for each
  dataset (`Complete`); a nested dataset has its parent, in whose stream it
  is; what was imported stays as the archive has it, since nobody destroys or
  writes the jail meanwhile.
* **Releases and updates** (`ResourceUpdater_proofs`). For any jails, patch
  levels, bounds of snapshots and either distribution: types, `VersionWhole`,
  `JailsWhole`, `UpdatesKept`. `UpdateInv` relates the step of the operation to
  root, updates and snapshots: every clone has its snapshot (`Origins`), an
  update is installed only after the updates dataset was saved (`Saved`), a root
  into which an update was installed in part has that update still ready
  (`Repairable`), nothing is installed before p0 was taken (`FirstTaken`), and an
  update that did not fail has left its patch level and no link (`Updated`).
  Together they show that what a version snapshot is taken of is whole
  (`SnapsClean`): a crash or failure leaves a half updated root only together
  with something to repair it, and then the next `apply()` does not end without
  doing so. These say so until a version snapshot went astray or a crash has used
  up the updates (`lost`). `Extracted` says that what is configured or updated
  has the files of all archives or was taken for fetched before it had
  (`premature`), and `SnapsClean` the same of what a version snapshot was taken
  of; a failed extraction without that is no exception.
  `JailsWhole` is a property of steps: what a new jail is cloned from is either
  such a snapshot or a p0 that is taken of a root which nothing was installed in.
* **Networks** (`VnetNetwork_proofs`). For any nics, bridges and number of
  starts: types, `Connected`, `Filtered`, `NothingStays`. `VnetInv` has what each
  command of a nic has established (`NicReady`) and that the nics before it are
  connected (`NicsUp`); that the outer end of the second epair is a member of the
  bridge only if the rules are loaded (`Guarded`); that nothing carries a jid
  that is yet to come (`Known`); and, as long as nothing failed and nothing was
  reconfigured, that each interface and rule of the jail belongs to a nic that
  was set up, or is yet to be torn down by the step under way (`Accounted`).
* **Pools** (`Resources_proofs`). For any set of pools: types, including that an
  object with sources has a main one, and `OneActive`. The invariant adds that,
  while an activation is under way, every pool that is marked active is the
  target or among those still to be written (`OthersPending`); pools that are not
  online are among them, which is why one that comes back later cannot be a
  second active one.
* **Mounts** (same module). `NotStacked` for any lines, in the file and in the
  memory of any objects: the bag of mounts is a function to 1 (`Flat`), which
  every action keeps because it unmounts, or looks, before it mounts. What
  `parse_lines()` computes does not matter for it.

* **fstab** (same module). For any paths, names, files and number of objects,
  and whichever names of directories have a `#` or a tab: types and
  `FstabReadsBack`. `FstabInv` says that what an object has in memory is tidy
  (`TidyLines`): comments and entries, each destination below the dataset of the
  present name, none twice; that what was written is so as well, without
  placeholders; and that the file is its text. Parsing the text of tidy lines
  gives those of them whose text is read as what it was, without the ones that
  mount on a base directory, and at most one placeholder between
  (`ParsedSame`): no line that is lost makes another one a duplicate. Parsing any
  other file makes it tidy (`ParsedTidy`), and every change of the lines keeps
  them tidy, that of the prefixes by a rename too. What is stripped are empty
  lines at the end, so that tidy lines stay tidy (`StrippedTidy`). The parser is
  a recursive function over the lines; that it exists, and what holds after each
  line, is shown by the smallest line for which it would not (`EveryPosition`),
  since the induction theorems of the library cannot be used. Assumed: that the
  names differ from one rename to the next (`NamesAssumption`; ZFS has no dataset
  twice), that destinations, sources and base directories are paths
  (`PathsAssumption`), and that callers add entries and files consist of lines as
  they are read (`LinesAssumption`).
* **Configuration** (same module). For any texts that are set, edited and taken as
  defaults, any bound on keys and changes, and every order in which the stored
  keys may come back: types and `ConfigReadsBack`. `ConfigInv` says in which
  forms a property is held (`Held`): every setter makes one of few forms of
  whatever it is given (`SetterHeld`), be it a consumer or the file it comes
  from; each form is stored as a text of which the setter makes the same form
  again (`KeyReadsBack`), or one that no getter tells apart (`Same`:
  `exec_timeout` holds `True` where it held `1`). `tag` and `tags` are never held
  together. It also says that the storage has the texts of what `save()` has
  written so far. A reading then restores one property after the other
  (`Restored`): the only setters that change another stored property are those of
  `cloned_release`, which comes before `release` where keys are sorted
  (`ReleasePositions`), and of `tags`. Assumed is `InputsAssumption`: what `Given`
  describes, and texts in the storage. Words and numbers are those that the
  model tells apart; 24 keys stand for all properties.
* **The types of all three** (`TypeCorrect`) are those of `MCResources`.

Only model-checked:

* `OperationsEnd` and `StartEnds`: liveness under fairness is outside of the
  prover.

Most of the inductive invariants were checked by TLC on the run of their
component before they were proved.

## Plan

Done: all modules above, `JailService` with its refinement, and the theorems
for every safety property that the runs check and find to hold.

Modules to extend: soft restarts and `update_jail_config` in `JailLifecycle`; the
base datasets of ZFS basejails in `ReleaseStorage`.

## What is not modelled, and why

* **Files in a jail**: read once, changed in memory and written as a whole by
  one process; the hazard is that of fstab and devfs rulesets.
* **Packages** but for their mount, **provisioning**: sequences of the operations
  above and of other programs, without state of their own.
* **Shared ZFS datasets**: two sequential loops over `zfs` commands.
* **Listing and selection**: matching of glob patterns against text; a model
  would repeat the program on strings.
* **Jail parameters** but for the conversions in `JailConfig`: calls of the kernel.
* Exception classes, logging, prompts, type declarations, build files, tests: no
  state that another part reads.
* Of modelled components: soft restarts, `exec`, `passthru` and `console` in a
  running jail; the evaluation of dependency filters; lists of available
  releases; the commands of the updaters; MAC address and IP address
  arithmetic; `host.conf`; lazily created datasets and several root datasets at
  once; exports of releases.

The content of files and the text of commands are abstracted everywhere; what
ZFS, the kernel and `service` do is modelled from how the code uses them and
marked external in the map.
