------------------------------ MODULE JailFstab ------------------------------
(***************************************************************************)
(* The fstab of a jail (Config/Jail/File/Fstab.py): a file in the dataset  *)
(* of the jail, the lines that each object of the library has read from it *)
(* and changed in memory, and the filesystems that are mounted in the      *)
(* jail.  Lines of a running jail are mounted when they are added and      *)
(* unmounted when they are deleted, all of them when the jail starts and   *)
(* stops; the base directories of a NullFS basejail are mounted below      *)
(* them.  A path is the sequence of its directories.                       *)
(***************************************************************************)
EXTENDS Integers, Sequences, SequencesExt, Bags

CONSTANTS
    Directories,  \* the names of directories
    Objects,      \* the JailGenerator objects that refer to the jail
    Requests,     \* the lines that callers add, with destinations relative to
                  \* the root
    Destinations, \* the destinations of package directories, and of links
    Sources,      \* the package directories outside of the jail
    BaseDirs,     \* base directories of a NullFS basejail, below its root
    Hashed,       \* the names of directories that contain a #
    Tabbed,       \* those that contain a tab
    Files,        \* the files that users and older versions left
    Names,        \* the names that the jail has, one after the other
    MaxLines,     \* bound on the lines of a file and of an object
    MaxRenames    \* bound on how often the jail is renamed

VARIABLES
    fstabFile,    \* the lines of the file, as they are read
    written,      \* history: the lines of the object that wrote it, as a whole and
                  \* under the present name, or Unwritten
    fstabLines,   \* object -> its _lines, or Unread
    mounts,       \* the bag of mountpoints, one copy per stacked mount
    fstabRunning, \* the jail runs
    prepared,     \* how far its start has come: "no", "base" or "all"
    linked,       \* the destinations that the jail replaced by a symbolic link
    renames       \* the number of times it was renamed, which gives its name

fstabVars == <<fstabFile, written, fstabLines, mounts, fstabRunning,
               prepared, linked, renames>>

(***************************************************************************)
(* Paths.                                                                  *)
(***************************************************************************)
Path == Seq(Directories)

ASSUME PathsAssumption ==
    /\ {"jails", "root"} \subseteq Directories
    /\ Destinations \cup Sources \cup BaseDirs \subseteq Path
    /\ Hashed \cup Tabbed \subseteq Directories

\* a new name differs from the present one, since ZFS has no dataset twice
ASSUME NamesAssumption ==
    /\ MaxRenames \in Nat
    /\ Names \in [0..MaxRenames -> Directories]
    /\ \A n \in 1..MaxRenames : Names[n - 1] # Names[n]

Mountpoint(n) == <<"jails", Names[n]>>
RootPath(n) == Mountpoint(n) \o <<"root">>

\* is_path_relative: the path is below the dataset of the jail
IsRelative(path, n) == IsPrefix(Mountpoint(n), path)

\* where a destination is mounted: it is taken as a path inside the jail
\* unless it is below its dataset already
Placed(path, n) == IF IsRelative(path, n) THEN path ELSE RootPath(n) \o path

ReplacedPrefix(path, old, new) ==
    IF IsPrefix(old, path) THEN new \o SubSeq(path, Len(old) + 1, Len(path))
    ELSE path

BaseMounts(n) == {RootPath(n) \o dir : dir \in BaseDirs}

(***************************************************************************)
(* Lines.                                                                  *)
(***************************************************************************)
\* an entry of an object; auto says that its comment is the mark of the lines
\* that older versions wrote for a basejail
Entry(source, destination, auto) ==
    [kind |-> "entry", source |-> source, destination |-> destination,
     auto |-> auto]
EntryLines ==
    [kind : {"entry"}, source : Path, destination : Path, auto : BOOLEAN]
IsEntry(line) == line.kind = "entry"

\* lines of a file that are no entries: one with that mark, one that is skipped,
\* and one with six fields of which a number or a path is refused
AutoEntry == [kind |-> "auto"]
Malformed == [kind |-> "malformed"]
Invalid == [kind |-> "invalid"]

\* comments and empty lines are kept; the placeholder is what is left of the
\* lines with the mark
Comment == [kind |-> "comment"]
Empty == [kind |-> "empty"]
Placeholder == [kind |-> "placeholder"]

Unread == <<[kind |-> "unread"]>>
Unwritten == <<[kind |-> "unwritten"]>>

\* What the text of a line is for those who read it.  Blanks in a path are
\* escaped and restored.  A # begins the comment, before which there are not
\* enough fields, and a tab makes too many of them; the mark is looked for first.
Uses(line, names) == Range(line.source \o line.destination) \cap names # {}
AsRead(line) ==
    IF ~IsEntry(line) THEN line
    ELSE IF Uses(line, Hashed) THEN Malformed
    ELSE IF line.auto THEN AutoEntry
    ELSE IF Uses(line, Tabbed) THEN Malformed ELSE line

AllAsRead(lines) == [i \in DOMAIN lines |-> AsRead(lines[i])]

\* reading begins with rstrip(): empty lines at the end are none
Stripped(lines) ==
    SubSeq(lines, 1, CHOOSE n \in 0..Len(lines) :
                        /\ n = 0 \/ lines[n] # Empty
                        /\ \A i \in n + 1..Len(lines) : lines[i] = Empty)

FileLines == {Comment, Empty, AutoEntry, Malformed, Invalid} \cup
             {line \in EntryLines : AsRead(line) = line}

ASSUME LinesAssumption ==
    /\ Requests \subseteq EntryLines
    /\ Files \subseteq Seq(FileLines)
    /\ \A file \in Files : Stripped(file) = file

\* the lines that were chosen, in their order
Selected(lines, chosen) ==
    LET kept[i \in 0..Len(lines)] ==
            IF i = 0 THEN <<>>
            ELSE IF lines[i] \in chosen THEN Append(kept[i - 1], lines[i])
            ELSE kept[i - 1]
    IN kept[Len(lines)]

Entries(lines) == Selected(lines, {line \in Range(lines) : IsEntry(line)})

At(lines, destination) ==
    {i \in DOMAIN lines : IsEntry(lines[i])
                          /\ lines[i].destination = destination}
Lists(lines, destination) == At(lines, destination) # {}
Without(lines, destination) ==
    Selected(lines, {line \in Range(lines) :
                        ~(IsEntry(line) /\ line.destination = destination)})

\* iterating a JailFstab leaves the placeholder out
Printed(lines) == Selected(lines, Range(lines) \ {Placeholder})

\* a mutant: entries are looked up as they are written in the file
AddParsedUnplaced(lines, line, n) ==
    IF line.destination \in BaseMounts(n) \/ Lists(lines, line.destination)
    THEN lines
    ELSE Append(lines, Entry(line.source, Placed(line.destination, n), FALSE))

(***************************************************************************)
(* Reading.  Parsing starts from no lines.  It skips what it cannot read,  *)
(* the mounts of a basejail and a destination that it has seen, and raises *)
(* at a value that is refused and at a destination that contains a         *)
(* symbolic link; the lines before it stay in memory.                      *)
(***************************************************************************)
AddParsed(lines, line, n) ==
    LET placed == Placed(line.destination, n)
    IN IF line.destination \in BaseMounts(n) \/ Lists(lines, placed) THEN lines
       ELSE Append(lines, Entry(line.source, placed, FALSE))

ParseLine(lines, line, n) ==
    CASE line.kind \in {"comment", "empty"} -> Append(lines, line)
      [] line.kind = "auto" -> IF Contains(lines, Placeholder) THEN lines
                               ELSE Append(lines, Placeholder)
      [] line.kind \in {"malformed", "invalid"} -> lines
      [] line.kind = "entry" -> AddParsed(lines, line, n)

Parsed(file, n) ==
    LET lines[i \in 0..Len(file)] ==
            IF i = 0 THEN <<>> ELSE ParseLine(lines[i - 1], file[i], n)
    IN lines[Len(file)]

\* the lines at which parsing raises
Violations(file, n, links) ==
    {i \in DOMAIN file :
        \/ file[i] = Invalid
        \/ /\ IsEntry(file[i])
           /\ file[i].destination \notin BaseMounts(n)
           /\ Placed(file[i].destination, n) \in links}

ReadsFile(file, n, links, lines, ok) ==
    LET bad == Violations(file, n, links)
    IN \/ /\ bad = {} /\ ok /\ lines = Parsed(file, n)
       \/ /\ ~ok
          /\ \E i \in bad : /\ \A j \in bad : i <= j
                            /\ lines = Parsed(SubSeq(file, 1, i - 1), n)

(***************************************************************************)
(* The initial states: a file that a user wrote, or no file at all.        *)
(***************************************************************************)
FstabInit ==
    /\ fstabFile \in Files
    /\ written = Unwritten
    /\ fstabLines = [o \in Objects |-> Unread]
    /\ mounts = EmptyBag
    /\ fstabRunning = FALSE
    /\ prepared = "no"
    /\ linked = {}
    /\ renames = 0

Ready(o) == fstabLines[o] # Unread
Mounted(bag, path) == BagIn(path, bag)
Keep(o, lines) == fstabLines' = [fstabLines EXCEPT ![o] = lines]

(***************************************************************************)
(* Jail.fstab of an object that has none reads the file; a violation       *)
(* leaves it without.                                                      *)
(***************************************************************************)
OpenFstab(o) ==
    /\ ~Ready(o)
    /\ \E lines \in {Parsed(fstabFile, renames)} :
         /\ ReadsFile(fstabFile, renames, linked, lines, TRUE)
         /\ Keep(o, lines)
    /\ UNCHANGED <<fstabFile, written, mounts, fstabRunning, prepared, linked,
                   renames>>

(***************************************************************************)
(* Changing the lines.                                                     *)
(***************************************************************************)
\* umount(force=True) raises when nothing is mounted or the kernel refuses
Unmounted(before, after, path) ==
    /\ Mounted(before, path)
    /\ after = before (-) SetToBag({path})

\* mounting a line that is added to a running jail
AutoMounted(before, after, path) ==
    /\ ~Mounted(before, path)
    /\ after = before (+) SetToBag({path})

\* the steps of add_line() after an existing line was dealt with
Appended(o, rest, line, between) ==
    LET path == line.destination
    IN \/ /\ path \notin linked
          /\ IF fstabRunning THEN AutoMounted(between, mounts', path)
             ELSE mounts' = between
          /\ Keep(o, Append(rest, line))
       \/ /\ path \in linked \/ fstabRunning  \* a link, or mounting fails
          /\ mounts' = between
          /\ Keep(o, rest)

\* add_line(): a line to replace is deleted first, which unmounts it from a
\* running jail, and is lost when one of the following steps fails
Added(o, line, replace) ==
    LET lines == fstabLines[o]
        exists == Lists(lines, line.destination)
        rest == Without(lines, line.destination)
    IN /\ exists => replace
       /\ \/ exists /\ fstabRunning /\ Keep(o, rest) /\ mounts' = mounts
          \/ \E between \in {mounts, mounts (-) SetToBag({line.destination})} :
               /\ IF exists /\ fstabRunning
                  THEN Unmounted(mounts, between, line.destination)
                  ELSE between = mounts
               /\ Appended(o, rest, line, between)

AddLine(o, line, replace) ==
    /\ Ready(o)
    /\ Len(fstabLines[o]) < MaxLines
    /\ Added(o, Entry(line.source, Placed(line.destination, renames), line.auto),
             replace)
    /\ UNCHANGED <<fstabFile, written, fstabRunning, prepared, linked, renames>>

\* the entry is removed before it is unmounted; when that fails it stays
\* mounted and is not listed any more
DeleteLine(o, i) ==
    /\ Ready(o)
    /\ i \in DOMAIN fstabLines[o]
    /\ IsEntry(fstabLines[o][i])
    /\ Keep(o, RemoveAt(fstabLines[o], i))
    /\ \/ fstabRunning /\ Unmounted(mounts, mounts',
                                    fstabLines[o][i].destination)
       \/ mounts' = mounts
    /\ UNCHANGED <<fstabFile, written, fstabRunning, prepared, linked, renames>>

(***************************************************************************)
(* Writing.  Opening the file for writing empties it.                      *)
(***************************************************************************)
Write(lines) ==
    /\ written' = Printed(lines)
    /\ fstabFile' = AllAsRead(Stripped(Printed(lines)))

SaveFstab(o) ==
    /\ Ready(o)
    /\ Write(fstabLines[o])
    /\ UNCHANGED <<fstabLines, mounts, fstabRunning, prepared, linked, renames>>

SaveInterrupted(o) ==
    /\ Ready(o)
    /\ fstabFile' = <<>> /\ written' = Unwritten
    /\ Keep(o, Unread)
    /\ UNCHANGED <<mounts, fstabRunning, prepared, linked, renames>>

\* update_and_save() reads before it writes: unsaved changes are dropped
UpdateAndSave(o) ==
    /\ Ready(o)
    /\ \E ok \in BOOLEAN, i \in 0..Len(fstabFile) :
         LET lines == Parsed(SubSeq(fstabFile, 1, i), renames)
         IN /\ ReadsFile(fstabFile, renames, linked, lines, ok)
            /\ Keep(o, lines)
            /\ IF ok THEN Write(lines) ELSE UNCHANGED <<fstabFile, written>>
    /\ UNCHANGED <<mounts, fstabRunning, prepared, linked, renames>>

\* Pkg.__mount_pkg_directory() saves whether the line was added or not
MountPkgDirectory(o, source, d) ==
    /\ Ready(o)
    /\ Len(fstabLines[o]) < MaxLines
    /\ Added(o, Entry(source, Placed(d, renames), FALSE), TRUE)
    /\ Write(fstabLines'[o])
    /\ UNCHANGED <<fstabRunning, prepared, linked, renames>>

(***************************************************************************)
(* Renaming a stopped jail.  Its dataset has the new name when the file is *)
(* read, so that the destinations of the old name are no longer below it.  *)
(* Other objects refer to a dataset that is gone.  When reading fails, an  *)
(* object has the lines before, and one that had no lines still has none.  *)
(***************************************************************************)
ReplacePath(lines, old, new) ==
    LET Moved(line) ==
            IF IsEntry(line)
            THEN Entry(ReplacedPrefix(line.source, old, new),
                       ReplacedPrefix(line.destination, old, new), line.auto)
            ELSE line
    IN [i \in DOMAIN lines |-> Moved(lines[i])]

UpdateFstabPaths(o, n) ==
    \E ok \in BOOLEAN, i \in 0..Len(fstabFile) :
        LET lines == Parsed(SubSeq(fstabFile, 1, i), n)
            moved == ReplacePath(lines, Mountpoint(renames), Mountpoint(n))
        IN /\ ReadsFile(fstabFile, n, linked', lines, ok)
           /\ fstabLines' = [p \in Objects |->
                               IF p = o /\ ok THEN moved
                               ELSE IF p = o /\ Ready(o) THEN lines ELSE Unread]
           /\ IF ok THEN Write(moved)
              ELSE written' = Unwritten /\ UNCHANGED fstabFile

RenameJail(o) ==
    /\ renames < MaxRenames
    /\ ~fstabRunning
    /\ mounts = EmptyBag       \* the dataset is busy otherwise
    /\ renames' = renames + 1
    /\ linked' = {ReplacedPrefix(path, Mountpoint(renames),
                                 Mountpoint(renames + 1)) : path \in linked}
    /\ UpdateFstabPaths(o, renames + 1)
    /\ prepared' = "no"
    /\ UNCHANGED <<mounts, fstabRunning>>

(***************************************************************************)
(* Starting and stopping the jail.                                         *)
(***************************************************************************)
\* NullFSBasejailStorage.apply() replaces what is mounted on a base directory
ApplyBase ==
    /\ ~fstabRunning
    /\ mounts' = mounts (+) SetToBag({path \in BaseMounts(renames) :
                                        ~Mounted(mounts, path)})
    /\ prepared' = "base"
    /\ UNCHANGED <<fstabFile, written, fstabLines, fstabRunning, linked,
                   renames>>

\* what is mounted after the first k entries were unmounted
AfterUnmount(entries, k) ==
    mounts (-) SetToBag({entries[i].destination : i \in 1..k})

\* a mutant: the entries are mounted without unmounting them first
MountEntriesOver(entries, k) ==
    mounts (+) SetToBag({entries[i].destination : i \in 1..k})

\* mount() unmounts all entries, then mounts them one by one
MountEntries(entries, k) ==
    AfterUnmount(entries, Len(entries))
        (+) SetToBag({entries[i].destination : i \in 1..k})

MountFstab(o) ==
    /\ Ready(o)
    /\ ~fstabRunning
    /\ prepared = "base"
    /\ LET entries == Entries(fstabLines[o])
       IN \E k \in 0..Len(entries) :
            /\ mounts' = MountEntries(entries, k)
            /\ prepared' = IF k = Len(entries) THEN "all" ELSE "no"
    /\ UNCHANGED <<fstabFile, written, fstabLines, fstabRunning, linked,
                   renames>>

AttachJail ==
    /\ prepared = "all" /\ ~fstabRunning
    /\ fstabRunning' = TRUE
    /\ UNCHANGED <<fstabFile, written, fstabLines, mounts, prepared, linked,
                   renames>>

RemoveJail ==
    /\ fstabRunning
    /\ fstabRunning' = FALSE
    /\ prepared' = "no"
    /\ UNCHANGED <<fstabFile, written, fstabLines, mounts, linked, renames>>

\* unmount() stops at the first mountpoint that the kernel refuses to unmount
UnmountFstab(o) ==
    /\ Ready(o)
    /\ ~fstabRunning
    /\ LET entries == Entries(fstabLines[o])
       IN \E k \in 0..Len(entries) : mounts' = AfterUnmount(entries, k)
    /\ prepared' = "no"
    /\ UNCHANGED <<fstabFile, written, fstabLines, fstabRunning, linked,
                   renames>>

TeardownBase ==
    /\ ~fstabRunning
    /\ mounts' = mounts (-) SetToBag(BaseMounts(renames))
    /\ prepared' = "no"
    /\ UNCHANGED <<fstabFile, written, fstabLines, fstabRunning, linked,
                   renames>>

(***************************************************************************)
(* The environment: programs inside of a running jail change its files,    *)
(* and a process of the library may end without saving.                    *)
(***************************************************************************)
ReplaceByLink(d) ==
    /\ fstabRunning
    /\ linked' = linked \cup {RootPath(renames) \o d}
    /\ ~Mounted(mounts, RootPath(renames) \o d)
    /\ UNCHANGED <<fstabFile, written, fstabLines, mounts, fstabRunning,
                   prepared, renames>>

ForgetFstab(o) ==
    /\ Ready(o)
    /\ Keep(o, Unread)
    /\ UNCHANGED <<fstabFile, written, mounts, fstabRunning, prepared, linked,
                   renames>>

Adds(o) == \E line \in Requests, replace \in BOOLEAN : AddLine(o, line, replace)
Deletes(o) == \E i \in 1..MaxLines : DeleteLine(o, i)
MountsPkg(o) == \E s \in Sources, d \in Destinations : MountPkgDirectory(o, s, d)
Links == \E d \in Destinations : ReplaceByLink(d)

FstabNext ==
    \/ \E o \in Objects :
         \/ OpenFstab(o) \/ Adds(o) \/ Deletes(o)
         \/ SaveFstab(o) \/ SaveInterrupted(o) \/ UpdateAndSave(o)
         \/ MountsPkg(o) \/ RenameJail(o)
         \/ MountFstab(o) \/ UnmountFstab(o) \/ ForgetFstab(o)
    \/ ApplyBase \/ AttachJail \/ RemoveJail \/ TeardownBase \/ Links

FstabSpec == FstabInit /\ [][FstabNext]_fstabVars

(***************************************************************************)
(* Properties.                                                             *)
(***************************************************************************)
FstabTypeOK ==
    /\ \A i \in DOMAIN fstabFile :
         fstabFile[i] # Placeholder /\ AsRead(fstabFile[i]) = fstabFile[i]
    /\ \A o \in Objects : Ready(o) =>
         \A i \in DOMAIN fstabLines[o] :
            /\ fstabLines[o][i].kind \in {"entry", "comment", "empty", "placeholder"}
            /\ IsEntry(fstabLines[o][i]) =>
                 IsRelative(fstabLines[o][i].destination, renames)
    /\ IsABag(mounts)
    /\ fstabRunning \in BOOLEAN
    /\ prepared \in {"no", "base", "all"}
    /\ renames \in 0..MaxRenames

\* A filesystem is mounted at most once at each place of the jail, whoever
\* adds, replaces and deletes lines, mounts package directories, starts and
\* stops it, in objects that do not know the lines of each other, and also
\* when a line hides a base directory (Fstab.py:738, 815; NullFSBasejail.py:64).
NotStacked == \A path \in BagToSet(mounts) : mounts[path] = 1

\* A file that the library has written is read back by whatever object opens it
\* next under the same name.  Lost are: an entry of which a path has a # or a tab,
\* or whose comment is the mark of an older version (Fstab.py:67, 241-270); one
\* that mounts on a base directory (Fstab.py:275, 688); empty lines at the end
\* (Fstab.py:233).  All others are the lines that the object had, in their order.
FstabReadsBack ==
    LET lines == Stripped(written)
        ReadAgain == {line \in Range(lines) :
                        /\ AsRead(line) = line
                        /\ ~(IsEntry(line) /\ line.destination \in BaseMounts(renames))}
    IN written # Unwritten =>
         Printed(Parsed(fstabFile, renames)) = Selected(lines, ReadAgain)

\* Renaming a jail leaves the places inside of it where its entries are
\* mounted (Jail.py:1288, Fstab.py:537).
Inside(file, n) ==
    {SubSeq(l.destination, Len(RootPath(n)) + 1, Len(l.destination)) :
        l \in Range(Entries(file))}
RenameKeepsDestinations ==
    [][renames' # renames /\ written # Unwritten /\ fstabFile' # fstabFile =>
         Inside(fstabFile', renames') \subseteq Inside(fstabFile, renames)]_fstabVars
==============================================================================
