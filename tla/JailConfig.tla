----------------------------- MODULE JailConfig -----------------------------
(***************************************************************************)
(* The configuration of a jail: libioc/Config/Jail/BaseConfig.py and       *)
(* JailConfig.py over the Data of Config/Data.py, the user defaults of     *)
(* Config/Jail/Defaults.py, and the three ways to store it of              *)
(* Config/Type/{JSON,UCL,ZFS}.py.                                          *)
(*                                                                         *)
(* A process sets, deletes and saves properties, dies at any point and is  *)
(* followed by another one that reads what it finds; an administrator      *)
(* edits the stored configuration.  A value is a Python value of type t,   *)
(* a text being the sequence x of its comma separated parts.  The          *)
(* properties below stand for the about hundred ones.  Of those with a     *)
(* setter or getter of their own, jail_zfs_dataset, login_flags,           *)
(* host_hostuuid, host_domainname and the addresses, interfaces, resolvers *)
(* and routers are left out, and the id does not change.                   *)
(***************************************************************************)
EXTENDS Naturals, Sequences, FiniteSets, TLC

CONSTANTS
    Inputs,      \* pairs of a key and a value that a consumer sets
    UserInputs,  \* the same for the user defaults
    Edits,       \* the same, as an administrator writes them to the storage
    MaxKeys,     \* bound on the keys of a configuration, without the id and the type
    MaxChanges   \* bound on the changes of one process

VARIABLES
    handler,     \* config_type: how the configuration is stored
    disk,        \* the stored texts
    data,        \* BaseConfig.data of the process, or NoConfig
    defaults,    \* JailConfigDefaults.user_data
    changes,     \* the number of changes of the process
    left,        \* the keys that save() has yet to write
    saving,      \* save() is under way
    saved        \* history: what the last save() wrote, or NoConfig

configVars == <<handler, disk, data, defaults, changes, left, saving, saved>>

NoConfig == [none |-> "none"]
Formats == {"json", "ucl", "zfs"}

(***************************************************************************)
(* Values and the conversions of helpers.py.                               *)
(***************************************************************************)
Str(x) == [t |-> "str", x |-> x]
List(x) == [t |-> "list", x |-> x]
Num(n) == [t |-> "int", x |-> <<n>>]
None == [t |-> "none", x |-> <<>>]
True == [t |-> "bool", x |-> <<"yes">>]
False == [t |-> "bool", x |-> <<"no">>]
ValueTypes == {"str", "list", "int", "none", "bool"}
Error == [t |-> "error", x |-> <<>>]      \* the getter raises
Missing == [t |-> "missing", x |-> <<>>]  \* the getter raises KeyError

Word(v, words) == v.t = "str" /\ Len(v.x) = 1 /\ v.x[1] \in words

IsTrue(v) == v = True \/ Word(v, {"yes", "true", "True", "on", "1"})
IsFalse(v) == v = False \/ Word(v, {"no", "false", "False", "off", "0"})
IsNone(v) == v = None \/ Word(v, {"none", "None", "-", ""})

ParseBool(v) == CASE IsTrue(v) -> True [] IsFalse(v) -> False [] OTHER -> Error

ParseUserInput(v) ==
    CASE IsTrue(v) -> True [] IsFalse(v) -> False [] IsNone(v) -> None [] OTHER -> v

ParseList(v) == IF IsNone(v) THEN List(<<>>) ELSE List(v.x)

Numerals == {"0", "1", "2", "5"}  \* the numbers that are told apart
IsInt(v) == v.t \in {"int", "bool"} \/ Word(v, Numerals)
ParseInt(v) == CASE v = True -> Num("1") [] v = False -> Num("0") [] OTHER -> Num(v.x[1])

\* to_string(): the items of a list are translated one by one, joined, and
\* the joined text is translated once more
Joined(v, yes, no, none) ==
    IF v.t # "list" THEN v
    ELSE Str([i \in DOMAIN v.x |-> CASE IsTrue(Str(<<v.x[i]>>)) -> yes
                                     [] IsFalse(Str(<<v.x[i]>>)) -> no
                                     [] IsNone(Str(<<v.x[i]>>)) -> none
                                     [] OTHER -> v.x[i]])
ToText(v, yes, no, none) ==
    IF v = List(<<>>) THEN Str(<<none>>)
    ELSE LET p == ParseUserInput(Joined(v, yes, no, none))
         IN  CASE p = True -> Str(<<yes>>)
               [] p = False -> Str(<<no>>)
               [] p = None -> Str(<<none>>)
               [] OTHER -> Str(p.x)

Stringify(v) == ToText(ParseUserInput(v), "yes", "no", "-")

(***************************************************************************)
(* Data: a dictionary whose nested keys are flattened, as "user.a".        *)
(***************************************************************************)
Put(d, k, v) == [x \in DOMAIN d \cup {k} |-> IF x = k THEN v ELSE d[x]]
Drop(d, k) == [x \in DOMAIN d \ {k} |-> d[x]]
Has(d, k) == k \in DOMAIN d

(***************************************************************************)
(* The setters.  A value has passed parse_user_input() before.             *)
(***************************************************************************)
DefaultType ==
    [k \in {"exec_timeout", "basejail_type", "boot",
            "allow_mount", "allow_mount_devfs", "enforce_statfs"} |->
        CASE k \in {"exec_timeout", "basejail_type"} -> "str"
          [] k = "boot" -> "bool"
          [] OTHER -> "int"]

\* str(): what Python makes of a value
TextOf(v) ==
    Str(CASE v = None -> <<"None">> [] v = True -> <<"True">> [] v = False -> <<"False">>
          [] OTHER -> v.x)

\* __sanitize_value(): the type of the hard-coded default, None is always allowed
Sanitized(k, v) ==
    IF k \notin DOMAIN DefaultType \/ v = None THEN v
    ELSE CASE DefaultType[k] = "str" -> TextOf(v)
           [] DefaultType[k] = "bool" -> ParseBool(v)
           [] DefaultType[k] = "int" -> ParseInt(v)

SetType(d, v) ==
    IF ~Word(v, {"basejail", "clonejail"}) THEN Put(d, "type", v)
    ELSE LET base == Put(d, "basejail", Stringify(IF v.x[1] = "basejail" THEN True ELSE False))
             clone == Put(base, "clonejail", Stringify(IF v.x[1] = "clonejail" THEN True ELSE False))
         IN  Put(clone, "type", Str(<<"jail">>))

TagsOf(d) ==
    LET tags == IF Has(d, "tags") THEN ParseList(d["tags"]).x ELSE <<>>
        all == IF Has(d, "tag") THEN tags \o d["tag"].x ELSE tags
    IN  SelectSeq([i \in DOMAIN all |-> <<all[i], \E j \in 1..(i - 1) : all[j] = all[i]>>],
                  LAMBDA e : ~e[2])
Tags(d) == List([i \in DOMAIN TagsOf(d) |-> TagsOf(d)[i][1]])

\* the deprecated tag stays in use until tags is set
SetTag(d, v) ==
    IF Has(d, "tag") \/ ~Has(d, "tags") THEN Put(d, "tag", v)
    ELSE Put(d, "tags", Stringify(List(
             v.x \o SelectSeq(Tags(d).x, LAMBDA t : v # Str(<<t>>)))))

SetTags(d, v) == Drop(Put(d, "tags", Stringify(v)), "tag")
SetVnet(d, v) == Put(d, "vnet", ToText(v, "on", "off", "-"))

SetVnetInterfaces(d, v) ==
    Put(d, "vnet_interfaces", IF v = None THEN List(<<>>) ELSE Stringify(v))

SetJailZfs(d, v) ==
    IF v = None THEN Drop(d, "jail_zfs")
    ELSE Put(d, "jail_zfs", ToText(ParseBool(v), "on", "off", "-"))

SetExecClean(d, v) ==
    Put(d, "exec_clean", IF v = True \/ v = Num("1") THEN Num("1") ELSE Num("0"))

SetClonedRelease(d, v) == Put(Put(d, "release", v), "cloned_release", v)
SetMount(d, k, v) == Put(d, k, IF ParseInt(v) = Num("1") THEN Str(<<"1">>) ELSE Str(<<"0">>))

\* a resource limit is <<amount>>, <<amount, action>> or <<amount, action, per>>;
\* without an amount its text is "None=None/None"
Limit(v) ==
    IF v = None THEN <<"None", "None", "None">>
    ELSE CASE Len(v.x) = 1 -> <<v.x[1], "deny", "jail">>
           [] Len(v.x) = 2 -> <<v.x[1], v.x[2], "jail">>
           [] OTHER -> v.x
LimitText(l) == IF l[3] = "jail" THEN Str(<<l[1], l[2]>>) ELSE Str(l)

\* Filter.Terms of the property depends
Terms(v) == IF IsNone(v) THEN <<>> ELSE v.x
TermsText(x) == IF x = <<>> THEN Str(<<"">>) ELSE Str(x)

Special == {"maxproc", "depends"}
SpecialText(k, v) == IF k = "maxproc" THEN LimitText(Limit(v)) ELSE TermsText(Terms(v))

KeyOrder ==
    <<"allow_mount", "allow_mount_devfs", "basejail", "basejail_type", "boot",
      "clonejail", "cloned_release", "depends", "enforce_statfs", "exec_clean",
      "exec_timeout", "jail_zfs", "maxproc", "mount_devfs", "priority", "release",
      "tag", "tags", "template", "type", "unknown", "user.a", "vnet", "vnet_interfaces">>
AllKeys == {KeyOrder[i] : i \in DOMAIN KeyOrder}
Keys == AllKeys \ {"unknown"}

Given(k, v) ==
    \/ v = None \/ v = Str(v.x)
    \/ k \in {"enforce_statfs", "exec_timeout", "priority"} /\ \E n \in Numerals : v = Num(n)

\* a consumer gives texts, as on a command line, nothing, or numbers where
\* numbers are expected; a file has any text for any key
ASSUME InputsAssumption ==
    /\ \A i \in Inputs \cup UserInputs : Given(i[1], i[2])
    /\ \A i \in Edits : i[1] \in AllKeys /\ i[2] = Str(i[2].x)
    /\ MaxChanges \in Nat

Setter(d, k, v) ==
    CASE k = "type" -> SetType(d, v)
      [] k = "tag" -> SetTag(d, v)
      [] k = "tags" -> SetTags(d, v)
      [] k = "vnet" -> SetVnet(d, v)
      [] k = "vnet_interfaces" -> SetVnetInterfaces(d, v)
      [] k = "jail_zfs" -> SetJailZfs(d, v)
      [] k = "exec_clean" -> SetExecClean(d, v)
      [] k = "cloned_release" -> SetClonedRelease(d, v)
      [] k = "mount_devfs" -> SetMount(d, k, v)
      [] k = "priority" -> Put(d, k, Str(ParseInt(v).x))
      [] k = "template" -> Put(d, k, ParseBool(v))
      [] k \in {"basejail", "clonejail"} -> Put(d, k, Stringify(v))
      [] OTHER -> Put(d, k, Sanitized(k, v))

\* a ValueError, which skip_on_error turns into a warning
Refused(k, v) ==
    \/ k = "template" /\ ParseBool(v) = Error
    \/ k = "exec_clean" /\ v.t = "str" /\ ~IsInt(v)
    \/ k = "mount_devfs" /\ IsInt(v) /\ ParseInt(v).x[1] \notin {"0", "1"}

\* TypeError, KeyError and UnboundLocalError are raised in any case
Broken(d, k, v) ==
    \/ k \in {"priority", "mount_devfs"} /\ ~IsInt(v)
    \/ k \in DOMAIN DefaultType /\ DefaultType[k] = "int" /\ v # None /\ ~IsInt(v)
    \/ k = "boot" /\ v # None /\ ParseBool(v) = Error
    \/ k = "jail_zfs" /\ IF v = None THEN ~Has(d, k) ELSE ParseBool(v) = Error

\* __setitem__(): a key that is not known is stored too when errors are skipped
Known(k) == k \in Keys
Accepts(d, k, v) ==
    Known(k) /\ ~Refused(k, ParseUserInput(v)) /\ ~Broken(d, k, ParseUserInput(v))
SetItem(d, k, v) ==
    IF k \in Special THEN Put(d, k, SpecialText(k, v)) ELSE Setter(d, k, ParseUserInput(v))

(***************************************************************************)
(* The getters, with the fallback to the user defaults u and the           *)
(* hard-coded ones.                                                        *)
(***************************************************************************)
HardDefault ==
    "allow_mount" :> Num("0") @@ "allow_mount_devfs" :> Num("0") @@ "basejail" :> False
    @@ "basejail_type" :> Str(<<"nullfs">>) @@ "boot" :> False @@ "clonejail" :> False
    @@ "depends" :> List(<<>>) @@ "enforce_statfs" :> Num("2") @@ "exec_clean" :> Num("1")
    @@ "exec_timeout" :> Str(<<"600">>) @@ "jail_zfs" :> False @@ "mount_devfs" :> Str(<<"1">>)
    @@ "priority" :> Num("0") @@ "release" :> None @@ "vnet" :> False
    @@ "vnet_interfaces" :> List(<<>>)

GetBool(d, k) == IF Has(d, k) THEN ParseBool(d[k]) ELSE Missing

GetPlain(d, k) == IF Has(d, k) THEN ParseUserInput(d[k]) ELSE Missing

FallBack(k, v, u) ==
    IF v # Missing THEN v
    ELSE IF u # Missing THEN u
    ELSE IF k \in DOMAIN HardDefault THEN HardDefault[k]
    ELSE Error

IsBasejail(d, u) == FallBack("basejail", GetBool(d, "basejail"), GetBool(u, "basejail"))
IsClonejail(d, u) == FallBack("clonejail", GetBool(d, "clonejail"), GetBool(u, "clonejail"))
Release(d, u) == FallBack("release", GetPlain(d, "release"), GetPlain(u, "release"))

GetType(d, u) ==
    IF IsBasejail(d, u) = True THEN Str(<<"basejail">>)
    ELSE IF IsBasejail(d, u) = Error \/ IsClonejail(d, u) = Error THEN Error
    ELSE IF IsClonejail(d, u) = True THEN Str(<<"clonejail">>)
    ELSE Str(<<"jail">>)

GetBasejailType(d, u) ==
    IF Has(d, "basejail_type") THEN TextOf(d["basejail_type"])
    ELSE IF IsBasejail(d, u) = Error THEN Error
    ELSE IF IsBasejail(d, u) = True THEN Str(<<"nullfs">>)
    ELSE None

GetClonedRelease(d, u) ==
    IF Has(d, "cloned_release") THEN TextOf(d["cloned_release"])
    ELSE IF Release(d, u).t = "str" THEN Release(d, u)
    ELSE None

\* an allowed mount changes what two other properties are without a value
GetMountLevel(d, k) ==
    IF Has(d, k) THEN IF d[k] = None THEN Error ELSE d[k]
    ELSE IF GetPlain(d, "allow_mount_devfs") = Num("1") THEN Num("1")
    ELSE Missing

GetTag(d) ==
    IF Has(d, "tag") THEN TextOf(d["tag"])
    ELSE IF Tags(d).x = <<>> THEN None
    ELSE Str(<<Tags(d).x[1]>>)

GetSpecial(d, k) ==
    IF ~Has(d, k) THEN Missing
    ELSE IF k = "maxproc" THEN List(Limit(d[k]))
    ELSE List(Terms(d[k]))

\* what the configuration itself knows of a property
GetOwn(d, k) ==
    CASE k \in Special -> GetSpecial(d, k)
      [] k \in {"basejail", "clonejail", "vnet", "jail_zfs"} -> GetBool(d, k)
      [] k = "template" -> IF Has(d, k) THEN ParseBool(d[k]) ELSE False
      [] k = "tags" -> Tags(d)
      [] k = "tag" -> GetTag(d)
      [] k \in {"allow_mount", "enforce_statfs"} -> GetMountLevel(d, k)
      [] k = "vnet_interfaces" -> IF Has(d, k) THEN ParseList(d[k]) ELSE Missing
      [] k \in {"priority", "mount_devfs"} -> IF Has(d, k) THEN Num(d[k].x[1]) ELSE Missing
      [] k = "exec_clean" -> IF Has(d, k) THEN d[k] ELSE Missing
      [] OTHER -> GetPlain(d, k)

\* __getitem__()
Get(d, u, k) ==
    CASE k = "type" -> GetType(d, u)
      [] k = "basejail_type" -> GetBasejailType(d, u)
      [] k = "cloned_release" -> GetClonedRelease(d, u)
      [] k = "maxproc" /\ ~Has(d, k) /\ ~Has(u, k) -> None
      [] OTHER -> FallBack(k, GetOwn(d, k), GetOwn(u, k))

(***************************************************************************)
(* The storage.                                                            *)
(***************************************************************************)
\* A mutant: the values are written as they are
OutputRaw(fmt, v) == v

\* map_output(): everything is written as text
Output(fmt, v) ==
    IF fmt = "json" THEN ToText(v, "yes", "no", "none") ELSE ToText(v, "on", "off", "none")

Position(k) == CHOOSE i \in DOMAIN KeyOrder : KeyOrder[i] = k

\* A mutant: JSON keys are not sorted
OrdersUnsorted(fmt, keys) ==
    {o \in [1..Cardinality(keys) -> keys] : {o[i] : i \in DOMAIN o} = keys}

\* JSON is written with sorted keys; the order of the others is not known
Orders(fmt, keys) ==
    {o \in [1..Cardinality(keys) -> keys] :
        /\ {o[i] : i \in DOMAIN o} = keys
        /\ fmt = "json" =>
               \A i, j \in DOMAIN o : i < j => Position(o[i]) < Position(o[j])}

\* set_dict(): one key after the other; a failing one ends the object
ReadKey(d, k, text, skip) ==
    LET v == ParseUserInput(text)
    IN  CASE d = NoConfig -> NoConfig
          [] d # NoConfig /\ Broken(d, k, v) -> NoConfig
          [] d # NoConfig /\ Accepts(d, k, text) -> SetItem(d, k, text)
          [] OTHER -> IF ~skip THEN NoConfig
                      ELSE IF Known(k) THEN d ELSE Put(d, k, v)

ReadInto(texts, order, skip) ==
    LET f[i \in 0..Len(order)] ==
            IF i = 0 THEN << >> ELSE ReadKey(f[i - 1], order[i], texts[order[i]], skip)
    IN  f[Len(order)]

\* read_config() and BaseConfig.read(); the identifiers are not read again
Reads(fmt, texts, skip) ==
    {ReadInto(texts, o, skip) : o \in Orders(fmt, DOMAIN texts)}

ConfigInit ==
    /\ handler \in Formats
    /\ disk = << >>
    /\ data = << >>
    /\ defaults = << >>
    /\ changes = 0
    /\ left = {}
    /\ saving = FALSE
    /\ saved = NoConfig

Fits(d) == Cardinality(DOMAIN d \ {"type"}) <= MaxKeys

\* one more change of the process, while it does not save
Changes ==
    /\ data # NoConfig /\ ~saving
    /\ changes < MaxChanges
    /\ changes' = changes + 1

\* JailGenerator.__init__() of an existing jail
Open(skip) ==
    /\ data = NoConfig
    /\ \E d \in Reads(handler, disk, skip) : data' = d
    /\ UNCHANGED <<handler, disk, defaults, changes, left, saving, saved>>

\* config[key] = value; a refused or unknown one changes nothing
SetProperty(k, v) ==
    /\ Changes
    /\ Accepts(data, k, v)
    /\ Fits(SetItem(data, k, v))
    /\ data' = SetItem(data, k, v)
    /\ UNCHANGED <<handler, disk, defaults, left, saving, saved>>

DeleteProperty(k) ==
    /\ Changes
    /\ Has(data, k)
    /\ data' = Drop(data, k)
    /\ UNCHANGED <<handler, disk, defaults, left, saving, saved>>

\* save(): the file is truncated, and written afterwards
BeginSave ==
    /\ data # NoConfig /\ ~saving
    /\ saving' = TRUE
    /\ left' = DOMAIN data
    /\ disk' = IF handler = "zfs" THEN disk ELSE << >>
    /\ saved' = NoConfig
    /\ UNCHANGED <<handler, data, defaults, changes>>

\* a file is written as a whole
WriteFile ==
    /\ saving /\ handler # "zfs" /\ left # {}
    /\ disk' = [k \in DOMAIN data |-> Output(handler, data[k])]
    /\ left' = {}
    /\ UNCHANGED <<handler, data, defaults, changes, saving, saved>>

\* ZFS properties one by one; those of deleted keys stay
WriteProperty(k) ==
    /\ saving /\ handler = "zfs" /\ k \in left
    /\ disk' = Put(disk, k, Output(handler, data[k]))
    /\ Fits(disk')
    /\ left' = left \ {k}
    /\ UNCHANGED <<handler, data, defaults, changes, saving, saved>>

EndSave ==
    /\ saving /\ left = {}
    /\ saving' = FALSE
    /\ saved' = data
    /\ UNCHANGED <<handler, disk, data, defaults, changes, left>>

\* the process ends or is killed, in the middle of save() too
Exit ==
    /\ data # NoConfig
    /\ data' = NoConfig
    /\ changes' = 0
    /\ saving' = FALSE
    /\ left' = {}
    /\ defaults' = << >>
    /\ UNCHANGED <<handler, disk, saved>>

\* an administrator edits the stored configuration
Edit(k, v) ==
    /\ data = NoConfig
    /\ disk' = Put(disk, k, v)
    /\ Fits(disk')
    /\ saved' = NoConfig
    /\ UNCHANGED <<handler, data, defaults, changes, left, saving>>

SetDefault(k, v) ==
    /\ Changes
    /\ Accepts(defaults, k, v)
    /\ defaults' = SetItem(defaults, k, v)
    /\ UNCHANGED <<handler, disk, data, left, saving, saved>>

\* JailConfigDefaults._getitem_special_property(): reading a special property
\* that has a hard-coded default only stores it among the user defaults
ReadDefault(k) ==
    /\ Changes
    /\ k \in Special \cap DOMAIN HardDefault
    /\ ~Has(data, k) /\ ~Has(defaults, k)
    /\ defaults' = Put(defaults, k, SpecialText(k, HardDefault[k]))
    /\ UNCHANGED <<handler, disk, data, left, saving, saved>>

ConfigNext ==
    \/ \E skip \in BOOLEAN : Open(skip)
    \/ \E i \in Inputs : SetProperty(i[1], i[2])
    \/ \E k \in AllKeys : DeleteProperty(k) \/ WriteProperty(k) \/ ReadDefault(k)
    \/ BeginSave
    \/ WriteFile
    \/ EndSave
    \/ Exit
    \/ \E i \in Edits : Edit(i[1], i[2])
    \/ \E i \in UserInputs : SetDefault(i[1], i[2])

ConfigSpec == ConfigInit /\ [][ConfigNext]_configVars

-----------------------------------------------------------------------------
Typed(d) == DOMAIN d \subseteq AllKeys /\ \A k \in DOMAIN d : d[k].t \in ValueTypes

\* A configuration holds known keys and plain values only, its storage texts
\* only, and nothing is left to be written but what the process has.
ConfigTypeOK ==
    /\ handler \in Formats
    /\ Typed(disk) /\ \A k \in DOMAIN disk : disk[k].t = "str"
    /\ data # NoConfig => Typed(data)
    /\ Typed(defaults)
    /\ changes \in 0..MaxChanges
    /\ left # {} => saving /\ left \subseteq DOMAIN data
    /\ saving \in BOOLEAN
    /\ saving => data # NoConfig /\ saved = NoConfig

\* A configuration that was saved can be opened again, by a process that does
\* not skip errors, and every property then has the value that it had: no
\* value is stored in a form that is read as another one, and the order in
\* which the properties are read does not matter.  What the code does not keep
\* is left out: the release for UCL and ZFS (BaseConfig.py:492), what was
\* deleted for ZFS (ZFS.py:70), and a dependency on a jail whose name reads as
\* a boolean, which is stored as one (helpers.py:452).
ConfigReadsBack ==
    saved # NoConfig /\ DOMAIN saved \subseteq Keys /\ DOMAIN disk = DOMAIN saved =>
        \A d \in Reads(handler, disk, FALSE) :
            /\ d # NoConfig
            /\ \A k \in Keys :
                   \/ k = "release" /\ ~Has(saved, k)
                   \/ handler # "json" /\ k \in {"release", "cloned_release"}
                   \/ k = "depends" /\ Has(saved, k) /\ ParseBool(saved[k]) # Error
                   \/ Get(d, << >>, k) = Get(saved, << >>, k)
=============================================================================
