----------------------------- MODULE MCResources -----------------------------
(***************************************************************************)
(* Values of the constants of JailConfig, JailFstab and PoolActivation for *)
(* the runs of TLC.  The configuration of a jail, its fstab and the choice *)
(* of the pool have no state in common: a behaviour is one of one part,    *)
(* chosen at the beginning, while the others stay as they are.  There are  *)
(* two parts for the fstab: one with a running jail and two objects whose  *)
(* lines can be written and read, and one with all lines, of one object at *)
(* a time and with the jail stopped.                                       *)
(***************************************************************************)
EXTENDS JailConfig, JailFstab, PoolActivation

CONSTANTS o1, o2, p1, p2, p3

VARIABLE part

----------------------------------------------------------------------------
Value(k, type, words) == <<k, [t |-> type, x |-> words]>>
Text(k, word) == Value(k, "str", <<word>>)
Number(k, n) == Value(k, "int", <<n>>)
Unset(k) == Value(k, "none", <<>>)

AllInputs ==
    {Text("allow_mount_devfs", "1"), Text("allow_mount", "0"),
     Text("basejail", "yes"), Text("basejail_type", "zfs"),
     Text("cloned_release", "r1"), Text("release", "r2"), Text("depends", "a"), Text("depends", "1"),
     Text("exec_clean", "1"), Number("exec_timeout", "5"),
     Unset("exec_timeout"), Text("jail_zfs", "yes"), Unset("jail_zfs"),
     Value("maxproc", "str", <<"5", "log", "process">>),
     Text("mount_devfs", "0"), Text("priority", "1"),
     Text("tag", "on"), Value("tags", "str", <<"a", "on">>),
     Text("template", "yes"), Text("type", "clonejail"),
     Text("user.a", "none"), Text("vnet", "yes"), Unset("vnet"),
     Value("vnet_interfaces", "str", <<"a", "b">>)}

\* values that the setters would have refused or changed
AllEdits == {Text("template", "a"), Text("boot", "a"), Text("unknown", "a"),
             Text("tag", "b"), Text("jail_zfs", "none")}
AllUserInputs == {Text("vnet", "yes")}

AllDirectories ==
    {"jails", "root", "old", "new", "data", "bin", "host", "inner", "a#b", "a\tb"}
TwoObjects == {o1, o2}
HashDirectory == {"a#b"}
TabDirectory == {"a\tb"}
Data == <<"data">>
DataDirectory == {Data}
Bin == {<<"bin">>}
Host == <<"host">>
TwoNames == [n \in 0..1 |-> IF n = 0 THEN "old" ELSE "new"]

\* a directory of another dataset of the jail
Inner == RootPath(0) \o <<"inner">>
InnerSource == {Inner}

Tab == <<"host", "a\tb">>

\* two lines that are read as they are written, and three that are not
AllRequests ==
    {Entry(Inner, Data, FALSE), Entry(Inner, <<"bin">>, FALSE),
     Entry(Inner, Data, TRUE), Entry(Inner, <<"a#b">>, TRUE),
     Entry(Tab, Data, FALSE)}

\* a file of which only a part can be read, and lines of an older version around two entries for one place, written in two
\* ways; lines that are no entries, and one for a base directory
AllFiles ==
    {<<>>,
     <<Empty, Comment, Invalid>>,
     <<AutoEntry, Entry(Host, RootPath(0) \o <<"data">>, FALSE),
       Entry(Host, <<"data">>, FALSE), AutoEntry>>,
     <<Malformed, Empty, Entry(Host, RootPath(0) \o <<"bin">>, FALSE)>>}

ThreePools == {p1, p2, p3}

\* The objects are told apart by nothing but their identity.
Symmetry == Permutations(Objects)

----------------------------------------------------------------------------
PoolsAtRest == poolActive = [p \in Pools |-> "unset"] /\ rcPools = {}

AllPlain ==
    \A o \in Objects : \A i \in DOMAIN fstabLines[o] :
        IsEntry(fstabLines[o][i]) => /\ ~fstabLines[o][i].auto
                                     /\ fstabLines[o][i].source # Tab

OneStopped ==
    /\ Cardinality({o \in Objects : Ready(o)}) <= 1
    /\ prepared = "no" /\ ~fstabRunning /\ mounts = EmptyBag

Init ==
    /\ part \in {"config", "fstab", "text", "pools"}
    /\ ConfigInit /\ FstabInit /\ PoolInit
    /\ part # "config" => handler = "json"
    /\ part \notin {"fstab", "text"} => fstabFile = <<>>
    /\ part # "pools" => PoolsAtRest

Next ==
    \/ /\ part = "config" /\ ConfigNext
       /\ UNCHANGED <<fstabVars, poolVars, part>>
    \/ /\ \/ part = "fstab" /\ FstabNext /\ AllPlain'
          \/ part = "text" /\ FstabNext /\ OneStopped'
       /\ UNCHANGED <<configVars, poolVars, part>>
    \/ /\ part = "pools" /\ PoolNext
       /\ UNCHANGED <<configVars, fstabVars, part>>

Spec == Init /\ [][Next]_<<configVars, fstabVars, poolVars, part>>

\* All variables have their types.
TypeOK == ConfigTypeOK /\ FstabTypeOK /\ PoolTypeOK
==============================================================================
