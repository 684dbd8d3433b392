----------------------------- MODULE DevfsRules -----------------------------
(***************************************************************************)
(* The devfs rulesets of a host (libioc/DevfsRules.py) and the ruleset a   *)
(* jail is started with (Jail.devfs_ruleset).                              *)
(*                                                                         *)
(* A Host object reads devfs.rules once and keeps the rulesets and their   *)
(* indexes in memory.  A jail that needs a combination of rules that is    *)
(* not among them gets a new ruleset: it is appended in memory, the file   *)
(* is written as a whole and the devfs service is restarted.  Other        *)
(* processes have Host objects of their own.  Rulesets are known by their  *)
(* numbers here, whether a jail names them or not.                         *)
(***************************************************************************)
EXTENDS Sequences, SequencesExt, FiniteSets, Integers

CONSTANTS
  Hosts,        \* the Host objects, each in a process of its own
  Rules,        \* lines of a ruleset
  Defaults,     \* the rulesets of /etc/defaults/devfs.rules
  UserFiles,    \* what /etc/devfs.rules may contain at first
  Extras        \* lines that the configuration of a jail may add to its ruleset

Rulesets == [number : Nat, rules : Seq(Rules)]
Numbers(content) == {content[i].number : i \in DOMAIN content}

\* append() raises DuplicateDevfsRuleset unless all numbers differ.
Readable(content) ==
  \A i, k \in DOMAIN content : content[i].number = content[k].number => i = k

ASSUME HostAssumption == IsFiniteSet(Hosts)
ASSUME DefaultsAssumption == Defaults \in Seq(Rulesets) /\ Defaults # <<>>
ASSUME UserAssumption ==
  \A u \in UserFiles : u \in Seq(Rulesets) /\ Readable(Defaults \o u)
ASSUME ExtraAssumption == Extras \subseteq Seq(Rules)

VARIABLES
  file,         \* /etc/devfs.rules
  loaded,       \* the rules the kernel has loaded under each number
  view,         \* the list of rulesets in memory, those of the system first
  index,        \* the numbers in the indexes; none before the files are read
  op,           \* the lookup under way: its next step and its ruleset
  user,         \* history: what /etc/devfs.rules contained at first
  granted,      \* history: number and rules of the rulesets jails were given
  savers,       \* history: the hosts that have written the file
  failed        \* history: a write or a restart has failed

memory == <<view, index, op>>
history == <<user, granted, savers, failed>>
vars == <<file, loaded, memory, history>>

Rest == [pc |-> "idle", number |-> 0, rules |-> <<>>]
Operations ==
  [pc : {"idle", "save", "restart"}, number : Nat, rules : Seq(Rules)]

TypeOK ==
  /\ file \in Seq(Rulesets)
  /\ DOMAIN loaded \subseteq Nat /\ \A n \in DOMAIN loaded : loaded[n] \in Seq(Rules)
  /\ view \in [Hosts -> Seq(Rulesets)]
  /\ index \in [Hosts -> SUBSET Nat]
  /\ op \in [Hosts -> Operations]
  /\ user \in Seq(Rulesets)
  /\ granted \subseteq Rulesets
  /\ savers \subseteq Hosts
  /\ failed \in BOOLEAN

RulesOf(content, number) ==
  content[CHOOSE i \in DOMAIN content : content[i].number = number].rules

Init ==
  /\ file \in UserFiles
  /\ loaded = [n \in Numbers(Defaults \o file) |-> RulesOf(Defaults \o file, n)]
  /\ view = [h \in Hosts |-> <<>>] /\ index = [h \in Hosts |-> {}]
  /\ op = [h \in Hosts |-> Rest]
  /\ user = file /\ granted = {} /\ savers = {} /\ failed = FALSE

----------------------------------------------------------------------------
At(h, step) == op[h].pc = step
Return(h) == op' = [op EXCEPT ![h] = Rest]
Grant(number, rules) ==
  granted' = granted \union {[number |-> number, rules |-> rules]}

\* host.devfs reads both files when it is used for the first time.
Unread(h) == index[h] = {}
ViewOf(h) == IF Unread(h) THEN Defaults \o file ELSE view[h]
IndexOf(h) == IF Unread(h) THEN Numbers(Defaults \o file) ELSE index[h]
CanRead(h) == Unread(h) => Readable(Defaults \o file)

\* The numbers are counted, not compared.
NextNumber(h) == Cardinality(IndexOf(h)) + 1

\* A mutant: numbers are not compared before a ruleset is appended.
DuplicateIgnored(h, number) == FALSE
Duplicate(h, number) == number \in IndexOf(h)

\* A mutant: the lines are appended as one.
CombineNested(rules, extra) == Append(rules, extra)

\* clone() and append() of a DevfsRuleset add a line once.
Combine(rules, extra) ==
  LET lines == rules \o extra
      Added[n \in 0 .. Len(lines)] ==
        IF n = 0 THEN <<>>
        ELSE IF Contains(Added[n - 1], lines[n]) THEN Added[n - 1]
        ELSE Append(Added[n - 1], lines[n])
  IN  Added[Len(lines)]

\* new_ruleset(), then save().
NewRuleset(h, rules) ==
  LET number == NextNumber(h)
      ruleset == [number |-> number, rules |-> rules]
  IN  IF Duplicate(h, number)
      THEN view' = [view EXCEPT ![h] = ViewOf(h)]
           /\ index' = [index EXCEPT ![h] = IndexOf(h)]
           /\ UNCHANGED op
      ELSE /\ view' = [view EXCEPT ![h] = Append(ViewOf(h), ruleset)]
           /\ index' = [index EXCEPT ![h] = IndexOf(h) \union {number}]
           /\ op' = [op EXCEPT ![h] =
                       [pc |-> "save", number |-> number, rules |-> rules]]

\* Jail.devfs_ruleset: the configured ruleset with the lines that other
\* properties of the jail add.  A base that does not exist is a KeyError.
DevfsRuleset(h, base, extra) ==
  /\ At(h, "idle") /\ CanRead(h)
  /\ base \in Numbers(ViewOf(h))
  /\ LET known == ViewOf(h)
         rules == Combine(RulesOf(known, base), extra)
         same == {i \in DOMAIN known : known[i].rules = rules}
     IN  IF same = {}
         THEN NewRuleset(h, rules) /\ UNCHANGED granted
         ELSE LET first == CHOOSE i \in same : \A k \in same : i <= k
              IN  /\ Grant(known[first].number, rules)
                  /\ view' = [view EXCEPT ![h] = known]
                  /\ index' = [index EXCEPT ![h] = IndexOf(h)]
                  /\ UNCHANGED op
  /\ UNCHANGED <<file, loaded, user, savers, failed>>

\* A mutant: the first ruleset of the file is taken for one of the system.
ContentWithoutFirst(h) == SubSeq(view[h], Len(Defaults) + 2, Len(view[h]))

\* Everything but the rulesets of the system.
Content(h) == SubSeq(view[h], Len(Defaults) + 1, Len(view[h]))

\* save(): an unchanged file is not written, and the service not restarted.
\* A file that cannot be opened raises: the ruleset stays in memory.
Save(h) ==
  /\ At(h, "save")
  /\ \/ /\ Content(h) = file
        /\ Return(h) /\ Grant(op[h].number, op[h].rules)
        /\ UNCHANGED <<file, savers, failed>>
     \/ /\ Content(h) # file
        /\ file' = Content(h)
        /\ savers' = savers \union {h}
        /\ op' = [op EXCEPT ![h].pc = "restart"]
        /\ UNCHANGED <<granted, failed>>
     \/ /\ Return(h) /\ failed' = TRUE
        /\ UNCHANGED <<file, granted, savers>>
  /\ UNCHANGED <<loaded, view, index, user>>

\* A mutant: the new ruleset is still buffered when the service restarts.
ReloadedUnflushed ==
  [n \in DOMAIN loaded \union Numbers(Front(file)) |->
     IF n \in Numbers(Front(file)) THEN RulesOf(Front(file), n) ELSE loaded[n]]

\* service devfs restart: the numbers in the file get the rules they have
\* there, whichever rules were loaded for them before; others are left alone.
Reloaded ==
  [n \in DOMAIN loaded \union Numbers(file) |->
     IF n \in Numbers(file) THEN RulesOf(file, n) ELSE loaded[n]]

Restart(h) ==
  /\ At(h, "restart")
  /\ Return(h)
  /\ \/ /\ loaded' = Reloaded
        /\ Grant(op[h].number, op[h].rules)
        /\ UNCHANGED failed
     \/ /\ loaded' \in {loaded, Reloaded}
        /\ failed' = TRUE
        /\ UNCHANGED granted
  /\ UNCHANGED <<file, view, index, user, savers>>

\* Assigning rules_file reads the files again: the list is cleared, but the
\* indexes are not, so that the first ruleset is a duplicate.
SetRulesFile(h) ==
  /\ At(h, "idle") /\ CanRead(h)
  /\ view' = [view EXCEPT ![h] = IF Unread(h) THEN Defaults \o file ELSE <<>>]
  /\ index' = [index EXCEPT ![h] = IndexOf(h)]
  /\ UNCHANGED <<file, loaded, op, history>>

Next ==
  \E h \in Hosts :
    \/ \E base \in Numbers(ViewOf(h)), extra \in Extras : DevfsRuleset(h, base, extra)
    \/ Save(h) \/ Restart(h) \/ SetRulesFile(h)

Spec == Init /\ [][Next]_vars

----------------------------------------------------------------------------
(***************************************************************************)
(* Properties.                                                             *)
(***************************************************************************)

\* The counted number of a new ruleset may be taken by another one.  Whatever
\* the hosts write over each other, the file never repeats a number, neither
\* its own nor one of the system, so that a later process can read it.
FileReadable == Readable(Defaults \o file)

\* Every host rewrites the file from what it has in memory.  The rulesets of
\* the administrator are kept, in their order and before all others.
UserRulesKept == IsPrefix(user, file)

\* The ruleset a jail was given is loaded with the rules the jail needs, once
\* no restart of the service is under way: as long as one host writes the
\* file and nothing failed, whichever host looked the rules up.
RulesetLoaded ==
  ~failed /\ Cardinality(savers) <= 1 /\ (\A h \in Hosts : ~At(h, "restart")) =>
    \A g \in granted : g.number \in DOMAIN loaded /\ loaded[g.number] = g.rules
=============================================================================
