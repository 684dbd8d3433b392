-------------------------- MODULE DevfsRules_proofs --------------------------
(***************************************************************************)
(* Proofs about DevfsRules, for any set of hosts, rules and files.         *)
(***************************************************************************)
EXTENDS DevfsRules, SequenceTheorems, FiniteSetTheorems, WellFoundedInduction, TLAPS

(***************************************************************************)
(* Sequences of whatever they contain.                                     *)
(***************************************************************************)
Listing(s) == \E S : s \in Seq(S)

Begins(s, t) == Len(s) <= Len(t) /\ \A i \in 1 .. Len(s) : s[i] = t[i]

LEMMA ListingLen ==
  ASSUME NEW s, Listing(s)
  PROVE  Len(s) \in Nat /\ DOMAIN s = 1 .. Len(s)
BY DEF Listing

LEMMA ListingConcat ==
  ASSUME NEW s, NEW t, Listing(s), Listing(t)
  PROVE  /\ Listing(s \o t) /\ Len(s \o t) = Len(s) + Len(t)
         /\ \A i \in 1 .. Len(s) : (s \o t)[i] = s[i]
         /\ \A i \in 1 .. Len(t) : (s \o t)[Len(s) + i] = t[i]
<1>1. PICK S : s \in Seq(S)
  BY DEF Listing
<1>2. PICK T : t \in Seq(T)
  BY DEF Listing
<1>3. s \in Seq(S \union T) /\ t \in Seq(S \union T)
  BY <1>1, <1>2, SeqDef
<1> HIDE DEF Listing
<1>4. /\ s \o t \in Seq(S \union T) /\ Len(s \o t) = Len(s) + Len(t)
      /\ \A i \in 1 .. Len(s) + Len(t) :
           (s \o t)[i] = IF i <= Len(s) THEN s[i] ELSE t[i - Len(s)]
  BY <1>3, ConcatProperties
<1>5. Listing(s \o t)
  BY <1>4 DEF Listing
<1>6. Len(s) \in Nat /\ Len(t) \in Nat
  BY ListingLen
<1> QED
  BY <1>4, <1>5, <1>6

LEMMA ListingAppend ==
  ASSUME NEW s, Listing(s), NEW e
  PROVE  /\ Listing(Append(s, e)) /\ Len(Append(s, e)) = Len(s) + 1
         /\ \A i \in 1 .. Len(s) : Append(s, e)[i] = s[i]
         /\ Append(s, e)[Len(s) + 1] = e
<1>1. PICK S : s \in Seq(S)
  BY DEF Listing
<1>2. s \in Seq(S \union {e})
  BY <1>1, SeqDef
<1>3. /\ Append(s, e) \in Seq(S \union {e})
      /\ Len(Append(s, e)) = Len(s) + 1
      /\ \A i \in 1 .. Len(s) : Append(s, e)[i] = s[i]
      /\ Append(s, e)[Len(s) + 1] = e
  BY <1>2, AppendProperties
<1> QED
  BY <1>3 DEF Listing

LEMMA ListingRest ==
  ASSUME NEW s, Listing(s), NEW n \in Nat, n <= Len(s)
  PROVE  LET t == SubSeq(s, n + 1, Len(s))
         IN  /\ Listing(t) /\ Len(t) = Len(s) - n
             /\ \A i \in 1 .. Len(t) : t[i] = s[n + i]
<1>1. PICK S : s \in Seq(S)
  BY DEF Listing
<1>2. Len(s) \in Nat /\ \A i \in n + 1 .. Len(s) : s[i] \in S
  BY <1>1
<1> DEFINE t == SubSeq(s, n + 1, Len(s))
<1>3. /\ t \in Seq(S)
      /\ Len(t) = IF n + 1 <= Len(s) THEN Len(s) - (n + 1) + 1 ELSE 0
      /\ \A i \in 1 .. Len(s) - (n + 1) + 1 : t[i] = s[n + 1 + i - 1]
  BY <1>2, SubSeqProperties
<1>4. Len(t) = Len(s) - n
  BY <1>2, <1>3
<1>5. \A i \in 1 .. Len(t) : t[i] = s[n + i]
  BY <1>2, <1>3, <1>4
<1>6. Listing(t)
  BY <1>3 DEF Listing
<1> QED
  BY <1>4, <1>5, <1>6

LEMMA PrefixBegins ==
  ASSUME NEW s, NEW t, Listing(s), Listing(t)
  PROVE  IsPrefix(s, t) <=> Begins(s, t)
<1>1. PICK S : s \in Seq(S)
  BY DEF Listing
<1>2. PICK T : t \in Seq(T)
  BY DEF Listing
<1>3. Len(s) \in Nat /\ Len(t) \in Nat
  BY ListingLen
<1>4. ASSUME Len(s) <= Len(t)
      PROVE  /\ Len(SubSeq(s, 1, Len(s))) = Len(s) /\ Len(SubSeq(t, 1, Len(s))) = Len(s)
             /\ SubSeq(s, 1, Len(s)) \in Seq(S) /\ SubSeq(t, 1, Len(s)) \in Seq(T)
             /\ \A i \in 1 .. Len(s) :
                  SubSeq(s, 1, Len(s))[i] = s[i] /\ SubSeq(t, 1, Len(s))[i] = t[i]
  BY <1>1, <1>2, <1>3, <1>4, SubSeqProperties
<1> QED
  BY <1>3, <1>4, SeqEqual DEF IsPrefix, Begins

(***************************************************************************)
(* The file, and what a host has in memory.                                *)
(***************************************************************************)

\* A list that save() may write: its numbers differ and are in the index, and
\* it begins with the rulesets of the system and of the administrator.
FullList(list, numbers) ==
  /\ Listing(list) /\ Readable(list)
  /\ Numbers(list) \subseteq numbers
  /\ Begins(Defaults \o user, list)

Full(h) == FullList(view[h], index[h])

FileInv ==
  /\ Listing(user) /\ Listing(file)
  /\ Readable(Defaults \o file) /\ Begins(user, file)

\* A list is cleared when rules_file is assigned; no ruleset is found in it.
MemoryInv ==
  /\ DOMAIN view = Hosts /\ DOMAIN index = Hosts /\ DOMAIN op = Hosts
  /\ \A h \in Hosts : view[h] = <<>> \/ Full(h)
  /\ \A h \in Hosts : At(h, "save") => Full(h)

LEMMA DefaultsListed == Listing(Defaults)
BY DefaultsAssumption DEF Listing

LEMMA InitDevfs == Init => FileInv /\ MemoryInv
<1> SUFFICES ASSUME Init PROVE FileInv /\ MemoryInv
  OBVIOUS
<1>1. file \in Seq(Rulesets) /\ Readable(Defaults \o file) /\ user = file
  BY UserAssumption DEF Init
<1>2. FileInv
  BY <1>1 DEF FileInv, Listing, Begins
<1>3. MemoryInv
  BY DEF Init, MemoryInv, Rest, At
<1> QED
  BY <1>2, <1>3

\* What is read from the files is a full list.
LEMMA ReadFull ==
  ASSUME FileInv
  PROVE  FullList(Defaults \o file, Numbers(Defaults \o file))
<1>1. /\ Listing(Defaults \o file)
      /\ Len(Defaults \o file) = Len(Defaults) + Len(file)
      /\ \A i \in 1 .. Len(Defaults) : (Defaults \o file)[i] = Defaults[i]
      /\ \A i \in 1 .. Len(file) : (Defaults \o file)[Len(Defaults) + i] = file[i]
  BY DefaultsListed, ListingConcat DEF FileInv
<1>2. /\ Len(Defaults \o user) = Len(Defaults) + Len(user)
      /\ \A i \in 1 .. Len(Defaults) : (Defaults \o user)[i] = Defaults[i]
      /\ \A i \in 1 .. Len(user) : (Defaults \o user)[Len(Defaults) + i] = user[i]
  BY DefaultsListed, ListingConcat DEF FileInv
<1>3. Len(Defaults) \in Nat /\ Len(user) \in Nat /\ Len(file) \in Nat
  BY DefaultsListed, ListingLen DEF FileInv
<1>4. ASSUME NEW i \in 1 .. Len(Defaults \o user)
      PROVE  (Defaults \o user)[i] = (Defaults \o file)[i]
  <2>1. CASE i <= Len(Defaults)
    BY <1>1, <1>2, <1>3, <1>4, <2>1
  <2>2. CASE ~(i <= Len(Defaults))
    <3>1. i - Len(Defaults) \in 1 .. Len(user)
      BY <1>2, <1>3, <1>4, <2>2
    <3>2. i - Len(Defaults) \in 1 .. Len(file) /\ i = Len(Defaults) + (i - Len(Defaults))
      BY <1>3, <3>1 DEF FileInv, Begins
    <3> QED
      BY <1>1, <1>2, <3>1, <3>2 DEF FileInv, Begins
  <2> QED
    BY <2>1, <2>2
<1>5. Begins(Defaults \o user, Defaults \o file)
  BY <1>1, <1>2, <1>3, <1>4 DEF FileInv, Begins
<1> QED
  BY <1>1, <1>5 DEF FullList, FileInv

\* A list in which a ruleset is found is full, just read or not.
LEMMA KnownFull ==
  ASSUME FileInv, MemoryInv, NEW h \in Hosts, NEW base \in Numbers(ViewOf(h))
  PROVE  FullList(ViewOf(h), IndexOf(h))
<1>1. CASE Unread(h)
  BY <1>1, ReadFull DEF ViewOf, IndexOf
<1>2. CASE ~Unread(h)
  <2>1. Numbers(<<>>) = {}
    BY DEF Numbers
  <2>2. view[h] # <<>>
    BY <1>2, <2>1 DEF ViewOf
  <2> QED
    BY <1>2, <2>2 DEF ViewOf, IndexOf, MemoryInv, Full
<1> QED
  BY <1>1, <1>2

\* append() of a ruleset whose number is not in the index.
LEMMA AppendFull ==
  ASSUME NEW list, NEW numbers, FullList(list, numbers), NEW ruleset,
         ruleset.number \notin numbers
  PROVE  FullList(Append(list, ruleset), numbers \union {ruleset.number})
<1> DEFINE longer == Append(list, ruleset)
<1>1. /\ Listing(longer) /\ Len(longer) = Len(list) + 1
      /\ \A i \in 1 .. Len(list) : longer[i] = list[i]
      /\ longer[Len(list) + 1] = ruleset
  BY ListingAppend DEF FullList
<1>2. /\ Len(list) \in Nat /\ DOMAIN list = 1 .. Len(list)
      /\ DOMAIN longer = 1 .. Len(list) + 1
  BY <1>1, ListingLen DEF FullList
<1> HIDE DEF longer
<1>3. \A i \in DOMAIN list : list[i].number \in numbers
  BY DEF FullList, Numbers
<1>4. Readable(longer)
  <2> SUFFICES ASSUME NEW i \in DOMAIN longer, NEW k \in DOMAIN longer,
                      longer[i].number = longer[k].number
               PROVE  i = k
    BY DEF Readable
  <2>1. CASE i \in 1 .. Len(list) /\ k \in 1 .. Len(list)
    BY <1>1, <1>2, <2>1 DEF FullList, Readable
  <2>2. CASE i = Len(list) + 1 /\ k \in 1 .. Len(list)
    BY <1>1, <1>2, <1>3, <2>2
  <2>3. CASE k = Len(list) + 1 /\ i \in 1 .. Len(list)
    BY <1>1, <1>2, <1>3, <2>3
  <2> QED
    BY <1>2, <2>1, <2>2, <2>3
<1>5. Numbers(longer) \subseteq numbers \union {ruleset.number}
  <2> SUFFICES ASSUME NEW i \in DOMAIN longer
               PROVE  longer[i].number \in numbers \union {ruleset.number}
    BY DEF Numbers
  <2> QED
    BY <1>1, <1>2, <1>3
<1>6. Begins(Defaults \o user, longer)
  BY <1>1, <1>2 DEF FullList, Begins
<1> QED
  BY <1>1, <1>4, <1>5, <1>6 DEF FullList, longer

\* What save() writes of a full list: with the rulesets of the system in front
\* of it, the list again.
LEMMA ContentSame ==
  ASSUME FileInv, NEW h \in Hosts, Full(h)
  PROVE  LET list == view[h]
             rest == Content(h)
         IN  /\ Len(Defaults) <= Len(list)
             /\ Listing(rest) /\ Len(rest) = Len(list) - Len(Defaults)
             /\ \A i \in 1 .. Len(rest) : rest[i] = list[Len(Defaults) + i]
             /\ Len(Defaults \o rest) = Len(list)
             /\ DOMAIN (Defaults \o rest) = 1 .. Len(list)
             /\ \A i \in 1 .. Len(list) : (Defaults \o rest)[i] = list[i]
<1> DEFINE list == view[h]
           rest == Content(h)
<1>1. /\ Len(Defaults \o user) = Len(Defaults) + Len(user)
      /\ \A i \in 1 .. Len(Defaults) : (Defaults \o user)[i] = Defaults[i]
  BY DefaultsListed, ListingConcat DEF FileInv
<1>2. Len(Defaults) \in Nat /\ Len(user) \in Nat /\ Len(list) \in Nat
  BY DefaultsListed, ListingLen DEF FileInv, Full, FullList
<1>3. Len(Defaults) <= Len(list)
  BY <1>1, <1>2 DEF Full, FullList, Begins
<1>4. /\ Listing(rest) /\ Len(rest) = Len(list) - Len(Defaults)
      /\ \A i \in 1 .. Len(rest) : rest[i] = list[Len(Defaults) + i]
  BY <1>2, <1>3, ListingRest DEF Full, FullList, Content
<1>5. /\ Listing(Defaults \o rest)
      /\ Len(Defaults \o rest) = Len(Defaults) + Len(rest)
      /\ \A i \in 1 .. Len(Defaults) : (Defaults \o rest)[i] = Defaults[i]
      /\ \A i \in 1 .. Len(rest) : (Defaults \o rest)[Len(Defaults) + i] = rest[i]
  BY <1>4, DefaultsListed, ListingConcat
<1>6. Len(Defaults \o rest) = Len(list) /\ DOMAIN (Defaults \o rest) = 1 .. Len(list)
  BY <1>2, <1>4, <1>5, ListingLen
<1> HIDE DEF rest
<1>7. ASSUME NEW i \in 1 .. Len(list)
      PROVE  (Defaults \o rest)[i] = list[i]
  <2>1. CASE i <= Len(Defaults)
    BY <1>1, <1>2, <1>5, <1>7, <2>1 DEF Full, FullList, Begins
  <2>2. CASE ~(i <= Len(Defaults))
    <3>1. i - Len(Defaults) \in 1 .. Len(rest) /\ i = Len(Defaults) + (i - Len(Defaults))
      BY <1>2, <1>4, <1>7, <2>2
    <3> QED
      BY <1>4, <1>5, <3>1
  <2> QED
    BY <2>1, <2>2
<1> QED
  BY <1>3, <1>4, <1>6, <1>7 DEF rest

LEMMA ContentKept ==
  ASSUME FileInv, NEW h \in Hosts, Full(h)
  PROVE  Listing(Content(h)) /\ Readable(Defaults \o Content(h)) /\ Begins(user, Content(h))
<1> DEFINE list == view[h]
           rest == Content(h)
<1>1. /\ Len(Defaults \o user) = Len(Defaults) + Len(user)
      /\ \A i \in 1 .. Len(user) : (Defaults \o user)[Len(Defaults) + i] = user[i]
  BY DefaultsListed, ListingConcat DEF FileInv
<1>2. /\ Len(Defaults) \in Nat /\ Len(user) \in Nat /\ Len(list) \in Nat
      /\ DOMAIN list = 1 .. Len(list)
  BY DefaultsListed, ListingLen DEF FileInv, Full, FullList
<1>3. /\ Listing(rest) /\ Len(rest) = Len(list) - Len(Defaults)
      /\ \A i \in 1 .. Len(rest) : rest[i] = list[Len(Defaults) + i]
      /\ DOMAIN (Defaults \o rest) = 1 .. Len(list)
      /\ \A i \in 1 .. Len(list) : (Defaults \o rest)[i] = list[i]
  BY ContentSame
<1> HIDE DEF rest
<1>4. Readable(Defaults \o rest)
  BY <1>2, <1>3 DEF Full, FullList, Readable
<1>5. Len(user) <= Len(rest)
  BY <1>1, <1>2, <1>3 DEF Full, FullList, Begins
<1>6. ASSUME NEW i \in 1 .. Len(user)
      PROVE  user[i] = rest[i]
  <2>1. Len(Defaults) + i \in 1 .. Len(Defaults \o user) /\ i \in 1 .. Len(rest)
    BY <1>1, <1>2, <1>5, <1>6
  <2> QED
    BY <1>1, <1>3, <2>1 DEF Full, FullList, Begins
<1> QED
  BY <1>3, <1>4, <1>5, <1>6 DEF Begins, rest

(***************************************************************************)
(* The steps.                                                              *)
(***************************************************************************)

\* Only the memory of the host that acts changes, to a full or an empty list.
LEMMA OtherMemory ==
  ASSUME MemoryInv, NEW h \in Hosts, UNCHANGED user,
         DOMAIN view' = Hosts, DOMAIN index' = Hosts, DOMAIN op' = Hosts,
         \A g \in Hosts \ {h} :
           view'[g] = view[g] /\ index'[g] = index[g] /\ op'[g] = op[g],
         view'[h] = <<>> \/ Full(h)', At(h, "save")' => Full(h)'
  PROVE  MemoryInv'
<1>1. ASSUME NEW g \in Hosts \ {h}
      PROVE  (Full(g)' <=> Full(g)) /\ (At(g, "save")' <=> At(g, "save"))
  BY <1>1 DEF Full, FullList, At
<1>2. ASSUME NEW g \in Hosts
      PROVE  (view'[g] = <<>> \/ Full(g)') /\ (At(g, "save")' => Full(g)')
  BY <1>1, <1>2 DEF MemoryInv
<1> QED
  BY <1>2 DEF MemoryInv

LEMMA NewRulesetMemory ==
  ASSUME FileInv, MemoryInv, NEW h \in Hosts, At(h, "idle"), UNCHANGED user,
         NEW base \in Numbers(ViewOf(h)), NEW rules, NewRuleset(h, rules)
  PROVE  MemoryInv'
<1>1. FullList(ViewOf(h), IndexOf(h))
  BY KnownFull
<1> DEFINE number == NextNumber(h)
           ruleset == [number |-> number, rules |-> rules]
<1>2. CASE Duplicate(h, number)
  <2>1. /\ view' = [view EXCEPT ![h] = ViewOf(h)]
        /\ index' = [index EXCEPT ![h] = IndexOf(h)] /\ op' = op
    BY <1>2 DEF NewRuleset
  <2>2. Full(h)'
    BY <1>1, <2>1 DEF MemoryInv, Full, FullList
  <2> QED
    BY <2>1, <2>2, OtherMemory DEF MemoryInv
<1>3. CASE ~Duplicate(h, number)
  <2>1. /\ view' = [view EXCEPT ![h] = Append(ViewOf(h), ruleset)]
        /\ index' = [index EXCEPT ![h] = IndexOf(h) \union {number}]
        /\ op' = [op EXCEPT ![h] =
                    [pc |-> "save", number |-> number, rules |-> rules]]
    BY <1>3 DEF NewRuleset
  <2>2. FullList(Append(ViewOf(h), ruleset), IndexOf(h) \union {ruleset.number})
    BY <1>1, <1>3, AppendFull DEF Duplicate
  <2>3. Full(h)'
    BY <2>1, <2>2 DEF MemoryInv, Full, FullList
  <2> QED
    BY <2>1, <2>3, OtherMemory DEF MemoryInv
<1> QED
  BY <1>2, <1>3

LEMMA LookupKeeps ==
  ASSUME FileInv, MemoryInv, NEW h \in Hosts,
         NEW base \in Numbers(ViewOf(h)), NEW extra \in Extras,
         DevfsRuleset(h, base, extra)
  PROVE  FileInv' /\ MemoryInv'
<1>1. FileInv'
  BY DEF DevfsRuleset, FileInv
<1>2. UNCHANGED user /\ At(h, "idle")
  BY DEF DevfsRuleset
<1> DEFINE rules == Combine(RulesOf(ViewOf(h), base), extra)
<1>3. CASE NewRuleset(h, rules)
  BY <1>1, <1>2, <1>3, NewRulesetMemory
<1>4. CASE /\ view' = [view EXCEPT ![h] = ViewOf(h)]
           /\ index' = [index EXCEPT ![h] = IndexOf(h)] /\ op' = op
  <2>1. Full(h)'
    BY <1>2, <1>4, KnownFull DEF MemoryInv, Full, FullList
  <2> QED
    BY <1>1, <1>2, <1>4, <2>1, OtherMemory DEF MemoryInv
<1>5. \/ NewRuleset(h, rules)
      \/ /\ view' = [view EXCEPT ![h] = ViewOf(h)]
         /\ index' = [index EXCEPT ![h] = IndexOf(h)] /\ op' = op
  BY DEF DevfsRuleset
<1> QED
  BY <1>1, <1>3, <1>4, <1>5

LEMMA SaveKeeps ==
  ASSUME FileInv, MemoryInv, NEW h \in Hosts, Save(h)
  PROVE  FileInv' /\ MemoryInv'
<1>1. Full(h) /\ UNCHANGED <<view, index, user>>
  BY DEF Save, MemoryInv
<1>2. file' = file \/ file' = Content(h)
  BY DEF Save
<1>3. FileInv'
  BY <1>1, <1>2, ContentKept DEF FileInv, Begins
<1>4. Full(h)'
  BY <1>1 DEF Full, FullList
<1>5. DOMAIN op' = Hosts /\ \A g \in Hosts \ {h} : op'[g] = op[g]
  BY DEF Save, Return, MemoryInv
<1> QED
  BY <1>1, <1>3, <1>4, <1>5, OtherMemory DEF MemoryInv

LEMMA RestartKeeps ==
  ASSUME FileInv, MemoryInv, NEW h \in Hosts, Restart(h)
  PROVE  FileInv' /\ MemoryInv'
<1>1. UNCHANGED <<file, view, index, user>> /\ op' = [op EXCEPT ![h] = Rest]
  BY DEF Restart, Return
<1>2. ~At(h, "save")'
  BY <1>1 DEF At, Rest, MemoryInv
<1>3. view'[h] = <<>> \/ Full(h)'
  BY <1>1 DEF MemoryInv, Full, FullList
<1> QED
  BY <1>1, <1>2, <1>3, OtherMemory DEF FileInv, Begins, MemoryInv

LEMMA SetRulesFileKeeps ==
  ASSUME FileInv, MemoryInv, NEW h \in Hosts, SetRulesFile(h)
  PROVE  FileInv' /\ MemoryInv'
<1>1. /\ UNCHANGED <<file, user, op>> /\ op[h].pc = "idle"
      /\ view' = [view EXCEPT ![h] = IF Unread(h) THEN Defaults \o file ELSE <<>>]
      /\ index' = [index EXCEPT ![h] = IndexOf(h)]
  BY DEF SetRulesFile, history, At
<1>2. FullList(Defaults \o file, Numbers(Defaults \o file))
  BY ReadFull
<1>3. view'[h] = <<>> \/ Full(h)'
  BY <1>1, <1>2 DEF MemoryInv, IndexOf, Full, FullList
<1>4. ~At(h, "save")'
  BY <1>1 DEF At
<1> QED
  BY <1>1, <1>3, <1>4, OtherMemory DEF FileInv, Begins, MemoryInv

LEMMA StepKeeps ==
  ASSUME FileInv, MemoryInv, [Next]_vars
  PROVE  FileInv' /\ MemoryInv'
<1>1. CASE Next
  BY <1>1, LookupKeeps, SaveKeeps, RestartKeeps, SetRulesFileKeeps DEF Next
<1>2. CASE UNCHANGED vars
  BY <1>2 DEF vars, memory, history, FileInv, MemoryInv, Begins, Full, FullList, At
<1> QED
  BY <1>1, <1>2

(***************************************************************************)
(* What the kernel has loaded, while one host writes the file.             *)
(***************************************************************************)

System == Defaults \o file

InSystem(number, rules) ==
  \E i \in DOMAIN System : System[i].number = number /\ System[i].rules = rules

Loads(ruleset) ==
  ruleset.number \in DOMAIN loaded /\ loaded[ruleset.number] = ruleset.rules

\* At most one host has written the file.
Lone == \A a, b \in savers : a = b

\* What a host has in memory was in the files, but for a ruleset it has just
\* appended.  The one that writes the file has everything that is in it.
Read(h) == IF At(h, "save") THEN Len(view[h]) - 1 ELSE Len(view[h])
Older(h) == Read(h) <= Len(System) /\ \A i \in 1 .. Read(h) : view[h][i] = System[i]
Added(h) ==
  At(h, "save") => /\ view[h][Len(view[h])].number = op[h].number
                   /\ view[h][Len(view[h])].rules = op[h].rules
Newest(h) == view[h] # <<>> => Begins(System, view[h])

Written ==
  /\ savers = {} => file = user
  /\ \A h \in Hosts : Older(h) /\ Added(h)
  /\ \A h \in savers : Newest(h)
  /\ \A h \in Hosts : At(h, "restart") => InSystem(op[h].number, op[h].rules)
  /\ \A g \in granted : InSystem(g.number, g.rules)
  /\ (\A h \in Hosts : ~At(h, "restart")) => \A i \in DOMAIN file : Loads(file[i])

LoadInv ==
  /\ savers \subseteq Hosts
  /\ \A h \in Hosts : At(h, "restart") => h \in savers
  /\ \A i \in DOMAIN Defaults : Loads(Defaults[i])
  /\ ~failed /\ Lone => Written

\* A nonempty set of indexes has a first one.
Smaller == {pair \in Nat \X Nat : pair[1] < pair[2]}

LEMMA SmallestElement ==
  ASSUME NEW S, S \subseteq Nat, S # {}
  PROVE  \E i \in S : \A k \in S : i <= k
<1>1. IsWellFoundedOn(Smaller, Nat)
  BY NatLessThanWellFounded DEF OpToRel, Smaller
<1>2. PICK i \in S : \A k \in S : <<k, i>> \notin Smaller
  BY <1>1, WFMin
<1>3. ASSUME NEW k \in S PROVE i <= k
  <2>1. <<k, i>> \in Nat \X Nat /\ <<k, i>>[1] = k /\ <<k, i>>[2] = i
    OBVIOUS
  <2>2. ~(k < i)
    BY <1>2, <2>1 DEF Smaller
  <2>3. k \in Nat /\ i \in Nat
    OBVIOUS
  <2> QED
    BY <2>2, <2>3
<1> QED
  BY <1>3

LEMMA SystemListed ==
  ASSUME FileInv
  PROVE  /\ Len(Defaults) \in Nat /\ Len(file) \in Nat
         /\ DOMAIN Defaults = 1 .. Len(Defaults) /\ DOMAIN file = 1 .. Len(file)
         /\ Listing(System) /\ Len(System) = Len(Defaults) + Len(file)
         /\ DOMAIN System = 1 .. Len(Defaults) + Len(file)
         /\ \A i \in 1 .. Len(Defaults) : System[i] = Defaults[i]
         /\ \A i \in 1 .. Len(file) : System[Len(Defaults) + i] = file[i]
<1>1. Listing(Defaults) /\ Listing(file)
  BY DefaultsListed DEF FileInv
<1>2. /\ Listing(System) /\ Len(System) = Len(Defaults) + Len(file)
      /\ \A i \in 1 .. Len(Defaults) : System[i] = Defaults[i]
      /\ \A i \in 1 .. Len(file) : System[Len(Defaults) + i] = file[i]
  BY <1>1, ListingConcat DEF System
<1>3. /\ Len(Defaults) \in Nat /\ Len(file) \in Nat
      /\ DOMAIN Defaults = 1 .. Len(Defaults) /\ DOMAIN file = 1 .. Len(file)
  BY <1>1, ListingLen
<1>4. DOMAIN System = 1 .. Len(System)
  BY <1>2, ListingLen
<1> QED
  BY <1>2, <1>3, <1>4

LEMMA RulesFound ==
  ASSUME NEW content, Readable(content), NEW i \in DOMAIN content
  PROVE  RulesOf(content, content[i].number) = content[i].rules
<1> DEFINE found == CHOOSE k \in DOMAIN content : content[k].number = content[i].number
<1>1. found \in DOMAIN content /\ content[found].number = content[i].number
  OBVIOUS
<1>2. found = i
  BY <1>1 DEF Readable
<1> QED
  BY <1>2 DEF RulesOf

\* A file that is readable after the rulesets of the system is readable.
LEMMA FileAlone ==
  ASSUME FileInv
  PROVE  /\ Readable(file)
         /\ \A i \in DOMAIN Defaults, k \in DOMAIN file : Defaults[i].number # file[k].number
<1>1. /\ Len(Defaults) \in Nat /\ Len(file) \in Nat
      /\ DOMAIN Defaults = 1 .. Len(Defaults) /\ DOMAIN file = 1 .. Len(file)
      /\ DOMAIN System = 1 .. Len(Defaults) + Len(file)
      /\ \A i \in 1 .. Len(Defaults) : System[i] = Defaults[i]
      /\ \A i \in 1 .. Len(file) : System[Len(Defaults) + i] = file[i]
  BY SystemListed
<1>2. \A i, k \in DOMAIN System : System[i].number = System[k].number => i = k
  BY DEF FileInv, Readable, System
<1>3. ASSUME NEW i \in DOMAIN file, NEW k \in DOMAIN file, file[i].number = file[k].number
      PROVE  i = k
  <2>1. Len(Defaults) + i \in DOMAIN System /\ Len(Defaults) + k \in DOMAIN System
    BY <1>1
  <2>2. System[Len(Defaults) + i].number = System[Len(Defaults) + k].number
    BY <1>1, <1>3
  <2>3. Len(Defaults) + i = Len(Defaults) + k
    BY <1>2, <2>1, <2>2
  <2> QED
    BY <1>1, <2>3
<1>4. ASSUME NEW i \in DOMAIN Defaults, NEW k \in DOMAIN file,
             Defaults[i].number = file[k].number
      PROVE  FALSE
  <2>1. i \in DOMAIN System /\ Len(Defaults) + k \in DOMAIN System
    BY <1>1
  <2>2. System[i].number = System[Len(Defaults) + k].number
    BY <1>1, <1>4
  <2>3. i = Len(Defaults) + k
    BY <1>2, <2>1, <2>2
  <2> QED
    BY <1>1, <2>3
<1> QED
  BY <1>3, <1>4 DEF Readable

\* A restart of the service loads the file and leaves the system's alone.
LEMMA ReloadedLoads ==
  ASSUME FileInv, loaded' = Reloaded, UNCHANGED file
  PROVE  /\ \A i \in DOMAIN file : Loads(file[i])'
         /\ \A i \in DOMAIN Defaults : Loads(Defaults[i]) => Loads(Defaults[i])'
<1>1. /\ DOMAIN loaded' = DOMAIN loaded \union Numbers(file)
      /\ \A n \in DOMAIN loaded' :
           loaded'[n] = IF n \in Numbers(file) THEN RulesOf(file, n) ELSE loaded[n]
  BY DEF Reloaded
<1>2. ASSUME NEW i \in DOMAIN file
      PROVE  Loads(file[i])'
  <2>1. file[i].number \in Numbers(file)
    BY DEF Numbers
  <2>2. RulesOf(file, file[i].number) = file[i].rules
    BY FileAlone, RulesFound
  <2> QED
    BY <1>1, <2>1, <2>2 DEF Loads
<1>3. ASSUME NEW i \in DOMAIN Defaults, Loads(Defaults[i])
      PROVE  Loads(Defaults[i])'
  <2>1. Defaults[i].number \notin Numbers(file)
    BY FileAlone DEF Numbers
  <2> QED
    BY <1>1, <1>3, <2>1 DEF Loads
<1> QED
  BY <1>2, <1>3

LEMMA InitLoad == Init => LoadInv
<1> SUFFICES ASSUME Init PROVE LoadInv
  OBVIOUS
<1>1. FileInv /\ MemoryInv
  BY InitDevfs
<1>2. /\ loaded = [n \in Numbers(System) |-> RulesOf(System, n)]
      /\ view = [h \in Hosts |-> <<>>] /\ op = [h \in Hosts |-> Rest]
      /\ user = file /\ granted = {} /\ savers = {} /\ failed = FALSE
  BY DEF Init, System
<1>3. Readable(System)
  BY <1>1 DEF FileInv, System
<1>4. ASSUME NEW i \in DOMAIN System
      PROVE  Loads(System[i])
  <2>1. System[i].number \in Numbers(System)
    BY DEF Numbers
  <2>2. RulesOf(System, System[i].number) = System[i].rules
    BY <1>3, RulesFound
  <2> QED
    BY <1>2, <2>1, <2>2 DEF Loads
<1>5. /\ Len(Defaults) \in Nat /\ Len(file) \in Nat
      /\ DOMAIN Defaults = 1 .. Len(Defaults) /\ DOMAIN file = 1 .. Len(file)
      /\ Len(System) = Len(Defaults) + Len(file)
      /\ DOMAIN System = 1 .. Len(Defaults) + Len(file)
      /\ \A i \in 1 .. Len(Defaults) : System[i] = Defaults[i]
      /\ \A i \in 1 .. Len(file) : System[Len(Defaults) + i] = file[i]
  BY <1>1, SystemListed
<1>6. \A i \in DOMAIN Defaults : Loads(Defaults[i])
  BY <1>4, <1>5
<1>7. ASSUME NEW i \in DOMAIN file
      PROVE  Loads(file[i])
  <2>1. Len(Defaults) + i \in DOMAIN System /\ System[Len(Defaults) + i] = file[i]
    BY <1>5
  <2> QED
    BY <1>4, <2>1
<1>8. \A h \in Hosts : ~At(h, "save") /\ ~At(h, "restart")
  BY <1>2 DEF At, Rest
<1>9. \A h \in Hosts : Older(h) /\ Added(h)
  <2>1. Len(<<>>) = 0
    OBVIOUS
  <2> QED
    BY <1>2, <1>5, <1>8, <2>1 DEF Older, Added, Read
<1> QED
  BY <1>2, <1>6, <1>7, <1>8, <1>9 DEF LoadInv, Written

LEMMA LoadInvLoaded ==
  ASSUME FileInv, MemoryInv, LoadInv
  PROVE  RulesetLoaded
<1> SUFFICES ASSUME ~failed, Cardinality(savers) <= 1,
                    \A h \in Hosts : ~At(h, "restart"), NEW g \in granted
             PROVE  Loads(g)
  BY DEF RulesetLoaded, Loads
<1>1. IsFiniteSet(savers)
  BY HostAssumption, FS_Subset DEF LoadInv
<1>2. Lone
  <2> SUFFICES ASSUME NEW a \in savers, NEW b \in savers, a # b
               PROVE  FALSE
    BY DEF Lone
  <2>1. IsFiniteSet({a}) /\ Cardinality({a}) = 1
    BY FS_Singleton
  <2>2. b \notin {a}
    OBVIOUS
  <2>3. Cardinality({a} \union {b}) = 2
    <3>1. Cardinality({a} \union {b}) = Cardinality({a}) + 1
      BY <2>1, <2>2, FS_AddElement
    <3> QED
      BY <2>1, <3>1
  <2>4. {a} \union {b} \subseteq savers
    OBVIOUS
  <2>5. Cardinality({a} \union {b}) <= Cardinality(savers)
    BY <1>1, <2>4, FS_Subset
  <2>6. Cardinality(savers) \in Nat
    BY <1>1, FS_CardinalityType
  <2> QED
    BY <2>3, <2>5, <2>6
<1>3. /\ InSystem(g.number, g.rules)
      /\ \A i \in DOMAIN file : Loads(file[i])
      /\ \A i \in DOMAIN Defaults : Loads(Defaults[i])
  BY <1>2 DEF LoadInv, Written
<1>4. PICK i \in DOMAIN System : System[i].number = g.number /\ System[i].rules = g.rules
  BY <1>3 DEF InSystem
<1>5. /\ Len(Defaults) \in Nat /\ Len(file) \in Nat
      /\ DOMAIN Defaults = 1 .. Len(Defaults) /\ DOMAIN file = 1 .. Len(file)
      /\ DOMAIN System = 1 .. Len(Defaults) + Len(file)
      /\ \A k \in 1 .. Len(Defaults) : System[k] = Defaults[k]
      /\ \A k \in 1 .. Len(file) : System[Len(Defaults) + k] = file[k]
  BY SystemListed
<1>6. Loads(System[i])
  <2>1. CASE i <= Len(Defaults)
    BY <1>3, <1>5, <2>1
  <2>2. CASE ~(i <= Len(Defaults))
    <3>1. i - Len(Defaults) \in DOMAIN file /\ i = Len(Defaults) + (i - Len(Defaults))
      BY <1>4, <1>5, <2>2
    <3> QED
      BY <1>3, <1>5, <3>1
  <2> QED
    BY <2>1, <2>2
<1> QED
  BY <1>4, <1>6 DEF Loads

\* Everything that does not read the memory of the host that acts.
LEMMA OthersOlder ==
  ASSUME Written, NEW h \in Hosts, UNCHANGED file, NEW g \in Hosts \ {h},
         view'[g] = view[g], op'[g] = op[g]
  PROVE  /\ Older(g)' /\ Added(g)' /\ (Newest(g) => Newest(g)')
         /\ At(g, "restart")' => InSystem(op[g].number, op[g].rules)'
<1>1. /\ Older(g) /\ Added(g)
      /\ At(g, "restart") => InSystem(op[g].number, op[g].rules)
  BY DEF Written
<1> QED
  BY <1>1 DEF Older, Added, Read, Newest, Begins, At, InSystem, System

\* What a host looks rules up in: an older state of the files, or all of them.
LEMMA LookedUp ==
  ASSUME FileInv, MemoryInv, Written, NEW h \in Hosts, At(h, "idle"),
         NEW base \in Numbers(ViewOf(h))
  PROVE  /\ Listing(ViewOf(h)) /\ Begins(ViewOf(h), System)
         /\ h \in savers => Begins(System, ViewOf(h))
<1>1. Listing(ViewOf(h))
  BY KnownFull DEF FullList
<1>2. CASE Unread(h)
  <2>1. ViewOf(h) = System
    BY <1>2 DEF ViewOf, System
  <2>2. Len(System) \in Nat
    BY <1>1, <2>1, ListingLen
  <2> QED
    BY <1>1, <2>1, <2>2 DEF Begins
<1>3. CASE ~Unread(h)
  <2>1. ViewOf(h) = view[h] /\ view[h] # <<>>
    BY <1>3 DEF ViewOf, Numbers
  <2>2. ~At(h, "save")
    BY DEF At
  <2>3. Begins(view[h], System)
    BY <2>2 DEF Written, Older, Read, Begins
  <2> QED
    BY <1>1, <2>1, <2>3 DEF Written, Newest
<1> QED
  BY <1>2, <1>3

LEMMA LookupLoads ==
  ASSUME FileInv, MemoryInv, LoadInv, NEW h \in Hosts,
         NEW base \in Numbers(ViewOf(h)), NEW extra \in Extras,
         DevfsRuleset(h, base, extra)
  PROVE  LoadInv'
<1> DEFINE known == ViewOf(h)
           rules == Combine(RulesOf(known, base), extra)
           same == {i \in DOMAIN known : known[i].rules = rules}
           number == NextNumber(h)
<1> HIDE DEF rules, number
<1>1. At(h, "idle") /\ UNCHANGED <<file, loaded, user, savers, failed>>
  BY DEF DevfsRuleset
<1>2. /\ DOMAIN view' = Hosts /\ DOMAIN op' = Hosts
      /\ \A g \in Hosts \ {h} : view'[g] = view[g] /\ op'[g] = op[g]
      /\ \/ /\ view'[h] = known /\ op'[h] = op[h]
            /\ \/ UNCHANGED granted
               \/ \E i \in same : granted' = granted \union {[number |-> known[i].number, rules |-> rules]}
         \/ /\ view'[h] = Append(known, [number |-> number, rules |-> rules])
            /\ op'[h] = [pc |-> "save", number |-> number, rules |-> rules]
            /\ UNCHANGED granted
  <2>1. CASE same = {}
    <3>1. NewRuleset(h, rules) /\ UNCHANGED granted
      BY <2>1 DEF DevfsRuleset, rules
    <3> QED
      BY <3>1 DEF NewRuleset, MemoryInv, number
  <2>2. CASE same # {}
    <3> DEFINE first == CHOOSE i \in same : \A k \in same : i <= k
    <3>1. /\ Grant(known[first].number, rules) /\ UNCHANGED op
          /\ view' = [view EXCEPT ![h] = known]
      BY <2>2 DEF DevfsRuleset, rules
    <3>2. first \in same
      <4>1. \E i \in same : \A k \in same : i <= k
        <5>1. same \subseteq Nat /\ same # {}
          BY <2>2, KnownFull, ListingLen DEF FullList
        <5> HIDE DEF same
        <5> QED
          BY <5>1, SmallestElement
      <4> QED
        BY <4>1
    <3> QED
      BY <3>1, <3>2 DEF Grant, MemoryInv
  <2> QED
    BY <2>1, <2>2
<1>3. \A g \in Hosts : At(g, "restart")' => At(g, "restart")
  BY <1>1, <1>2 DEF At
<1>4. ASSUME ~failed', Lone' PROVE Written'
  <2>1. Written
    BY <1>1, <1>4 DEF LoadInv, Lone
  <2>2. /\ Listing(known) /\ Begins(known, System)
        /\ h \in savers => Begins(System, known)
    BY <1>1, <2>1, LookedUp
  <2>3. Len(known) \in Nat /\ DOMAIN known = 1 .. Len(known)
    BY <2>2, ListingLen
  <2>4. /\ DOMAIN System = 1 .. Len(System) /\ Len(System) \in Nat
        /\ System' = System
    BY <1>1, SystemListed, ListingLen DEF System
  <2> HIDE DEF known
  <2>5. Older(h)' /\ Added(h)' /\ (h \in savers => Newest(h)')
    <3>1. CASE view'[h] = known /\ op'[h] = op[h]
      <4>1. ~At(h, "save")'
        BY <1>1, <3>1 DEF At
      <4> QED
        BY <2>2, <2>4, <3>1, <4>1 DEF Older, Added, Read, Newest, Begins
    <3>2. CASE /\ view'[h] = Append(known, [number |-> number, rules |-> rules])
               /\ op'[h] = [pc |-> "save", number |-> number, rules |-> rules]
      <4> DEFINE longer == Append(known, [number |-> number, rules |-> rules])
      <4>1. /\ Len(longer) = Len(known) + 1
            /\ \A i \in 1 .. Len(known) : longer[i] = known[i]
            /\ longer[Len(known) + 1] = [number |-> number, rules |-> rules]
        BY <2>2, ListingAppend
      <4> HIDE DEF longer
      <4>2. view'[h] = longer /\ Len(longer) - 1 = Len(known)
        BY <2>3, <3>2, <4>1 DEF longer
      <4>3. At(h, "save")' /\ op'[h].number = number /\ op'[h].rules = rules
        BY <3>2 DEF At
      <4>4. Older(h)'
        BY <2>2, <2>3, <2>4, <4>1, <4>2, <4>3 DEF Older, Read, Begins
      <4>5. Added(h)'
        BY <4>1, <4>2, <4>3 DEF Added
      <4>6. h \in savers => Newest(h)'
        BY <2>2, <2>3, <2>4, <4>1, <4>2 DEF Newest, Begins
      <4> QED
        BY <4>4, <4>5, <4>6
    <3> QED
      BY <1>2, <3>1, <3>2
  <2>6. \A g \in Hosts \ {h} :
           /\ Older(g)' /\ Added(g)' /\ (Newest(g) => Newest(g)')
           /\ At(g, "restart")' => InSystem(op[g].number, op[g].rules)'
    BY <1>1, <1>2, <2>1, OthersOlder
  <2>7. ~At(h, "restart")'
    BY <1>1, <1>3 DEF At
  <2>8. ASSUME NEW g \in granted' PROVE InSystem(g.number, g.rules)'
    <3>1. CASE g \in granted
      BY <2>1, <2>4, <3>1 DEF Written, InSystem
    <3>2. CASE \E i \in same : g = [number |-> known[i].number, rules |-> rules]
      <4>1. PICK i \in DOMAIN known : known[i].rules = rules /\ g = [number |-> known[i].number, rules |-> rules]
        BY <3>2 DEF known
      <4>2. i \in DOMAIN System /\ System[i] = known[i]
        BY <2>2, <2>3, <2>4, <4>1 DEF Begins
      <4> QED
        BY <2>4, <4>1, <4>2 DEF InSystem
    <3> QED
      BY <1>2, <3>1, <3>2
  <2>9. (\A g \in Hosts : ~At(g, "restart")') => (\A i \in DOMAIN file : Loads(file[i]))'
    <3>1. ~At(h, "restart")
      BY <1>1 DEF At
    <3>2. (\A g \in Hosts : ~At(g, "restart")') => \A g \in Hosts : ~At(g, "restart")
      BY <1>2, <3>1 DEF At
    <3> QED
      BY <1>1, <2>1, <3>2 DEF Written, Loads
  <2>10. \A g \in savers' : Newest(g)'
    BY <1>1, <2>1, <2>5, <2>6 DEF Written, LoadInv
  <2> QED
    BY <1>1, <2>1, <2>5, <2>6, <2>7, <2>8, <2>9, <2>10 DEF Written
<1> QED
  BY <1>1, <1>3, <1>4 DEF LoadInv, Loads

\* The file is written by the host that has the newest list: all that was in
\* it stays, in its place.
LEMMA SaveGrows ==
  ASSUME FileInv, MemoryInv, Written, NEW h \in Hosts, Full(h),
         h \in savers \/ savers = {}, view[h] # <<>>, file' = Content(h)
  PROVE  /\ Len(System') = Len(view[h]) /\ DOMAIN System' = 1 .. Len(view[h])
         /\ \A i \in 1 .. Len(view[h]) : System'[i] = view[h][i]
         /\ Begins(System, System')
<1>1. /\ Len(System') = Len(view[h]) /\ DOMAIN System' = 1 .. Len(view[h])
      /\ \A i \in 1 .. Len(view[h]) : System'[i] = view[h][i]
  BY ContentSame DEF System
<1>2. Begins(System, view[h])
  BY DEF Written, Newest, Full, FullList, System
<1>3. Len(System) \in Nat /\ Len(view[h]) \in Nat
  BY SystemListed, ListingLen DEF Full, FullList
<1> QED
  BY <1>1, <1>2, <1>3 DEF Begins

LEMMA SaveLoads ==
  ASSUME FileInv, MemoryInv, LoadInv, NEW h \in Hosts, Save(h)
  PROVE  LoadInv'
<1>1. At(h, "save") /\ Full(h) /\ UNCHANGED <<loaded, view, index, user>>
  BY DEF Save, MemoryInv
<1>2. /\ Len(view[h]) \in Nat /\ DOMAIN view[h] = 1 .. Len(view[h])
      /\ Len(Defaults) \in Nat /\ Len(Defaults) > 0
      /\ Len(Defaults) <= Len(view[h]) /\ view[h] # <<>>
  <2>1. Len(view[h]) \in Nat /\ DOMAIN view[h] = 1 .. Len(view[h])
    BY <1>1, ListingLen DEF Full, FullList
  <2>2. Len(Defaults) \in Nat /\ Len(Defaults) > 0
    BY DefaultsAssumption
  <2>3. Len(Defaults) <= Len(view[h])
    BY <1>1, ContentSame
  <2>4. Len(<<>>) = 0
    OBVIOUS
  <2> QED
    BY <2>1, <2>2, <2>3, <2>4
<1>3. /\ DOMAIN op' = Hosts /\ \A g \in Hosts \ {h} : op'[g] = op[g]
      /\ op[h].pc = "save"
  BY <1>1 DEF Save, Return, MemoryInv, At
<1>4. \A i \in DOMAIN Defaults : Loads(Defaults[i])'
  BY <1>1 DEF LoadInv, Loads
<1>5. CASE Content(h) = file /\ Return(h) /\ Grant(op[h].number, op[h].rules)
           /\ UNCHANGED <<file, savers, failed>>
  <2>1. op'[h].pc = "idle"
    BY <1>5 DEF Return, MemoryInv, Rest
  <2>2. \A g \in Hosts : At(g, "restart")' <=> At(g, "restart")
    BY <1>3, <2>1 DEF At
  <2>3. ASSUME ~failed', Lone' PROVE Written'
    <3>1. Written
      BY <1>5, <2>3 DEF LoadInv, Lone
    <3>2. /\ Len(System) = Len(view[h]) /\ DOMAIN System = 1 .. Len(view[h])
          /\ \A i \in 1 .. Len(view[h]) : System[i] = view[h][i]
          /\ System' = System
      BY <1>1, <1>5, ContentSame DEF System
    <3>3. InSystem(op[h].number, op[h].rules)
      BY <1>1, <1>2, <3>1, <3>2 DEF Written, Added, InSystem
    <3>4. Older(h)' /\ Added(h)'
      BY <1>1, <1>2, <2>1, <3>2 DEF Older, Added, Read, At
    <3>5. Newest(h) => Newest(h)'
      BY <1>1, <3>2 DEF Newest, Begins
    <3>6. \A g \in Hosts \ {h} :
             /\ Older(g)' /\ Added(g)' /\ (Newest(g) => Newest(g)')
             /\ At(g, "restart")' => InSystem(op[g].number, op[g].rules)'
      BY <1>1, <1>3, <1>5, <3>1, OthersOlder
    <3>7. \A g \in granted' : InSystem(g.number, g.rules)'
      BY <1>5, <3>1, <3>2, <3>3 DEF Written, InSystem, Grant
    <3>8. (\A g \in Hosts : ~At(g, "restart")') => (\A i \in DOMAIN file : Loads(file[i]))'
      BY <1>1, <1>5, <2>2, <3>1 DEF Written, Loads
    <3>9. \A g \in savers' : Newest(g)'
      BY <1>5, <3>1, <3>5, <3>6 DEF Written, LoadInv
    <3>10. ~At(h, "restart")'
      BY <2>1 DEF At
    <3> QED
      BY <1>1, <1>5, <3>1, <3>4, <3>6, <3>7, <3>8, <3>9, <3>10 DEF Written
  <2> QED
    BY <1>4, <1>5, <2>2, <2>3 DEF LoadInv
<1>6. CASE /\ file' = Content(h) /\ savers' = savers \union {h}
           /\ op' = [op EXCEPT ![h].pc = "restart"] /\ UNCHANGED <<granted, failed>>
  <2>1. op'[h] = [op[h] EXCEPT !.pc = "restart"]
    BY <1>6 DEF MemoryInv
  <2>2. ~At(h, "save")' /\ op'[h].number = op[h].number /\ op'[h].rules = op[h].rules
    <3>1. op'[h].pc # "save"
      BY <1>3, <2>1
    <3> QED
      BY <2>1, <3>1 DEF At
  <2>3. \A g \in Hosts : At(g, "restart")' => g \in savers'
    BY <1>3, <1>6 DEF At, LoadInv
  <2>4. ASSUME ~failed', Lone' PROVE Written'
    <3>1. Written /\ (h \in savers \/ savers = {})
      BY <1>6, <2>4 DEF LoadInv, Lone
    <3>2. /\ Len(System') = Len(view[h]) /\ DOMAIN System' = 1 .. Len(view[h])
          /\ \A i \in 1 .. Len(view[h]) : System'[i] = view[h][i]
          /\ Begins(System, System')
      BY <1>1, <1>2, <1>6, <3>1, SaveGrows
    <3>3. DOMAIN System = 1 .. Len(System) /\ Len(System) \in Nat
      BY SystemListed, ListingLen
    <3>4. ASSUME NEW number, NEW rules, InSystem(number, rules)
          PROVE  \E i \in DOMAIN System' : System'[i].number = number /\ System'[i].rules = rules
      BY <1>2, <3>2, <3>3, <3>4 DEF InSystem, Begins
    <3>5. Older(h)' /\ Added(h)' /\ Newest(h)'
      BY <1>1, <1>2, <2>2, <3>2 DEF Older, Added, Read, Newest, Begins
    <3>6. ASSUME NEW g \in Hosts \ {h}
          PROVE  Older(g)' /\ Added(g)'
      <4>1. view'[g] = view[g] /\ op'[g] = op[g] /\ Older(g) /\ Added(g)
        BY <1>1, <1>3, <3>1 DEF Written
      <4>2. Added(g)' /\ Read(g)' = Read(g)
        BY <4>1 DEF Added, Read, At
      <4>3. Len(view[g]) \in Nat
        <5>1. Len(<<>>) = 0
          OBVIOUS
        <5> QED
          BY <5>1, ListingLen DEF MemoryInv, Full, FullList
      <4>4. Read(g) \in Int /\ Read(g) <= Len(System)
        BY <4>1, <4>3 DEF Read, Older
      <4>5. \A i \in 1 .. Read(g) : i \in 1 .. Len(System)
        BY <3>3, <4>4
      <4>6. Len(System) <= Len(System') /\ Len(System') \in Nat
        BY <1>2, <3>2 DEF Begins
      <4> HIDE DEF System
      <4>7. Read(g)' <= Len(System') /\ \A i \in 1 .. Read(g)' : view'[g][i] = System'[i]
        BY <3>2, <3>3, <4>1, <4>2, <4>4, <4>5, <4>6 DEF Older, Begins
      <4> QED
        BY <4>2, <4>7 DEF Older
    <3>7. \A g \in savers' : g = h
      BY <1>6, <2>4 DEF Lone
    <3>8. InSystem(op[h].number, op[h].rules)'
      <4>1. /\ Len(view[h]) \in DOMAIN System'
            /\ System'[Len(view[h])] = view[h][Len(view[h])]
        BY <1>2, <3>2
      <4>2. /\ view[h][Len(view[h])].number = op[h].number
            /\ view[h][Len(view[h])].rules = op[h].rules
        BY <1>1, <3>1 DEF Written, Added
      <4> QED
        BY <2>2, <4>1, <4>2 DEF InSystem
    <3>9. \A g \in Hosts : At(g, "restart")' => g = h
      BY <2>3, <3>7
    <3>10. ASSUME NEW g \in granted' PROVE InSystem(g.number, g.rules)'
      <4>1. InSystem(g.number, g.rules)
        BY <1>6, <3>1 DEF Written
      <4> QED
        BY <3>4, <4>1 DEF InSystem
    <3>11. At(h, "restart")'
      BY <2>1 DEF At
    <3> QED
      BY <1>6, <3>5, <3>6, <3>7, <3>8, <3>9, <3>10, <3>11 DEF Written
  <2>5. savers' \subseteq Hosts
    BY <1>6 DEF LoadInv
  <2> QED
    BY <1>4, <2>3, <2>4, <2>5 DEF LoadInv
<1>7. CASE Return(h) /\ failed' = TRUE /\ UNCHANGED <<file, granted, savers>>
  <2>1. \A g \in Hosts : At(g, "restart")' => g \in savers'
    BY <1>3, <1>7 DEF At, LoadInv, Return, Rest, MemoryInv
  <2> QED
    BY <1>4, <1>7, <2>1 DEF LoadInv
<1> QED
  BY <1>5, <1>6, <1>7 DEF Save

LEMMA RestartLoads ==
  ASSUME FileInv, MemoryInv, LoadInv, NEW h \in Hosts, Restart(h)
  PROVE  LoadInv'
<1>1. /\ At(h, "restart") /\ op' = [op EXCEPT ![h] = Rest]
      /\ UNCHANGED <<file, view, index, user, savers>>
  BY DEF Restart, Return
<1>2. op'[h].pc = "idle" /\ \A g \in Hosts \ {h} : op'[g] = op[g]
  BY <1>1 DEF MemoryInv, Rest
<1>3. \A g \in Hosts : At(g, "restart")' => g \in savers'
  BY <1>1, <1>2 DEF At, LoadInv
<1>4. \A i \in DOMAIN Defaults : Loads(Defaults[i])'
  <2>1. CASE loaded' = Reloaded
    BY <1>1, <2>1, ReloadedLoads DEF LoadInv
  <2>2. CASE loaded' = loaded
    BY <2>2 DEF LoadInv, Loads
  <2> QED
    BY <2>1, <2>2 DEF Restart
<1>5. CASE loaded' = Reloaded /\ Grant(op[h].number, op[h].rules) /\ UNCHANGED failed
  <2>1. ASSUME ~failed', Lone' PROVE Written'
    <3>1. Written
      BY <1>1, <1>5, <2>1 DEF LoadInv, Lone
    <3>2. System' = System
      BY <1>1 DEF System
    <3>3. Older(h)' /\ Added(h)'
      <4>1. ~At(h, "save") /\ ~At(h, "save")'
        BY <1>1, <1>2 DEF At
      <4> QED
        BY <1>1, <3>1, <3>2, <4>1 DEF Written, Older, Added, Read
    <3>4. \A g \in Hosts \ {h} :
             /\ Older(g)' /\ Added(g)' /\ (Newest(g) => Newest(g)')
             /\ At(g, "restart")' => InSystem(op[g].number, op[g].rules)'
      BY <1>1, <1>2, <3>1, OthersOlder
    <3>5. \A g \in savers' : Newest(g)'
      BY <1>1, <3>1, <3>2 DEF Written, Newest, Begins
    <3>6. \A g \in granted' : InSystem(g.number, g.rules)'
      BY <1>1, <1>5, <3>1, <3>2 DEF Written, InSystem, Grant
    <3>7. (\A i \in DOMAIN file : Loads(file[i]))'
      BY <1>1, <1>5, ReloadedLoads
    <3>8. ~At(h, "restart")'
      BY <1>2 DEF At
    <3> QED
      BY <1>1, <3>1, <3>3, <3>4, <3>5, <3>6, <3>7, <3>8 DEF Written
  <2> QED
    BY <1>1, <1>3, <1>4, <2>1 DEF LoadInv
<1>6. CASE failed' = TRUE
  BY <1>1, <1>3, <1>4, <1>6 DEF LoadInv
<1> QED
  BY <1>5, <1>6 DEF Restart

LEMMA SetRulesFileLoads ==
  ASSUME FileInv, MemoryInv, LoadInv, NEW h \in Hosts, SetRulesFile(h)
  PROVE  LoadInv'
<1>1. /\ UNCHANGED <<file, loaded, op, user, granted, savers, failed>>
      /\ op[h].pc = "idle"
      /\ view' = [view EXCEPT ![h] = IF Unread(h) THEN System ELSE <<>>]
  BY DEF SetRulesFile, history, At, System
<1>2. \A g \in Hosts : At(g, "restart")' <=> At(g, "restart")
  BY <1>1 DEF At
<1>3. ASSUME ~failed', Lone' PROVE Written'
  <2>1. Written
    BY <1>1, <1>3 DEF LoadInv, Lone
  <2>2. System' = System /\ Len(System) \in Nat
    BY <1>1, SystemListed, ListingLen DEF System
  <2>3. view'[h] = System \/ view'[h] = <<>>
    BY <1>1 DEF MemoryInv
  <2>4. ~At(h, "save")' /\ ~At(h, "restart")'
    BY <1>1 DEF At
  <2>5. Len(<<>>) = 0
    OBVIOUS
  <2>6. Older(h)' /\ Added(h)' /\ Newest(h)'
    BY <2>2, <2>3, <2>4, <2>5 DEF Older, Added, Read, Newest, Begins
  <2>7. \A g \in Hosts \ {h} :
           /\ Older(g)' /\ Added(g)' /\ (Newest(g) => Newest(g)')
           /\ At(g, "restart")' => InSystem(op[g].number, op[g].rules)'
    BY <1>1, <2>1, OthersOlder DEF MemoryInv
  <2>8. \A g \in savers' : Newest(g)'
    BY <1>1, <2>1, <2>6, <2>7 DEF Written, LoadInv
  <2>9. \A g \in granted' : InSystem(g.number, g.rules)'
    BY <1>1, <2>1, <2>2 DEF Written, InSystem
  <2>10. (\A g \in Hosts : ~At(g, "restart")') => (\A i \in DOMAIN file : Loads(file[i]))'
    BY <1>1, <1>2, <2>1 DEF Written, Loads
  <2> QED
    BY <1>1, <2>1, <2>4, <2>6, <2>7, <2>8, <2>9, <2>10 DEF Written
<1> QED
  BY <1>1, <1>2, <1>3 DEF LoadInv, Loads

LEMMA StepLoad ==
  ASSUME FileInv, MemoryInv, LoadInv, [Next]_vars
  PROVE  LoadInv'
<1>1. CASE Next
  BY <1>1, LookupLoads, SaveLoads, RestartLoads, SetRulesFileLoads DEF Next
<1>2. CASE UNCHANGED vars
  BY <1>2 DEF vars, memory, history, LoadInv, Written, Lone, Loads, InSystem, System,
              Older, Added, Read, Newest, Begins, At
<1> QED
  BY <1>1, <1>2

(***************************************************************************)
(* Types.                                                                  *)
(***************************************************************************)
\* The lines of a ruleset and of a configuration are lines of a ruleset.  The
\* recursive function is shown to exist, and then to have this type, by the
\* smallest number of lines for which it would not.
LEMMA CombineTyped ==
  ASSUME NEW rules \in Seq(Rules), NEW extra \in Seq(Rules)
  PROVE  Combine(rules, extra) \in Seq(Rules)
<1> DEFINE lines == rules \o extra
           Step(f, n) ==
             IF n = 0 THEN <<>>
             ELSE IF Contains(f[n - 1], lines[n]) THEN f[n - 1]
             ELSE Append(f[n - 1], lines[n])
           Adds(f, n) == \A k \in 0 .. n : f[k] = Step(f, k)
           Result == CHOOSE f : f = [n \in 0 .. Len(lines) |-> Step(f, n)]
<1>1. lines \in Seq(Rules) /\ Len(lines) \in Nat
      /\ \A n \in 1 .. Len(lines) : lines[n] \in Rules
  OBVIOUS
<1>2. Combine(rules, extra) = Result[Len(lines)]
  BY DEF Combine
<1> HIDE DEF lines
<1>3. ASSUME NEW n \in 0 .. Len(lines)
      PROVE  \E f \in [0 .. n -> Seq(Rules)] : Adds(f, n)
  <2> DEFINE Fits(m) == \E f \in [0 .. m -> Seq(Rules)] : Adds(f, m)
             Bad == {m \in 0 .. Len(lines) : ~Fits(m)}
  <2> SUFFICES ASSUME Bad # {} PROVE FALSE
    OBVIOUS
  <2>1. PICK m \in Bad : \A k \in Bad : m <= k
    <3>1. Bad \subseteq Nat
      BY <1>1
    <3> HIDE DEF Bad
    <3> QED
      BY <3>1, SmallestElement
  <2>2. m \in 0 .. Len(lines) /\ ~Fits(m)
    OBVIOUS
  <2>3. Fits(0)
    <3> DEFINE f == [k \in 0 .. 0 |-> <<>>]
    <3>1. f \in [0 .. 0 -> Seq(Rules)] /\ Adds(f, 0)
      OBVIOUS
    <3> QED
      BY <3>1
  <2>4. m - 1 \in 0 .. Len(lines) /\ m \in 1 .. Len(lines) /\ Fits(m - 1)
    <3> HIDE DEF Fits
    <3>1. m \in 1 .. Len(lines) /\ m - 1 \in 0 .. Len(lines)
      BY <1>1, <2>2, <2>3
    <3>2. m - 1 \notin Bad
      BY <1>1, <2>1, <3>1
    <3> QED
      BY <3>1, <3>2
  <2>5. PICK g \in [0 .. m - 1 -> Seq(Rules)] : Adds(g, m - 1)
    BY <2>4
  <2> DEFINE f == [k \in 0 .. m |-> IF k = m THEN Step(g, m) ELSE g[k]]
  <2>6. m - 1 \in 0 .. m - 1 /\ g[m - 1] \in Seq(Rules) /\ lines[m] \in Rules
    BY <1>1, <2>4
  <2>7. Step(g, m) \in Seq(Rules)
    BY <2>6
  <2>8. f \in [0 .. m -> Seq(Rules)]
    <3> HIDE DEF Step
    <3> QED
      BY <2>4, <2>7
  <2>9. ASSUME NEW k \in 0 .. m
        PROVE  f[k] = Step(f, k)
    <3>1. k # 0 => k - 1 \in 0 .. m /\ k - 1 # m
      BY <2>4
    <3>2. k # 0 => f[k - 1] = g[k - 1]
      <4> HIDE DEF Step
      <4> QED
        BY <3>1
    <3> HIDE DEF f
    <3>3. Step(f, k) = Step(g, k)
      BY <3>2
    <3> HIDE DEF Step
    <3>4. k # m => k \in 0 .. m - 1
      BY <2>4
    <3>5. k # m => g[k] = Step(g, k)
      BY <2>5, <3>4
    <3> QED
      BY <3>3, <3>5 DEF f
  <2>10. Adds(f, m)
    <3> HIDE DEF Step, f
    <3> QED
      BY <2>9
  <2> QED
    <3> HIDE DEF Adds, f
    <3> QED
      BY <2>2, <2>8, <2>10
<1>4. Result = [n \in 0 .. Len(lines) |-> Step(Result, n)]
  <2>1. PICK f \in [0 .. Len(lines) -> Seq(Rules)] : Adds(f, Len(lines))
    <3>1. Len(lines) \in 0 .. Len(lines)
      BY <1>1
    <3> HIDE DEF Adds
    <3> QED
      BY <1>3, <3>1
  <2>2. f = [n \in 0 .. Len(lines) |-> Step(f, n)]
    <3> HIDE DEF Step
    <3> QED
      BY <2>1
  <2> HIDE DEF Step
  <2> QED
    BY <2>2
<1> HIDE DEF Result
<1>5. \A n \in 0 .. Len(lines) : Result[n] = Step(Result, n)
  <2> HIDE DEF Step
  <2> QED
    BY <1>4
<1>6. ASSUME NEW n \in 0 .. Len(lines)
      PROVE  Result[n] \in Seq(Rules)
  <2> DEFINE Bad == {m \in 0 .. Len(lines) : Result[m] \notin Seq(Rules)}
  <2> SUFFICES ASSUME Bad # {} PROVE FALSE
    OBVIOUS
  <2>1. PICK m \in Bad : \A k \in Bad : m <= k
    <3>1. Bad \subseteq Nat
      BY <1>1
    <3> HIDE DEF Bad
    <3> QED
      BY <3>1, SmallestElement
  <2>2. m \in 0 .. Len(lines) /\ Result[m] \notin Seq(Rules)
    OBVIOUS
  <2>3. Result[m] = Step(Result, m)
    <3> HIDE DEF Step
    <3> QED
      BY <1>5, <2>2
  <2>4. m # 0
    BY <2>2, <2>3
  <2>5. m \in 1 .. Len(lines) /\ m - 1 \in 0 .. Len(lines) /\ m - 1 \notin Bad
    <3> HIDE DEF Step
    <3> QED
      BY <1>1, <2>1, <2>2, <2>4
  <2>6. Result[m - 1] \in Seq(Rules) /\ lines[m] \in Rules
    BY <1>1, <2>5
  <2> QED
    BY <2>2, <2>3, <2>4, <2>6
<1> QED
  BY <1>1, <1>2, <1>6

LEMMA RulesOfTyped ==
  ASSUME NEW content \in Seq(Rulesets), NEW n \in Numbers(content)
  PROVE  RulesOf(content, n) \in Seq(Rules)
<1>1. PICK i \in DOMAIN content : content[i].number = n
  BY DEF Numbers
<1>2. (CHOOSE k \in DOMAIN content : content[k].number = n) \in DOMAIN content
  BY <1>1
<1>3. \A k \in DOMAIN content : content[k] \in Rulesets
  OBVIOUS
<1> QED
  BY <1>2, <1>3 DEF RulesOf, Rulesets

LEMMA NumbersTyped ==
  ASSUME NEW content \in Seq(Rulesets)
  PROVE  Numbers(content) \subseteq Nat /\ IsFiniteSet(Numbers(content))
<1> DEFINE number == [i \in DOMAIN content |-> content[i].number]
<1>1. \A i \in DOMAIN content : content[i] \in Rulesets
  OBVIOUS
<1>2. Numbers(content) \subseteq Nat
  BY <1>1 DEF Numbers, Rulesets
<1>3. IsFiniteSet(DOMAIN content)
  <2>1. DOMAIN content = 1 .. Len(content) /\ Len(content) \in Nat
    OBVIOUS
  <2> QED
    BY <2>1, FS_Interval
<1>4. number \in Surjection(DOMAIN content, Numbers(content))
  BY DEF Numbers, Surjection
<1> QED
  BY <1>2, <1>3, <1>4, FS_Surjection

\* The numbers in the indexes can be counted.
TypeInv == TypeOK /\ \A h \in Hosts : IsFiniteSet(index[h])

LEMMA SystemTyped ==
  ASSUME TypeInv
  PROVE  Defaults \o file \in Seq(Rulesets)
BY DefaultsAssumption DEF TypeInv, TypeOK

LEMMA KnownTyped ==
  ASSUME TypeInv, NEW h \in Hosts
  PROVE  /\ ViewOf(h) \in Seq(Rulesets)
         /\ IndexOf(h) \subseteq Nat /\ IsFiniteSet(IndexOf(h))
         /\ NextNumber(h) \in Nat
<1>1. ViewOf(h) \in Seq(Rulesets)
  BY SystemTyped DEF ViewOf, TypeInv, TypeOK
<1>2. IndexOf(h) \subseteq Nat /\ IsFiniteSet(IndexOf(h))
  BY SystemTyped, NumbersTyped DEF IndexOf, TypeInv, TypeOK
<1> QED
  BY <1>1, <1>2, FS_CardinalityType DEF NextNumber

LEMMA TypeInit == Init => TypeInv
<1> SUFFICES ASSUME Init PROVE TypeInv
  OBVIOUS
<1>1. file \in Seq(Rulesets) /\ Defaults \o file \in Seq(Rulesets)
  BY UserAssumption, DefaultsAssumption DEF Init
<1>2. DOMAIN loaded \subseteq Nat /\ \A n \in DOMAIN loaded : loaded[n] \in Seq(Rules)
  <2>1. /\ DOMAIN loaded = Numbers(Defaults \o file)
        /\ \A n \in DOMAIN loaded : loaded[n] = RulesOf(Defaults \o file, n)
    BY DEF Init
  <2> QED
    BY <1>1, <2>1, NumbersTyped, RulesOfTyped
<1>3. Rest \in Operations
  BY DEF Rest, Operations
<1>4. op \in [Hosts -> Operations]
  BY <1>3 DEF Init
<1>5. view \in [Hosts -> Seq(Rulesets)] /\ index \in [Hosts -> SUBSET Nat]
  BY DEF Init
<1>6. \A h \in Hosts : IsFiniteSet(index[h])
  BY FS_EmptySet DEF Init
<1>7. /\ user \in Seq(Rulesets) /\ granted \subseteq Rulesets
      /\ savers \subseteq Hosts /\ failed \in BOOLEAN
  BY <1>1 DEF Init
<1> QED
  BY <1>1, <1>2, <1>4, <1>5, <1>6, <1>7 DEF TypeInv, TypeOK

LEMMA LookupTyped ==
  ASSUME TypeInv, NEW h \in Hosts,
         NEW base \in Numbers(ViewOf(h)), NEW extra \in Extras,
         DevfsRuleset(h, base, extra)
  PROVE  TypeInv'
<1> DEFINE known == ViewOf(h)
           rules == Combine(RulesOf(known, base), extra)
           same == {i \in DOMAIN known : known[i].rules = rules}
           number == NextNumber(h)
           ruleset == [number |-> number, rules |-> rules]
<1>1. UNCHANGED <<file, loaded, user, savers, failed>>
  BY DEF DevfsRuleset
<1>2. /\ known \in Seq(Rulesets) /\ number \in Nat
      /\ IndexOf(h) \subseteq Nat /\ IsFiniteSet(IndexOf(h))
  BY KnownTyped
<1>3. rules \in Seq(Rules)
  BY <1>2, RulesOfTyped, CombineTyped, ExtraAssumption
<1> HIDE DEF rules, number
<1>4. ruleset \in Rulesets
  BY <1>2, <1>3 DEF Rulesets
<1>5. CASE same = {}
  <2>1. NewRuleset(h, rules) /\ UNCHANGED granted
    BY <1>5 DEF DevfsRuleset, rules
  <2>2. Append(known, ruleset) \in Seq(Rulesets)
    BY <1>2, <1>4
  <2>3. IndexOf(h) \union {number} \subseteq Nat /\ IsFiniteSet(IndexOf(h) \union {number})
    BY <1>2, FS_AddElement
  <2>4. [pc |-> "save", number |-> number, rules |-> rules] \in Operations
    BY <1>2, <1>3 DEF Operations
  <2> QED
    BY <1>1, <1>2, <2>1, <2>2, <2>3, <2>4 DEF NewRuleset, TypeInv, TypeOK, number
<1>6. CASE same # {}
  <2> DEFINE first == CHOOSE i \in same : \A k \in same : i <= k
  <2>1. /\ Grant(known[first].number, rules) /\ UNCHANGED op
        /\ view' = [view EXCEPT ![h] = known] /\ index' = [index EXCEPT ![h] = IndexOf(h)]
    BY <1>6 DEF DevfsRuleset, rules
  <2>2. first \in same
    <3>1. same \subseteq Nat
      BY <1>2
    <3> HIDE DEF same
    <3> QED
      BY <1>6, <3>1, SmallestElement
  <2>3. known[first] \in Rulesets
    BY <1>2, <2>2
  <2> HIDE DEF first
  <2>4. granted' \subseteq Rulesets
    BY <1>3, <2>1, <2>3 DEF Grant, Rulesets, TypeInv, TypeOK
  <2> QED
    BY <1>1, <1>2, <2>1, <2>4 DEF TypeInv, TypeOK
<1> QED
  BY <1>5, <1>6

LEMMA SaveTyped ==
  ASSUME TypeInv, NEW h \in Hosts, Save(h)
  PROVE  TypeInv'
<1>1. UNCHANGED <<loaded, view, index, user>>
  BY DEF Save
<1>2. op[h] \in Operations /\ view[h] \in Seq(Rulesets) /\ Len(Defaults) \in Nat
  BY DefaultsAssumption DEF TypeInv, TypeOK
<1>3. Content(h) \in Seq(Rulesets)
  <2>1. \A i \in Len(Defaults) + 1 .. Len(view[h]) : view[h][i] \in Rulesets
    BY <1>2
  <2> QED
    BY <1>2, <2>1, SubSeqProperties DEF Content
<1>4. file' \in Seq(Rulesets)
  BY <1>3 DEF Save, TypeInv, TypeOK
<1>5. op' \in [Hosts -> Operations]
  <2>1. Rest \in Operations
    BY DEF Rest, Operations
  <2>2. [op[h] EXCEPT !.pc = "restart"] \in Operations
    BY <1>2 DEF Operations
  <2>3. /\ Rest \in Operations /\ [op[h] EXCEPT !.pc = "restart"] \in Operations
        /\ op \in [Hosts -> Operations]
    BY <2>1, <2>2 DEF TypeInv, TypeOK
  <2>4. Return(h) \/ op' = [op EXCEPT ![h].pc = "restart"]
    BY DEF Save
  <2>5. CASE Return(h)
    BY <2>3, <2>5 DEF Return
  <2>6. CASE op' = [op EXCEPT ![h].pc = "restart"]
    <3>1. op' = [op EXCEPT ![h] = [op[h] EXCEPT !.pc = "restart"]]
      BY <2>3, <2>6
    <3> QED
      BY <2>3, <3>1
  <2> QED
    BY <2>4, <2>5, <2>6
<1>6. granted' \subseteq Rulesets
  BY <1>2 DEF Save, Grant, Operations, Rulesets, TypeInv, TypeOK
<1>7. savers' \subseteq Hosts /\ failed' \in BOOLEAN
  BY DEF Save, TypeInv, TypeOK
<1> QED
  BY <1>1, <1>4, <1>5, <1>6, <1>7 DEF TypeInv, TypeOK

LEMMA RestartTyped ==
  ASSUME TypeInv, NEW h \in Hosts, Restart(h)
  PROVE  TypeInv'
<1>1. UNCHANGED <<file, view, index, user, savers>> /\ Return(h)
  BY DEF Restart
<1>2. op[h] \in Operations /\ file \in Seq(Rulesets)
  BY DEF TypeInv, TypeOK
<1>3. op' \in [Hosts -> Operations]
  BY <1>1 DEF Return, Rest, Operations, TypeInv, TypeOK
<1>4. granted' \subseteq Rulesets /\ failed' \in BOOLEAN
  <2>1. \/ granted' = granted
        \/ granted' = granted \union {[number |-> op[h].number, rules |-> op[h].rules]}
    BY DEF Restart, Grant
  <2>2. failed' = failed \/ failed' = TRUE
    BY DEF Restart
  <2>3. [number |-> op[h].number, rules |-> op[h].rules] \in Rulesets
    BY <1>2 DEF Operations, Rulesets
  <2> QED
    BY <2>1, <2>2, <2>3 DEF TypeInv, TypeOK
<1>5. /\ DOMAIN Reloaded \subseteq Nat
      /\ \A n \in DOMAIN Reloaded : Reloaded[n] \in Seq(Rules)
  <2>1. /\ DOMAIN Reloaded = DOMAIN loaded \union Numbers(file)
        /\ \A n \in DOMAIN Reloaded :
             Reloaded[n] = IF n \in Numbers(file) THEN RulesOf(file, n) ELSE loaded[n]
    BY DEF Reloaded
  <2> QED
    BY <1>2, <2>1, NumbersTyped, RulesOfTyped DEF TypeInv, TypeOK
<1>6. loaded' = loaded \/ loaded' = Reloaded
  BY DEF Restart
<1> QED
  BY <1>1, <1>3, <1>4, <1>5, <1>6 DEF TypeInv, TypeOK

LEMMA SetRulesFileTyped ==
  ASSUME TypeInv, NEW h \in Hosts, SetRulesFile(h)
  PROVE  TypeInv'
<1>1. /\ UNCHANGED <<file, loaded, op, history>>
      /\ view' = [view EXCEPT ![h] = IF Unread(h) THEN Defaults \o file ELSE <<>>]
      /\ index' = [index EXCEPT ![h] = IndexOf(h)]
  BY DEF SetRulesFile
<1>2. IndexOf(h) \subseteq Nat /\ IsFiniteSet(IndexOf(h))
  BY KnownTyped
<1>3. (IF Unread(h) THEN Defaults \o file ELSE <<>>) \in Seq(Rulesets)
  BY SystemTyped
<1> QED
  BY <1>1, <1>2, <1>3 DEF history, TypeInv, TypeOK

LEMMA TypeStep ==
  ASSUME TypeInv, [Next]_vars
  PROVE  TypeInv'
<1>1. CASE Next
  BY <1>1, LookupTyped, SaveTyped, RestartTyped, SetRulesFileTyped DEF Next
<1>2. CASE UNCHANGED vars
  BY <1>2 DEF vars, memory, history, TypeInv, TypeOK
<1> QED
  BY <1>1, <1>2

----------------------------------------------------------------------------
\* TypeOK: for any hosts, rules and files, what the files and the memory of
\* every host hold are rulesets, those that DevfsRuleset.append() has combined
\* included, and only numbered ones are loaded.
THEOREM DevfsTypeCorrect == Spec => []TypeOK
<1>1. TypeInv => TypeOK
  BY DEF TypeInv
<1> QED
  BY <1>1, TypeInit, TypeStep, PTL DEF Spec

\* Whatever the hosts write over each other, and whenever each of them has
\* read the file: it never repeats a number.
THEOREM ReadableTheorem == Spec => []FileReadable
<1>1. FileInv => FileReadable
  BY DEF FileInv, FileReadable
<1> QED
  BY <1>1, InitDevfs, StepKeeps, PTL DEF Spec

\* The rulesets of the administrator stay where they are.
THEOREM KeptTheorem == Spec => []UserRulesKept
<1>1. FileInv => UserRulesKept
  BY PrefixBegins DEF FileInv, UserRulesKept
<1> QED
  BY <1>1, InitDevfs, StepKeeps, PTL DEF Spec

\* As long as one host writes the file and nothing failed, a ruleset that a
\* jail was given is loaded with the rules the jail needs, whichever host
\* looked them up and whatever it had in memory.
THEOREM LoadedTheorem == Spec => []RulesetLoaded
<1> DEFINE Inv == FileInv /\ MemoryInv /\ LoadInv
<1>1. Init => Inv
  BY InitDevfs, InitLoad
<1>2. Inv /\ [Next]_vars => Inv'
  BY StepKeeps, StepLoad
<1>3. Inv => RulesetLoaded
  BY LoadInvLoaded
<1> QED
  BY <1>1, <1>2, <1>3, PTL DEF Spec
=============================================================================
