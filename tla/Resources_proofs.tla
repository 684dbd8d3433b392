--------------------------- MODULE Resources_proofs ---------------------------
(***************************************************************************)
(* Proofs about the activation of a pool, for any set of pools, about the  *)
(* fstab of a jail and what is mounted in it, for any file, any objects,   *)
(* any places and any number of renames, and about the configuration of a  *)
(* jail, for any values that are set and any edits.                        *)
(***************************************************************************)
EXTENDS MCResources, SequenceTheorems, FiniteSetTheorems, TLAPS

WF == INSTANCE WellFoundedInduction

(***************************************************************************)
(* Induction and recursion over the positions of a sequence.               *)
(***************************************************************************)
Smaller == {pair \in Nat \X Nat : pair[1] < pair[2]}

LEMMA SmallestElement ==
  ASSUME NEW S, S \subseteq Nat, S # {}
  PROVE  \E i \in S : \A k \in S : i <= k
<1>1. WF!IsWellFoundedOn(Smaller, Nat)
  BY WF!NatLessThanWellFounded DEF WF!OpToRel, Smaller
<1>2. PICK i \in S : \A k \in S : <<k, i>> \notin Smaller
  BY <1>1, WF!WFMin
<1>3. ASSUME NEW k \in S PROVE i <= k
  <2>1. <<k, i>> \in Nat \X Nat /\ <<k, i>>[1] = k /\ <<k, i>>[2] = i
    OBVIOUS
  <2>2. ~(k < i)
    BY <1>2, <2>1 DEF Smaller
  <2>3. k \in Nat /\ i \in Nat
    OBVIOUS
  <2> QED
    BY <2>2, <2>3
<1> QED
  BY <1>3

\* What holds before the first line, and after a line if it held before it,
\* holds at every line.
LEMMA EveryPosition ==
  ASSUME NEW last \in Nat, NEW S, 0 \in S,
         \A i \in 1 .. last : i - 1 \in S => i \in S
  PROVE  \A i \in 0 .. last : i \in S
<1> DEFINE Bad == {i \in 0 .. last : i \notin S}
<1> SUFFICES ASSUME Bad # {} PROVE FALSE
  OBVIOUS
<1>1. PICK m \in Bad : \A k \in Bad : m <= k
  <2>1. Bad \subseteq Nat
    OBVIOUS
  <2> HIDE DEF Bad
  <2> QED
    BY <2>1, SmallestElement
<1>2. m \in 1 .. last /\ m - 1 \in 0 .. last
  OBVIOUS
<1>3. m - 1 \notin Bad
  BY <1>1, <1>2
<1> QED
  BY <1>2, <1>3

\* step[<<i, s>>] is the state after line i, when s was the one before it.
Steps(step, last, States) == \A i \in 1 .. last, s \in States : step[<<i, s>>] \in States

\* A function that gives the state after each line from the one before exists.
LEMMA RunExists ==
  ASSUME NEW States, NEW first \in States, NEW last \in Nat,
         NEW step, Steps(step, last, States)
  PROVE  \E f \in [0 .. last -> States] :
           f[0] = first /\ \A i \in 1 .. last : f[i] = step[<<i, f[i - 1]>>]
<1> DEFINE Runs(f, n) == f[0] = first /\ \A i \in 1 .. n : f[i] = step[<<i, f[i - 1]>>]
           S == {n \in 0 .. last : \E f \in [0 .. n -> States] : Runs(f, n)}
<1>1. 0 \in S
  <2>1. [i \in 0 .. 0 |-> first] \in [0 .. 0 -> States] /\ Runs([i \in 0 .. 0 |-> first], 0)
    OBVIOUS
  <2> HIDE DEF Runs
  <2> QED
    BY <2>1
<1>2. ASSUME NEW n \in 1 .. last, n - 1 \in S
      PROVE  n \in S
  <2>1. PICK g \in [0 .. n - 1 -> States] : Runs(g, n - 1)
    BY <1>2
  <2> DEFINE f == [i \in 0 .. n |-> IF i = n THEN step[<<n, g[n - 1]>>] ELSE g[i]]
  <2>2. n - 1 \in 0 .. n - 1 /\ g[n - 1] \in States
    OBVIOUS
  <2>3. step[<<n, g[n - 1]>>] \in States
    BY <2>2 DEF Steps
  <2>4. f \in [0 .. n -> States]
    BY <2>3
  <2>5. \A i \in 0 .. n - 1 : f[i] = g[i]
    OBVIOUS
  <2>6. f[n] = step[<<n, f[n - 1]>>]
    <3>1. f[n] = step[<<n, g[n - 1]>>]
      OBVIOUS
    <3>2. f[n - 1] = g[n - 1]
      BY <2>2, <2>5
    <3> HIDE DEF f
    <3> QED
      BY <3>1, <3>2
  <2>7. f[0] = first
    BY <2>1, <2>2, <2>5
  <2>8. ASSUME NEW i \in 1 .. n - 1
        PROVE  f[i] = step[<<i, f[i - 1]>>]
    BY <2>1, <2>5
  <2> HIDE DEF f
  <2>9. Runs(f, n)
    BY <2>6, <2>7, <2>8
  <2> QED
    BY <2>4, <2>9
<1> HIDE DEF S
<1>3. \A n \in 0 .. last : n \in S
  BY <1>1, <1>2, EveryPosition
<1>4. last \in S
  BY <1>3
<1> QED
  BY <1>4 DEF S

----------------------------------------------------------------------------
(***************************************************************************)
(* The activation of a pool.                                               *)
(***************************************************************************)

\* Attaching a source keeps the type of the object, which has a main source
\* from then on.
LEMMA AttachTyped ==
  ASSUME NEW ds \in [made : BOOLEAN, managed : BOOLEAN,
                     main : SourceNames \cup {"none"},
                     sources : [SourceNames -> Pools \cup {NoPool}]],
         ds.main # "none" => ds.sources[ds.main] # NoPool,
         NEW name \in SourceNames, NEW p \in Pools
  PROVE  LET new == AttachSource(ds, name, p)
         IN /\ new \in [made : BOOLEAN, managed : BOOLEAN,
                        main : SourceNames \cup {"none"},
                        sources : [SourceNames -> Pools \cup {NoPool}]]
            /\ new.main \in SourceNames
            /\ new.sources[new.main] \in Pools
<1> DEFINE new == AttachSource(ds, name, p)
           sources == [ds.sources EXCEPT ![name] = p]
           main == IF ds.main = "none" THEN name ELSE ds.main
<1>1. p # NoPool
  BY NoPoolIsNone
<1>2. /\ sources \in [SourceNames -> Pools \cup {NoPool}]
      /\ main \in SourceNames
      /\ sources[main] \in Pools
  <2>1. sources \in [SourceNames -> Pools \cup {NoPool}]
    OBVIOUS
  <2>2. CASE ds.main = "none"
    BY <2>1, <2>2
  <2>3. CASE ds.main # "none"
    <3>1. ds.main \in SourceNames /\ ds.sources[ds.main] \in Pools
      BY <2>3
    <3>2. sources[ds.main] \in Pools
      BY <3>1
    <3> QED
      BY <2>1, <2>3, <3>1, <3>2
  <2> QED
    BY <2>2, <2>3
<1>3. new = [ds EXCEPT !.sources = sources, !.main = main]
  BY DEF AttachSource
<1> QED
  BY <1>2, <1>3

\* RootDatasets() only changes the mountpoint of its pool.
LEMMA RootMountedTyped ==
  ASSUME PoolTypeOK, NEW p \in Pools
  PROVE  RootMounted(p) \in [Pools -> {"absent", "/iocage", "inherited", "chosen"}]
BY DEF PoolTypeOK, RootMounted

LEMMA FoundTyped ==
  ASSUME PoolTypeOK, NEW managed \in BOOLEAN, NEW name \in SourceNames,
         NEW p \in Pools, Found(managed, name, p),
         UNCHANGED <<poolActive, poolStatus, rcPools, activation>>
  PROVE  PoolTypeOK'
<1> DEFINE ds == [NoDatasets EXCEPT !.made = TRUE, !.managed = managed]
<1>1. /\ ds \in [made : BOOLEAN, managed : BOOLEAN,
                 main : SourceNames \cup {"none"},
                 sources : [SourceNames -> Pools \cup {NoPool}]]
      /\ ds.main = "none"
  BY DEF NoDatasets
<1>2. datasets' = AttachSource(ds, name, p) /\ poolMount' = RootMounted(p)
  BY DEF Found
<1> HIDE DEF ds
<1>3. /\ datasets' \in [made : BOOLEAN, managed : BOOLEAN,
                        main : SourceNames \cup {"none"},
                        sources : [SourceNames -> Pools \cup {NoPool}]]
      /\ datasets'.sources[datasets'.main] # NoPool
  BY <1>1, <1>2, AttachTyped, NoPoolIsNone
<1> QED
  BY <1>2, <1>3, RootMountedTyped DEF PoolTypeOK

LEMMA PoolInitTyped == PoolInit => PoolTypeOK
BY NoPoolIsNone DEF PoolInit, PoolTypeOK, NoDatasets, Idle

LEMMA PoolNextTyped == PoolTypeOK /\ [PoolNext]_poolVars => PoolTypeOK'
<1> SUFFICES ASSUME PoolTypeOK, [PoolNext]_poolVars PROVE PoolTypeOK'
  OBVIOUS
<1>1. CASE MakeDatasets
  <2>1. CASE FromArguments
    BY <1>1, <2>1, FoundTyped DEF MakeDatasets, FromArguments, SourceNames
  <2>2. CASE FromRcConf
    BY <1>1, <2>2, FoundTyped DEF MakeDatasets, FromRcConf, SourceNames, PoolTypeOK
  <2>3. CASE FromPoolProperty
    BY <1>1, <2>3, FoundTyped DEF MakeDatasets, FromPoolProperty, SourceNames
  <2>4. CASE NotActivated
    BY <1>1, <2>4 DEF MakeDatasets, NotActivated, NoDatasets, PoolTypeOK
  <2> QED
    BY <1>1, <2>1, <2>2, <2>3, <2>4 DEF MakeDatasets
<1>2. CASE SetPoolActive
  BY <1>2 DEF SetPoolActive, Writes, PoolTypeOK
<1>3. CASE SetMountpoint
  <2> DEFINE ds == AttachSource(datasets, "iocage", activation.target)
  <2>1. activation.target \in Pools
    BY <1>3 DEF SetMountpoint, PoolTypeOK
  <2>2. /\ ds \in [made : BOOLEAN, managed : BOOLEAN,
                   main : SourceNames \cup {"none"},
                   sources : [SourceNames -> Pools \cup {NoPool}]]
        /\ ds.main \in SourceNames
        /\ ds.sources[ds.main] \in Pools
    BY <2>1, AttachTyped DEF PoolTypeOK, SourceNames
  <2>3. /\ datasets' = ds
        /\ poolMount' = [RootMounted(activation.target) EXCEPT
                            ![ds.sources[ds.main]] = "chosen"]
        /\ activation' = Idle
        /\ UNCHANGED <<poolActive, poolStatus, rcPools>>
    BY <1>3 DEF SetMountpoint
  <2> HIDE DEF ds
  <2>4. poolMount' \in [Pools -> {"absent", "/iocage", "inherited", "chosen"}]
    BY <2>1, <2>2, <2>3, RootMountedTyped
  <2>5. datasets'.main # "none" => datasets'.sources[datasets'.main] # NoPool
    BY <2>2, <2>3, NoPoolIsNone
  <2> QED
    BY <2>2, <2>3, <2>4, <2>5 DEF PoolTypeOK, Idle
<1>4. CASE ActivationFails
  BY <1>4 DEF ActivationFails, Idle, PoolTypeOK
<1>5. CASE EndProcess
  BY <1>5 DEF EndProcess, NoDatasets, Idle, PoolTypeOK
<1>6. CASE DeactivatePool
  BY <1>6 DEF DeactivatePool, Writes, PoolTypeOK
<1>7. ASSUME NEW p \in Pools, ActivatePool(p) PROVE PoolTypeOK'
  BY <1>7 DEF ActivatePool, ToDeactivate, PoolTypeOK
<1>8. ASSUME NEW p \in Pools, DeactivateOther(p) PROVE PoolTypeOK'
  BY <1>8 DEF DeactivateOther, Writes, PoolTypeOK
<1>9. ASSUME NEW p \in Pools, StatusChanges(p) PROVE PoolTypeOK'
  BY <1>9 DEF StatusChanges, PoolTypeOK
<1>10. CASE UNCHANGED poolVars
  BY <1>10 DEF poolVars, PoolTypeOK
<1> QED
  BY <1>1, <1>2, <1>3, <1>4, <1>5, <1>6, <1>7, <1>8, <1>9, <1>10 DEF PoolNext

\* However many pools there are, whatever fails, the variables keep their
\* types (Datasets.py).
THEOREM PoolTypeCorrect == PoolSpec => []PoolTypeOK
BY PoolInitTyped, PoolNextTyped, PTL DEF PoolSpec

----------------------------------------------------------------------------
(***************************************************************************)
(* The inductive invariant.  Until the target is marked, only pools that   *)
(* are still to be deactivated, or the target itself, can be marked.       *)
(***************************************************************************)
OthersPending ==
  activation.step = "others" =>
    \A p \in Pools : poolActive[p] = "yes" =>
      p = activation.target \/ p \in activation.others

PoolInv == PoolTypeOK /\ OneActive /\ OthersPending

LEMMA PoolInitInv == PoolInit => PoolInv
<1> SUFFICES ASSUME PoolInit PROVE PoolInv
  OBVIOUS
<1>1. PoolTypeOK
  BY PoolInitTyped
<1>2. OneActive
  BY DEF PoolInit, OneActive
<1>3. OthersPending
  BY DEF PoolInit, OthersPending, Idle
<1> QED
  BY <1>1, <1>2, <1>3 DEF PoolInv

\* Marking a pool inactive keeps that at most one is marked.
LEMMA NoKeepsOne ==
  ASSUME PoolTypeOK, OneActive, NEW p \in Pools, Writes(p, "no")
  PROVE  OneActive'
BY DEF PoolTypeOK, OneActive, Writes

LEMMA PoolNextInv == PoolInv /\ [PoolNext]_poolVars => PoolInv'
<1> SUFFICES ASSUME PoolInv, [PoolNext]_poolVars PROVE OneActive' /\ OthersPending'
  BY PoolNextTyped DEF PoolInv
<1> USE DEF PoolInv
<1>1. ASSUME UNCHANGED <<poolActive, activation>>
      PROVE  OneActive' /\ OthersPending'
  BY <1>1 DEF OneActive, OthersPending
<1>2. ASSUME UNCHANGED poolActive, activation' = Idle
      PROVE  OneActive' /\ OthersPending'
  BY <1>2 DEF OneActive, OthersPending, Idle
<1>3. CASE SetPoolActive
  <2>1. \A p \in Pools : poolActive[p] = "yes" => p = activation.target
    BY <1>3 DEF SetPoolActive, OthersPending
  <2>2. poolActive' = [poolActive EXCEPT ![activation.target] = "yes"]
    BY <1>3 DEF SetPoolActive, Writes
  <2>3. \A p \in Pools : poolActive'[p] = "yes" => p = activation.target
    BY <2>1, <2>2 DEF PoolTypeOK
  <2>4. OneActive'
    BY <2>3 DEF OneActive
  <2>5. activation'.step = "attach"
    BY <1>3 DEF SetPoolActive, PoolTypeOK
  <2> QED
    BY <2>4, <2>5 DEF OthersPending
<1>4. CASE DeactivatePool
  <2>1. datasets.sources[datasets.main] \in Pools
    BY <1>4 DEF DeactivatePool, PoolTypeOK
  <2>2. OneActive'
    BY <1>4, <2>1, NoKeepsOne DEF DeactivatePool
  <2>3. activation' = Idle
    BY <1>4 DEF DeactivatePool
  <2> QED
    BY <2>2, <2>3 DEF OthersPending, Idle
<1>5. ASSUME NEW p \in Pools, ActivatePool(p) PROVE OneActive' /\ OthersPending'
  <2>1. OneActive'
    BY <1>5 DEF ActivatePool, OneActive
  <2>2. OthersPending'
    BY <1>5 DEF ActivatePool, OthersPending, ToDeactivate
  <2> QED
    BY <2>1, <2>2
<1>6. ASSUME NEW p \in Pools, DeactivateOther(p) PROVE OneActive' /\ OthersPending'
  <2>1. OneActive'
    BY <1>6, NoKeepsOne DEF DeactivateOther
  <2>2. /\ poolActive' = [poolActive EXCEPT ![p] = "no"]
        /\ activation'.others = activation.others \ {p}
        /\ activation'.target = activation.target
        /\ activation.step = "others"
    BY <1>6 DEF DeactivateOther, Writes, PoolTypeOK
  <2>3. OthersPending'
    BY <2>2 DEF OthersPending, PoolTypeOK
  <2> QED
    BY <2>1, <2>3
<1>7. CASE MakeDatasets
  BY <1>7, <1>1 DEF MakeDatasets
<1>8. CASE SetMountpoint
  BY <1>8, <1>2 DEF SetMountpoint
<1>9. CASE ActivationFails
  BY <1>9, <1>2 DEF ActivationFails
<1>10. CASE EndProcess
  BY <1>10, <1>2 DEF EndProcess
<1>11. ASSUME NEW p \in Pools, StatusChanges(p) PROVE OneActive' /\ OthersPending'
  BY <1>11, <1>1 DEF StatusChanges
<1>12. CASE UNCHANGED poolVars
  BY <1>12, <1>1 DEF poolVars
<1> QED
  BY <1>3, <1>4, <1>5, <1>6, <1>7, <1>8, <1>9, <1>10, <1>11, <1>12 DEF PoolNext

\* However many pools are imported, and wherever an activation is interrupted:
\* at most one pool is marked active (Datasets.py:421).
THEOREM OneActiveTheorem == PoolSpec => []OneActive
<1>1. PoolInv => OneActive
  BY DEF PoolInv
<1> QED
  BY <1>1, PoolInitInv, PoolNextInv, PTL DEF PoolSpec

----------------------------------------------------------------------------
(***************************************************************************)
(* What is mounted in a jail.  A bag without a second copy of anything is  *)
(* a function to 1; that is inductive by itself, as every action mounts    *)
(* where it has seen, or made sure, that nothing is mounted.               *)
(***************************************************************************)
Flat(bag) == bag \in [DOMAIN bag -> {1}]

LEMMA SetFlat ==
  ASSUME NEW S
  PROVE  Flat(SetToBag(S)) /\ DOMAIN SetToBag(S) = S
BY DEF Flat, SetToBag

\* What is unmounted is gone, when nothing was there twice.
LEMMA MinusFlat ==
  ASSUME NEW bag, Flat(bag), NEW S
  PROVE  /\ Flat(bag (-) SetToBag(S))
         /\ DOMAIN (bag (-) SetToBag(S)) = DOMAIN bag \ S
<1> DEFINE rest == [e \in DOMAIN bag |-> IF e \in S THEN bag[e] - 1 ELSE bag[e]]
<1>1. DOMAIN SetToBag(S) = S /\ \A e \in S : SetToBag(S)[e] = 1
  BY DEF SetToBag
<1>2. [e \in DOMAIN bag |-> IF e \in DOMAIN SetToBag(S) THEN bag[e] - SetToBag(S)[e]
                            ELSE bag[e]] = rest
  BY <1>1
<1>3. bag (-) SetToBag(S) = [e \in {d \in DOMAIN rest : rest[d] > 0} |-> rest[e]]
  BY <1>2 DEF (-)
<1>4. \A e \in DOMAIN bag : rest[e] = IF e \in S THEN 0 ELSE 1
  BY DEF Flat
<1>5. {d \in DOMAIN rest : rest[d] > 0} = DOMAIN bag \ S
  BY <1>4
<1> QED
  BY <1>3, <1>4, <1>5 DEF Flat

\* Mounting where nothing is mounted.
LEMMA PlusFlat ==
  ASSUME NEW bag, Flat(bag), NEW S, S \cap DOMAIN bag = {}
  PROVE  Flat(bag (+) SetToBag(S))
<1>1. DOMAIN SetToBag(S) = S /\ \A e \in S : SetToBag(S)[e] = 1
  BY DEF SetToBag
<1>2. bag (+) SetToBag(S) =
        [e \in (DOMAIN bag) \cup S |->
           (IF e \in DOMAIN bag THEN bag[e] ELSE 0) + (IF e \in S THEN 1 ELSE 0)]
  BY <1>1 DEF (+)
<1> QED
  BY <1>2 DEF Flat

\* A line is added: what it replaces was unmounted before.
LEMMA AddedFlat ==
  ASSUME Flat(mounts), NEW o, NEW line, NEW replace, Added(o, line, replace)
  PROVE  Flat(mounts')
<1>1. CASE mounts' = mounts
  BY <1>1 DEF Flat
<1>2. ASSUME NEW between \in {mounts, mounts (-) SetToBag({line.destination})},
             NEW rest, Appended(o, rest, line, between)
      PROVE  Flat(mounts')
  <2>1. Flat(between)
    <3>1. Flat(mounts (-) SetToBag({line.destination}))
      BY MinusFlat
    <3> QED
      BY <3>1
  <2>2. CASE mounts' = between
    BY <2>1, <2>2
  <2>3. CASE AutoMounted(between, mounts', line.destination)
    <3>1. {line.destination} \cap DOMAIN between = {}
      BY <2>3 DEF AutoMounted, Mounted, BagIn, BagToSet
    <3> QED
      BY <2>1, <2>3, <3>1, PlusFlat DEF AutoMounted
  <2> QED
    BY <1>2, <2>2, <2>3 DEF Appended
<1> QED
  BY <1>1, <1>2 DEF Added

LEMMA DeleteFlat ==
  ASSUME Flat(mounts), NEW o, NEW i, DeleteLine(o, i)
  PROVE  Flat(mounts')
<1>1. CASE mounts' = mounts
  BY <1>1 DEF Flat
<1>2. CASE Unmounted(mounts, mounts', fstabLines[o][i].destination)
  BY <1>2, MinusFlat DEF Unmounted
<1> QED
  BY <1>1, <1>2 DEF DeleteLine

\* mount() unmounts every entry before it mounts the first.
LEMMA MountFlat ==
  ASSUME Flat(mounts), NEW o, MountFstab(o)
  PROVE  Flat(mounts')
<1> DEFINE entries == Entries(fstabLines[o])
           all == {entries[i].destination : i \in 1..Len(entries)}
<1>1. PICK k \in 0..Len(entries) : mounts' = MountEntries(entries, k)
  BY DEF MountFstab
<1> DEFINE some == {entries[i].destination : i \in 1..k}
<1>2. some \subseteq all
  <2>1. 1..k \subseteq 1..Len(entries)
    BY <1>1
  <2> QED
    BY <2>1
<1>3. mounts' = (mounts (-) SetToBag(all)) (+) SetToBag(some)
  BY <1>1 DEF MountEntries, AfterUnmount
<1> HIDE DEF some, all
<1>4. /\ Flat(mounts (-) SetToBag(all))
      /\ DOMAIN (mounts (-) SetToBag(all)) = DOMAIN mounts \ all
  BY MinusFlat
<1>5. some \cap DOMAIN (mounts (-) SetToBag(all)) = {}
  BY <1>2, <1>4
<1> QED
  BY <1>3, <1>4, <1>5, PlusFlat

LEMMA UnmountFlat ==
  ASSUME Flat(mounts), NEW o, UnmountFstab(o)
  PROVE  Flat(mounts')
<1> DEFINE entries == Entries(fstabLines[o])
<1>1. PICK k \in 0..Len(entries) : mounts' = AfterUnmount(entries, k)
  BY DEF UnmountFstab
<1> DEFINE gone == {entries[i].destination : i \in 1..k}
<1>2. mounts' = mounts (-) SetToBag(gone)
  BY <1>1 DEF AfterUnmount
<1> HIDE DEF gone
<1> QED
  BY <1>2, MinusFlat

LEMMA FstabNextFlat ==
  ASSUME Flat(mounts), [FstabNext]_fstabVars
  PROVE  Flat(mounts')
<1>1. ASSUME UNCHANGED mounts PROVE Flat(mounts')
  BY <1>1 DEF Flat
<1>2. ASSUME NEW o, OpenFstab(o) \/ SaveFstab(o) \/ SaveInterrupted(o)
                    \/ UpdateAndSave(o) \/ RenameJail(o) \/ ForgetFstab(o)
      PROVE  Flat(mounts')
  BY <1>1, <1>2 DEF OpenFstab, SaveFstab, SaveInterrupted, UpdateAndSave,
                    RenameJail, ForgetFstab
<1>3. ASSUME NEW o, Adds(o) PROVE Flat(mounts')
  BY <1>3, AddedFlat DEF Adds, AddLine
<1>4. ASSUME NEW o, Deletes(o) PROVE Flat(mounts')
  BY <1>4, DeleteFlat DEF Deletes
<1>5. ASSUME NEW o, MountsPkg(o) PROVE Flat(mounts')
  BY <1>5, AddedFlat DEF MountsPkg, MountPkgDirectory
<1>6. CASE ApplyBase
  <2> DEFINE missing == {path \in BaseMounts(renames) : ~Mounted(mounts, path)}
  <2>1. missing \cap DOMAIN mounts = {}
    BY DEF Mounted, BagIn, BagToSet
  <2>2. mounts' = mounts (+) SetToBag(missing)
    BY <1>6 DEF ApplyBase
  <2> HIDE DEF missing
  <2> QED
    BY <2>1, <2>2, PlusFlat
<1>7. CASE AttachJail \/ RemoveJail \/ Links
  BY <1>1, <1>7 DEF AttachJail, RemoveJail, Links, ReplaceByLink
<1>8. CASE TeardownBase
  BY <1>8, MinusFlat DEF TeardownBase
<1>9. CASE UNCHANGED fstabVars
  BY <1>1, <1>9 DEF fstabVars
<1> QED
  BY <1>2, <1>3, <1>4, <1>5, <1>6, <1>7, <1>8, <1>9, MountFlat, UnmountFlat DEF FstabNext

\* Whatever the lines of the file and of the objects are, and however many
\* objects add, replace and delete lines and start and stop the jail: nothing
\* is mounted twice in one place (Fstab.py:738, NullFSBasejail.py:64).
THEOREM NotStackedTheorem == FstabSpec => []NotStacked
<1>1. FstabInit => Flat(mounts)
  BY SetFlat DEF FstabInit, EmptyBag
<1>2. Flat(mounts) /\ [FstabNext]_fstabVars => Flat(mounts)'
  BY FstabNextFlat
<1>3. Flat(mounts) => NotStacked
  BY DEF Flat, NotStacked, BagToSet
<1> QED
  BY <1>1, <1>2, <1>3, PTL DEF FstabSpec

----------------------------------------------------------------------------
(***************************************************************************)
(* Choosing lines of a file.                                               *)
(***************************************************************************)
Chooses(f, lines, chosen) ==
  /\ f[0] = <<>>
  /\ \A i \in 1 .. Len(lines) :
       f[i] = IF lines[i] \in chosen THEN Append(f[i - 1], lines[i]) ELSE f[i - 1]

LEMMA SelectedRuns ==
  ASSUME NEW S, NEW lines \in Seq(S), NEW chosen
  PROVE  \E f \in [0 .. Len(lines) -> Seq(S)] :
           Chooses(f, lines, chosen) /\ Selected(lines, chosen) = f[Len(lines)]
<1> DEFINE last == Len(lines)
           Step(f, i) == IF i = 0 THEN <<>>
                         ELSE IF lines[i] \in chosen THEN Append(f[i - 1], lines[i])
                         ELSE f[i - 1]
           Result == CHOOSE f : f = [i \in 0 .. last |-> Step(f, i)]
           step == [p \in (1 .. last) \X Seq(S) |->
                      IF lines[p[1]] \in chosen THEN Append(p[2], lines[p[1]]) ELSE p[2]]
<1>1. last \in Nat /\ \A i \in 1 .. last : lines[i] \in S
  OBVIOUS
<1>2. Selected(lines, chosen) = Result[last]
  BY DEF Selected
<1> HIDE DEF last
<1>3. \A i \in 1 .. last, s \in Seq(S) :
        step[<<i, s>>] = IF lines[i] \in chosen THEN Append(s, lines[i]) ELSE s
  OBVIOUS
<1>4. Steps(step, last, Seq(S))
  <2>1. ASSUME NEW i \in 1 .. last, NEW s \in Seq(S)
        PROVE  step[<<i, s>>] \in Seq(S)
    BY <1>1, <1>3, AppendProperties
  <2> QED
    BY <2>1 DEF Steps
<1>5. <<>> \in Seq(S)
  OBVIOUS
<1> HIDE DEF step
<1>6. PICK g \in [0 .. last -> Seq(S)] :
        g[0] = <<>> /\ \A i \in 1 .. last : g[i] = step[<<i, g[i - 1]>>]
  <2> DEFINE States == Seq(S)
             first == <<>>
  <2>1. first \in States /\ Steps(step, last, States)
    BY <1>4, <1>5
  <2> HIDE DEF States, first
  <2>2. \E g \in [0 .. last -> States] :
          g[0] = first /\ \A i \in 1 .. last : g[i] = step[<<i, g[i - 1]>>]
    BY <1>1, <2>1, RunExists
  <2> QED
    BY <2>2 DEF States, first
<1>7. g = [i \in 0 .. last |-> Step(g, i)]
  <2>1. ASSUME NEW i \in 0 .. last PROVE g[i] = Step(g, i)
    <3>1. CASE i = 0
      BY <1>6, <3>1
    <3>2. CASE i # 0
      <4>1. i \in 1 .. last /\ g[i - 1] \in Seq(S)
        BY <1>1, <3>2
      <4> QED
        BY <1>3, <1>6, <3>2, <4>1
    <3> QED
      BY <3>1, <3>2
  <2> HIDE DEF Step
  <2> QED
    BY <2>1
<1>8. Result = [i \in 0 .. last |-> Step(Result, i)]
  <2> HIDE DEF Step
  <2> QED
    BY <1>7
<1> HIDE DEF Result
<1>9. \A i \in 0 .. last : Result[i] = Step(Result, i)
  <2> HIDE DEF Step
  <2> QED
    BY <1>8
<1>10. \A i \in 0 .. last : Result[i] \in Seq(S)
  <2> DEFINE Good == {i \in 0 .. last : Result[i] \in Seq(S)}
  <2>1. 0 \in 0 .. last /\ Result[0] = <<>>
    BY <1>1, <1>9
  <2>2. 0 \in Good
    BY <1>5, <2>1
  <2>3. ASSUME NEW i \in 1 .. last, i - 1 \in Good
        PROVE  i \in Good
    <3>1. i \in 0 .. last /\ i # 0 /\ Result[i - 1] \in Seq(S) /\ lines[i] \in S
      BY <1>1, <2>3
    <3>2. Result[i] = IF lines[i] \in chosen THEN Append(Result[i - 1], lines[i])
                      ELSE Result[i - 1]
      BY <1>9, <3>1
    <3>3. Result[i] \in Seq(S)
      BY <3>1, <3>2, AppendProperties
    <3> QED
      BY <3>1, <3>3
  <2> HIDE DEF Good
  <2>4. \A i \in 0 .. last : i \in Good
    BY <1>1, <2>2, <2>3, EveryPosition
  <2> QED
    BY <2>4 DEF Good
<1>11. Result \in [0 .. last -> Seq(S)]
  <2> HIDE DEF Step
  <2> QED
    BY <1>8, <1>10
<1>12. Chooses(Result, lines, chosen)
  <2>1. Result[0] = <<>>
    BY <1>1, <1>9
  <2>2. ASSUME NEW i \in 1 .. last
        PROVE  Result[i] = IF lines[i] \in chosen THEN Append(Result[i - 1], lines[i])
                           ELSE Result[i - 1]
    BY <1>9
  <2> QED
    BY <2>1, <2>2 DEF Chooses, last
<1> QED
  BY <1>2, <1>11, <1>12 DEF last

\* The result has lines of the file that were chosen, each at most once.
LEMMA SelectedFrom ==
  ASSUME NEW S, NEW lines \in Seq(S), NEW chosen
  PROVE  LET r == Selected(lines, chosen)
         IN /\ r \in Seq(S)
            /\ \A i \in 1 .. Len(r) : r[i] \in chosen
            /\ \E h \in [1 .. Len(r) -> 1 .. Len(lines)] :
                 /\ \A i \in 1 .. Len(r) : r[i] = lines[h[i]]
                 /\ \A i, k \in 1 .. Len(r) : h[i] = h[k] => i = k
<1> DEFINE last == Len(lines)
           From(r, i) ==
             /\ \A j \in 1 .. Len(r) : r[j] \in chosen
             /\ \E h \in [1 .. Len(r) -> 1 .. i] :
                  /\ \A j \in 1 .. Len(r) : r[j] = lines[h[j]]
                  /\ \A j, k \in 1 .. Len(r) : h[j] = h[k] => j = k
<1>1. last \in Nat
  OBVIOUS
<1>2. PICK f \in [0 .. last -> Seq(S)] :
        Chooses(f, lines, chosen) /\ Selected(lines, chosen) = f[last]
  BY SelectedRuns
<1>3. ASSUME NEW i \in 1 .. last, From(f[i - 1], i - 1)
      PROVE  From(f[i], i)
  <2>1. f[i - 1] \in Seq(S) /\ lines[i] \in S
    OBVIOUS
  <2>2. PICK h \in [1 .. Len(f[i - 1]) -> 1 .. i - 1] :
          /\ \A j \in 1 .. Len(f[i - 1]) : f[i - 1][j] = lines[h[j]]
          /\ \A j, k \in 1 .. Len(f[i - 1]) : h[j] = h[k] => j = k
    BY <1>3
  <2>3. CASE lines[i] \notin chosen
    <3>1. f[i] = f[i - 1]
      BY <1>2, <2>3 DEF Chooses
    <3>2. h \in [1 .. Len(f[i]) -> 1 .. i]
      BY <3>1
    <3> QED
      BY <1>3, <2>2, <3>1, <3>2
  <2>4. CASE lines[i] \in chosen
    <3> DEFINE s == f[i - 1]
               n == Len(s)
               more == [j \in 1 .. n + 1 |-> IF j = n + 1 THEN i ELSE h[j]]
    <3>1. f[i] = Append(s, lines[i])
      BY <1>2, <2>4 DEF Chooses
    <3>2. /\ n \in Nat /\ Len(f[i]) = n + 1
          /\ \A j \in 1 .. n : f[i][j] = s[j]
          /\ f[i][n + 1] = lines[i]
      BY <2>1, <3>1, AppendProperties
    <3>3. \A j \in 1 .. n : h[j] \in 1 .. i - 1
      BY <2>2
    <3> HIDE DEF n
    <3>4. more \in [1 .. n + 1 -> 1 .. i]
      BY <3>2, <3>3
    <3>5. \A j \in 1 .. n + 1 : f[i][j] \in chosen /\ f[i][j] = lines[more[j]]
      <4>1. \A j \in 1 .. n : s[j] \in chosen /\ s[j] = lines[h[j]]
        BY <1>3, <2>2 DEF n
      <4> QED
        BY <2>4, <3>2, <4>1
    <3>6. \A j, k \in 1 .. n + 1 : more[j] = more[k] => j = k
      <4>1. \A j, k \in 1 .. n : h[j] = h[k] => j = k
        BY <2>2 DEF n
      <4> QED
        BY <3>2, <3>3, <4>1
    <3> HIDE DEF more, s
    <3>7. more \in [1 .. Len(f[i]) -> 1 .. i]
      BY <3>2, <3>4
    <3>8. \A j \in 1 .. Len(f[i]) : f[i][j] \in chosen /\ f[i][j] = lines[more[j]]
      BY <3>2, <3>5
    <3>9. \A j, k \in 1 .. Len(f[i]) : more[j] = more[k] => j = k
      BY <3>2, <3>6
    <3> QED
      BY <3>7, <3>8, <3>9
  <2> QED
    BY <2>3, <2>4
<1>4. From(f[0], 0)
  <2>1. f[0] = <<>> /\ Len(<<>>) = 0
    BY <1>2 DEF Chooses
  <2>2. \E h : h \in [1 .. 0 -> 1 .. 0]
    <3>1. [j \in 1 .. 0 |-> 0] \in [1 .. 0 -> 1 .. 0]
      OBVIOUS
    <3> QED
      BY <3>1
  <2> QED
    BY <2>1, <2>2
<1> HIDE DEF From
<1> DEFINE Good == {i \in 0 .. last : From(f[i], i)}
<1>5. 0 \in Good /\ \A i \in 1 .. last : i - 1 \in Good => i \in Good
  BY <1>1, <1>3, <1>4
<1> HIDE DEF Good
<1>6. \A i \in 0 .. last : i \in Good
  BY <1>1, <1>5, EveryPosition
<1>7. From(f[last], last) /\ f[last] \in Seq(S)
  BY <1>1, <1>6 DEF Good
<1> QED
  BY <1>2, <1>7 DEF From

LEMMA SelectedAll ==
  ASSUME NEW S, NEW lines \in Seq(S), NEW chosen,
         \A i \in 1 .. Len(lines) : lines[i] \in chosen
  PROVE  Selected(lines, chosen) = lines
<1> DEFINE last == Len(lines)
<1>1. last \in Nat
  OBVIOUS
<1>2. PICK f \in [0 .. last -> Seq(S)] :
        Chooses(f, lines, chosen) /\ Selected(lines, chosen) = f[last]
  BY SelectedRuns
<1> DEFINE Good == {i \in 0 .. last : Len(f[i]) = i /\ \A k \in 1 .. i : f[i][k] = lines[k]}
<1>3. 0 \in Good
  BY <1>1, <1>2 DEF Chooses
<1>4. ASSUME NEW i \in 1 .. last, i - 1 \in Good
      PROVE  i \in Good
  <2>1. f[i - 1] \in Seq(S) /\ lines[i] \in S /\ Len(f[i - 1]) = i - 1
    BY <1>4
  <2>2. f[i] = Append(f[i - 1], lines[i])
    BY <1>2 DEF Chooses
  <2>3. /\ Len(f[i]) = i /\ f[i][i] = lines[i]
        /\ \A k \in 1 .. i - 1 : f[i][k] = f[i - 1][k]
    BY <2>1, <2>2, AppendProperties
  <2> QED
    BY <1>4, <2>3
<1> HIDE DEF Good
<1>5. \A i \in 0 .. last : i \in Good
  BY <1>1, <1>3, <1>4, EveryPosition
<1>6. f[last] \in Seq(S) /\ Len(f[last]) = last /\ \A k \in 1 .. last : f[last][k] = lines[k]
  BY <1>1, <1>5 DEF Good
<1> QED
  BY <1>2, <1>6, SeqEqual

(***************************************************************************)
(* Paths.                                                                  *)
(***************************************************************************)
LEMMA Tuples ==
  ASSUME NEW S, NEW a \in S, NEW b \in S
  PROVE  /\ <<a>> \in Seq(S) /\ Len(<<a>>) = 1
         /\ <<a, b>> \in Seq(S) /\ Len(<<a, b>>) = 2
OBVIOUS

LEMMA MountpointTyped ==
  ASSUME NEW n \in 0 .. MaxRenames
  PROVE  /\ Mountpoint(n) \in Path /\ Len(Mountpoint(n)) = 2
         /\ Mountpoint(n)[1] = "jails" /\ Mountpoint(n)[2] = Names[n]
         /\ RootPath(n) \in Path /\ Len(RootPath(n)) = 3
         /\ RootPath(n)[1] = "jails" /\ RootPath(n)[2] = Names[n]
<1> DEFINE name == Names[n]
           mountpoint == <<"jails", name>>
<1>1. name \in Directories /\ "jails" \in Directories /\ "root" \in Directories
  BY NamesAssumption, PathsAssumption
<1> HIDE DEF name
<1>2. /\ mountpoint \in Seq(Directories) /\ Len(mountpoint) = 2
      /\ mountpoint[1] = "jails" /\ mountpoint[2] = name
  BY <1>1, Tuples
<1>3. <<"root">> \in Seq(Directories) /\ Len(<<"root">>) = 1
  BY <1>1, Tuples
<1>4. Mountpoint(n) = mountpoint
  BY DEF Mountpoint, name
<1> HIDE DEF mountpoint
<1> DEFINE inside == <<"root">>
           root == mountpoint \o inside
<1> HIDE DEF inside
<1>5. /\ root \in Seq(Directories) /\ Len(root) = Len(mountpoint) + Len(inside)
      /\ \A i \in 1 .. Len(mountpoint) + Len(inside) :
           root[i] = IF i <= Len(mountpoint) THEN mountpoint[i]
                     ELSE inside[i - Len(mountpoint)]
  <2>1. inside \in Seq(Directories) /\ mountpoint \in Seq(Directories)
    BY <1>2, <1>3 DEF inside
  <2> QED
    BY <2>1, ConcatProperties
<1>6. RootPath(n) = root
  BY <1>4 DEF RootPath, inside
<1>7. Len(inside) = 1
  BY <1>3 DEF inside
<1> HIDE DEF root
<1> QED
  BY <1>2, <1>4, <1>5, <1>6, <1>7 DEF Path, name

LEMMA RelativePath ==
  ASSUME NEW n \in 0 .. MaxRenames, NEW path \in Path
  PROVE  IsRelative(path, n)
           <=> Len(path) >= 2 /\ path[1] = "jails" /\ path[2] = Names[n]
<1> DEFINE mountpoint == Mountpoint(n)
<1>1. /\ mountpoint \in Path /\ Len(mountpoint) = 2
      /\ mountpoint[1] = "jails" /\ mountpoint[2] = Names[n]
  BY MountpointTyped
<1>2. SubSeq(mountpoint, 1, 2) = mountpoint
  BY <1>1, SubSeqFull DEF Path
<1> HIDE DEF mountpoint
<1>3. IsRelative(path, n) <=> 2 <= Len(path) /\ mountpoint = SubSeq(path, 1, 2)
  BY <1>1, <1>2 DEF IsRelative, IsPrefix, mountpoint
<1>4. ASSUME 2 <= Len(path)
      PROVE  mountpoint = SubSeq(path, 1, 2) <=> path[1] = "jails" /\ path[2] = Names[n]
  <2> DEFINE begin == SubSeq(path, 1, 2)
  <2>1. \A i \in 1 .. 2 : path[i] \in Directories
    BY <1>4 DEF Path
  <2>2. /\ begin \in Seq(Directories) /\ Len(begin) = 2
        /\ begin[1] = path[1] /\ begin[2] = path[2]
    <3>1. /\ begin \in Seq(Directories)
          /\ Len(begin) = IF 1 <= 2 THEN 2 - 1 + 1 ELSE 0
          /\ \A i \in 1 .. 2 - 1 + 1 : begin[i] = path[1 + i - 1]
      BY <2>1, SubSeqProperties
    <3> QED
      BY <3>1
  <2> HIDE DEF begin
  <2>3. ASSUME begin[1] = mountpoint[1], begin[2] = mountpoint[2]
        PROVE  mountpoint = begin
    <3>1. \A i \in 1 .. Len(mountpoint) : mountpoint[i] = begin[i]
      BY <1>1, <2>3
    <3> QED
      BY <1>1, <2>2, <3>1, SeqEqual DEF Path
  <2>4. mountpoint = begin <=> path[1] = "jails" /\ path[2] = Names[n]
    BY <1>1, <2>2, <2>3
  <2> QED
    BY <2>4 DEF begin
<1>5. Len(path) \in Nat
  BY DEF Path
<1> QED
  BY <1>3, <1>4, <1>5

\* A destination is mounted below the dataset of the jail.
LEMMA PlacedBelow ==
  ASSUME NEW n \in 0 .. MaxRenames, NEW path \in Path
  PROVE  Placed(path, n) \in Path /\ IsRelative(Placed(path, n), n)
<1>1. CASE IsRelative(path, n)
  BY <1>1 DEF Placed
<1>2. CASE ~IsRelative(path, n)
  <2> DEFINE root == RootPath(n)
             placed == root \o path
  <2>1. n \in 0 .. MaxRenames
    OBVIOUS
  <2>2. /\ root \in Seq(Directories) /\ Len(root) = 3
        /\ root[1] = "jails" /\ root[2] = Names[n]
    BY <2>1, MountpointTyped DEF Path
  <2> HIDE DEF root
  <2>3. /\ placed \in Seq(Directories) /\ Len(placed) = Len(root) + Len(path)
        /\ \A i \in 1 .. Len(root) + Len(path) :
             placed[i] = IF i <= Len(root) THEN root[i] ELSE path[i - Len(root)]
    BY <2>2, ConcatProperties DEF Path
  <2>4. Len(path) \in Nat
    BY DEF Path
  <2> HIDE DEF placed
  <2>5. placed \in Path /\ Len(placed) >= 2 /\ placed[1] = "jails" /\ placed[2] = Names[n]
    BY <2>2, <2>3, <2>4 DEF Path
  <2>6. IsRelative(placed, n)
    BY <2>5, RelativePath
  <2>7. Placed(path, n) = placed
    BY <1>2 DEF Placed, placed, root
  <2> QED
    BY <2>5, <2>6, <2>7
<1> QED
  BY <1>1, <1>2

\* What is below the dataset of one name is not below that of the next.
LEMMA OtherName ==
  ASSUME NEW n \in 1 .. MaxRenames, NEW path \in Path, IsRelative(path, n)
  PROVE  ~IsRelative(path, n - 1)
<1>1. n \in 0 .. MaxRenames /\ n - 1 \in 0 .. MaxRenames /\ Names[n - 1] # Names[n]
  BY NamesAssumption
<1> QED
  BY <1>1, RelativePath

LEMMA ReplacedTyped ==
  ASSUME NEW n \in 1 .. MaxRenames, NEW path \in Path
  PROVE  ReplacedPrefix(path, Mountpoint(n - 1), Mountpoint(n)) \in Path
<1> DEFINE old == Mountpoint(n - 1)
           new == Mountpoint(n)
           rest == SubSeq(path, Len(old) + 1, Len(path))
<1>1. n \in 0 .. MaxRenames /\ n - 1 \in 0 .. MaxRenames
  BY NamesAssumption
<1>2. new \in Path /\ old \in Path
  BY <1>1, MountpointTyped
<1> HIDE DEF old, new
<1>3. Len(old) \in Nat /\ Len(path) \in Nat
  BY <1>2 DEF Path
<1>4. rest \in Seq(Directories)
  <2>1. \A i \in Len(old) + 1 .. Len(path) : path[i] \in Directories
    BY <1>3 DEF Path
  <2> QED
    BY <1>3, <2>1, SubSeqProperties
<1> HIDE DEF rest
<1>5. new \o rest \in Path
  BY <1>2, <1>4, ConcatProperties DEF Path
<1> QED
  BY <1>5 DEF ReplacedPrefix, old, new, rest

(***************************************************************************)
(* Lines.  The lines of an object are below the dataset of its name, no    *)
(* two entries at one place.                                               *)
(***************************************************************************)
MemoryLines == {Comment, Empty, Placeholder} \cup EntryLines

Apart(lines) ==
  \A i, k \in DOMAIN lines :
    /\ IsEntry(lines[i]) /\ IsEntry(lines[k])
    /\ lines[i].destination = lines[k].destination
    => i = k

TidyLines(n) ==
  {lines \in Seq(MemoryLines) :
     /\ \A i \in DOMAIN lines :
          IsEntry(lines[i]) => IsRelative(lines[i].destination, n)
     /\ Apart(lines)}

LEMMA EntryTyped ==
  /\ \A source, destination \in Path, auto \in BOOLEAN :
       Entry(source, destination, auto) \in EntryLines
  /\ \A source, destination, auto :
       /\ IsEntry(Entry(source, destination, auto))
       /\ Entry(source, destination, auto).destination = destination
       /\ Entry(source, destination, auto).source = source
  /\ \A line \in MemoryLines \cup FileLines :
       IsEntry(line) <=> line \in EntryLines
  /\ \A line \in EntryLines : /\ line.destination \in Path /\ line.source \in Path
                              /\ line.auto \in BOOLEAN
BY DEF Entry, EntryLines, IsEntry, MemoryLines, FileLines, Comment, Empty, Placeholder,
       AutoEntry, Malformed, Invalid

\* What the text of a line is read as: the line itself, or what is skipped or
\* gives no more than the placeholder.
LEMMA ReadTyped ==
  /\ \A line \in {Comment, Empty} : AsRead(line) = line /\ ~IsEntry(line)
  /\ \A line \in EntryLines :
       /\ AsRead(line) \in {line, AutoEntry, Malformed}
       /\ AsRead(line) = line => ~line.auto
  /\ \A line \in MemoryLines \ {Placeholder} : AsRead(line) \in FileLines
<1>1. \A line \in {Comment, Empty} : AsRead(line) = line /\ ~IsEntry(line)
  BY DEF AsRead, IsEntry, Comment, Empty
<1>2. \A line \in EntryLines : AsRead(line) \in {line, AutoEntry, Malformed}
  BY DEF AsRead
<1>3. ASSUME NEW line \in EntryLines, AsRead(line) = line PROVE ~line.auto
  <2>1. line.kind = "entry" /\ IsEntry(line)
    BY DEF EntryLines, IsEntry
  <2>2. line # AutoEntry /\ line # Malformed
    BY <2>1 DEF AutoEntry, Malformed
  <2> QED
    BY <1>3, <2>1, <2>2 DEF AsRead
<1>4. \A line \in MemoryLines \ {Placeholder} : AsRead(line) \in FileLines
  BY <1>1, <1>2 DEF MemoryLines, FileLines
<1> QED
  BY <1>1, <1>2, <1>3, <1>4

LEMMA AppendTidy ==
  ASSUME NEW n, NEW lines \in TidyLines(n), NEW line \in MemoryLines,
         IsEntry(line) => /\ IsRelative(line.destination, n)
                          /\ ~Lists(lines, line.destination)
  PROVE  Append(lines, line) \in TidyLines(n)
<1> DEFINE more == Append(lines, line)
           last == Len(lines)
<1>1. lines \in Seq(MemoryLines)
  BY DEF TidyLines
<1>2. /\ more \in Seq(MemoryLines) /\ Len(more) = last + 1
      /\ \A i \in 1 .. last : more[i] = lines[i]
      /\ more[last + 1] = line
  BY <1>1, AppendProperties
<1>3. last \in Nat /\ DOMAIN lines = 1 .. last /\ DOMAIN more = 1 .. last + 1
  BY <1>1, <1>2, LenProperties
<1> HIDE DEF more, last
<1>4. \A i \in DOMAIN more : IsEntry(more[i]) => IsRelative(more[i].destination, n)
  BY <1>2, <1>3 DEF TidyLines
<1>5. Apart(more)
  <2>1. ASSUME NEW i \in 1 .. last, IsEntry(lines[i]), IsEntry(line)
        PROVE  lines[i].destination # line.destination
    BY <1>3, <2>1 DEF Lists, At
  <2>2. Apart(lines)
    BY DEF TidyLines
  <2> QED
    BY <1>2, <1>3, <2>1, <2>2 DEF Apart
<1> QED
  BY <1>2, <1>4, <1>5 DEF TidyLines, more

\* A line that is read is at its place, and not if something else is there.
LEMMA ParseLineTidy ==
  ASSUME NEW n \in 0 .. MaxRenames, NEW lines \in TidyLines(n), NEW line \in FileLines
  PROVE  ParseLine(lines, line, n) \in TidyLines(n)
<1>1. CASE line \in {Comment, Empty}
  <2>1. ParseLine(lines, line, n) = Append(lines, line)
    BY <1>1 DEF ParseLine, Comment, Empty
  <2>2. line \in MemoryLines /\ ~IsEntry(line)
    BY <1>1 DEF MemoryLines, IsEntry, Comment, Empty
  <2> QED
    BY <2>1, <2>2, AppendTidy
<1>2. CASE line = AutoEntry
  <2>1. ParseLine(lines, line, n) = IF Contains(lines, Placeholder) THEN lines
                                    ELSE Append(lines, Placeholder)
    BY <1>2 DEF ParseLine, AutoEntry
  <2>2. Placeholder \in MemoryLines /\ ~IsEntry(Placeholder)
    BY DEF MemoryLines, IsEntry, Placeholder
  <2>3. Append(lines, Placeholder) \in TidyLines(n)
    BY <2>2, AppendTidy
  <2> QED
    BY <2>1, <2>3
<1>3. CASE line \in {Malformed, Invalid}
  BY <1>3 DEF ParseLine, Malformed, Invalid
<1>4. CASE line \in EntryLines
  <2> DEFINE placed == Placed(line.destination, n)
             entry == Entry(line.source, placed, FALSE)
  <2>1. ParseLine(lines, line, n) = AddParsed(lines, line, n)
    <3>1. line.kind = "entry"
      BY <1>4 DEF EntryLines
    <3> QED
      BY <3>1 DEF ParseLine
  <2>2. line.destination \in Path /\ line.source \in Path
    BY <1>4, EntryTyped
  <2>3. placed \in Path /\ IsRelative(placed, n)
    BY <2>2, PlacedBelow
  <2>4. AddParsed(lines, line, n) \in {lines, Append(lines, entry)}
    BY DEF AddParsed
  <2>5. Lists(lines, placed) => AddParsed(lines, line, n) = lines
    BY DEF AddParsed
  <2> HIDE DEF placed
  <2>6. /\ entry \in MemoryLines /\ IsEntry(entry) /\ entry.destination = placed
    <3>1. FALSE \in BOOLEAN
      OBVIOUS
    <3>2. entry \in EntryLines
      BY <2>2, <2>3, <3>1, EntryTyped, Zenon
    <3>3. IsEntry(entry) /\ entry.destination = placed
      BY DEF Entry, IsEntry
    <3> QED
      BY <3>2, <3>3 DEF MemoryLines
  <2> HIDE DEF entry
  <2>7. ~Lists(lines, placed) => Append(lines, entry) \in TidyLines(n)
    BY <2>3, <2>6, AppendTidy
  <2> QED
    BY <2>1, <2>4, <2>5, <2>7
<1> QED
  BY <1>1, <1>2, <1>3, <1>4 DEF FileLines

Parses(f, file, n) ==
  /\ f[0] = <<>>
  /\ \A i \in 1 .. Len(file) : f[i] = ParseLine(f[i - 1], file[i], n)

LEMMA ParsedRuns ==
  ASSUME NEW n \in 0 .. MaxRenames, NEW file \in Seq(FileLines)
  PROVE  \E f \in [0 .. Len(file) -> TidyLines(n)] :
           Parses(f, file, n) /\ Parsed(file, n) = f[Len(file)]
<1> DEFINE last == Len(file)
           States == TidyLines(n)
           first == <<>>
           Step(f, i) == IF i = 0 THEN first ELSE ParseLine(f[i - 1], file[i], n)
           Result == CHOOSE f : f = [i \in 0 .. last |-> Step(f, i)]
           step == [p \in (1 .. last) \X States |-> ParseLine(p[2], file[p[1]], n)]
<1>1. last \in Nat /\ \A i \in 1 .. last : file[i] \in FileLines
  OBVIOUS
<1>2. Parsed(file, n) = Result[last]
  BY DEF Parsed
<1>3. \A i \in 1 .. last, s \in States : step[<<i, s>>] = ParseLine(s, file[i], n)
  <2> HIDE DEF States
  <2> QED
    OBVIOUS
<1>4. \A i \in 1 .. last, s \in States : ParseLine(s, file[i], n) \in States
  BY <1>1, ParseLineTidy
<1>5. first \in States
  <2>1. first \in Seq(MemoryLines) /\ DOMAIN first = {}
    OBVIOUS
  <2> HIDE DEF first
  <2> QED
    BY <2>1 DEF TidyLines, Apart
<1> HIDE DEF last, States, first, step
<1>6. Steps(step, last, States)
  BY <1>3, <1>4 DEF Steps
<1>7. PICK g \in [0 .. last -> States] :
        g[0] = first /\ \A i \in 1 .. last : g[i] = step[<<i, g[i - 1]>>]
  BY <1>1, <1>5, <1>6, RunExists
<1>8. g = [i \in 0 .. last |-> Step(g, i)]
  <2>1. ASSUME NEW i \in 0 .. last PROVE g[i] = Step(g, i)
    <3>1. CASE i = 0
      BY <1>7, <3>1
    <3>2. CASE i # 0
      <4>1. i \in 1 .. last /\ g[i - 1] \in States
        BY <1>1, <3>2
      <4> QED
        BY <1>3, <1>7, <3>2, <4>1
    <3> QED
      BY <3>1, <3>2
  <2> HIDE DEF Step
  <2> QED
    BY <2>1
<1>9. Result = [i \in 0 .. last |-> Step(Result, i)]
  <2> HIDE DEF Step
  <2> QED
    BY <1>8
<1> HIDE DEF Result
<1>10. \A i \in 0 .. last : Result[i] = Step(Result, i)
  <2> HIDE DEF Step
  <2> QED
    BY <1>9
<1>11. Result[0] = first /\ \A i \in 1 .. last : Result[i] = ParseLine(Result[i - 1], file[i], n)
  BY <1>1, <1>10
<1>12. \A i \in 0 .. last : Result[i] \in States
  <2> DEFINE Good == {i \in 0 .. last : Result[i] \in States}
  <2>1. 0 \in Good
    BY <1>1, <1>5, <1>11
  <2>2. ASSUME NEW i \in 1 .. last, i - 1 \in Good
        PROVE  i \in Good
    BY <1>4, <1>11, <2>2
  <2> HIDE DEF Good
  <2>3. \A i \in 0 .. last : i \in Good
    BY <1>1, <2>1, <2>2, EveryPosition
  <2> QED
    BY <2>3 DEF Good
<1>13. Result \in [0 .. last -> States]
  <2> HIDE DEF Step
  <2> QED
    BY <1>9, <1>12
<1>14. Parses(Result, file, n)
  BY <1>11 DEF Parses, last, first
<1> QED
  BY <1>2, <1>13, <1>14 DEF last, States

\* Whatever the file is: what is read from it is below the dataset, each place once.
LEMMA ParsedTidy ==
  ASSUME NEW n \in 0 .. MaxRenames, NEW file \in Seq(FileLines)
  PROVE  Parsed(file, n) \in TidyLines(n)
<1>1. PICK f \in [0 .. Len(file) -> TidyLines(n)] :
        Parses(f, file, n) /\ Parsed(file, n) = f[Len(file)]
  BY ParsedRuns
<1>2. Len(file) \in 0 .. Len(file)
  OBVIOUS
<1> QED
  BY <1>1, <1>2

\* Iterating leaves the placeholder out, wherever it is.
LEMMA PrintedAppend ==
  ASSUME NEW S, NEW lines \in Seq(S), NEW line \in S
  PROVE  Printed(Append(lines, line)) = IF line = Placeholder THEN Printed(lines)
                                        ELSE Append(Printed(lines), line)
<1> DEFINE last == Len(lines)
           more == Append(lines, line)
           some == Range(lines) \ {Placeholder}
           all == Range(more) \ {Placeholder}
<1>1. /\ last \in Nat /\ DOMAIN lines = 1 .. last
      /\ more \in Seq(S) /\ Len(more) = last + 1 /\ DOMAIN more = 1 .. last + 1
      /\ more[last + 1] = line
      /\ \A i \in 1 .. last : more[i] = lines[i]
  BY AppendProperties, LenProperties
<1>2. Printed(lines) = Selected(lines, some) /\ Printed(more) = Selected(more, all)
  BY DEF Printed
<1>3. /\ \A i \in 1 .. last : lines[i] \in some <=> more[i] \in all
      /\ line \in all <=> line # Placeholder
  BY <1>1 DEF Range
<1> HIDE DEF last, more, some, all
<1>4. PICK f \in [0 .. last -> Seq(S)] :
        Chooses(f, lines, some) /\ Selected(lines, some) = f[last]
  BY SelectedRuns DEF last
<1>5. PICK g \in [0 .. Len(more) -> Seq(S)] :
        Chooses(g, more, all) /\ Selected(more, all) = g[Len(more)]
  <2>1. more \in Seq(S)
    BY <1>1
  <2> QED
    BY <2>1, SelectedRuns
<1>6. /\ f[0] = <<>>
      /\ \A i \in 1 .. last : f[i] = IF lines[i] \in some THEN Append(f[i - 1], lines[i])
                                     ELSE f[i - 1]
  BY <1>4 DEF Chooses, last
<1>7. /\ g[0] = <<>>
      /\ \A i \in 1 .. last + 1 : g[i] = IF more[i] \in all THEN Append(g[i - 1], more[i])
                                         ELSE g[i - 1]
  BY <1>1, <1>5 DEF Chooses
<1> DEFINE Good == {i \in 0 .. last : f[i] = g[i]}
<1>8. 0 \in Good
  BY <1>1, <1>6, <1>7
<1>9. ASSUME NEW i \in 1 .. last, i - 1 \in Good
      PROVE  i \in Good
  <2>1. i \in 1 .. last + 1 /\ i \in 0 .. last /\ f[i - 1] = g[i - 1]
    BY <1>1, <1>9
  <2>2. f[i] = IF lines[i] \in some THEN Append(f[i - 1], lines[i]) ELSE f[i - 1]
    BY <1>6
  <2>3. g[i] = IF more[i] \in all THEN Append(g[i - 1], more[i]) ELSE g[i - 1]
    BY <1>7, <2>1
  <2>4. more[i] = lines[i] /\ (lines[i] \in some <=> more[i] \in all)
    BY <1>1, <1>3
  <2> QED
    BY <2>1, <2>2, <2>3, <2>4
<1> HIDE DEF Good
<1>10. \A i \in 0 .. last : i \in Good
  BY <1>1, <1>8, <1>9, EveryPosition
<1>11. f[last] = g[last]
  BY <1>1, <1>10 DEF Good
<1>12. g[last + 1] = IF line \in all THEN Append(g[last], line) ELSE g[last]
  <2> DEFINE end == last + 1
  <2>1. end \in 1 .. last + 1 /\ end - 1 = last /\ more[end] = line
    BY <1>1
  <2> HIDE DEF end
  <2>2. g[end] = IF more[end] \in all THEN Append(g[end - 1], more[end]) ELSE g[end - 1]
    BY <1>7, <2>1
  <2> QED
    BY <2>1, <2>2 DEF end
<1> QED
  BY <1>1, <1>2, <1>3, <1>4, <1>5, <1>11, <1>12 DEF more

\* What is read again of tidy lines without a placeholder: lines of which the
\* text is what it was, but for those that mount on a base directory.
Kept(lines, n) ==
  {line \in Range(lines) :
     /\ AsRead(line) = line
     /\ ~(IsEntry(line) /\ line.destination \in BaseMounts(n))}

LEMMA ParsedSame ==
  ASSUME NEW n \in 0 .. MaxRenames, NEW lines \in TidyLines(n),
         \A i \in DOMAIN lines : lines[i] # Placeholder
  PROVE  /\ AllAsRead(lines) \in Seq(FileLines)
         /\ Printed(Parsed(AllAsRead(lines), n)) = Selected(lines, Kept(lines, n))
<1> DEFINE last == Len(lines)
           kept == Kept(lines, n)
           file == AllAsRead(lines)
<1>1. lines \in Seq(MemoryLines)
  BY DEF TidyLines
<1>2. last \in Nat /\ DOMAIN lines = 1 .. last
  BY <1>1, LenProperties
<1>3. \A i \in 1 .. last : lines[i] \in {Comment, Empty} \/ lines[i] \in EntryLines
  BY <1>1, <1>2 DEF MemoryLines
<1>4. file \in Seq(FileLines) /\ Len(file) = last /\ \A i \in 1 .. last : file[i] = AsRead(lines[i])
  <2>1. \A i \in 1 .. last : AsRead(lines[i]) \in FileLines
    BY <1>1, <1>2, ReadTyped
  <2>2. file = [i \in 1 .. last |-> AsRead(lines[i])]
    BY <1>2 DEF AllAsRead
  <2> HIDE DEF last, file
  <2>3. file \in [1 .. last -> FileLines]
    BY <2>1, <2>2
  <2> QED
    BY <1>2, <2>2, <2>3
<1> HIDE DEF file
<1>5. PICK f \in [0 .. last -> TidyLines(n)] :
        Parses(f, file, n) /\ Parsed(file, n) = f[last]
  BY <1>4, ParsedRuns
<1>6. PICK g \in [0 .. last -> Seq(MemoryLines)] :
        Chooses(g, lines, kept) /\ Selected(lines, kept) = g[last]
  BY <1>1, SelectedRuns
<1> DEFINE Same(i) ==
             /\ Printed(f[i]) = g[i]
             /\ \A j \in 1 .. Len(f[i]) :
                  f[i][j] = Placeholder \/ \E k \in 1 .. i : f[i][j] = lines[k]
<1>7. Same(0)
  <2>1. f[0] = <<>> /\ g[0] = <<>> /\ Len(<<>>) = 0
    BY <1>5, <1>6 DEF Parses, Chooses
  <2>2. Printed(<<>>) = <<>>
    <3>1. <<>> \in Seq(MemoryLines) /\ \A i \in 1 .. Len(<<>>) : <<>>[i] \in Range(<<>>) \ {Placeholder}
      BY <2>1
    <3> QED
      BY <3>1, SelectedAll DEF Printed
  <2> QED
    BY <2>1, <2>2
<1>8. ASSUME NEW i \in 1 .. last, Same(i - 1)
      PROVE  Same(i)
  <2> DEFINE before == f[i - 1]
             line == lines[i]
  <2>1. f[i] = ParseLine(before, AsRead(line), n)
    BY <1>4, <1>5, <1>8 DEF Parses
  <2>2. g[i] = IF line \in kept THEN Append(g[i - 1], line) ELSE g[i - 1]
    BY <1>6 DEF Chooses
  <2>3. before \in Seq(MemoryLines) /\ line \in MemoryLines /\ line # Placeholder
    <3>1. i - 1 \in 0 .. last /\ i \in DOMAIN lines
      BY <1>2
    <3>2. before \in TidyLines(n)
      BY <1>5, <3>1
    <3>3. line \in MemoryLines
      BY <1>1, <1>2
    <3> QED
      BY <3>1, <3>2, <3>3 DEF TidyLines
  <2>4. Placeholder \in MemoryLines
    BY DEF MemoryLines
  <2>5. line \in kept <=> /\ AsRead(line) = line
                         /\ ~(IsEntry(line) /\ line.destination \in BaseMounts(n))
    BY <1>2 DEF Kept, Range
  \* the three ways in which a line is read
  <2>6. ASSUME f[i] = before, line \notin kept
        PROVE  Same(i)
    BY <1>2, <1>8, <2>2, <2>6
  <2>7. ASSUME NEW x \in MemoryLines, f[i] = Append(before, x), x \in {line, Placeholder}
        PROVE  \A j \in 1 .. Len(f[i]) :
                 f[i][j] = Placeholder \/ \E k \in 1 .. i : f[i][j] = lines[k]
    <3>1. /\ Len(f[i]) = Len(before) + 1 /\ Len(before) \in Nat
          /\ f[i][Len(before) + 1] = x
          /\ \A j \in 1 .. Len(before) : f[i][j] = before[j]
      BY <2>3, <2>7, AppendProperties, LenProperties
    <3>2. ASSUME NEW j \in 1 .. Len(f[i]), j # Len(before) + 1, f[i][j] # Placeholder
          PROVE  \E k \in 1 .. i : f[i][j] = lines[k]
      <4>1. j \in 1 .. Len(before) /\ f[i][j] = before[j]
        BY <3>1, <3>2
      <4>2. PICK k \in 1 .. i - 1 : before[j] = lines[k]
        BY <1>8, <3>2, <4>1
      <4> QED
        BY <1>2, <4>1, <4>2
    <3>3. i \in 1 .. i
      BY <1>2
    <3> HIDE DEF before
    <3> QED
      BY <2>7, <3>1, <3>2, <3>3
  <2>8. ASSUME f[i] = Append(before, Placeholder), line \notin kept
        PROVE  Same(i)
    <3>1. Printed(f[i]) = Printed(before)
      BY <2>3, <2>4, <2>8, PrintedAppend
    <3> QED
      BY <1>8, <2>2, <2>4, <2>7, <2>8, <3>1
  <2>9. ASSUME f[i] = Append(before, line), line \in kept
        PROVE  Same(i)
    <3>1. Printed(f[i]) = Append(Printed(before), line)
      BY <2>3, <2>9, PrintedAppend
    <3> QED
      BY <1>8, <2>2, <2>3, <2>7, <2>9, <3>1
  <2> HIDE DEF Same
  <2>10. CASE line \in {Comment, Empty}
    <3>1. AsRead(line) = line /\ ~IsEntry(line)
      BY <2>10, ReadTyped
    <3>2. ParseLine(before, line, n) = Append(before, line)
      BY <2>10 DEF ParseLine, Comment, Empty
    <3> QED
      BY <2>1, <2>5, <2>9, <3>1, <3>2
  <2>11. CASE line \in EntryLines /\ AsRead(line) # line
    <3>1. AsRead(line) \in {AutoEntry, Malformed} /\ line \notin kept
      BY <2>5, <2>11, ReadTyped
    <3>2. ParseLine(before, AutoEntry, n) \in {before, Append(before, Placeholder)}
      BY DEF ParseLine, AutoEntry
    <3>3. ParseLine(before, Malformed, n) = before
      BY DEF ParseLine, Malformed
    <3> QED
      BY <2>1, <2>6, <2>8, <3>1, <3>2, <3>3
  <2>12. CASE line \in EntryLines /\ AsRead(line) = line
    <3>1. /\ IsEntry(line) /\ line.kind = "entry"
          /\ line = Entry(line.source, line.destination, FALSE)
      <4>1. line.auto = FALSE
        BY <2>12, ReadTyped, EntryTyped
      <4> QED
        BY <2>12, <4>1 DEF EntryLines, IsEntry, Entry
    <3>2. ParseLine(before, line, n) = AddParsed(before, line, n)
      BY <3>1 DEF ParseLine
    <3>3. Placed(line.destination, n) = line.destination
      BY <1>2, <3>1 DEF TidyLines, Placed
    <3>4. ~Lists(before, line.destination)
      <4> SUFFICES ASSUME NEW j \in DOMAIN before, IsEntry(before[j]),
                          before[j].destination = line.destination
                   PROVE  FALSE
        BY DEF Lists, At
      <4>1. j \in 1 .. Len(before) /\ before[j] # Placeholder
        BY <2>3, LenProperties DEF IsEntry, Placeholder
      <4>2. PICK k \in 1 .. i - 1 : before[j] = lines[k]
        BY <1>8, <4>1 DEF Same
      <4>3. k \in DOMAIN lines /\ i \in DOMAIN lines /\ k # i
        BY <1>2
      <4> QED
        BY <3>1, <4>2, <4>3 DEF TidyLines, Apart
    <3>5. AddParsed(before, line, n)
            = IF line.destination \in BaseMounts(n) THEN before ELSE Append(before, line)
      BY <3>1, <3>3, <3>4 DEF AddParsed
    <3> QED
      BY <2>1, <2>5, <2>6, <2>9, <2>12, <3>1, <3>2, <3>5
  <2> QED
    BY <1>3, <2>10, <2>11, <2>12
<1> HIDE DEF Same
<1> DEFINE Good == {i \in 0 .. last : Same(i)}
<1>9. 0 \in Good /\ \A i \in 1 .. last : i - 1 \in Good => i \in Good
  BY <1>2, <1>7, <1>8
<1> HIDE DEF Good
<1>10. \A i \in 0 .. last : i \in Good
  BY <1>2, <1>9, EveryPosition
<1>11. Printed(f[last]) = g[last]
  BY <1>2, <1>10 DEF Good, Same
<1> QED
  BY <1>4, <1>5, <1>6, <1>11 DEF file

\* Some of the lines, each at most once.
LEMMA SomeTidy ==
  ASSUME NEW n, NEW lines \in TidyLines(n), NEW some \in Seq(MemoryLines),
         NEW h \in [1 .. Len(some) -> 1 .. Len(lines)],
         \A i \in 1 .. Len(some) : some[i] = lines[h[i]],
         \A i, k \in 1 .. Len(some) : h[i] = h[k] => i = k
  PROVE  some \in TidyLines(n)
<1>1. DOMAIN some = 1 .. Len(some) /\ DOMAIN lines = 1 .. Len(lines)
  BY LenProperties DEF TidyLines
<1>2. \A i \in DOMAIN some : IsEntry(some[i]) => IsRelative(some[i].destination, n)
  BY <1>1 DEF TidyLines
<1>3. Apart(some)
  <2> SUFFICES ASSUME NEW i \in 1 .. Len(some), NEW k \in 1 .. Len(some),
                      IsEntry(some[i]), IsEntry(some[k]),
                      some[i].destination = some[k].destination
               PROVE  i = k
    BY <1>1 DEF Apart
  <2>1. h[i] \in DOMAIN lines /\ h[k] \in DOMAIN lines /\ Apart(lines)
    BY <1>1 DEF TidyLines
  <2>2. h[i] = h[k]
    BY <2>1 DEF Apart
  <2> QED
    BY <2>2
<1> QED
  BY <1>2, <1>3 DEF TidyLines

LEMMA SelectedTidy ==
  ASSUME NEW n, NEW lines \in TidyLines(n), NEW chosen
  PROVE  /\ Selected(lines, chosen) \in TidyLines(n)
         /\ \A i \in DOMAIN Selected(lines, chosen) : Selected(lines, chosen)[i] \in chosen
<1> DEFINE some == Selected(lines, chosen)
<1>1. lines \in Seq(MemoryLines)
  BY DEF TidyLines
<1>2. /\ some \in Seq(MemoryLines)
      /\ \A i \in 1 .. Len(some) : some[i] \in chosen
      /\ \E h \in [1 .. Len(some) -> 1 .. Len(lines)] :
           /\ \A i \in 1 .. Len(some) : some[i] = lines[h[i]]
           /\ \A i, k \in 1 .. Len(some) : h[i] = h[k] => i = k
  BY <1>1, SelectedFrom
<1> HIDE DEF some
<1>3. some \in TidyLines(n)
  BY <1>2, SomeTidy
<1>4. DOMAIN some = 1 .. Len(some)
  BY <1>2, LenProperties
<1> QED
  BY <1>2, <1>3, <1>4 DEF some

LEMMA WithoutTidy ==
  ASSUME NEW n, NEW lines \in TidyLines(n), NEW destination
  PROVE  /\ Without(lines, destination) \in TidyLines(n)
         /\ ~Lists(Without(lines, destination), destination)
<1> DEFINE others == {line \in Range(lines) :
                        ~(IsEntry(line) /\ line.destination = destination)}
<1>1. Without(lines, destination) = Selected(lines, others)
  BY DEF Without
<1>2. /\ Selected(lines, others) \in TidyLines(n)
      /\ \A i \in DOMAIN Selected(lines, others) : Selected(lines, others)[i] \in others
  BY SelectedTidy
<1> QED
  BY <1>1, <1>2 DEF Lists, At

LEMMA RemoveTidy ==
  ASSUME NEW n, NEW lines \in TidyLines(n), NEW i \in DOMAIN lines
  PROVE  RemoveAt(lines, i) \in TidyLines(n)
<1> DEFINE last == Len(lines)
           before == SubSeq(lines, 1, i - 1)
           after == SubSeq(lines, i + 1, last)
           some == before \o after
           h == [k \in 1 .. last - 1 |-> IF k < i THEN k ELSE k + 1]
<1>1. lines \in Seq(MemoryLines)
  BY DEF TidyLines
<1>2. last \in Nat /\ i \in 1 .. last /\ \A k \in 1 .. last : lines[k] \in MemoryLines
  BY <1>1, LenProperties
<1> HIDE DEF last
<1>3. /\ before \in Seq(MemoryLines)
      /\ Len(before) = IF 1 <= i - 1 THEN i - 1 - 1 + 1 ELSE 0
      /\ \A k \in 1 .. i - 1 - 1 + 1 : before[k] = lines[1 + k - 1]
  <2>1. \A k \in 1 .. i - 1 : lines[k] \in MemoryLines
    BY <1>2
  <2> QED
    BY <1>2, <2>1, SubSeqProperties
<1>4. /\ after \in Seq(MemoryLines)
      /\ Len(after) = IF i + 1 <= last THEN last - (i + 1) + 1 ELSE 0
      /\ \A k \in 1 .. last - (i + 1) + 1 : after[k] = lines[i + 1 + k - 1]
  <2>1. \A k \in i + 1 .. last : lines[k] \in MemoryLines
    BY <1>2
  <2>2. i + 1 \in Int /\ last \in Int
    BY <1>2
  <2> QED
    BY <2>1, <2>2, SubSeqProperties
<1> HIDE DEF before, after
<1>5. Len(before) = i - 1 /\ Len(after) = last - i
  BY <1>2, <1>3, <1>4
<1>6. /\ some \in Seq(MemoryLines) /\ Len(some) = Len(before) + Len(after)
      /\ \A k \in 1 .. Len(before) + Len(after) :
           some[k] = IF k <= Len(before) THEN before[k] ELSE after[k - Len(before)]
  BY <1>3, <1>4, ConcatProperties
<1> HIDE DEF some
<1>7. Len(some) = last - 1
  BY <1>2, <1>5, <1>6
<1>8. ASSUME NEW k \in 1 .. last - 1
      PROVE  some[k] = lines[h[k]]
  <2>1. CASE k < i
    <3>1. k <= Len(before) /\ some[k] = before[k]
      BY <1>2, <1>5, <1>6, <2>1
    <3>2. before[k] = lines[k]
      <4>1. k \in 1 .. i - 1 - 1 + 1 /\ 1 + k - 1 = k
        BY <1>2, <2>1
      <4> QED
        BY <1>3, <4>1
    <3> QED
      BY <2>1, <3>1, <3>2
  <2>2. CASE ~(k < i)
    <3>1. some[k] = after[k - (i - 1)]
      BY <1>2, <1>5, <1>6, <2>2
    <3>2. after[k - (i - 1)] = lines[i + 1 + (k - (i - 1)) - 1]
      <4>1. k - (i - 1) \in 1 .. last - (i + 1) + 1
        BY <1>2, <2>2
      <4> QED
        BY <1>4, <4>1
    <3>3. i + 1 + (k - (i - 1)) - 1 = k + 1
      BY <1>2
    <3> QED
      BY <2>2, <3>1, <3>2, <3>3
  <2> QED
    BY <2>1, <2>2
<1>9. h \in [1 .. last - 1 -> 1 .. last] /\ \A j, k \in 1 .. last - 1 : h[j] = h[k] => j = k
  BY <1>2
<1> HIDE DEF h
<1>10. some \in TidyLines(n)
  <2>1. h \in [1 .. Len(some) -> 1 .. Len(lines)]
    BY <1>7, <1>9 DEF last
  <2> QED
    BY <1>6, <1>7, <1>8, <1>9, <2>1, SomeTidy
<1> QED
  BY <1>10 DEF RemoveAt, some, before, after, last

\* Placeholders are not written.
LEMMA PrintedTidy ==
  ASSUME NEW n \in 0 .. MaxRenames, NEW lines \in TidyLines(n)
  PROVE  /\ Printed(lines) \in TidyLines(n)
         /\ \A i \in DOMAIN Printed(lines) : Printed(lines)[i] # Placeholder
BY SelectedTidy DEF Printed

\* Reading begins with a part of the lines that were written.
LEMMA StrippedTidy ==
  ASSUME NEW n, NEW lines \in TidyLines(n), \A i \in DOMAIN lines : lines[i] # Placeholder
  PROVE  /\ Stripped(lines) \in TidyLines(n)
         /\ \A i \in DOMAIN Stripped(lines) : Stripped(lines)[i] # Placeholder
<1> DEFINE last == Len(lines)
           Ends(k) == /\ k = 0 \/ lines[k] # Empty
                      /\ \A i \in k + 1 .. last : lines[i] = Empty
           end == CHOOSE k \in 0 .. last : Ends(k)
           some == SubSeq(lines, 1, end)
           h == [k \in 1 .. end |-> k]
<1>1. lines \in Seq(MemoryLines) /\ last \in Nat /\ DOMAIN lines = 1 .. last
  BY LenProperties DEF TidyLines
<1>2. \E k \in 0 .. last : Ends(k)
  \* the empty lines before a position end somewhere
  <2> DEFINE Good == {j \in 0 .. last : \E k \in 0 .. j :
                        /\ k = 0 \/ lines[k] # Empty
                        /\ \A i \in k + 1 .. j : lines[i] = Empty}
  <2>1. 0 \in Good
    BY <1>1
  <2>2. ASSUME NEW j \in 1 .. last, j - 1 \in Good
        PROVE  j \in Good
    <3>1. CASE lines[j] = Empty
      <4>1. PICK k \in 0 .. j - 1 : /\ k = 0 \/ lines[k] # Empty
                                   /\ \A i \in k + 1 .. j - 1 : lines[i] = Empty
        BY <2>2
      <4>2. k \in 0 .. j /\ \A i \in k + 1 .. j : lines[i] = Empty
        BY <1>1, <3>1, <4>1
      <4> QED
        BY <1>1, <4>1, <4>2
    <3>2. CASE lines[j] # Empty
      <4>1. j \in 0 .. j /\ \A i \in j + 1 .. j : lines[i] = Empty
        BY <1>1
      <4> QED
        BY <1>1, <3>2, <4>1
    <3> QED
      BY <3>1, <3>2
  <2> HIDE DEF Good
  <2>3. \A j \in 0 .. last : j \in Good
    BY <1>1, <2>1, <2>2, EveryPosition
  <2>4. last \in Good
    BY <1>1, <2>3
  <2> QED
    BY <2>4 DEF Good
<1>3. end \in 0 .. last
  <2> HIDE DEF Ends
  <2> QED
    BY <1>2
<1>4. Stripped(lines) = some
  BY DEF Stripped
<1> HIDE DEF end, last
<1>5. /\ some \in Seq(MemoryLines) /\ Len(some) = end
      /\ \A k \in 1 .. end : some[k] = lines[k]
  <2>1. \A k \in 1 .. end : lines[k] \in MemoryLines
    BY <1>1, <1>3
  <2>2. /\ some \in Seq(MemoryLines)
        /\ Len(some) = IF 1 <= end THEN end - 1 + 1 ELSE 0
        /\ \A k \in 1 .. end - 1 + 1 : some[k] = lines[1 + k - 1]
    BY <1>3, <2>1, SubSeqProperties
  <2> QED
    BY <1>1, <1>3, <2>2
<1>6. h \in [1 .. Len(some) -> 1 .. Len(lines)]
  BY <1>1, <1>3, <1>5 DEF last
<1>7. DOMAIN some = 1 .. end
  BY <1>5, LenProperties
<1>8. \A k \in 1 .. end : some[k] = lines[h[k]] /\ h[k] = k
  BY <1>5
<1> HIDE DEF some, h
<1>9. some \in TidyLines(n)
  BY <1>5, <1>6, <1>8, SomeTidy
<1> QED
  BY <1>1, <1>3, <1>4, <1>5, <1>7, <1>9

LEMMA PrintedSame ==
  ASSUME NEW n, NEW lines \in TidyLines(n), \A i \in DOMAIN lines : lines[i] # Placeholder
  PROVE  Printed(lines) = lines
<1>1. lines \in Seq(MemoryLines) /\ DOMAIN lines = 1 .. Len(lines)
  BY LenProperties DEF TidyLines
<1>2. \A i \in 1 .. Len(lines) : lines[i] \in Range(lines) \ {Placeholder}
  BY <1>1 DEF Range
<1> QED
  BY <1>1, <1>2, SelectedAll DEF Printed

\* The entries that were read under the new name have no path of the old one.
LEMMA ReplacedTidy ==
  ASSUME NEW n \in 1 .. MaxRenames, NEW lines \in TidyLines(n)
  PROVE  ReplacePath(lines, Mountpoint(n - 1), Mountpoint(n)) \in TidyLines(n)
<1> DEFINE old == Mountpoint(n - 1)
           new == Mountpoint(n)
           Moved(line) == IF IsEntry(line)
                          THEN Entry(ReplacedPrefix(line.source, old, new),
                                     ReplacedPrefix(line.destination, old, new), line.auto)
                          ELSE line
           moved == ReplacePath(lines, old, new)
<1>1. lines \in Seq(MemoryLines) /\ DOMAIN lines = 1 .. Len(lines) /\ Len(lines) \in Nat
  BY LenProperties DEF TidyLines
<1>2. moved = [i \in 1 .. Len(lines) |-> Moved(lines[i])]
  BY <1>1 DEF ReplacePath
<1>3. ASSUME NEW i \in 1 .. Len(lines)
      PROVE  /\ Moved(lines[i]) \in MemoryLines
             /\ IsEntry(Moved(lines[i])) <=> IsEntry(lines[i])
             /\ IsEntry(lines[i]) => Moved(lines[i]).destination = lines[i].destination
  <2>1. lines[i] \in MemoryLines
    BY <1>1
  <2>2. CASE ~IsEntry(lines[i])
    BY <2>1, <2>2
  <2>3. CASE IsEntry(lines[i])
    <3>1. /\ lines[i] \in EntryLines /\ lines[i].auto \in BOOLEAN
          /\ lines[i].source \in Path /\ lines[i].destination \in Path
      BY <2>1, <2>3, EntryTyped
    <3>2. IsRelative(lines[i].destination, n)
      BY <1>1, <2>3 DEF TidyLines
    <3>3. ~IsRelative(lines[i].destination, n - 1)
      BY <3>1, <3>2, OtherName
    <3>4. ReplacedPrefix(lines[i].destination, old, new) = lines[i].destination
      BY <3>3 DEF ReplacedPrefix, IsRelative
    <3>5. ReplacedPrefix(lines[i].source, old, new) \in Path
      BY <3>1, ReplacedTyped
    <3>6. Moved(lines[i]) = Entry(ReplacedPrefix(lines[i].source, old, new),
                                  lines[i].destination, lines[i].auto)
      BY <2>3, <3>4
    <3>7. Moved(lines[i]) \in EntryLines
      BY <3>1, <3>5, <3>6, EntryTyped, Zenon
    <3> QED
      BY <2>3, <3>6, <3>7, EntryTyped DEF MemoryLines
  <2> QED
    BY <2>2, <2>3
<1> HIDE DEF Moved
<1>4. moved \in [1 .. Len(lines) -> MemoryLines]
  BY <1>2, <1>3
<1> HIDE DEF moved
<1>5. moved \in Seq(MemoryLines) /\ DOMAIN moved = 1 .. Len(lines)
  BY <1>1, <1>4
<1>6. \A i \in DOMAIN moved : IsEntry(moved[i]) => IsRelative(moved[i].destination, n)
  BY <1>1, <1>2, <1>3, <1>5 DEF TidyLines
<1>7. Apart(moved)
  <2>1. Apart(lines)
    BY DEF TidyLines
  <2> QED
    BY <1>1, <1>2, <1>3, <1>5, <2>1 DEF Apart
<1> QED
  BY <1>5, <1>6, <1>7 DEF TidyLines, moved

----------------------------------------------------------------------------
(***************************************************************************)
(* The inductive invariant: what the objects have in memory is tidy under  *)
(* the present name, and so is what was written, of which the file is the  *)
(* text.                                                                   *)
(***************************************************************************)
FileInv ==
  /\ fstabFile \in Seq(FileLines)
  /\ written # Unwritten =>
       /\ written \in TidyLines(renames)
       /\ \A i \in DOMAIN written : written[i] # Placeholder
       /\ fstabFile = AllAsRead(Stripped(written))

LinesInv ==
  /\ DOMAIN fstabLines = Objects
  /\ \A o \in Objects : Ready(o) => fstabLines[o] \in TidyLines(renames)

FstabInv ==
  /\ FileInv
  /\ LinesInv
  /\ Flat(mounts)
  /\ fstabRunning \in BOOLEAN
  /\ prepared \in {"no", "base", "all"}
  /\ renames \in 0 .. MaxRenames

LEMMA FstabInitInv == FstabInit => FstabInv
<1> SUFFICES ASSUME FstabInit PROVE FstabInv
  OBVIOUS
<1>1. FileInv
  BY LinesAssumption DEF FstabInit, FileInv
<1>2. LinesInv
  BY DEF FstabInit, LinesInv, Ready
<1>3. Flat(mounts)
  BY SetFlat DEF FstabInit, EmptyBag
<1>4. renames \in 0 .. MaxRenames
  BY NamesAssumption DEF FstabInit
<1> QED
  BY <1>1, <1>2, <1>3, <1>4 DEF FstabInit, FstabInv

LEMMA KeepInv ==
  ASSUME FstabInv, NEW o \in Objects, NEW lines, Keep(o, lines), UNCHANGED renames,
         lines = Unread \/ lines \in TidyLines(renames)
  PROVE  LinesInv'
BY DEF FstabInv, LinesInv, Keep, Ready

LEMMA WriteInv ==
  ASSUME NEW n \in 0 .. MaxRenames, renames' = n, NEW lines \in TidyLines(n),
         Write(lines)
  PROVE  FileInv'
<1> DEFINE printed == Printed(lines)
<1>1. printed \in TidyLines(n) /\ \A i \in DOMAIN printed : printed[i] # Placeholder
  BY PrintedTidy
<1>2. written' = printed /\ fstabFile' = AllAsRead(Stripped(printed))
  BY DEF Write
<1> HIDE DEF printed
<1>3. AllAsRead(Stripped(printed)) \in Seq(FileLines)
  BY <1>1, StrippedTidy, ParsedSame
<1> QED
  BY <1>1, <1>2, <1>3 DEF FileInv

\* add_line() keeps what was there, without what it replaces.
LEMMA AddedInv ==
  ASSUME FstabInv, NEW o \in Objects, Ready(o), UNCHANGED renames,
         NEW source \in Path, NEW d \in Path, NEW auto \in BOOLEAN, NEW replace,
         Added(o, Entry(source, Placed(d, renames), auto), replace)
  PROVE  \E lines \in TidyLines(renames) : Keep(o, lines)
<1> DEFINE line == Entry(source, Placed(d, renames), auto)
           rest == Without(fstabLines[o], line.destination)
<1>1. renames \in 0 .. MaxRenames /\ fstabLines[o] \in TidyLines(renames)
  BY DEF FstabInv, LinesInv
<1>2. rest \in TidyLines(renames) /\ ~Lists(rest, line.destination)
  BY <1>1, WithoutTidy
<1>3. Placed(d, renames) \in Path /\ IsRelative(Placed(d, renames), renames)
  BY <1>1, PlacedBelow
<1>4. line \in MemoryLines /\ IsEntry(line) /\ line.destination = Placed(d, renames)
  BY <1>3, EntryTyped DEF MemoryLines
<1> HIDE DEF line, rest
<1>5. Append(rest, line) \in TidyLines(renames)
  BY <1>2, <1>3, <1>4, AppendTidy
<1>6. Keep(o, rest) \/ Keep(o, Append(rest, line))
  BY DEF Added, Appended, line, rest
<1> QED
  BY <1>2, <1>5, <1>6

LEMMA ReadPart ==
  ASSUME FstabInv, NEW n \in 0 .. MaxRenames, NEW i \in 0 .. Len(fstabFile)
  PROVE  Parsed(SubSeq(fstabFile, 1, i), n) \in TidyLines(n)
<1>1. fstabFile \in Seq(FileLines)
  BY DEF FstabInv, FileInv
<1>2. \A k \in 1 .. i : fstabFile[k] \in FileLines
  BY <1>1
<1>3. SubSeq(fstabFile, 1, i) \in Seq(FileLines)
  BY <1>2, SubSeqProperties
<1> QED
  BY <1>3, ParsedTidy

LEMMA RenameInv ==
  ASSUME FstabInv, NEW o \in Objects, RenameJail(o)
  PROVE  FileInv' /\ LinesInv' /\ renames' \in 0 .. MaxRenames
<1> DEFINE n == renames + 1
<1>1. n \in 1 .. MaxRenames /\ n \in 0 .. MaxRenames /\ n - 1 = renames
  BY NamesAssumption DEF FstabInv, RenameJail
<1>2. renames' = n /\ UpdateFstabPaths(o, n)
  BY DEF RenameJail
<1> HIDE DEF n
<1>3. PICK ok \in BOOLEAN, i \in 0 .. Len(fstabFile) :
        LET lines == Parsed(SubSeq(fstabFile, 1, i), n)
            moved == ReplacePath(lines, Mountpoint(renames), Mountpoint(n))
        IN /\ fstabLines' = [p \in Objects |->
                               IF p = o /\ ok THEN moved
                               ELSE IF p = o /\ Ready(o) THEN lines ELSE Unread]
           /\ IF ok THEN Write(moved)
              ELSE written' = Unwritten /\ UNCHANGED fstabFile
  BY <1>2 DEF UpdateFstabPaths
<1> DEFINE lines == Parsed(SubSeq(fstabFile, 1, i), n)
           moved == ReplacePath(lines, Mountpoint(renames), Mountpoint(n))
<1>4. lines \in TidyLines(n)
  BY <1>1, ReadPart
<1> HIDE DEF lines
<1>5. moved \in TidyLines(n)
  <2>1. ReplacePath(lines, Mountpoint(n - 1), Mountpoint(n)) \in TidyLines(n)
    BY <1>1, <1>4, ReplacedTidy
  <2> QED
    BY <1>1, <2>1
<1>6. /\ fstabLines' = [p \in Objects |-> IF p = o /\ ok THEN moved
                                          ELSE IF p = o /\ Ready(o) THEN lines ELSE Unread]
      /\ IF ok THEN Write(moved) ELSE written' = Unwritten /\ UNCHANGED fstabFile
  BY <1>3 DEF lines
<1> HIDE DEF moved
<1>7. LinesInv'
  BY <1>2, <1>4, <1>5, <1>6 DEF LinesInv, Ready
<1>8. FileInv'
  <2>1. CASE ok
    BY <1>1, <1>2, <1>5, <1>6, <2>1, WriteInv
  <2>2. CASE ~ok
    BY <1>6, <2>2 DEF FstabInv, FileInv
  <2> QED
    BY <2>1, <2>2
<1> QED
  BY <1>1, <1>2, <1>7, <1>8

LEMMA FstabNextInv == FstabInv /\ [FstabNext]_fstabVars => FstabInv'
<1> SUFFICES ASSUME FstabInv, [FstabNext]_fstabVars PROVE FstabInv'
  OBVIOUS
<1>1. Flat(mounts)'
  BY FstabNextFlat DEF FstabInv
<1>2. ASSUME FileInv', LinesInv', UNCHANGED renames,
             fstabRunning' \in BOOLEAN, prepared' \in {"no", "base", "all"}
      PROVE  FstabInv'
  BY <1>1, <1>2 DEF FstabInv
<1>3. ASSUME UNCHANGED <<fstabFile, written, renames>> PROVE FileInv'
  BY <1>3 DEF FstabInv, FileInv
<1>4. ASSUME UNCHANGED <<fstabLines, renames>> PROVE LinesInv'
  BY <1>4 DEF FstabInv, LinesInv, Ready
<1>5. ASSUME NEW o \in Objects, OpenFstab(o) PROVE FstabInv'
  <2>1. Parsed(fstabFile, renames) \in TidyLines(renames)
    BY ParsedTidy DEF FstabInv, FileInv
  <2>2. Keep(o, Parsed(fstabFile, renames)) /\ UNCHANGED renames
    BY <1>5 DEF OpenFstab
  <2>3. LinesInv'
    BY <2>1, <2>2, KeepInv
  <2> QED
    BY <1>2, <1>3, <1>5, <2>3 DEF OpenFstab, FstabInv
<1>6. ASSUME NEW o \in Objects, Adds(o) PROVE FstabInv'
  <2>1. PICK line \in Requests, replace \in BOOLEAN : AddLine(o, line, replace)
    BY <1>6 DEF Adds
  <2>2. line.source \in Path /\ line.destination \in Path /\ line.auto \in BOOLEAN
    BY LinesAssumption, EntryTyped
  <2>3. PICK lines \in TidyLines(renames) : Keep(o, lines)
    BY <2>1, <2>2, AddedInv DEF AddLine
  <2>4. LinesInv'
    BY <2>1, <2>3, KeepInv DEF AddLine
  <2> QED
    BY <1>2, <1>3, <2>1, <2>4 DEF AddLine, FstabInv
<1>7. ASSUME NEW o \in Objects, Deletes(o) PROVE FstabInv'
  <2>1. PICK i \in 1 .. MaxLines : DeleteLine(o, i)
    BY <1>7 DEF Deletes
  <2>2. fstabLines[o] \in TidyLines(renames) /\ i \in DOMAIN fstabLines[o]
    BY <2>1 DEF DeleteLine, FstabInv, LinesInv
  <2>3. RemoveAt(fstabLines[o], i) \in TidyLines(renames)
    BY <2>2, RemoveTidy
  <2>4. LinesInv'
    BY <2>1, <2>3, KeepInv DEF DeleteLine
  <2> QED
    BY <1>2, <1>3, <2>1, <2>4 DEF DeleteLine, FstabInv
<1>8. ASSUME NEW o \in Objects, SaveFstab(o) PROVE FstabInv'
  <2>1. fstabLines[o] \in TidyLines(renames) /\ renames \in 0 .. MaxRenames
    BY <1>8 DEF SaveFstab, FstabInv, LinesInv
  <2>2. FileInv'
    BY <1>8, <2>1, WriteInv DEF SaveFstab
  <2> QED
    BY <1>2, <1>4, <1>8, <2>2 DEF SaveFstab, FstabInv
<1>9. ASSUME NEW o \in Objects, SaveInterrupted(o) PROVE FstabInv'
  <2>1. <<>> \in Seq(FileLines)
    OBVIOUS
  <2>2. FileInv'
    BY <1>9, <2>1 DEF SaveInterrupted, FileInv
  <2>3. LinesInv'
    BY <1>9, KeepInv DEF SaveInterrupted
  <2> QED
    BY <1>2, <1>9, <2>2, <2>3 DEF SaveInterrupted, FstabInv
<1>10. ASSUME NEW o \in Objects, UpdateAndSave(o) PROVE FstabInv'
  <2>1. PICK ok \in BOOLEAN, i \in 0 .. Len(fstabFile) :
          LET lines == Parsed(SubSeq(fstabFile, 1, i), renames)
          IN /\ Keep(o, lines)
             /\ IF ok THEN Write(lines) ELSE UNCHANGED <<fstabFile, written>>
    BY <1>10 DEF UpdateAndSave
  <2> DEFINE lines == Parsed(SubSeq(fstabFile, 1, i), renames)
  <2>2. lines \in TidyLines(renames) /\ renames \in 0 .. MaxRenames
    BY ReadPart DEF FstabInv
  <2>3. Keep(o, lines) /\ IF ok THEN Write(lines) ELSE UNCHANGED <<fstabFile, written>>
    BY <2>1
  <2> HIDE DEF lines
  <2>4. UNCHANGED <<mounts, fstabRunning, prepared, linked, renames>>
    BY <1>10 DEF UpdateAndSave
  <2>5. LinesInv'
    BY <2>2, <2>3, <2>4, KeepInv
  <2>6. FileInv'
    <3>1. CASE ok
      BY <2>2, <2>3, <2>4, <3>1, WriteInv
    <3>2. CASE ~ok
      BY <1>3, <2>3, <2>4, <3>2
    <3> QED
      BY <3>1, <3>2
  <2> QED
    BY <1>2, <2>4, <2>5, <2>6 DEF FstabInv
<1>11. ASSUME NEW o \in Objects, MountsPkg(o) PROVE FstabInv'
  <2>1. PICK s \in Sources, d \in Destinations : MountPkgDirectory(o, s, d)
    BY <1>11 DEF MountsPkg
  <2>2. s \in Path /\ d \in Path
    BY PathsAssumption
  <2>3. PICK lines \in TidyLines(renames) : Keep(o, lines)
    BY <2>1, <2>2, AddedInv DEF MountPkgDirectory
  <2>4. LinesInv'
    BY <2>1, <2>3, KeepInv DEF MountPkgDirectory
  <2>5. fstabLines'[o] = lines
    BY <2>3 DEF Keep, FstabInv, LinesInv
  <2>6. FileInv'
    <3>1. Write(lines) /\ renames' = renames /\ renames \in 0 .. MaxRenames
      BY <2>1, <2>5 DEF MountPkgDirectory, FstabInv
    <3> QED
      BY <3>1, WriteInv
  <2> QED
    BY <1>2, <2>1, <2>4, <2>6 DEF MountPkgDirectory, FstabInv
<1>12. ASSUME NEW o \in Objects, RenameJail(o) PROVE FstabInv'
  BY <1>1, <1>12, RenameInv DEF RenameJail, FstabInv
<1>13. ASSUME NEW o \in Objects, MountFstab(o) \/ UnmountFstab(o) PROVE FstabInv'
  <2>1. /\ UNCHANGED <<fstabFile, written, fstabLines, fstabRunning, renames>>
        /\ prepared' \in {"no", "all"}
    BY <1>13 DEF MountFstab, UnmountFstab
  <2> QED
    BY <1>2, <1>3, <1>4, <2>1 DEF FstabInv
<1>14. ASSUME NEW o \in Objects, ForgetFstab(o) PROVE FstabInv'
  <2>1. LinesInv'
    BY <1>14, KeepInv DEF ForgetFstab
  <2> QED
    BY <1>2, <1>3, <1>14, <2>1 DEF ForgetFstab, FstabInv
<1>15. ASSUME ApplyBase \/ AttachJail \/ RemoveJail \/ TeardownBase \/ Links PROVE FstabInv'
  <2>1. /\ UNCHANGED <<fstabFile, written, fstabLines, renames>>
        /\ fstabRunning' \in BOOLEAN /\ prepared' \in {"no", "base", "all"}
    BY <1>15 DEF ApplyBase, AttachJail, RemoveJail, TeardownBase, Links, ReplaceByLink,
                 FstabInv
  <2> QED
    BY <1>2, <1>3, <1>4, <2>1
<1>16. CASE UNCHANGED fstabVars
  BY <1>2, <1>3, <1>4, <1>16 DEF fstabVars, FstabInv
<1> QED
  BY <1>5, <1>6, <1>7, <1>8, <1>9, <1>10, <1>11, <1>12, <1>13, <1>14, <1>15, <1>16
     DEF FstabNext

LEMMA FstabInvTyped == FstabInv => FstabTypeOK
<1> SUFFICES ASSUME FstabInv PROVE FstabTypeOK
  OBVIOUS
<1>1. \A i \in DOMAIN fstabFile :
        fstabFile[i] # Placeholder /\ AsRead(fstabFile[i]) = fstabFile[i]
  <2>1. \A i \in DOMAIN fstabFile : fstabFile[i] \in FileLines
    BY LenProperties DEF FstabInv, FileInv
  <2>2. \A line \in FileLines : line # Placeholder
    BY DEF FileLines, EntryLines, Placeholder, Comment, Empty, AutoEntry, Malformed,
           Invalid
  <2>3. \A line \in FileLines : AsRead(line) = line
    BY DEF FileLines, AsRead, IsEntry, Comment, Empty, AutoEntry, Malformed, Invalid
  <2> QED
    BY <2>1, <2>2, <2>3
<1>2. ASSUME NEW o \in Objects, Ready(o), NEW i \in DOMAIN fstabLines[o]
      PROVE  /\ fstabLines[o][i].kind \in {"entry", "comment", "empty", "placeholder"}
             /\ IsEntry(fstabLines[o][i]) =>
                  IsRelative(fstabLines[o][i].destination, renames)
  <2>1. fstabLines[o] \in TidyLines(renames)
    BY <1>2 DEF FstabInv, LinesInv
  <2>2. fstabLines[o] \in Seq(MemoryLines)
    BY <2>1 DEF TidyLines
  <2>3. fstabLines[o][i] \in MemoryLines
    BY <2>2, LenProperties
  <2>4. fstabLines[o][i].kind \in {"entry", "comment", "empty", "placeholder"}
    BY <2>3 DEF MemoryLines, EntryLines, Placeholder, Comment, Empty
  <2> QED
    BY <2>1, <2>4 DEF TidyLines
<1>3. IsABag(mounts)
  BY DEF FstabInv, Flat, IsABag
<1> QED
  BY <1>1, <1>2, <1>3 DEF FstabTypeOK, FstabInv, FileInv

LEMMA FstabInvReads == FstabInv => FstabReadsBack
<1> DEFINE lines == Stripped(written)
<1> SUFFICES ASSUME FstabInv, written # Unwritten
             PROVE  Printed(Parsed(fstabFile, renames)) = Selected(lines, Kept(lines, renames))
  BY DEF FstabReadsBack, Kept
<1>1. /\ renames \in 0 .. MaxRenames
      /\ fstabFile = AllAsRead(lines)
      /\ lines \in TidyLines(renames)
      /\ \A i \in DOMAIN lines : lines[i] # Placeholder
  BY StrippedTidy DEF FstabInv, FileInv
<1> HIDE DEF lines
<1> QED
  BY <1>1, ParsedSame

\* In every state each object has entries below the dataset of its jail only,
\* and the file has nothing but the text of lines (Fstab.py:618, 680).
THEOREM FstabTypeCorrect == FstabSpec => []FstabTypeOK
BY FstabInitInv, FstabNextInv, FstabInvTyped, PTL DEF FstabSpec

\* However many objects read, change and write the file in whatever order, and
\* whatever it was before: of what was written under the present name those lines
\* are read back, in their order, of which the text is read as what it was, but for
\* entries that mount on a base directory and empty lines at the end.  An entry
\* with a # or a tab in a path, or with the mark of older versions for a comment,
\* is lost (Fstab.py:67, 233, 241-275, 688).
THEOREM FstabReadsBackTheorem == FstabSpec => []FstabReadsBack
BY FstabInitInv, FstabNextInv, FstabInvReads, PTL DEF FstabSpec

----------------------------------------------------------------------------
(***************************************************************************)
(* The configuration of a jail: no setter stores anything but plain values *)
(* for known keys, whatever it is given.                                   *)
(***************************************************************************)
LEMMA KnownKeys ==
  /\ {"type", "basejail", "clonejail", "tag", "tags", "release",
      "cloned_release", "vnet", "vnet_interfaces", "jail_zfs", "exec_clean"}
       \subseteq AllKeys
  /\ Keys \subseteq AllKeys
  /\ IsFiniteSet(AllKeys)
<1>1. /\ KeyOrder[20] = "type" /\ KeyOrder[3] = "basejail" /\ KeyOrder[6] = "clonejail"
      /\ KeyOrder[17] = "tag" /\ KeyOrder[18] = "tags" /\ KeyOrder[16] = "release"
      /\ KeyOrder[7] = "cloned_release" /\ KeyOrder[23] = "vnet"
      /\ KeyOrder[24] = "vnet_interfaces" /\ KeyOrder[12] = "jail_zfs"
      /\ KeyOrder[10] = "exec_clean"
  BY DEF KeyOrder
<1>2. DOMAIN KeyOrder = 1 .. 24
  BY DEF KeyOrder
<1>3. \A i \in 1 .. 24 : KeyOrder[i] \in AllKeys
  BY <1>2 DEF AllKeys
<1>4. IsFiniteSet(AllKeys)
  <2>1. PICK last \in Nat : last = 24
    OBVIOUS
  <2>2. IsFiniteSet(1 .. last)
    BY FS_Interval
  <2> DEFINE f == [i \in 1 .. last |-> KeyOrder[i]]
  <2>3. f \in [1 .. last -> AllKeys] /\ \A k \in AllKeys : \E i \in 1 .. last : f[i] = k
    BY <1>2, <2>1 DEF AllKeys
  <2>4. f \in Surjection(1 .. last, AllKeys)
    BY <2>3 DEF Surjection
  <2> HIDE DEF f
  <2> QED
    BY <2>2, <2>4, FS_Surjection
<1> QED
  BY <1>1, <1>3, <1>4 DEF Keys

LEMMA TextTyped ==
  /\ \A x : Str(x).t = "str" /\ List(x).t = "list" /\ Num(x).t = "int"
  /\ True.t = "bool" /\ False.t = "bool" /\ None.t = "none" /\ None # Error
  /\ \A v, yes, no, none : ToText(v, yes, no, none).t = "str"
  /\ \A v : Stringify(v).t = "str"
  /\ \A fmt, v : Output(fmt, v).t = "str"
  /\ \A k, v : SpecialText(k, v).t = "str"
<1>1. \A x : Str(x).t = "str" /\ List(x).t = "list" /\ Num(x).t = "int"
  BY DEF Str, List, Num
<1>2. \A v, yes, no, none : ToText(v, yes, no, none).t = "str"
  BY <1>1 DEF ToText
<1> QED
  BY <1>1, <1>2 DEF Stringify, Output, SpecialText, LimitText, TermsText,
                    True, False, None, Error

LEMMA GivenTyped ==
  ASSUME NEW k, NEW v, Given(k, v)
  PROVE  v.t \in ValueTypes
BY TextTyped DEF Given, ValueTypes

LEMMA InputTyped ==
  ASSUME NEW v, v.t \in ValueTypes
  PROVE  /\ ParseUserInput(v).t \in ValueTypes
         /\ ParseBool(v) # Error => ParseBool(v).t \in ValueTypes
         /\ ParseInt(v).t \in ValueTypes
BY TextTyped DEF ParseUserInput, ParseBool, ParseInt, ValueTypes

LEMMA PutTyped ==
  ASSUME NEW d, Typed(d), NEW k \in AllKeys, NEW v, v.t \in ValueTypes
  PROVE  Typed(Put(d, k, v))
BY DEF Typed, Put

LEMMA DropTyped ==
  ASSUME NEW d, Typed(d), NEW k
  PROVE  Typed(Drop(d, k))
BY DEF Typed, Drop

\* Every setter stores plain values, whatever it makes of what it is given.
LEMMA SetterTyped ==
  ASSUME NEW d, Typed(d), NEW k \in Keys, NEW v, v.t \in ValueTypes,
         ~Refused(k, v), ~Broken(d, k, v)
  PROVE  Typed(Setter(d, k, v))
<1>1. k \in AllKeys
  BY KnownKeys
<1>2. \A x, key : key \in AllKeys => Typed(Put(d, key, Str(x)))
  BY PutTyped, TextTyped DEF ValueTypes
<1>3. \A key, x : key \in AllKeys => Typed(Put(d, key, Stringify(x)))
  BY PutTyped, TextTyped DEF ValueTypes
<1>4. \A key \in AllKeys : Typed(Put(d, key, v))
  BY PutTyped
<1>5. Typed(SetType(d, v))
  <2>1. CASE ~Word(v, {"basejail", "clonejail"})
    BY <1>4, <2>1, KnownKeys DEF SetType
  <2>2. CASE Word(v, {"basejail", "clonejail"})
    <3> DEFINE yes == Stringify(IF v.x[1] = "basejail" THEN True ELSE False)
               no == Stringify(IF v.x[1] = "clonejail" THEN True ELSE False)
    <3>1. yes.t \in ValueTypes /\ no.t \in ValueTypes /\ Str(<<"jail">>).t \in ValueTypes
      BY TextTyped DEF ValueTypes
    <3>2. SetType(d, v) = Put(Put(Put(d, "basejail", yes), "clonejail", no), "type", Str(<<"jail">>))
      BY <2>2 DEF SetType
    <3> HIDE DEF yes, no
    <3>3. Typed(Put(d, "basejail", yes))
      BY <3>1, PutTyped, KnownKeys
    <3>4. Typed(Put(Put(d, "basejail", yes), "clonejail", no))
      BY <3>1, <3>3, PutTyped, KnownKeys
    <3> QED
      BY <3>1, <3>2, <3>4, PutTyped, KnownKeys
  <2> QED
    BY <2>1, <2>2
<1>6. Typed(SetTag(d, v))
  BY <1>3, <1>4, KnownKeys DEF SetTag
<1>7. Typed(SetTags(d, v))
  BY <1>3, DropTyped, KnownKeys DEF SetTags
<1>8. Typed(SetVnet(d, v))
  <2>1. ToText(v, "on", "off", "-").t \in ValueTypes
    BY TextTyped DEF ValueTypes
  <2> QED
    BY <2>1, PutTyped, KnownKeys DEF SetVnet
<1>9. Typed(SetVnetInterfaces(d, v))
  <2>1. List(<<>>).t \in ValueTypes
    BY TextTyped DEF ValueTypes
  <2>2. Typed(Put(d, "vnet_interfaces", List(<<>>)))
    BY <2>1, PutTyped, KnownKeys
  <2> QED
    BY <1>3, <2>2, KnownKeys DEF SetVnetInterfaces
<1>10. Typed(SetJailZfs(d, v))
  <2>1. ToText(ParseBool(v), "on", "off", "-").t \in ValueTypes
    BY TextTyped DEF ValueTypes
  <2>2. Typed(Put(d, "jail_zfs", ToText(ParseBool(v), "on", "off", "-")))
    BY <2>1, PutTyped, KnownKeys
  <2>3. Typed(Drop(d, "jail_zfs"))
    BY DropTyped
  <2> QED
    BY <2>2, <2>3 DEF SetJailZfs
<1>11. Typed(SetExecClean(d, v))
  <2>1. Num("1").t \in ValueTypes /\ Num("0").t \in ValueTypes
    BY TextTyped DEF ValueTypes
  <2>2. /\ Typed(Put(d, "exec_clean", Num("1")))
        /\ Typed(Put(d, "exec_clean", Num("0")))
    BY <2>1, PutTyped, KnownKeys
  <2> QED
    BY <2>2 DEF SetExecClean
<1>12. Typed(SetClonedRelease(d, v))
  BY <1>4, PutTyped, KnownKeys DEF SetClonedRelease
<1>13. Typed(SetMount(d, k, v))
  BY <1>1, <1>2 DEF SetMount
<1>14. Typed(Put(d, k, Str(ParseInt(v).x)))
  BY <1>1, <1>2
<1>15. k = "template" => Typed(Put(d, k, ParseBool(v)))
  BY <1>1, InputTyped, PutTyped DEF Refused
<1>16. k # "template" => Typed(Put(d, k, Sanitized(k, v)))
  <2>1. Sanitized(k, v).t \in ValueTypes
    <3>1. CASE k \notin DOMAIN DefaultType \/ v = None
      BY <3>1 DEF Sanitized, TextOf
    <3>2. CASE k \in DOMAIN DefaultType /\ v # None /\ DefaultType[k] = "bool"
      <4>1. k = "boot"
        BY <3>2 DEF DefaultType
      <4>2. ParseBool(v).t \in ValueTypes
        BY <3>2, <4>1, InputTyped DEF Broken
      <4> QED
        BY <3>2, <4>2 DEF Sanitized, TextOf
    <3>3. CASE k \in DOMAIN DefaultType /\ v # None /\ DefaultType[k] # "bool"
      <4>1. DefaultType[k] \in {"str", "int"}
        BY <3>3 DEF DefaultType
      <4> QED
        BY <3>3, <4>1, InputTyped, TextTyped DEF Sanitized, TextOf, ValueTypes
    <3> QED
      BY <3>1, <3>2, <3>3
  <2> QED
    BY <1>1, <2>1, PutTyped
<1> QED
  BY <1>1, <1>3, <1>5, <1>6, <1>7, <1>8, <1>9, <1>10, <1>11, <1>12, <1>13, <1>14,
     <1>15, <1>16 DEF Setter

LEMMA SetItemTyped ==
  ASSUME NEW d, Typed(d), NEW k, NEW v, v.t \in ValueTypes, Accepts(d, k, v)
  PROVE  Typed(SetItem(d, k, v))
<1>1. k \in Keys /\ k \in AllKeys
  BY KnownKeys DEF Accepts, Known
<1>2. CASE k \in Special
  BY <1>1, <1>2, PutTyped, TextTyped DEF SetItem, ValueTypes
<1>3. CASE k \notin Special
  BY <1>1, <1>3, InputTyped, SetterTyped DEF SetItem, Accepts
<1> QED
  BY <1>2, <1>3

(***************************************************************************)
(* Reading a configuration.                                                *)
(***************************************************************************)
LEMMA ReadKeyTyped ==
  ASSUME NEW d, d = NoConfig \/ Typed(d), NEW k \in AllKeys,
         NEW text, text.t \in ValueTypes, NEW skip
  PROVE  ReadKey(d, k, text, skip) = NoConfig \/ Typed(ReadKey(d, k, text, skip))
<1>1. CASE d = NoConfig
  BY <1>1 DEF ReadKey
<1>2. CASE d # NoConfig /\ ~Broken(d, k, ParseUserInput(text)) /\ Accepts(d, k, text)
  BY <1>2, SetItemTyped DEF ReadKey
<1>3. CASE d # NoConfig /\ Broken(d, k, ParseUserInput(text))
  BY <1>3 DEF ReadKey, Accepts
<1>4. CASE d # NoConfig /\ ~Broken(d, k, ParseUserInput(text)) /\ ~Accepts(d, k, text)
  <2>1. Typed(Put(d, k, ParseUserInput(text)))
    BY <1>4, InputTyped, PutTyped
  <2> QED
    BY <1>4, <2>1 DEF ReadKey
<1> QED
  BY <1>1, <1>2, <1>3, <1>4

Reading(f, texts, order, skip, n) ==
  /\ f = [i \in 0 .. n |-> f[i]]
  /\ f[0] = << >>
  /\ \A i \in 1 .. n : f[i] = ReadKey(f[i - 1], order[i], texts[order[i]], skip)

LEMMA ReadingExists ==
  ASSUME NEW texts, NEW order, NEW skip, NEW last \in Nat
  PROVE  \E f : Reading(f, texts, order, skip, last)
<1> DEFINE S == {n \in 0 .. last : \E f : Reading(f, texts, order, skip, n)}
<1>1. 0 \in S
  <2>1. Reading([i \in 0 .. 0 |-> << >>], texts, order, skip, 0)
    BY DEF Reading
  <2> QED
    BY <2>1
<1>2. ASSUME NEW n \in 1 .. last, n - 1 \in S
      PROVE  n \in S
  <2>1. PICK g : Reading(g, texts, order, skip, n - 1)
    BY <1>2
  <2> DEFINE new == ReadKey(g[n - 1], order[n], texts[order[n]], skip)
             f == [i \in 0 .. n |-> IF i = n THEN new ELSE g[i]]
  <2>2. f[n] = new /\ \A i \in 0 .. n - 1 : f[i] = g[i]
    OBVIOUS
  <2>3. f = [i \in 0 .. n |-> f[i]]
    OBVIOUS
  <2>4. f[n - 1] = g[n - 1] /\ f[0] = << >>
    BY <2>1, <2>2 DEF Reading
  <2> HIDE DEF f
  <2>5. \A i \in 1 .. n : f[i] = ReadKey(f[i - 1], order[i], texts[order[i]], skip)
    <3>1. f[n] = ReadKey(f[n - 1], order[n], texts[order[n]], skip)
      BY <2>2, <2>4
    <3>2. ASSUME NEW i \in 1 .. n - 1
          PROVE  f[i] = ReadKey(f[i - 1], order[i], texts[order[i]], skip)
      BY <2>1, <2>2 DEF Reading
    <3> QED
      BY <3>1, <3>2
  <2>6. Reading(f, texts, order, skip, n)
    BY <2>3, <2>4, <2>5 DEF Reading
  <2> QED
    BY <2>6
<1> HIDE DEF S
<1>3. last \in S
  BY <1>1, <1>2, EveryPosition
<1> QED
  BY <1>3 DEF S

LEMMA ReadIntoIs ==
  ASSUME NEW texts, NEW last \in Nat, NEW order, Len(order) = last, NEW skip
  PROVE  \E f : Reading(f, texts, order, skip, last) /\ ReadInto(texts, order, skip) = f[last]
<1> DEFINE Step(f, i) == IF i = 0 THEN << >>
                         ELSE ReadKey(f[i - 1], order[i], texts[order[i]], skip)
           Result == CHOOSE f : f = [i \in 0 .. last |-> Step(f, i)]
<1>2. ReadInto(texts, order, skip) = Result[last]
  BY DEF ReadInto
<1>3. Result = [i \in 0 .. last |-> Step(Result, i)]
  <2>1. PICK f : Reading(f, texts, order, skip, last)
    BY ReadingExists
  <2>2. ASSUME NEW i \in 0 .. last PROVE f[i] = Step(f, i)
    <3>1. CASE i = 0
      BY <2>1, <3>1 DEF Reading
    <3>2. CASE i \in 1 .. last
      BY <2>1, <3>2 DEF Reading
    <3> QED
      BY <3>1, <3>2
  <2>3. f = [i \in 0 .. last |-> f[i]]
    BY <2>1 DEF Reading
  <2>4. [i \in 0 .. last |-> f[i]] = [i \in 0 .. last |-> Step(f, i)]
    BY <2>2
  <2> QED
    BY <2>3, <2>4
<1> HIDE DEF Result
<1>4. Reading(Result, texts, order, skip, last)
  BY <1>3 DEF Reading
<1> QED
  BY <1>2, <1>4

LEMMA ReadIntoTyped ==
  ASSUME NEW texts, Typed(texts), NEW last \in Nat,
         NEW order \in [1 .. last -> DOMAIN texts], NEW skip
  PROVE  \/ ReadInto(texts, order, skip) = NoConfig
         \/ Typed(ReadInto(texts, order, skip))
<1>1. Len(order) = last
  BY LenProperties
<1>2. PICK f : /\ Reading(f, texts, order, skip, last)
               /\ ReadInto(texts, order, skip) = f[last]
  BY <1>1, ReadIntoIs
<1> DEFINE S == {i \in 0 .. last : f[i] = NoConfig \/ Typed(f[i])}
<1>3. 0 \in S
  BY <1>2 DEF Reading, Typed
<1>4. ASSUME NEW i \in 1 .. last, i - 1 \in S
      PROVE  i \in S
  <2>1. order[i] \in DOMAIN texts
    OBVIOUS
  <2>2. order[i] \in AllKeys /\ texts[order[i]].t \in ValueTypes
    BY <2>1 DEF Typed
  <2>3. f[i] = NoConfig \/ Typed(f[i])
    BY <1>2, <1>4, <2>2, ReadKeyTyped DEF Reading
  <2> QED
    BY <2>3
<1> HIDE DEF S
<1>5. last \in S
  BY <1>3, <1>4, EveryPosition
<1> QED
  BY <1>2, <1>5 DEF S

LEMMA ReadsTyped ==
  ASSUME NEW fmt, NEW texts, Typed(texts), NEW skip, NEW d \in Reads(fmt, texts, skip)
  PROVE  d = NoConfig \/ Typed(d)
<1>1. IsFiniteSet(DOMAIN texts)
  BY KnownKeys, FS_Subset DEF Typed
<1>2. Cardinality(DOMAIN texts) \in Nat
  BY <1>1, FS_CardinalityType
<1>3. PICK order \in [1 .. Cardinality(DOMAIN texts) -> DOMAIN texts] :
        d = ReadInto(texts, order, skip)
  BY DEF Reads, Orders
<1> QED
  BY <1>2, <1>3, ReadIntoTyped

LEMMA ConfigInitTyped == ConfigInit => ConfigTypeOK
<1> SUFFICES ASSUME ConfigInit PROVE ConfigTypeOK
  OBVIOUS
<1>1. Typed(<< >>)
  BY DEF Typed
<1>2. 0 \in 0 .. MaxChanges
  BY InputsAssumption
<1>3. \A k \in DOMAIN disk : disk[k].t = "str"
  <2>1. DOMAIN disk = {}
    BY DEF ConfigInit
  <2> QED
    BY <2>1
<1>4. Typed(disk) /\ Typed(data) /\ Typed(defaults)
  BY <1>1 DEF ConfigInit
<1> QED
  BY <1>2, <1>3, <1>4 DEF ConfigInit, ConfigTypeOK

LEMMA ConfigNextTyped == ConfigTypeOK /\ [ConfigNext]_configVars => ConfigTypeOK'
<1> SUFFICES ASSUME ConfigTypeOK, [ConfigNext]_configVars PROVE ConfigTypeOK'
  OBVIOUS
<1>1. ASSUME NEW skip, Open(skip) PROVE ConfigTypeOK'
  <2>1. data' = NoConfig \/ Typed(data')
    BY <1>1, ReadsTyped DEF Open, ConfigTypeOK
  <2>2. ~saving
    BY <1>1 DEF Open, ConfigTypeOK
  <2> QED
    BY <1>1, <2>1, <2>2 DEF Open, ConfigTypeOK
<1>2. ASSUME NEW i \in Inputs, SetProperty(i[1], i[2]) PROVE ConfigTypeOK'
  <2>1. Typed(data')
    BY <1>2, InputsAssumption, GivenTyped, SetItemTyped
       DEF SetProperty, Changes, ConfigTypeOK
  <2> QED
    BY <1>2, <2>1, InputsAssumption DEF SetProperty, Changes, ConfigTypeOK
<1>3. ASSUME NEW k, DeleteProperty(k) PROVE ConfigTypeOK'
  <2>1. Typed(data')
    BY <1>3, DropTyped DEF DeleteProperty, Changes, ConfigTypeOK
  <2> QED
    BY <1>3, <2>1, InputsAssumption DEF DeleteProperty, Changes, ConfigTypeOK
<1>4. ASSUME NEW k, WriteProperty(k) PROVE ConfigTypeOK'
  <2>1. k \in AllKeys /\ saving
    BY <1>4 DEF WriteProperty, ConfigTypeOK, Typed
  <2>2. Typed(Put(disk, k, Output(handler, data[k])))
    BY <2>1, PutTyped, TextTyped DEF ConfigTypeOK, ValueTypes
  <2>3. \A x \in DOMAIN disk' : disk'[x].t = "str"
    BY <1>4, TextTyped DEF WriteProperty, ConfigTypeOK, Put
  <2> QED
    BY <1>4, <2>1, <2>2, <2>3 DEF WriteProperty, ConfigTypeOK
<1>5. ASSUME NEW k \in AllKeys, ReadDefault(k) PROVE ConfigTypeOK'
  <2>2. Typed(defaults')
    BY <1>5, PutTyped, TextTyped DEF ReadDefault, ConfigTypeOK, ValueTypes
  <2> QED
    BY <1>5, <2>2, InputsAssumption DEF ReadDefault, Changes, ConfigTypeOK
<1>6. CASE BeginSave
  <2>1. Typed(disk') /\ \A k \in DOMAIN disk' : disk'[k].t = "str"
    BY <1>6 DEF BeginSave, ConfigTypeOK, Typed
  <2> QED
    BY <1>6, <2>1 DEF BeginSave, ConfigTypeOK
<1>7. CASE WriteFile
  <2>1. Typed(disk') /\ \A k \in DOMAIN disk' : disk'[k].t = "str"
    BY <1>7, TextTyped DEF WriteFile, ConfigTypeOK, Typed, ValueTypes
  <2> QED
    BY <1>7, <2>1 DEF WriteFile, ConfigTypeOK
<1>8. CASE EndSave
  BY <1>8 DEF EndSave, ConfigTypeOK
<1>9. CASE Exit
  <2>1. Typed(defaults')
    BY <1>9 DEF Exit, Typed
  <2>2. 0 \in 0 .. MaxChanges
    BY InputsAssumption
  <2>3. Typed(disk') /\ \A k \in DOMAIN disk' : disk'[k].t = "str"
    BY <1>9 DEF Exit, ConfigTypeOK
  <2> QED
    BY <1>9, <2>1, <2>2, <2>3 DEF Exit, ConfigTypeOK
<1>10. ASSUME NEW i \in Edits, Edit(i[1], i[2]) PROVE ConfigTypeOK'
  <2>1. i[1] \in AllKeys /\ i[2].t = "str"
    BY InputsAssumption, TextTyped
  <2>2. Typed(disk')
    BY <1>10, <2>1, PutTyped DEF Edit, ConfigTypeOK, ValueTypes
  <2>3. \A k \in DOMAIN disk' : disk'[k].t = "str"
    BY <1>10, <2>1 DEF Edit, ConfigTypeOK, Put
  <2> QED
    BY <1>10, <2>2, <2>3 DEF Edit, ConfigTypeOK
<1>11. ASSUME NEW i \in UserInputs, SetDefault(i[1], i[2]) PROVE ConfigTypeOK'
  <2>1. Typed(defaults')
    BY <1>11, InputsAssumption, GivenTyped, SetItemTyped DEF SetDefault, ConfigTypeOK
  <2> QED
    BY <1>11, <2>1, InputsAssumption DEF SetDefault, Changes, ConfigTypeOK
<1>12. CASE UNCHANGED configVars
  BY <1>12 DEF configVars, ConfigTypeOK
<1> QED
  BY <1>1, <1>2, <1>3, <1>4, <1>5, <1>6, <1>7, <1>8, <1>9, <1>10, <1>11, <1>12
     DEF ConfigNext

\* Whatever is set, edited and read, and wherever a process dies: neither the
\* process nor the storage ever holds the outcome of a conversion that failed,
\* and the storage holds texts only (BaseConfig.py:724, helpers.py:259).
THEOREM ConfigTypeCorrect == ConfigSpec => []ConfigTypeOK
BY ConfigInitTyped, ConfigNextTyped, PTL DEF ConfigSpec

----------------------------------------------------------------------------
(***************************************************************************)
(* What is saved reads back.  Every property is held in one of a few forms *)
(* that its setter makes of whatever it is given, and each of them is      *)
(* stored as a text of which the setter makes the same form again.         *)
(***************************************************************************)
Plain(v) == v = Str(v.x) /\ ~IsTrue(v) /\ ~IsFalse(v) /\ ~IsNone(v)
Scalar(v) == v \in {True, False, None} \/ Plain(v)
TextForm(v, yes, no) == v \in {Str(<<yes>>), Str(<<no>>), Str(<<"-">>)} \/ Plain(v)

LEMMA WordText ==
  ASSUME NEW w
  PROVE  /\ Str(<<w>>) = Str(Str(<<w>>).x)
         /\ IsTrue(Str(<<w>>)) <=> w \in {"yes", "true", "True", "on", "1"}
         /\ IsFalse(Str(<<w>>)) <=> w \in {"no", "false", "False", "off", "0"}
         /\ IsNone(Str(<<w>>)) <=> w \in {"none", "None", "-", ""}
<1>1. Len(<<w>>) = 1 /\ <<w>>[1] = w
  OBVIOUS
<1>2. /\ Str(<<w>>).t = "str" /\ Str(<<w>>).x = <<w>>
      /\ Str(<<w>>) # True /\ Str(<<w>>) # False /\ Str(<<w>>) # None
  BY DEF Str, True, False, None
<1>3. \A words : Word(Str(<<w>>), words) <=> w \in words
  BY <1>1, <1>2 DEF Word
<1> QED
  BY <1>2, <1>3 DEF IsTrue, IsFalse, IsNone

LEMMA ValuesDiffer ==
  /\ True # False /\ True # None /\ False # None
  /\ \A x : Str(x) \notin {True, False, None, Error, Missing} /\ Str(x).x = x
  /\ \A x : Num(x) \notin {True, False, None, Error, Missing}
  /\ \A x, y : Num(x) # Str(y)
  /\ True # Error /\ False # Error /\ None # Error
BY DEF True, False, None, Error, Missing, Str, Num

LEMMA WordsOfOthers ==
  /\ \A words : ~Word(True, words) /\ ~Word(False, words) /\ ~Word(None, words)
  /\ \A n, words : ~Word(Num(n), words)
  /\ \A x, words : ~Word(List(x), words)
BY DEF Word, True, False, None, Num, List

LEMMA Exclusive ==
  ASSUME NEW v
  PROVE  /\ IsTrue(v) => ~IsFalse(v) /\ ~IsNone(v)
         /\ IsFalse(v) => ~IsNone(v)
<1>1. v \in {True, False, None} => \A words : ~Word(v, words)
  BY WordsOfOthers
<1> QED
  BY <1>1, ValuesDiffer DEF IsTrue, IsFalse, IsNone, Word

LEMMA ParsedInput ==
  ASSUME NEW v
  PROVE  /\ IsTrue(v) => ParseUserInput(v) = True /\ ParseBool(v) = True
         /\ IsFalse(v) => ParseUserInput(v) = False /\ ParseBool(v) = False
         /\ IsNone(v) => ParseUserInput(v) = None
         /\ ~IsTrue(v) /\ ~IsFalse(v) => ParseBool(v) = Error
         /\ ~IsTrue(v) /\ ~IsFalse(v) /\ ~IsNone(v) => ParseUserInput(v) = v
BY Exclusive DEF ParseUserInput, ParseBool

LEMMA ValuesAre == IsTrue(True) /\ IsFalse(False) /\ IsNone(None)
BY DEF IsTrue, IsFalse, IsNone

\* What the conversions make of the forms.
LEMMA ScalarParsed ==
  ASSUME NEW v, Scalar(v)
  PROVE  /\ ParseUserInput(v) = v
         /\ v.t # "list" /\ v # List(<<>>)
<1>1. CASE v = True
  BY <1>1, ValuesAre, ParsedInput DEF True, List
<1>2. CASE v = False
  BY <1>2, ValuesAre, ParsedInput DEF False, List
<1>3. CASE v = None
  BY <1>3, ValuesAre, ParsedInput DEF None, List
<1>4. CASE Plain(v)
  BY <1>4, ParsedInput DEF Plain, Str, List
<1> QED
  BY <1>1, <1>2, <1>3, <1>4 DEF Scalar

LEMMA ScalarText ==
  ASSUME NEW v, Scalar(v), NEW yes, NEW no, NEW none
  PROVE  /\ v = True => ToText(v, yes, no, none) = Str(<<yes>>)
         /\ v = False => ToText(v, yes, no, none) = Str(<<no>>)
         /\ v = None => ToText(v, yes, no, none) = Str(<<none>>)
         /\ Plain(v) => ToText(v, yes, no, none) = v
<1>1. Joined(v, yes, no, none) = v /\ v # List(<<>>)
  BY ScalarParsed DEF Joined
<1>2. ParseUserInput(v) = v
  BY ScalarParsed
<1>3. Plain(v) => v = Str(v.x) /\ v \notin {True, False, None}
  BY ValuesDiffer DEF Plain
<1> QED
  BY <1>1, <1>2, <1>3, ValuesDiffer DEF ToText

LEMMA InputScalar ==
  ASSUME NEW v, v = None \/ v = Str(v.x)
  PROVE  Scalar(ParseUserInput(v))
BY ValuesAre, ParsedInput DEF Scalar, Plain

\* A scalar is read as it was written, in every format.
LEMMA ScalarReadsBack ==
  ASSUME NEW v, Scalar(v), NEW fmt
  PROVE  /\ ParseUserInput(Output(fmt, v)) = v
         /\ Output(fmt, v) = Str(Output(fmt, v).x)
<1>1. PICK yes \in {"yes", "on"}, no \in {"no", "off"} :
        Output(fmt, v) = ToText(v, yes, no, "none")
  BY DEF Output
<1>2. CASE v = True
  <2>1. Output(fmt, v) = Str(<<yes>>)
    BY <1>1, <1>2, ScalarText DEF Str
  <2>2. IsTrue(Str(<<yes>>))
    BY WordText
  <2> QED
    BY <1>2, <2>1, <2>2, WordText, ParsedInput
<1>3. CASE v = False
  <2>1. Output(fmt, v) = Str(<<no>>)
    BY <1>1, <1>3, ScalarText DEF Str
  <2>2. ~IsTrue(Str(<<no>>)) /\ IsFalse(Str(<<no>>))
    BY WordText
  <2> QED
    BY <1>3, <2>1, <2>2, WordText, ParsedInput
<1>4. CASE v = None
  <2>1. Output(fmt, v) = Str(<<"none">>)
    BY <1>1, <1>4, ScalarText DEF Str
  <2>2. ~IsTrue(Str(<<"none">>)) /\ ~IsFalse(Str(<<"none">>)) /\ IsNone(Str(<<"none">>))
    BY WordText
  <2> QED
    BY <1>4, <2>1, <2>2, WordText, ParsedInput
<1>5. CASE Plain(v)
  <2>2. Output(fmt, v) = v
    BY <1>1, <1>5, ScalarText DEF Str
  <2> QED
    BY <1>5, <2>2, ScalarParsed DEF Plain
<1> QED
  BY <1>2, <1>3, <1>4, <1>5 DEF Scalar

\* A text is written as what it is read as; a plain one as it is.
LEMMA OutputOfParsed ==
  ASSUME NEW v, v = Str(v.x), NEW fmt
  PROVE  Output(fmt, v) = Output(fmt, ParseUserInput(v))
<1> DEFINE s == ParseUserInput(v)
<1>1. Scalar(s)
  BY InputScalar
<1>2. ParseUserInput(s) = s /\ s.t # "list" /\ s # List(<<>>)
  BY <1>1, ScalarParsed
<1>3. v.t # "list" /\ v # List(<<>>)
  BY TextTyped
<1>4. \A y, n, z : Joined(v, y, n, z) = v /\ Joined(s, y, n, z) = s
  BY <1>2, <1>3 DEF Joined
<1>5. \A y, n, z : ToText(v, y, n, z) = ToText(s, y, n, z)
  BY <1>2, <1>3, <1>4 DEF ToText
<1> QED
  BY <1>5 DEF Output

LEMMA PlainOutput ==
  ASSUME NEW v, Plain(v), NEW fmt
  PROVE  Output(fmt, v) = v
BY ScalarText DEF Output, Scalar, Str

\* The text forms of a setter come from a scalar, and are read as this one.
LEMMA FormOfScalar ==
  ASSUME NEW v, Scalar(v), NEW yes, NEW no
  PROVE  TextForm(ToText(v, yes, no, "-"), yes, no)
BY ScalarText DEF TextForm, Scalar, Str

LEMMA FormReadsBack ==
  ASSUME NEW yes \in {"yes", "on"}, NEW no \in {"no", "off"},
         NEW v, TextForm(v, yes, no), NEW fmt
  PROVE  /\ Output(fmt, v) = Str(Output(fmt, v).x)
         /\ ToText(ParseUserInput(Output(fmt, v)), yes, no, "-") = v
         /\ v = Str(<<yes>>) => ParseUserInput(Output(fmt, v)) = True
         /\ v = Str(<<no>>) => ParseUserInput(Output(fmt, v)) = False
         /\ v \notin {Str(<<yes>>), Str(<<no>>)} /\ v # Str(<<"-">>) =>
              ParseUserInput(Output(fmt, v)) # None
<1> DEFINE s == ParseUserInput(v)
<1>1. v = Str(v.x)
  BY ValuesDiffer DEF TextForm, Plain
<1>2. Scalar(s)
  BY <1>1, InputScalar
<1>3. /\ v = Str(<<yes>>) => s = True
      /\ v = Str(<<no>>) => s = False
      /\ v = Str(<<"-">>) => s = None
      /\ Plain(v) => s = v
  <2>1. v = Str(<<yes>>) => IsTrue(v)
    BY WordText
  <2>2. v = Str(<<no>>) => ~IsTrue(v) /\ IsFalse(v)
    BY WordText
  <2>3. v = Str(<<"-">>) => ~IsTrue(v) /\ ~IsFalse(v) /\ IsNone(v)
    BY WordText
  <2> QED
    BY <2>1, <2>2, <2>3, ParsedInput DEF Plain
<1>4. Output(fmt, v) = Output(fmt, s)
  BY <1>1, OutputOfParsed
<1> HIDE DEF s
<1>5. ParseUserInput(Output(fmt, v)) = s /\ Output(fmt, v) = Str(Output(fmt, v).x)
  BY <1>2, <1>4, ScalarReadsBack
<1>6. ToText(s, yes, no, "-") = v
  BY <1>2, <1>3, ScalarText, ValuesDiffer DEF TextForm, Plain
<1> QED
  BY <1>3, <1>5, <1>6, ValuesDiffer DEF TextForm, Plain

LEMMA StringifyScalar ==
  ASSUME NEW v, Scalar(v)
  PROVE  Stringify(v) = ToText(v, "yes", "no", "-")
BY ScalarParsed DEF Stringify

\* Whatever is joined, the result is one of the forms.
LEMMA StringifyForm ==
  ASSUME NEW v, v.t = "list" \/ Scalar(v)
  PROVE  TextForm(Stringify(v), "yes", "no")
<1>1. CASE Scalar(v)
  BY <1>1, StringifyScalar, FormOfScalar
<1>2. CASE v.t = "list"
  <2>1. ParseUserInput(v) = v
    <3>1. /\ v \notin {True, False, None} /\ \A words : ~Word(v, words)
      BY <1>2 DEF True, False, None, Word
    <3> QED
      BY <3>1, ParsedInput DEF IsTrue, IsFalse, IsNone
  <2>2. CASE v = List(<<>>)
    BY <2>1, <2>2 DEF Stringify, ToText, TextForm
  <2>3. CASE v # List(<<>>)
    <3> DEFINE joined == Joined(v, "yes", "no", "-")
    <3>1. joined = Str(joined.x)
      BY <1>2, ValuesDiffer DEF Joined
    <3> HIDE DEF joined
    <3>2. Scalar(ParseUserInput(joined))
      BY <3>1, InputScalar
    <3>3. /\ ParseUserInput(joined) = True => Stringify(v) = Str(<<"yes">>)
          /\ ParseUserInput(joined) = False => Stringify(v) = Str(<<"no">>)
          /\ ParseUserInput(joined) = None => Stringify(v) = Str(<<"-">>)
          /\ Plain(ParseUserInput(joined)) => Stringify(v) = ParseUserInput(joined)
      BY <2>1, <2>3, ValuesDiffer DEF Stringify, ToText, joined, Plain
    <3> QED
      BY <3>2, <3>3 DEF Scalar, TextForm
  <2> QED
    BY <2>2, <2>3
<1> QED
  BY <1>1, <1>2

Plainly == {"cloned_release", "release", "tag", "user.a"}
EmptyList == List(<<>>)
Numbers == {"allow_mount", "allow_mount_devfs", "enforce_statfs"}

Held(k, v) ==
  /\ k \in Plainly \cup {"type"} => Scalar(v)
  /\ k = "type" => ~Word(v, {"basejail", "clonejail"})
  /\ k \in {"basejail", "clonejail", "tags"} => TextForm(v, "yes", "no")
  /\ k = "vnet" => TextForm(v, "on", "off")
  /\ k = "vnet_interfaces" =>
       v = EmptyList \/ (v # Str(<<"-">>) /\ TextForm(v, "yes", "no"))
  /\ k = "jail_zfs" => v \in {Str(<<"on">>), Str(<<"off">>)}
  /\ k = "exec_clean" => v \in {Num("0"), Num("1")}
  /\ k = "mount_devfs" => v \in {Str(<<"0">>), Str(<<"1">>)}
  /\ k = "priority" => \E n \in Numerals : v = Str(<<n>>)
  /\ k \in {"boot", "template"} => v \in {True, False, None}
  /\ k = "template" => v # None
  /\ k \in Numbers => v = None \/ \E n \in Numerals : v = Num(n)
  /\ k \in {"basejail_type", "exec_timeout"} =>
       \/ v \in {None, Str(<<"True">>), Str(<<"False">>)}
       \/ Plain(v)
       \/ k = "exec_timeout" /\ \E n \in Numerals : v = Str(<<n>>)
  /\ k = "maxproc" => v = Str(v.x) /\ Len(v.x) # 1 /\ LimitText(Limit(v)) = v
  /\ k = "depends" => v = Str(<<"">>) \/ (v = Str(v.x) /\ ~IsNone(v) /\ v.x # <<>>)

ConfigHeld(d) ==
  /\ \A k \in DOMAIN d : Held(k, d[k])
  /\ ~(Has(d, "tag") /\ Has(d, "tags"))

LEMMA PutHeld ==
  ASSUME NEW d, ConfigHeld(d), NEW k, NEW v, Held(k, v),
         k = "tag" => ~Has(d, "tags"), k = "tags" => ~Has(d, "tag")
  PROVE  ConfigHeld(Put(d, k, v))
BY DEF ConfigHeld, Put, Has

LEMMA DropHeld ==
  ASSUME NEW d, ConfigHeld(d), NEW k
  PROVE  ConfigHeld(Drop(d, k))
BY DEF ConfigHeld, Drop, Has

LEMMA SetterIs ==
  ASSUME NEW d, NEW v
  PROVE  /\ Setter(d, "type", v) = SetType(d, v)
         /\ Setter(d, "tag", v) = SetTag(d, v)
         /\ Setter(d, "tags", v) = SetTags(d, v)
         /\ Setter(d, "vnet", v) = SetVnet(d, v)
         /\ Setter(d, "vnet_interfaces", v) = SetVnetInterfaces(d, v)
         /\ Setter(d, "jail_zfs", v) = SetJailZfs(d, v)
         /\ Setter(d, "exec_clean", v) = SetExecClean(d, v)
         /\ Setter(d, "cloned_release", v) = SetClonedRelease(d, v)
         /\ Setter(d, "mount_devfs", v) = SetMount(d, "mount_devfs", v)
         /\ Setter(d, "priority", v) = Put(d, "priority", Str(ParseInt(v).x))
         /\ Setter(d, "template", v) = Put(d, "template", ParseBool(v))
         /\ Setter(d, "basejail", v) = Put(d, "basejail", Stringify(v))
         /\ Setter(d, "clonejail", v) = Put(d, "clonejail", Stringify(v))
         /\ \A k \in Numbers \cup {"boot", "exec_timeout", "basejail_type", "release",
                                   "user.a"} :
              Setter(d, k, v) = Put(d, k, Sanitized(k, v))
BY DEF Setter, Numbers

LEMMA KeysAre ==
  Keys = Plainly \cup Numbers \cup
         {"basejail", "basejail_type", "boot", "clonejail", "depends", "exec_clean",
          "exec_timeout", "jail_zfs", "maxproc", "mount_devfs", "priority", "tags",
          "template", "type", "vnet", "vnet_interfaces"}
<1>1. DOMAIN KeyOrder = 1 .. 24
  BY DEF KeyOrder
<1>2. AllKeys = {KeyOrder[i] : i \in 1 .. 24}
  BY <1>1 DEF AllKeys
<1>3. \A i \in 1 .. 24 :
        \/ i = 1 \/ i = 2 \/ i = 3 \/ i = 4 \/ i = 5 \/ i = 6 \/ i = 7 \/ i = 8
        \/ i = 9 \/ i = 10 \/ i = 11 \/ i = 12 \/ i = 13 \/ i = 14 \/ i = 15 \/ i = 16
        \/ i = 17 \/ i = 18 \/ i = 19 \/ i = 20 \/ i = 21 \/ i = 22 \/ i = 23 \/ i = 24
  OBVIOUS
<1>4. AllKeys = {KeyOrder[1], KeyOrder[2], KeyOrder[3], KeyOrder[4], KeyOrder[5],
                 KeyOrder[6], KeyOrder[7], KeyOrder[8], KeyOrder[9], KeyOrder[10],
                 KeyOrder[11], KeyOrder[12], KeyOrder[13], KeyOrder[14], KeyOrder[15],
                 KeyOrder[16], KeyOrder[17], KeyOrder[18], KeyOrder[19], KeyOrder[20],
                 KeyOrder[21], KeyOrder[22], KeyOrder[23], KeyOrder[24]}
  BY <1>2, <1>3
<1> QED
  BY <1>4 DEF KeyOrder, Keys, Plainly, Numbers

\* What the setters get is a scalar, or a number where one is expected.
LEMMA GivenParsed ==
  ASSUME NEW k, NEW v, Given(k, v)
  PROVE  \/ Scalar(ParseUserInput(v))
         \/ /\ k \in {"enforce_statfs", "exec_timeout", "priority"}
            /\ \E n \in Numerals : ParseUserInput(v) = Num(n)
<1>1. \A n : ParseUserInput(Num(n)) = Num(n)
  BY ValuesDiffer, WordsOfOthers, ParsedInput DEF IsTrue, IsFalse, IsNone
<1> QED
  BY <1>1, InputScalar DEF Given

\* Numbers: 1 and 0 are read as the booleans.
LEMMA ParsedNumber ==
  ASSUME NEW v, Scalar(v) \/ (\E n \in Numerals : v = Num(n)), IsInt(v)
  PROVE  \E n \in Numerals : ParseInt(v) = Num(n)
<1>1. CASE v = True
  BY <1>1 DEF ParseInt, Numerals
<1>2. CASE v = False
  BY <1>2, ValuesDiffer DEF ParseInt, Numerals
<1>3. ASSUME NEW n \in Numerals, v = Num(n) PROVE ParseInt(v) = Num(n)
  <2>1. v.x[1] = n /\ v # True /\ v # False
    BY <1>3, ValuesDiffer DEF Num
  <2> QED
    BY <2>1 DEF ParseInt
<1>4. CASE Plain(v)
  <2>1. v # True /\ v # False /\ v.t = "str"
    BY <1>4, ValuesDiffer, TextTyped DEF Plain
  <2>2. v.x[1] \in Numerals
    BY <2>1 DEF IsInt, Word
  <2> QED
    BY <2>1, <2>2 DEF ParseInt
<1>5. v # None
  <2>1. None.t = "none"
    BY TextTyped
  <2> QED
    BY <2>1 DEF IsInt, Word
<1> QED
  BY <1>1, <1>2, <1>3, <1>4, <1>5 DEF Scalar

LEMMA ParsedBool ==
  ASSUME NEW v, ParseBool(v) # Error
  PROVE  ParseBool(v) \in {True, False}
BY DEF ParseBool

LEMMA SanitizedHeld ==
  ASSUME NEW d, NEW k \in Numbers \cup {"boot", "exec_timeout", "basejail_type", "release",
                                      "user.a"},
         NEW v, \/ Scalar(v)
                \/ k \in {"enforce_statfs", "exec_timeout"} /\ \E n \in Numerals : v = Num(n),
         ~Broken(d, k, v)
  PROVE  Held(k, Sanitized(k, v))
<1>1. CASE k \in {"release", "user.a"}
  <2>1. Sanitized(k, v) = v
    BY <1>1 DEF Sanitized, TextOf, DefaultType
  <2> QED
    BY <1>1, <2>1 DEF Held, Plainly, Numbers
<1>2. CASE k \notin {"release", "user.a"} /\ v = None
  <2>1. Sanitized(k, v) = None
    BY <1>2 DEF Sanitized, TextOf
  <2> QED
    BY <1>2, <2>1 DEF Held, Plainly, Numbers
<1>3. CASE k \in Numbers /\ v # None
  <2>1. k \in DOMAIN DefaultType /\ DefaultType[k] = "int"
    BY <1>3 DEF DefaultType, Numbers
  <2>2. Sanitized(k, v) = ParseInt(v) /\ IsInt(v)
    BY <1>3, <2>1 DEF Sanitized, TextOf, Broken
  <2>3. \E n \in Numerals : ParseInt(v) = Num(n)
    BY <2>2, ParsedNumber
  <2> QED
    BY <1>3, <2>2, <2>3 DEF Held, Plainly, Numbers
<1>4. CASE k = "boot" /\ v # None
  <2>1. k \in DOMAIN DefaultType /\ DefaultType[k] = "bool"
    BY <1>4 DEF DefaultType
  <2>2. Sanitized(k, v) = ParseBool(v) /\ ParseBool(v) # Error
    BY <1>4, <2>1 DEF Sanitized, TextOf, Broken
  <2> QED
    BY <1>4, <2>2, ParsedBool DEF Held, Plainly, Numbers
<1>5. CASE k \in {"basejail_type", "exec_timeout"} /\ v # None
  <2>1. k \in DOMAIN DefaultType /\ DefaultType[k] = "str"
    BY <1>5 DEF DefaultType
  <2>2. Sanitized(k, v) = Str(CASE v = True -> <<"True">> [] v = False -> <<"False">>
                                [] OTHER -> v.x)
    BY <1>5, <2>1 DEF Sanitized, TextOf
  <2>3. CASE v = True
    BY <1>5, <2>2, <2>3 DEF Held, Plainly, Numbers
  <2>4. CASE v = False
    BY <1>5, <2>2, <2>4, ValuesDiffer DEF Held, Plainly, Numbers
  <2>5. CASE Plain(v)
    <3>1. Sanitized(k, v) = v
      BY <2>2, <2>5, ValuesDiffer DEF Plain
    <3> QED
      BY <1>5, <2>5, <3>1 DEF Held, Plainly, Numbers
  <2>6. ASSUME NEW n \in Numerals, v = Num(n), k = "exec_timeout"
        PROVE  Held(k, Sanitized(k, v))
    <3>1. Sanitized(k, v) = Str(<<n>>)
      BY <2>2, <2>6, ValuesDiffer DEF Num
    <3> QED
      BY <2>6, <3>1 DEF Held, Plainly, Numbers
  <2> QED
    BY <1>5, <2>3, <2>4, <2>5, <2>6 DEF Scalar
<1> QED
  BY <1>1, <1>2, <1>3, <1>4, <1>5

\* The limits and the terms, which are given as they are.
LEMMA SpecialHeld ==
  ASSUME NEW k \in Special, NEW v, v = None \/ v = Str(v.x)
  PROVE  Held(k, SpecialText(k, v))
<1>1. CASE k = "maxproc"
  <2> DEFINE l == Limit(v)
  <2>1. \A a, b, c : /\ Len(<<a, b>>) = 2 /\ <<a, b>>[1] = a /\ <<a, b>>[2] = b
                     /\ Len(<<a, b, c>>) = 3 /\ <<a, b, c>>[1] = a /\ <<a, b, c>>[2] = b
                     /\ <<a, b, c>>[3] = c
    OBVIOUS
  <2>2. SpecialText(k, v) = LimitText(l)
    BY <1>1 DEF SpecialText
  <2>3. \A x : Len(x) = 2 => Limit(Str(x)) = <<x[1], x[2], "jail">>
    BY ValuesDiffer DEF Limit
  <2>4. \A x : Len(x) # 1 /\ Len(x) # 2 => Limit(Str(x)) = x
    BY ValuesDiffer DEF Limit
  <2>5. CASE l[3] = "jail"
    <3>1. LimitText(l) = Str(<<l[1], l[2]>>)
      BY <2>5 DEF LimitText
    <3>2. Limit(Str(<<l[1], l[2]>>)) = <<l[1], l[2], "jail">>
      BY <2>1, <2>3
    <3>3. LimitText(<<l[1], l[2], "jail">>) = Str(<<l[1], l[2]>>)
      BY <2>1 DEF LimitText
    <3> QED
      BY <1>1, <2>1, <2>2, <3>1, <3>2, <3>3, ValuesDiffer DEF Held, Plainly, Numbers
  <2>6. CASE l[3] # "jail"
    <3>1. LimitText(l) = Str(l)
      BY <2>6 DEF LimitText
    <3>2. Len(l) # 1 /\ Len(l) # 2
      <4>1. CASE v = None
        BY <2>1, <4>1 DEF Limit
      <4>2. CASE v # None
        BY <2>1, <2>6, <4>2 DEF Limit
      <4> QED
        BY <4>1, <4>2
    <3>3. Limit(Str(l)) = l
      BY <2>4, <3>2
    <3> QED
      BY <1>1, <2>2, <3>1, <3>2, <3>3, ValuesDiffer DEF Held, Plainly, Numbers
  <2> QED
    BY <2>5, <2>6
<1>2. CASE k = "depends"
  <2>1. SpecialText(k, v) = TermsText(Terms(v))
    BY <1>2 DEF SpecialText
  <2>2. CASE Terms(v) = <<>>
    BY <1>2, <2>1, <2>2 DEF TermsText, Held, Plainly, Numbers
  <2>3. CASE Terms(v) # <<>>
    <3>1. ~IsNone(v) /\ Terms(v) = v.x /\ v = Str(v.x)
      BY <2>3, ValuesAre DEF Terms
    <3>2. SpecialText(k, v) = v
      BY <2>1, <2>3, <3>1 DEF TermsText
    <3> QED
      BY <1>2, <2>3, <3>1, <3>2 DEF Held, Plainly, Numbers
  <2> QED
    BY <2>2, <2>3
<1> QED
  BY <1>1, <1>2 DEF Special

\* Every setter makes one of the forms of whatever it is given.
LEMMA SetterHeld ==
  ASSUME NEW d, ConfigHeld(d), NEW k \in Keys \ Special, NEW v,
         \/ Scalar(v)
         \/ /\ k \in {"enforce_statfs", "exec_timeout", "priority"}
            /\ \E n \in Numerals : v = Num(n),
         ~Refused(k, v), ~Broken(d, k, v)
  PROVE  ConfigHeld(Setter(d, k, v))
<1>1. CASE k = "type"
  <2>1. CASE ~Word(v, {"basejail", "clonejail"})
    <3>1. Held("type", v)
      BY <1>1, <2>1 DEF Held, Plainly, Numbers
    <3> QED
      BY <1>1, <2>1, <3>1, SetterIs, PutHeld DEF SetType
  <2>2. CASE Word(v, {"basejail", "clonejail"})
    <3> DEFINE base == Stringify(IF v.x[1] = "basejail" THEN True ELSE False)
               clone == Stringify(IF v.x[1] = "clonejail" THEN True ELSE False)
               jail == Str(<<"jail">>)
    <3>1. TextForm(base, "yes", "no") /\ TextForm(clone, "yes", "no")
      BY StringifyForm DEF Scalar
    <3>2. Setter(d, k, v) = Put(Put(Put(d, "basejail", base), "clonejail", clone), "type", jail)
      BY <1>1, <2>2, SetterIs DEF SetType
    <3> HIDE DEF base, clone
    <3>3. Held("basejail", base) /\ Held("clonejail", clone)
      BY <3>1 DEF Held, Plainly, Numbers
    <3>4. Held("type", jail)
      <4>1. Scalar(jail)
        BY WordText DEF Scalar, Plain
      <4>2. ~Word(jail, {"basejail", "clonejail"})
        BY DEF Word, Str
      <4> QED
        BY <4>1, <4>2 DEF Held, Plainly, Numbers
    <3> HIDE DEF jail
    <3>5. ConfigHeld(Put(d, "basejail", base))
      BY <3>3, PutHeld
    <3>6. ConfigHeld(Put(Put(d, "basejail", base), "clonejail", clone))
      BY <3>3, <3>5, PutHeld
    <3> QED
      BY <3>2, <3>4, <3>6, PutHeld
  <2> QED
    BY <2>1, <2>2
<1>2. CASE k = "tag"
  <2>1. Held("tag", v)
    BY <1>2 DEF Held, Plainly, Numbers
  <2>2. CASE Has(d, "tag") \/ ~Has(d, "tags")
    <3>1. ~Has(d, "tags")
      BY <2>2 DEF ConfigHeld
    <3>2. Setter(d, k, v) = Put(d, "tag", v)
      BY <1>2, <2>2, SetterIs DEF SetTag
    <3> QED
      BY <2>1, <3>1, <3>2, PutHeld
  <2>3. CASE ~(Has(d, "tag") \/ ~Has(d, "tags"))
    <3>1. PICK x : SetTag(d, v) = Put(d, "tags", Stringify(List(x)))
      BY <2>3 DEF SetTag
    <3>2. Held("tags", Stringify(List(x)))
      BY StringifyForm, TextTyped DEF Held, Plainly, Numbers
    <3> QED
      BY <1>2, <2>3, <3>1, <3>2, SetterIs, PutHeld
  <2> QED
    BY <2>2, <2>3
<1>3. CASE k = "tags"
  <2>1. Held("tags", Stringify(v))
    BY <1>3, StringifyForm DEF Held, Plainly, Numbers
  <2>2. Setter(d, k, v) = Drop(Put(d, "tags", Stringify(v)), "tag")
    BY <1>3, SetterIs DEF SetTags
  <2> QED
    BY <2>1, <2>2 DEF ConfigHeld, Drop, Put, Has
<1>4. CASE k = "vnet"
  <2>1. Held("vnet", ToText(v, "on", "off", "-"))
    BY <1>4, FormOfScalar DEF Held, Plainly, Numbers
  <2> QED
    BY <1>4, <2>1, SetterIs, PutHeld DEF SetVnet
<1>5. CASE k = "vnet_interfaces"
  <2>1. CASE v = None
    <3>1. Held("vnet_interfaces", List(<<>>))
      <4>1. Held("vnet_interfaces", EmptyList)
        BY DEF Held, Plainly, Numbers
      <4> QED
        BY <4>1 DEF EmptyList
    <3> QED
      BY <1>5, <2>1, <3>1, SetterIs, PutHeld DEF SetVnetInterfaces
  <2>2. CASE v # None
    <3>1. TextForm(Stringify(v), "yes", "no")
      BY <1>5, StringifyForm
    <3>2. Stringify(v) # Str(<<"-">>)
      <4>1. Stringify(v) = ToText(v, "yes", "no", "-")
        BY <1>5, StringifyScalar
      <4>2. v \in {True, False} => Stringify(v) \in {Str(<<"yes">>), Str(<<"no">>)}
        BY <1>5, <4>1, ScalarText DEF Str
      <4>3. Plain(v) => Stringify(v) = v
        BY <1>5, <4>1, ScalarText DEF Str
      <4>4. ~Plain(Str(<<"-">>))
        BY WordText DEF Plain
      <4>5. Str(<<"-">>) \notin {Str(<<"yes">>), Str(<<"no">>)}
        BY DEF Str
      <4> QED
        BY <1>5, <2>2, <4>2, <4>3, <4>4, <4>5 DEF Scalar
    <3>3. Held("vnet_interfaces", Stringify(v))
      BY <3>1, <3>2 DEF Held, Plainly, Numbers
    <3> QED
      BY <1>5, <2>2, <3>3, SetterIs, PutHeld DEF SetVnetInterfaces
  <2> QED
    BY <2>1, <2>2
<1>6. CASE k = "jail_zfs"
  <2>1. CASE v = None
    BY <1>6, <2>1, SetterIs, DropHeld DEF SetJailZfs
  <2>2. CASE v # None
    <3> DEFINE b == ParseBool(v)
    <3>1. b \in {True, False}
      BY <1>6, <2>2, ParsedBool DEF Broken
    <3> HIDE DEF b
    <3>2. ToText(b, "on", "off", "-") \in {Str(<<"on">>), Str(<<"off">>)}
      BY <3>1, ScalarText DEF Scalar, Str
    <3>3. Held("jail_zfs", ToText(b, "on", "off", "-"))
      BY <3>2 DEF Held, Plainly, Numbers
    <3> QED
      BY <1>6, <2>2, <3>3, SetterIs, PutHeld DEF SetJailZfs, b
  <2> QED
    BY <2>1, <2>2
<1>7. CASE k = "exec_clean"
  <2>1. Held("exec_clean", Num("0")) /\ Held("exec_clean", Num("1"))
    BY DEF Held, Plainly, Numbers
  <2> QED
    BY <1>7, <2>1, SetterIs, PutHeld DEF SetExecClean
<1>8. CASE k = "cloned_release"
  <2>1. Held("release", v) /\ Held("cloned_release", v)
    BY <1>8 DEF Held, Plainly, Numbers
  <2>2. ConfigHeld(Put(d, "release", v))
    BY <2>1, PutHeld
  <2> QED
    BY <1>8, <2>1, <2>2, SetterIs, PutHeld DEF SetClonedRelease
<1>9. CASE k = "mount_devfs"
  <2>1. Held("mount_devfs", Str(<<"0">>)) /\ Held("mount_devfs", Str(<<"1">>))
    BY DEF Held, Plainly, Numbers
  <2> QED
    BY <1>9, <2>1, SetterIs, PutHeld DEF SetMount
<1>10. CASE k = "priority"
  <2>1. PICK n \in Numerals : ParseInt(v) = Num(n)
    BY <1>10, ParsedNumber DEF Broken
  <2>2. Held("priority", Str(ParseInt(v).x))
    <3>1. ParseInt(v).x = <<n>>
      BY <2>1 DEF Num
    <3> QED
      BY <3>1 DEF Held, Plainly, Numbers
  <2> QED
    BY <1>10, <2>2, SetterIs, PutHeld
<1>11. CASE k = "template"
  <2>1. ParseBool(v) \in {True, False}
    BY <1>11, ParsedBool DEF Refused
  <2>2. Held("template", ParseBool(v))
    BY <2>1, ValuesDiffer DEF Held, Plainly, Numbers
  <2> QED
    BY <1>11, <2>2, SetterIs, PutHeld
<1>12. CASE k \in {"basejail", "clonejail"}
  <2>1. Held(k, Stringify(v))
    BY <1>12, StringifyForm DEF Held, Plainly, Numbers
  <2> QED
    BY <1>12, <2>1, SetterIs, PutHeld
<1>13. CASE k \in Numbers \cup {"boot", "exec_timeout", "basejail_type", "release", "user.a"}
  <2>1. Held(k, Sanitized(k, v))
    BY <1>13, SanitizedHeld DEF Numbers
  <2>2. k # "tag" /\ k # "tags"
    BY <1>13 DEF Numbers
  <2>3. Setter(d, k, v) = Put(d, k, Sanitized(k, v))
    BY <1>13, SetterIs
  <2> QED
    BY <2>1, <2>2, <2>3, PutHeld
<1> QED
  BY <1>1, <1>2, <1>3, <1>4, <1>5, <1>6, <1>7, <1>8, <1>9, <1>10, <1>11, <1>12, <1>13,
     KeysAre DEF Special, Plainly

LEMMA SetItemHeld ==
  ASSUME NEW d, ConfigHeld(d), NEW k, NEW v, Given(k, v), Accepts(d, k, v)
  PROVE  ConfigHeld(SetItem(d, k, v))
<1>1. k \in Keys
  BY DEF Accepts, Known
<1>2. CASE k \in Special
  <2>1. Held(k, SpecialText(k, v))
    BY <1>2, SpecialHeld DEF Given, Special
  <2> QED
    BY <1>2, <2>1, PutHeld DEF SetItem, Special
<1>3. CASE k \notin Special
  BY <1>1, <1>3, GivenParsed, SetterHeld DEF SetItem, Accepts
<1> QED
  BY <1>2, <1>3

(***************************************************************************)
(* What is stored of a form, the setter makes into this form again.        *)
(***************************************************************************)
ReadOf(fmt, v) == ParseUserInput(Output(fmt, v))

LEMMA NumberReadsBack ==
  ASSUME NEW n \in Numerals, NEW v \in {Num(n), Str(<<n>>)}, NEW fmt
  PROVE  /\ Output(fmt, v) = Str(Output(fmt, v).x)
         /\ n = "1" => ReadOf(fmt, v) = True
         /\ n = "0" => ReadOf(fmt, v) = False
         /\ n \notin {"0", "1"} => ReadOf(fmt, v) = Str(<<n>>) /\ Plain(Str(<<n>>))
         /\ IsInt(ReadOf(fmt, v)) /\ ParseInt(ReadOf(fmt, v)) = Num(n)
<1>1. Output(fmt, v) \in {Str(<<n>>), Output(fmt, ParseUserInput(Str(<<n>>)))}
  <2>1. CASE v = Num(n)
    <3>1. ParseUserInput(v) = v /\ v # List(<<>>) /\ v.t # "list" /\ v.x = <<n>>
      <4>1. v \notin {True, False, None} /\ \A words : ~Word(v, words)
        BY <2>1, ValuesDiffer, WordsOfOthers
      <4>2. ParseUserInput(v) = v
        BY <4>1, ParsedInput DEF IsTrue, IsFalse, IsNone
      <4> QED
        BY <2>1, <4>2 DEF Num, List
    <3>2. v \notin {True, False, None}
      BY <2>1, ValuesDiffer
    <3>3. \A y, no, z : ToText(v, y, no, z) = Str(<<n>>)
      BY <3>1, <3>2 DEF ToText, Joined
    <3> QED
      BY <3>3 DEF Output
  <2>2. CASE v = Str(<<n>>)
    BY <2>2, WordText, OutputOfParsed
  <2> QED
    BY <2>1, <2>2
<1> DEFINE s == ParseUserInput(Str(<<n>>))
<1>2. Scalar(s)
  BY WordText, InputScalar
<1>3. /\ n = "1" => s = True
      /\ n = "0" => s = False
      /\ n \notin {"0", "1"} => s = Str(<<n>>) /\ Plain(Str(<<n>>))
  BY WordText, ParsedInput DEF Numerals, Plain
<1>4. ReadOf(fmt, v) = s /\ Output(fmt, v) = Str(Output(fmt, v).x)
  <2>1. CASE Output(fmt, v) = Str(<<n>>)
    BY <2>1, WordText DEF ReadOf
  <2>2. CASE Output(fmt, v) = Output(fmt, s)
    BY <1>2, <2>2, ScalarReadsBack DEF ReadOf
  <2> QED
    BY <1>1, <2>1, <2>2
<1>5. IsInt(s) /\ ParseInt(s) = Num(n)
  <2>1. CASE n = "1"
    <3>1. s = True /\ s.t = "bool"
      BY <1>3, <2>1, TextTyped
    <3>2. ParseInt(True) = Num("1")
      BY ValuesDiffer DEF ParseInt
    <3> QED
      BY <2>1, <3>1, <3>2 DEF IsInt
  <2>2. CASE n = "0"
    BY <1>3, <2>2, ValuesDiffer DEF IsInt, ParseInt, False
  <2>3. CASE n \notin {"0", "1"}
    <3>1. s = Str(<<n>>) /\ s.x = <<n>> /\ s.t = "str" /\ s # True /\ s # False
      BY <1>3, <2>3, ValuesDiffer, TextTyped
    <3>2. Len(s.x) = 1 /\ s.x[1] = n
      BY <3>1
    <3> QED
      BY <3>1, <3>2 DEF IsInt, ParseInt, Word
  <2> QED
    BY <2>1, <2>2, <2>3
<1> QED
  BY <1>3, <1>4, <1>5

Same(k, v, w) ==
  \/ w = v
  \/ k = "exec_timeout" /\ ParseUserInput(w) = ParseUserInput(v)
  \/ k = "depends" /\ ParseBool(v) # Error

\* e is d after k was set to w.
Becomes(d, e, k, w) ==
  /\ DOMAIN e = DOMAIN d \cup {k} \cup (IF k = "cloned_release" THEN {"release"} ELSE {})
  /\ e[k] = w
  /\ \A x \in DOMAIN d \ {k} : x # "release" \/ k # "cloned_release" => e[x] = d[x]

LEMMA PutBecomes ==
  ASSUME NEW d, NEW k, k # "cloned_release", NEW w
  PROVE  Becomes(d, Put(d, k, w), k, w)
BY DEF Becomes, Put

\* The properties whose setter only stores a value of its own making.
LEMMA SimpleReadsBack ==
  ASSUME NEW k \in Keys \ (Special \cup {"cloned_release", "tag", "tags", "type"}),
         NEW v, Held(k, v), NEW fmt, NEW d
  PROVE  /\ Output(fmt, v) = Str(Output(fmt, v).x)
         /\ ~Refused(k, ReadOf(fmt, v)) /\ ~Broken(d, k, ReadOf(fmt, v))
         /\ \E w : Same(k, v, w) /\ Setter(d, k, ReadOf(fmt, v)) = Put(d, k, w)
<1> DEFINE u == ReadOf(fmt, v)
           Goal == /\ Output(fmt, v) = Str(Output(fmt, v).x)
                   /\ ~Refused(k, u) /\ ~Broken(d, k, u)
                   /\ \E w : Same(k, v, w) /\ Setter(d, k, u) = Put(d, k, w)
<1>1. CASE k \in {"release", "user.a"}
  <2>1. Scalar(v)
    BY <1>1 DEF Held, Plainly, Numbers
  <2>2. u = v /\ Output(fmt, v) = Str(Output(fmt, v).x)
    BY <2>1, ScalarReadsBack DEF ReadOf
  <2>3. Setter(d, k, u) = Put(d, k, v)
    <3>1. Sanitized(k, u) = u
      BY <1>1 DEF Sanitized, TextOf, DefaultType
    <3>2. Setter(d, k, u) = Put(d, k, Sanitized(k, u))
      BY <1>1, SetterIs
    <3> QED
      BY <2>2, <3>1, <3>2
  <2>4. ~Refused(k, u) /\ ~Broken(d, k, u)
    BY <1>1 DEF Refused, Broken, DefaultType
  <2> QED
    BY <2>2, <2>3, <2>4 DEF Same
<1>2. CASE k \in {"basejail", "clonejail"}
  <2>1. TextForm(v, "yes", "no")
    BY <1>2 DEF Held, Plainly, Numbers
  <2>2. /\ Output(fmt, v) = Str(Output(fmt, v).x)
        /\ ToText(u, "yes", "no", "-") = v
    BY <2>1, FormReadsBack DEF ReadOf
  <2>3. Stringify(u) = v
    BY <2>2, InputScalar, StringifyScalar DEF ReadOf
  <2>4. ~Refused(k, u) /\ ~Broken(d, k, u)
    BY <1>2 DEF Refused, Broken, DefaultType
  <2>5. Setter(d, k, u) = Put(d, k, v)
    BY <1>2, <2>3, SetterIs
  <2> QED
    BY <2>2, <2>4, <2>5 DEF Same
<1>3. CASE k = "vnet"
  <2>1. TextForm(v, "on", "off")
    BY <1>3 DEF Held, Plainly, Numbers
  <2>2. /\ Output(fmt, v) = Str(Output(fmt, v).x)
        /\ ToText(u, "on", "off", "-") = v
    BY <2>1, FormReadsBack DEF ReadOf
  <2>3. ~Refused(k, u) /\ ~Broken(d, k, u)
    BY <1>3 DEF Refused, Broken, DefaultType
  <2>4. Setter(d, k, u) = Put(d, k, v)
    BY <1>3, <2>2, SetterIs DEF SetVnet
  <2> QED
    BY <2>2, <2>3, <2>4 DEF Same
<1>4. CASE k = "vnet_interfaces"
  <2>1. ~Refused(k, u) /\ ~Broken(d, k, u)
    BY <1>4 DEF Refused, Broken, DefaultType
  <2>2. CASE v = EmptyList
    <3>1. Output(fmt, v) = Str(<<"none">>)
      BY <2>2 DEF Output, ToText, EmptyList
    <3>2. u = None
      BY <3>1, WordText, ParsedInput DEF ReadOf
    <3>3. Setter(d, k, u) = Put(d, k, v)
      BY <1>4, <2>2, <3>2, SetterIs DEF SetVnetInterfaces, EmptyList
    <3> QED
      BY <2>1, <3>1, <3>3, WordText DEF Same
  <2>3. CASE v # Str(<<"-">>) /\ TextForm(v, "yes", "no")
    <3>1. /\ Output(fmt, v) = Str(Output(fmt, v).x)
          /\ ToText(u, "yes", "no", "-") = v
          /\ u # None
      BY <2>3, FormReadsBack, ValuesDiffer DEF ReadOf
    <3>2. Stringify(u) = v
      BY <3>1, InputScalar, StringifyScalar DEF ReadOf
    <3>3. Setter(d, k, u) = Put(d, k, v)
      BY <1>4, <3>1, <3>2, SetterIs DEF SetVnetInterfaces
    <3> QED
      BY <2>1, <3>1, <3>3 DEF Same
  <2> QED
    BY <1>4, <2>2, <2>3 DEF Held
<1>5. CASE k = "jail_zfs"
  <2>1. v \in {Str(<<"on">>), Str(<<"off">>)} /\ TextForm(v, "on", "off")
    BY <1>5 DEF Held, Plainly, Numbers, TextForm
  <2>2. /\ Output(fmt, v) = Str(Output(fmt, v).x)
        /\ ToText(u, "on", "off", "-") = v
        /\ u \in {True, False}
    BY <2>1, FormReadsBack DEF ReadOf
  <2>3. ParseBool(u) = u /\ u # None /\ u # Error
    BY <2>2, ValuesAre, ValuesDiffer, ParsedInput
  <2>4. ~Refused(k, u) /\ ~Broken(d, k, u)
    BY <1>5, <2>3 DEF Refused, Broken, DefaultType
  <2>5. Setter(d, k, u) = Put(d, k, v)
    BY <1>5, <2>2, <2>3, SetterIs DEF SetJailZfs
  <2> QED
    BY <2>2, <2>4, <2>5 DEF Same
<1>6. CASE k = "exec_clean"
  <2>1. PICK n \in {"0", "1"} : v = Num(n)
    BY <1>6 DEF Held, Plainly, Numbers
  <2>2. /\ Output(fmt, v) = Str(Output(fmt, v).x)
        /\ n = "1" => u = True
        /\ n = "0" => u = False
    BY <2>1, NumberReadsBack DEF Numerals
  <2>3. ~Refused(k, u) /\ ~Broken(d, k, u)
    BY <1>6, <2>1, <2>2, TextTyped DEF Refused, Broken, DefaultType
  <2>4. Setter(d, k, u) = Put(d, k, v)
    BY <1>6, <2>1, <2>2, SetterIs, ValuesDiffer DEF SetExecClean
  <2> QED
    BY <2>2, <2>3, <2>4 DEF Same
<1>7. CASE k = "mount_devfs"
  <2>1. PICK n \in {"0", "1"} : v = Str(<<n>>)
    BY <1>7 DEF Held, Plainly, Numbers
  <2>2. /\ Output(fmt, v) = Str(Output(fmt, v).x)
        /\ IsInt(u) /\ ParseInt(u) = Num(n)
    BY <2>1, NumberReadsBack DEF Numerals
  <2>3. ~Refused(k, u) /\ ~Broken(d, k, u)
    <3>1. Num(n).x[1] = n
      BY DEF Num
    <3> QED
      BY <1>7, <2>2, <3>1 DEF Refused, Broken, DefaultType
  <2>4. Setter(d, k, u) = Put(d, k, v)
    <3>1. n = "0" => Num(n) # Num("1")
      BY DEF Num
    <3> QED
      BY <1>7, <2>1, <2>2, <3>1, SetterIs DEF SetMount
  <2> QED
    BY <2>2, <2>3, <2>4 DEF Same
<1>8. CASE k = "priority"
  <2>1. PICK n \in Numerals : v = Str(<<n>>)
    BY <1>8 DEF Held, Plainly, Numbers
  <2>2. /\ Output(fmt, v) = Str(Output(fmt, v).x)
        /\ IsInt(u) /\ ParseInt(u) = Num(n)
    BY <2>1, NumberReadsBack
  <2>3. ~Refused(k, u) /\ ~Broken(d, k, u)
    BY <1>8, <2>2 DEF Refused, Broken, DefaultType
  <2>4. Setter(d, k, u) = Put(d, k, v)
    <3>1. Num(n).x = <<n>>
      BY DEF Num
    <3> QED
      BY <1>8, <2>1, <2>2, <3>1, SetterIs
  <2> QED
    BY <2>2, <2>3, <2>4 DEF Same
<1>9. CASE k \in {"boot", "template"}
  <2>1. v \in {True, False, None} /\ (k = "template" => v # None)
    BY <1>9 DEF Held, Plainly, Numbers
  <2>2. u = v /\ Output(fmt, v) = Str(Output(fmt, v).x)
    BY <2>1, ScalarReadsBack DEF ReadOf, Scalar
  <2>3. v # None => ParseBool(v) = v
    BY <2>1, ValuesAre, ParsedInput
  <2>4. ~Refused(k, u) /\ ~Broken(d, k, u)
    BY <1>9, <2>1, <2>2, <2>3, ValuesDiffer DEF Refused, Broken, DefaultType
  <2>5. CASE k = "boot"
    <3>1. k \in DOMAIN DefaultType /\ DefaultType[k] = "bool"
      BY <2>5 DEF DefaultType
    <3>2. Sanitized(k, u) = v
      BY <2>2, <2>3, <3>1 DEF Sanitized, TextOf
    <3> QED
      BY <2>2, <2>4, <2>5, <3>2, SetterIs DEF Same
  <2>6. CASE k = "template"
    BY <2>1, <2>2, <2>3, <2>4, <2>6, SetterIs DEF Same
  <2> QED
    BY <1>9, <2>5, <2>6
<1>10. CASE k \in Numbers
  <2>1. k \in DOMAIN DefaultType /\ DefaultType[k] = "int"
    BY <1>10 DEF DefaultType, Numbers
  <2>2. Setter(d, k, u) = Put(d, k, Sanitized(k, u))
    BY <1>10, SetterIs
  <2>3. CASE v = None
    <3>1. u = v /\ Output(fmt, v) = Str(Output(fmt, v).x)
      BY <2>3, ScalarReadsBack DEF ReadOf, Scalar
    <3>2. ~Refused(k, u) /\ ~Broken(d, k, u)
      BY <1>10, <2>3, <3>1 DEF Refused, Broken, Numbers
    <3> QED
      BY <2>2, <2>3, <3>1, <3>2 DEF Same, Sanitized, TextOf
  <2>4. ASSUME NEW n \in Numerals, v = Num(n) PROVE Goal
    <3>1. /\ Output(fmt, v) = Str(Output(fmt, v).x)
          /\ IsInt(u) /\ ParseInt(u) = Num(n)
      BY <2>4, NumberReadsBack
    <3>2. u # None
      BY <3>1, TextTyped DEF IsInt, Word
    <3>3. ~Refused(k, u) /\ ~Broken(d, k, u)
      BY <1>10, <3>1 DEF Refused, Broken, Numbers
    <3>4. Sanitized(k, u) = v
      BY <2>1, <2>4, <3>1, <3>2 DEF Sanitized, TextOf
    <3> QED
      BY <2>2, <3>1, <3>3, <3>4 DEF Same
  <2> QED
    BY <1>10, <2>3, <2>4 DEF Held
<1>11. CASE k \in {"basejail_type", "exec_timeout"}
  <2>1. k \in DOMAIN DefaultType /\ DefaultType[k] = "str"
    BY <1>11 DEF DefaultType
  <2>2. /\ Setter(d, k, u) = Put(d, k, Sanitized(k, u))
        /\ ~Refused(k, u) /\ ~Broken(d, k, u)
    BY <1>11, <2>1, SetterIs DEF Refused, Broken
  <2>3. /\ u = None => Sanitized(k, u) = None
        /\ u = True => Sanitized(k, u) = Str(<<"True">>)
        /\ u = False => Sanitized(k, u) = Str(<<"False">>)
        /\ Plain(u) => Sanitized(k, u) = u
    BY <2>1, ValuesDiffer DEF Sanitized, TextOf, Plain
  <2>4. CASE v = None \/ Plain(v)
    <3>1. u = v /\ Output(fmt, v) = Str(Output(fmt, v).x)
      BY <2>4, ScalarReadsBack DEF ReadOf, Scalar
    <3> QED
      BY <2>2, <2>3, <2>4, <3>1 DEF Same
  <2>5. CASE v \in {Str(<<"True">>), Str(<<"False">>)}
    <3>1. \/ v = Str(<<"True">>) /\ ParseUserInput(v) = True
          \/ v = Str(<<"False">>) /\ ParseUserInput(v) = False
      BY <2>5, WordText, ParsedInput
    <3>2. Output(fmt, v) = Output(fmt, ParseUserInput(v))
      BY <2>5, WordText, OutputOfParsed
    <3>3. u = ParseUserInput(v) /\ Output(fmt, v) = Str(Output(fmt, v).x)
      BY <3>1, <3>2, ScalarReadsBack DEF ReadOf, Scalar
    <3> QED
      BY <2>2, <2>3, <3>1, <3>3 DEF Same
  <2>6. ASSUME NEW n \in Numerals, v = Str(<<n>>), k = "exec_timeout" PROVE Goal
    <3>1. /\ Output(fmt, v) = Str(Output(fmt, v).x)
          /\ n = "1" => u = True
          /\ n = "0" => u = False
          /\ n \notin {"0", "1"} => u = v /\ Plain(v)
      BY <2>6, NumberReadsBack
    <3>2. /\ n = "1" => ParseUserInput(v) = True
          /\ n = "0" => ParseUserInput(v) = False
      BY <2>6, WordText, ParsedInput
    <3>3. /\ ParseUserInput(Str(<<"True">>)) = True
          /\ ParseUserInput(Str(<<"False">>)) = False
      BY WordText, ParsedInput
    <3>4. Same(k, v, Sanitized(k, u))
      BY <2>3, <2>6, <3>1, <3>2, <3>3 DEF Same
    <3> QED
      BY <2>2, <3>1, <3>4
  <2> QED
    BY <1>11, <2>4, <2>5, <2>6 DEF Held
<1> QED
  BY <1>1, <1>2, <1>3, <1>4, <1>5, <1>6, <1>7, <1>8, <1>9, <1>10, <1>11, KeysAre
     DEF Plainly, Special

\* The others.
LEMMA KeyReadsBack ==
  ASSUME NEW k \in Keys, NEW v, Held(k, v), NEW fmt, NEW d,
         k = "tag" => ~Has(d, "tags"), k = "tags" => ~Has(d, "tag")
  PROVE  /\ Output(fmt, v) = Str(Output(fmt, v).x)
         /\ Accepts(d, k, Output(fmt, v))
         /\ \E w : Same(k, v, w) /\ Becomes(d, SetItem(d, k, Output(fmt, v)), k, w)
<1> DEFINE t == Output(fmt, v)
           u == ReadOf(fmt, v)
           Goal == /\ t = Str(t.x)
                   /\ Accepts(d, k, t)
                   /\ \E w : Same(k, v, w) /\ Becomes(d, SetItem(d, k, t), k, w)
<1>1. k \notin Special => SetItem(d, k, t) = Setter(d, k, u)
  BY DEF SetItem, ReadOf
<1>2. k \in Special \cup {"tag", "tags", "type", "cloned_release"} =>
        Accepts(d, k, t)
  BY DEF Accepts, Known, Refused, Broken, Special, DefaultType
<1>3. CASE k = "maxproc"
  <2>1. v = Str(v.x) /\ Len(v.x) # 1 /\ LimitText(Limit(v)) = v
    BY <1>3 DEF Held
  <2>2. Plain(v)
    BY <2>1, ValuesDiffer DEF Plain, IsTrue, IsFalse, IsNone, Word
  <2>3. t = v
    BY <2>2, PlainOutput
  <2>4. SetItem(d, k, t) = Put(d, k, v)
    BY <1>3, <2>1, <2>3 DEF SetItem, Special, SpecialText
  <2> QED
    BY <1>2, <1>3, <2>1, <2>3, <2>4, PutBecomes DEF Same, Special
<1>4. CASE k = "depends"
  <2>1. SetItem(d, k, t) = Put(d, k, TermsText(Terms(t)))
    BY <1>4 DEF SetItem, Special, SpecialText
  <2>2. Becomes(d, SetItem(d, k, t), k, TermsText(Terms(t)))
    BY <1>4, <2>1, PutBecomes
  <2>3. v = Str(<<"">>) \/ (v = Str(v.x) /\ ~IsNone(v) /\ v.x # <<>>)
    BY <1>4 DEF Held
  <2>4. v = Str(v.x)
    BY <2>3, WordText
  <2>5. t = Output(fmt, ParseUserInput(v)) /\ Scalar(ParseUserInput(v))
    BY <2>4, OutputOfParsed, InputScalar
  <2>6. t = Str(t.x)
    BY <2>5, ScalarReadsBack
  <2>7. Same(k, v, TermsText(Terms(t)))
    <3>1. CASE v = Str(<<"">>)
      <4>1. ParseUserInput(v) = None
        BY <3>1, WordText, ParsedInput
      <4>2. ParseUserInput(t) = None
        BY <2>5, <4>1, ScalarReadsBack
      <4>3. IsNone(t)
        BY <2>6, <4>2, ParsedInput, ValuesDiffer
      <4> QED
        BY <3>1, <4>3 DEF Same, Terms, TermsText
    <3>2. CASE v # Str(<<"">>) /\ (IsTrue(v) \/ IsFalse(v))
      BY <1>4, <3>2, ParsedInput, ValuesDiffer DEF Same
    <3>3. CASE v # Str(<<"">>) /\ ~IsTrue(v) /\ ~IsFalse(v)
      <4>1. ~IsNone(v) /\ v.x # <<>>
        BY <2>3, <3>3
      <4>2. t = v
        BY <2>4, <3>3, <4>1, PlainOutput DEF Plain
      <4> QED
        BY <2>4, <4>1, <4>2 DEF Same, Terms, TermsText
    <3> QED
      BY <3>1, <3>2, <3>3
  <2> QED
    BY <1>2, <1>4, <2>2, <2>6, <2>7 DEF Special
<1>5. CASE k \in {"tag", "type", "cloned_release"}
  <2>1. Scalar(v) /\ (k = "type" => ~Word(v, {"basejail", "clonejail"}))
    BY <1>5 DEF Held, Plainly
  <2>2. u = v /\ t = Str(t.x)
    BY <2>1, ScalarReadsBack DEF ReadOf
  <2>3. SetItem(d, k, t) = Setter(d, k, v)
    BY <1>1, <1>5, <2>2 DEF Special
  <2>4. CASE k = "type"
    <3>1. Setter(d, k, v) = Put(d, k, v)
      BY <2>1, <2>4, SetterIs DEF SetType
    <3> QED
      BY <1>2, <2>2, <2>3, <2>4, <3>1, PutBecomes DEF Same
  <2>5. CASE k = "tag"
    <3>1. Setter(d, k, v) = Put(d, k, v)
      BY <2>5, SetterIs DEF SetTag
    <3> QED
      BY <1>2, <2>2, <2>3, <2>5, <3>1, PutBecomes DEF Same
  <2>6. CASE k = "cloned_release"
    <3>1. Setter(d, k, v) = Put(Put(d, "release", v), "cloned_release", v)
      BY <2>6, SetterIs DEF SetClonedRelease
    <3>2. Becomes(d, Put(Put(d, "release", v), "cloned_release", v), k, v)
      BY <2>6 DEF Becomes, Put
    <3> QED
      BY <1>2, <2>2, <2>3, <2>6, <3>1, <3>2 DEF Same
  <2> QED
    BY <1>5, <2>4, <2>5, <2>6
<1>6. CASE k = "tags"
  <2>1. TextForm(v, "yes", "no")
    BY <1>6 DEF Held
  <2>2. /\ t = Str(t.x)
        /\ ToText(u, "yes", "no", "-") = v
    BY <2>1, FormReadsBack DEF ReadOf
  <2>3. Stringify(u) = v
    BY <2>2, InputScalar, StringifyScalar DEF ReadOf
  <2>4. SetItem(d, k, t) = Drop(Put(d, "tags", v), "tag")
    BY <1>1, <1>6, <2>3, SetterIs DEF SetTags, Special
  <2>5. Becomes(d, Drop(Put(d, "tags", v), "tag"), k, v)
    BY <1>6 DEF Becomes, Put, Drop, Has
  <2> QED
    BY <1>2, <1>6, <2>2, <2>4, <2>5 DEF Same
<1>7. CASE k \notin Special \cup {"cloned_release", "tag", "tags", "type"}
  <2>1. /\ t = Str(t.x)
        /\ ~Refused(k, u) /\ ~Broken(d, k, u)
        /\ \E w : Same(k, v, w) /\ Setter(d, k, u) = Put(d, k, w)
    BY <1>7, SimpleReadsBack
  <2>2. Accepts(d, k, t)
    BY <2>1 DEF Accepts, Known, ReadOf
  <2> QED
    BY <1>1, <1>7, <2>1, <2>2, PutBecomes
<1> QED
  BY <1>3, <1>4, <1>5, <1>6, <1>7 DEF Special

\* cloned_release comes before release where the keys are sorted.
LEMMA ReleasePositions ==
  Position("cloned_release") = 7 /\ Position("release") = 16
<1>1. DOMAIN KeyOrder = 1 .. 24
  BY DEF KeyOrder
<1>2. KeyOrder[7] = "cloned_release" /\ KeyOrder[16] = "release"
  BY DEF KeyOrder
<1>3. \A i \in 1 .. 24 :
        \/ i = 1 \/ i = 2 \/ i = 3 \/ i = 4 \/ i = 5 \/ i = 6 \/ i = 7 \/ i = 8
        \/ i = 9 \/ i = 10 \/ i = 11 \/ i = 12 \/ i = 13 \/ i = 14 \/ i = 15 \/ i = 16
        \/ i = 17 \/ i = 18 \/ i = 19 \/ i = 20 \/ i = 21 \/ i = 22 \/ i = 23 \/ i = 24
  OBVIOUS
<1>4. \A i \in 1 .. 24 : KeyOrder[i] = "cloned_release" => i = 7
  BY <1>3 DEF KeyOrder
<1>5. \A i \in 1 .. 24 : KeyOrder[i] = "release" => i = 16
  BY <1>3 DEF KeyOrder
<1>6. \E i \in DOMAIN KeyOrder : KeyOrder[i] = "cloned_release"
  BY <1>1, <1>2
<1>7. \E i \in DOMAIN KeyOrder : KeyOrder[i] = "release"
  BY <1>1, <1>2
<1> QED
  BY <1>1, <1>4, <1>5, <1>6, <1>7 DEF Position

(***************************************************************************)
(* Reading what was saved, one key after the other: d is what there is     *)
(* after some of the keys.                                                 *)
(***************************************************************************)
Restored(d, was, fmt, read) ==
  /\ read \subseteq DOMAIN d
  /\ DOMAIN d \subseteq read \cup (IF "cloned_release" \in read THEN {"release"} ELSE {})
  /\ \A k \in read \ {"release"} : Same(k, was[k], d[k])
  /\ "release" \in read /\ (fmt = "json" \/ ~Has(was, "cloned_release")) =>
       d["release"] = was["release"]

LEMMA ConfigDiffers ==
  ASSUME NEW d, DOMAIN d \subseteq Keys
  PROVE  d # NoConfig
<1>1. "none" \notin Keys
  BY KeysAre DEF Plainly, Numbers
<1>2. DOMAIN NoConfig = {"none"}
  BY DEF NoConfig
<1> QED
  BY <1>1, <1>2

LEMMA KeyRestored ==
  ASSUME NEW was, ConfigHeld(was), DOMAIN was \subseteq Keys, NEW fmt,
         NEW read, read \subseteq DOMAIN was,
         NEW d, Restored(d, was, fmt, read), NEW k \in DOMAIN was,
         k = "cloned_release" /\ fmt = "json" => "release" \notin read
  PROVE  Restored(ReadKey(d, k, Output(fmt, was[k]), FALSE), was, fmt, read \cup {k})
<1> DEFINE t == Output(fmt, was[k])
           e == SetItem(d, k, t)
<1>1. k \in Keys /\ Held(k, was[k])
  BY DEF ConfigHeld
<1>2. DOMAIN d \subseteq Keys /\ d # NoConfig
  <2>1. "release" \in Keys
    BY KeysAre DEF Plainly
  <2>2. DOMAIN d \subseteq Keys
    BY <2>1 DEF Restored
  <2> QED
    BY <2>2, ConfigDiffers
<1>3. (k = "tag" => ~Has(d, "tags")) /\ (k = "tags" => ~Has(d, "tag"))
  BY DEF Restored, ConfigHeld, Has
<1>4. Accepts(d, k, t) /\ \E w : Same(k, was[k], w) /\ Becomes(d, e, k, w)
  BY <1>1, <1>3, KeyReadsBack
<1>5. PICK w : Same(k, was[k], w) /\ Becomes(d, e, k, w)
  BY <1>4
<1>6. ReadKey(d, k, t, FALSE) = e
  BY <1>2, <1>4 DEF ReadKey, Accepts
<1> HIDE DEF e
<1>7. DOMAIN e = DOMAIN d \cup {k} \cup (IF k = "cloned_release" THEN {"release"} ELSE {})
  BY <1>5 DEF Becomes
<1>8. \A x \in read \ {"release"} : x # k => e[x] = d[x]
  BY <1>5 DEF Becomes, Restored
<1>9. e[k] = w
  BY <1>5 DEF Becomes
<1>10. \A x \in (read \cup {k}) \ {"release"} : Same(x, was[x], e[x])
  BY <1>5, <1>8, <1>9 DEF Restored
<1>11. ASSUME "release" \in read \cup {k}, fmt = "json" \/ ~Has(was, "cloned_release")
       PROVE  e["release"] = was["release"]
  <2>1. CASE k = "release"
    BY <1>5, <1>9, <2>1 DEF Same
  <2>2. CASE k # "release"
    <3>1. k # "cloned_release"
      BY <1>11, <2>2 DEF Has
    <3> QED
      BY <1>5, <1>11, <2>2, <3>1 DEF Becomes, Restored
  <2> QED
    BY <2>1, <2>2
<1>12. /\ read \cup {k} \subseteq DOMAIN e
       /\ DOMAIN e \subseteq read \cup {k} \cup
            (IF "cloned_release" \in read \cup {k} THEN {"release"} ELSE {})
  BY <1>7 DEF Restored
<1>13. Restored(e, was, fmt, read \cup {k})
  BY <1>10, <1>11, <1>12 DEF Restored
<1> QED
  BY <1>6, <1>13

LEMMA ReadsRestored ==
  ASSUME NEW was, ConfigHeld(was), DOMAIN was \subseteq Keys, NEW fmt,
         NEW texts, DOMAIN texts = DOMAIN was,
         \A k \in DOMAIN was : texts[k] = Output(fmt, was[k]),
         NEW d \in Reads(fmt, texts, FALSE)
  PROVE  Restored(d, was, fmt, DOMAIN was)
<1> DEFINE keys == DOMAIN was
           last == Cardinality(keys)
<1>1. IsFiniteSet(keys) /\ last \in Nat
  BY KnownKeys, FS_Subset, FS_CardinalityType
<1>2. PICK order \in Orders(fmt, keys) : d = ReadInto(texts, order, FALSE)
  BY DEF Reads
<1>3. /\ order \in [1 .. last -> keys]
      /\ {order[i] : i \in 1 .. last} = keys
      /\ fmt = "json" => \A i, j \in 1 .. last : i < j => Position(order[i]) < Position(order[j])
  BY <1>2 DEF Orders
<1> HIDE DEF last
<1>4. PICK f : Reading(f, texts, order, FALSE, last) /\ d = f[last]
  <2>1. PICK skip : skip = FALSE
    OBVIOUS
  <2>2. \E f : Reading(f, texts, order, skip, last) /\ ReadInto(texts, order, skip) = f[last]
    <3>1. last \in Nat /\ Len(order) = last
      BY <1>1, <1>3, LenProperties
    <3> QED
      BY <3>1, ReadIntoIs
  <2> QED
    BY <1>2, <2>1, <2>2
<1> DEFINE Upto(n) == {order[i] : i \in 1 .. n}
           S == {n \in 0 .. last : Restored(f[n], was, fmt, Upto(n))}
<1>5. 0 \in S
  <2>1. f[0] = << >> /\ Upto(0) = {}
    BY <1>4 DEF Reading
  <2>2. Restored(<< >>, was, fmt, {})
    BY DEF Restored
  <2> QED
    BY <1>1, <2>1, <2>2
<1>6. ASSUME NEW n \in 1 .. last, n - 1 \in S
      PROVE  n \in S
  <2>1. Restored(f[n - 1], was, fmt, Upto(n - 1))
    BY <1>6
  <2>2. f[n] = ReadKey(f[n - 1], order[n], Output(fmt, was[order[n]]), FALSE)
    <3>1. order[n] \in keys
      BY <1>3
    <3> QED
      BY <1>4, <3>1 DEF Reading
  <2>3. Upto(n - 1) \subseteq keys /\ order[n] \in keys
    BY <1>1, <1>3
  <2>4. order[n] = "cloned_release" /\ fmt = "json" => "release" \notin Upto(n - 1)
    <3>1. SUFFICES ASSUME order[n] = "cloned_release", fmt = "json",
                          NEW i \in 1 .. n - 1, order[i] = "release"
                   PROVE  FALSE
      OBVIOUS
    <3>2. i \in 1 .. last /\ i < n
      BY <1>1, <3>1
    <3>3. Position(order[i]) < Position(order[n])
      BY <1>3, <3>1, <3>2
    <3> QED
      BY <3>1, <3>3, ReleasePositions
  <2>5. Upto(n) = Upto(n - 1) \cup {order[n]}
    <3>1. 1 .. n = (1 .. n - 1) \cup {n}
      BY <1>1
    <3> QED
      BY <3>1
  <2> HIDE DEF Upto
  <2>6. Restored(ReadKey(f[n - 1], order[n], Output(fmt, was[order[n]]), FALSE), was, fmt,
                 Upto(n - 1) \cup {order[n]})
    BY <2>1, <2>3, <2>4, KeyRestored
  <2>7. Restored(f[n], was, fmt, Upto(n))
    BY <2>2, <2>5, <2>6
  <2> QED
    BY <2>7
<1> HIDE DEF S
<1>7. last \in S
  BY <1>1, <1>5, <1>6, EveryPosition
<1> QED
  BY <1>3, <1>4, <1>7 DEF S

(***************************************************************************)
(* The getters do not tell the two apart.                                  *)
(***************************************************************************)
Agree(d, e, k) == (Has(d, k) <=> Has(e, k)) /\ (Has(d, k) => d[k] = e[k])

LEMMA RestoredAgrees ==
  ASSUME NEW was, NEW fmt, NEW d, Restored(d, was, fmt, DOMAIN was)
  PROVE  /\ \A k : k \notin {"exec_timeout", "depends", "release"} => Agree(d, was, k)
         /\ Has(d, "exec_timeout") <=> Has(was, "exec_timeout")
         /\ Has(d, "exec_timeout") =>
              ParseUserInput(d["exec_timeout"]) = ParseUserInput(was["exec_timeout"])
         /\ Has(d, "depends") <=> Has(was, "depends")
         /\ Has(d, "depends") /\ ParseBool(was["depends"]) = Error =>
              d["depends"] = was["depends"]
         /\ ~Has(was, "cloned_release") => Agree(d, was, "release")
         /\ fmt = "json" /\ Has(was, "release") => Agree(d, was, "release")
<1>1. \A k : k # "release" => (Has(d, k) <=> Has(was, k))
  BY DEF Restored, Has
<1>2. \A k : k # "release" /\ Has(was, k) => Same(k, was[k], d[k])
  BY DEF Restored, Has
<1>3. \A k : k \notin {"exec_timeout", "depends", "release"} => Agree(d, was, k)
  BY <1>1, <1>2 DEF Same, Agree
<1>4. Has(d, "exec_timeout") =>
        ParseUserInput(d["exec_timeout"]) = ParseUserInput(was["exec_timeout"])
  BY <1>1, <1>2 DEF Same
<1>5. Has(d, "depends") /\ ParseBool(was["depends"]) = Error =>
        d["depends"] = was["depends"]
  BY <1>1, <1>2 DEF Same
<1>6. ~Has(was, "cloned_release") => Agree(d, was, "release")
  BY DEF Restored, Has, Agree
<1>7. fmt = "json" /\ Has(was, "release") => Agree(d, was, "release")
  BY DEF Restored, Has, Agree
<1> QED
  BY <1>1, <1>3, <1>4, <1>5, <1>6, <1>7

LEMMA SameGetters ==
  ASSUME NEW d, NEW e, NEW k, Agree(d, e, k)
  PROVE  /\ GetBool(d, k) = GetBool(e, k)
         /\ GetPlain(d, k) = GetPlain(e, k)
         /\ GetSpecial(d, k) = GetSpecial(e, k)
<1>1. Has(d, k) <=> Has(e, k)
  BY DEF Agree
<1>2. Has(d, k) => d[k] = e[k]
  BY DEF Agree
<1>3. CASE ~Has(d, k)
  <2>1. GetBool(d, k) = GetBool(e, k) /\ GetPlain(d, k) = GetPlain(e, k)
    BY <1>1, <1>3 DEF GetBool, GetPlain
  <2>2. GetSpecial(d, k) = Missing /\ GetSpecial(e, k) = Missing
    BY <1>1, <1>3 DEF GetSpecial
  <2> QED
    BY <2>1, <2>2
<1>4. CASE Has(d, k)
  <2>1. GetBool(d, k) = GetBool(e, k) /\ GetPlain(d, k) = GetPlain(e, k)
    BY <1>1, <1>2, <1>4 DEF GetBool, GetPlain
  <2>2. GetSpecial(d, k) = GetSpecial(e, k)
    BY <1>1, <1>2, <1>4 DEF GetSpecial
  <2> QED
    BY <2>1, <2>2
<1> QED
  BY <1>3, <1>4

LEMMA SameTags ==
  ASSUME NEW d, NEW e, Agree(d, e, "tags"), Agree(d, e, "tag")
  PROVE  Tags(d) = Tags(e) /\ GetTag(d) = GetTag(e)
<1>1. /\ Has(d, "tags") <=> Has(e, "tags")
      /\ Has(d, "tag") <=> Has(e, "tag")
      /\ Has(d, "tags") => d["tags"] = e["tags"]
      /\ Has(d, "tag") => d["tag"] = e["tag"]
  BY DEF Agree
<1>2. TagsOf(d) = TagsOf(e)
  BY <1>1 DEF TagsOf
<1>3. Tags(d) = Tags(e)
  BY <1>2 DEF Tags
<1> QED
  BY <1>1, <1>3 DEF GetTag

LEMMA SameMountLevel ==
  ASSUME NEW d, NEW e, NEW k, Agree(d, e, k), Agree(d, e, "allow_mount_devfs")
  PROVE  GetMountLevel(d, k) = GetMountLevel(e, k)
<1>1. GetPlain(d, "allow_mount_devfs") = GetPlain(e, "allow_mount_devfs")
  BY SameGetters
<1>2. /\ Has(d, k) <=> Has(e, k)
      /\ Has(d, k) => d[k] = e[k]
  BY DEF Agree
<1> QED
  BY <1>1, <1>2 DEF GetMountLevel

\* All getters but those of the release.
LEMMA SameOwn ==
  ASSUME NEW d, NEW was, NEW fmt, Restored(d, was, fmt, DOMAIN was),
         NEW k \in Keys \ {"type", "basejail_type", "cloned_release", "release"},
         k = "depends" => ~Has(was, k) \/ ParseBool(was[k]) = Error
  PROVE  GetOwn(d, k) = GetOwn(was, k)
<1>1. k \notin {"exec_timeout", "depends"} => Agree(d, was, k)
  BY RestoredAgrees
<1>2. Agree(d, was, "tags") /\ Agree(d, was, "tag") /\ Agree(d, was, "allow_mount_devfs")
  BY RestoredAgrees
<1>3. CASE k = "exec_timeout"
  <2>1. GetOwn(d, k) = GetPlain(d, k) /\ GetOwn(was, k) = GetPlain(was, k)
    BY <1>3 DEF GetOwn, Special
  <2> QED
    BY <1>3, <2>1, RestoredAgrees DEF GetPlain
<1>4. CASE k = "depends"
  <2>1. GetOwn(d, k) = GetSpecial(d, k) /\ GetOwn(was, k) = GetSpecial(was, k)
    BY <1>4 DEF GetOwn, Special
  <2>2. Agree(d, was, k)
    BY <1>4, RestoredAgrees DEF Agree
  <2> QED
    BY <2>1, <2>2, SameGetters
<1>5. CASE k = "tags"
  <2>1. GetOwn(d, k) = Tags(d) /\ GetOwn(was, k) = Tags(was)
    BY <1>5 DEF GetOwn, Special
  <2> QED
    BY <1>2, <2>1, SameTags
<1>6. CASE k = "tag"
  <2>1. GetOwn(d, k) = GetTag(d) /\ GetOwn(was, k) = GetTag(was)
    BY <1>6 DEF GetOwn, Special
  <2> QED
    BY <1>2, <2>1, SameTags
<1>7. CASE k \in {"allow_mount", "enforce_statfs"}
  <2>1. GetOwn(d, k) = GetMountLevel(d, k) /\ GetOwn(was, k) = GetMountLevel(was, k)
    BY <1>7 DEF GetOwn, Special
  <2> QED
    BY <1>1, <1>2, <1>7, <2>1, SameMountLevel
<1>8. CASE k \notin {"exec_timeout", "depends", "tags", "tag", "allow_mount", "enforce_statfs"}
  <2>1. /\ Has(d, k) <=> Has(was, k)
        /\ Has(d, k) => d[k] = was[k]
    BY <1>1, <1>8 DEF Agree
  <2>2. /\ GetBool(d, k) = GetBool(was, k)
        /\ GetPlain(d, k) = GetPlain(was, k)
        /\ GetSpecial(d, k) = GetSpecial(was, k)
    BY <1>1, <1>8, SameGetters
  <2> QED
    BY <1>8, <2>1, <2>2 DEF GetOwn
<1> QED
  BY <1>3, <1>4, <1>5, <1>6, <1>7, <1>8

LEMMA SameGet ==
  ASSUME NEW d, NEW was, NEW fmt, Restored(d, was, fmt, DOMAIN was),
         NEW k \in Keys,
         k = "release" => fmt = "json" /\ Has(was, k),
         k = "cloned_release" => fmt = "json",
         k = "depends" => ~Has(was, k) \/ ParseBool(was[k]) = Error
  PROVE  Get(d, << >>, k) = Get(was, << >>, k)
<1>1. IsBasejail(d, << >>) = IsBasejail(was, << >>)
  BY RestoredAgrees, SameGetters DEF IsBasejail
<1>2. IsClonejail(d, << >>) = IsClonejail(was, << >>)
  BY RestoredAgrees, SameGetters DEF IsClonejail
<1>3. CASE k = "type"
  BY <1>1, <1>2, <1>3 DEF Get, GetType
<1>4. CASE k = "basejail_type"
  <2>1. /\ Has(d, k) <=> Has(was, k)
        /\ Has(d, k) => d[k] = was[k]
    BY <1>4, RestoredAgrees DEF Agree
  <2>2. GetBasejailType(d, << >>) = GetBasejailType(was, << >>)
    BY <1>1, <1>4, <2>1 DEF GetBasejailType
  <2> QED
    BY <1>4, <2>2 DEF Get
<1>5. CASE k = "cloned_release"
  <2>1. /\ Has(d, k) <=> Has(was, k)
        /\ Has(d, k) => d[k] = was[k]
    BY <1>5, RestoredAgrees DEF Agree
  <2>2. ~Has(was, k) => Release(d, << >>) = Release(was, << >>)
    BY <1>5, RestoredAgrees, SameGetters DEF Release
  <2>3. GetClonedRelease(d, << >>) = GetClonedRelease(was, << >>)
    <3>1. CASE Has(was, k)
      <4>1. /\ GetClonedRelease(d, << >>) = TextOf(d[k])
            /\ GetClonedRelease(was, << >>) = TextOf(was[k])
        BY <1>5, <2>1, <3>1 DEF GetClonedRelease
      <4> QED
        BY <2>1, <3>1, <4>1
    <3>2. CASE ~Has(was, k)
      BY <1>5, <2>1, <2>2, <3>2 DEF GetClonedRelease
    <3> QED
      BY <3>1, <3>2
  <2> QED
    BY <1>5, <2>3 DEF Get
<1>6. CASE k \notin {"type", "basejail_type", "cloned_release"}
  <2>1. GetOwn(d, k) = GetOwn(was, k)
    <3>1. CASE k = "release"
      <4>1. GetOwn(d, k) = GetPlain(d, k) /\ GetOwn(was, k) = GetPlain(was, k)
        BY <3>1 DEF GetOwn, Special
      <4>2. Agree(d, was, k)
        BY <3>1, RestoredAgrees
      <4> QED
        BY <4>1, <4>2, SameGetters
    <3>2. CASE k # "release"
      BY <1>6, <3>2, SameOwn
    <3> QED
      BY <3>1, <3>2
  <2>2. k = "maxproc" => (Has(d, k) <=> Has(was, k))
    BY RestoredAgrees DEF Agree
  <2> QED
    BY <1>6, <2>1, <2>2 DEF Get
<1> QED
  BY <1>3, <1>4, <1>5, <1>6

(***************************************************************************)
(* The inductive invariant: the process and the last save() hold the forms *)
(* only, and the storage holds what save() has made of them so far.        *)
(***************************************************************************)
Written(d, keys) ==
  \A k \in keys : Has(disk, k) /\ disk[k] = Output(handler, d[k])

ConfigInv ==
  /\ ConfigTypeOK
  /\ data # NoConfig => ConfigHeld(data)
  /\ \A k \in DOMAIN disk : disk[k] = Str(disk[k].x)
  /\ saving => Written(data, DOMAIN data \ left)
  /\ saved # NoConfig => ConfigHeld(saved) /\ Written(saved, DOMAIN saved)

LEMMA ReadKeyHeld ==
  ASSUME NEW d, d = NoConfig \/ ConfigHeld(d), NEW k \in AllKeys,
         NEW text, text = Str(text.x), NEW skip
  PROVE  ReadKey(d, k, text, skip) = NoConfig \/ ConfigHeld(ReadKey(d, k, text, skip))
<1>1. CASE d = NoConfig
  BY <1>1 DEF ReadKey
<1>2. CASE d # NoConfig /\ Accepts(d, k, text)
  <2>1. ConfigHeld(SetItem(d, k, text))
    BY <1>2, SetItemHeld DEF Given
  <2> QED
    BY <1>2, <2>1 DEF ReadKey, Accepts
<1>3. CASE d # NoConfig /\ Broken(d, k, ParseUserInput(text))
  BY <1>3 DEF ReadKey, Accepts
<1>4. CASE d # NoConfig /\ ~Broken(d, k, ParseUserInput(text)) /\ ~Accepts(d, k, text)
  <2>1. CASE Known(k)
    BY <1>4, <2>1 DEF ReadKey
  <2>2. CASE ~Known(k)
    <3>1. k = "unknown"
      BY <2>2 DEF Known, Keys
    <3>2. Held(k, ParseUserInput(text))
      BY <3>1 DEF Held, Plainly, Numbers
    <3>3. ConfigHeld(Put(d, k, ParseUserInput(text)))
      BY <1>4, <3>1, <3>2, PutHeld
    <3> QED
      BY <1>4, <2>2, <3>3 DEF ReadKey
  <2> QED
    BY <2>1, <2>2
<1> QED
  BY <1>1, <1>2, <1>3, <1>4

LEMMA ReadsHeld ==
  ASSUME NEW fmt, NEW texts, DOMAIN texts \subseteq AllKeys,
         \A k \in DOMAIN texts : texts[k] = Str(texts[k].x),
         NEW skip, NEW d \in Reads(fmt, texts, skip)
  PROVE  d = NoConfig \/ ConfigHeld(d)
<1> DEFINE keys == DOMAIN texts
           last == Cardinality(keys)
<1>1. IsFiniteSet(keys) /\ last \in Nat
  BY KnownKeys, FS_Subset, FS_CardinalityType
<1>2. PICK order \in [1 .. last -> keys] : d = ReadInto(texts, order, skip)
  BY DEF Reads, Orders
<1> HIDE DEF last
<1>3. PICK f : Reading(f, texts, order, skip, last) /\ d = f[last]
  <2>1. Len(order) = last
    BY <1>1, LenProperties
  <2> QED
    BY <1>1, <1>2, <2>1, ReadIntoIs
<1> DEFINE S == {n \in 0 .. last : f[n] = NoConfig \/ ConfigHeld(f[n])}
<1>4. 0 \in S
  <2>1. f[0] = << >>
    BY <1>3 DEF Reading
  <2>2. ConfigHeld(<< >>)
    BY DEF ConfigHeld, Has
  <2> QED
    BY <1>1, <2>1, <2>2
<1>5. ASSUME NEW n \in 1 .. last, n - 1 \in S
      PROVE  n \in S
  <2>1. f[n - 1] = NoConfig \/ ConfigHeld(f[n - 1])
    BY <1>5
  <2>2. f[n] = ReadKey(f[n - 1], order[n], texts[order[n]], skip)
    BY <1>3 DEF Reading
  <2>3. order[n] \in AllKeys /\ texts[order[n]] = Str(texts[order[n]].x)
    BY <1>2
  <2>4. f[n] = NoConfig \/ ConfigHeld(f[n])
    BY <2>1, <2>2, <2>3, ReadKeyHeld
  <2> QED
    BY <2>4
<1> HIDE DEF S
<1>6. last \in S
  <2>1. last \in Nat
    BY <1>1
  <2>2. \A n \in 0 .. last : n \in S
    BY <1>4, <1>5, <2>1, EveryPosition
  <2> QED
    BY <2>1, <2>2
<1> QED
  BY <1>3, <1>6 DEF S

LEMMA OutputText ==
  \A fmt, v : Output(fmt, v) = Str(Output(fmt, v).x)
<1>1. \A v, yes, no, none : ToText(v, yes, no, none) = Str(ToText(v, yes, no, none).x)
  BY ValuesDiffer DEF ToText
<1> QED
  BY <1>1 DEF Output

LEMMA ConfigInitInv == ConfigInit => ConfigInv
<1> SUFFICES ASSUME ConfigInit PROVE ConfigInv
  OBVIOUS
<1>1. ConfigTypeOK
  BY ConfigInitTyped
<1>2. ConfigHeld(<< >>)
  BY DEF ConfigHeld, Has
<1>3. \A k \in DOMAIN disk : disk[k] = Str(disk[k].x)
  <2>1. DOMAIN disk = {}
    BY DEF ConfigInit
  <2> QED
    BY <2>1
<1> QED
  BY <1>1, <1>2, <1>3 DEF ConfigInit, ConfigInv

LEMMA ConfigNextInv == ConfigInv /\ [ConfigNext]_configVars => ConfigInv'
<1> SUFFICES ASSUME ConfigInv, [ConfigNext]_configVars PROVE ConfigInv'
  OBVIOUS
<1> USE DEF ConfigInv
<1>0. ConfigTypeOK'
  BY ConfigNextTyped
<1>1. ASSUME NEW skip, Open(skip) PROVE ConfigInv'
  <2>1. data' = NoConfig \/ ConfigHeld(data')
    BY <1>1, ReadsHeld DEF Open, ConfigTypeOK, Typed
  <2>2. ~saving
    BY <1>1 DEF Open, ConfigTypeOK
  <2> QED
    BY <1>0, <1>1, <2>1, <2>2 DEF Open, Written
<1>2. ASSUME NEW i \in Inputs, SetProperty(i[1], i[2]) PROVE ConfigInv'
  <2>1. ConfigHeld(data')
    BY <1>2, InputsAssumption, SetItemHeld DEF SetProperty, Changes
  <2> QED
    BY <1>0, <1>2, <2>1 DEF SetProperty, Changes, Written
<1>3. ASSUME NEW k, DeleteProperty(k) PROVE ConfigInv'
  <2>1. ConfigHeld(data')
    BY <1>3, DropHeld DEF DeleteProperty, Changes
  <2> QED
    BY <1>0, <1>3, <2>1 DEF DeleteProperty, Changes, Written
<1>4. ASSUME NEW k, WriteProperty(k) PROVE ConfigInv'
  <2>1. saving /\ saved = NoConfig /\ data # NoConfig
    BY <1>4 DEF WriteProperty, ConfigTypeOK
  <2>2. \A x \in DOMAIN disk' : disk'[x] = Str(disk'[x].x)
    <3>1. Output(handler, data[k]) = Str(Output(handler, data[k]).x)
      BY OutputText
    <3> QED
      BY <1>4, <3>1 DEF WriteProperty, Put
  <2>3. Written(data, DOMAIN data \ left)'
    BY <1>4, <2>1 DEF WriteProperty, Written, Put, Has
  <2> QED
    BY <1>0, <1>4, <2>1, <2>2, <2>3 DEF WriteProperty
<1>5. ASSUME NEW k \in AllKeys, ReadDefault(k) PROVE ConfigInv'
  BY <1>0, <1>5 DEF ReadDefault, Changes, Written
<1>6. CASE BeginSave
  <2>1. \A k \in DOMAIN disk' : disk'[k] = Str(disk'[k].x)
    BY <1>6 DEF BeginSave
  <2>2. Written(data, DOMAIN data \ left)'
    BY <1>6 DEF BeginSave, Written
  <2> QED
    BY <1>0, <1>6, <2>1, <2>2 DEF BeginSave
<1>7. CASE WriteFile
  <2>1. saving /\ saved = NoConfig /\ data # NoConfig
    BY <1>7 DEF WriteFile, ConfigTypeOK
  <2>2. \A k \in DOMAIN disk' : disk'[k] = Str(disk'[k].x)
    BY <1>7, OutputText DEF WriteFile
  <2>3. Written(data, DOMAIN data \ left)'
    BY <1>7 DEF WriteFile, Written, Has
  <2> QED
    BY <1>0, <1>7, <2>1, <2>2, <2>3 DEF WriteFile
<1>8. CASE EndSave
  <2>1. data # NoConfig
    BY <1>8 DEF EndSave, ConfigTypeOK
  <2> QED
    BY <1>0, <1>8, <2>1 DEF EndSave, Written
<1>9. CASE Exit
  <2>1. \A k \in DOMAIN disk' : disk'[k] = Str(disk'[k].x)
    BY <1>9 DEF Exit
  <2> QED
    BY <1>0, <1>9, <2>1 DEF Exit, Written
<1>10. ASSUME NEW i \in Edits, Edit(i[1], i[2]) PROVE ConfigInv'
  <2>1. \A k \in DOMAIN disk' : disk'[k] = Str(disk'[k].x)
    BY <1>10, InputsAssumption DEF Edit, Put
  <2>2. ~saving
    BY <1>10 DEF Edit, ConfigTypeOK
  <2> QED
    BY <1>0, <1>10, <2>1, <2>2 DEF Edit
<1>11. ASSUME NEW i \in UserInputs, SetDefault(i[1], i[2]) PROVE ConfigInv'
  BY <1>0, <1>11 DEF SetDefault, Changes, Written
<1>12. CASE UNCHANGED configVars
  BY <1>0, <1>12 DEF configVars, Written
<1> QED
  BY <1>1, <1>2, <1>3, <1>4, <1>5, <1>6, <1>7, <1>8, <1>9, <1>10, <1>11, <1>12
     DEF ConfigNext

LEMMA ConfigInvReads == ConfigInv => ConfigReadsBack
<1> SUFFICES ASSUME ConfigInv, saved # NoConfig, DOMAIN saved \subseteq Keys,
                    DOMAIN disk = DOMAIN saved,
                    NEW d \in Reads(handler, disk, FALSE)
             PROVE  /\ d # NoConfig
                    /\ \A k \in Keys :
                         \/ k = "release" /\ ~Has(saved, k)
                         \/ handler # "json" /\ k \in {"release", "cloned_release"}
                         \/ k = "depends" /\ Has(saved, k) /\ ParseBool(saved[k]) # Error
                         \/ Get(d, << >>, k) = Get(saved, << >>, k)
  BY DEF ConfigReadsBack
<1>1. ConfigHeld(saved) /\ \A k \in DOMAIN saved : disk[k] = Output(handler, saved[k])
  BY DEF ConfigInv, Written
<1>2. Restored(d, saved, handler, DOMAIN saved)
  BY <1>1, ReadsRestored
<1>3. d # NoConfig
  <2>1. "release" \in Keys
    BY KeysAre DEF Plainly
  <2>2. DOMAIN d \subseteq Keys
    BY <1>2, <2>1 DEF Restored
  <2> QED
    BY <2>2, ConfigDiffers
<1>4. ASSUME NEW k \in Keys,
             ~(k = "release" /\ ~Has(saved, k)),
             ~(handler # "json" /\ k \in {"release", "cloned_release"}),
             ~(k = "depends" /\ Has(saved, k) /\ ParseBool(saved[k]) # Error)
      PROVE  Get(d, << >>, k) = Get(saved, << >>, k)
  BY <1>2, <1>4, SameGet
<1> QED
  BY <1>3, <1>4

\* Whatever was set, deleted and edited before, in whatever order the stored
\* keys come back: what a process has saved, the next one can open, and reads
\* as it was (BaseConfig.py:755, helpers.py:208, Type/{JSON,UCL,ZFS}.py).
THEOREM ConfigReadsBackTheorem == ConfigSpec => []ConfigReadsBack
BY ConfigInitInv, ConfigNextInv, ConfigInvReads, PTL DEF ConfigSpec

----------------------------------------------------------------------------
\* The same of the three components, whichever of them a behaviour is of.
THEOREM TypeCorrect == Spec => []TypeOK
<1> DEFINE Inv == ConfigTypeOK /\ FstabInv /\ PoolTypeOK
<1>1. Init => Inv
  BY ConfigInitTyped, FstabInitInv, PoolInitTyped DEF Init
<1>2. Inv /\ [Next]_<<configVars, fstabVars, poolVars, part>> => Inv'
  <2> SUFFICES ASSUME Inv, [Next]_<<configVars, fstabVars, poolVars, part>>
               PROVE  Inv'
    OBVIOUS
  <2>1. [ConfigNext]_configVars /\ [FstabNext]_fstabVars /\ [PoolNext]_poolVars
    BY DEF Next
  <2> QED
    BY <2>1, ConfigNextTyped, FstabNextInv, PoolNextTyped
<1>3. Inv => TypeOK
  BY FstabInvTyped DEF TypeOK
<1> QED
  BY <1>1, <1>2, <1>3, PTL DEF Spec
==============================================================================
