---------------------------- MODULE PoolActivation ----------------------------
(***************************************************************************)
(* The pool that holds the datasets of the library (Datasets.py).  A host  *)
(* names its root datasets in rc.conf, or marks one pool with the ZFS      *)
(* property org.freebsd.ioc:active.  A Datasets object finds its sources   *)
(* when it is made; activating a pool marks all others inactive, marks the *)
(* pool, attaches its root dataset and sets a mountpoint, and any of these *)
(* writes may fail or be the last one of the process.                      *)
(***************************************************************************)
EXTENDS FiniteSets

CONSTANTS
    Pools,    \* the imported pools
    NoPool    \* not a pool

ASSUME NoPoolIsNone == NoPool \notin Pools

VARIABLES
    poolActive,   \* pool -> org.freebsd.ioc:active of its root dataset
    poolStatus,   \* pool -> its status
    poolMount,    \* pool -> the mountpoint of <pool>/iocage
    rcPools,      \* the pools that rc.conf names
    datasets,     \* the Datasets object of the process, or NoDatasets
    activation    \* the activation in progress

poolVars == <<poolActive, poolStatus, poolMount, rcPools, datasets, activation>>

SourceNames == {"main", "ioc", "iocage"}
NoDatasets == [made |-> FALSE, managed |-> TRUE, main |-> "none",
               sources |-> [n \in SourceNames |-> NoPool]]
Idle == [step |-> "idle", target |-> NoPool, others |-> {}]

PoolTypeOK ==
    /\ poolActive \in [Pools -> {"unset", "no", "yes"}]
    /\ poolStatus \in [Pools -> {"ONLINE", "UNAVAIL"}]
    /\ poolMount \in [Pools -> {"absent", "/iocage", "inherited", "chosen"}]
    /\ rcPools \subseteq Pools
    /\ datasets \in [made : BOOLEAN, managed : BOOLEAN,
                     main : SourceNames \cup {"none"},
                     sources : [SourceNames -> Pools \cup {NoPool}]]
    /\ datasets.main # "none" => datasets.sources[datasets.main] # NoPool
    /\ activation \in [step : {"idle", "others", "attach"},
                       target : Pools \cup {NoPool}, others : SUBSET Pools]
    /\ activation.step # "idle" => activation.target \in Pools

PoolInit ==
    /\ poolActive \in {f \in [Pools -> {"unset", "no", "yes"}] :
                          \A p, q \in Pools : f[p] = "yes" /\ f[q] = "yes" => p = q}
    /\ poolStatus = [p \in Pools |-> "ONLINE"]
    /\ poolMount = [p \in Pools |-> "absent"]
    /\ rcPools \in {{}} \cup {{p} : p \in Pools}
    /\ datasets = NoDatasets
    /\ activation = Idle

(***************************************************************************)
(* Sources.                                                                *)
(***************************************************************************)
IsActive(p) == poolStatus[p] = "ONLINE" /\ poolActive[p] = "yes"

\* RootDatasets() creates a missing dataset and claims /iocage for it
RootMounted(p) ==
    IF poolMount[p] # "absent" THEN poolMount
    ELSE [poolMount EXCEPT ![p] = IF \E q \in Pools : poolMount[q] = "/iocage"
                                  THEN "inherited" ELSE "/iocage"]

\* the source that is attached first stays the main one
AttachSource(ds, name, p) ==
    [ds EXCEPT !.sources = [@ EXCEPT ![name] = p],
               !.main = IF @ = "none" THEN name ELSE @]

Found(managed, name, p) ==
    /\ poolStatus[p] = "ONLINE"
    /\ datasets' = AttachSource([NoDatasets EXCEPT !.made = TRUE,
                                                   !.managed = managed], name, p)
    /\ poolMount' = RootMounted(p)

FromArguments == \E p \in Pools : Found(TRUE, "main", p)
FromRcConf == \E p \in rcPools : Found(TRUE, "main", p)
FromPoolProperty == rcPools = {} /\ \E p \in Pools : IsActive(p)
                                                     /\ Found(FALSE, "ioc", p)
NotActivated ==
    /\ rcPools = {} /\ ~\E p \in Pools : IsActive(p)
    /\ datasets' = [NoDatasets EXCEPT !.made = TRUE, !.managed = FALSE]
    /\ UNCHANGED poolMount

MakeDatasets ==
    /\ ~datasets.made
    /\ FromArguments \/ FromRcConf \/ FromPoolProperty \/ NotActivated
    /\ UNCHANGED <<poolActive, poolStatus, rcPools, activation>>

(***************************************************************************)
(* activate_pool(), a write at a time.                                     *)
(***************************************************************************)
Writes(p, value) ==
    /\ poolStatus[p] = "ONLINE"
    /\ poolActive' = [poolActive EXCEPT ![p] = value]

\* a mutant: only the pools that are seen active are marked
ToDeactivateSeen(p) == {q \in Pools \ {p} : IsActive(q)}

\* what is left to do when activate_pool() has checked its arguments
ToDeactivate(p) == Pools \ {p}

ActivatePool(p) ==
    /\ datasets.made /\ ~datasets.managed
    /\ activation = Idle
    /\ poolStatus[p] # "UNAVAIL"
    /\ activation' = [step |-> "others", target |-> p, others |-> ToDeactivate(p)]
    /\ UNCHANGED <<poolActive, poolStatus, poolMount, rcPools, datasets>>

DeactivateOther(q) ==
    /\ activation.step = "others" /\ q \in activation.others
    /\ Writes(q, "no")
    /\ activation' = [activation EXCEPT !.others = @ \ {q}]
    /\ UNCHANGED <<poolStatus, poolMount, rcPools, datasets>>

SetPoolActive ==
    /\ activation.step = "others" /\ activation.others = {}
    /\ Writes(activation.target, "yes")
    /\ activation' = [activation EXCEPT !.step = "attach"]
    /\ UNCHANGED <<poolStatus, poolMount, rcPools, datasets>>

\* the mountpoint is set on the main source, which is the pool that was found
\* first when there was one
SetMountpoint ==
    /\ activation.step = "attach"
    /\ poolStatus[activation.target] = "ONLINE"
    /\ LET ds == AttachSource(datasets, "iocage", activation.target)
       IN /\ datasets' = ds
          /\ poolMount' = [RootMounted(activation.target) EXCEPT
                              ![ds.sources[ds.main]] = "chosen"]
    /\ activation' = Idle
    /\ UNCHANGED <<poolActive, poolStatus, rcPools>>

\* a write fails, or the process ends
ActivationFails ==
    /\ activation # Idle
    /\ activation' = Idle
    /\ UNCHANGED <<poolActive, poolStatus, poolMount, rcPools, datasets>>

EndProcess ==
    /\ datasets.made
    /\ datasets' = NoDatasets
    /\ activation' = Idle
    /\ UNCHANGED <<poolActive, poolStatus, poolMount, rcPools>>

\* deactivate() takes the pool of the main source
DeactivatePool ==
    /\ datasets.made /\ datasets.main # "none"
    /\ activation = Idle
    /\ Writes(datasets.sources[datasets.main], "no")
    /\ UNCHANGED <<poolStatus, poolMount, rcPools, datasets, activation>>

\* a pool is lost or comes back
StatusChanges(p) ==
    /\ poolStatus' = [poolStatus EXCEPT
                        ![p] = IF @ = "ONLINE" THEN "UNAVAIL" ELSE "ONLINE"]
    /\ UNCHANGED <<poolActive, poolMount, rcPools, datasets, activation>>

PoolNext ==
    \/ MakeDatasets \/ SetPoolActive \/ SetMountpoint \/ ActivationFails
    \/ EndProcess \/ DeactivatePool
    \/ \E p \in Pools : ActivatePool(p) \/ DeactivateOther(p) \/ StatusChanges(p)

PoolSpec == PoolInit /\ [][PoolNext]_poolVars

(***************************************************************************)
(* Properties.                                                             *)
(***************************************************************************)
\* At most one pool is marked active, so that every process finds the same
\* one: wherever an activation fails or is interrupted, and although pools
\* that are lost cannot be written and come back as they were left
\* (Datasets.py:421, 454).
OneActive == \A p, q \in Pools :
                poolActive[p] = "yes" /\ poolActive[q] = "yes" => p = q
==============================================================================
