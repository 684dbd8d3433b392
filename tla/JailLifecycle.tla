--------------------------- MODULE JailLifecycle ---------------------------
(***************************************************************************)
(* One jail of libioc and the JailGenerator objects that operate on it.    *)
(*                                                                         *)
(* libioc/Jail.py starts, stops, restarts and destroys a jail as a long    *)
(* chain of host operations (rctl, mount, jail_set, ifconfig, ...), each   *)
(* of which may fail.  The chain is a generator: between two steps the     *)
(* consumer, another object for the same jail or another process runs.     *)
(* There is no lock.  Every object memoizes the jid it saw last and keeps  *)
(* its own copy of the configuration.  This module has one action per step *)
(* of the chain, with the success and the failure of the step.             *)
(***************************************************************************)
EXTENDS Integers

CONSTANTS
  Objects,    \* JailGenerator objects of one jail, in one or more processes
  MaxJid,     \* bound: the kernel hands out the jids 1 .. MaxJid
  Vnet,       \* the saved configuration of the jail has vnet enabled
  Basejail,   \* the jail is a NullFS basejail
  Overrides,  \* vnet values a caller of fork_exec may pass as an override
  Exclusive   \* callers run one operation at a time

ASSUME BoundAssumption == MaxJid \in Nat
ASSUME ConfigAssumption ==
  Vnet \in BOOLEAN /\ Basejail \in BOOLEAN /\ Exclusive \in BOOLEAN
  /\ Overrides \subseteq BOOLEAN

VARIABLES
  \* the host
  exists,     \* the dataset of the jail exists
  kjid,       \* jid the kernel knows under the identifier of the jail, or None
  nextJid,    \* the last jid handed out
  dying,      \* removed jails the kernel has not reaped
  mounts,     \* number of file systems stacked on each mountpoint of the jail
  aliases,    \* the ip addresses of the jail are aliases on the host nic
  epairs,     \* jids with an epair on the host
  rules,      \* rctl rules of the jail are loaded
  \* the objects
  op,         \* the operation of an object: its next step and its locals
  memo,       \* __jid of the object
  cfg,        \* config["vnet"] in the memory of the object
  \* history
  gone,       \* the jid an operation under way has removed, or None
  aborted     \* number of operations that raised after they removed the jail

host == <<exists, kjid, nextJid, dying, mounts, aliases, epairs, rules>>
object == <<op, memo, cfg>>
history == <<gone, aborted>>
vars == <<host, object, history>>

None == 0
Unknown == -1                        \* the attribute __jid was never assigned
Jids == 1 .. MaxJid
Mountpoints == {"base", "fstab", "dev", "fd"}

Resting == {"idle", "ok", "raised", "reverted"}
StartSteps == {"limits", "prestart", "base", "fstab", "attach", "created",
               "devfs", "fdescfs", "network", "services"}
StopSteps == {"prestop", "stop", "remove", "wait", "aliases", "poststop",
              "vnet", "unfstab", "teardown", "unlimit"}
Steps == StartSteps \union StopSteps \union {"require", "delete"}

Apis == {"none", "start", "command", "stop", "restart", "destroy"}

\* A running generator: the step it is at, the method that was called, the
\* force argument, the routine that runs the step (start() up to its
\* services, a stop(), or the rollback of start()) and its variable jid.
Operations == [pc : Resting \union Steps, api : Apis, force : BOOLEAN,
               via : {"up", "stop", "rollback"}, jid : Jids \union {None}]

Rest(outcome) == [pc |-> outcome, api |-> "none", force |-> FALSE,
                  via |-> "up", jid |-> None]

TypeOK ==
  /\ exists \in BOOLEAN
  /\ kjid \in Jids \union {None}
  /\ nextJid \in 0 .. MaxJid
  /\ dying \subseteq Jids
  /\ mounts \in [Mountpoints -> Nat]
  /\ aliases \in BOOLEAN
  /\ epairs \subseteq Jids
  /\ rules \in BOOLEAN
  /\ op \in [Objects -> Operations]
  /\ memo \in [Objects -> Jids \union {None, Unknown}]
  /\ cfg \in [Objects -> BOOLEAN]
  /\ gone \in [Objects -> Jids \union {None}]
  /\ aborted \in Nat

Init ==
  /\ exists \in BOOLEAN
  /\ kjid = None /\ nextJid = 0 /\ dying = {}
  /\ mounts = [m \in Mountpoints |-> 0]
  /\ aliases = FALSE /\ epairs = {} /\ rules = FALSE
  /\ op = [o \in Objects |-> Rest("idle")]
  /\ memo = [o \in Objects |-> Unknown]
  /\ cfg = [o \in Objects |-> Vnet]
  /\ gone = [o \in Objects |-> None]
  /\ aborted = 0

----------------------------------------------------------------------------
(***************************************************************************)
(* Control.                                                                *)
(***************************************************************************)
At(o, step) == op[o].pc = step
Goto(o, step) == op' = [op EXCEPT ![o].pc = step]
Return(o, outcome) == op' = [op EXCEPT ![o] = Rest(outcome)]

Ready(o) == op[o].pc \in Resting
MayCall(o) == Ready(o) /\ (Exclusive => \A p \in Objects : Ready(p))

Enter(o, api, force, via, step, jid) ==
  op' = [op EXCEPT ![o] = [pc |-> step, api |-> api, force |-> force,
                           via |-> via, jid |-> jid]]

\* History: the routine that removed the jail is left before its end.
Abandon(o) ==
  /\ aborted' = IF gone[o] # None THEN aborted + 1 ELSE aborted
  /\ gone' = [gone EXCEPT ![o] = None]

\* An exception leaves the operation.
Raise(o) == Return(o, "raised") /\ Abandon(o)

\* The jail runs a single command; its teardown is written out in start().
Inline(o) == op[o].api = "command"
Forced(o) == op[o].force

\* jail.jid and jail.running, the memoized and the refreshed jid.
JidOf(o) == IF memo[o] = Unknown THEN kjid ELSE memo[o]
QueryJid(o) == memo' = [memo EXCEPT ![o] = kjid]

\* A teardown reaches its end: the rollback of start(), the stop() in
\* destroy() or in restart(), or the operation itself.
Finish(o) ==
  /\ \/ op[o].via = "rollback" /\ Return(o, "reverted")
     \/ op[o].via = "stop" /\ op[o].api = "destroy" /\ Goto(o, "delete")
     \/ op[o].via = "stop" /\ op[o].api = "restart" /\ Goto(o, "require")
     \/ op[o].via = "stop" /\ op[o].api = "stop" /\ Return(o, "ok")
     \/ op[o].via = "up" /\ Return(o, "ok")
  /\ gone' = [gone EXCEPT ![o] = None]
  /\ UNCHANGED aborted

----------------------------------------------------------------------------
(***************************************************************************)
(* The calls a consumer makes.                                             *)
(***************************************************************************)

\* A new object for the jail: nothing memoized, the configuration as saved.
Open(o) ==
  /\ MayCall(o)
  /\ Return(o, "idle")
  /\ memo' = [memo EXCEPT ![o] = Unknown]
  /\ cfg' = [cfg EXCEPT ![o] = Vnet]
  /\ UNCHANGED <<host, history>>

\* create(): a failure after create_resource() leaves the dataset behind.
Create(o) ==
  /\ MayCall(o)
  /\ \/ ~exists /\ exists' = TRUE /\ Return(o, "ok")
     \/ exists' = TRUE /\ Return(o, "raised")
  /\ UNCHANGED <<kjid, nextJid, dying, mounts, aliases, epairs, rules,
                 memo, cfg, history>>

CallStart(o) ==
  /\ MayCall(o)
  /\ Enter(o, "start", FALSE, "up", "require", None)
  /\ UNCHANGED <<host, memo, cfg, history>>

\* fork_exec(): the override is written into the data of the original
\* configuration; restoring self.config afterwards does not undo it.
OverrideConfig(o, vnet) == cfg' = [cfg EXCEPT ![o] = vnet]

CallForkExec(o) ==
  /\ MayCall(o)
  /\ IF exists /\ kjid = None
     THEN /\ Enter(o, "command", FALSE, "up", "require", None)
          /\ \E vnet \in Overrides \union {cfg[o]} : OverrideConfig(o, vnet)
     ELSE Return(o, "raised") /\ UNCHANGED cfg
  /\ IF exists THEN QueryJid(o) ELSE UNCHANGED memo
  /\ UNCHANGED <<host, history>>

\* stop(): only an unforced stop looks at the jail before it reads self.jid.
CallStop(o, api, force) ==
  /\ MayCall(o)
  /\ IF force \/ (exists /\ kjid # None)
     THEN LET jid == IF force THEN JidOf(o) ELSE kjid
          IN  /\ Enter(o, api, force, "stop", "prestop", jid)
              /\ memo' = [memo EXCEPT ![o] = jid]
     ELSE /\ Return(o, "raised")
          /\ IF exists THEN QueryJid(o) ELSE UNCHANGED memo
  /\ UNCHANGED <<host, cfg, history>>

\* destroy(force, force_stop): force overwrites the value of force_stop.
StopsFirst(force, forceStop) == IF force THEN kjid # None ELSE forceStop

CallDestroy(o, force, forceStop) ==
  /\ MayCall(o)
  /\ IF ~force /\ kjid # None
     THEN Return(o, "raised")
     ELSE Enter(o, "destroy", TRUE, "stop",
                IF StopsFirst(force, forceStop) THEN "prestop" ELSE "delete",
                kjid)
  /\ QueryJid(o)
  /\ UNCHANGED <<host, cfg, history>>

----------------------------------------------------------------------------
(***************************************************************************)
(* start(): the steps before the jail exists in the kernel.                *)
(***************************************************************************)

\* require_jail_existing, require_jail_stopped
Require(o) ==
  /\ At(o, "require")
  /\ IF exists /\ kjid = None
     THEN Enter(o, op[o].api, FALSE, "up", "limits", None)
     ELSE Return(o, "raised")
  /\ IF exists THEN QueryJid(o) ELSE UNCHANGED memo
  /\ UNCHANGED <<host, cfg, history>>

\* A step that fails may have done a part of its work.  No handler catches
\* the failure of any step of start() before the services are started.
ApplyLimits(o) ==
  /\ At(o, "limits")
  /\ \/ rules' = TRUE /\ Goto(o, "prestart") /\ UNCHANGED history
     \/ rules' \in {rules, TRUE} /\ Raise(o)
  /\ UNCHANGED <<exists, kjid, nextJid, dying, mounts, aliases, epairs,
                 memo, cfg>>

Prestart(o) ==
  /\ At(o, "prestart")
  /\ \/ Goto(o, IF Basejail THEN "base" ELSE "fstab") /\ UNCHANGED history
     \/ Raise(o)
  /\ UNCHANGED <<host, memo, cfg>>

\* A mutant: mount without unmounting first.
RemountStacked(m) == mounts' = [mounts EXCEPT ![m] = @ + 1]

\* A mounted base directory, or fstab entry, is unmounted before it is mounted.
Remount(m) == mounts' = [mounts EXCEPT ![m] = 1]
RemountPart(m) == \/ mounts' = [mounts EXCEPT ![m] = 0] \/ Remount(m)
                  \/ UNCHANGED mounts

ApplyBase(o) ==
  /\ At(o, "base")
  /\ \/ exists /\ Remount("base") /\ Goto(o, "fstab") /\ UNCHANGED history
     \/ (IF exists THEN RemountPart("base") ELSE UNCHANGED mounts) /\ Raise(o)
  /\ UNCHANGED <<exists, kjid, nextJid, dying, aliases, epairs, rules,
                 memo, cfg>>

MountFstab(o) ==
  /\ At(o, "fstab")
  /\ \/ exists /\ Remount("fstab") /\ Goto(o, "attach") /\ UNCHANGED history
     \/ (IF exists THEN RemountPart("fstab") ELSE UNCHANGED mounts) /\ Raise(o)
  /\ UNCHANGED <<exists, kjid, nextJid, dying, aliases, epairs, rules,
                 memo, cfg>>

\* A mutant: the rollback step is registered before jail_set().
RefusedRollsBack(o) ==
  /\ Enter(o, op[o].api, TRUE, "rollback", "prestop", None)
  /\ UNCHANGED history

\* jail_set() reports an error: JailLaunchFailed leaves start().
Refused(o) == Raise(o)

\* jail_set() with the CREATE flag fails when the name is taken.
Attach(o) ==
  /\ At(o, "attach")
  /\ \/ /\ exists /\ kjid = None /\ nextJid < MaxJid
        /\ nextJid' = nextJid + 1
        /\ kjid' = nextJid'
        /\ memo' = [memo EXCEPT ![o] = kjid']
        /\ Enter(o, op[o].api, FALSE, "up", "created", kjid')
        /\ UNCHANGED history
     \/ Refused(o) /\ UNCHANGED <<kjid, nextJid, memo>>
  /\ UNCHANGED <<exists, dying, mounts, aliases, epairs, rules, cfg>>

----------------------------------------------------------------------------
(***************************************************************************)
(* start(): the steps in the running jail.  The rollback step is           *)
(* registered, but only the failure of a service runs it.                  *)
(***************************************************************************)
Created(o) ==
  /\ At(o, "created")
  /\ \/ Goto(o, "devfs") /\ UNCHANGED history
     \/ Raise(o)
  /\ UNCHANGED <<host, memo, cfg>>

\* devfs and fdescfs are stacked on whatever is mounted there.
MountSystem(o, step, m, next) ==
  /\ At(o, step)
  /\ \/ /\ exists
        /\ mounts' = [mounts EXCEPT ![m] = @ + 1]
        /\ Goto(o, next)
        /\ UNCHANGED history
     \/ Raise(o) /\ UNCHANGED mounts
  /\ UNCHANGED <<exists, kjid, nextJid, dying, aliases, epairs, rules,
                 memo, cfg>>

MountDevfs(o) == MountSystem(o, "devfs", "dev", "fdescfs")
MountFdescfs(o) == MountSystem(o, "fdescfs", "fd", "network")

\* Network.setup() names the interfaces after jail.jid.
AddEpair(o) == epairs' = epairs \union ({memo[o]} \intersect Jids)

StartNetwork(o) ==
  /\ At(o, "network")
  /\ \/ /\ IF cfg[o] THEN AddEpair(o) /\ UNCHANGED aliases
           ELSE aliases' = TRUE /\ UNCHANGED epairs
        /\ Goto(o, "services")
        /\ UNCHANGED history
     \/ /\ IF cfg[o] THEN (AddEpair(o) \/ UNCHANGED epairs) /\ UNCHANGED aliases
           ELSE aliases' \in {aliases, TRUE} /\ UNCHANGED epairs
        /\ Raise(o)
  /\ UNCHANGED <<exists, kjid, nextJid, dying, mounts, rules,
                 memo, cfg>>

\* The start and poststart hooks, or the single command.  jexec needs the
\* jail of the object.  After the single command, and after a failure, the
\* jail is torn down: by stop(force=True), or inline for a single command.
InlineEntryKeepsAliases(o) == "remove"   \* a mutant: no alias is removed
\* A mutant: the epairs are removed first, the jail is forgotten.
InlineEntryForgetsJail(o) == IF cfg[o] THEN "vnet" ELSE "aliases"
InlineEntry(o) == IF cfg[o] THEN "remove" ELSE "aliases"

Services(o) ==
  /\ At(o, "services")
  /\ \/ /\ kjid = memo[o]
        /\ IF Inline(o) THEN Goto(o, InlineEntry(o)) ELSE Return(o, "ok")
     \/ IF Inline(o)
        THEN Enter(o, "command", FALSE, "rollback", InlineEntry(o), op[o].jid)
        ELSE Enter(o, op[o].api, TRUE, "rollback", "prestop", memo[o])
  /\ UNCHANGED <<host, memo, cfg, history>>

----------------------------------------------------------------------------
(***************************************************************************)
(* stop(), and the same teardown written out for a single command.         *)
(***************************************************************************)

\* Hooks on the host run through helpers.exec(), which raises on a non-zero
\* exit code: force has no effect on them.
Prestop(o) ==
  /\ At(o, "prestop")
  /\ \/ Goto(o, "stop") /\ UNCHANGED history
     \/ Raise(o)
  /\ UNCHANGED <<host, memo, cfg>>

\* The stop hook runs in the jail, where its exit code is examined.
StopHook(o) ==
  /\ At(o, "stop")
  /\ QueryJid(o)
  /\ \/ Goto(o, "remove") /\ UNCHANGED history
     \/ kjid # None /\ ~Forced(o) /\ Raise(o)
  /\ UNCHANGED <<host, cfg>>

\* A mutant: the teardown of a single command forgets the epairs.
AfterRemoveSkipsVnet(o) == IF Inline(o) THEN "unfstab" ELSE "aliases"

AfterRemove(o) == IF Inline(o) THEN "vnet" ELSE "aliases"

\* __destroy_jail(): jail_remove(), then a loop until the jail is neither
\* running nor dying.
RemoveJail(o) ==
  /\ At(o, "remove")
  /\ QueryJid(o)
  /\ IF kjid = None
     THEN Goto(o, AfterRemove(o)) /\ UNCHANGED <<kjid, dying, gone>>
     ELSE /\ kjid' = None
          /\ dying' = dying \union {kjid}
          /\ gone' = [gone EXCEPT ![o] = kjid]
          /\ Goto(o, "wait")
  /\ UNCHANGED <<exists, nextJid, mounts, aliases, epairs, rules,
                 cfg, aborted>>

DeadOnceForgotten(o) == memo[o] = None   \* a mutant: waits for the memo
Dead(o) == kjid = None /\ memo[o] \notin dying

WaitDead(o) ==
  /\ At(o, "wait")
  /\ Dead(o)
  /\ memo' = [memo EXCEPT ![o] = None]
  /\ Goto(o, AfterRemove(o))
  /\ UNCHANGED <<host, cfg, history>>

\* An exception in the loop becomes JailDestructionFailed, upon which
\* destroy() goes on with the deletion.
DestructionFailed(o) ==
  /\ At(o, "wait")
  /\ QueryJid(o)
  /\ IF op[o].api = "destroy" /\ op[o].via = "stop"
     THEN Goto(o, "delete") /\ Abandon(o)
     ELSE Raise(o)
  /\ UNCHANGED <<host, cfg>>

\* ifconfig fails to remove an address that is not there.
RemoveAliases(o) ==
  /\ At(o, "aliases")
  /\ IF cfg[o]
     THEN Goto(o, "poststop") /\ UNCHANGED <<aliases, history>>
     ELSE \/ /\ aliases /\ aliases' = FALSE
             /\ Goto(o, IF Inline(o) THEN "remove" ELSE "poststop")
             /\ UNCHANGED history
          \/ /\ Forced(o)
             /\ aliases' \in {aliases, FALSE}
             /\ Goto(o, "poststop")
             /\ UNCHANGED history
          \/ ~Forced(o) /\ aliases' \in {aliases, FALSE} /\ Raise(o)
  /\ UNCHANGED <<exists, kjid, nextJid, dying, mounts, epairs, rules,
                 memo, cfg>>

Poststop(o) ==
  /\ At(o, "poststop")
  /\ \/ Goto(o, "vnet") /\ UNCHANGED history
     \/ Raise(o)
  /\ UNCHANGED <<host, memo, cfg>>

\* Destroying an interface that is not there fails, forced or not.
StopVnet(o) ==
  /\ At(o, "vnet")
  /\ IF op[o].jid = None \/ ~cfg[o]
     THEN Goto(o, "unfstab") /\ UNCHANGED <<epairs, history>>
     ELSE \/ /\ op[o].jid \in epairs
             /\ epairs' = epairs \ {op[o].jid}
             /\ Goto(o, "unfstab")
             /\ UNCHANGED history
          \/ epairs' \in {epairs, epairs \ {op[o].jid}} /\ Raise(o)
  /\ UNCHANGED <<exists, kjid, nextJid, dying, mounts, aliases, rules,
                 memo, cfg>>

UnmountFstab(o) ==
  /\ At(o, "unfstab")
  /\ \/ /\ mounts' = [mounts EXCEPT !["fstab"] = 0]
        /\ Goto(o, "teardown")
        /\ UNCHANGED history
     \/ UNCHANGED mounts /\ Raise(o)
  /\ UNCHANGED <<exists, kjid, nextJid, dying, aliases, epairs, rules,
                 memo, cfg>>

\* Base directories and system mountpoints are unmounted once each.
UnstackAnything(n) == n - 1              \* a mutant: unmounts what is not mounted
UnstackNothing(n) == n                   \* a mutant: leaves devfs mounted
Unstack(n) == IF n = 0 THEN 0 ELSE n - 1

\* A mutant: the base directories stay mounted.
TornDownButBase == [m \in Mountpoints |->
                      IF m \in {"dev", "fd"} THEN Unstack(mounts[m])
                      ELSE mounts[m]]
TornDown == [m \in Mountpoints |->
               IF m = "base" /\ Basejail THEN 0
               ELSE IF m \in {"dev", "fd"} THEN Unstack(mounts[m])
               ELSE mounts[m]]

Teardown(o) ==
  /\ At(o, "teardown")
  /\ \/ mounts' = TornDown /\ Goto(o, "unlimit") /\ UNCHANGED history
     \/ /\ \E done \in SUBSET Mountpoints :
             mounts' = [m \in Mountpoints |->
                          IF m \in done THEN TornDown[m] ELSE mounts[m]]
        /\ Raise(o)
  /\ UNCHANGED <<exists, kjid, nextJid, dying, aliases, epairs, rules,
                 memo, cfg>>

ClearLimits(o) ==
  /\ At(o, "unlimit")
  /\ \/ rules' = FALSE /\ Finish(o)
     \/ UNCHANGED rules /\ IF Forced(o) THEN Finish(o) ELSE Raise(o)
  /\ UNCHANGED <<exists, kjid, nextJid, dying, mounts, aliases, epairs,
                 memo, cfg>>

\* delete_dataset_recursive(): the kernel keeps a busy file system mounted.
Busy == kjid # None \/ \E m \in Mountpoints : mounts[m] > 0

DeleteDataset(o) ==
  /\ At(o, "delete")
  /\ \/ exists /\ ~Busy /\ exists' = FALSE /\ Goto(o, "ok") /\ UNCHANGED history
     \/ UNCHANGED exists /\ Raise(o)
  /\ UNCHANGED <<kjid, nextJid, dying, mounts, aliases, epairs, rules,
                 memo, cfg>>

\* The kernel reaps a removed jail once its last process has exited.
Reap ==
  /\ \E j \in dying : dying' = dying \ {j}
  /\ UNCHANGED <<exists, kjid, nextJid, mounts, aliases, epairs, rules,
                 object, history>>

----------------------------------------------------------------------------
Call(o) ==
  \/ Open(o) \/ Create(o) \/ CallStart(o) \/ CallForkExec(o)
  \/ \E force \in BOOLEAN, api \in {"stop", "restart"} : CallStop(o, api, force)
  \/ \E force, forceStop \in BOOLEAN : CallDestroy(o, force, forceStop)

Start(o) ==
  \/ Require(o) \/ ApplyLimits(o) \/ Prestart(o) \/ ApplyBase(o)
  \/ MountFstab(o) \/ Attach(o) \/ Created(o) \/ MountDevfs(o)
  \/ MountFdescfs(o) \/ StartNetwork(o) \/ Services(o)

Stop(o) ==
  \/ Prestop(o) \/ StopHook(o) \/ RemoveJail(o) \/ WaitDead(o)
  \/ RemoveAliases(o) \/ Poststop(o) \/ StopVnet(o) \/ UnmountFstab(o)
  \/ Teardown(o) \/ ClearLimits(o) \/ DeleteDataset(o)

Step(o) == Start(o) \/ Stop(o)

Next == \/ \E o \in Objects : Call(o) \/ Step(o) \/ DestructionFailed(o)
        \/ Reap

Spec == Init /\ [][Next]_vars

\* A consumer that called an operation exhausts its generator, so that every
\* step it can take is eventually taken; the kernel reaps removed jails.  No
\* exception is taken for granted in the loop that waits for the reaper.
FairSpec == Spec /\ WF_vars(Reap) /\ \A o \in Objects : WF_vars(Step(o))

----------------------------------------------------------------------------
(***************************************************************************)
(* Properties of one operation at a time (Exclusive).                      *)
(***************************************************************************)

\* Whatever failed before, and whichever object did it, start() runs the
\* hooks of a jail only in the jail it created, with its base directories,
\* fstab, devfs, fdescfs, network and resource limits in place.
ServicesPrepared ==
  Exclusive => \A o \in Objects : At(o, "services") =>
    /\ kjid # None /\ kjid = memo[o] /\ rules
    /\ mounts["fstab"] = 1 /\ (Basejail => mounts["base"] = 1)
    /\ mounts["dev"] > 0 /\ mounts["fd"] > 0
    /\ IF cfg[o] THEN kjid \in epairs ELSE aliases

\* devfs and fdescfs are mounted without looking whether they already are.
\* They are nevertheless stacked only by teardowns that raised after the jail
\* was removed: start() refuses a running jail, and a start() that failed
\* left its jail running for a stop() to clean up.
StacksAccounted ==
  Exclusive => \A m \in {"dev", "fd"} :
    mounts[m] <= aborted + (IF \/ kjid # None
                               \/ \E o \in Objects : gone[o] # None
                            THEN 1 ELSE 0)

Completes(o) == At(o, "unlimit") /\ op'[o].pc # "unlimit" /\ op'[o].pc # "raised"

\* A teardown that completes, as stop(), as rollback or after a single
\* command, leaves no jail, no base directory or fstab entry mounted, no more
\* devfs than earlier aborted teardowns left, and unforced no rctl rules.
TeardownComplete ==
  [][Exclusive => \A o \in Objects : Completes(o) =>
       /\ kjid' = None
       /\ mounts'["base"] = 0 /\ mounts'["fstab"] = 0
       /\ \A m \in {"dev", "fd"} : mounts'[m] <= aborted'
       /\ ~Forced(o) => ~rules']_vars

\* The epairs of a vnet jail carry its jid, which is lost with the jail: a
\* completed teardown still removes those of the jail it removed, and the
\* addresses of a jail without vnet.  Forced stops are excepted, which take
\* the memoized jid and may know none, and objects with an overridden
\* configuration.
NetworkReleased ==
  [][Exclusive /\ Overrides \subseteq {Vnet} => \A o \in Objects :
       Completes(o) /\ gone[o] # None /\ (op[o].via = "stop" => ~Forced(o)) =>
         /\ gone[o] \notin epairs'
         /\ ~Forced(o) /\ ~Vnet => ~aliases']_vars

(***************************************************************************)
(* Properties of concurrent operations.                                    *)
(***************************************************************************)

\* Two consumers that start the jail both pass require_jail_stopped.  The one
\* that loses the race in jail_set() never removes the jail of the other: a
\* jail is removed by a stop(), or by a start() that has created a jail.
LoserLeavesJail ==
  [][\A o \in Objects :
       At(o, "remove") /\ kjid # None /\ kjid' = None /\ op'[o].pc = "wait" =>
         op[o].via = "stop" \/ op[o].jid # None]_vars

(***************************************************************************)
(* Liveness.                                                               *)
(***************************************************************************)

\* Every operation ends, the busy-waiting loop of __destroy_jail included.
OperationsEnd ==
  \A o \in Objects : ~Ready(o) ~> Ready(o)

(***************************************************************************)
(* Refinement.                                                             *)
(***************************************************************************)

\* The jail as its callers see it: a running operation is the call they wait
\* for, its steps are not visible.
Caller(o) == IF Ready(o) THEN op[o].pc ELSE op[o].api

Service == INSTANCE JailService WITH
             present <- exists,
             running <- kjid # None,
             caller <- [o \in Objects |-> Caller(o)]

\* Whatever fails on the way, a start() that returns has a running jail, a
\* stop() and a single command leave none, the rollback of a failed start()
\* that completes has stopped the jail again, and only destroy() deletes the
\* jail, never a running one.
ServiceProvided == Service!ServiceSpec
=============================================================================
