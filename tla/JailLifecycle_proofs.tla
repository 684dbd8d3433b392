----------------------- MODULE JailLifecycle_proofs -----------------------
(***************************************************************************)
(* Proofs about JailLifecycle, for any set of objects, any number of jids  *)
(* and any configuration: what holds when several objects race for the     *)
(* jail, what holds when their operations run one at a time, and that      *)
(* JailLifecycle implements JailService in either case.                    *)
(***************************************************************************)
EXTENDS JailLifecycle, TLAPS

PCs == Resting \union Steps

\* The steps of start() in the jail it has created.
InJail == {"created", "devfs", "fdescfs", "network", "services"}

\* start() has memoized the jid of the jail it created.
Attached(o) ==
  op[o].pc \in InJail => op[o].jid # None /\ memo[o] = op[o].jid

\* Only a stop() tears down a jail that the operation has not created.
OwnTeardown(o) ==
  op[o].pc \in StopSteps => op[o].via = "stop" \/ op[o].jid # None

RaceInv == TypeOK /\ \A o \in Objects : Attached(o) /\ OwnTeardown(o)

(***************************************************************************)
(* What the control operators do to the operation of one object.           *)
(***************************************************************************)

LEMMA GotoOp ==
  ASSUME op \in [Objects -> Operations], NEW o \in Objects,
         NEW step \in PCs, Goto(o, step)
  PROVE  /\ op' \in [Objects -> Operations]
         /\ op'[o].pc = step /\ op'[o].api = op[o].api
         /\ op'[o].force = op[o].force /\ op'[o].via = op[o].via
         /\ op'[o].jid = op[o].jid
         /\ \A p \in Objects \ {o} : op'[p] = op[p]
  BY DEF Goto, Operations, PCs

LEMMA RestOp ==
  ASSUME NEW outcome \in Resting
  PROVE  Rest(outcome) \in Operations
  BY DEF Rest, Operations, Resting, Apis

LEMMA ReturnOp ==
  ASSUME op \in [Objects -> Operations], NEW o \in Objects,
         NEW outcome \in Resting, Return(o, outcome)
  PROVE  /\ op' \in [Objects -> Operations]
         /\ op'[o].pc = outcome /\ op'[o] = Rest(outcome)
         /\ \A p \in Objects \ {o} : op'[p] = op[p]
  BY RestOp DEF Return, Rest

LEMMA EnterOp ==
  ASSUME op \in [Objects -> Operations], NEW o \in Objects,
         NEW api \in Apis, NEW force \in BOOLEAN,
         NEW via \in {"up", "stop", "rollback"}, NEW step \in PCs,
         NEW jid \in Jids \union {None}, Enter(o, api, force, via, step, jid)
  PROVE  /\ op' \in [Objects -> Operations]
         /\ op'[o] = [pc |-> step, api |-> api, force |-> force,
                      via |-> via, jid |-> jid]
         /\ \A p \in Objects \ {o} : op'[p] = op[p]
  BY DEF Enter, Operations, PCs

----------------------------------------------------------------------------
(***************************************************************************)
(* Type correctness.                                                       *)
(***************************************************************************)

LEMMA RaiseType ==
  ASSUME TypeOK, NEW o \in Objects, Raise(o)
  PROVE  /\ op' \in [Objects -> Operations]
         /\ gone' \in [Objects -> Jids \union {None}]
         /\ aborted' \in Nat
  BY ReturnOp DEF Raise, Abandon, TypeOK, Resting

LEMMA GotoType ==
  ASSUME TypeOK, NEW o \in Objects, NEW step \in Steps \union Resting,
         Goto(o, step)
  PROVE  op' \in [Objects -> Operations]
  BY GotoOp DEF TypeOK, PCs

LEMMA FinishType ==
  ASSUME TypeOK, NEW o \in Objects, Finish(o)
  PROVE  /\ op' \in [Objects -> Operations]
         /\ gone' \in [Objects -> Jids \union {None}]
         /\ aborted' \in Nat
<1>1. op' \in [Objects -> Operations]
  BY ReturnOp, GotoType, Zenon DEF Finish, Resting, Steps, TypeOK
<1> QED BY <1>1 DEF Finish, TypeOK

LEMMA CallType ==
  ASSUME TypeOK, NEW o \in Objects, Call(o)
  PROVE  TypeOK'
<1>1. CASE Open(o)
  BY <1>1, ConfigAssumption, ReturnOp DEF Open, TypeOK, Resting, host, history
<1>2. CASE Create(o)
  BY <1>2, ReturnOp DEF Create, TypeOK, Resting, host, history
<1>3. CASE CallStart(o)
  BY <1>3, EnterOp DEF CallStart, TypeOK, PCs, Steps, Apis, host, history
<1>4. CASE CallForkExec(o)
  <2>1. op' \in [Objects -> Operations]
    BY <1>4, EnterOp, ReturnOp DEF CallForkExec, TypeOK, PCs, Steps, Apis, Resting
  <2>2. cfg' \in [Objects -> BOOLEAN]
    BY <1>4, ConfigAssumption DEF CallForkExec, OverrideConfig, TypeOK
  <2>3. memo' \in [Objects -> Jids \union {None, Unknown}]
    BY <1>4 DEF CallForkExec, QueryJid, TypeOK
  <2> QED BY <1>4, <2>1, <2>2, <2>3 DEF CallForkExec, TypeOK, host, history
<1>5. ASSUME NEW force \in BOOLEAN, NEW api \in {"stop", "restart"},
             CallStop(o, api, force)
      PROVE  TypeOK'
  <2> DEFINE jid == IF force THEN JidOf(o) ELSE kjid
  <2>1. jid \in Jids \union {None}
    BY DEF JidOf, TypeOK
  <2> HIDE DEF jid
  <2>2. CASE force \/ (exists /\ kjid # None)
    <3>1. Enter(o, api, force, "stop", "prestop", jid)
      BY <1>5, <2>2 DEF CallStop, jid
    <3>2. op' \in [Objects -> Operations]
      <4>1. api \in Apis /\ "prestop" \in PCs
        BY <1>5 DEF Apis, PCs, Steps, StopSteps
      <4> QED BY <3>1, <2>1, <1>5, <4>1, EnterOp DEF TypeOK
    <3>3. memo' = [memo EXCEPT ![o] = jid]
      BY <1>5, <2>2 DEF CallStop, jid
    <3> QED BY <1>5, <2>1, <3>2, <3>3 DEF CallStop, TypeOK, host, history
  <2>3. CASE ~(force \/ (exists /\ kjid # None))
    BY <1>5, <2>3, ReturnOp
       DEF CallStop, QueryJid, TypeOK, Resting, host, history
  <2> QED BY <2>2, <2>3
<1>6. ASSUME NEW force \in BOOLEAN, NEW forceStop \in BOOLEAN,
             CallDestroy(o, force, forceStop)
      PROVE  TypeOK'
  BY <1>6, EnterOp, ReturnOp
     DEF CallDestroy, QueryJid, TypeOK, PCs, Steps, StopSteps, Apis,
         Resting, host, history
<1> QED BY <1>1, <1>2, <1>3, <1>4, <1>5, <1>6 DEF Call

LEMMA StartType ==
  ASSUME TypeOK, NEW o \in Objects, Attached(o), Start(o)
  PROVE  TypeOK'
<1> USE GotoType, RaiseType DEF Steps, StartSteps, StopSteps
<1>1. CASE Require(o)
  <2>1. op' \in [Objects -> Operations]
    BY <1>1, EnterOp, ReturnOp, op[o].api \in Apis
       DEF Require, TypeOK, PCs, Resting, Operations
  <2> QED BY <1>1, <2>1 DEF Require, QueryJid, TypeOK, host, history
<1>2. CASE ApplyLimits(o)
  BY <1>2 DEF ApplyLimits, TypeOK, history
<1>3. CASE Prestart(o)
  BY <1>3 DEF Prestart, TypeOK, host, history
<1>4. ASSUME NEW m \in Mountpoints, RemountPart(m) \/ Remount(m)
      PROVE  mounts' \in [Mountpoints -> Nat]
  BY <1>4 DEF RemountPart, Remount, TypeOK
<1>5. {"base", "fstab", "dev", "fd"} = Mountpoints
  BY DEF Mountpoints
<1>6. CASE ApplyBase(o)
  BY <1>4, <1>5, <1>6 DEF ApplyBase, TypeOK, history
<1>7. CASE MountFstab(o)
  BY <1>4, <1>5, <1>7 DEF MountFstab, TypeOK, history
<1>8. CASE Attach(o)
  <2>1. CASE Raise(o) /\ UNCHANGED <<kjid, nextJid, memo>>
    BY <1>8, <2>1 DEF Attach, Refused, TypeOK
  <2>2. CASE ~(Raise(o) /\ UNCHANGED <<kjid, nextJid, memo>>)
    <3>1. nextJid' \in 0 .. MaxJid /\ kjid' \in Jids
      <4>1. nextJid' = nextJid + 1 /\ kjid' = nextJid' /\ nextJid < MaxJid
        BY <1>8, <2>2 DEF Attach, Refused
      <4>2. nextJid \in 0 .. MaxJid
        BY DEF TypeOK
      <4> QED BY ONLY <4>1, <4>2, BoundAssumption DEF Jids
    <3>2. op[o].api \in Apis /\ "created" \in PCs
      BY DEF TypeOK, Operations, PCs
    <3>3. op' \in [Objects -> Operations]
      BY <1>8, <2>2, <3>1, <3>2, EnterOp DEF Attach, Refused, TypeOK
    <3> QED BY <1>8, <2>2, <3>1, <3>3 DEF Attach, Refused, TypeOK, history
  <2> QED BY <2>1, <2>2
<1>9. CASE Created(o)
  BY <1>9 DEF Created, TypeOK, host, history
<1>10. ASSUME NEW m \in Mountpoints, NEW step, NEW next \in Steps,
              MountSystem(o, step, m, next)
       PROVE  TypeOK'
  <2>1. mounts' \in [Mountpoints -> Nat]
    BY <1>10 DEF MountSystem, TypeOK
  <2> QED BY <1>10, <2>1 DEF MountSystem, TypeOK, history
<1>11. CASE MountDevfs(o)
  BY <1>5, <1>10, <1>11 DEF MountDevfs
<1>12. CASE MountFdescfs(o)
  BY <1>5, <1>10, <1>12 DEF MountFdescfs
<1>13. CASE StartNetwork(o)
  <2>1. epairs' \subseteq Jids /\ aliases' \in BOOLEAN
    BY <1>13 DEF StartNetwork, AddEpair, TypeOK
  <2>2. /\ op' \in [Objects -> Operations]
        /\ gone' \in [Objects -> Jids \union {None}]
        /\ aborted' \in Nat
    BY <1>13 DEF StartNetwork, TypeOK, history
  <2> QED BY <1>13, <2>1, <2>2 DEF StartNetwork, TypeOK
<1>14. CASE Services(o)
  <2>1. /\ op[o].api \in Apis /\ op[o].jid \in Jids \union {None}
        /\ "prestop" \in PCs /\ InlineEntry(o) \in Steps \intersect PCs
    BY DEF TypeOK, Operations, PCs, InlineEntry
  <2>2. memo[o] \in Jids \union {None}
    BY <1>14, <2>1 DEF Services, At, Attached, InJail
  <2>3. "command" \in Apis
    BY DEF Apis
  <2>4. op' \in [Objects -> Operations]
    BY <1>14, <2>1, <2>2, <2>3, EnterOp, ReturnOp
       DEF Services, TypeOK, Resting
  <2> QED BY <1>14, <2>4 DEF Services, TypeOK, host, history
<1> QED
  BY <1>1, <1>2, <1>3, <1>6, <1>7, <1>8, <1>9, <1>11, <1>12, <1>13, <1>14
     DEF Start

LEMMA StopType ==
  ASSUME TypeOK, NEW o \in Objects, Stop(o) \/ DestructionFailed(o)
  PROVE  TypeOK'
<1> USE GotoType, RaiseType, FinishType DEF Steps, StartSteps, StopSteps
<1>1. CASE Prestop(o)
  BY <1>1 DEF Prestop, TypeOK, host, history
<1>2. CASE StopHook(o)
  BY <1>2 DEF StopHook, QueryJid, TypeOK, host, history
<1>3. AfterRemove(o) \in Steps
  BY DEF AfterRemove
<1>4. CASE RemoveJail(o)
  BY <1>3, <1>4 DEF RemoveJail, QueryJid, TypeOK
<1>5. CASE WaitDead(o)
  BY <1>3, <1>5 DEF WaitDead, Dead, TypeOK, host, history
<1>6. CASE DestructionFailed(o)
  BY <1>6 DEF DestructionFailed, Abandon, QueryJid, TypeOK, host
<1>7. CASE RemoveAliases(o)
  BY <1>7 DEF RemoveAliases, TypeOK, history
<1>8. CASE Poststop(o)
  BY <1>8 DEF Poststop, TypeOK, host, history
<1>9. CASE StopVnet(o)
  BY <1>9 DEF StopVnet, TypeOK, history
<1>10. CASE UnmountFstab(o)
  BY <1>10 DEF UnmountFstab, TypeOK, history
<1>11. CASE Teardown(o)
  <2>1. TornDown \in [Mountpoints -> Nat]
    BY DEF TornDown, Unstack, TypeOK
  <2>2. mounts' \in [Mountpoints -> Nat]
    BY <1>11, <2>1 DEF Teardown, TypeOK
  <2> QED BY <1>11, <2>2 DEF Teardown, TypeOK, history
<1>12. CASE ClearLimits(o)
  BY <1>12 DEF ClearLimits, TypeOK
<1>13. CASE DeleteDataset(o)
  BY <1>13 DEF DeleteDataset, TypeOK, Resting, history
<1> QED
  BY <1>1, <1>2, <1>4, <1>5, <1>6, <1>7, <1>8, <1>9, <1>10, <1>11, <1>12,
     <1>13 DEF Stop

LEMMA StepType ==
  ASSUME RaceInv, [Next]_vars
  PROVE  TypeOK'
<1>1. CASE UNCHANGED vars
  BY <1>1 DEF vars, host, object, history, TypeOK, RaceInv
<1>2. CASE Reap
  BY <1>2 DEF Reap, object, history, TypeOK, RaceInv
<1> QED BY <1>1, <1>2, CallType, StartType, StopType DEF Next, Step, RaceInv

----------------------------------------------------------------------------
(***************************************************************************)
(* A step of one object changes nothing of another object.                 *)
(***************************************************************************)

Own(o) == <<op[o], memo[o], cfg[o], gone[o]>>

LEMMA ControlFrame ==
  ASSUME TypeOK, NEW o \in Objects, NEW p \in Objects \ {o}
  PROVE  /\ \A step : Goto(o, step) => op'[p] = op[p]
         /\ \A outcome : Return(o, outcome) => op'[p] = op[p]
         /\ \A api, force, via, step, jid :
              Enter(o, api, force, via, step, jid) => op'[p] = op[p]
         /\ Abandon(o) => gone'[p] = gone[p]
         /\ QueryJid(o) => memo'[p] = memo[p]
         /\ \A vnet : OverrideConfig(o, vnet) => cfg'[p] = cfg[p]
  BY DEF Goto, Return, Enter, Abandon, QueryJid, OverrideConfig, TypeOK

LEMMA Frame ==
  ASSUME TypeOK, NEW o \in Objects, NEW p \in Objects \ {o},
         Call(o) \/ Step(o) \/ DestructionFailed(o)
  PROVE  Own(p)' = Own(p)
<1> USE ControlFrame DEF Own, history, object, host
<1>1. Raise(o) => op'[p] = op[p] /\ gone'[p] = gone[p]
  BY DEF Raise
<1>2. Finish(o) => op'[p] = op[p] /\ gone'[p] = gone[p]
  BY DEF Finish, TypeOK
<1>3. CASE Open(o)
  BY <1>3 DEF Open, TypeOK
<1>4. CASE Create(o)
  BY <1>4 DEF Create
<1>5. CASE CallStart(o)
  BY <1>5 DEF CallStart
<1>6. CASE CallForkExec(o)
  BY <1>6 DEF CallForkExec
<1>7. ASSUME NEW force \in BOOLEAN, NEW api \in {"stop", "restart"},
             CallStop(o, api, force)
      PROVE  Own(p)' = Own(p)
  BY <1>7 DEF CallStop, TypeOK
<1>8. ASSUME NEW force \in BOOLEAN, NEW forceStop \in BOOLEAN,
             CallDestroy(o, force, forceStop)
      PROVE  Own(p)' = Own(p)
  BY <1>8 DEF CallDestroy
<1>9. CASE Start(o)
  BY <1>1, <1>9
     DEF Start, Require, ApplyLimits, Prestart, ApplyBase, MountFstab,
         Attach, Refused, Created, MountDevfs, MountFdescfs, MountSystem,
         StartNetwork, Services, TypeOK
<1>10. CASE Stop(o)
  BY <1>1, <1>2, <1>10
     DEF Stop, Prestop, StopHook, RemoveJail, WaitDead, RemoveAliases,
         Poststop, StopVnet, UnmountFstab, Teardown, ClearLimits,
         DeleteDataset, TypeOK
<1>11. CASE DestructionFailed(o)
  BY <1>1, <1>11 DEF DestructionFailed
<1> QED
  BY <1>3, <1>4, <1>5, <1>6, <1>7, <1>8, <1>9, <1>10, <1>11 DEF Call, Step

----------------------------------------------------------------------------
(***************************************************************************)
(* The loser of a race leaves the jail of the winner alone.                *)
(***************************************************************************)

LEMMA ControlOp ==
  ASSUME TypeOK, NEW o \in Objects
  PROVE  /\ \A step : Goto(o, step) =>
              /\ op'[o].pc = step /\ op'[o].via = op[o].via
              /\ op'[o].jid = op[o].jid /\ op'[o].api = op[o].api
              /\ op'[o].force = op[o].force
         /\ \A outcome : Return(o, outcome) =>
              /\ op'[o].pc = outcome /\ op'[o].api = "none"
              /\ ~op'[o].force /\ op'[o].via = "up" /\ op'[o].jid = None
         /\ \A api, force, via, step, jid :
              Enter(o, api, force, via, step, jid) =>
                /\ op'[o].pc = step /\ op'[o].via = via /\ op'[o].jid = jid
                /\ op'[o].api = api /\ op'[o].force = force
         /\ Raise(o) => op'[o].pc = "raised"
         /\ Finish(o) => op'[o].pc \in Resting \union {"delete", "require"}
<1>1. \A step : Goto(o, step) =>
        /\ op'[o].pc = step /\ op'[o].via = op[o].via
        /\ op'[o].jid = op[o].jid /\ op'[o].api = op[o].api
        /\ op'[o].force = op[o].force
  BY DEF Goto, TypeOK, Operations
<1>2. \A outcome : Return(o, outcome) =>
        /\ op'[o].pc = outcome /\ op'[o].api = "none"
        /\ ~op'[o].force /\ op'[o].via = "up" /\ op'[o].jid = None
  BY DEF Return, Rest, TypeOK
<1>3. \A api, force, via, step, jid :
        Enter(o, api, force, via, step, jid) =>
          /\ op'[o].pc = step /\ op'[o].via = via /\ op'[o].jid = jid
          /\ op'[o].api = api /\ op'[o].force = force
  BY DEF Enter, TypeOK
<1>4. Raise(o) => op'[o].pc = "raised"
  BY <1>2 DEF Raise
<1>5. Finish(o) => op'[o].pc \in Resting \union {"delete", "require"}
  BY <1>1, <1>2 DEF Finish, Resting
<1> QED BY <1>1, <1>2, <1>3, <1>4, <1>5

LEMMA CallRace ==
  ASSUME TypeOK, NEW o \in Objects, Call(o)
  PROVE  Attached(o)' /\ OwnTeardown(o)'
<1> USE ControlOp
    DEF Attached, OwnTeardown, InJail, StopSteps, PCs, Steps, Resting, Apis
<1>1. CASE Open(o)
  BY <1>1 DEF Open, TypeOK
<1>2. CASE Create(o)
  BY <1>2 DEF Create, TypeOK
<1>3. CASE CallStart(o)
  BY <1>3 DEF CallStart, Enter, TypeOK
<1>4. CASE CallForkExec(o)
  BY <1>4 DEF CallForkExec, Enter, TypeOK
<1>5. ASSUME NEW force \in BOOLEAN, NEW api \in {"stop", "restart"},
             CallStop(o, api, force)
      PROVE  Attached(o)' /\ OwnTeardown(o)'
  <2>1. JidOf(o) \in Jids \union {None} /\ kjid \in Jids \union {None}
    BY DEF JidOf, TypeOK
  <2>2. \/ Enter(o, api, force, "stop", "prestop", JidOf(o))
        \/ Enter(o, api, force, "stop", "prestop", kjid)
        \/ Return(o, "raised")
    BY <1>5 DEF CallStop
  <2> QED BY <1>5, <2>1, <2>2 DEF TypeOK
<1>6. ASSUME NEW force \in BOOLEAN, NEW forceStop \in BOOLEAN,
             CallDestroy(o, force, forceStop)
      PROVE  Attached(o)' /\ OwnTeardown(o)'
  BY <1>6 DEF CallDestroy, Enter, TypeOK
<1> QED BY <1>1, <1>2, <1>3, <1>4, <1>5, <1>6 DEF Call

LEMMA StartRace ==
  ASSUME TypeOK, NEW o \in Objects, Attached(o), Start(o)
  PROVE  Attached(o)' /\ OwnTeardown(o)'
<1> USE ControlOp
    DEF Attached, OwnTeardown, InJail, StopSteps, PCs, Steps, StartSteps, At
<1>1. CASE Require(o)
  BY <1>1 DEF Require, Enter, TypeOK
<1>2. CASE ApplyLimits(o)
  <2>1. Goto(o, "prestart") \/ Raise(o)
    BY <1>2, Zenon DEF ApplyLimits
  <2> QED BY <2>1
<1>3. CASE Prestart(o)
  BY <1>3 DEF Prestart, TypeOK
<1>4. CASE ApplyBase(o)
  BY <1>4 DEF ApplyBase, TypeOK
<1>5. CASE MountFstab(o)
  BY <1>5 DEF MountFstab, TypeOK
<1>6. CASE Attach(o)
  <2>1. \/ Raise(o)
        \/ /\ nextJid' = nextJid + 1 /\ kjid' = nextJid'
           /\ memo' = [memo EXCEPT ![o] = kjid']
           /\ Enter(o, op[o].api, FALSE, "up", "created", kjid')
    BY <1>6 DEF Attach, Refused
  <2>2. nextJid + 1 # None
    BY DEF TypeOK, None
  <2> QED BY <2>1, <2>2 DEF Enter, TypeOK
<1>7. CASE Created(o)
  BY <1>7 DEF Created, TypeOK
<1>8. CASE MountDevfs(o)
  BY <1>8 DEF MountDevfs, MountSystem, TypeOK
<1>9. CASE MountFdescfs(o)
  BY <1>9 DEF MountFdescfs, MountSystem, TypeOK
<1>10. CASE StartNetwork(o)
  BY <1>10 DEF StartNetwork, TypeOK
<1>11. CASE Services(o)
  BY <1>11 DEF Services, Enter, InlineEntry, TypeOK
<1> QED
  BY <1>1, <1>2, <1>3, <1>4, <1>5, <1>6, <1>7, <1>8, <1>9, <1>10, <1>11
     DEF Start

LEMMA StopRace ==
  ASSUME TypeOK, NEW o \in Objects, OwnTeardown(o),
         Stop(o) \/ DestructionFailed(o)
  PROVE  Attached(o)' /\ OwnTeardown(o)'
<1> USE ControlOp
    DEF Attached, OwnTeardown, InJail, StopSteps, PCs, Steps, Resting, At
<1>1. CASE Prestop(o)
  BY <1>1 DEF Prestop, TypeOK
<1>2. CASE StopHook(o)
  BY <1>2 DEF StopHook, TypeOK
<1>3. CASE RemoveJail(o)
  BY <1>3 DEF RemoveJail, AfterRemove, TypeOK
<1>4. CASE WaitDead(o)
  BY <1>4 DEF WaitDead, Dead, AfterRemove, TypeOK
<1>5. CASE DestructionFailed(o)
  BY <1>5 DEF DestructionFailed, TypeOK
<1>6. CASE RemoveAliases(o)
  <2>1. Goto(o, "poststop") \/ Goto(o, "remove") \/ Raise(o)
    BY <1>6 DEF RemoveAliases
  <2> QED BY <1>6, <2>1 DEF RemoveAliases
<1>7. CASE Poststop(o)
  BY <1>7 DEF Poststop, TypeOK
<1>8. CASE StopVnet(o)
  BY <1>8 DEF StopVnet, TypeOK
<1>9. CASE UnmountFstab(o)
  BY <1>9 DEF UnmountFstab, TypeOK
<1>10. CASE Teardown(o)
  BY <1>10 DEF Teardown, TypeOK
<1>11. CASE ClearLimits(o)
  BY <1>11 DEF ClearLimits, TypeOK
<1>12. CASE DeleteDataset(o)
  BY <1>12 DEF DeleteDataset, TypeOK
<1> QED
  BY <1>1, <1>2, <1>3, <1>4, <1>5, <1>6, <1>7, <1>8, <1>9, <1>10, <1>11,
     <1>12 DEF Stop

LEMMA RaceStep ==
  ASSUME RaceInv, [Next]_vars
  PROVE  RaceInv'
<1>1. TypeOK'
  BY StepType
<1> SUFFICES ASSUME NEW o \in Objects
             PROVE  Attached(o)' /\ OwnTeardown(o)'
  BY <1>1 DEF RaceInv
<1>2. TypeOK /\ Attached(o) /\ OwnTeardown(o)
  BY DEF RaceInv
<1>3. CASE UNCHANGED <<op, memo>>
  BY <1>2, <1>3 DEF Attached, OwnTeardown
<1>4. CASE UNCHANGED vars
  BY <1>3, <1>4 DEF vars, object
<1>5. CASE Reap
  BY <1>3, <1>5 DEF Reap, object
<1>6. CASE Call(o) \/ Step(o) \/ DestructionFailed(o)
  BY <1>2, <1>6, CallRace, StartRace, StopRace DEF Step
<1>7. ASSUME NEW p \in Objects \ {o},
             Call(p) \/ Step(p) \/ DestructionFailed(p)
      PROVE  Attached(o)' /\ OwnTeardown(o)'
  <2>1. Own(o)' = Own(o)
    BY <1>2, <1>7, Frame
  <2> QED BY <1>2, <2>1 DEF Own, Attached, OwnTeardown
<1> QED BY <1>4, <1>5, <1>6, <1>7 DEF Next

LEMMA RaceInit ==
  ASSUME Init
  PROVE  RaceInv
<1>1. 0 \in 0 .. MaxJid
  BY BoundAssumption
<1>2. TypeOK
  BY <1>1, RestOp, ConfigAssumption DEF Init, TypeOK, Resting
<1>3. \A o \in Objects : op[o].pc = "idle"
  BY DEF Init, Rest
<1> QED BY <1>2, <1>3 DEF RaceInv, Attached, OwnTeardown, InJail, StopSteps

\* The memoized jids, the variables of the generators and the state of the
\* host have their types, and every operation knows the jid of the jail it
\* runs services in or rolls back: this is inductive.
THEOREM RaceInvariant == Spec => []RaceInv
  BY RaceInit, RaceStep, PTL DEF Spec

\* Every variable has its type.
THEOREM TypeCorrect == Spec => []TypeOK
<1>1. RaceInv => TypeOK
  BY DEF RaceInv
<1> QED BY <1>1, RaceInvariant, PTL

\* However many consumers start, stop and destroy the jail at once, a jail
\* is removed only by a stop(), or by a start() that has created a jail:
\* start() never rolls back what jail_set() refused to create.
THEOREM LoserSafe == Spec => LoserLeavesJail
<1> DEFINE Removal(o) ==
      At(o, "remove") /\ kjid # None /\ kjid' = None /\ op'[o].pc = "wait" =>
        op[o].via = "stop" \/ op[o].jid # None
<1>1. RaceInv => \A o \in Objects : Removal(o)
  BY DEF RaceInv, OwnTeardown, At, StopSteps
<1>2. RaceInv /\ [Next]_vars => [\A o \in Objects : Removal(o)]_vars
  BY <1>1
<1> QED BY <1>2, RaceInvariant, PTL DEF Spec, LoserLeavesJail

----------------------------------------------------------------------------
(***************************************************************************)
(* Operations that run one at a time.                                      *)
(***************************************************************************)

Alone == \A o, p \in Objects : ~Ready(o) /\ ~Ready(p) => o = p

\* Between two operations nothing is under way.
Settled(o) ==
  /\ op[o].pc \in Resting \union StartSteps \union {"require", "delete"} =>
       gone[o] = None
  /\ Inline(o) => ~Forced(o)

\* What the steps of start() have done so far.
Prepared(o) ==
  /\ op[o].pc \in InJail => kjid # None /\ kjid = memo[o]
  /\ op[o].pc = "base" => Basejail
  /\ op[o].pc \in {"prestart", "base", "fstab", "attach"} \union InJail => rules
  /\ op[o].pc \in {"attach"} \union InJail => mounts["fstab"] = 1
  /\ Basejail /\ op[o].pc \in {"fstab", "attach"} \union InJail =>
       mounts["base"] = 1
  /\ op[o].pc \in {"fdescfs", "network", "services"} => mounts["dev"] > 0
  /\ op[o].pc \in {"network", "services"} => mounts["fd"] > 0
  /\ op[o].pc = "services" => IF cfg[o] THEN kjid \in epairs ELSE aliases

\* devfs and fdescfs are mounted once by a start and unmounted once by a stop.
Accounted(o) ==
  /\ op[o].pc \in {"created", "devfs", "unlimit"} => mounts["dev"] <= aborted
  /\ op[o].pc \in {"created", "devfs", "fdescfs", "unlimit"} =>
       mounts["fd"] <= aborted

\* What the steps of a teardown have done so far.
TearingDown(o) ==
  /\ op[o].pc \in {"prestop", "stop"} => ~Inline(o)
  /\ op[o].pc \in {"wait", "poststop", "vnet", "unfstab", "teardown", "unlimit"}
       => kjid = None
  /\ op[o].pc = "aliases" => IF Inline(o) THEN ~cfg[o] ELSE kjid = None
  /\ op[o].pc \in {"teardown", "unlimit"} => mounts["fstab"] = 0
  /\ op[o].pc = "unlimit" => mounts["base"] = 0

\* A teardown that is not a forced stop() knows the jid of the jail.
KnowsJid(o) == op[o].via = "stop" => ~Forced(o)

Releasing(o) ==
  /\ cfg[o] = Vnet
  /\ op[o].pc \in StopSteps /\ KnowsJid(o) =>
       /\ kjid # None => op[o].jid = kjid
       /\ gone[o] # None => op[o].jid = gone[o]
  /\ /\ op[o].pc \in {"unfstab", "teardown", "unlimit"}
     /\ KnowsJid(o) /\ gone[o] # None
     => gone[o] \notin epairs
  /\ /\ ~Forced(o) /\ ~Vnet
     /\ \/ op[o].pc \in {"poststop", "vnet", "unfstab", "teardown", "unlimit"}
        \/ Inline(o) /\ op[o].pc \in {"remove", "wait"}
     => ~aliases

\* When nothing else is under way, what a step of one object depends on.
BalancedAt(o) ==
  \A m \in {"dev", "fd"} :
    /\ mounts[m] <= aborted + 1
    /\ kjid = None /\ gone[o] = None => mounts[m] <= aborted

LocalInv(o) ==
  /\ Settled(o) /\ Prepared(o) /\ Accounted(o) /\ TearingDown(o)
  /\ BalancedAt(o) /\ (~Basejail => mounts["base"] = 0)

Alive == kjid # None \/ \E o \in Objects : gone[o] # None

Balanced ==
  \A m \in {"dev", "fd"} : mounts[m] <= aborted + (IF Alive THEN 1 ELSE 0)

ExclusiveInv ==
  /\ Alone
  /\ Balanced
  /\ ~Basejail => mounts["base"] = 0
  /\ \A o \in Objects :
       Settled(o) /\ Prepared(o) /\ Accounted(o) /\ TearingDown(o)

NetworkInv ==
  /\ ~Vnet => epairs = {}
  /\ \A o \in Objects : Releasing(o)

----------------------------------------------------------------------------
LEMMA RaiseLocal ==
  ASSUME TypeOK, NEW o \in Objects, Raise(o)
  PROVE  /\ op'[o].pc = "raised" /\ op'[o].api = "none" /\ gone'[o] = None
         /\ aborted' = IF gone[o] # None THEN aborted + 1 ELSE aborted
  BY ControlOp DEF Raise, Abandon, TypeOK

LEMMA FinishLocal ==
  ASSUME TypeOK, NEW o \in Objects, Finish(o)
  PROVE  /\ op'[o].pc \in Resting \union {"delete", "require"}
         /\ gone'[o] = None /\ aborted' = aborted
         /\ op'[o].api = "command" => op[o].api = "command" /\ op'[o].force = op[o].force
<1>1. gone'[o] = None /\ aborted' = aborted
  BY DEF Finish, TypeOK
<1> QED BY <1>1, ControlOp DEF Finish

\* An exception: whatever the step has undone, nothing was stacked.
LEMMA RaiseKeeps ==
  ASSUME TypeOK, TypeOK', NEW o \in Objects, LocalInv(o), Raise(o), kjid' = kjid,
         \A m \in {"dev", "fd"} : mounts'[m] <= mounts[m],
         ~Basejail => mounts'["base"] = 0
  PROVE  LocalInv(o)'
<1>1. /\ op'[o].pc = "raised" /\ op'[o].api = "none" /\ gone'[o] = None
      /\ aborted' = IF gone[o] # None THEN aborted + 1 ELSE aborted
  BY RaiseLocal
<1>2. Settled(o)'
  BY <1>1 DEF Settled, Inline
<1>3. Prepared(o)' /\ Accounted(o)' /\ TearingDown(o)'
  BY <1>1 DEF Prepared, Accounted, TearingDown, InJail
<1>4. BalancedAt(o)'
  <2> SUFFICES ASSUME NEW m \in {"dev", "fd"}
               PROVE  /\ mounts'[m] <= aborted' + 1
                      /\ kjid' = None => mounts'[m] <= aborted'
    BY DEF BalancedAt
  <2>1. mounts[m] \in Nat /\ mounts'[m] \in Nat /\ aborted \in Nat
    BY DEF TypeOK, Mountpoints
  <2>2. /\ mounts[m] <= aborted + 1
        /\ kjid = None /\ gone[o] = None => mounts[m] <= aborted
    BY DEF LocalInv, BalancedAt
  <2> QED BY <1>1, <2>1, <2>2
<1> QED BY <1>2, <1>3, <1>4 DEF LocalInv

LEMMA Unchanged ==
  ASSUME TypeOK, UNCHANGED mounts, NEW o \in Objects, LocalInv(o)
  PROVE  /\ \A m \in {"dev", "fd"} : mounts'[m] <= mounts[m]
         /\ ~Basejail => mounts'["base"] = 0
  BY DEF TypeOK, Mountpoints, LocalInv

LEMMA StartLocal ==
  ASSUME TypeOK, TypeOK', NEW o \in Objects, LocalInv(o), Start(o)
  PROVE  LocalInv(o)'
<1> USE ControlOp, RaiseLocal
    DEF LocalInv, Settled, Prepared, Accounted, TearingDown, BalancedAt,
        At, Inline, Forced, InJail, Resting, StartSteps
<1>1. CASE Require(o)
  BY <1>1 DEF Require, Enter, TypeOK, host, history
<1>2. CASE ApplyLimits(o)
  <2>1. \/ rules' /\ Goto(o, "prestart") /\ UNCHANGED history
        \/ Raise(o)
    BY <1>2, Zenon DEF ApplyLimits
  <2>2. UNCHANGED <<kjid, mounts, aliases, epairs, memo, cfg>>
    BY <1>2 DEF ApplyLimits
  <2>3. CASE rules' /\ Goto(o, "prestart") /\ UNCHANGED history
    BY <1>2, <2>2, <2>3 DEF ApplyLimits, TypeOK, history
  <2>4. CASE Raise(o)
    BY <2>2, <2>4, RaiseKeeps, Unchanged
  <2> QED BY <2>1, <2>3, <2>4
<1>3. CASE Prestart(o)
  BY <1>3 DEF Prestart, TypeOK, host, history
<1>4. CASE ApplyBase(o)
  <2>1. UNCHANGED <<kjid, aliases, epairs, rules, memo, cfg>>
    BY <1>4 DEF ApplyBase
  <2>2. Mountpoints = {"base", "fstab", "dev", "fd"}
    BY DEF Mountpoints
  <2>3. CASE Remount("base") /\ Goto(o, "fstab") /\ UNCHANGED history
    <3>1. /\ mounts'["base"] = 1 /\ mounts'["fstab"] = mounts["fstab"]
          /\ mounts'["dev"] = mounts["dev"] /\ mounts'["fd"] = mounts["fd"]
      BY <2>2, <2>3 DEF Remount, TypeOK
    <3>2. op'[o].pc = "fstab" /\ gone'[o] = gone[o] /\ aborted' = aborted
      BY <2>3 DEF history
    <3>3. Settled(o)' /\ Prepared(o)' /\ Accounted(o)' /\ TearingDown(o)'
      BY <1>4, <2>1, <2>3, <3>1, <3>2 DEF ApplyBase
    <3>4. BalancedAt(o)' /\ Basejail
      BY <1>4, <2>1, <3>1, <3>2 DEF ApplyBase
    <3> QED BY <3>3, <3>4
  <2>4. CASE Raise(o) /\ (RemountPart("base") \/ UNCHANGED mounts)
    <3>1. /\ mounts'["dev"] = mounts["dev"] /\ mounts'["fd"] = mounts["fd"]
          /\ mounts["dev"] \in Nat /\ mounts["fd"] \in Nat
      BY <2>2, <2>4 DEF Remount, RemountPart, TypeOK
    <3> QED BY <1>4, <2>1, <2>4, <3>1, RaiseKeeps DEF ApplyBase
  <2> QED BY <1>4, <2>3, <2>4 DEF ApplyBase
<1>5. CASE MountFstab(o)
  BY <1>5 DEF MountFstab, Remount, RemountPart, Mountpoints, TypeOK, history
<1>6. CASE Attach(o)
  <2>1. UNCHANGED <<mounts, aliases, epairs, rules, cfg>>
    BY <1>6 DEF Attach, Refused
  <2>2. CASE Raise(o) /\ UNCHANGED <<kjid, nextJid, memo>>
    BY <2>1, <2>2, RaiseKeeps, Unchanged
  <2>3. CASE ~(Raise(o) /\ UNCHANGED <<kjid, nextJid, memo>>)
    <3>1. /\ kjid = None /\ kjid' = nextJid + 1
          /\ memo' = [memo EXCEPT ![o] = kjid']
          /\ Enter(o, op[o].api, FALSE, "up", "created", kjid')
          /\ UNCHANGED history
      BY <1>6, <2>3 DEF Attach, Refused
    <3>2. kjid' # None
      BY <3>1 DEF TypeOK, None
    <3> QED BY <1>6, <2>1, <3>1, <3>2 DEF Attach, Refused, Enter, TypeOK, history
  <2> QED BY <2>2, <2>3
<1>7. CASE Created(o)
  BY <1>7 DEF Created, TypeOK, host, history
<1>8. CASE MountDevfs(o)
  BY <1>8 DEF MountDevfs, MountSystem, Mountpoints, TypeOK, history
<1>9. CASE MountFdescfs(o)
  BY <1>9 DEF MountFdescfs, MountSystem, Mountpoints, TypeOK, history
<1>10. CASE StartNetwork(o)
  <2>1. UNCHANGED <<kjid, mounts, rules, memo, cfg>>
    BY <1>10 DEF StartNetwork
  <2>2. \/ /\ Goto(o, "services") /\ UNCHANGED history
           /\ cfg[o] => epairs' = epairs \union ({memo[o]} \intersect Jids)
           /\ ~cfg[o] => aliases'
        \/ Raise(o)
    BY <1>10, Zenon DEF StartNetwork, AddEpair
  <2>3. CASE Raise(o)
    BY <2>1, <2>3, RaiseKeeps, Unchanged
  <2>4. kjid = memo[o] /\ kjid \in Jids
    BY <1>10 DEF StartNetwork, TypeOK
  <2>5. ASSUME Goto(o, "services"), UNCHANGED history
        PROVE  LocalInv(o)' <=> (IF cfg[o] THEN kjid \in epairs' ELSE aliases')
    BY <1>10, <2>1, <2>5 DEF StartNetwork, TypeOK, history
  <2> QED BY <2>2, <2>3, <2>4, <2>5
<1>11. CASE Services(o)
  BY <1>11 DEF Services, Enter, InlineEntry, TypeOK, host, history
<1> QED
  BY <1>1, <1>2, <1>3, <1>4, <1>5, <1>6, <1>7, <1>8, <1>9, <1>10, <1>11
     DEF Start

LEMMA StopLocal ==
  ASSUME TypeOK, TypeOK', NEW o \in Objects, LocalInv(o),
         Stop(o) \/ DestructionFailed(o)
  PROVE  LocalInv(o)'
<1> USE ControlOp, RaiseLocal, FinishLocal
    DEF LocalInv, Settled, Prepared, Accounted, TearingDown, BalancedAt,
        At, Inline, Forced, InJail, Resting, StartSteps
<1>1. CASE Prestop(o)
  <2>1. CASE Raise(o)
    BY <1>1, <2>1, RaiseKeeps, Unchanged DEF Prestop, host
  <2>2. CASE ~Raise(o)
    BY <1>1, <2>2 DEF Prestop, TypeOK, host, history
  <2> QED BY <2>1, <2>2
<1>2. CASE StopHook(o)
  <2>1. CASE Raise(o)
    BY <1>2, <2>1, RaiseKeeps, Unchanged DEF StopHook, host
  <2>2. CASE ~Raise(o)
    BY <1>2, <2>2 DEF StopHook, TypeOK, host, history
  <2> QED BY <2>1, <2>2
<1>3. CASE RemoveJail(o)
  BY <1>3 DEF RemoveJail, AfterRemove, TypeOK
<1>4. CASE WaitDead(o)
  BY <1>4 DEF WaitDead, Dead, AfterRemove, TypeOK, host, history
<1>5. CASE DestructionFailed(o)
  <2>1. CASE Raise(o)
    BY <1>5, <2>1, RaiseKeeps, Unchanged DEF DestructionFailed, host
  <2>2. CASE ~Raise(o)
    <3>1. Goto(o, "delete") /\ Abandon(o) /\ UNCHANGED <<host, cfg>>
      BY <1>5, <2>2 DEF DestructionFailed
    <3>2. /\ op'[o].pc = "delete" /\ gone'[o] = None
          /\ op'[o].api = op[o].api /\ op'[o].force = op[o].force
          /\ aborted' = IF gone[o] # None THEN aborted + 1 ELSE aborted
      BY <3>1 DEF Abandon, TypeOK
    <3>3. BalancedAt(o)'
      <4> SUFFICES ASSUME NEW m \in {"dev", "fd"}
                   PROVE  /\ mounts[m] <= aborted' + 1
                          /\ kjid = None => mounts[m] <= aborted'
        BY <3>1 DEF host
      <4>1. mounts[m] \in Nat /\ aborted \in Nat
        BY DEF TypeOK, Mountpoints
      <4> QED BY <3>2, <4>1
    <3> QED BY <3>1, <3>2, <3>3 DEF host
  <2> QED BY <2>1, <2>2
<1>6. CASE RemoveAliases(o)
  <2>1. CASE Raise(o)
    BY <1>6, <2>1, RaiseKeeps, Unchanged DEF RemoveAliases, host
  <2>2. CASE ~Raise(o)
    <3>1. UNCHANGED <<kjid, mounts, epairs, rules, memo, cfg, history>>
      BY <1>6, <2>2 DEF RemoveAliases
    <3>2. \/ Goto(o, "poststop") /\ (cfg[o] \/ Forced(o))
          \/ Goto(o, IF Inline(o) THEN "remove" ELSE "poststop")
      BY <1>6, <2>2 DEF RemoveAliases
    <3>3. Goto(o, "poststop") => kjid = None
      BY <1>6, <3>2 DEF RemoveAliases
    <3>4. CASE Goto(o, "poststop")
      BY <3>1, <3>3, <3>4 DEF history
    <3>5. CASE Goto(o, "remove")
      BY <3>1, <3>5 DEF history
    <3> QED BY <3>2, <3>4, <3>5
  <2> QED BY <2>1, <2>2
<1>7. CASE Poststop(o)
  <2>1. CASE Raise(o)
    BY <1>7, <2>1, RaiseKeeps, Unchanged DEF Poststop, host
  <2>2. CASE ~Raise(o)
    BY <1>7, <2>2 DEF Poststop, TypeOK, host, history
  <2> QED BY <2>1, <2>2
<1>8. CASE StopVnet(o)
  <2>1. CASE Raise(o)
    BY <1>8, <2>1, RaiseKeeps, Unchanged DEF StopVnet, host
  <2>2. CASE ~Raise(o)
    BY <1>8, <2>2 DEF StopVnet, TypeOK, history
  <2> QED BY <2>1, <2>2
<1>9. CASE UnmountFstab(o)
  BY <1>9 DEF UnmountFstab, Mountpoints, TypeOK, history
<1>10. CASE Teardown(o)
  BY <1>10 DEF Teardown, TornDown, Unstack, Mountpoints, TypeOK, history
<1>11. CASE ClearLimits(o)
  <2>1. CASE Raise(o)
    BY <1>11, <2>1, RaiseKeeps, Unchanged DEF ClearLimits, host
  <2>2. CASE ~Raise(o)
    BY <1>11, <2>2 DEF ClearLimits, TypeOK
  <2> QED BY <2>1, <2>2
<1>12. CASE DeleteDataset(o)
  BY <1>12 DEF DeleteDataset, TypeOK, history
<1> QED
  BY <1>1, <1>2, <1>3, <1>4, <1>5, <1>6, <1>7, <1>8, <1>9, <1>10, <1>11,
     <1>12 DEF Stop

LEMMA CallLocal ==
  ASSUME TypeOK, TypeOK', NEW o \in Objects, LocalInv(o), Call(o)
  PROVE  LocalInv(o)'
<1> USE ControlOp
    DEF LocalInv, Settled, Prepared, Accounted, TearingDown, BalancedAt,
        At, Inline, Forced, InJail, Resting, StartSteps, MayCall, Ready
<1>1. CASE Open(o)
  BY <1>1 DEF Open, TypeOK, host, history
<1>2. CASE Create(o)
  BY <1>2 DEF Create, TypeOK, history
<1>3. CASE CallStart(o)
  BY <1>3 DEF CallStart, Enter, TypeOK, host, history
<1>4. CASE CallForkExec(o)
  BY <1>4 DEF CallForkExec, Enter, TypeOK, host, history
<1>5. ASSUME NEW force \in BOOLEAN, NEW api \in {"stop", "restart"},
             CallStop(o, api, force)
      PROVE  LocalInv(o)'
  BY <1>5 DEF CallStop, Enter, TypeOK, host, history
<1>6. ASSUME NEW force \in BOOLEAN, NEW forceStop \in BOOLEAN,
             CallDestroy(o, force, forceStop)
      PROVE  LocalInv(o)'
  BY <1>6 DEF CallDestroy, Enter, TypeOK, host, history
<1> QED BY <1>1, <1>2, <1>3, <1>4, <1>5, <1>6 DEF Call

----------------------------------------------------------------------------
(***************************************************************************)
(* From the object that acts to all of them.                               *)
(***************************************************************************)

Acts(o) == Call(o) \/ Step(o) \/ DestructionFailed(o)

LEMMA ActiveOrReady ==
  ASSUME NEW o \in Objects, Acts(o)
  PROVE  MayCall(o) \/ ~Ready(o)
<1>1. Call(o) => MayCall(o)
  BY DEF Call, Open, Create, CallStart, CallForkExec, CallStop, CallDestroy
<1>2. Start(o) => op[o].pc \in StartSteps \union {"require"}
  BY DEF Start, Require, ApplyLimits, Prestart, ApplyBase, MountFstab, Attach,
         Created, MountDevfs, MountFdescfs, MountSystem, StartNetwork,
         Services, At, StartSteps
<1>3. Stop(o) \/ DestructionFailed(o) => op[o].pc \in StopSteps \union {"delete"}
  BY DEF Stop, Prestop, StopHook, RemoveJail, WaitDead, RemoveAliases,
         Poststop, StopVnet, UnmountFstab, Teardown, ClearLimits,
         DeleteDataset, DestructionFailed, At, StopSteps
<1> QED
  BY <1>1, <1>2, <1>3
     DEF Acts, Step, Ready, Resting, StartSteps, StopSteps

LEMMA OthersRest ==
  ASSUME Exclusive, ExclusiveInv, NEW o \in Objects, Acts(o)
  PROVE  \A p \in Objects \ {o} : Ready(p) /\ gone[p] = None
<1>1. \A p \in Objects \ {o} : Ready(p)
  BY ActiveOrReady DEF MayCall, ExclusiveInv, Alone
<1> QED BY <1>1 DEF ExclusiveInv, Settled, Ready

LEMMA LocalOfExclusive ==
  ASSUME TypeOK, Exclusive, ExclusiveInv, NEW o \in Objects, Acts(o)
  PROVE  LocalInv(o)
<1>1. Alive <=> (kjid # None \/ gone[o] # None)
  BY OthersRest DEF Alive
<1>2. aborted \in Nat /\ \A m \in {"dev", "fd"} : mounts[m] \in Nat
  BY DEF TypeOK, Mountpoints
<1>3. BalancedAt(o)
  BY <1>1, <1>2 DEF BalancedAt, ExclusiveInv, Balanced
<1> QED BY <1>3 DEF LocalInv, ExclusiveInv

LEMMA ExclusiveStep ==
  ASSUME Exclusive, RaceInv, ExclusiveInv, [Next]_vars
  PROVE  ExclusiveInv'
<1>1. TypeOK /\ TypeOK'
  BY StepType DEF RaceInv
<1>2. CASE UNCHANGED <<kjid, mounts, aliases, epairs, rules, object, history>>
  BY <1>2
     DEF ExclusiveInv, Alone, Balanced, Alive, Ready, Settled, Prepared,
         Accounted, TearingDown, Inline, Forced, object, history
<1>3. CASE UNCHANGED vars
  BY <1>2, <1>3 DEF vars, host
<1>4. CASE Reap
  BY <1>2, <1>4 DEF Reap
<1>5. ASSUME NEW o \in Objects, Acts(o)
      PROVE  ExclusiveInv'
  <2>1. \A p \in Objects \ {o} : Ready(p) /\ gone[p] = None
    BY <1>5, OthersRest
  <2>2. \A m \in {"dev", "fd"} : mounts[m] \in Nat /\ mounts'[m] \in Nat
    BY <1>1 DEF TypeOK, Mountpoints
  <2>3. aborted \in Nat /\ aborted' \in Nat
    BY <1>1 DEF TypeOK
  <2>5. LocalInv(o)
    BY <1>1, <1>5, LocalOfExclusive
  <2>6. LocalInv(o)'
    BY <1>1, <1>5, <2>5, CallLocal, StartLocal, StopLocal DEF Acts, Step
  <2>7. \A p \in Objects \ {o} : Own(p)' = Own(p)
    BY <1>1, <1>5, Frame DEF Acts
  <2>8. \A p \in Objects \ {o} : Ready(p)' /\ gone'[p] = None
    BY <2>1, <2>7 DEF Own, Ready
  <2>9. ASSUME NEW p \in Objects \ {o}
        PROVE  Settled(p)' /\ Prepared(p)' /\ Accounted(p)' /\ TearingDown(p)'
    <3>1. Settled(p)'
      BY <2>7, <2>8 DEF Own, Settled, Inline, Forced, ExclusiveInv
    <3> QED
      BY <3>1, <2>8
         DEF Ready, Resting, Prepared, Accounted, TearingDown, InJail
  <2>10. Alone'
    BY <2>8 DEF Alone
  <2>11. Balanced'
    <3>1. Alive' <=> (kjid' # None \/ gone'[o] # None)
      BY <2>8 DEF Alive
    <3> QED BY <3>1, <2>2, <2>3, <2>6 DEF BalancedAt, LocalInv, Balanced
  <2> QED BY <2>6, <2>9, <2>10, <2>11 DEF ExclusiveInv, LocalInv
<1> QED BY <1>3, <1>4, <1>5 DEF Next, Acts

LEMMA ExclusiveInit ==
  ASSUME Init
  PROVE  ExclusiveInv
<1>1. /\ \A o \in Objects : op[o] = Rest("idle") /\ gone[o] = None
      /\ \A m \in Mountpoints : mounts[m] = 0
      /\ aborted = 0 /\ Mountpoints = {"base", "fstab", "dev", "fd"}
  BY DEF Init, Mountpoints
<1>2. \A o \in Objects : op[o].pc = "idle" /\ op[o].api = "none"
  BY DEF Init, Rest
<1> QED
  BY <1>1, <1>2
     DEF ExclusiveInv, Alone, Balanced, Ready, Resting, Settled, Prepared,
         Accounted, TearingDown, Inline, InJail

\* When operations run one at a time, what each of them has prepared, stacked
\* and torn down so far is on the host, whatever failed before: inductive.
THEOREM ExclusiveInvariant == Exclusive /\ Spec => []ExclusiveInv
<1> SUFFICES ASSUME Exclusive PROVE Spec => []ExclusiveInv
  OBVIOUS
<1>1. RaceInv /\ ExclusiveInv /\ [Next]_vars => ExclusiveInv'
  BY ExclusiveStep
<1> QED BY <1>1, ExclusiveInit, RaceInvariant, PTL DEF Spec

\* start() and fork_exec() run the hooks of a jail only in the jail they have
\* created, with everything mounted, limited and networked.
THEOREM PreparedTheorem == Spec => []ServicesPrepared
<1>1. RaceInv /\ ExclusiveInv /\ Exclusive => ServicesPrepared
  <2> SUFFICES ASSUME RaceInv, ExclusiveInv, NEW o \in Objects,
                      op[o].pc = "services"
               PROVE  /\ kjid # None /\ kjid = memo[o] /\ rules
                      /\ mounts["fstab"] = 1 /\ (Basejail => mounts["base"] = 1)
                      /\ mounts["dev"] > 0 /\ mounts["fd"] > 0
                      /\ IF cfg[o] THEN kjid \in epairs ELSE aliases
    BY DEF ServicesPrepared, At
  <2> QED BY DEF ExclusiveInv, Prepared, InJail
<1>2. ~Exclusive => ServicesPrepared
  BY DEF ServicesPrepared
<1>3. CASE Exclusive
  BY <1>1, <1>3, RaceInvariant, ExclusiveInvariant, PTL
<1>4. CASE ~Exclusive
  BY <1>2, <1>4, PTL
<1> QED BY <1>3, <1>4

\* The devfs and fdescfs mounts of a jail are accounted for: only a teardown
\* that raised after it removed the jail leaves one more of them behind.
THEOREM AccountedTheorem == Spec => []StacksAccounted
<1>1. ExclusiveInv => StacksAccounted
  BY DEF ExclusiveInv, Balanced, Alive, StacksAccounted
<1>2. ~Exclusive => StacksAccounted
  BY DEF StacksAccounted
<1>3. CASE Exclusive
  BY <1>1, <1>3, ExclusiveInvariant, PTL
<1>4. CASE ~Exclusive
  BY <1>2, <1>4, PTL
<1> QED BY <1>3, <1>4

LEMMA CompletesByClearing ==
  ASSUME RaceInv, [Next]_vars, NEW o \in Objects, Completes(o)
  PROVE  ClearLimits(o)
<1>1. TypeOK /\ op[o].pc = "unlimit" /\ op'[o] # op[o]
  BY DEF RaceInv, Completes, At
<1>2. ~ UNCHANGED vars /\ ~Reap
  BY <1>1 DEF vars, object, Reap
<1>3. ASSUME NEW p \in Objects \ {o}, Acts(p)
      PROVE  FALSE
  BY <1>1, <1>3, Frame DEF Acts, Own
<1>4. Acts(o)
  BY <1>2, <1>3 DEF Next, Acts
<1>5. ~Ready(o) /\ ~Call(o)
  BY <1>1
     DEF Ready, Resting, MayCall, Call, Open, Create, CallStart, CallForkExec,
         CallStop, CallDestroy
<1>6. ~Start(o)
  BY <1>1
     DEF Start, Require, ApplyLimits, Prestart, ApplyBase, MountFstab, Attach,
         Created, MountDevfs, MountFdescfs, MountSystem, StartNetwork,
         Services, At
<1>7. Stop(o) \/ DestructionFailed(o)
  BY <1>4, <1>5, <1>6 DEF Acts, Step
<1> QED
  BY <1>1, <1>7
     DEF Stop, Prestop, StopHook, RemoveJail, WaitDead, RemoveAliases,
         Poststop, StopVnet, UnmountFstab, Teardown, DeleteDataset,
         DestructionFailed, At

\* A teardown that completes leaves no jail, base directory, fstab entry or
\* devfs behind, and unforced no resource limits.
THEOREM TeardownTheorem == Spec => TeardownComplete
<1> DEFINE Complete(o) ==
      Completes(o) =>
        /\ kjid' = None
        /\ mounts'["base"] = 0 /\ mounts'["fstab"] = 0
        /\ \A m \in {"dev", "fd"} : mounts'[m] <= aborted'
        /\ ~Forced(o) => ~rules'
<1>1. ASSUME RaceInv, ExclusiveInv, [Next]_vars, NEW o \in Objects, Completes(o)
      PROVE  Complete(o)
  <2>1. TypeOK /\ op[o].pc = "unlimit" /\ op'[o].pc # "raised"
    BY <1>1 DEF RaceInv, Completes, At
  <2>2. ClearLimits(o)
    BY <1>1, CompletesByClearing
  <2>3. /\ kjid = None /\ mounts["base"] = 0 /\ mounts["fstab"] = 0
        /\ mounts["dev"] <= aborted /\ mounts["fd"] <= aborted
    BY <1>1, <2>1 DEF ExclusiveInv, TearingDown, Accounted
  <2>4. ~Raise(o)
    BY <2>1, RaiseLocal
  <2>5. UNCHANGED <<kjid, mounts, aborted>>
    BY <2>2, <2>4 DEF ClearLimits, Finish
  <2>6. ~Forced(o) => ~rules'
    BY <2>2, <2>4, Zenon DEF ClearLimits
  <2> QED BY <2>3, <2>5, <2>6
<1>2. RaceInv /\ ExclusiveInv /\ Exclusive /\ [Next]_vars
        => [Exclusive => \A o \in Objects : Complete(o)]_vars
  BY <1>1
<1>3. ~Exclusive => [Exclusive => \A o \in Objects : Complete(o)]_vars
  OBVIOUS
<1>4. CASE Exclusive
  BY <1>2, <1>4, RaceInvariant, ExclusiveInvariant, PTL
     DEF Spec, TeardownComplete
<1>5. CASE ~Exclusive
  BY <1>3, <1>5, PTL DEF Spec, TeardownComplete
<1> QED BY <1>4, <1>5

----------------------------------------------------------------------------
(***************************************************************************)
(* What a teardown knows of the network of the jail.                       *)
(***************************************************************************)

LocalNetwork(o) == Releasing(o) /\ (~Vnet => epairs = {})

LEMMA RaiseNetwork ==
  ASSUME TypeOK, NEW o \in Objects, LocalNetwork(o), Raise(o),
         UNCHANGED cfg, ~Vnet => epairs' = {}
  PROVE  LocalNetwork(o)'
  BY RaiseLocal DEF LocalNetwork, Releasing, Inline, StopSteps

LEMMA CallNetwork ==
  ASSUME TypeOK, TypeOK', Overrides \subseteq {Vnet}, NEW o \in Objects,
         LocalInv(o), LocalNetwork(o), Call(o)
  PROVE  LocalNetwork(o)'
<1> USE ControlOp
    DEF LocalInv, Settled, LocalNetwork, Releasing, KnowsJid, Inline, Forced,
        Resting, StopSteps, MayCall, Ready
<1>1. CASE Open(o)
  BY <1>1 DEF Open, TypeOK, host, history
<1>2. CASE Create(o)
  BY <1>2 DEF Create, TypeOK, history
<1>3. CASE CallStart(o)
  BY <1>3 DEF CallStart, Enter, TypeOK, host, history
<1>4. CASE CallForkExec(o)
  BY <1>4 DEF CallForkExec, OverrideConfig, Enter, TypeOK, host, history
<1>5. ASSUME NEW force \in BOOLEAN, NEW api \in {"stop", "restart"},
             CallStop(o, api, force)
      PROVE  LocalNetwork(o)'
  BY <1>5 DEF CallStop, Enter, TypeOK, host, history
<1>6. ASSUME NEW force \in BOOLEAN, NEW forceStop \in BOOLEAN,
             CallDestroy(o, force, forceStop)
      PROVE  LocalNetwork(o)'
  BY <1>6 DEF CallDestroy, Enter, TypeOK, host, history
<1> QED BY <1>1, <1>2, <1>3, <1>4, <1>5, <1>6 DEF Call

LEMMA StartNetworkOf ==
  ASSUME TypeOK, TypeOK', NEW o \in Objects, Attached(o), LocalInv(o),
         LocalNetwork(o), Start(o)
  PROVE  LocalNetwork(o)'
<1> USE ControlOp, RaiseLocal
    DEF LocalNetwork, Releasing, KnowsJid, Inline, Forced, At,
        StartSteps, StopSteps
<1>1. CASE Require(o)
  BY <1>1 DEF Require, Enter, TypeOK, host, history
<1>2. CASE ApplyLimits(o)
  <2>1. UNCHANGED <<kjid, epairs, aliases, cfg>>
    BY <1>2 DEF ApplyLimits
  <2>2. Goto(o, "prestart") \/ Raise(o)
    BY <1>2, Zenon DEF ApplyLimits
  <2>3. CASE Goto(o, "prestart")
    BY <2>1, <2>3
  <2> QED BY <2>1, <2>2, <2>3, RaiseNetwork
<1>3. CASE Prestart(o)
  BY <1>3 DEF Prestart, host, history
<1>4. CASE ApplyBase(o)
  BY <1>4 DEF ApplyBase
<1>5. CASE MountFstab(o)
  BY <1>5 DEF MountFstab
<1>6. CASE Attach(o)
  BY <1>6 DEF Attach, Refused, Enter, TypeOK
<1>7. CASE Created(o)
  BY <1>7 DEF Created, host
<1>8. CASE MountDevfs(o)
  BY <1>8 DEF MountDevfs, MountSystem
<1>9. CASE MountFdescfs(o)
  BY <1>9 DEF MountFdescfs, MountSystem
<1>10. CASE StartNetwork(o)
  <2>1. UNCHANGED cfg
    BY <1>10 DEF StartNetwork
  <2>2. ~Vnet => epairs' = {}
    BY <1>10 DEF StartNetwork
  <2>3. Goto(o, "services") \/ Raise(o)
    BY <1>10, Zenon DEF StartNetwork
  <2>4. CASE Goto(o, "services")
    BY <2>1, <2>2, <2>4
  <2> QED BY <2>1, <2>2, <2>3, <2>4, RaiseNetwork
<1>11. CASE Services(o)
  BY <1>11
     DEF Services, Enter, InlineEntry, Attached, LocalInv, Settled, Prepared,
         InJail, TypeOK, host, history
<1> QED
  BY <1>1, <1>2, <1>3, <1>4, <1>5, <1>6, <1>7, <1>8, <1>9, <1>10, <1>11
     DEF Start

LEMMA StopNetworkOf ==
  ASSUME TypeOK, TypeOK', NEW o \in Objects, LocalInv(o), LocalNetwork(o),
         Stop(o) \/ DestructionFailed(o)
  PROVE  LocalNetwork(o)'
<1> USE ControlOp, RaiseLocal, FinishLocal
    DEF LocalNetwork, Releasing, KnowsJid, Inline, Forced, At, StopSteps
<1>1. CASE Prestop(o)
  BY <1>1 DEF Prestop, host, history
<1>2. CASE StopHook(o)
  <2>1. CASE Raise(o)
    BY <1>2, <2>1, RaiseNetwork DEF StopHook, host
  <2>2. CASE Goto(o, "remove") /\ UNCHANGED history
    BY <1>2, <2>2 DEF StopHook, LocalInv, TearingDown, host, history
  <2> QED BY <1>2, <2>1, <2>2 DEF StopHook
<1>3. CASE RemoveJail(o)
  BY <1>3 DEF RemoveJail, AfterRemove, TypeOK
<1>4. CASE WaitDead(o)
  BY <1>4 DEF WaitDead, Dead, AfterRemove, host, history
<1>5. CASE DestructionFailed(o)
  BY <1>5 DEF DestructionFailed, Abandon, TypeOK, host
<1>6. CASE RemoveAliases(o)
  <2>1. UNCHANGED <<kjid, epairs, cfg>>
    BY <1>6 DEF RemoveAliases
  <2>2. CASE Raise(o)
    BY <2>1, <2>2, RaiseNetwork
  <2>3. CASE ~Raise(o)
    <3>1. /\ \/ Goto(o, "poststop")
             \/ Goto(o, IF Inline(o) THEN "remove" ELSE "poststop")
          /\ UNCHANGED history
      BY <1>6, <2>3 DEF RemoveAliases
    <3>2. ~Forced(o) /\ ~cfg[o] => ~aliases'
      BY <1>6, <2>3, Zenon DEF RemoveAliases
    <3>3. /\ op[o].pc = "aliases" /\ op'[o].pc \in {"poststop", "remove"}
          /\ op'[o].force = op[o].force /\ op'[o].via = op[o].via
          /\ op'[o].jid = op[o].jid /\ gone'[o] = gone[o]
      BY <1>6, <3>1 DEF RemoveAliases, history
    <3>4. ~Forced(o)' /\ ~Vnet => ~aliases'
      BY <2>1, <3>2, <3>3
    <3> QED BY <2>1, <3>3, <3>4
  <2> QED BY <2>2, <2>3
<1>7. CASE Poststop(o)
  BY <1>7 DEF Poststop, host, history
<1>8. CASE StopVnet(o)
  BY <1>8 DEF StopVnet, TypeOK, history
<1>9. CASE UnmountFstab(o)
  BY <1>9 DEF UnmountFstab, history
<1>10. CASE Teardown(o)
  BY <1>10 DEF Teardown, history
<1>11. CASE ClearLimits(o)
  BY <1>11 DEF ClearLimits, Resting
<1>12. CASE DeleteDataset(o)
  BY <1>12 DEF DeleteDataset, history
<1> QED
  BY <1>1, <1>2, <1>3, <1>4, <1>5, <1>6, <1>7, <1>8, <1>9, <1>10, <1>11,
     <1>12 DEF Stop

LEMMA NetworkStep ==
  ASSUME Exclusive, Overrides \subseteq {Vnet}, RaceInv, ExclusiveInv,
         NetworkInv, [Next]_vars
  PROVE  NetworkInv'
<1>1. TypeOK /\ TypeOK' /\ ExclusiveInv'
  BY StepType, ExclusiveStep DEF RaceInv
<1>2. CASE UNCHANGED <<kjid, aliases, epairs, object, history>>
  BY <1>2
     DEF NetworkInv, Releasing, KnowsJid, Inline, Forced, object, history
<1>3. CASE UNCHANGED vars
  BY <1>2, <1>3 DEF vars, host
<1>4. CASE Reap
  BY <1>2, <1>4 DEF Reap
<1>5. ASSUME NEW o \in Objects, Acts(o)
      PROVE  NetworkInv'
  <2>1. \A p \in Objects \ {o} : Ready(p) /\ gone[p] = None
    BY <1>5, OthersRest
  <2>2. LocalInv(o)
    BY <1>1, <1>5, LocalOfExclusive
  <2>3. LocalNetwork(o)'
    BY <1>1, <1>5, <2>2, CallNetwork, StartNetworkOf, StopNetworkOf
       DEF Acts, Step, NetworkInv, LocalNetwork, RaceInv
  <2>4. ASSUME NEW p \in Objects \ {o}
        PROVE  Releasing(p)'
    <3>1. Own(p)' = Own(p)
      BY <1>1, <1>5, Frame DEF Acts
    <3>2. Ready(p)' /\ cfg'[p] = Vnet
      BY <2>1, <3>1 DEF Own, Ready, NetworkInv, Releasing
    <3> QED BY <3>2 DEF Releasing, Ready, Resting, StopSteps
  <2> QED BY <2>3, <2>4 DEF NetworkInv, LocalNetwork
<1> QED BY <1>3, <1>4, <1>5 DEF Next, Acts

LEMMA NetworkInit ==
  ASSUME Init
  PROVE  NetworkInv
<1>1. \A o \in Objects : op[o].pc = "idle" /\ cfg[o] = Vnet
  BY DEF Init, Rest
<1>2. epairs = {}
  BY DEF Init
<1> QED BY <1>1, <1>2 DEF NetworkInv, Releasing, StopSteps

\* A teardown that is not a forced stop() knows the jid of the jail it has
\* removed, and has released what the jail had on the network: inductive.
THEOREM NetworkInvariant ==
  Exclusive /\ Overrides \subseteq {Vnet} /\ Spec => []NetworkInv
<1> SUFFICES ASSUME Exclusive, Overrides \subseteq {Vnet}
             PROVE  Spec => []NetworkInv
  OBVIOUS
<1>1. RaceInv /\ ExclusiveInv /\ NetworkInv /\ [Next]_vars => NetworkInv'
  BY NetworkStep
<1> QED BY <1>1, NetworkInit, RaceInvariant, ExclusiveInvariant, PTL DEF Spec

\* A completed teardown that is not a forced stop() has removed the epair of
\* the jail it removed, and unforced its ip addresses.
THEOREM NetworkTheorem == Spec => NetworkReleased
<1> DEFINE Released(o) ==
      Completes(o) /\ gone[o] # None /\ (op[o].via = "stop" => ~Forced(o)) =>
        /\ gone[o] \notin epairs'
        /\ ~Forced(o) /\ ~Vnet => ~aliases'
<1>1. ASSUME RaceInv, NetworkInv, [Next]_vars, NEW o \in Objects, Completes(o)
      PROVE  Released(o)
  <2>1. op[o].pc = "unlimit"
    BY <1>1 DEF Completes, At
  <2>2. UNCHANGED <<epairs, aliases>>
    BY <1>1, CompletesByClearing DEF ClearLimits
  <2>3. Releasing(o)
    BY <1>1 DEF NetworkInv
  <2>4. gone[o] # None /\ (op[o].via = "stop" => ~Forced(o)) =>
          gone[o] \notin epairs
    BY <2>1, <2>3 DEF Releasing, KnowsJid
  <2>5. ~Forced(o) /\ ~Vnet => ~aliases
    BY <2>1, <2>3 DEF Releasing
  <2> QED BY <2>2, <2>4, <2>5
<1>2. RaceInv /\ NetworkInv /\ [Next]_vars
        => [Exclusive /\ Overrides \subseteq {Vnet} =>
              \A o \in Objects : Released(o)]_vars
  BY <1>1
<1>3. ~(Exclusive /\ Overrides \subseteq {Vnet}) =>
        [Exclusive /\ Overrides \subseteq {Vnet} =>
           \A o \in Objects : Released(o)]_vars
  OBVIOUS
<1>4. CASE Exclusive /\ Overrides \subseteq {Vnet}
  BY <1>2, <1>4, RaceInvariant, NetworkInvariant, PTL DEF Spec, NetworkReleased
<1>5. CASE ~(Exclusive /\ Overrides \subseteq {Vnet})
  BY <1>3, <1>5, PTL DEF Spec, NetworkReleased
<1> QED BY <1>4, <1>5

----------------------------------------------------------------------------
(***************************************************************************)
(* JailLifecycle implements JailService, exclusive or not.                 *)
(***************************************************************************)

Launching == {"start", "command", "restart"}
Stopping == {"stop", "restart", "destroy"}

\* Which method a consumer may have called that has come to a step.
CalledFor(o) ==
  /\ op[o].pc \in StartSteps => op[o].via = "up"
  /\ op[o].pc \in StartSteps \union {"require"} => op[o].api \in Launching
  /\ op[o].pc \in StopSteps =>
       \/ op[o].via = "up" /\ op[o].api = "command"
       \/ op[o].via = "rollback" /\ op[o].api \in Launching
       \/ op[o].via = "stop" /\ op[o].api \in Stopping
  /\ op[o].pc = "delete" => op[o].api = "destroy"

ServiceInv ==
  /\ RaceInv
  /\ Exclusive => ExclusiveInv
  /\ \A o \in Objects : CalledFor(o)

Shown == [p \in Objects |-> Caller(p)]

----------------------------------------------------------------------------
(***************************************************************************)
(* Every step keeps the method that was called.                            *)
(***************************************************************************)

LEMMA FinishCalledFor ==
  ASSUME TypeOK, NEW o \in Objects, op[o].pc \in StopSteps, CalledFor(o),
         Finish(o)
  PROVE  CalledFor(o)'
  BY ControlOp DEF Finish, CalledFor, StartSteps, StopSteps, Launching, Stopping

LEMMA CallCalledFor ==
  ASSUME TypeOK, NEW o \in Objects, Call(o)
  PROVE  CalledFor(o)'
<1> USE ControlOp DEF CalledFor, StartSteps, StopSteps, Launching, Stopping
<1>1. CASE Open(o)
  BY <1>1 DEF Open
<1>2. CASE Create(o)
  BY <1>2 DEF Create
<1>3. CASE CallStart(o)
  BY <1>3 DEF CallStart, Enter, TypeOK
<1>4. CASE CallForkExec(o)
  BY <1>4 DEF CallForkExec, Enter, TypeOK
<1>5. ASSUME NEW force \in BOOLEAN, NEW api \in {"stop", "restart"},
             CallStop(o, api, force)
      PROVE  CalledFor(o)'
  BY <1>5 DEF CallStop
<1>6. ASSUME NEW force \in BOOLEAN, NEW forceStop \in BOOLEAN,
             CallDestroy(o, force, forceStop)
      PROVE  CalledFor(o)'
  BY <1>6 DEF CallDestroy, Enter, TypeOK
<1> QED BY <1>1, <1>2, <1>3, <1>4, <1>5, <1>6 DEF Call

LEMMA StartCalledFor ==
  ASSUME TypeOK, NEW o \in Objects, CalledFor(o), Start(o)
  PROVE  CalledFor(o)'
<1> USE ControlOp
    DEF CalledFor, StartSteps, StopSteps, Launching, Stopping, At
<1>1. CASE Require(o)
  BY <1>1 DEF Require, Enter, TypeOK
<1>2. CASE ApplyLimits(o)
  <2>1. Goto(o, "prestart") \/ Raise(o)
    BY <1>2, Zenon DEF ApplyLimits
  <2> QED BY <1>2, <2>1 DEF ApplyLimits
<1>3. CASE Prestart(o)
  BY <1>3 DEF Prestart
<1>4. CASE ApplyBase(o)
  BY <1>4 DEF ApplyBase
<1>5. CASE MountFstab(o)
  BY <1>5 DEF MountFstab
<1>6. CASE Attach(o)
  BY <1>6 DEF Attach, Refused, Enter, TypeOK
<1>7. CASE Created(o)
  BY <1>7 DEF Created
<1>8. CASE MountDevfs(o)
  BY <1>8 DEF MountDevfs, MountSystem
<1>9. CASE MountFdescfs(o)
  BY <1>9 DEF MountFdescfs, MountSystem
<1>10. CASE StartNetwork(o)
  <2>1. Goto(o, "services") \/ Raise(o)
    BY <1>10, Zenon DEF StartNetwork
  <2> QED BY <1>10, <2>1 DEF StartNetwork
<1>11. CASE Services(o)
  BY <1>11 DEF Services, InlineEntry, Inline, Enter, TypeOK
<1> QED
  BY <1>1, <1>2, <1>3, <1>4, <1>5, <1>6, <1>7, <1>8, <1>9, <1>10, <1>11
     DEF Start

LEMMA StopCalledFor ==
  ASSUME TypeOK, NEW o \in Objects, CalledFor(o),
         Stop(o) \/ DestructionFailed(o)
  PROVE  CalledFor(o)'
<1> USE ControlOp
    DEF CalledFor, StartSteps, StopSteps, Launching, Stopping, At
<1>1. CASE Prestop(o)
  BY <1>1 DEF Prestop
<1>2. CASE StopHook(o)
  BY <1>2 DEF StopHook
<1>3. CASE RemoveJail(o)
  BY <1>3 DEF RemoveJail, AfterRemove
<1>4. CASE WaitDead(o)
  BY <1>4 DEF WaitDead, AfterRemove
<1>5. CASE DestructionFailed(o)
  BY <1>5 DEF DestructionFailed
<1>6. CASE RemoveAliases(o)
  <2>1. \/ Goto(o, "poststop") \/ Raise(o)
        \/ Goto(o, IF Inline(o) THEN "remove" ELSE "poststop")
    BY <1>6, Zenon DEF RemoveAliases
  <2> QED BY <1>6, <2>1 DEF RemoveAliases
<1>7. CASE Poststop(o)
  BY <1>7 DEF Poststop
<1>8. CASE StopVnet(o)
  BY <1>8 DEF StopVnet
<1>9. CASE UnmountFstab(o)
  BY <1>9 DEF UnmountFstab
<1>10. CASE Teardown(o)
  BY <1>10 DEF Teardown
<1>11. CASE ClearLimits(o)
  <2>1. Finish(o) \/ Raise(o)
    BY <1>11, Zenon DEF ClearLimits
  <2> QED BY <1>11, <2>1, FinishCalledFor DEF ClearLimits
<1>12. CASE DeleteDataset(o)
  BY <1>12 DEF DeleteDataset
<1> QED
  BY <1>1, <1>2, <1>3, <1>4, <1>5, <1>6, <1>7, <1>8, <1>9, <1>10, <1>11,
     <1>12 DEF Stop

----------------------------------------------------------------------------
(***************************************************************************)
(* What the caller of an object sees.                                      *)
(***************************************************************************)

LEMMA ShownMoves ==
  ASSUME TypeOK, NEW o \in Objects, Acts(o)
  PROVE  Shown' = [Shown EXCEPT ![o] = Caller(o)']
<1>1. ASSUME NEW p \in Objects \ {o}
      PROVE  Caller(p)' = Caller(p)
  <2>1. op'[p] = op[p]
    BY <1>1, Frame DEF Acts, Own
  <2> QED BY <2>1 DEF Caller, Ready
<1>2. Shown' = [p \in Objects |-> IF p = o THEN Caller(o)' ELSE Caller(p)]
  BY <1>1 DEF Shown
<1>3. ASSUME NEW new
      PROVE  [Shown EXCEPT ![o] = new]
               = [p \in Objects |-> IF p = o THEN new ELSE Caller(p)]
  BY DEF Shown
<1> QED BY <1>2, <1>3

\* An object that is not ready is waiting for the method it has called.
LEMMA WaitingFor ==
  ASSUME TypeOK, NEW o \in Objects, CalledFor(o), ~Ready(o)
  PROVE  Service!Waiting(o) /\ Shown[o] = op[o].api
<1>1. op[o].pc \in Resting \union Steps
  BY DEF TypeOK, Operations
<1>2. op[o].api \in Launching \union Stopping
  BY <1>1 DEF CalledFor, Ready, Steps, Launching, Stopping
<1>3. Shown[o] = op[o].api
  BY DEF Shown, Caller
<1> QED
  BY <1>2, <1>3 DEF Service!Waiting, Service!Requests, Shown, Launching, Stopping

LEMMA NobodyWaits ==
  ASSUME NEW o \in Objects, MayCall(o)
  PROVE  ~Service!Waiting(o) /\ (Exclusive => \A p \in Objects : ~Service!Waiting(p))
<1>1. ASSUME NEW p \in Objects, Ready(p)
      PROVE  ~Service!Waiting(p)
  BY <1>1 DEF Service!Waiting, Service!Requests, Shown, Caller, Ready, Resting
<1> QED BY <1>1 DEF MayCall

\* A step within an operation that neither creates nor removes the jail is
\* not seen.
LEMMA Invisible ==
  ASSUME TypeOK, NEW o \in Objects, Acts(o), Caller(o)' = Caller(o),
         UNCHANGED <<exists, kjid>>
  PROVE  UNCHANGED Service!serviceVars
<1>1. Shown' = Shown
  BY ShownMoves DEF Shown
<1> QED BY <1>1 DEF Service!serviceVars, Shown

LEMMA StepInside ==
  ASSUME TypeOK, NEW o \in Objects, CalledFor(o), Acts(o), ~Ready(o),
         op'[o].pc \in Steps, op'[o].api = op[o].api
  PROVE  Caller(o)' = Caller(o)
<1>1. ~Ready(o)'
  BY DEF Ready, Resting, Steps, StartSteps, StopSteps
<1> QED BY <1>1 DEF Caller

\* A step that ends the operation fails or succeeds.
LEMMA Ends ==
  ASSUME TypeOK, NEW o \in Objects, CalledFor(o), Acts(o), ~Ready(o),
         op'[o].pc \in Resting, UNCHANGED <<exists, kjid>>
  PROVE  /\ op'[o].pc = "raised" => Service!Fail(o)
         /\ op'[o].pc = "reverted" /\ (Exclusive => kjid = None) => Service!Fail(o)
         /\ /\ op'[o].pc = "ok" /\ op[o].api # "destroy"
            /\ Exclusive => IF op[o].api \in {"start", "restart"}
                            THEN kjid # None ELSE kjid = None
            => Service!Succeed(o)
<1>1. Service!Waiting(o) /\ Shown[o] = op[o].api
  BY WaitingFor
<1>2. Shown' = [Shown EXCEPT ![o] = op'[o].pc]
  BY ShownMoves DEF Caller, Ready
<1>3. ASSUME NEW what, op'[o].pc = what
      PROVE  Service!Now(o, what)
  BY <1>2, <1>3 DEF Service!Now, Shown
<1>4. op[o].api \in Service!Requests
  BY <1>1 DEF Service!Waiting, Shown
<1> QED
  BY <1>1, <1>3, <1>4
     DEF Service!Fail, Service!Succeed, Service!Wanted, Shown

----------------------------------------------------------------------------
(***************************************************************************)
(* Every step is a step of the service, or not seen.                       *)
(***************************************************************************)

Serves(o) ==
  \/ UNCHANGED Service!serviceVars
  \/ \E api \in Service!Requests : Service!Request(o, api)
  \/ Service!Refuse(o) \/ Service!CreateJail(o) \/ Service!Launch(o)
  \/ Service!Remove(o) \/ Service!Delete(o) \/ Service!Succeed(o)
  \/ Service!Fail(o)

LEMMA CallServes ==
  ASSUME TypeOK, NEW o \in Objects, Call(o)
  PROVE  Serves(o)
<1>1. MayCall(o) /\ Acts(o)
  BY DEF Acts, Call, Open, Create, CallStart, CallForkExec, CallStop, CallDestroy
<1>2. ~Service!Waiting(o) /\ (Exclusive => \A p \in Objects : ~Service!Waiting(p))
  BY <1>1, NobodyWaits
<1>3. Shown' = [Shown EXCEPT ![o] = Caller(o)']
  BY <1>1, ShownMoves
<1>4. ASSUME NEW api \in Service!Requests, op'[o].pc \in Steps,
             op'[o].api = api, UNCHANGED <<exists, kjid>>
      PROVE  Serves(o)
  <2>1. Caller(o)' = api
    BY <1>4 DEF Caller, Ready, Resting, Steps, StartSteps, StopSteps
  <2> QED
    BY <1>2, <1>3, <1>4, <2>1
       DEF Serves, Service!Request, Service!Now, Shown
<1>5. ASSUME NEW outcome \in {"idle", "raised"}, op'[o].pc = outcome,
             UNCHANGED <<exists, kjid>>
      PROVE  Serves(o)
  <2>1. Caller(o)' = outcome
    BY <1>5 DEF Caller, Ready, Resting
  <2> QED
    BY <1>2, <1>3, <1>5, <2>1 DEF Serves, Service!Refuse, Service!Now, Shown
<1>6. {"start", "command", "stop", "restart", "destroy"} = Service!Requests
  BY DEF Service!Requests
<1>7. {"require", "prestop", "delete"} \subseteq Steps
  BY DEF Steps, StopSteps
<1> USE ControlOp DEF host
<1>8. CASE Open(o)
  BY <1>5, <1>8 DEF Open
<1>9. CASE Create(o)
  <2>1. \/ ~exists /\ op'[o].pc = "ok"
        \/ op'[o].pc = "raised"
    BY <1>9 DEF Create
  <2>2. Caller(o)' = op'[o].pc
    BY <2>1 DEF Caller, Ready, Resting
  <2>3. exists' = TRUE /\ kjid' = kjid
    BY <1>9, Zenon DEF Create
  <2> QED
    BY <1>2, <1>3, <2>1, <2>2, <2>3
       DEF Serves, Service!CreateJail, Service!Now, Shown
<1>10. CASE CallStart(o)
  BY <1>4, <1>6, <1>7, <1>10 DEF CallStart, Enter, TypeOK
<1>11. CASE CallForkExec(o)
  BY <1>4, <1>5, <1>6, <1>7, <1>11 DEF CallForkExec, Enter, TypeOK
<1>12. ASSUME NEW force \in BOOLEAN, NEW api \in {"stop", "restart"},
              CallStop(o, api, force)
       PROVE  Serves(o)
  BY <1>4, <1>5, <1>6, <1>7, <1>12 DEF CallStop, Enter, TypeOK
<1>13. ASSUME NEW force \in BOOLEAN, NEW forceStop \in BOOLEAN,
              CallDestroy(o, force, forceStop)
       PROVE  Serves(o)
  BY <1>4, <1>5, <1>6, <1>7, <1>13 DEF CallDestroy, Enter, TypeOK
<1> QED BY <1>8, <1>9, <1>10, <1>11, <1>12, <1>13 DEF Call

LEMMA StepServes ==
  ASSUME TypeOK, NEW o \in Objects, CalledFor(o), Acts(o), ~Ready(o),
         UNCHANGED <<exists, kjid>>
  PROVE  /\ op'[o].pc \in Steps /\ op'[o].api = op[o].api => Serves(o)
         /\ Raise(o) => Serves(o)
<1>1. CASE op'[o].pc \in Steps /\ op'[o].api = op[o].api
  BY <1>1, StepInside, Invisible DEF Serves
<1>2. CASE Raise(o)
  BY <1>2, ControlOp, Ends DEF Serves, Resting
<1> QED BY <1>1, <1>2

LEMMA StartServes ==
  ASSUME TypeOK, NEW o \in Objects, CalledFor(o), Start(o),
         Exclusive => LocalInv(o)
  PROVE  Serves(o)
<1>1. op[o].pc \in StartSteps \union {"require"}
  BY DEF Start, Require, ApplyLimits, Prestart, ApplyBase, MountFstab, Attach,
         Created, MountDevfs, MountFdescfs, MountSystem, StartNetwork,
         Services, At, StartSteps
<1>2. ~Ready(o) /\ Acts(o)
  BY <1>1 DEF Ready, Resting, StartSteps, Acts, Step
<1>3. Service!Waiting(o) /\ Shown[o] = op[o].api
  BY <1>2, WaitingFor
<1>4. Shown' = [Shown EXCEPT ![o] = Caller(o)']
  BY <1>2, ShownMoves
<1>5. StartSteps \subseteq Steps /\ StopSteps \subseteq Steps
  BY DEF Steps
<1>6. UNCHANGED <<exists, kjid>> =>
        /\ op'[o].pc \in Steps /\ op'[o].api = op[o].api => Serves(o)
        /\ Raise(o) => Serves(o)
  BY <1>2, StepServes
<1>7. \A step \in StartSteps \union StopSteps :
        UNCHANGED <<exists, kjid>> /\ Goto(o, step) => Serves(o)
  BY <1>5, <1>6, ControlOp
<1>8. CASE Require(o)
  <2>1. UNCHANGED <<exists, kjid>>
    BY <1>8 DEF Require, host
  <2>2. CASE exists /\ kjid = None
    BY <1>5, <1>6, <1>8, <2>1, <2>2, ControlOp
       DEF Require, Enter, StartSteps, TypeOK
  <2>3. CASE ~(exists /\ kjid = None)
    <3>1. op'[o].pc = "raised"
      BY <1>8, <2>3, ControlOp DEF Require
    <3> QED BY <1>2, <2>1, <3>1, Ends DEF Serves, Resting
  <2> QED BY <2>2, <2>3
<1>9. CASE ApplyLimits(o)
  <2>1. Goto(o, "prestart") \/ Raise(o)
    BY <1>9, Zenon DEF ApplyLimits
  <2>2. UNCHANGED <<exists, kjid>>
    BY <1>9 DEF ApplyLimits
  <2> QED BY <1>6, <1>7, <2>1, <2>2 DEF StartSteps
<1>10. CASE Prestart(o)
  BY <1>6, <1>7, <1>10 DEF Prestart, StartSteps, host
<1>11. CASE ApplyBase(o)
  BY <1>6, <1>7, <1>11 DEF ApplyBase, StartSteps
<1>12. CASE MountFstab(o)
  BY <1>6, <1>7, <1>12 DEF MountFstab, StartSteps
<1>13. CASE Attach(o)
  <2>1. CASE Raise(o) /\ UNCHANGED <<kjid, nextJid, memo>>
    BY <1>6, <1>13, <2>1 DEF Attach
  <2>2. CASE ~(Raise(o) /\ UNCHANGED <<kjid, nextJid, memo>>)
    <3>1. /\ exists /\ kjid = None /\ kjid' = nextJid + 1 /\ exists' = exists
          /\ Enter(o, op[o].api, FALSE, "up", "created", kjid')
      BY <1>13, <2>2 DEF Attach, Refused
    <3>2. kjid' # None
      BY <3>1 DEF TypeOK, None
    <3>3. op'[o].pc = "created" /\ op'[o].api = op[o].api
      BY <3>1 DEF Enter, TypeOK
    <3>4. Shown' = Shown
      BY <1>2, <1>4, <3>3, StepInside DEF Steps, StartSteps, Shown, Caller
    <3>5. op[o].api \in Launching
      BY <1>13 DEF CalledFor, Attach, At, StartSteps
    <3> QED
      BY <1>3, <3>1, <3>2, <3>4, <3>5
         DEF Serves, Service!Launch, Shown, Launching
  <2> QED BY <2>1, <2>2
<1>14. CASE Created(o)
  BY <1>6, <1>7, <1>14 DEF Created, StartSteps, host
<1>15. CASE MountDevfs(o)
  BY <1>6, <1>7, <1>15 DEF MountDevfs, MountSystem, StartSteps
<1>16. CASE MountFdescfs(o)
  BY <1>6, <1>7, <1>16 DEF MountFdescfs, MountSystem, StartSteps
<1>17. CASE StartNetwork(o)
  <2>1. Goto(o, "services") \/ Raise(o)
    BY <1>17, Zenon DEF StartNetwork
  <2>2. UNCHANGED <<exists, kjid>>
    BY <1>17 DEF StartNetwork
  <2> QED BY <1>6, <1>7, <2>1, <2>2 DEF StartSteps
<1>18. CASE Services(o)
  <2>1. UNCHANGED <<exists, kjid>> /\ op[o].pc = "services"
    BY <1>18 DEF Services, host, At
  <2>2. op[o].api \in Launching
    BY <2>1 DEF CalledFor, StartSteps
  <2>3. CASE Return(o, "ok") /\ ~Inline(o)
    <3>1. op'[o].pc = "ok"
      BY <2>3, ControlOp
    <3>2. op[o].api \in {"start", "restart"}
      BY <2>2, <2>3 DEF Inline, Launching
    <3>3. Exclusive => kjid # None
      BY <2>1 DEF LocalInv, Prepared, InJail
    <3>4. Service!Succeed(o)
      BY <1>2, <2>1, <3>1, <3>2, <3>3, Ends DEF Resting
    <3> QED BY <3>4 DEF Serves
  <2>4. CASE ~(Return(o, "ok") /\ ~Inline(o))
    <3>1. op'[o].pc \in Steps /\ op'[o].api = op[o].api
      BY <1>18, <2>4, ControlOp
         DEF Services, Enter, Inline, InlineEntry, TypeOK, Steps, StopSteps
    <3> QED BY <1>6, <2>1, <3>1
  <2> QED BY <2>3, <2>4
<1> QED
  BY <1>8, <1>9, <1>10, <1>11, <1>12, <1>13, <1>14, <1>15, <1>16, <1>17, <1>18
     DEF Start

LEMMA StopServes ==
  ASSUME TypeOK, NEW o \in Objects, CalledFor(o),
         Stop(o) \/ DestructionFailed(o), Exclusive => LocalInv(o)
  PROVE  Serves(o)
<1>1. op[o].pc \in StopSteps \union {"delete"}
  BY DEF Stop, Prestop, StopHook, RemoveJail, WaitDead, RemoveAliases,
         Poststop, StopVnet, UnmountFstab, Teardown, ClearLimits,
         DeleteDataset, DestructionFailed, At, StopSteps
<1>2. ~Ready(o) /\ Acts(o)
  BY <1>1 DEF Ready, Resting, StopSteps, Acts, Step
<1>3. Service!Waiting(o) /\ Shown[o] = op[o].api
  BY <1>2, WaitingFor
<1>4. Shown' = [Shown EXCEPT ![o] = Caller(o)']
  BY <1>2, ShownMoves
<1>5. UNCHANGED <<exists, kjid>> =>
        /\ op'[o].pc \in Steps /\ op'[o].api = op[o].api => Serves(o)
        /\ Raise(o) => Serves(o)
  BY <1>2, StepServes
<1>6. \A step \in StopSteps \union {"delete", "require"} :
        UNCHANGED <<exists, kjid>> /\ Goto(o, step) => Serves(o)
  BY <1>5, ControlOp DEF Steps
<1>7. CASE Prestop(o)
  BY <1>5, <1>6, <1>7 DEF Prestop, StopSteps, host
<1>8. CASE StopHook(o)
  BY <1>5, <1>6, <1>8 DEF StopHook, StopSteps, host
<1>9. CASE RemoveJail(o)
  <2>1. exists' = exists
    BY <1>9 DEF RemoveJail
  <2>2. CASE kjid = None
    BY <1>6, <1>9, <2>1, <2>2 DEF RemoveJail, AfterRemove, StopSteps
  <2>3. CASE kjid # None
    <3>1. kjid' = None /\ Goto(o, "wait")
      BY <1>9, <2>3 DEF RemoveJail
    <3>2. op'[o].pc = "wait" /\ op'[o].api = op[o].api
      BY <3>1, ControlOp
    <3>3. Shown' = Shown
      BY <1>2, <1>4, <3>2, StepInside DEF Steps, StopSteps, Shown, Caller
    <3> QED
      BY <1>3, <2>1, <2>3, <3>1, <3>3 DEF Serves, Service!Remove, Shown
  <2> QED BY <2>2, <2>3
<1>10. CASE WaitDead(o)
  BY <1>6, <1>10 DEF WaitDead, AfterRemove, StopSteps, host
<1>11. CASE DestructionFailed(o)
  BY <1>5, <1>6, <1>11 DEF DestructionFailed, host
<1>12. CASE RemoveAliases(o)
  <2>1. \/ Goto(o, "poststop") \/ Raise(o)
        \/ Goto(o, IF Inline(o) THEN "remove" ELSE "poststop")
    BY <1>12, Zenon DEF RemoveAliases
  <2>2. UNCHANGED <<exists, kjid>>
    BY <1>12 DEF RemoveAliases
  <2> QED BY <1>5, <1>6, <2>1, <2>2 DEF StopSteps
<1>13. CASE Poststop(o)
  BY <1>5, <1>6, <1>13 DEF Poststop, StopSteps, host
<1>14. CASE StopVnet(o)
  BY <1>5, <1>6, <1>14 DEF StopVnet, StopSteps
<1>15. CASE UnmountFstab(o)
  BY <1>5, <1>6, <1>15 DEF UnmountFstab, StopSteps
<1>16. CASE Teardown(o)
  BY <1>5, <1>6, <1>16 DEF Teardown, StopSteps
<1>17. CASE ClearLimits(o)
  <2>1. Finish(o) \/ Raise(o)
    BY <1>17, Zenon DEF ClearLimits
  <2>2. UNCHANGED <<exists, kjid>> /\ op[o].pc = "unlimit"
    BY <1>17 DEF ClearLimits, At
  <2>3. Exclusive => kjid = None
    BY <2>2 DEF LocalInv, TearingDown
  <2>4. CASE Finish(o)
    <3>1. CASE Goto(o, "delete") \/ Goto(o, "require")
      BY <1>6, <2>2, <3>1
    <3>2. CASE op[o].via = "rollback" /\ Return(o, "reverted")
      <4>1. op'[o].pc = "reverted"
        BY <3>2, ControlOp
      <4> QED BY <1>2, <2>2, <2>3, <4>1, Ends DEF Serves, Resting
    <3>3. CASE /\ Return(o, "ok")
               /\ op[o].via = "up" \/ (op[o].via = "stop" /\ op[o].api = "stop")
      <4>1. op'[o].pc = "ok"
        BY <3>3, ControlOp
      <4>2. op[o].api \in {"command", "stop"}
        BY <2>2, <3>3 DEF CalledFor, StopSteps
      <4> QED BY <1>2, <2>2, <2>3, <4>1, <4>2, Ends DEF Serves, Resting
    <3> QED BY <2>4, <3>1, <3>2, <3>3 DEF Finish
  <2> QED BY <1>5, <2>1, <2>2, <2>4
<1>18. CASE DeleteDataset(o)
  <2>1. kjid' = kjid /\ op[o].api = "destroy"
    BY <1>18 DEF DeleteDataset, CalledFor, At
  <2>2. CASE Raise(o)
    BY <1>5, <1>18, <2>1, <2>2, ControlOp DEF DeleteDataset
  <2>3. CASE /\ exists /\ ~Busy /\ exists' = FALSE /\ Goto(o, "ok")
    <3>1. Caller(o)' = "ok"
      BY <2>3, ControlOp DEF Caller, Ready, Resting
    <3>2. kjid = None
      BY <2>3 DEF Busy
    <3> QED
      BY <1>3, <1>4, <2>1, <2>3, <3>1, <3>2
         DEF Serves, Service!Delete, Service!Now, Shown
  <2> QED BY <1>5, <1>18, <2>1, <2>2, <2>3 DEF DeleteDataset
<1> QED
  BY <1>7, <1>8, <1>9, <1>10, <1>11, <1>12, <1>13, <1>14, <1>15, <1>16, <1>17,
     <1>18 DEF Stop

----------------------------------------------------------------------------
(***************************************************************************)
(* The refinement.                                                         *)
(***************************************************************************)

LEMMA ServiceInvInit ==
  ASSUME Init
  PROVE  ServiceInv
<1>1. \A o \in Objects : op[o].pc = "idle"
  BY DEF Init, Rest
<1>2. \A o \in Objects : CalledFor(o)
  BY <1>1 DEF CalledFor, StartSteps, StopSteps
<1> QED BY <1>2, RaceInit, ExclusiveInit DEF ServiceInv

LEMMA ServiceInvStep ==
  ASSUME ServiceInv, [Next]_vars
  PROVE  ServiceInv'
<1>1. RaceInv' /\ TypeOK
  BY RaceStep DEF ServiceInv, RaceInv
<1>2. (Exclusive => ExclusiveInv)'
  BY ExclusiveStep DEF ServiceInv
<1>3. ASSUME UNCHANGED object
      PROVE  \A p \in Objects : CalledFor(p)'
  BY <1>3 DEF ServiceInv, CalledFor, object
<1>4. ASSUME NEW o \in Objects, Acts(o)
      PROVE  \A p \in Objects : CalledFor(p)'
  <2>1. CalledFor(o)'
    BY <1>1, <1>4, CallCalledFor, StartCalledFor, StopCalledFor
       DEF Acts, Step, ServiceInv
  <2>2. ASSUME NEW p \in Objects \ {o}
        PROVE  CalledFor(p)'
    <3>1. op'[p] = op[p]
      BY <1>1, <1>4, Frame DEF Acts, Own
    <3> QED BY <3>1 DEF CalledFor, ServiceInv
  <2> QED BY <2>1, <2>2
<1>5. \A p \in Objects : CalledFor(p)'
  BY <1>3, <1>4, Zenon DEF Next, Acts, Reap, vars, ServiceInv
<1> QED BY <1>1, <1>2, <1>5 DEF ServiceInv

LEMMA ServiceStep ==
  ASSUME ServiceInv, [Next]_vars
  PROVE  [Service!ServiceNext]_(Service!serviceVars)
<1>1. CASE UNCHANGED <<exists, kjid, object>>
  BY <1>1 DEF Service!serviceVars, Caller, Ready, object
<1>2. CASE UNCHANGED vars
  BY <1>1, <1>2 DEF vars, host
<1>3. CASE Reap
  BY <1>1, <1>3 DEF Reap
<1>4. ASSUME NEW o \in Objects, Acts(o)
      PROVE  [Service!ServiceNext]_(Service!serviceVars)
  <2>1. TypeOK /\ CalledFor(o)
    BY DEF ServiceInv, RaceInv
  <2>2. Exclusive => LocalInv(o)
    BY <1>4, <2>1, LocalOfExclusive DEF ServiceInv
  <2>3. Serves(o)
    BY <1>4, <2>1, <2>2, CallServes, StartServes, StopServes DEF Acts, Step
  <2> QED BY <2>3 DEF Serves, Service!ServiceNext
<1> QED BY <1>2, <1>3, <1>4 DEF Next, Acts

LEMMA ServiceStarts == Init => Service!ServiceInit
<1> SUFFICES ASSUME Init PROVE Service!ServiceInit
  OBVIOUS
<1>1. \A o \in Objects : Caller(o) = "idle"
  BY DEF Init, Rest, Caller, Ready, Resting
<1> QED BY <1>1 DEF Init, Service!ServiceInit

\* The chains of host operations in Jail.py implement what JailService says
\* that callers may rely on: for any number of objects, which take turns or
\* not, any configuration, and whatever fails on the way.
THEOREM ServiceTheorem == Spec => ServiceProvided
<1>1. Init => ServiceInv
  BY ServiceInvInit
<1>2. ServiceInv /\ [Next]_vars => ServiceInv'
  BY ServiceInvStep
<1>3. ServiceInv /\ [Next]_vars => [Service!ServiceNext]_(Service!serviceVars)
  BY ServiceStep
<1> QED
  BY <1>1, <1>2, <1>3, ServiceStarts, PTL
     DEF Spec, ServiceProvided, Service!ServiceSpec

=============================================================================
