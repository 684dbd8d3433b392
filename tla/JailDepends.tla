---------------------------- MODULE JailDepends ----------------------------
(***************************************************************************)
(* start() of a jail with the jails it depends on (libioc/Jail.py).        *)
(*                                                                         *)
(* _start_dependant_jails() starts every jail selected by the depends      *)
(* property, in the order of their priorities, each of which starts its    *)
(* own dependants first.  The recursion is a stack of start() generators.  *)
(* The steps of one start() that JailLifecycle models are condensed to     *)
(* preparation, attachment and services.  Meanwhile other consumers start  *)
(* jails as well.                                                          *)
(***************************************************************************)
EXTENDS Sequences, SequencesExt, FiniteSets, Integers

CONSTANTS
  Jails,        \* the jails of the host
  Root,         \* the jail whose start() a consumer calls
  Graphs,       \* the values of the depends properties that are considered
  Commands,     \* whether start() may be, must be or is not a fork_exec()
  MaxDepth      \* bound: the recursion limit of the interpreter, in frames

ASSUME RootAssumption == Root \in Jails
ASSUME GraphAssumption == Graphs \subseteq [Jails -> Seq(Jails)]
ASSUME CommandAssumption == Commands \subseteq BOOLEAN
ASSUME DepthAssumption == MaxDepth \in Nat \ {0}

VARIABLES
  depends,      \* jails selected by the depends property, by priority
  command,      \* start() runs a single command
  running,      \* jails the kernel knows
  stack,        \* the nested start() generators, the innermost last
  seen,         \* dependant_jails_seen, shared by the generators
  outcome,      \* what became of the start() of Root
  ours          \* history: jails these generators attached

vars == <<depends, command, running, stack, seen, outcome, ours>>

Errors == {"none", "ioc", "other"}   \* an IocException or any other exception
Steps == {"require", "depends", "prepare", "attach", "network", "services",
          "rollback", "revert"}

\* One start(): the jail, its next step, the dependants it has not looked at,
\* started_jails of its JailDependantsStart event, dependant_jails_started,
\* the jails a rollback has yet to stop, and the error it then raises.
Frames == [jail : Jails, pc : Steps, todo : Seq(Jails), started : Seq(Jails),
           collected : Seq(Jails), tostop : Seq(Jails), err : Errors]

Frame(j) == [jail |-> j, pc |-> "require", todo |-> <<>>, started |-> <<>>,
             collected |-> <<>>, tostop |-> <<>>, err |-> "none"]

TypeOK ==
  /\ depends \in Graphs
  /\ command \in BOOLEAN
  /\ running \subseteq Jails
  /\ Len(stack) <= MaxDepth /\ \A i \in DOMAIN stack : stack[i] \in Frames
  /\ seen \subseteq Jails
  /\ outcome \in {"pending", "ok", "raised", "reverted"}
  /\ ours \subseteq Jails

Init ==
  /\ depends \in Graphs
  /\ command \in Commands
  /\ running \in SUBSET Jails
  /\ stack = <<Frame(Root)>>
  /\ seen = {Root}
  /\ outcome = "pending"
  /\ ours = {}

----------------------------------------------------------------------------
Top == Last(stack)
At(step) == stack # <<>> /\ Top.pc = step
Update(frame) == stack' = Front(stack) \o <<frame>>
Goto(step) == Update([Top EXCEPT !.pc = step])

\* An exception leaves the innermost start().  Its caller catches an
\* IocException and stops the dependants it has started, in reverse order;
\* any other exception leaves all the callers.
Raise(err, result) ==
  IF Len(stack) > 1 /\ err = "ioc"
  THEN LET caller == Last(Front(stack))
       IN  /\ stack' = Front(Front(stack)) \o
                       <<[caller EXCEPT !.pc = "revert", !.err = err,
                                        !.tostop = Reverse(caller.started)]>>
           /\ UNCHANGED outcome
  ELSE stack' = <<>> /\ outcome' = result

\* start() ends: the caller notes that the dependant was started.
Return ==
  IF Len(stack) > 1
  THEN LET caller == Last(Front(stack))
       IN  /\ stack' = Front(Front(stack)) \o
                       <<[caller EXCEPT !.started = Append(@, Top.jail)]>>
           /\ UNCHANGED outcome
  ELSE stack' = <<>> /\ outcome' = "ok"

\* JailGenerator.__eq__: no JailGenerator equals a JailGenerator.
Same(jail, other) == FALSE

----------------------------------------------------------------------------
\* require_jail_stopped
Require ==
  /\ At("require")
  /\ IF Top.jail \in running
     THEN Raise("ioc", "raised")
     ELSE /\ Update([Top EXCEPT !.pc = "depends", !.todo = depends[Top.jail]])
          /\ UNCHANGED outcome
  /\ UNCHANGED <<depends, command, running, seen, ours>>

\* Mutants: a dependant that runs already counts as started, is an error, ends
\* the loop over the dependants, or is looked at again.
SkipAsStarted(dependant) ==
  Update([Top EXCEPT !.todo = Tail(@), !.started = Append(@, dependant)])
SkipAsError(dependant) ==
  Update([Top EXCEPT !.todo = Tail(@), !.err = "skipped"])
SkipOthers(dependant) == Update([Top EXCEPT !.todo = <<>>])
SkipNothing(dependant) == Update(Top)

\* continue
Skip(dependant) == Update([Top EXCEPT !.todo = Tail(@)])

\* The next dependant is looked at: skipped, or started by a nested start().
\* What exceeds the recursion limit raises a RecursionError.
NextDependant ==
  /\ At("depends") /\ Top.todo # <<>>
  /\ LET dependant == Head(Top.todo)
         known == Same(dependant, Top.jail)
                  \/ \E other \in seen : Same(dependant, other)
     IN  /\ seen' = IF known THEN seen ELSE seen \union {dependant}
         /\ \/ /\ known \/ dependant \in running
               /\ Skip(dependant)
               /\ UNCHANGED outcome
            \/ /\ ~known /\ dependant \notin running
               /\ Len(stack) < MaxDepth
               /\ stack' = Front(stack) \o
                    <<[Top EXCEPT !.todo = Tail(@)], Frame(dependant)>>
               /\ UNCHANGED outcome
            \/ /\ ~known /\ dependant \notin running
               /\ Len(stack) = MaxDepth
               /\ Raise("other", "raised")
  /\ UNCHANGED <<depends, command, running, ours>>

\* A mutant: only the jail that starts the dependants hears of them.
CollectOwn ==
  Update([Top EXCEPT !.pc = "prepare", !.collected = @ \o Top.started])

\* The end of a JailDependantsStart event passes through every generator on
\* the stack, each of which collects the jails that were started.
Collect ==
  stack' = [i \in DOMAIN stack |->
              [stack[i] EXCEPT
                 !.collected = @ \o Top.started,
                 !.pc = IF i = Len(stack) THEN "prepare" ELSE @]]

DependantsStarted ==
  /\ At("depends") /\ Top.todo = <<>>
  /\ Collect
  /\ UNCHANGED <<depends, command, running, seen, outcome, ours>>

\* Resource limits, prestart hook, storage and fstab: a failure leaves
\* start(); the rollback step is not registered yet.
Prepare ==
  /\ At("prepare")
  /\ \/ Goto("attach") /\ UNCHANGED outcome
     \/ \E err \in Errors \ {"none"} : Raise(err, "raised")
  /\ UNCHANGED <<depends, command, running, seen, ours>>

\* jail_set() fails when another consumer has started the jail meanwhile.
Attach ==
  /\ At("attach")
  /\ \/ /\ Top.jail \notin running
        /\ running' = running \union {Top.jail}
        /\ ours' = ours \union {Top.jail}
        /\ Goto("network")
        /\ UNCHANGED outcome
     \/ Raise("ioc", "raised") /\ UNCHANGED <<running, ours>>
  /\ UNCHANGED <<depends, command, seen>>

\* Created hook, devfs, fdescfs and network: the rollback step is registered,
\* but a failure does not fail the event.
Network ==
  /\ At("network")
  /\ \/ Goto("services") /\ UNCHANGED outcome
     \/ \E err \in Errors \ {"none"} : Raise(err, "raised")
  /\ UNCHANGED <<depends, command, running, seen, ours>>

\* A mutant: the jail is stopped after its dependants.
RollbackLast(err) ==
  Update([Top EXCEPT !.pc = "rollback", !.err = err,
                     !.tostop = Reverse(Top.collected) \o <<Top.jail>>])

\* _stop_jails(): the jail, then the dependants that were started, reversed.
Rollback(err) ==
  Update([Top EXCEPT !.pc = "rollback", !.err = err,
                     !.tostop = <<Top.jail>> \o Reverse(Top.collected)])

\* The hooks of the jail, or its single command, after which the jail and the
\* dependants that were started for it are stopped as well.
Services ==
  /\ At("services")
  /\ \/ IF command /\ Len(stack) = 1
        THEN Rollback("none") /\ UNCHANGED outcome
        ELSE Return
     \/ \E err \in Errors \ {"none"} : Rollback(err) /\ UNCHANGED outcome
  /\ UNCHANGED <<depends, command, running, seen, ours>>

\* stop(force=True) of the next jail.  It stops a jail that does not run as
\* well, and may raise before or after it has removed the jail.
StopNext ==
  /\ At("rollback") \/ At("revert")
  /\ Top.tostop # <<>>
  /\ \/ /\ running' = running \ {Head(Top.tostop)}
        /\ Update([Top EXCEPT !.tostop = Tail(@)])
        /\ UNCHANGED outcome
     \/ /\ running' \in {running, running \ {Head(Top.tostop)}}
        /\ \E err \in Errors \ {"none"} : Raise(err, "raised")
  /\ UNCHANGED <<depends, command, seen, ours>>

\* Everything is stopped: the error is raised again, if there was one.
Stopped ==
  /\ At("rollback") \/ At("revert")
  /\ Top.tostop = <<>>
  /\ IF Top.err = "none"
     THEN stack' = <<>> /\ outcome' = "ok"
     ELSE Raise(Top.err,
                IF At("rollback") /\ Len(stack) = 1 THEN "reverted" ELSE "raised")
  /\ UNCHANGED <<depends, command, running, seen, ours>>

\* Another consumer starts a jail.
OtherStart(j) ==
  /\ j \notin running
  /\ running' = running \union {j}
  /\ ours' = ours \ {j}
  /\ UNCHANGED <<depends, command, stack, seen, outcome>>

Step ==
  \/ Require \/ NextDependant \/ DependantsStarted \/ Prepare \/ Attach
  \/ Network \/ Services \/ StopNext \/ Stopped

Next == Step \/ \E j \in Jails : OtherStart(j)

Spec == Init /\ [][Next]_vars

\* The consumer exhausts the generator of the start() it called.
FairSpec == Spec /\ WF_vars(Step)

----------------------------------------------------------------------------
(***************************************************************************)
(* Properties.                                                             *)
(***************************************************************************)

\* The services of a jail are started only when every jail it depends on
\* runs, whether this start() or another consumer has started it, and however
\* the graph joins: nothing is stopped between the start of a dependant and
\* the services of a jail that depends on it.
DependantsRun ==
  At("services") =>
    \A i \in DOMAIN depends[Top.jail] : depends[Top.jail][i] \in running

\* Whoever races with the start(), its rollbacks and the end of a single
\* command stop no jail another consumer has started, except for a dependant
\* that it had started before.
StopsOwn == [][\A j \in running \ running' : j \in ours]_vars

\* When the services of Root fail and the rollback ends, no jail that was
\* started on the way to them keeps running, dependants of dependants included.
\* The same goes for a single command.
NothingLeft ==
  outcome = "reverted" \/ (outcome = "ok" /\ command) => ours \cap running = {}

\* _stop_jails(): the jail goes before the jails it depends on.
StopsFirst ==
  At("rollback") /\ Top.jail \in ours \cap running =>
    \A i \in DOMAIN Top.collected :
      Top.collected[i] \in ours => Top.collected[i] \in running

\* Without circular dependencies the recursion ends.
StartEnds == <>(outcome # "pending")

(***************************************************************************)
(* What the documentation says and the code does not do.                   *)
(***************************************************************************)

\* "Jail depends can have circular dependencies" (start): a jail whose start
\* is under way is not started again.
StartedOnce ==
  \A i, k \in DOMAIN stack : stack[i].jail = stack[k].jail => i = k

=============================================================================
