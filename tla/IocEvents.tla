----------------------------- MODULE IocEvents -----------------------------
(***************************************************************************)
(* The events of libioc/events.py that share a scope, and their rollbacks. *)
(*                                                                         *)
(* Every operation of libioc yields an event when it begins, ends, skips   *)
(* or fails.  An operation registers rollback steps with its event, and    *)
(* rename() registers the events of a nested operation as child events.    *)
(* When an event fails, fail_generator() rolls back its child events and   *)
(* then runs its steps, the latest first.  It is a generator: a step may   *)
(* raise, the consumer may drop it, and while a step runs other events of  *)
(* the scope begin and fail.                                               *)
(***************************************************************************)
EXTENDS Sequences, SequencesExt, FiniteSets, Integers

CONSTANTS
  Events,       \* the events of one scope
  Outer,        \* the one event that is given child events (JailRename)
  MaxSteps,     \* bound: rollback steps registered in all
  MaxChildren   \* bound: how often child_event() is called

ASSUME EventAssumption == IsFiniteSet(Events) /\ Outer \in Events
ASSUME StepAssumption == MaxSteps \in Nat /\ MaxChildren \in Nat

VARIABLES
  pending,      \* _pending of an event
  started,      \* an event has _started_at: it has begun once
  done,         \* done
  error,        \* error is set
  reverted,     \* reverted
  children,     \* _child_events of Outer
  steps,        \* _rollback_steps of an event
  count,        \* PENDING_COUNT of the scope
  stack,        \* the rollback() generators that run, the innermost last
  owner,        \* history: the event each step was registered with, in order
  ran           \* history: the steps that were run, in order

status == <<pending, started, done, error>>
undo == <<reverted, children, steps, stack>>
history == <<owner, ran>>
vars == <<status, undo, count, history>>

StepNames == 1 .. MaxSteps

\* A generator: its event, whether fail_generator() or the rollback() of
\* another event runs it, the child events and steps it has yet to visit.
Frames == [event : Events, fails : BOOLEAN, kids : Seq(Events),
           taken : BOOLEAN, todo : Seq(StepNames)]

TypeOK ==
  /\ pending \in [Events -> BOOLEAN] /\ started \in [Events -> BOOLEAN]
  /\ done \in [Events -> BOOLEAN] /\ error \in [Events -> BOOLEAN]
  /\ reverted \in [Events -> BOOLEAN]
  /\ children \in Seq(Events) /\ Len(children) <= MaxChildren
  /\ steps \in [Events -> Seq(StepNames)]
  /\ count \in Nat
  /\ stack \in Seq(Frames)
  /\ owner \in Seq(Events) /\ Len(owner) <= MaxSteps
  /\ ran \in Seq(StepNames)

Init ==
  /\ pending = [e \in Events |-> FALSE] /\ started = [e \in Events |-> FALSE]
  /\ done = [e \in Events |-> TRUE] /\ error = [e \in Events |-> FALSE]
  /\ reverted = [e \in Events |-> FALSE]
  /\ children = <<>> /\ steps = [e \in Events |-> <<>>]
  /\ count = 0
  /\ stack = <<>>
  /\ owner = <<>> /\ ran = <<>>

----------------------------------------------------------------------------
Kids(e) == IF e = Outer THEN children ELSE <<>>
RollingBack == {stack[i].event : i \in DOMAIN stack}

\* The operation of an event goes on unless it fails, is suspended in another
\* one that fails, was left by an exception, or was rolled back with another.
Free(e) ==
  /\ e \notin RollingBack
  /\ reverted[e] => error[e] /\ ~pending[e]
  /\ Outer \in RollingBack => ~Contains(children, e)

\* A mutant of the setter: it does not look at the current state.
SetPendingAlways(e, state) ==
  /\ pending' = [pending EXCEPT ![e] = state]
  /\ count' = IF state THEN count + 1 ELSE count - 1

\* The setter of the property pending.
SetPending(e, state) ==
  /\ pending' = [pending EXCEPT ![e] = state]
  /\ count' = IF pending[e] = state THEN count
              ELSE IF state THEN count + 1 ELSE count - 1

\* The setter raises EventAlreadyFinished for an event that has begun before.
MayBegin(e) == pending[e] \/ ~started[e]

Begin(e) ==
  /\ Free(e) /\ MayBegin(e)
  /\ SetPending(e, TRUE)
  /\ started' = [started EXCEPT ![e] = TRUE]
  /\ done' = [done EXCEPT ![e] = FALSE]
  /\ UNCHANGED <<error, undo, history>>

\* An event also ends after it has failed (__clear_resource_limits).
End(e) ==
  /\ Free(e) /\ started[e]
  /\ SetPending(e, FALSE)
  /\ done' = [done EXCEPT ![e] = TRUE]
  /\ UNCHANGED <<started, error, undo, history>>

Skip(e) ==
  /\ Free(e)
  /\ SetPending(e, FALSE)
  /\ UNCHANGED <<started, done, error, undo, history>>

AddRollbackStep(e) ==
  /\ Free(e) /\ pending[e] /\ ~reverted[e]
  /\ Len(owner) < MaxSteps
  /\ owner' = Append(owner, e)
  /\ steps' = [steps EXCEPT ![e] = Append(@, Len(owner'))]
  /\ UNCHANGED <<status, reverted, children, stack, count, ran>>

\* rename() registers an event each time the nested operation yields it.
ChildEvent(e) ==
  /\ Free(Outer) /\ pending[Outer] /\ ~error[Outer]
  /\ e # Outer /\ Free(e) /\ Len(children) < MaxChildren
  /\ children' = Append(children, e)
  /\ UNCHANGED <<status, reverted, steps, stack, count, history>>

----------------------------------------------------------------------------
(***************************************************************************)
(* fail_generator() and rollback().                                        *)
(***************************************************************************)
Push(e, fails) ==
  /\ reverted' = [reverted EXCEPT ![e] = TRUE]
  /\ stack' = Append(stack, [event |-> e, fails |-> fails, todo |-> <<>>,
                             kids |-> Reverse(Kids(e)), taken |-> FALSE])

\* An event that has failed already is not rolled back again.
\* Outer does not fail within the rollback of another event.
Fail(e) ==
  /\ Free(e) /\ (pending[e] \/ error[e])
  /\ e = Outer => stack = <<>>
  /\ error' = [error EXCEPT ![e] = TRUE]
  /\ IF reverted[e]
     THEN SetPending(e, FALSE) /\ UNCHANGED <<reverted, stack>>
     ELSE Push(e, TRUE) /\ UNCHANGED <<pending, count>>
  /\ UNCHANGED <<started, done, children, steps, history>>

Top == Last(stack)
Replace(frame) == Append(Front(stack), frame)

RollbackChild ==
  /\ stack # <<>> /\ Top.kids # <<>>
  /\ LET kid == Head(Top.kids)
         rest == Replace([Top EXCEPT !.kids = Tail(@)])
     IN  IF reverted[kid]
         THEN stack' = rest /\ UNCHANGED reverted
         ELSE /\ reverted' = [reverted EXCEPT ![kid] = TRUE]
              /\ stack' = Append(rest, [event |-> kid, fails |-> FALSE,
                                        todo |-> <<>>, taken |-> FALSE,
                                        kids |-> Reverse(Kids(kid))])
  /\ UNCHANGED <<status, children, steps, count, history>>

\* Mutants: the steps are run in the order of their registration, or the
\* first one is forgotten.
InOrder(e) == steps[e]
AllButFirst(e) == IF steps[e] = <<>> THEN <<>> ELSE Reverse(Tail(steps[e]))

ToRevert(e) == Reverse(steps[e])

TakeSteps ==
  /\ stack # <<>> /\ Top.kids = <<>> /\ ~Top.taken
  /\ stack' = Replace([Top EXCEPT !.taken = TRUE, !.todo = ToRevert(Top.event)])
  /\ steps' = [steps EXCEPT ![Top.event] = <<>>]
  /\ UNCHANGED <<status, reverted, children, count, history>>

RunStep ==
  /\ stack # <<>> /\ Top.taken /\ Top.todo # <<>>
  /\ ran' = Append(ran, Head(Top.todo))
  /\ stack' = Replace([Top EXCEPT !.todo = Tail(@)])
  /\ UNCHANGED <<status, reverted, children, steps, count, owner>>

\* Everything is rolled back: the event that failed is no longer pending.
Finish ==
  /\ stack # <<>> /\ Top.taken /\ Top.todo = <<>>
  /\ stack' = Front(stack)
  /\ IF Top.fails
     THEN SetPending(Top.event, FALSE)
     ELSE UNCHANGED <<pending, count>>
  /\ UNCHANGED <<started, done, error, reverted, children, steps, history>>

\* A step raises, or the consumer drops the generator: every rollback that
\* runs is left where it is, and the events stay pending.
Interrupt ==
  /\ stack # <<>>
  /\ stack' = <<>>
  /\ UNCHANGED <<status, reverted, children, steps, count, history>>

Use(e) ==
  Begin(e) \/ End(e) \/ Skip(e) \/ AddRollbackStep(e) \/ ChildEvent(e) \/ Fail(e)

Next ==
  \/ \E e \in Events : Use(e)
  \/ RollbackChild \/ TakeSteps \/ RunStep \/ Finish \/ Interrupt

Spec == Init /\ [][Next]_vars

----------------------------------------------------------------------------
(***************************************************************************)
(* Properties.                                                             *)
(***************************************************************************)

\* PENDING_COUNT, from which the nesting of every event is derived, is the
\* number of events that are pending: whether they end, are skipped, fail, end
\* after they failed, or are left behind by an interrupted rollback.
PendingCounted == count = Cardinality({e \in Events : pending[e]})

\* Steps are undone in the reverse order of what they undo, each of them once,
\* and the steps of a child event before those of the event it belongs to.
UndoneInReverse ==
  \A i, k \in DOMAIN ran : i < k =>
    /\ owner[ran[i]] = owner[ran[k]] => ran[i] > ran[k]
    /\ owner[ran[i]] = Outer => ~Contains(children, owner[ran[k]])

\* An event that has failed and is no longer pending has run all of its steps,
\* and those of its child events, except for a child whose own rollback was
\* interrupted: that one stays pending.
Interrupted(e) == error[e] /\ pending[e]

NothingForgotten ==
  \A e \in Events : error[e] /\ ~pending[e] =>
    \A n \in DOMAIN owner :
      owner[n] = e \/ (Contains(Kids(e), owner[n]) /\ ~Interrupted(owner[n])) =>
        Contains(ran, n)
=============================================================================
