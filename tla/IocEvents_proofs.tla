-------------------------- MODULE IocEvents_proofs --------------------------
(***************************************************************************)
(* Proofs about the events of a scope and their rollbacks, for any finite  *)
(* number of events, steps and child events, and whatever is interrupted.  *)
(***************************************************************************)
EXTENDS IocEvents, FiniteSetTheorems, SequenceTheorems, TLAPS

Pending == {e \in Events : pending[e]}

CountInv == pending \in [Events -> BOOLEAN] /\ count = Cardinality(Pending)

\* The setter keeps the count, whichever state it sets and finds.
LEMMA SetPendingCounts ==
  ASSUME NEW e \in Events, NEW state \in BOOLEAN, CountInv, SetPending(e, state)
  PROVE  CountInv'
<1>1. IsFiniteSet(Pending)
  <2>1. Pending \subseteq Events
    BY DEF Pending
  <2> QED BY <2>1, FS_Subset, EventAssumption
<1>2. pending' \in [Events -> BOOLEAN]
  BY DEF CountInv, SetPending
<1>3. CASE pending[e] = state
  <2>1. pending' = pending
    BY <1>3 DEF CountInv, SetPending
  <2> QED BY <1>2, <1>3, <2>1 DEF CountInv, SetPending, Pending
<1>4. CASE pending[e] # state /\ state
  <2>1. Pending' = Pending \cup {e} /\ e \notin Pending
    BY <1>4 DEF CountInv, SetPending, Pending
  <2>2. Cardinality(Pending') = Cardinality(Pending) + 1
    BY <1>1, <2>1, FS_AddElement
  <2> QED BY <1>2, <1>4, <2>2 DEF CountInv, SetPending
<1>5. CASE pending[e] # state /\ ~state
  <2>1. Pending' = Pending \ {e} /\ e \in Pending
    BY <1>5 DEF CountInv, SetPending, Pending
  <2>2. Cardinality(Pending') = Cardinality(Pending) - 1
    BY <1>1, <2>1, FS_RemoveElement
  <2> QED BY <1>2, <1>5, <2>2 DEF CountInv, SetPending
<1> QED BY <1>3, <1>4, <1>5

LEMMA UnchangedCounts ==
  ASSUME CountInv, UNCHANGED <<pending, count>>
  PROVE  CountInv'
BY DEF CountInv, Pending

LEMMA InitCounts == Init => CountInv
<1> SUFFICES ASSUME Init PROVE CountInv
  OBVIOUS
<1>1. Pending = {}
  BY DEF Init, Pending
<1> QED BY <1>1, FS_EmptySet DEF Init, CountInv

----------------------------------------------------------------------------
(***************************************************************************)
(* The generators that run are those of events: the event of the rollback  *)
(* that finishes is one of Events, for which the setter counts.            *)
(***************************************************************************)
StackInv ==
  /\ stack \in Seq(Frames)
  /\ children \in Seq(Events)
  /\ steps \in [Events -> Seq(StepNames)]
  /\ owner \in Seq(Events)

LEMMA ReverseInSeq ==
  ASSUME NEW S, NEW s \in Seq(S)
  PROVE  Reverse(s) \in Seq(S)
<1> DEFINE n == Len(s)
<1>1. n \in Nat /\ \A i \in 1 .. n : s[i] \in S
  BY LenProperties, ElementOfSeq
<1>2. \A i \in 1 .. n : n - i + 1 \in 1 .. n
  BY <1>1
<1>3. Reverse(s) \in [1 .. n -> S]
  BY <1>1, <1>2 DEF Reverse
<1> QED BY <1>1, <1>3, SeqDef

LEMMA KidsInSeq ==
  ASSUME StackInv, NEW e \in Events
  PROVE  Reverse(Kids(e)) \in Seq(Events)
BY ReverseInSeq, EmptySeq DEF StackInv, Kids

LEMMA TopFrame ==
  ASSUME StackInv, stack # <<>>
  PROVE  Top \in Frames /\ Front(stack) \in Seq(Frames)
<1> DEFINE n == Len(stack)
<1>1. n \in Nat \ {0}
  BY EmptySeq DEF StackInv
<1>2. \A i \in 1 .. n : stack[i] \in Frames
  BY ElementOfSeq DEF StackInv
<1>3. \A i \in 1 .. n - 1 : stack[i] \in Frames
  BY <1>1, <1>2
<1>4. SubSeq(stack, 1, n - 1) \in Seq(Frames)
  BY <1>1, <1>3, SubSeqProperties
<1> QED BY <1>1, <1>2, <1>4 DEF Top, Last, Front

LEMMA ReplaceTyped ==
  ASSUME StackInv, stack # <<>>, NEW frame \in Frames
  PROVE  Replace(frame) \in Seq(Frames)
BY TopFrame DEF Replace

\* Pushing the generator of an event keeps a stack of generators.
LEMMA PushTyped ==
  ASSUME StackInv, NEW s \in Seq(Frames), NEW e \in Events, NEW fails \in BOOLEAN
  PROVE  Append(s, [event |-> e, fails |-> fails, todo |-> <<>>,
                    kids |-> Reverse(Kids(e)), taken |-> FALSE]) \in Seq(Frames)
<1>1. [event |-> e, fails |-> fails, todo |-> <<>>,
       kids |-> Reverse(Kids(e)), taken |-> FALSE] \in Frames
  BY KidsInSeq, EmptySeq DEF Frames
<1> QED BY <1>1

LEMMA InitStack == Init => StackInv
BY EmptySeq DEF Init, StackInv

LEMMA StepStack ==
  ASSUME StackInv, [Next]_vars
  PROVE  StackInv'
<1> USE DEF undo, history
<1>1. CASE UNCHANGED vars
  BY <1>1 DEF StackInv, vars
<1>2. ASSUME NEW e \in Events, Begin(e) \/ End(e) \/ Skip(e)
      PROVE  StackInv'
  BY <1>2 DEF StackInv, Begin, End, Skip
<1>3. ASSUME NEW e \in Events, AddRollbackStep(e)
      PROVE  StackInv'
  <2>1. owner' \in Seq(Events) /\ Len(owner') = Len(owner) + 1
        /\ Len(owner) \in Nat /\ Len(owner) < MaxSteps
    BY <1>3 DEF StackInv, AddRollbackStep
  <2>2. Len(owner') \in StepNames
    BY <2>1, StepAssumption DEF StepNames
  <2>3. steps' \in [Events -> Seq(StepNames)]
    BY <1>3, <2>2 DEF StackInv, AddRollbackStep
  <2> QED BY <1>3, <2>1, <2>3 DEF StackInv, AddRollbackStep
<1>4. ASSUME NEW e \in Events, ChildEvent(e)
      PROVE  StackInv'
  BY <1>4 DEF StackInv, ChildEvent
<1>5. ASSUME NEW e \in Events, Fail(e)
      PROVE  StackInv'
  <2>1. stack' \in Seq(Frames)
    BY <1>5, PushTyped DEF Fail, Push, StackInv
  <2> QED BY <1>5, <2>1 DEF Fail, StackInv
<1>6. CASE RollbackChild
  <2> DEFINE rest == Replace([Top EXCEPT !.kids = Tail(@)])
             kid == Head(Top.kids)
  <2>1. Top \in Frames /\ Top.kids # <<>> /\ stack # <<>>
    BY <1>6, TopFrame DEF RollbackChild
  <2>2. kid \in Events /\ Tail(Top.kids) \in Seq(Events)
    BY <2>1, HeadTailProperties DEF Frames
  <2>3. [Top EXCEPT !.kids = Tail(@)] \in Frames
    BY <2>1, <2>2 DEF Frames
  <2>4. rest \in Seq(Frames)
    BY <2>1, <2>3, ReplaceTyped
  <2> HIDE DEF rest
  <2>5. stack' \in Seq(Frames)
    <3>1. stack' = rest
          \/ stack' = Append(rest, [event |-> kid, fails |-> FALSE, todo |-> <<>>,
                                    kids |-> Reverse(Kids(kid)), taken |-> FALSE])
      BY <1>6 DEF RollbackChild, rest
    <3> QED BY <2>2, <2>4, <3>1, PushTyped
  <2> QED BY <1>6, <2>5 DEF RollbackChild, StackInv
<1>7. CASE TakeSteps
  <2>1. Top \in Frames /\ stack # <<>>
    BY <1>7, TopFrame DEF TakeSteps
  <2>2. ToRevert(Top.event) \in Seq(StepNames)
    BY <2>1, ReverseInSeq DEF Frames, StackInv, ToRevert
  <2>3. [Top EXCEPT !.taken = TRUE, !.todo = ToRevert(Top.event)] \in Frames
    BY <2>1, <2>2 DEF Frames
  <2>4. stack' \in Seq(Frames)
    BY <1>7, <2>1, <2>3, ReplaceTyped DEF TakeSteps
  <2>5. steps' \in [Events -> Seq(StepNames)]
    BY <1>7, <2>1, EmptySeq DEF TakeSteps, StackInv
  <2> QED BY <1>7, <2>4, <2>5 DEF TakeSteps, StackInv
<1>8. CASE RunStep
  <2>1. Top \in Frames /\ stack # <<>> /\ Top.todo # <<>>
    BY <1>8, TopFrame DEF RunStep
  <2>2. [Top EXCEPT !.todo = Tail(@)] \in Frames
    BY <2>1, HeadTailProperties DEF Frames
  <2>3. stack' \in Seq(Frames)
    BY <1>8, <2>1, <2>2, ReplaceTyped DEF RunStep
  <2> QED BY <1>8, <2>3 DEF RunStep, StackInv
<1>9. CASE Finish
  BY <1>9, TopFrame DEF Finish, StackInv
<1>10. CASE Interrupt
  BY <1>10, EmptySeq DEF Interrupt, StackInv
<1> QED
  BY <1>1, <1>2, <1>3, <1>4, <1>5, <1>6, <1>7, <1>8, <1>9, <1>10 DEF Next, Use

----------------------------------------------------------------------------
\* Every action changes pending through its setter, or not at all.
LEMMA StepCounts ==
  ASSUME StackInv, CountInv, [Next]_vars
  PROVE  CountInv'
<1> USE DEF status
<1>1. CASE UNCHANGED vars
  BY <1>1, UnchangedCounts DEF vars
<1>2. ASSUME NEW e \in Events, Begin(e) \/ End(e) \/ Skip(e)
      PROVE  CountInv'
  BY <1>2, SetPendingCounts DEF Begin, End, Skip
<1>3. ASSUME NEW e \in Events, AddRollbackStep(e) \/ ChildEvent(e)
      PROVE  CountInv'
  BY <1>3, UnchangedCounts DEF AddRollbackStep, ChildEvent
<1>4. ASSUME NEW e \in Events, Fail(e)
      PROVE  CountInv'
  BY <1>4, SetPendingCounts, UnchangedCounts DEF Fail
<1>5. CASE RollbackChild \/ TakeSteps \/ RunStep \/ Interrupt
  BY <1>5, UnchangedCounts DEF RollbackChild, TakeSteps, RunStep, Interrupt
<1>6. CASE Finish
  <2>1. Top.event \in Events
    BY <1>6, TopFrame DEF Finish, Frames
  <2> QED BY <1>6, <2>1, SetPendingCounts, UnchangedCounts DEF Finish
<1> QED BY <1>1, <1>2, <1>3, <1>4, <1>5, <1>6 DEF Next, Use

----------------------------------------------------------------------------
(***************************************************************************)
(* The inductive invariant of the rollbacks.                               *)
(***************************************************************************)
Numbers(e) == {n \in DOMAIN owner : owner[n] = e}
Children == Range(children)

Ascending(s) == \A i, k \in DOMAIN s : i < k => s[i] < s[k]
Descending(s) == \A i, k \in DOMAIN s : i < k => s[i] > s[k]

\* An event that has failed was rolled back when it failed, and has not begun
\* again.  Only Outer rolls back events that have not failed.
Failed ==
  /\ Outer \notin Children
  /\ \A e \in Events :
       /\ pending[e] \/ error[e] => started[e]
       /\ error[e] => reverted[e]
       /\ reverted[e] /\ ~error[e] => reverted[Outer]

\* What each generator on the stack has to do.
Framed ==
  \A i \in DOMAIN stack :
    LET f == stack[i]
        e == f.event
    IN  /\ reverted[e] /\ f.fails = error[e] /\ (f.fails => pending[e])
        /\ f.taken => f.kids = <<>> /\ steps[e] = <<>>
        /\ e # Outer => f.kids = <<>>
        /\ Range(f.kids) \subseteq Children
        /\ ~f.taken => f.todo = <<>>
        /\ Range(f.todo) \subseteq Numbers(e) /\ Descending(f.todo)

\* Every event is rolled back once, and Outer not within another rollback.
Alone ==
  /\ \A i, k \in DOMAIN stack : stack[i].event = stack[k].event => i = k
  /\ \A i \in DOMAIN stack : stack[i].event = Outer => i = 1

\* Where the steps of an event are: with the event until its rollback takes
\* them, then with the generator until they are run.
Registered ==
  /\ \A e \in Events : Range(steps[e]) \subseteq Numbers(e) /\ Ascending(steps[e])
  /\ Range(ran) \subseteq DOMAIN owner

Waiting(e) == ~reverted[e] \/ \E i \in DOMAIN stack : stack[i].event = e /\ ~stack[i].taken

Placed ==
  /\ \A e \in Events : Waiting(e) =>
       Numbers(e) \subseteq Range(steps[e]) /\ Numbers(e) \intersect Range(ran) = {}
  /\ \A i \in DOMAIN stack :
       LET f == stack[i]
       IN  f.taken => \A n \in Numbers(f.event) :
             IF n \in Range(ran) THEN \A m \in Range(f.todo) : n > m
                                 ELSE n \in Range(f.todo)
  /\ \A e \in Events : error[e] /\ ~pending[e] => Numbers(e) \subseteq Range(ran)

\* Outer visits every child event before it takes its own steps.
OuterOver == error[Outer] /\ ~pending[Outer]
OuterRan == \E n \in Range(ran) : owner[n] = Outer

Visited ==
  /\ \A i \in DOMAIN stack : stack[i].event = Outer =>
       /\ \A c \in Children : reverted[c] \/ c \in Range(stack[i].kids)
       /\ stack[i].taken => Children \intersect RollingBack = {}
  /\ OuterOver \/ OuterRan => \A c \in Children : reverted[c] /\ c \notin RollingBack
  /\ OuterOver \/ Outer \in RollingBack =>
       \A c \in Children : reverted[c] /\ c \notin RollingBack /\ ~Interrupted(c) =>
         Numbers(c) \subseteq Range(ran)

EventsInv ==
  /\ TypeOK /\ CountInv /\ Failed /\ Framed /\ Alone /\ Registered /\ Placed /\ Visited
  /\ UndoneInReverse
----------------------------------------------------------------------------
(***************************************************************************)
(* Sequences that grow and shrink, and what is in them.                    *)
(***************************************************************************)
LEMMA RangeEmpty ==
  Range(<<>>) = {} /\ Ascending(<<>>) /\ Descending(<<>>)
<1>1. DOMAIN <<>> = {}
  OBVIOUS
<1> QED
  BY <1>1 DEF Range, Ascending, Descending

LEMMA AppendIs ==
  ASSUME NEW S, NEW s \in Seq(S), NEW e \in S
  PROVE  /\ Append(s, e) \in Seq(S) /\ Len(s) \in Nat
         /\ DOMAIN s = 1 .. Len(s) /\ Len(Append(s, e)) = Len(s) + 1
         /\ DOMAIN Append(s, e) = DOMAIN s \union {Len(s) + 1} /\ Len(s) + 1 \notin DOMAIN s
         /\ Append(s, e)[Len(s) + 1] = e
         /\ \A i \in DOMAIN s : Append(s, e)[i] = s[i]
         /\ Range(Append(s, e)) = Range(s) \union {e}
<1> DEFINE t == Append(s, e)
<1>1. /\ t \in Seq(S) /\ Len(s) \in Nat /\ DOMAIN s = 1 .. Len(s) /\ Len(t) = Len(s) + 1
      /\ DOMAIN t = DOMAIN s \union {Len(s) + 1} /\ Len(s) + 1 \notin DOMAIN s
      /\ \A i \in DOMAIN s : t[i] = s[i]
      /\ t[Len(s) + 1] = e
  OBVIOUS
<1> HIDE DEF t
<1>2. Range(t) = Range(s) \union {e}
  BY <1>1 DEF Range
<1> QED
  BY <1>1, <1>2 DEF t

LEMMA BeginIs ==
  ASSUME NEW S, NEW s \in Seq(S), NEW n \in 0 .. Len(s)
  PROVE  LET t == SubSeq(s, 1, n)
         IN t \in Seq(S) /\ Len(t) = n /\ \A i \in 1 .. n : t[i] = s[i]
  OBVIOUS

LEMMA FrontIs ==
  ASSUME NEW S, NEW s \in Seq(S), s # <<>>
  PROVE  /\ Front(s) \in Seq(S) /\ Len(s) \in Nat /\ Len(s) > 0
         /\ DOMAIN s = 1 .. Len(s) /\ Len(Front(s)) = Len(s) - 1
         /\ DOMAIN Front(s) = DOMAIN s \ {Len(s)}
         /\ \A i \in DOMAIN Front(s) : Front(s)[i] = s[i]
<1> DEFINE n == Len(s) - 1
<1>1. n \in 0 .. Len(s) /\ Len(s) \in Nat /\ Len(s) > 0 /\ DOMAIN s = 1 .. Len(s)
  OBVIOUS
<1> HIDE DEF n
<1>2. LET t == SubSeq(s, 1, n)
      IN t \in Seq(S) /\ Len(t) = n /\ \A i \in 1 .. n : t[i] = s[i]
  BY <1>1, BeginIs
<1>3. /\ Front(s) \in Seq(S) /\ Len(Front(s)) = n
      /\ \A i \in 1 .. n : Front(s)[i] = s[i]
  BY <1>2 DEF Front, n
<1>4. DOMAIN Front(s) = 1 .. n
  BY <1>3
<1> QED
  BY <1>1, <1>3, <1>4 DEF n

LEMMA TailIs ==
  ASSUME NEW S, NEW s \in Seq(S), s # <<>>
  PROVE  /\ Tail(s) \in Seq(S) /\ Head(s) \in S
         /\ Range(s) = Range(Tail(s)) \union {Head(s)}
         /\ S \subseteq Int /\ Descending(s) =>
              /\ Descending(Tail(s))
              /\ \A n \in Range(Tail(s)) : Head(s) > n
<1> DEFINE t == Tail(s)
<1>1. /\ Len(s) \in Nat /\ Len(s) > 0 /\ DOMAIN s = 1 .. Len(s)
      /\ t \in Seq(S) /\ DOMAIN t = 1 .. Len(s) - 1
      /\ \A i \in 1 .. Len(s) - 1 : t[i] = s[i + 1]
      /\ Head(s) = s[1] /\ s[1] \in S
  OBVIOUS
<1> HIDE DEF t
<1>2. /\ 1 \in DOMAIN s
      /\ \A i \in DOMAIN s : i = 1 \/ (i - 1 \in DOMAIN t /\ t[i - 1] = s[i])
      /\ \A i \in DOMAIN t : i + 1 \in DOMAIN s /\ i + 1 > 1 /\ t[i] = s[i + 1]
  BY <1>1
<1>3. Range(s) = Range(t) \union {s[1]}
  <2>1. ASSUME NEW i \in DOMAIN s
        PROVE  s[i] \in Range(t) \union {s[1]}
    BY <1>2 DEF Range
  <2>2. ASSUME NEW i \in DOMAIN t
        PROVE  t[i] \in Range(s)
    BY <1>2 DEF Range
  <2>3. s[1] \in Range(s)
    BY <1>2 DEF Range
  <2> QED
    BY <2>1, <2>2, <2>3 DEF Range
<1>4. ASSUME Descending(s)
      PROVE  Descending(t) /\ \A n \in Range(t) : s[1] > n
  <2>1. ASSUME NEW i \in DOMAIN t, NEW k \in DOMAIN t, i < k
        PROVE  t[i] > t[k]
    <3>1. i + 1 < k + 1
      BY <1>1, <2>1
    <3> QED
      BY <1>2, <1>4, <3>1 DEF Descending
  <2>2. ASSUME NEW i \in DOMAIN t
        PROVE  s[1] > t[i]
    BY <1>2, <1>4 DEF Descending
  <2> QED
    BY <2>1, <2>2 DEF Descending, Range
<1> QED
  BY <1>1, <1>3, <1>4 DEF t

LEMMA ReverseIs ==
  ASSUME NEW S, NEW s \in Seq(S)
  PROVE  /\ Range(Reverse(s)) = Range(s)
         /\ Ascending(s) => Descending(Reverse(s))
<1> DEFINE r == Reverse(s)
           back(i) == Len(s) - i + 1
<1>1. /\ Len(s) \in Nat /\ DOMAIN s = 1 .. Len(s)
      /\ DOMAIN r = 1 .. Len(s) /\ \A i \in 1 .. Len(s) : r[i] = s[back(i)]
  BY DEF Reverse
<1>2. \A i \in 1 .. Len(s) : back(i) \in 1 .. Len(s) /\ back(back(i)) = i
  BY <1>1
<1>3. \A i, k \in 1 .. Len(s) : i < k => back(k) < back(i)
  BY <1>1
<1> HIDE DEF r, back
<1>4. Range(r) = Range(s)
  BY <1>1, <1>2 DEF Range
<1>5. ASSUME \A i, k \in DOMAIN s : i < k => s[i] < s[k],
             NEW i \in DOMAIN r, NEW k \in DOMAIN r, i < k
      PROVE  r[k] < r[i]
  BY <1>1, <1>2, <1>3, <1>5
<1>6. Ascending(s) => \A i, k \in DOMAIN r : i < k => r[k] < r[i]
  BY <1>5 DEF Ascending
<1>7. (\A i, k \in DOMAIN r : i < k => r[k] < r[i]) => Descending(r)
  BY DEF Descending
<1> QED
  BY <1>4, <1>6, <1>7 DEF r

LEMMA AscendingAppend ==
  ASSUME NEW s \in Seq(Int), NEW n \in Int, Ascending(s), \A m \in Range(s) : m < n
  PROVE  Ascending(Append(s, n))
<1> DEFINE t == Append(s, n)
<1>1. /\ Len(s) \in Nat /\ DOMAIN s = 1 .. Len(s)
      /\ DOMAIN t = DOMAIN s \union {Len(s) + 1} /\ t[Len(s) + 1] = n
      /\ \A i \in DOMAIN s : t[i] = s[i]
  OBVIOUS
<1> HIDE DEF t
<1>2. ASSUME NEW i \in DOMAIN t, NEW k \in DOMAIN t, i < k
      PROVE  t[i] < t[k]
  <2>1. i \in DOMAIN s
    BY <1>1, <1>2
  <2>2. s[i] \in Range(s)
    BY <2>1 DEF Range
  <2> QED
    BY <1>1, <1>2, <2>1, <2>2 DEF Ascending
<1> QED
  BY <1>2 DEF Ascending, t

----------------------------------------------------------------------------
(***************************************************************************)
(* The stack of rollbacks.                                                 *)
(***************************************************************************)
Depth == Len(stack)

LEMMA StackIs ==
  ASSUME EventsInv
  PROVE  /\ StackInv /\ stack \in Seq(Frames) /\ Depth \in Nat /\ DOMAIN stack = 1 .. Depth
         /\ \A i \in DOMAIN stack : stack[i] \in Frames /\ stack[i].event \in Events
         /\ \A i \in DOMAIN stack : stack[i].event \in RollingBack
         /\ ran \in Seq(StepNames) /\ owner \in Seq(Events) /\ children \in Seq(Events)
<1>1. StackInv /\ stack \in Seq(Frames) /\ ran \in Seq(StepNames)
  BY DEF EventsInv, TypeOK, StackInv
<1>2. Depth \in Nat /\ DOMAIN stack = 1 .. Depth /\ \A i \in DOMAIN stack : stack[i] \in Frames
  BY <1>1 DEF Depth
<1> QED
  BY <1>1, <1>2 DEF Frames, RollingBack, StackInv

LEMMA TopIs ==
  ASSUME EventsInv, stack # <<>>
  PROVE  /\ Depth \in DOMAIN stack /\ Top = stack[Depth] /\ Top \in Frames
         /\ Top.event \in Events /\ Top.event \in RollingBack
         /\ Top.fails \in BOOLEAN /\ Top.taken \in BOOLEAN
         /\ Top.kids \in Seq(Events) /\ Top.todo \in Seq(StepNames)
<1>1. Depth > 0
  BY StackIs DEF Depth
<1>2. Top = stack[Depth]
  BY DEF Top, Last, Depth
<1>3. Depth \in DOMAIN stack
  BY <1>1, StackIs
<1>4. Top \in Frames /\ Top.event \in RollingBack
  BY <1>2, <1>3, StackIs
<1> QED
  BY <1>2, <1>3, <1>4 DEF Frames

\* The innermost rollback goes on.
LEMMA ReplaceIs ==
  ASSUME EventsInv, stack # <<>>, NEW f \in Frames
  PROVE  LET s == Replace(f)
         IN  /\ s \in Seq(Frames) /\ Len(s) = Depth /\ DOMAIN s = DOMAIN stack
             /\ s[Depth] = f
             /\ \A i \in DOMAIN stack : i # Depth => s[i] = stack[i]
<1> DEFINE t == Front(stack)
<1>1. /\ t \in Seq(Frames) /\ Depth \in Nat /\ Depth > 0 /\ Len(t) = Depth - 1
      /\ DOMAIN stack = 1 .. Depth /\ DOMAIN t = DOMAIN stack \ {Depth}
      /\ \A i \in DOMAIN t : t[i] = stack[i]
  BY StackIs, FrontIs DEF Depth
<1> HIDE DEF t
<1> DEFINE s == Append(t, f)
<1>2. /\ s \in Seq(Frames) /\ Len(s) = Len(t) + 1 /\ DOMAIN s = DOMAIN t \union {Len(t) + 1}
      /\ s[Len(t) + 1] = f /\ \A i \in DOMAIN t : s[i] = t[i]
  BY <1>1, AppendIs
<1> HIDE DEF s
<1>3. Len(t) + 1 = Depth
  BY <1>1
<1>4. /\ s \in Seq(Frames) /\ Len(s) = Depth /\ DOMAIN s = DOMAIN stack /\ s[Depth] = f
      /\ \A i \in DOMAIN stack : i # Depth => s[i] = stack[i]
  BY <1>1, <1>2, <1>3
<1> QED
  BY <1>4 DEF Replace, s, t

\* A rollback goes on for the same event: the others stay as they are.
LEMMA SameEvents ==
  ASSUME EventsInv, stack # <<>>, NEW f \in Frames, stack' = Replace(f),
         f.event = Top.event
  PROVE  /\ Depth \in DOMAIN stack /\ DOMAIN stack' = DOMAIN stack
         /\ stack[Depth] = Top /\ stack'[Depth] = f
         /\ \A i \in DOMAIN stack : i # Depth => stack'[i] = stack[i]
         /\ \A i \in DOMAIN stack : stack'[i].event = stack[i].event
         /\ \A i \in DOMAIN stack : i # Depth => stack[i].event # Top.event
         /\ UNCHANGED RollingBack
         /\ Alone'
<1>1. /\ DOMAIN stack' = DOMAIN stack /\ stack'[Depth] = f
      /\ \A i \in DOMAIN stack : i # Depth => stack'[i] = stack[i]
  BY ReplaceIs
<1>2. Depth \in DOMAIN stack /\ stack[Depth] = Top
  BY TopIs
<1>3. \A i \in DOMAIN stack : stack'[i].event = stack[i].event
  BY <1>1, <1>2
<1>4. UNCHANGED RollingBack
  BY <1>1, <1>3 DEF RollingBack
<1>5. Alone'
  BY <1>1, <1>3 DEF Alone, EventsInv
<1>6. \A i \in DOMAIN stack : i # Depth => stack[i].event # Top.event
  BY <1>2 DEF Alone, EventsInv
<1> QED
  BY <1>1, <1>2, <1>3, <1>4, <1>5, <1>6

LEMMA WaitingOuter ==
  ASSUME EventsInv, Waiting(Outer)
  PROVE  ~OuterRan
BY EventAssumption DEF EventsInv, Placed, OuterRan, Numbers, Registered

\* A free event is not rolled back, and has ended if it has failed.
LEMMA FreeIs ==
  ASSUME EventsInv, NEW e \in Events, Free(e)
  PROVE  /\ e \notin RollingBack
         /\ \A i \in DOMAIN stack : stack[i].event # e
         /\ error[e] => reverted[e] /\ ~pending[e]
         /\ reverted[e] => error[e]
         /\ Outer \in RollingBack => e \notin Children
<1>1. Outer \in RollingBack => e \notin Children
  <2>1. children \in Seq(Events)
    BY StackIs
  <2> QED
    BY <2>1 DEF Free, Contains, Children, Range
<1> QED
  BY <1>1 DEF Free, RollingBack, EventsInv, Failed

----------------------------------------------------------------------------
(***************************************************************************)
(* The steps.                                                              *)
(***************************************************************************)

\* The types follow from what is known of the stack and of the count.
LEMMA TypeStep ==
  ASSUME EventsInv, Next
  PROVE  TypeOK' /\ CountInv'
<1>1. StackInv' /\ CountInv'
  BY StackIs, StepStack, StepCounts DEF EventsInv
<1>2. count' \in Nat
  <2>1. IsFiniteSet(Pending')
    <3>1. Pending' \subseteq Events
      BY DEF Pending
    <3> QED BY <3>1, FS_Subset, EventAssumption
  <2> QED
    BY <1>1, <2>1, FS_CardinalityType DEF CountInv
<1>3. /\ started' \in [Events -> BOOLEAN] /\ done' \in [Events -> BOOLEAN]
      /\ error' \in [Events -> BOOLEAN]
  BY DEF Next, Use, Begin, End, Skip, AddRollbackStep, ChildEvent, Fail, RollbackChild,
         TakeSteps, RunStep, Finish, Interrupt, EventsInv, TypeOK, status
<1>4. reverted' \in [Events -> BOOLEAN]
  BY DEF Next, Use, Begin, End, Skip, AddRollbackStep, ChildEvent, Fail, Push,
         RollbackChild, TakeSteps, RunStep, Finish, Interrupt, EventsInv, TypeOK, undo
<1>5. Len(children') <= MaxChildren
  <2>1. CASE children' = children
    BY <2>1 DEF EventsInv, TypeOK
  <2>2. CASE \E e \in Events : ChildEvent(e)
    <3>1. PICK e \in Events : children' = Append(children, e) /\ Len(children) < MaxChildren
      BY <2>2 DEF ChildEvent
    <3> QED
      BY <3>1, StackIs, StepAssumption
  <2> QED
    BY <2>1, <2>2 DEF Next, Use, Begin, End, Skip, AddRollbackStep, Fail, RollbackChild,
         TakeSteps, RunStep, Finish, Interrupt, undo
<1>6. Len(owner') <= MaxSteps
  <2>1. CASE owner' = owner
    BY <2>1 DEF EventsInv, TypeOK
  <2>2. CASE \E e \in Events : AddRollbackStep(e)
    <3>1. PICK e \in Events : owner' = Append(owner, e) /\ Len(owner) < MaxSteps
      BY <2>2 DEF AddRollbackStep
    <3> QED
      BY <3>1, StackIs, StepAssumption
  <2> QED
    BY <2>1, <2>2 DEF Next, Use, Begin, End, Skip, ChildEvent, Fail, RollbackChild,
         TakeSteps, RunStep, Finish, Interrupt, history
<1>7. ran' \in Seq(StepNames)
  <2>1. CASE ran' = ran
    BY <2>1 DEF EventsInv, TypeOK
  <2>2. CASE RunStep
    <3>1. Head(Top.todo) \in StepNames
      BY <2>2, TopIs DEF RunStep
    <3> QED
      BY <2>2, <3>1, StackIs DEF RunStep
  <2> QED
    BY <2>1, <2>2 DEF Next, Use, Begin, End, Skip, AddRollbackStep, ChildEvent, Fail,
         RollbackChild, TakeSteps, Finish, Interrupt, history
<1> QED
  BY <1>1, <1>2, <1>3, <1>4, <1>5, <1>6, <1>7 DEF TypeOK, CountInv, StackInv

Rest == Failed /\ Framed /\ Alone /\ Registered /\ Placed /\ Visited /\ UndoneInReverse

\* An event begins, ends or is skipped.
LEMMA FreeStep ==
  ASSUME EventsInv, NEW e \in Events, Free(e), NEW state \in BOOLEAN,
         pending' = [pending EXCEPT ![e] = state],
         state => started'[e], \A x \in Events : started[x] => started'[x],
         error[e] => ~state,
         UNCHANGED <<error, reverted, children, steps, stack, owner, ran>>
  PROVE  Rest'
<1>1. /\ e \notin RollingBack /\ \A i \in DOMAIN stack : stack[i].event # e
      /\ error[e] => reverted[e] /\ ~pending[e]
  BY FreeIs
<1>2. /\ pending \in [Events -> BOOLEAN]
      /\ \A x \in Events : x # e => pending'[x] = pending[x]
      /\ pending'[e] = state
  BY DEF EventsInv, TypeOK
<1>3. Failed'
  BY <1>2 DEF EventsInv, Failed, Children
<1>4. /\ UNCHANGED <<RollingBack, Children, OuterRan>> /\ \A x : Numbers(x)' = Numbers(x)
      /\ \A x : Waiting(x)' = Waiting(x)
  BY DEF RollingBack, Children, OuterRan, Numbers, Waiting
<1>5. Framed'
  BY <1>1, <1>2, <1>4, StackIs DEF EventsInv, Framed
<1>6. Alone' /\ Registered' /\ UndoneInReverse'
  BY <1>4 DEF EventsInv, Alone, Registered, UndoneInReverse
<1>7. Placed'
  BY <1>1, <1>2, <1>4 DEF EventsInv, Placed
<1>8. OuterOver' => OuterOver
  BY <1>1, <1>2, EventAssumption DEF OuterOver
<1>9. \A c \in Children : c \in Events
  BY StackIs DEF Children, Range
<1>10. \A c \in Children : Interrupted(c) => Interrupted(c)'
  BY <1>1, <1>2, <1>9 DEF Interrupted
<1>11. Visited'
  BY <1>4, <1>8, <1>10 DEF EventsInv, Visited
<1> QED
  BY <1>3, <1>5, <1>6, <1>7, <1>11 DEF Rest

LEMMA AddStep ==
  ASSUME EventsInv, NEW e \in Events, AddRollbackStep(e)
  PROVE  Rest'
<1> DEFINE n == Len(owner) + 1
<1>1. /\ Free(e) /\ ~reverted[e] /\ owner' = Append(owner, e)
      /\ steps' = [steps EXCEPT ![e] = Append(@, Len(owner'))]
      /\ UNCHANGED <<pending, started, error, reverted, children, stack, ran>>
  BY DEF AddRollbackStep, status
<1>2. /\ e \notin RollingBack /\ \A i \in DOMAIN stack : stack[i].event # e
      /\ error[e] => reverted[e]
  BY <1>1, FreeIs
<1>3. /\ Len(owner) \in Nat /\ DOMAIN owner = 1 .. Len(owner)
      /\ DOMAIN owner' = DOMAIN owner \union {n} /\ n \notin DOMAIN owner
      /\ owner'[n] = e /\ Len(owner') = n
      /\ \A m \in DOMAIN owner : owner'[m] = owner[m]
  BY <1>1, StackIs, AppendIs
<1>4. /\ steps \in [Events -> Seq(StepNames)] /\ steps' \in [Events -> Seq(StepNames)]
      /\ n \in StepNames
  <2>1. n \in StepNames
    BY <1>3, StepAssumption DEF AddRollbackStep, StepNames
  <2> QED
    BY <1>1, <1>3, <2>1 DEF EventsInv, TypeOK
<1>5. /\ \A x \in Events : x # e => steps'[x] = steps[x]
      /\ steps'[e] = Append(steps[e], n)
      /\ Range(steps'[e]) = Range(steps[e]) \union {n}
  <2>1. /\ \A x \in Events : x # e => steps'[x] = steps[x]
        /\ steps'[e] = Append(steps[e], n)
    BY <1>1, <1>3, <1>4
  <2> QED
    BY <1>4, <2>1, AppendIs
<1> HIDE DEF n
<1>6. \A x \in Events : Numbers(x)' = IF x = e THEN Numbers(x) \union {n} ELSE Numbers(x)
  BY <1>3 DEF Numbers
<1>7. Range(ran) \subseteq DOMAIN owner
  BY DEF EventsInv, Registered
<1>8. /\ UNCHANGED <<RollingBack, Children, OuterOver>> /\ \A x : Waiting(x)' = Waiting(x)
      /\ OuterRan' = OuterRan /\ \A x : Interrupted(x)' = Interrupted(x)
  BY <1>1, <1>3, <1>7 DEF RollingBack, Children, OuterOver, OuterRan, Waiting, Interrupted
<1>9. Failed' /\ Alone'
  BY <1>1, <1>8 DEF EventsInv, Failed, Alone
<1>10. Framed'
  <2>1. Framed
    BY DEF EventsInv
  <2>2. \A i \in DOMAIN stack : /\ stack[i].event # e /\ stack[i].event \in Events
                                 /\ steps'[stack[i].event] = steps[stack[i].event]
    BY <1>2, <1>5, StackIs
  <2>3. \A i \in DOMAIN stack : Numbers(stack[i].event)' = Numbers(stack[i].event)
    BY <1>1, <1>6, <2>2
  <2> QED
    BY <1>1, <1>8, <2>1, <2>2, <2>3 DEF Framed
<1>11. Registered'
  <2>1. ASSUME NEW x \in Events
        PROVE  Range(steps'[x]) \subseteq Numbers(x)' /\ Ascending(steps'[x])
    <3>1. Range(steps[x]) \subseteq Numbers(x) /\ Ascending(steps[x])
      BY DEF EventsInv, Registered
    <3>2. CASE x # e
      BY <1>5, <1>6, <3>1, <3>2
    <3>3. CASE x = e
      <4>1. \A m \in Range(steps[e]) : m < n
        BY <1>3, <3>1, <3>3 DEF Numbers, n
      <4>2. steps[e] \in Seq(Int) /\ n \in Int
        <5>1. steps[e] \in Seq(StepNames) /\ StepNames \subseteq Int
          BY <1>4 DEF StepNames
        <5> QED
          BY <1>4, <5>1, SeqMonotonic
      <4>3. Ascending(Append(steps[e], n))
        BY <3>1, <3>3, <4>1, <4>2, AscendingAppend
      <4> QED
        BY <1>5, <1>6, <3>1, <3>3, <4>3
    <3> QED
      BY <3>2, <3>3
  <2>2. Range(ran) \subseteq DOMAIN owner'
    BY <1>3, <1>7
  <2> QED
    BY <1>1, <2>1, <2>2 DEF Registered, Ascending
<1>12. Placed'
  <2>1. n \notin Range(ran)
    BY <1>3, <1>7
  <2>2. \A x \in Events : Waiting(x) => /\ Numbers(x)' \subseteq Range(steps'[x])
                                       /\ Numbers(x)' \intersect Range(ran) = {}
    <3> SUFFICES ASSUME NEW x \in Events, Waiting(x)
                 PROVE  /\ Numbers(x)' \subseteq Range(steps'[x])
                        /\ Numbers(x)' \intersect Range(ran) = {}
      OBVIOUS
    <3>1. Numbers(x) \subseteq Range(steps[x]) /\ Numbers(x) \intersect Range(ran) = {}
      BY DEF EventsInv, Placed
    <3> QED
      BY <1>5, <1>6, <2>1, <3>1
  <2>3. \A i \in DOMAIN stack : Numbers(stack[i].event)' = Numbers(stack[i].event)
    BY <1>1, <1>2, <1>6, StackIs
  <2>4. \A x \in Events : error[x] /\ ~pending[x] => Numbers(x)' \subseteq Range(ran)
    BY <1>1, <1>2, <1>6 DEF EventsInv, Placed
  <2> QED
    BY <1>1, <1>8, <2>2, <2>3, <2>4 DEF EventsInv, Placed
<1>13. Visited'
  <2>1. \A c \in Children : c \in Events /\ (reverted[c] => Numbers(c)' = Numbers(c))
    BY <1>1, <1>6, StackIs DEF Children, Range
  <2> QED
    BY <1>1, <1>8, <2>1 DEF EventsInv, Visited
<1>14. UndoneInReverse'
  <2>1. \A i \in DOMAIN ran : ran[i] \in DOMAIN owner
    BY <1>7 DEF Range
  <2>2. \A i \in DOMAIN ran : owner'[ran[i]] = owner[ran[i]]
    BY <1>3, <2>1
  <2>3. UndoneInReverse
    BY DEF EventsInv
  <2> SUFFICES ASSUME NEW i \in DOMAIN ran, NEW k \in DOMAIN ran, i < k
               PROVE  /\ owner'[ran[i]] = owner'[ran[k]] => ran[i] > ran[k]
                      /\ owner'[ran[i]] = Outer => ~Contains(children, owner'[ran[k]])
    BY <1>1 DEF UndoneInReverse
  <2>4. /\ owner[ran[i]] = owner[ran[k]] => ran[i] > ran[k]
        /\ owner[ran[i]] = Outer => ~Contains(children, owner[ran[k]])
    BY <2>3 DEF UndoneInReverse
  <2> QED
    BY <2>2, <2>4
<1> QED
  BY <1>9, <1>10, <1>11, <1>12, <1>13, <1>14 DEF Rest

\* Outer registers child events only before it fails.
LEMMA ChildStep ==
  ASSUME EventsInv, NEW e \in Events, ChildEvent(e)
  PROVE  Rest'
<1>1. /\ Free(Outer) /\ ~error[Outer] /\ e # Outer
      /\ children' = Append(children, e)
      /\ UNCHANGED <<pending, started, error, reverted, steps, stack, owner, ran>>
  BY DEF ChildEvent, status, history
<1>2. /\ Outer \notin RollingBack /\ ~reverted[Outer] /\ ~OuterOver /\ ~OuterRan
  BY <1>1, FreeIs, EventAssumption, WaitingOuter DEF OuterOver, Waiting
<1>3. Children' = Children \union {e}
  BY <1>1, StackIs, AppendIs DEF Children
<1>4. /\ UNCHANGED <<RollingBack, OuterOver, OuterRan>> /\ \A x : Waiting(x)' = Waiting(x)
      /\ \A x : Numbers(x)' = Numbers(x)
  BY <1>1 DEF RollingBack, OuterOver, OuterRan, Waiting, Numbers
<1>5. Failed' /\ Alone'
  BY <1>1, <1>3 DEF EventsInv, Failed, Alone
<1>6. Framed'
  BY <1>1, <1>3, <1>4 DEF EventsInv, Framed
<1>7. Registered' /\ Placed'
  BY <1>1, <1>4 DEF EventsInv, Registered, Placed
<1>8. Visited'
  <2>1. \A i \in DOMAIN stack : stack[i].event # Outer
    BY <1>2, StackIs
  <2> QED
    BY <1>1, <1>2, <1>4, <2>1 DEF Visited
<1>9. UndoneInReverse'
  <2>1. \A i \in DOMAIN ran : owner[ran[i]] # Outer
    BY <1>2 DEF OuterRan, Range
  <2> QED
    BY <1>1, <2>1 DEF EventsInv, UndoneInReverse
<1> QED
  BY <1>5, <1>6, <1>7, <1>8, <1>9 DEF Rest

\* An event fails that was not rolled back yet.
LEMMA FailStep ==
  ASSUME EventsInv, NEW e \in Events, Fail(e), ~reverted[e]
  PROVE  Rest'
<1> DEFINE g == [event |-> e, fails |-> TRUE, todo |-> <<>>,
                 kids |-> Reverse(Kids(e)), taken |-> FALSE]
<1>1. /\ Free(e) /\ (pending[e] \/ error[e]) /\ (e = Outer => stack = <<>>)
      /\ error' = [error EXCEPT ![e] = TRUE]
      /\ reverted' = [reverted EXCEPT ![e] = TRUE]
      /\ stack' = Append(stack, g)
      /\ UNCHANGED <<pending, started, children, steps, owner, ran>>
  BY DEF Fail, Push, history
<1>2. /\ e \notin RollingBack /\ \A i \in DOMAIN stack : stack[i].event # e
      /\ ~error[e] /\ pending[e] /\ (Outer \in RollingBack => e \notin Children)
  BY <1>1, FreeIs
<1>3. /\ error \in [Events -> BOOLEAN] /\ reverted \in [Events -> BOOLEAN]
      /\ error'[e] = TRUE /\ reverted'[e]
      /\ \A x \in Events : x # e => error'[x] = error[x] /\ reverted'[x] = reverted[x]
      /\ \A x \in Events : reverted[x] => reverted'[x]
  BY <1>1 DEF EventsInv, TypeOK
<1>4. /\ g.event = e /\ g.fails = TRUE /\ g.todo = <<>> /\ g.taken = FALSE
      /\ g.kids = Reverse(Kids(e)) /\ g \in Frames
      /\ Range(g.kids) = IF e = Outer THEN Children ELSE {}
      /\ e # Outer => g.kids = <<>>
  <2>1. Reverse(Kids(e)) \in Seq(Events) /\ children \in Seq(Events)
    BY StackIs, KidsInSeq
  <2>2. Range(Reverse(Kids(e))) = IF e = Outer THEN Children ELSE {}
    BY <2>1, ReverseIs, RangeEmpty, EmptySeq DEF Kids, Children
  <2>3. Reverse(<<>>) = <<>>
    BY DEF Reverse
  <2> QED
    BY <2>1, <2>2, <2>3, EmptySeq DEF Frames, Kids
<1> HIDE DEF g
<1>5. /\ Depth \in Nat /\ DOMAIN stack = 1 .. Depth /\ Depth + 1 \notin DOMAIN stack
      /\ DOMAIN stack' = DOMAIN stack \union {Depth + 1}
      /\ stack'[Depth + 1] = g /\ \A i \in DOMAIN stack : stack'[i] = stack[i]
  BY <1>1, <1>4, StackIs, AppendIs DEF Depth
<1>6. RollingBack' = RollingBack \union {e}
  BY <1>4, <1>5 DEF RollingBack
<1>7. /\ UNCHANGED <<Children, OuterRan>> /\ \A x : Numbers(x)' = Numbers(x)
      /\ \A x \in Events : Waiting(x)' => Waiting(x)
  <2>1. \A x \in Events : Waiting(x)' => Waiting(x)
    BY <1>2, <1>3, <1>4, <1>5 DEF Waiting
  <2> QED
    BY <1>1, <2>1 DEF Children, OuterRan, Numbers
<1>8. Failed'
  <2>1. started[e]
    BY <1>2 DEF EventsInv, Failed
  <2> QED
    BY <1>1, <1>3, <1>7, <2>1, EventAssumption DEF EventsInv, Failed
<1>9. Alone'
  <2>1. \A i \in DOMAIN stack : stack'[i].event # e
    BY <1>2, <1>5
  <2>2. e = Outer => Depth + 1 = 1
    BY <1>1 DEF Depth
  <2> QED
    BY <1>4, <1>5, <2>1, <2>2 DEF EventsInv, Alone
<1>10. Framed'
  <2>1. ASSUME NEW i \in DOMAIN stack
        PROVE  /\ stack'[i] = stack[i] /\ stack[i].event \in Events
               /\ reverted'[stack[i].event] /\ error'[stack[i].event] = error[stack[i].event]
    BY <1>2, <1>3, <1>5, StackIs DEF EventsInv, Framed
  <2>2. /\ Range(g.kids) \subseteq Children
        /\ Range(<<>>) = {} /\ Descending(<<>>)
    BY <1>4, RangeEmpty
  <2>3. Framed
    BY DEF EventsInv
  <2> SUFFICES ASSUME NEW i \in DOMAIN stack'
               PROVE  LET f == stack'[i]
                          x == f.event
                      IN  /\ reverted'[x] /\ f.fails = error'[x] /\ (f.fails => pending'[x])
                          /\ f.taken => f.kids = <<>> /\ steps'[x] = <<>>
                          /\ x # Outer => f.kids = <<>>
                          /\ Range(f.kids) \subseteq Children'
                          /\ ~f.taken => f.todo = <<>>
                          /\ Range(f.todo) \subseteq Numbers(x) /\ Descending(f.todo)
    BY <1>7 DEF Framed, Descending
  <2>4. CASE i \in DOMAIN stack
    <3> DEFINE f == stack[i]
    <3>1. /\ f.fails = error[f.event] /\ (f.fails => pending[f.event])
          /\ f.taken => f.kids = <<>> /\ steps[f.event] = <<>>
          /\ f.event # Outer => f.kids = <<>>
          /\ Range(f.kids) \subseteq Children
          /\ ~f.taken => f.todo = <<>>
          /\ Range(f.todo) \subseteq Numbers(f.event) /\ Descending(f.todo)
      BY <2>3, <2>4 DEF Framed
    <3>2. /\ stack'[i] = f /\ reverted'[f.event] /\ error'[f.event] = error[f.event]
      BY <2>1, <2>4
    <3> HIDE DEF f
    <3> QED
      BY <1>1, <1>7, <3>1, <3>2
  <2>5. CASE i = Depth + 1
    <3>1. stack'[i] = g
      BY <1>5, <2>5
    <3>2. pending'[e] = pending[e] /\ Children' = Children
      BY <1>1, <1>7
    <3>3. reverted'[e] /\ error'[e] = TRUE /\ pending[e]
      BY <1>2, <1>3
    <3>4. Range(g.todo) \subseteq Numbers(e) /\ Descending(g.todo)
      BY <1>4, <2>2
    <3> QED
      BY <1>4, <2>2, <3>1, <3>2, <3>3, <3>4
  <2> QED
    BY <1>5, <2>4, <2>5
<1>11. Registered'
  BY <1>1, <1>7 DEF EventsInv, Registered, Ascending
<1>12. Placed'
  <2>1. \A x \in Events : Waiting(x)' => /\ Numbers(x) \subseteq Range(steps[x])
                                        /\ Numbers(x) \intersect Range(ran) = {}
    BY <1>7 DEF EventsInv, Placed
  <2>2. \A i \in DOMAIN stack' : (i \in DOMAIN stack /\ stack'[i] = stack[i]) \/ ~stack'[i].taken
    BY <1>4, <1>5
  <2>3. \A x \in Events : error'[x] /\ ~pending[x] => Numbers(x) \subseteq Range(ran)
    BY <1>2, <1>3 DEF EventsInv, Placed
  <2> QED
    BY <1>1, <1>7, <2>1, <2>2, <2>3 DEF EventsInv, Placed
<1>13. Visited'
  <2>1. /\ Children \subseteq Events /\ Outer \notin Children
    BY StackIs DEF EventsInv, Failed, Children, Range
  <2>2. ASSUME NEW i \in DOMAIN stack', stack'[i].event = Outer
        PROVE  /\ \A c \in Children : reverted'[c] \/ c \in Range(stack'[i].kids)
               /\ stack'[i].taken => Children \intersect RollingBack' = {}
    <3>1. CASE i = Depth + 1
      BY <1>4, <1>5, <2>2, <3>1
    <3>2. CASE i \in DOMAIN stack
      <4>1. Outer \in RollingBack /\ e \notin Children /\ stack[i].event = Outer
        BY <1>2, <1>5, <2>2, <3>2, StackIs
      <4> QED
        BY <1>3, <1>5, <1>6, <2>1, <3>2, <4>1 DEF EventsInv, Visited
    <3> QED
      BY <1>5, <2>2, <3>1, <3>2
  <2>3. (OuterOver' => OuterOver) /\ (e = Outer => ~OuterRan)
    BY <1>1, <1>2, <1>3, EventAssumption, WaitingOuter DEF OuterOver, Waiting
  <2>4. ASSUME OuterOver' \/ OuterRan, NEW c \in Children
        PROVE  reverted'[c] /\ c \notin RollingBack'
    <3>1. reverted[c] /\ c \notin RollingBack
      BY <2>3, <2>4 DEF EventsInv, Visited
    <3> QED
      BY <1>3, <1>6, <2>1, <3>1
  <2>5. ASSUME OuterOver' \/ Outer \in RollingBack', NEW c \in Children,
               reverted'[c], c \notin RollingBack', ~Interrupted(c)'
        PROVE  Numbers(c) \subseteq Range(ran)
    <3>1. c # e /\ reverted[c] /\ c \notin RollingBack /\ ~Interrupted(c)
      BY <1>1, <1>3, <1>6, <2>1, <2>5 DEF Interrupted
    <3>2. CASE e # Outer
      BY <1>6, <2>3, <2>5, <3>1, <3>2 DEF EventsInv, Visited
    <3>3. CASE e = Outer
      <4>1. error[c] /\ ~pending[c]
        BY <2>1, <3>1, <3>3 DEF EventsInv, Failed, Interrupted
      <4> QED
        BY <2>1, <4>1 DEF EventsInv, Placed
    <3> QED
      BY <3>2, <3>3
  <2> QED
    BY <1>1, <1>7, <2>2, <2>4, <2>5 DEF Visited
<1>14. UndoneInReverse'
  BY <1>1 DEF EventsInv, UndoneInReverse
<1> QED
  BY <1>8, <1>9, <1>10, <1>11, <1>12, <1>13, <1>14 DEF Rest

\* Only Outer has child events to visit, which is the first on the stack.
LEMMA KidsOfOuter ==
  ASSUME EventsInv, stack # <<>>, Top.kids # <<>>
  PROVE  /\ Top.event = Outer /\ Depth = 1 /\ DOMAIN stack = {1} /\ stack[1] = Top
         /\ ~Top.taken /\ reverted[Outer] /\ ~OuterOver /\ ~OuterRan
         /\ Outer \in RollingBack
<1>1. /\ Depth \in DOMAIN stack /\ Top = stack[Depth]
      /\ Depth \in Nat /\ DOMAIN stack = 1 .. Depth
  BY StackIs, TopIs
<1>2. Top.event = Outer /\ ~Top.taken /\ reverted[Outer] /\ ~OuterOver
  BY <1>1 DEF EventsInv, Framed, OuterOver
<1>3. Depth = 1
  BY <1>1, <1>2 DEF EventsInv, Alone
<1>4. ~OuterRan
  BY <1>1, <1>2, WaitingOuter DEF Waiting
<1> QED
  BY <1>1, <1>2, <1>3, <1>4, StackIs

LEMMA VisitStep ==
  ASSUME EventsInv, RollbackChild, reverted[Head(Top.kids)]
  PROVE  Rest'
<1> DEFINE kid == Head(Top.kids)
           f == [Top EXCEPT !.kids = Tail(@)]
<1>1. /\ stack # <<>> /\ Top.kids # <<>> /\ stack' = Replace(f)
      /\ UNCHANGED <<pending, started, error, reverted, children, steps, owner, ran>>
  BY DEF RollbackChild, status, history
<1>2. /\ Top \in Frames /\ Tail(Top.kids) \in Seq(Events)
      /\ Range(Top.kids) = Range(Tail(Top.kids)) \union {kid}
  BY <1>1, TopIs, TailIs
<1>3. /\ f \in Frames /\ f.event = Top.event /\ f.fails = Top.fails
      /\ f.taken = Top.taken /\ f.todo = Top.todo /\ f.kids = Tail(Top.kids)
  BY <1>2 DEF Frames
<1>4. /\ Top.event = Outer /\ Depth = 1 /\ DOMAIN stack = {1} /\ stack[1] = Top
      /\ ~Top.taken /\ ~OuterOver /\ ~OuterRan /\ Outer \in RollingBack
  BY <1>1, KidsOfOuter
<1> HIDE DEF f
<1>5. /\ DOMAIN stack' = {1} /\ stack'[1] = f /\ Alone'
      /\ UNCHANGED RollingBack
  BY <1>1, <1>3, <1>4, SameEvents
<1>6. /\ UNCHANGED <<Children, OuterRan, OuterOver>> /\ \A x : Numbers(x)' = Numbers(x)
      /\ \A x \in Events : Waiting(x)' = Waiting(x) /\ Interrupted(x)' = Interrupted(x)
  BY <1>1, <1>3, <1>4, <1>5
     DEF Children, OuterRan, OuterOver, Numbers, Waiting, Interrupted
<1>7. Failed' /\ Registered' /\ UndoneInReverse'
  BY <1>1, <1>6 DEF EventsInv, Failed, Registered, Ascending, UndoneInReverse
<1>8. Framed'
  <2>1. /\ reverted[Outer] /\ Top.fails = error[Outer] /\ (Top.fails => pending[Outer])
        /\ Range(Top.kids) \subseteq Children /\ Top.todo = <<>>
        /\ Range(Top.todo) \subseteq Numbers(Outer) /\ Descending(Top.todo)
    BY <1>4 DEF EventsInv, Framed
  <2> QED
    BY <1>1, <1>2, <1>3, <1>4, <1>5, <1>6, <2>1 DEF Framed, Descending
<1>9. Placed'
  <2>1. ~stack'[1].taken
    BY <1>3, <1>4, <1>5
  <2> QED
    BY <1>1, <1>5, <1>6, <2>1 DEF EventsInv, Placed
<1>10. Visited'
  <2>1. \A c \in Children : reverted[c] \/ c \in Range(f.kids)
    BY <1>2, <1>3, <1>4 DEF EventsInv, Visited
  <2>2. \A c \in Children : c \in Events
    BY StackIs DEF Children, Range
  <2> QED
    BY <1>1, <1>3, <1>4, <1>5, <1>6, <2>1, <2>2 DEF EventsInv, Visited
<1> QED
  BY <1>5, <1>7, <1>8, <1>9, <1>10 DEF Rest

\* A child event is rolled back that did not fail.
LEMMA KidStep ==
  ASSUME EventsInv, RollbackChild, ~reverted[Head(Top.kids)]
  PROVE  Rest'
<1> DEFINE kid == Head(Top.kids)
           f == [Top EXCEPT !.kids = Tail(@)]
           rest == Replace(f)
           g == [event |-> kid, fails |-> FALSE, todo |-> <<>>, taken |-> FALSE,
                 kids |-> Reverse(Kids(kid))]
<1>1. /\ stack # <<>> /\ Top.kids # <<>> /\ stack' = Append(rest, g)
      /\ reverted' = [reverted EXCEPT ![kid] = TRUE]
      /\ UNCHANGED <<pending, started, error, children, steps, owner, ran>>
  BY DEF RollbackChild, status, history
<1>2. /\ Top \in Frames /\ Tail(Top.kids) \in Seq(Events) /\ kid \in Events
      /\ Range(Top.kids) = Range(Tail(Top.kids)) \union {kid}
  BY <1>1, TopIs, TailIs
<1>3. /\ f \in Frames /\ f.event = Top.event /\ f.fails = Top.fails
      /\ f.taken = Top.taken /\ f.todo = Top.todo /\ f.kids = Tail(Top.kids)
  BY <1>2 DEF Frames
<1>4. /\ Top.event = Outer /\ Depth = 1 /\ DOMAIN stack = {1} /\ stack[1] = Top
      /\ ~Top.taken /\ reverted[Outer] /\ ~OuterOver /\ ~OuterRan /\ Outer \in RollingBack
  BY <1>1, KidsOfOuter
<1>5. /\ kid \in Children /\ kid # Outer /\ error[kid] = FALSE
      /\ reverted[Outer] /\ Top.fails = error[Outer] /\ (Top.fails => pending[Outer])
      /\ Range(Top.kids) \subseteq Children /\ Top.todo = <<>>
  BY <1>2, <1>4 DEF EventsInv, Framed, Failed, TypeOK
<1>6. /\ g \in Frames /\ g.event = kid /\ g.fails = FALSE /\ g.todo = <<>>
      /\ ~g.taken /\ g.kids = <<>>
  <2>1. Reverse(Kids(kid)) = <<>>
    BY <1>5 DEF Kids, Reverse
  <2> QED
    BY <1>2, <2>1, EmptySeq DEF Frames
<1> HIDE DEF f, g, kid
<1>7. rest \in Seq(Frames) /\ Len(rest) = 1 /\ DOMAIN rest = {1} /\ rest[1] = f
  BY <1>1, <1>3, <1>4, ReplaceIs
<1> HIDE DEF rest
<1>8. DOMAIN stack' = {1, 2} /\ stack'[1] = f /\ stack'[2] = g
  BY <1>1, <1>6, <1>7, AppendIs
<1>9. RollingBack' = {Outer, kid} /\ RollingBack = {Outer}
  BY <1>3, <1>4, <1>6, <1>8 DEF RollingBack
<1>10. /\ reverted'[kid] /\ \A x \in Events : x # kid => reverted'[x] = reverted[x]
       /\ \A x \in Events : reverted[x] => reverted'[x]
  BY <1>1, <1>2 DEF EventsInv, TypeOK
<1>11. /\ UNCHANGED <<Children, OuterRan, OuterOver>> /\ \A x : Numbers(x)' = Numbers(x)
       /\ \A x : Interrupted(x)' = Interrupted(x)
       /\ \A x \in Events : Waiting(x)' => Waiting(x)
  <2>1. \A x \in Events : Waiting(x)' => Waiting(x)
    <3> SUFFICES ASSUME NEW x \in Events, Waiting(x)'
                 PROVE  Waiting(x)
      OBVIOUS
    <3>1. CASE x = kid \/ ~reverted'[x]
      BY <1>10, <3>1 DEF Waiting, kid
    <3>2. CASE x # kid /\ reverted'[x]
      <4>1. x = Outer
        BY <1>3, <1>4, <1>6, <1>8, <3>2 DEF Waiting
      <4> QED
        BY <1>4, <4>1 DEF Waiting
    <3> QED
      BY <3>1, <3>2
  <2> QED
    BY <1>1, <2>1 DEF Children, OuterRan, OuterOver, Numbers, Interrupted
<1>12. Failed'
  BY <1>1, <1>4, <1>10, <1>11, EventAssumption DEF EventsInv, Failed
<1>13. Alone'
  BY <1>3, <1>4, <1>5, <1>6, <1>8 DEF Alone
<1>14. Framed'
  <2>1. /\ reverted'[Outer] /\ f.fails = error'[Outer] /\ (f.fails => pending'[Outer])
        /\ ~f.taken /\ f.event = Outer /\ f.todo = <<>>
        /\ Range(f.kids) \subseteq Children' /\ Range(f.todo) = {}
        /\ Descending(f.todo)
    BY <1>1, <1>2, <1>3, <1>4, <1>5, <1>10, <1>11, RangeEmpty, EventAssumption
  <2>2. /\ reverted'[kid] /\ g.fails = error'[kid] /\ ~g.fails
        /\ Range(g.kids) = {} /\ Range(g.todo) = {} /\ Descending(g.todo)
    BY <1>1, <1>5, <1>6, <1>10, RangeEmpty
  <2> QED
    BY <1>6, <1>8, <2>1, <2>2 DEF Framed, Descending
<1>15. Registered' /\ UndoneInReverse'
  BY <1>1, <1>11 DEF EventsInv, Registered, Ascending, UndoneInReverse
<1>16. Placed'
  <2>1. ~stack'[1].taken /\ ~stack'[2].taken
    BY <1>3, <1>4, <1>6, <1>8
  <2> QED
    BY <1>1, <1>8, <1>11, <2>1 DEF EventsInv, Placed
<1>17. Visited'
  <2>1. \A c \in Children : c \in Events /\ (reverted'[c] \/ c \in Range(f.kids))
    <3> SUFFICES ASSUME NEW c \in Children
                 PROVE  c \in Events /\ (reverted'[c] \/ c \in Range(f.kids))
      OBVIOUS
    <3>1. c \in Events
      BY StackIs DEF Children, Range
    <3>2. reverted[c] \/ c \in Range(Top.kids)
      BY <1>4 DEF EventsInv, Visited
    <3> QED
      BY <1>2, <1>3, <1>10, <3>1, <3>2
  <2>2. ASSUME NEW c \in Children, reverted'[c], c \notin RollingBack', ~Interrupted(c)
        PROVE  Numbers(c) \subseteq Range(ran)
    BY <1>4, <1>9, <1>10, <2>1, <2>2 DEF EventsInv, Visited
  <2> QED
    BY <1>1, <1>3, <1>4, <1>5, <1>6, <1>8, <1>11, <2>1, <2>2 DEF Visited
<1> QED
  BY <1>12, <1>13, <1>14, <1>15, <1>16, <1>17 DEF Rest

\* The rollback takes the steps of its event.
LEMMA TakeStep ==
  ASSUME EventsInv, TakeSteps
  PROVE  Rest'
<1> DEFINE e == Top.event
           f == [Top EXCEPT !.taken = TRUE, !.todo = ToRevert(Top.event)]
<1>1. /\ stack # <<>> /\ Top.kids = <<>> /\ ~Top.taken /\ stack' = Replace(f)
      /\ steps' = [steps EXCEPT ![e] = <<>>]
      /\ UNCHANGED <<pending, started, error, reverted, children, owner, ran>>
  BY DEF TakeSteps, status, history
<1>2. /\ Top \in Frames /\ e \in Events /\ steps[e] \in Seq(StepNames)
      /\ ToRevert(e) \in Seq(StepNames) /\ Range(ToRevert(e)) = Range(steps[e])
      /\ Descending(ToRevert(e))
      /\ Range(steps[e]) \subseteq Numbers(e)
  <2>1. e \in Events /\ steps[e] \in Seq(StepNames) /\ Top \in Frames
    BY <1>1, TopIs DEF EventsInv, TypeOK
  <2>2. Ascending(steps[e]) /\ Range(steps[e]) \subseteq Numbers(e)
    BY <2>1 DEF EventsInv, Registered
  <2> QED
    BY <2>1, <2>2, ReverseInSeq, ReverseIs DEF ToRevert
<1>3. /\ f \in Frames /\ f.event = e /\ f.fails = Top.fails
      /\ f.taken = TRUE /\ f.todo = ToRevert(e) /\ f.kids = Top.kids
  BY <1>2 DEF Frames
<1> HIDE DEF f
<1>4. /\ Depth \in DOMAIN stack /\ DOMAIN stack' = DOMAIN stack
      /\ stack[Depth] = Top /\ stack'[Depth] = f
      /\ \A i \in DOMAIN stack : i # Depth => stack'[i] = stack[i]
      /\ \A i \in DOMAIN stack : stack'[i].event = stack[i].event
      /\ \A i \in DOMAIN stack : i # Depth => stack[i].event # e
      /\ UNCHANGED RollingBack /\ Alone'
  BY <1>1, <1>3, SameEvents
<1> HIDE DEF e
<1>5. steps'[e] = <<>> /\ \A x \in Events : x # e => steps'[x] = steps[x]
  BY <1>1, <1>2 DEF EventsInv, TypeOK
<1>6. /\ UNCHANGED <<Children, OuterRan, OuterOver>> /\ \A x : Numbers(x)' = Numbers(x)
      /\ \A x : Interrupted(x)' = Interrupted(x)
  BY <1>1 DEF Children, OuterRan, OuterOver, Numbers, Interrupted
<1>7. /\ reverted[e] /\ Top.fails = error[e] /\ (Top.fails => pending[e])
      /\ e # Outer => Top.kids = <<>>
  BY <1>4 DEF EventsInv, Framed, e
<1>8. Waiting(e)
  BY <1>1, <1>4 DEF Waiting, e
<1>9. \A x \in Events : Waiting(x)' => Waiting(x) /\ x # e
  <2>1. \A i \in DOMAIN stack' : stack'[i].event = e => stack'[i].taken
    BY <1>3, <1>4
  <2>2. \A i \in DOMAIN stack' : ~stack'[i].taken => i \in DOMAIN stack /\ stack'[i] = stack[i]
    BY <1>3, <1>4
  <2> QED
    BY <1>1, <1>7, <2>1, <2>2 DEF Waiting
<1>10. Failed' /\ UndoneInReverse'
  BY <1>1, <1>6 DEF EventsInv, Failed, UndoneInReverse
<1>11. Framed'
  <2> SUFFICES ASSUME NEW i \in DOMAIN stack
               PROVE  LET h == stack'[i]
                          x == h.event
                      IN  /\ reverted[x] /\ h.fails = error[x] /\ (h.fails => pending[x])
                          /\ h.taken => h.kids = <<>> /\ steps'[x] = <<>>
                          /\ x # Outer => h.kids = <<>>
                          /\ Range(h.kids) \subseteq Children
                          /\ ~h.taken => h.todo = <<>>
                          /\ Range(h.todo) \subseteq Numbers(x) /\ Descending(h.todo)
    BY <1>1, <1>4, <1>6 DEF Framed, Descending
  <2>1. CASE i = Depth
    BY <1>1, <1>2, <1>3, <1>4, <1>5, <1>7, <2>1, RangeEmpty
  <2>2. CASE i # Depth
    <3>1. stack'[i] = stack[i] /\ stack[i].event # e /\ stack[i].event \in Events
      BY <1>4, <2>2, StackIs
    <3> QED
      BY <1>5, <3>1 DEF EventsInv, Framed
  <2> QED
    BY <2>1, <2>2
<1>12. Registered'
  <2>1. \A x \in Events : Range(steps'[x]) \subseteq Numbers(x) /\ Ascending(steps'[x])
    BY <1>5, RangeEmpty DEF EventsInv, Registered
  <2> QED
    BY <1>1, <1>6, <2>1 DEF EventsInv, Registered, Ascending
<1>13. Placed'
  <2>1. \A x \in Events : Waiting(x)' => /\ Numbers(x) \subseteq Range(steps'[x])
                                        /\ Numbers(x) \intersect Range(ran) = {}
    BY <1>5, <1>9 DEF EventsInv, Placed
  <2>2. Numbers(e) \subseteq Range(f.todo) /\ Numbers(e) \intersect Range(ran) = {}
    BY <1>2, <1>3, <1>8 DEF EventsInv, Placed
  <2>3. ASSUME NEW i \in DOMAIN stack, stack'[i].taken, NEW n \in Numbers(stack'[i].event)
        PROVE  IF n \in Range(ran) THEN \A m \in Range(stack'[i].todo) : n > m
                                   ELSE n \in Range(stack'[i].todo)
    <3>1. CASE i = Depth
      BY <1>3, <1>4, <2>2, <2>3, <3>1
    <3>2. CASE i # Depth
      BY <1>4, <2>3, <3>2 DEF EventsInv, Placed
    <3> QED
      BY <3>1, <3>2
  <2>4. \A x \in Events : error[x] /\ ~pending[x] => Numbers(x) \subseteq Range(ran)
    BY DEF EventsInv, Placed
  <2> QED
    BY <1>1, <1>4, <1>6, <2>1, <2>3, <2>4 DEF Placed
<1>14. Visited'
  <2>1. ASSUME NEW i \in DOMAIN stack, stack'[i].event = Outer
        PROVE  /\ \A c \in Children : reverted[c] \/ c \in Range(stack'[i].kids)
               /\ stack'[i].taken => Children \intersect RollingBack = {}
    <3>1. CASE i # Depth
      BY <1>4, <2>1, <3>1 DEF EventsInv, Visited
    <3>2. CASE i = Depth
      <4>1. /\ stack[Depth].event = Outer
            /\ \A c \in Children : reverted[c] \/ c \in Range(stack'[i].kids)
        BY <1>3, <1>4, <2>1, <3>2 DEF EventsInv, Visited
      <4>2. Depth = 1 /\ DOMAIN stack = {1}
        <5>1. Depth = 1
          BY <1>4, <4>1 DEF EventsInv, Alone
        <5> QED
          BY <5>1, StackIs
      <4>3. RollingBack = {Outer}
        BY <4>1, <4>2 DEF RollingBack
      <4> QED
        BY <4>1, <4>3 DEF EventsInv, Failed
    <3> QED
      BY <3>1, <3>2
  <2> QED
    BY <1>1, <1>4, <1>6, <2>1 DEF EventsInv, Visited
<1> QED
  BY <1>4, <1>10, <1>11, <1>12, <1>13, <1>14 DEF Rest

\* One step is run.
LEMMA RunOneStep ==
  ASSUME EventsInv, RunStep
  PROVE  Rest'
<1> DEFINE e == Top.event
           h == Head(Top.todo)
           f == [Top EXCEPT !.todo = Tail(@)]
<1>1. /\ stack # <<>> /\ Top.taken /\ Top.todo # <<>> /\ stack' = Replace(f)
      /\ ran' = Append(ran, h)
      /\ UNCHANGED <<pending, started, error, reverted, children, steps, owner>>
  BY DEF RunStep, status
<1>2. Depth \in DOMAIN stack /\ stack[Depth] = Top /\ Top \in Frames /\ e \in Events
      /\ e \in RollingBack /\ Top.todo \in Seq(StepNames)
  BY <1>1, TopIs
<1>3. /\ reverted[e] /\ Top.fails = error[e] /\ (Top.fails => pending[e])
      /\ Top.kids = <<>> /\ steps[e] = <<>>
      /\ Range(Top.todo) \subseteq Numbers(e) /\ Descending(Top.todo)
  BY <1>1, <1>2 DEF EventsInv, Framed
<1>4. /\ Tail(Top.todo) \in Seq(StepNames) /\ h \in StepNames
      /\ Range(Top.todo) = Range(Tail(Top.todo)) \union {h}
      /\ Descending(Tail(Top.todo)) /\ \A n \in Range(Tail(Top.todo)) : h > n
  <2>1. StepNames \subseteq Int
    BY DEF StepNames
  <2> QED
    BY <1>1, <1>2, <1>3, <2>1, TailIs
<1>5. /\ f \in Frames /\ f.event = e /\ f.fails = Top.fails
      /\ f.taken = Top.taken /\ f.todo = Tail(Top.todo) /\ f.kids = <<>>
  BY <1>2, <1>3, <1>4 DEF Frames
<1> HIDE DEF f
<1>6. /\ DOMAIN stack' = DOMAIN stack /\ stack'[Depth] = f
      /\ \A i \in DOMAIN stack : i # Depth => stack'[i] = stack[i]
      /\ \A i \in DOMAIN stack : stack'[i].event = stack[i].event
      /\ \A i \in DOMAIN stack : i # Depth => stack[i].event # e
      /\ UNCHANGED RollingBack /\ Alone'
  BY <1>1, <1>5, SameEvents
<1> HIDE DEF e, h
<1>7. /\ Len(ran) \in Nat /\ DOMAIN ran = 1 .. Len(ran)
      /\ DOMAIN ran' = DOMAIN ran \union {Len(ran) + 1}
      /\ ran'[Len(ran) + 1] = h /\ \A i \in DOMAIN ran : ran'[i] = ran[i]
      /\ Range(ran') = Range(ran) \union {h}
  BY <1>1, <1>4, StackIs, AppendIs
<1>8. h \in Numbers(e) /\ h \in DOMAIN owner /\ owner[h] = e
  BY <1>3, <1>4 DEF Numbers
<1>9. /\ UNCHANGED <<Children, OuterOver>> /\ \A x : Numbers(x)' = Numbers(x)
      /\ \A x : Interrupted(x)' = Interrupted(x)
      /\ \A x : Waiting(x)' = Waiting(x)
  <2>1. \A i \in DOMAIN stack : stack'[i].taken = stack[i].taken
    BY <1>2, <1>5, <1>6
  <2> QED
    BY <1>1, <1>6, <2>1 DEF Children, OuterOver, Numbers, Interrupted, Waiting
<1>10. ~Waiting(e)
  BY <1>1, <1>2, <1>3, <1>6 DEF Waiting
<1>11. Failed' /\ Registered'
  BY <1>1, <1>7, <1>8, <1>9 DEF EventsInv, Failed, Registered, Ascending
<1>12. Framed'
  <2>1. Descending(f.todo) /\ Range(f.todo) \subseteq Numbers(e) /\ Range(f.kids) = {}
    BY <1>3, <1>4, <1>5, RangeEmpty
  <2> SUFFICES ASSUME NEW i \in DOMAIN stack
               PROVE  LET g == stack'[i]
                          x == g.event
                      IN  /\ reverted[x] /\ g.fails = error[x] /\ (g.fails => pending[x])
                          /\ g.taken => g.kids = <<>> /\ steps[x] = <<>>
                          /\ x # Outer => g.kids = <<>>
                          /\ Range(g.kids) \subseteq Children
                          /\ ~g.taken => g.todo = <<>>
                          /\ Range(g.todo) \subseteq Numbers(x) /\ Descending(g.todo)
    BY <1>1, <1>6, <1>9 DEF Framed, Descending
  <2>2. CASE i = Depth
    BY <1>1, <1>3, <1>5, <1>6, <2>1, <2>2
  <2>3. CASE i # Depth
    BY <1>6, <2>3 DEF EventsInv, Framed
  <2> QED
    BY <2>2, <2>3
<1>13. Placed'
  <2>1. \A x \in Events : Waiting(x) => /\ Numbers(x) \subseteq Range(steps[x])
                                       /\ Numbers(x) \intersect Range(ran') = {}
    <3>1. \A x \in Events : Waiting(x) => h \notin Numbers(x)
      BY <1>8, <1>10 DEF Numbers
    <3> QED
      BY <1>7, <3>1 DEF EventsInv, Placed
  <2>2. ASSUME NEW i \in DOMAIN stack, stack'[i].taken, NEW n \in Numbers(stack'[i].event)
        PROVE  IF n \in Range(ran') THEN \A m \in Range(stack'[i].todo) : n > m
                                    ELSE n \in Range(stack'[i].todo)
    <3>1. /\ stack[i].taken /\ n \in Numbers(stack[i].event)
          /\ IF n \in Range(ran) THEN \A m \in Range(stack[i].todo) : n > m
                                 ELSE n \in Range(stack[i].todo)
      <4>1. stack[i].taken /\ n \in Numbers(stack[i].event)
        BY <1>2, <1>5, <1>6, <2>2
      <4> QED
        BY <4>1 DEF EventsInv, Placed
    <3>2. CASE i = Depth
      BY <1>2, <1>4, <1>5, <1>6, <1>7, <3>1, <3>2
    <3>3. CASE i # Depth
      <4>1. n # h
        BY <1>6, <1>8, <3>1, <3>3 DEF Numbers
      <4> QED
        BY <1>6, <1>7, <3>1, <3>3, <4>1
    <3> QED
      BY <3>2, <3>3
  <2>3. \A x \in Events : error[x] /\ ~pending[x] => Numbers(x) \subseteq Range(ran')
    BY <1>7 DEF EventsInv, Placed
  <2> QED
    BY <1>1, <1>6, <1>9, <2>1, <2>2, <2>3 DEF Placed
<1>14. e = Outer => \A c \in Children : reverted[c] /\ c \notin RollingBack
  <2> SUFFICES ASSUME e = Outer, NEW c \in Children
               PROVE  reverted[c] /\ c \notin RollingBack
    OBVIOUS
  <2>1. /\ reverted[c] \/ c \in Range(Top.kids)
        /\ Children \intersect RollingBack = {}
    BY <1>1, <1>2 DEF EventsInv, Visited, e
  <2> QED
    BY <1>3, <2>1, RangeEmpty
<1>15. Visited'
  <2>1. ASSUME NEW i \in DOMAIN stack, stack'[i].event = Outer
        PROVE  /\ \A c \in Children : reverted[c] \/ c \in Range(stack'[i].kids)
               /\ stack'[i].taken => Children \intersect RollingBack = {}
    <3>1. CASE i = Depth
      BY <1>2, <1>5, <1>6, <1>14, <2>1, <3>1
    <3>2. CASE i # Depth
      BY <1>6, <2>1, <3>2 DEF EventsInv, Visited
    <3> QED
      BY <3>1, <3>2
  <2>2. OuterRan' => OuterRan \/ e = Outer
    BY <1>1, <1>7, <1>8 DEF OuterRan
  <2>3. OuterOver \/ OuterRan' => \A c \in Children : reverted[c] /\ c \notin RollingBack
    BY <1>14, <2>2 DEF EventsInv, Visited
  <2>4. OuterOver \/ Outer \in RollingBack =>
         \A c \in Children : reverted[c] /\ c \notin RollingBack /\ ~Interrupted(c) =>
           Numbers(c) \subseteq Range(ran')
    BY <1>7 DEF EventsInv, Visited
  <2> QED
    BY <1>1, <1>6, <1>9, <2>1, <2>3, <2>4 DEF Visited
<1>16. UndoneInReverse'
  <2> SUFFICES ASSUME NEW i \in DOMAIN ran', NEW k \in DOMAIN ran', i < k
               PROVE  /\ owner[ran'[i]] = owner[ran'[k]] => ran'[i] > ran'[k]
                      /\ owner[ran'[i]] = Outer => ~Contains(children, owner[ran'[k]])
    BY <1>1 DEF UndoneInReverse
  <2>1. i \in DOMAIN ran
    BY <1>7
  <2>2. CASE k \in DOMAIN ran
    <3>1. /\ owner[ran[i]] = owner[ran[k]] => ran[i] > ran[k]
          /\ owner[ran[i]] = Outer => ~Contains(children, owner[ran[k]])
      BY <2>1, <2>2 DEF EventsInv, UndoneInReverse
    <3> QED
      BY <1>7, <2>1, <2>2, <3>1
  <2>3. CASE k = Len(ran) + 1
    <3>1. /\ ran'[i] = ran[i] /\ ran'[k] = h /\ ran[i] \in Range(ran)
          /\ ran[i] \in DOMAIN owner
      BY <1>7, <2>1, <2>3 DEF Range, EventsInv, Registered
    <3>2. ASSUME owner[ran[i]] = e
          PROVE  ran[i] > h
      <4>1. ran[i] \in Numbers(stack[Depth].event)
        BY <1>2, <3>1, <3>2 DEF Numbers, e
      <4>2. \A m \in Range(stack[Depth].todo) : ran[i] > m
        BY <1>1, <1>2, <3>1, <4>1 DEF EventsInv, Placed
      <4> QED
        BY <1>2, <1>4, <4>2
    <3>3. ASSUME owner[ran[i]] = Outer
          PROVE  ~Contains(children, e)
      <4>1. OuterRan
        BY <3>1, <3>3 DEF OuterRan
      <4>2. e \notin Children
        BY <1>2, <4>1 DEF EventsInv, Visited
      <4> QED
        BY <4>2, StackIs DEF Contains, Children, Range
    <3> QED
      BY <1>8, <3>1, <3>2, <3>3
  <2> QED
    BY <1>7, <2>2, <2>3
<1> QED
  BY <1>6, <1>11, <1>12, <1>13, <1>15, <1>16 DEF Rest

\* The innermost rollback is over: it has run all steps of its event.
LEMMA FinishStep ==
  ASSUME EventsInv, Finish
  PROVE  Rest'
<1> DEFINE e == Top.event
<1>1. /\ stack # <<>> /\ Top.taken /\ Top.todo = <<>> /\ stack' = Front(stack)
      /\ IF Top.fails THEN pending' = [pending EXCEPT ![e] = FALSE] ELSE pending' = pending
      /\ UNCHANGED <<started, error, reverted, children, steps, owner, ran>>
  BY DEF Finish, SetPending, history
<1>2. /\ Depth \in DOMAIN stack /\ stack[Depth] = Top /\ e \in Events
      /\ e \in RollingBack /\ Top.fails \in BOOLEAN
  BY <1>1, TopIs
<1>3. /\ reverted[e] /\ Top.fails = error[e] /\ (Top.fails => pending[e])
      /\ Top.kids = <<>>
  BY <1>1, <1>2 DEF EventsInv, Framed
<1>4. /\ DOMAIN stack' = DOMAIN stack \ {Depth}
      /\ \A i \in DOMAIN stack' : stack'[i] = stack[i]
  BY <1>1, StackIs, FrontIs DEF Depth
<1>5. \A i \in DOMAIN stack' : stack[i].event # e /\ stack[i].event \in Events
  BY <1>2, <1>4, StackIs DEF EventsInv, Alone
<1>6. Numbers(e) \subseteq Range(ran)
  BY <1>1, <1>2, RangeEmpty DEF EventsInv, Placed
<1>7. e = Outer => \A c \in Children : reverted[c] /\ c \notin RollingBack
  <2> SUFFICES ASSUME e = Outer, NEW c \in Children
               PROVE  reverted[c] /\ c \notin RollingBack
    OBVIOUS
  <2>1. /\ reverted[c] \/ c \in Range(Top.kids)
        /\ Children \intersect RollingBack = {}
    BY <1>1, <1>2 DEF EventsInv, Visited
  <2> QED
    BY <1>3, <2>1, RangeEmpty
<1> HIDE DEF e
<1>8. /\ pending \in [Events -> BOOLEAN]
      /\ \A x \in Events : x # e => pending'[x] = pending[x]
      /\ \A x \in Events : pending'[x] => pending[x]
      /\ ~error[e] => pending' = pending
  BY <1>1, <1>2, <1>3 DEF EventsInv, TypeOK
<1>9. RollingBack' = RollingBack \ {e}
  BY <1>2, <1>4, <1>5 DEF RollingBack, e
<1>10. /\ UNCHANGED <<Children, OuterRan>> /\ \A x : Numbers(x)' = Numbers(x)
       /\ \A x \in Events : Waiting(x)' => Waiting(x)
  BY <1>1, <1>4 DEF Children, OuterRan, Numbers, Waiting
<1>11. Failed'
  BY <1>1, <1>8, <1>10 DEF EventsInv, Failed
<1>12. Framed'
  <2> SUFFICES ASSUME NEW i \in DOMAIN stack'
               PROVE  LET g == stack[i]
                          x == g.event
                      IN  /\ reverted[x] /\ g.fails = error[x] /\ (g.fails => pending'[x])
                          /\ g.taken => g.kids = <<>> /\ steps[x] = <<>>
                          /\ x # Outer => g.kids = <<>>
                          /\ Range(g.kids) \subseteq Children
                          /\ ~g.taken => g.todo = <<>>
                          /\ Range(g.todo) \subseteq Numbers(x) /\ Descending(g.todo)
    BY <1>1, <1>4, <1>10 DEF Framed, Descending
  <2>1. i \in DOMAIN stack /\ pending'[stack[i].event] = pending[stack[i].event]
    BY <1>4, <1>5, <1>8
  <2> QED
    BY <2>1 DEF EventsInv, Framed
<1>13. Alone'
  BY <1>4 DEF EventsInv, Alone
<1>14. Registered' /\ UndoneInReverse'
  BY <1>1, <1>10 DEF EventsInv, Registered, Ascending, UndoneInReverse
<1>15. Placed'
  <2>1. \A x \in Events : error[x] /\ ~pending'[x] => Numbers(x) \subseteq Range(ran)
    BY <1>6, <1>8 DEF EventsInv, Placed
  <2>2. \A i \in DOMAIN stack' : i \in DOMAIN stack
    BY <1>4
  <2> QED
    BY <1>1, <1>4, <1>10, <2>1, <2>2 DEF EventsInv, Placed
<1>16. Visited'
  <2>1. \A i \in DOMAIN stack' : i \in DOMAIN stack /\ stack'[i] = stack[i]
    BY <1>4
  <2>2. OuterOver' => OuterOver \/ e = Outer
    BY <1>1, <1>8, EventAssumption DEF OuterOver
  <2>3. \A c \in Children : c \in Events
    BY StackIs DEF Children, Range
  <2>4. ASSUME NEW c \in Children, OuterOver' \/ Outer \in RollingBack', reverted[c],
               c \notin RollingBack', ~Interrupted(c)'
        PROVE  Numbers(c) \subseteq Range(ran)
    <3>1. CASE c = e
      BY <1>6, <3>1
    <3>2. CASE c # e
      <4>1. OuterOver \/ Outer \in RollingBack
        BY <1>2, <1>9, <2>2, <2>4 DEF e
      <4>2. c \notin RollingBack /\ ~Interrupted(c)
        BY <1>1, <1>8, <1>9, <2>3, <2>4, <3>2 DEF Interrupted
      <4> QED
        BY <2>4, <4>1, <4>2 DEF EventsInv, Visited
    <3> QED
      BY <3>1, <3>2
  <2>5. OuterOver' \/ OuterRan => \A c \in Children : reverted[c] /\ c \notin RollingBack'
    BY <1>7, <1>9, <2>2 DEF EventsInv, Visited
  <2>6. \A i \in DOMAIN stack : stack[i].event = Outer =>
          /\ \A c \in Children : reverted[c] \/ c \in Range(stack[i].kids)
          /\ stack[i].taken => Children \intersect RollingBack' = {}
    BY <1>9 DEF EventsInv, Visited
  <2> QED
    BY <1>1, <1>10, <2>1, <2>4, <2>5, <2>6 DEF Visited
<1> QED
  BY <1>11, <1>12, <1>13, <1>14, <1>15, <1>16 DEF Rest

\* What an interrupted rollback leaves stays pending, if its event has failed.
LEMMA InterruptStep ==
  ASSUME EventsInv, Interrupt
  PROVE  Rest'
<1>1. /\ stack' = <<>>
      /\ UNCHANGED <<pending, started, error, reverted, children, steps, owner, ran>>
  BY DEF Interrupt, status, history
<1>2. DOMAIN stack' = {}
  BY <1>1
<1>3. RollingBack' = {}
  BY <1>2 DEF RollingBack
<1>4. /\ UNCHANGED <<Children, OuterRan, OuterOver>> /\ \A x : Numbers(x)' = Numbers(x)
      /\ \A x : Interrupted(x)' = Interrupted(x)
      /\ \A x \in Events : Waiting(x)' => Waiting(x)
  BY <1>1, <1>2 DEF Children, OuterRan, OuterOver, Numbers, Waiting, Interrupted
<1>5. Failed' /\ Registered' /\ UndoneInReverse'
  BY <1>1, <1>4 DEF EventsInv, Failed, Registered, Ascending, UndoneInReverse
<1>6. Framed' /\ Alone'
  BY <1>2 DEF Framed, Alone
<1>7. Placed'
  BY <1>1, <1>2, <1>4 DEF EventsInv, Placed
<1>8. Visited'
  BY <1>1, <1>2, <1>3, <1>4 DEF EventsInv, Visited
<1> QED
  BY <1>5, <1>6, <1>7, <1>8 DEF Rest

LEMMA EventsInit == Init => EventsInv
<1> SUFFICES ASSUME Init PROVE EventsInv
  OBVIOUS
<1>1. /\ stack = <<>> /\ owner = <<>> /\ ran = <<>> /\ children = <<>>
      /\ DOMAIN stack = {} /\ DOMAIN owner = {} /\ DOMAIN ran = {}
      /\ Children = {} /\ Range(ran) = {} /\ \A e : Numbers(e) = {}
  BY RangeEmpty DEF Init, Children, Numbers
<1>2. TypeOK /\ CountInv
  BY InitCounts, EmptySeq, StepAssumption DEF Init, TypeOK
<1>3. Failed /\ Framed /\ Alone
  BY <1>1 DEF Init, Failed, Framed, Alone
<1>4. Registered /\ Placed
  BY <1>1, RangeEmpty DEF Init, Registered, Placed
<1>5. Visited /\ UndoneInReverse
  BY <1>1 DEF Init, Visited, UndoneInReverse
<1> QED
  BY <1>2, <1>3, <1>4, <1>5 DEF EventsInv

LEMMA EventsStep == EventsInv /\ [Next]_vars => EventsInv'
<1> SUFFICES ASSUME EventsInv, [Next]_vars PROVE EventsInv'
  OBVIOUS
<1>1. ASSUME NEW e \in Events, Begin(e)
      PROVE  Rest'
  <2>1. /\ Free(e) /\ MayBegin(e) /\ pending' = [pending EXCEPT ![e] = TRUE]
        /\ started' = [started EXCEPT ![e] = TRUE]
        /\ UNCHANGED <<error, reverted, children, steps, stack, owner, ran>>
    BY <1>1 DEF Begin, SetPending, undo, history
  <2>2. /\ started'[e] /\ \A x \in Events : started[x] => started'[x]
        /\ ~error[e]
    BY <2>1, FreeIs DEF EventsInv, TypeOK, Failed, MayBegin
  <2> QED
    BY <2>1, <2>2, FreeStep
<1>2. ASSUME NEW e \in Events, End(e) \/ Skip(e)
      PROVE  Rest'
  <2>1. /\ Free(e) /\ pending' = [pending EXCEPT ![e] = FALSE]
        /\ UNCHANGED <<started, error, reverted, children, steps, stack, owner, ran>>
    BY <1>2 DEF End, Skip, SetPending, undo, history
  <2> QED
    BY <2>1, FreeStep
<1>3. ASSUME NEW e \in Events, Fail(e), reverted[e]
      PROVE  Rest'
  <2>1. /\ Free(e) /\ pending' = [pending EXCEPT ![e] = FALSE]
        /\ error' = [error EXCEPT ![e] = TRUE] /\ error[e]
        /\ UNCHANGED <<started, reverted, children, steps, stack, owner, ran>>
    BY <1>3, FreeIs DEF Fail, SetPending, history
  <2>2. error' = error
    BY <2>1 DEF EventsInv, TypeOK
  <2> QED
    BY <2>1, <2>2, FreeStep
<1>4. CASE Next
  <2>1. Rest'
    BY <1>1, <1>2, <1>3, <1>4, AddStep, ChildStep, FailStep, VisitStep, KidStep, TakeStep,
       RunOneStep, FinishStep, InterruptStep DEF Next, Use
  <2> QED
    BY <1>4, <2>1, TypeStep DEF Rest, EventsInv
<1>5. CASE UNCHANGED vars
  <2>1. /\ UNCHANGED <<pending, started, done, error, reverted, children, steps, stack,
                       count, owner, ran>>
    BY <1>5 DEF vars, status, undo, history
  <2>2. /\ UNCHANGED <<Children, OuterRan, OuterOver, RollingBack>>
        /\ \A x : Numbers(x)' = Numbers(x) /\ Interrupted(x)' = Interrupted(x)
        /\ \A x : Waiting(x)' = Waiting(x)
    BY <2>1 DEF Children, OuterRan, OuterOver, RollingBack, Numbers, Waiting, Interrupted
  <2>3. TypeOK' /\ CountInv' /\ Failed' /\ Alone' /\ Registered'
    BY <2>1, <2>2 DEF EventsInv, TypeOK, CountInv, Pending, Failed, Alone, Registered,
                      Ascending
  <2>4. Framed' /\ Placed'
    BY <2>1, <2>2 DEF EventsInv, Framed, Placed, Descending
  <2>5. Visited' /\ UndoneInReverse'
    BY <2>1, <2>2 DEF EventsInv, Visited, UndoneInReverse
  <2> QED
    BY <2>3, <2>4, <2>5 DEF EventsInv
<1> QED
  BY <1>4, <1>5

----------------------------------------------------------------------------
(***************************************************************************)
(* The theorems.                                                           *)
(***************************************************************************)

\* Whatever fails, is rolled back within another rollback or is cut short
\* (IocEvent.fail_generator, IocEvent.rollback): every step is with its event,
\* with the rollback that took it, or was run, and is run once.
THEOREM EventsInvariant == Spec => []EventsInv
  BY EventsInit, EventsStep, PTL DEF Spec

\* The variables keep their types: the generators that run (IocEvent.rollback)
\* are those of events of the scope and hold steps that were registered.
THEOREM EventsTypeCorrect == Spec => []TypeOK
<1>1. EventsInv => TypeOK
  BY DEF EventsInv
<1> QED
  BY <1>1, EventsInvariant, PTL

\* PendingCounted: PENDING_COUNT, which gives every event its depth, is the
\* number of pending events of the scope (IocEvent.pending), whatever fails, is
\* skipped or is cut short.
THEOREM CountTheorem == Spec => []PendingCounted
<1>1. EventsInv => PendingCounted
  BY DEF EventsInv, CountInv, Pending, PendingCounted
<1> QED
  BY <1>1, EventsInvariant, PTL

\* UndoneInReverse: the steps of an event are run in the reverse order of their
\* registration and each of them once, those of a child event before those of
\* the event it belongs to (IocEvent.rollback), however failures are nested.
THEOREM UndoneInReverseTheorem == Spec => []UndoneInReverse
<1>1. EventsInv => UndoneInReverse
  BY DEF EventsInv
<1> QED
  BY <1>1, EventsInvariant, PTL

\* NothingForgotten: an event that has failed and is no longer pending has run
\* all of its steps and those of its child events (IocEvent.fail_generator),
\* except for those of a child whose own rollback was interrupted.
THEOREM NothingForgottenTheorem == Spec => []NothingForgotten
<1>1. ASSUME EventsInv
      PROVE  NothingForgotten
  <2> SUFFICES ASSUME NEW e \in Events, error[e] /\ ~pending[e],
                      NEW n \in DOMAIN owner,
                      owner[n] = e \/ (Contains(Kids(e), owner[n]) /\ ~Interrupted(owner[n]))
               PROVE  Contains(ran, n)
    BY DEF NothingForgotten
  <2>1. n \in Numbers(owner[n]) /\ owner[n] \in Events
    BY <1>1, StackIs DEF Numbers
  <2>2. n \in Range(ran)
    <3>1. CASE owner[n] = e
      BY <1>1, <2>1, <3>1 DEF EventsInv, Placed
    <3>2. CASE Contains(Kids(e), owner[n]) /\ ~Interrupted(owner[n])
      <4>1. e = Outer /\ owner[n] \in Children
        BY <1>1, <3>2, StackIs DEF Contains, Kids, Children, Range
      <4>2. OuterOver
        BY <4>1 DEF OuterOver
      <4> QED
        BY <1>1, <2>1, <3>2, <4>1, <4>2 DEF EventsInv, Visited
    <3> QED
      BY <3>1, <3>2
  <2> QED
    BY <1>1, <2>2, StackIs DEF Contains, Range
<1> QED
  BY <1>1, EventsInvariant, PTL
=============================================================================
