------------------------- MODULE JailDepends_proofs -------------------------
(***************************************************************************)
(* Proofs about start() with dependant jails, for any number of jails, any *)
(* depends properties, circular ones included, and any recursion limit.    *)
(***************************************************************************)
EXTENDS JailDepends, SequenceTheorems, TLAPS

----------------------------------------------------------------------------
(***************************************************************************)
(* Sequences of jails, and what is in them.                                *)
(***************************************************************************)
LEMMA RangeEmpty ==
  Range(<<>>) = {} /\ IsInjective(<<>>)
<1>1. DOMAIN <<>> = {}
  OBVIOUS
<1> QED
  BY <1>1 DEF Range, IsInjective

LEMMA RangeAppend ==
  ASSUME NEW S, NEW s \in Seq(S), NEW e \in S
  PROVE  /\ Append(s, e) \in Seq(S)
         /\ Range(Append(s, e)) = Range(s) \union {e}
         /\ IsInjective(s) /\ e \notin Range(s) => IsInjective(Append(s, e))
<1> DEFINE t == Append(s, e)
<1>1. /\ t \in Seq(S) /\ DOMAIN t = DOMAIN s \union {Len(s) + 1}
      /\ \A i \in DOMAIN s : t[i] = s[i]
      /\ t[Len(s) + 1] = e
  OBVIOUS
<1> HIDE DEF t
<1>2. Range(t) = Range(s) \union {e}
  BY <1>1 DEF Range
<1>3. IsInjective(s) /\ e \notin Range(s) => IsInjective(t)
  BY <1>1 DEF Range, IsInjective
<1> QED
  BY <1>1, <1>2, <1>3 DEF t

LEMMA RangeConcat ==
  ASSUME NEW S, NEW s \in Seq(S), NEW t \in Seq(S)
  PROVE  /\ s \o t \in Seq(S)
         /\ Range(s \o t) = Range(s) \union Range(t)
         /\ IsInjective(s) /\ IsInjective(t) /\ Range(s) \intersect Range(t) = {}
              => IsInjective(s \o t)
<1> DEFINE c == s \o t
<1>1. /\ c \in Seq(S) /\ Len(s) \in Nat /\ Len(t) \in Nat
      /\ DOMAIN c = 1 .. Len(s) + Len(t)
      /\ DOMAIN s = 1 .. Len(s) /\ DOMAIN t = 1 .. Len(t)
      /\ \A i \in 1 .. Len(s) + Len(t) :
           c[i] = IF i <= Len(s) THEN s[i] ELSE t[i - Len(s)]
  OBVIOUS
<1> HIDE DEF c
<1>2. \A i \in DOMAIN c : \/ i \in DOMAIN s /\ c[i] = s[i]
                          \/ /\ i - Len(s) \in DOMAIN t /\ c[i] = t[i - Len(s)]
                             /\ i > Len(s)
  BY <1>1
<1>3. /\ \A i \in DOMAIN s : i \in DOMAIN c /\ c[i] = s[i]
      /\ \A i \in DOMAIN t : i + Len(s) \in DOMAIN c /\ c[i + Len(s)] = t[i]
  BY <1>1
<1>4. Range(c) = Range(s) \union Range(t)
  BY <1>2, <1>3 DEF Range
<1>5. ASSUME IsInjective(s), IsInjective(t), Range(s) \intersect Range(t) = {}
      PROVE  IsInjective(c)
  <2> SUFFICES ASSUME NEW a \in DOMAIN c, NEW b \in DOMAIN c, c[a] = c[b]
               PROVE  a = b
    BY DEF IsInjective
  <2>1. CASE a \in DOMAIN s /\ c[a] = s[a] /\ b \in DOMAIN s /\ c[b] = s[b]
    BY <1>5, <2>1 DEF IsInjective
  <2>2. CASE /\ a - Len(s) \in DOMAIN t /\ c[a] = t[a - Len(s)]
             /\ b - Len(s) \in DOMAIN t /\ c[b] = t[b - Len(s)]
    <3>1. a - Len(s) = b - Len(s)
      BY <1>5, <2>2 DEF IsInjective
    <3> QED
      BY <1>1, <3>1
  <2> QED
    BY <1>2, <1>5, <2>1, <2>2 DEF Range
<1> QED
  BY <1>1, <1>4, <1>5 DEF c

LEMMA RangeReverse ==
  ASSUME NEW S, NEW s \in Seq(S)
  PROVE  /\ Reverse(s) \in Seq(S)
         /\ Range(Reverse(s)) = Range(s)
         /\ IsInjective(s) => IsInjective(Reverse(s))
<1> DEFINE r == Reverse(s)
           back(i) == Len(s) - i + 1
<1>1. /\ Len(s) \in Nat /\ DOMAIN s = 1 .. Len(s)
      /\ DOMAIN r = 1 .. Len(s) /\ \A i \in 1 .. Len(s) : r[i] = s[back(i)]
  BY DEF Reverse
<1>2. \A i \in 1 .. Len(s) : back(i) \in 1 .. Len(s) /\ back(back(i)) = i
  BY <1>1
<1>3. r \in Seq(S)
  <2>1. \A i \in 1 .. Len(s) : r[i] \in S
    BY <1>1, <1>2
  <2> QED
    BY <1>1, <2>1, IsASeq DEF Reverse
<1> HIDE DEF r
<1>4. Range(r) = Range(s)
  BY <1>1, <1>2 DEF Range
<1>5. IsInjective(s) => IsInjective(r)
  BY <1>1, <1>2 DEF IsInjective
<1> QED
  BY <1>3, <1>4, <1>5 DEF r

LEMMA RangeTail ==
  ASSUME NEW S, NEW s \in Seq(S), s # <<>>
  PROVE  /\ Tail(s) \in Seq(S) /\ Head(s) \in S
         /\ Range(s) = Range(Tail(s)) \union {Head(s)}
         /\ IsInjective(s) => IsInjective(Tail(s)) /\ Head(s) \notin Range(Tail(s))
<1> DEFINE t == Tail(s)
<1>1. /\ Len(s) \in Nat /\ Len(s) > 0 /\ DOMAIN s = 1 .. Len(s)
      /\ t \in Seq(S) /\ DOMAIN t = 1 .. Len(s) - 1
      /\ \A i \in 1 .. Len(s) - 1 : t[i] = s[i + 1]
      /\ Head(s) = s[1] /\ s[1] \in S
  OBVIOUS
<1> HIDE DEF t
<1>2. \A i \in DOMAIN s : i = 1 \/ (i - 1 \in DOMAIN t /\ t[i - 1] = s[i])
  BY <1>1
<1>3. \A i \in DOMAIN t : i + 1 \in DOMAIN s /\ i + 1 # 1 /\ t[i] = s[i + 1]
  BY <1>1
<1>4. Range(s) = Range(t) \union {s[1]}
  <2>1. ASSUME NEW i \in DOMAIN s
        PROVE  s[i] \in Range(t) \union {s[1]}
    BY <1>2 DEF Range
  <2>2. ASSUME NEW i \in DOMAIN t
        PROVE  t[i] \in Range(s)
    BY <1>3 DEF Range
  <2>3. s[1] \in Range(s)
    BY <1>1 DEF Range
  <2> QED
    BY <2>1, <2>2, <2>3 DEF Range
<1>5. ASSUME IsInjective(s)
      PROVE  IsInjective(t) /\ s[1] \notin Range(t)
  <2>1. s[1] \notin Range(t)
    BY <1>1, <1>3, <1>5 DEF IsInjective, Range
  <2>2. ASSUME NEW a \in DOMAIN t, NEW b \in DOMAIN t, t[a] = t[b]
        PROVE  a = b
    <3>1. a + 1 = b + 1
      BY <1>3, <1>5, <2>2 DEF IsInjective
    <3> QED
      BY <1>1, <3>1
  <2> QED
    BY <2>1, <2>2 DEF IsInjective
<1> QED
  BY <1>1, <1>4, <1>5 DEF t

----------------------------------------------------------------------------
(***************************************************************************)
(* The inductive invariant.                                                *)
(***************************************************************************)
Depth == Len(stack)
Stopping == {"rollback", "revert"}
Starting == {"prepare", "attach", "network", "services"}

\* Jails that these generators attached and that run.
Ours == ours \intersect running

\* The jails that a start() is about to stop, or will stop if what it does
\* next fails.
Held(frame) ==
  IF frame.pc \in Stopping THEN Range(frame.tostop)
  ELSE IF frame.pc = "depends" THEN Range(frame.started)
  ELSE IF frame.pc \in {"network", "services"} THEN {frame.jail} ELSE {}

\* Nothing is stopped yet, so that the services of Root may still be reached.
Building == stack # <<>> => Top.pc \notin Stopping

\* All but the innermost start() wait for a dependant.
Nested == \A i \in DOMAIN stack : i # Depth => stack[i].pc = "depends"

\* No jail of another consumer is held, none is held twice or by two.
Owned ==
  /\ \A i \in DOMAIN stack : Held(stack[i]) \subseteq Ours
  /\ \A i, k \in DOMAIN stack : i # k => Held(stack[i]) \intersect Held(stack[k]) = {}

Once ==
  \A i \in DOMAIN stack :
    /\ stack[i].pc = "require" => stack[i].started = <<>>
    /\ stack[i].pc = "depends" => IsInjective(stack[i].started)
    /\ stack[i].pc \in Stopping => IsInjective(stack[i].tostop)

\* Until something is stopped, what was collected runs, and is held no more.
Collected ==
  Building => \A i \in DOMAIN stack :
    /\ Range(stack[i].collected) \subseteq Ours
    /\ IsInjective(stack[i].collected)
    /\ \A k \in DOMAIN stack : Range(stack[i].collected) \intersect Held(stack[k]) = {}

\* Until something is stopped, a start() knows of a dependant that it runs,
\* has yet to look at it, or waits for it.
Looked ==
  Building => \A i \in DOMAIN stack :
    /\ stack[i].pc \in Starting => stack[i].todo = <<>>
    /\ stack[i].pc # "require" => \A d \in Range(depends[stack[i].jail]) :
         \/ d \in Range(stack[i].todo) \union running
         \/ i # Depth /\ stack[i + 1].jail = d

\* Root knows of every jail that was started on the way to its services.
Known ==
  stack # <<>> =>
    /\ Building => \A j \in Ours : \/ j \in Range(stack[1].collected)
                                   \/ \E i \in DOMAIN stack : j \in Held(stack[i])
    /\ At("rollback") /\ Depth = 1 => Ours \subseteq Range(Top.tostop)

\* The jail is what a rollback stops first.
First ==
  At("rollback") /\ Top.jail \in Ours =>
    /\ Top.tostop # <<>> /\ Head(Top.tostop) = Top.jail
    /\ Range(Top.collected) \subseteq Range(Top.tostop)

\* Only the rollback of a single command ends without an error.
Ends ==
  /\ stack # <<>> => outcome = "pending"
  /\ At("rollback") /\ Top.err = "none" => Depth = 1
  /\ At("revert") => Top.err # "none"

DependsInv ==
  /\ TypeOK /\ stack \in Seq(Frames)
  /\ Nested /\ Owned /\ Once /\ Collected /\ Looked /\ Known /\ First /\ Ends
  /\ NothingLeft

----------------------------------------------------------------------------
(***************************************************************************)
(* The stack of start() generators.                                        *)
(***************************************************************************)
LEMMA TopIs ==
  ASSUME stack \in Seq(Frames), stack # <<>>
  PROVE  /\ Depth \in Nat /\ Depth > 0 /\ DOMAIN stack = 1 .. Depth
         /\ Depth \in DOMAIN stack /\ Top = stack[Depth] /\ Top \in Frames
  BY DEF Depth, Top, Last

LEMMA BeginIs ==
  ASSUME NEW S, NEW s \in Seq(S), NEW n \in 0 .. Len(s)
  PROVE  LET t == SubSeq(s, 1, n)
         IN t \in Seq(S) /\ Len(t) = n /\ \A i \in 1 .. n : t[i] = s[i]
  OBVIOUS

LEMMA FrontIs ==
  ASSUME NEW S, NEW s \in Seq(S), s # <<>>
  PROVE  /\ Front(s) \in Seq(S) /\ Len(Front(s)) = Len(s) - 1
         /\ \A i \in 1 .. Len(s) - 1 : Front(s)[i] = s[i]
<1> DEFINE n == Len(s) - 1
<1>1. n \in 0 .. Len(s)
  OBVIOUS
<1> HIDE DEF n
<1>2. LET t == SubSeq(s, 1, n)
      IN t \in Seq(S) /\ Len(t) = n /\ \A i \in 1 .. n : t[i] = s[i]
  BY <1>1, BeginIs
<1> QED
  BY <1>2 DEF Front, n

\* At the end of a sequence come other elements.
LEMMA OneMore ==
  ASSUME NEW S, NEW s \in Seq(S), NEW f \in S
  PROVE  /\ s \o <<f>> \in Seq(S) /\ Len(s \o <<f>>) = Len(s) + 1
         /\ (s \o <<f>>)[Len(s) + 1] = f
         /\ \A i \in 1 .. Len(s) : (s \o <<f>>)[i] = s[i]
  OBVIOUS

LEMMA TwoMore ==
  ASSUME NEW S, NEW s \in Seq(S), NEW f \in S, NEW g \in S
  PROVE  LET t == s \o <<f, g>>
         IN /\ t \in Seq(S) /\ Len(t) = Len(s) + 2
            /\ t[Len(s) + 1] = f /\ t[Len(s) + 2] = g
            /\ \A i \in 1 .. Len(s) : t[i] = s[i]
  OBVIOUS

LEMMA EmptyIs ==
  ASSUME stack = <<>>
  PROVE  stack \in Seq(Frames) /\ DOMAIN stack = {} /\ Len(stack) = 0
  OBVIOUS

\* The innermost start() is in another state.
LEMMA UpdateIs ==
  ASSUME stack \in Seq(Frames), stack # <<>>, NEW f \in Frames, Update(f)
  PROVE  /\ stack' \in Seq(Frames) /\ stack' # <<>> /\ Len(stack') = Depth
         /\ DOMAIN stack' = DOMAIN stack
         /\ stack'[Depth] = f /\ Top' = f /\ Depth' = Depth
         /\ \A i \in DOMAIN stack : i # Depth => stack'[i] = stack[i]
<1>1. Depth \in Nat /\ Depth > 0 /\ DOMAIN stack = 1 .. Depth
  BY TopIs
<1>2. /\ Front(stack) \in Seq(Frames) /\ Len(Front(stack)) = Depth - 1
      /\ \A i \in 1 .. Depth - 1 : Front(stack)[i] = stack[i]
  BY <1>1, FrontIs DEF Depth
<1>3. /\ stack' \in Seq(Frames) /\ Len(stack') = Depth
      /\ stack'[Depth] = f
      /\ \A i \in 1 .. Depth - 1 : stack'[i] = stack[i]
  BY <1>1, <1>2 DEF Update
<1>4. Top' = f /\ Depth' = Depth /\ stack' # <<>>
  <2>1. Len(stack') = Depth /\ stack'[Len(stack')] = f /\ Len(stack') # 0
    BY <1>1, <1>3
  <2> QED
    BY <2>1 DEF Top, Last, Depth
<1>5. DOMAIN stack' = DOMAIN stack
  BY <1>1, <1>3
<1>6. \A i \in DOMAIN stack : i # Depth => stack'[i] = stack[i]
  <2>1. \A i \in DOMAIN stack : i # Depth => i \in 1 .. Depth - 1
    BY <1>1
  <2> QED
    BY <1>3, <2>1
<1> QED
  BY <1>3, <1>4, <1>5, <1>6

\* A start() begins to start a dependant.
LEMMA PushIs ==
  ASSUME stack \in Seq(Frames), stack # <<>>, NEW f \in Frames, NEW g \in Frames,
         stack' = Front(stack) \o <<f, g>>
  PROVE  /\ stack' \in Seq(Frames) /\ stack' # <<>> /\ Len(stack') = Depth + 1
         /\ DOMAIN stack' = DOMAIN stack \union {Depth + 1}
         /\ stack'[Depth] = f /\ stack'[Depth + 1] = g /\ Top' = g /\ Depth' = Depth + 1
         /\ \A i \in DOMAIN stack : i # Depth => stack'[i] = stack[i]
<1>1. Depth \in Nat /\ Depth > 0 /\ DOMAIN stack = 1 .. Depth
  BY TopIs
<1>2. /\ Front(stack) \in Seq(Frames) /\ Len(Front(stack)) = Depth - 1
      /\ \A i \in 1 .. Depth - 1 : Front(stack)[i] = stack[i]
  BY <1>1, FrontIs DEF Depth
<1>3. /\ stack' \in Seq(Frames) /\ Len(stack') = Depth + 1
      /\ stack'[Depth] = f /\ stack'[Depth + 1] = g
      /\ \A i \in 1 .. Depth - 1 : stack'[i] = stack[i]
  <2>1. LET t == Front(stack) \o <<f, g>>
        IN /\ t \in Seq(Frames) /\ Len(t) = Len(Front(stack)) + 2
           /\ t[Len(Front(stack)) + 1] = f /\ t[Len(Front(stack)) + 2] = g
           /\ \A i \in 1 .. Len(Front(stack)) : t[i] = Front(stack)[i]
    BY <1>2, TwoMore
  <2> QED
    BY <1>1, <1>2, <2>1
<1>4. DOMAIN stack' = 1 .. Depth + 1 /\ 1 .. Depth + 1 = 1 .. Depth \union {Depth + 1}
  BY <1>1, <1>3
<1>5. \A i \in DOMAIN stack : i # Depth => stack'[i] = stack[i]
  <2>1. \A i \in DOMAIN stack : i # Depth => i \in 1 .. Depth - 1
    BY <1>1
  <2> QED
    BY <1>3, <2>1
<1>6. Top' = g /\ Depth' = Depth + 1 /\ stack' # <<>>
  <2>1. Len(stack') = Depth + 1 /\ stack'[Len(stack')] = g /\ Len(stack') # 0
    BY <1>1, <1>3
  <2> QED
    BY <2>1 DEF Top, Last, Depth
<1> QED
  BY <1>1, <1>3, <1>4, <1>5, <1>6

\* A nested start() is over.
LEMMA PopIs ==
  ASSUME stack \in Seq(Frames), Len(stack) > 1, NEW f \in Frames,
         stack' = Front(Front(stack)) \o <<f>>
  PROVE  /\ stack' \in Seq(Frames) /\ stack' # <<>> /\ Len(stack') = Depth - 1
         /\ DOMAIN stack' = DOMAIN stack \ {Depth}
         /\ stack'[Depth - 1] = f /\ Top' = f /\ Depth' = Depth - 1
         /\ \A i \in DOMAIN stack' : i # Depth - 1 => stack'[i] = stack[i]
<1> DEFINE s == Front(stack)
           t == Front(s)
<1>1. Depth \in Nat /\ Depth > 1 /\ DOMAIN stack = 1 .. Depth /\ stack # <<>>
  BY DEF Depth
<1>2. /\ s \in Seq(Frames) /\ Len(s) = Depth - 1 /\ s # <<>>
      /\ \A i \in 1 .. Depth - 1 : s[i] = stack[i]
  <2>1. /\ s \in Seq(Frames) /\ Len(s) = Depth - 1
        /\ \A i \in 1 .. Depth - 1 : s[i] = stack[i]
    BY <1>1, FrontIs DEF Depth
  <2> QED
    BY <1>1, <2>1
<1> HIDE DEF s
<1>3. /\ t \in Seq(Frames) /\ Len(t) = Depth - 2
      /\ \A i \in 1 .. Depth - 2 : t[i] = stack[i]
  <2>1. /\ t \in Seq(Frames) /\ Len(t) = Len(s) - 1
        /\ \A i \in 1 .. Len(s) - 1 : t[i] = s[i]
    BY <1>2, FrontIs
  <2> QED
    BY <1>1, <1>2, <2>1
<1>4. stack' = t \o <<f>>
  BY DEF s
<1> HIDE DEF t
<1>5. /\ stack' \in Seq(Frames) /\ Len(stack') = Depth - 1
      /\ stack'[Depth - 1] = f
      /\ \A i \in 1 .. Depth - 2 : stack'[i] = stack[i]
  <2>1. LET c == t \o <<f>>
        IN /\ c \in Seq(Frames) /\ Len(c) = Len(t) + 1 /\ c[Len(t) + 1] = f
           /\ \A i \in 1 .. Len(t) : c[i] = t[i]
    BY <1>3, OneMore
  <2>2. Len(t) + 1 = Depth - 1
    BY <1>1, <1>3
  <2> DEFINE c == t \o <<f>>
  <2> HIDE DEF c
  <2>3. /\ c \in Seq(Frames) /\ Len(c) = Depth - 1 /\ c[Depth - 1] = f
        /\ \A i \in 1 .. Depth - 2 : c[i] = t[i]
    BY <1>3, <2>1, <2>2 DEF c
  <2>4. stack' = c
    BY <1>4 DEF c
  <2> QED
    BY <1>3, <2>3, <2>4
<1>6. DOMAIN stack' = 1 .. Depth - 1 /\ 1 .. Depth - 1 = 1 .. Depth \ {Depth}
  BY <1>1, <1>5
<1>7. \A i \in DOMAIN stack' : i # Depth - 1 => stack'[i] = stack[i]
  BY <1>1, <1>5, <1>6
<1>8. Top' = f /\ Depth' = Depth - 1 /\ stack' # <<>>
  <2>1. Len(stack') = Depth - 1 /\ stack'[Len(stack')] = f /\ Len(stack') # 0
    BY <1>1, <1>5
  <2> QED
    BY <2>1 DEF Top, Last, Depth
<1> QED
  BY <1>1, <1>5, <1>6, <1>7, <1>8

LEMMA CallerIs ==
  ASSUME DependsInv, Len(stack) > 1
  PROVE  /\ Depth - 1 \in DOMAIN stack /\ Depth - 1 # Depth
         /\ Last(Front(stack)) = stack[Depth - 1]
         /\ stack[Depth - 1] \in Frames /\ stack[Depth - 1].pc = "depends"
<1>1. /\ Depth \in Nat /\ Depth > 1 /\ DOMAIN stack = 1 .. Depth
      /\ stack \in Seq(Frames) /\ stack # <<>>
  BY DEF Depth, DependsInv
<1>2. /\ Front(stack) \in Seq(Frames) /\ Len(Front(stack)) = Depth - 1
      /\ \A i \in 1 .. Depth - 1 : Front(stack)[i] = stack[i]
  BY <1>1, FrontIs DEF Depth
<1>3. Depth - 1 \in 1 .. Depth - 1 /\ Depth - 1 \in DOMAIN stack /\ Depth - 1 # Depth
  BY <1>1
<1> QED
  BY <1>1, <1>2, <1>3 DEF Last, DependsInv, Nested

\* What a start() holds in the steps it takes.
LEMMA FrameTyped ==
  ASSUME NEW f \in Frames
  PROVE  /\ f.jail \in Jails /\ f.pc \in Steps /\ f.err \in Errors
         /\ f.todo \in Seq(Jails) /\ f.started \in Seq(Jails)
         /\ f.collected \in Seq(Jails) /\ f.tostop \in Seq(Jails)
  BY DEF Frames

\* The start() of Root is over.
LEMMA OverStep ==
  ASSUME DependsInv, stack' = <<>>, outcome' \in {"ok", "raised", "reverted"},
         UNCHANGED <<depends, command>>,
         running' \subseteq Jails, seen' \subseteq Jails, ours' \subseteq Jails, NothingLeft'
  PROVE  DependsInv'
<1>1. stack' \in Seq(Frames) /\ DOMAIN stack' = {} /\ Len(stack') = 0
  BY EmptyIs
<1>2. TypeOK'
  BY <1>1, DepthAssumption DEF DependsInv, TypeOK
<1>3. ~ \E i \in DOMAIN stack' : TRUE
  BY <1>1
<1>4. Nested' /\ Owned' /\ Once' /\ Collected' /\ Looked'
  BY <1>3 DEF Nested, Owned, Once, Collected, Looked
<1>5. Known' /\ First' /\ Ends'
  BY DEF Known, First, Ends, At
<1> QED
  BY <1>1, <1>2, <1>4, <1>5 DEF DependsInv

\* What is true of the frames that do not change, when no more is stopped than
\* the innermost start() holds.
LEMMA OursKept ==
  ASSUME DependsInv, NEW i \in DOMAIN stack, i # Depth, stack # <<>>,
         Ours \ Held(Top) \subseteq Ours'
  PROVE  Held(stack[i]) \subseteq Ours'
<1>1. Held(stack[i]) \subseteq Ours /\ Held(stack[i]) \intersect Held(Top) = {}
  BY TopIs DEF DependsInv, Owned
<1> QED
  BY <1>1

\* An exception leaves the innermost start(): its caller will stop what it held.
LEMMA RaiseStep ==
  ASSUME DependsInv, stack # <<>>, NEW err \in Errors \ {"none"},
         NEW result \in {"raised", "reverted"}, Raise(err, result),
         UNCHANGED <<depends, command>>,
         seen' \subseteq Jails, running' \subseteq Jails, ours' \subseteq Jails,
         Ours \ Held(Top) \subseteq Ours', Ours' \subseteq Ours,
         result = "reverted" => Ours' = {}
  PROVE  DependsInv'
<1>1. CASE ~(Len(stack) > 1 /\ err = "ioc")
  <2>1. stack' = <<>> /\ outcome' = result
    BY <1>1 DEF Raise
  <2>2. NothingLeft'
    BY <2>1 DEF NothingLeft, Ours
  <2> QED
    BY <2>1, <2>2, OverStep DEF DependsInv, TypeOK
<1>2. CASE Len(stack) > 1 /\ err = "ioc"
  <2> DEFINE caller == stack[Depth - 1]
             f == [caller EXCEPT !.pc = "revert", !.err = err,
                                 !.tostop = Reverse(caller.started)]
  <2>1. /\ stack' = Front(Front(stack)) \o <<f>> /\ outcome' = outcome
        /\ Depth - 1 \in DOMAIN stack /\ Depth - 1 # Depth
        /\ caller \in Frames /\ caller.pc = "depends"
    BY <1>2, CallerIs DEF Raise
  <2>2. /\ Reverse(caller.started) \in Seq(Jails)
        /\ Range(Reverse(caller.started)) = Range(caller.started)
        /\ IsInjective(caller.started) => IsInjective(Reverse(caller.started))
    BY <2>1, FrameTyped, RangeReverse
  <2> HIDE DEF caller
  <2>3. /\ f \in Frames /\ f.pc = "revert" /\ f.jail = caller.jail /\ f.err # "none"
        /\ f.tostop = Reverse(caller.started)
    BY <2>1, <2>2 DEF Frames, Steps
  <2> HIDE DEF f
  <2>4. Held(f) = Held(caller)
    BY <2>1, <2>2, <2>3 DEF Held, Stopping
  <2>5. stack \in Seq(Frames) /\ Nested /\ Owned /\ Once
    BY DEF DependsInv
  <2>6. /\ stack' \in Seq(Frames) /\ stack' # <<>> /\ Len(stack') = Depth - 1
        /\ DOMAIN stack' = DOMAIN stack \ {Depth}
        /\ stack'[Depth - 1] = f /\ Top' = f /\ Depth' = Depth - 1
        /\ \A i \in DOMAIN stack' : i # Depth - 1 => stack'[i] = stack[i]
    BY <1>2, <2>1, <2>3, <2>5, PopIs
  <2>7. TypeOK'
    BY <1>2, <2>1, <2>5, <2>6, DepthAssumption, TopIs DEF DependsInv, TypeOK, Depth
  <2>8. ~Building' /\ ~At("rollback")' /\ (At("revert") => Top.err # "none")'
    BY <2>3, <2>6 DEF Building, At, Stopping
  <2>9. \A i \in DOMAIN stack' : /\ i \in DOMAIN stack /\ i # Depth
                                 /\ Held(stack'[i]) = Held(stack[i])
    BY <2>1, <2>4, <2>6 DEF caller
  <2>10. Nested'
    BY <2>5, <2>6 DEF Nested
  <2>11. Owned'
    <3>1. \A i \in DOMAIN stack' : Held(stack'[i]) \subseteq Ours'
      BY <2>9, OursKept
    <3>2. \A i, k \in DOMAIN stack' :
            i # k => Held(stack'[i]) \intersect Held(stack'[k]) = {}
      BY <2>5, <2>9 DEF Owned
    <3> QED
      BY <3>1, <3>2 DEF Owned, Held, Stopping
  <2>12. Once'
    <3>1. IsInjective(caller.started)
      BY <2>1, <2>5 DEF Once, caller
    <3> QED
      BY <2>2, <2>3, <2>5, <2>6, <2>9, <3>1 DEF Once, Stopping
  <2>13. Collected' /\ Looked' /\ Known' /\ First'
    BY <2>8 DEF Collected, Looked, Known, First
  <2>14. Ends' /\ NothingLeft'
    BY <2>1, <2>8 DEF DependsInv, Ends, NothingLeft
  <2> QED
    BY <2>6, <2>7, <2>10, <2>11, <2>12, <2>13, <2>14 DEF DependsInv
<1> QED
  BY <1>1, <1>2

\* The innermost start() goes on, and holds what it attached.
LEMMA BuildStep ==
  ASSUME DependsInv, stack # <<>>, Top.pc \notin Stopping,
         NEW f \in Frames, Update(f), f.pc \notin Stopping \union {"require"},
         f.jail = Top.jail, f.collected = Top.collected,
         f.pc = "depends" => IsInjective(f.started),
         UNCHANGED <<depends, command, outcome>>,
         seen' \subseteq Jails, running' \subseteq Jails, ours' \subseteq Jails,
         running \subseteq running',
         NEW new, new \intersect Ours = {}, Ours' = Ours \union new,
         Held(f) = Held(Top) \union new,
         f.pc \in Starting => f.todo = <<>>,
         \A d \in Range(depends[Top.jail]) : d \in Range(f.todo) \union running'
  PROVE  DependsInv'
<1>1. stack \in Seq(Frames) /\ Nested /\ Owned /\ Once /\ Collected /\ Looked /\ Known
  BY DEF DependsInv
<1>2. /\ Depth \in Nat /\ Depth > 0 /\ DOMAIN stack = 1 .. Depth
      /\ Depth \in DOMAIN stack /\ Top = stack[Depth] /\ Top \in Frames
  BY <1>1, TopIs
<1>3. /\ stack' \in Seq(Frames) /\ stack' # <<>> /\ Len(stack') = Depth
      /\ DOMAIN stack' = DOMAIN stack
      /\ stack'[Depth] = f /\ Top' = f /\ Depth' = Depth
      /\ \A i \in DOMAIN stack : i # Depth => stack'[i] = stack[i]
  BY <1>1, UpdateIs
<1>4. \A i \in DOMAIN stack : /\ stack'[i].jail = stack[i].jail
                              /\ stack'[i].collected = stack[i].collected
  BY <1>2, <1>3
<1>5. \A i \in DOMAIN stack :
        Held(stack'[i]) = IF i = Depth THEN Held(stack[i]) \union new ELSE Held(stack[i])
  BY <1>2, <1>3
<1>6. \A g : Held(g)' = Held(g)
  BY DEF Held, Stopping
<1>7. Building /\ Building' /\ ~At("rollback")' /\ ~At("revert")'
  BY <1>3 DEF Building, At, Stopping
<1>8. TypeOK'
  BY <1>3 DEF DependsInv, TypeOK, Depth
<1>9. Nested'
  BY <1>1, <1>3 DEF Nested
<1>10. Owned'
  BY <1>1, <1>2, <1>3, <1>5, <1>6 DEF Owned
<1>11. Once'
  BY <1>1, <1>2, <1>3 DEF Once, Stopping
<1>12. Collected'
  <2> SUFFICES ASSUME NEW i \in DOMAIN stack
               PROVE  LET c == stack'[i].collected
                      IN /\ Range(c) \subseteq Ours' /\ IsInjective(c)
                         /\ \A k \in DOMAIN stack :
                              Range(c) \intersect Held(stack'[k]) = {}
    BY <1>3, <1>6 DEF Collected, Held, Stopping
  <2>1. /\ Range(stack[i].collected) \subseteq Ours /\ IsInjective(stack[i].collected)
        /\ \A k \in DOMAIN stack :
             Range(stack[i].collected) \intersect Held(stack[k]) = {}
    BY <1>1, <1>7 DEF Collected
  <2> QED
    BY <1>4, <1>5, <2>1
<1>13. Looked'
  <2> SUFFICES ASSUME NEW i \in DOMAIN stack
               PROVE  /\ stack'[i].pc \in Starting => stack'[i].todo = <<>>
                      /\ stack'[i].pc # "require" =>
                           \A d \in Range(depends[stack'[i].jail]) :
                             \/ d \in Range(stack'[i].todo) \union running'
                             \/ i # Depth /\ stack'[i + 1].jail = d
    BY <1>3, <1>7 DEF Looked, Starting
  <2>1. CASE i = Depth
    BY <1>2, <1>3, <2>1
  <2>2. CASE i # Depth
    <3>1. i + 1 \in DOMAIN stack
      BY <1>2, <2>2
    <3> QED
      BY <1>1, <1>3, <1>4, <1>7, <2>2, <3>1 DEF Looked
  <2> QED
    BY <2>1, <2>2
<1>14. Known'
  <2>1. 1 \in DOMAIN stack
    BY <1>2
  <2> QED
    BY <1>1, <1>2, <1>3, <1>4, <1>5, <1>6, <1>7, <2>1 DEF Known
<1>15. First' /\ Ends' /\ NothingLeft'
  BY <1>7 DEF DependsInv, First, Ends, NothingLeft
<1> QED
  BY <1>3, <1>8, <1>9, <1>10, <1>11, <1>12, <1>13, <1>14, <1>15 DEF DependsInv

\* The innermost start() begins to stop jails, or stopped one it held.
LEMMA StopStep ==
  ASSUME DependsInv, stack # <<>>,
         NEW f \in Frames, Update(f), f.pc \in Stopping,
         f.jail = Top.jail, f.collected = Top.collected, IsInjective(f.tostop),
         UNCHANGED <<depends, command, outcome, seen, ours>>,
         running' \subseteq running, Ours \ Held(Top) \subseteq Ours',
         Held(f) \subseteq Ours',
         \A j \in Held(f) : j \in Held(Top) \/ (Building /\ j \in Range(Top.collected)),
         f.pc = "rollback" /\ Depth = 1 => Ours' \subseteq Range(f.tostop),
         f.pc = "rollback" /\ f.jail \in Ours' =>
           /\ f.tostop # <<>> /\ Head(f.tostop) = f.jail
           /\ Range(f.collected) \subseteq Range(f.tostop),
         f.pc = "rollback" /\ f.err = "none" => Depth = 1,
         f.pc = "revert" => f.err # "none"
  PROVE  DependsInv'
<1>1. stack \in Seq(Frames) /\ Nested /\ Owned /\ Once /\ Collected
  BY DEF DependsInv
<1>2. /\ Depth \in Nat /\ Depth > 0 /\ DOMAIN stack = 1 .. Depth
      /\ Depth \in DOMAIN stack /\ Top = stack[Depth] /\ Top \in Frames
  BY <1>1, TopIs
<1>3. /\ stack' \in Seq(Frames) /\ stack' # <<>> /\ Len(stack') = Depth
      /\ DOMAIN stack' = DOMAIN stack
      /\ stack'[Depth] = f /\ Top' = f /\ Depth' = Depth
      /\ \A i \in DOMAIN stack : i # Depth => stack'[i] = stack[i]
  BY <1>1, UpdateIs
<1>4. ~Building'
  BY <1>3 DEF Building, Stopping
<1>5. TypeOK'
  BY <1>3 DEF DependsInv, TypeOK, Depth
<1>6. Nested'
  BY <1>1, <1>3 DEF Nested
<1>7. Owned'
  <2>1. \A i \in DOMAIN stack : Held(stack'[i]) \subseteq Ours'
    BY <1>3, OursKept
  <2>2. \A i \in DOMAIN stack : i # Depth => Held(stack[i]) \intersect Held(f) = {}
    BY <1>1, <1>2 DEF Owned, Collected
  <2>3. \A i, k \in DOMAIN stack :
          i # k => Held(stack'[i]) \intersect Held(stack'[k]) = {}
    BY <1>1, <1>3, <2>2 DEF Owned
  <2> QED
    BY <1>3, <2>1, <2>3 DEF Owned, Held, Stopping
<1>8. Once'
  BY <1>1, <1>3 DEF Once, Stopping
<1>9. Collected' /\ Looked'
  BY <1>4 DEF Collected, Looked
<1>10. Known' /\ First' /\ Ends' /\ NothingLeft'
  BY <1>3, <1>4 DEF DependsInv, Known, First, Ends, NothingLeft, At
<1> QED
  BY <1>3, <1>5, <1>6, <1>7, <1>8, <1>9, <1>10 DEF DependsInv

----------------------------------------------------------------------------
(***************************************************************************)
(* The steps.                                                              *)
(***************************************************************************)

\* What a start() is like before its next step.
LEMMA Before ==
  ASSUME DependsInv, stack # <<>>
  PROVE  /\ stack \in Seq(Frames) /\ Depth \in DOMAIN stack /\ Top = stack[Depth]
         /\ Top \in Frames /\ Top.jail \in Jails
         /\ running \subseteq Jails /\ ours \subseteq Jails /\ seen \subseteq Jails
         /\ Held(Top) \subseteq Ours
         /\ Top.pc \notin Stopping =>
              /\ Top.pc \in Starting => Top.todo = <<>>
              /\ Top.pc # "require" =>
                   \A d \in Range(depends[Top.jail]) : d \in Range(Top.todo) \union running
  BY TopIs, FrameTyped
     DEF DependsInv, TypeOK, Owned, Looked, Building

LEMMA RequireStep ==
  ASSUME DependsInv, Require
  PROVE  DependsInv'
<1>1. stack # <<>> /\ Top.pc = "require"
  BY DEF Require, At
<1>2. CASE Raise("ioc", "raised")
  BY <1>1, <1>2, Before, RaiseStep DEF Require, Ours, Errors
<1>3. ASSUME Update([Top EXCEPT !.pc = "depends", !.todo = depends[Top.jail]]),
             UNCHANGED outcome
      PROVE  DependsInv'
  <2> DEFINE f == [Top EXCEPT !.pc = "depends", !.todo = depends[Top.jail]]
  <2>1. depends[Top.jail] \in Seq(Jails) /\ Top.started = <<>>
    BY <1>1, Before, GraphAssumption DEF DependsInv, TypeOK, Once
  <2>2. /\ f \in Frames /\ f.pc = "depends" /\ f.jail = Top.jail
        /\ f.collected = Top.collected /\ f.started = <<>> /\ f.todo = depends[Top.jail]
    BY <1>1, <2>1, Before DEF Frames, Steps
  <2>3. Update(f)
    BY <1>3
  <2> HIDE DEF f
  <2>4. Held(f) = {} /\ Held(Top) = {}
    BY <1>1, <2>2, RangeEmpty DEF Held, Stopping
  <2> QED
    BY <1>1, <1>3, <2>2, <2>3, <2>4, Before, BuildStep, RangeEmpty
       DEF Require, Ours, Stopping, Starting
<1> QED
  BY <1>2, <1>3 DEF Require

LEMMA PrepareStep ==
  ASSUME DependsInv, Prepare
  PROVE  DependsInv'
<1>1. stack # <<>> /\ Top.pc = "prepare"
  BY DEF Prepare, At
<1>2. ASSUME NEW err \in Errors \ {"none"}, Raise(err, "raised")
      PROVE  DependsInv'
  BY <1>1, <1>2, Before, RaiseStep DEF Prepare, Ours
<1>3. ASSUME Goto("attach"), UNCHANGED outcome
      PROVE  DependsInv'
  <2> DEFINE f == [Top EXCEPT !.pc = "attach"]
  <2>1. /\ f \in Frames /\ f.pc = "attach" /\ f.jail = Top.jail
        /\ f.collected = Top.collected /\ f.todo = Top.todo
    BY <1>1, Before DEF Frames, Steps
  <2>2. Update(f)
    BY <1>3 DEF Goto
  <2> HIDE DEF f
  <2>3. Held(f) = {} /\ Held(Top) = {}
    BY <1>1, <2>1 DEF Held, Stopping
  <2> QED
    BY <1>1, <1>3, <2>1, <2>2, <2>3, Before, BuildStep
       DEF Prepare, Ours, Stopping, Starting
<1> QED
  BY <1>2, <1>3 DEF Prepare

\* Nobody else has the jail: it did not run.
LEMMA AttachStep ==
  ASSUME DependsInv, Attach
  PROVE  DependsInv'
<1>1. stack # <<>> /\ Top.pc = "attach"
  BY DEF Attach, At
<1>2. CASE Raise("ioc", "raised") /\ UNCHANGED <<running, ours>>
  BY <1>1, <1>2, Before, RaiseStep DEF Attach, Ours, Errors
<1>3. ASSUME Top.jail \notin running, running' = running \union {Top.jail},
             ours' = ours \union {Top.jail}, Goto("network"), UNCHANGED outcome
      PROVE  DependsInv'
  <2> DEFINE f == [Top EXCEPT !.pc = "network"]
             new == {Top.jail}
  <2>1. /\ f \in Frames /\ f.pc = "network" /\ f.jail = Top.jail
        /\ f.collected = Top.collected /\ f.todo = Top.todo
    BY <1>1, Before DEF Frames, Steps
  <2>2. Update(f)
    BY <1>3 DEF Goto
  <2> HIDE DEF f
  <2>3. Held(f) = Held(Top) \union new
    BY <1>1, <2>1 DEF Held, Stopping
  <2>4. new \intersect Ours = {} /\ Ours' = Ours \union new
    BY <1>3 DEF Ours
  <2> HIDE DEF new
  <2>5. running' \subseteq Jails /\ ours' \subseteq Jails /\ running \subseteq running'
    BY <1>1, <1>3, Before
  <2> QED
    BY <1>1, <1>3, <2>1, <2>2, <2>3, <2>4, <2>5, Before, BuildStep
       DEF Attach, Stopping, Starting
<1> QED
  BY <1>2, <1>3 DEF Attach

LEMMA NetworkStep ==
  ASSUME DependsInv, Network
  PROVE  DependsInv'
<1>1. stack # <<>> /\ Top.pc = "network"
  BY DEF Network, At
<1>2. ASSUME NEW err \in Errors \ {"none"}, Raise(err, "raised")
      PROVE  DependsInv'
  BY <1>1, <1>2, Before, RaiseStep DEF Network, Ours
<1>3. ASSUME Goto("services"), UNCHANGED outcome
      PROVE  DependsInv'
  <2> DEFINE f == [Top EXCEPT !.pc = "services"]
  <2>1. /\ f \in Frames /\ f.pc = "services" /\ f.jail = Top.jail
        /\ f.collected = Top.collected /\ f.todo = Top.todo
    BY <1>1, Before DEF Frames, Steps
  <2>2. Update(f)
    BY <1>3 DEF Goto
  <2> HIDE DEF f
  <2>3. Held(f) = Held(Top) \union {}
    BY <1>1, <2>1 DEF Held, Stopping
  <2> QED
    BY <1>1, <1>3, <2>1, <2>2, <2>3, Before, BuildStep
       DEF Network, Ours, Stopping, Starting
<1> QED
  BY <1>2, <1>3 DEF Network

\* A dependant that runs is skipped; another one is waited for.
LEMMA NextDependantStep ==
  ASSUME DependsInv, NextDependant
  PROVE  DependsInv'
<1> DEFINE dependant == Head(Top.todo)
           f == [Top EXCEPT !.todo = Tail(@)]
<1>1. /\ stack # <<>> /\ Top.pc = "depends" /\ Top.todo # <<>>
      /\ UNCHANGED <<depends, command, running, ours>>
  BY DEF NextDependant, At
<1>2. /\ Tail(Top.todo) \in Seq(Jails) /\ dependant \in Jails
      /\ Range(Top.todo) = Range(Tail(Top.todo)) \union {dependant}
  BY <1>1, Before, FrameTyped, RangeTail
<1>3. /\ f \in Frames /\ f.pc = "depends" /\ f.jail = Top.jail
      /\ f.collected = Top.collected /\ f.started = Top.started
      /\ f.todo = Tail(Top.todo)
  BY <1>1, <1>2, Before DEF Frames
<1>4. /\ seen' \subseteq Jails
      /\ \/ dependant \in running /\ Update(f) /\ UNCHANGED outcome
         \/ /\ dependant \notin running /\ Len(stack) < MaxDepth
            /\ stack' = Front(stack) \o <<f, Frame(dependant)>>
            /\ UNCHANGED outcome
         \/ Raise("other", "raised")
  BY <1>1, <1>2, Before DEF NextDependant, Same, Skip
<1> HIDE DEF f, dependant
<1>5. CASE dependant \in running /\ Update(f) /\ UNCHANGED outcome
  <2>1. Held(f) = Held(Top) \union {}
    BY <1>1, <1>3 DEF Held, Stopping
  <2>2. IsInjective(f.started)
    BY <1>1, <1>3, Before DEF DependsInv, Once
  <2> QED
    BY <1>1, <1>2, <1>3, <1>4, <1>5, <2>1, <2>2, Before, BuildStep
       DEF Ours, Stopping, Starting
<1>6. CASE Raise("other", "raised")
  BY <1>1, <1>4, <1>6, Before, RaiseStep DEF Ours, Errors
<1>7. CASE /\ Len(stack) < MaxDepth /\ UNCHANGED outcome
           /\ stack' = Front(stack) \o <<f, Frame(dependant)>>
  <2> DEFINE g == Frame(dependant)
  <2>1. /\ g \in Frames /\ g.pc = "require" /\ g.jail = dependant
        /\ g.started = <<>> /\ g.collected = <<>>
    BY <1>2 DEF Frame, Frames, Steps, Errors
  <2> HIDE DEF g
  <2>2. stack \in Seq(Frames) /\ Nested /\ Owned /\ Once /\ Collected /\ Looked /\ Known
    BY DEF DependsInv
  <2>3. /\ Depth \in Nat /\ Depth > 0 /\ DOMAIN stack = 1 .. Depth
        /\ Depth \in DOMAIN stack /\ Top = stack[Depth]
    BY <1>1, <2>2, TopIs
  <2>4. /\ stack' \in Seq(Frames) /\ stack' # <<>> /\ Len(stack') = Depth + 1
        /\ DOMAIN stack' = DOMAIN stack \union {Depth + 1}
        /\ stack'[Depth] = f /\ stack'[Depth + 1] = g /\ Top' = g
        /\ Depth' = Depth + 1
        /\ \A i \in DOMAIN stack : i # Depth => stack'[i] = stack[i]
    BY <1>1, <1>3, <1>7, <2>1, <2>2, PushIs DEF g
  <2>5. /\ Depth + 1 \notin DOMAIN stack
        /\ \A i \in DOMAIN stack : /\ stack'[i].jail = stack[i].jail
                                   /\ stack'[i].collected = stack[i].collected
                                   /\ stack'[i].started = stack[i].started
                                   /\ stack'[i].pc = stack[i].pc
    BY <1>1, <1>3, <2>3, <2>4
  <2>6. Held(g) = {} /\ \A i \in DOMAIN stack : Held(stack'[i]) = Held(stack[i])
    <3>1. Held(f) = Held(Top)
      BY <1>1, <1>3 DEF Held, Stopping
    <3> QED
      BY <2>1, <2>3, <2>4, <3>1 DEF Held, Stopping
  <2>7. Building /\ Building' /\ ~At("rollback")' /\ ~At("revert")'
    BY <1>1, <2>1, <2>4 DEF Building, At, Stopping
  <2>8. UNCHANGED Ours
    BY <1>1 DEF Ours
  <2>9. TypeOK'
    BY <1>1, <1>4, <1>7, <2>3, <2>4, DepthAssumption DEF DependsInv, TypeOK, Depth
  <2>10. Nested'
    BY <1>1, <2>2, <2>3, <2>4, <2>5 DEF Nested
  <2>11. Owned'
    <3>1. \A i \in DOMAIN stack' : i \in DOMAIN stack \/ Held(stack'[i]) = {}
      BY <2>4, <2>6
    <3>2. \A i \in DOMAIN stack' : Held(stack'[i]) \subseteq Ours
      BY <2>2, <2>6, <3>1 DEF Owned
    <3>3. \A i, k \in DOMAIN stack' :
            i # k => Held(stack'[i]) \intersect Held(stack'[k]) = {}
      BY <2>2, <2>6, <3>1 DEF Owned
    <3> QED
      BY <2>8, <3>2, <3>3 DEF Owned, Held, Stopping
  <2>12. Once'
    BY <1>1, <2>1, <2>2, <2>3, <2>4, <2>5 DEF Once, Stopping
  <2>13. Collected'
    <3> SUFFICES ASSUME NEW i \in DOMAIN stack'
                 PROVE  LET c == stack'[i].collected
                        IN /\ Range(c) \subseteq Ours /\ IsInjective(c)
                           /\ \A k \in DOMAIN stack' :
                                Range(c) \intersect Held(stack'[k]) = {}
      BY <2>8 DEF Collected, Held, Stopping
    <3>1. CASE i = Depth + 1
      BY <2>1, <2>4, <3>1, RangeEmpty
    <3>2. CASE i \in DOMAIN stack
      BY <2>2, <2>4, <2>5, <2>6, <2>7, <3>2 DEF Collected
    <3> QED
      BY <2>4, <3>1, <3>2
  <2>14. Looked'
    <3> SUFFICES ASSUME NEW i \in DOMAIN stack'
                 PROVE  /\ stack'[i].pc \in Starting => stack'[i].todo = <<>>
                        /\ stack'[i].pc # "require" =>
                             \A d \in Range(depends[stack'[i].jail]) :
                               \/ d \in Range(stack'[i].todo) \union running
                               \/ i # Depth + 1 /\ stack'[i + 1].jail = d
      BY <1>1, <2>4, <2>7 DEF Looked, Starting
    <3>1. CASE i = Depth + 1
      BY <2>1, <2>4, <3>1 DEF Starting
    <3>2. CASE i = Depth
      <4>1. \A d \in Range(depends[Top.jail]) : d \in Range(Top.todo) \union running
        BY <1>1, Before DEF Stopping
      <4> QED
        BY <1>2, <1>3, <2>1, <2>3, <2>4, <3>2, <4>1 DEF Starting
    <3>3. CASE i \in DOMAIN stack /\ i # Depth
      <4>1. i + 1 \in DOMAIN stack /\ i # Depth + 1
        BY <2>3, <3>3
      <4> QED
        BY <2>2, <2>4, <2>5, <2>7, <3>3, <4>1 DEF Looked
    <3> QED
      BY <2>4, <3>1, <3>2, <3>3
  <2>15. Known'
    <3>1. 1 \in DOMAIN stack
      BY <2>3
    <3>2. ASSUME NEW j \in Ours
          PROVE  \/ j \in Range(stack'[1].collected)
                 \/ \E i \in DOMAIN stack' : j \in Held(stack'[i])
      BY <1>1, <2>2, <2>4, <2>5, <2>6, <2>7, <3>1 DEF Known
    <3> QED
      BY <2>7, <2>8, <3>2 DEF Known, Held, Stopping
  <2>16. First' /\ Ends' /\ NothingLeft'
    BY <1>7, <1>1, <2>7 DEF DependsInv, First, Ends, NothingLeft
  <2> QED
    BY <2>4, <2>9, <2>10, <2>11, <2>12, <2>13, <2>14, <2>15, <2>16 DEF DependsInv
<1> QED
  BY <1>4, <1>5, <1>6, <1>7

\* Every start() on the stack collects what the innermost one has started.
LEMMA CollectIs ==
  ASSUME stack \in Seq(Frames), stack # <<>>, Collect
  PROVE  /\ stack' \in Seq(Frames) /\ Len(stack') = Depth /\ stack' # <<>>
         /\ DOMAIN stack' = DOMAIN stack /\ Depth' = Depth /\ Top' = stack'[Depth]
         /\ \A i \in DOMAIN stack :
              /\ stack'[i].jail = stack[i].jail /\ stack'[i].todo = stack[i].todo
              /\ stack'[i].started = stack[i].started
              /\ stack'[i].tostop = stack[i].tostop
              /\ stack'[i].collected = stack[i].collected \o Top.started
              /\ stack'[i].pc = IF i = Depth THEN "prepare" ELSE stack[i].pc
<1> DEFINE F(i) == [stack[i] EXCEPT !.collected = @ \o Top.started,
                                    !.pc = IF i = Len(stack) THEN "prepare" ELSE @]
<1>1. /\ Depth \in Nat /\ Depth > 0 /\ DOMAIN stack = 1 .. Depth /\ Top \in Frames
      /\ \A i \in DOMAIN stack : stack[i] \in Frames
  BY TopIs
<1>2. \A i \in DOMAIN stack :
        /\ F(i) \in Frames
        /\ F(i).jail = stack[i].jail /\ F(i).todo = stack[i].todo
        /\ F(i).started = stack[i].started /\ F(i).tostop = stack[i].tostop
        /\ F(i).collected = stack[i].collected \o Top.started
        /\ F(i).pc = IF i = Depth THEN "prepare" ELSE stack[i].pc
  <2> SUFFICES ASSUME NEW i \in DOMAIN stack
               PROVE  /\ F(i) \in Frames
                      /\ F(i).jail = stack[i].jail /\ F(i).todo = stack[i].todo
                      /\ F(i).started = stack[i].started /\ F(i).tostop = stack[i].tostop
                      /\ F(i).collected = stack[i].collected \o Top.started
                      /\ F(i).pc = IF i = Depth THEN "prepare" ELSE stack[i].pc
    OBVIOUS
  <2>1. stack[i] \in Frames /\ stack[i].collected \o Top.started \in Seq(Jails)
    BY <1>1, FrameTyped, RangeConcat
  <2> DEFINE c == stack[i].collected \o Top.started
  <2> HIDE DEF c
  <2>2. LET g == [stack[i] EXCEPT !.collected = c,
                                  !.pc = IF i = Len(stack) THEN "prepare" ELSE @]
        IN /\ g \in Frames
           /\ g.jail = stack[i].jail /\ g.todo = stack[i].todo
           /\ g.started = stack[i].started /\ g.tostop = stack[i].tostop
           /\ g.collected = c
           /\ g.pc = IF i = Depth THEN "prepare" ELSE stack[i].pc
    BY <2>1 DEF Frames, Steps, Depth, c
  <2> QED
    BY <2>1, <2>2 DEF c
<1>3. stack' = [i \in 1 .. Depth |-> F(i)]
  BY <1>1 DEF Collect
<1> HIDE DEF F
<1>4. stack' \in Seq(Frames) /\ Len(stack') = Depth /\ DOMAIN stack' = 1 .. Depth
  <2>1. stack' \in [1 .. Depth -> Frames]
    BY <1>1, <1>2, <1>3
  <2>2. stack' \in Seq(Frames)
    BY <1>1, <2>1, SeqDef
  <2> QED
    BY <1>1, <2>1, <2>2, LenProperties
<1>5. \A i \in DOMAIN stack : stack'[i] = F(i)
  BY <1>1, <1>3
<1>6. stack' # <<>> /\ Depth' = Depth /\ Top' = stack'[Depth]
  BY <1>1, <1>4 DEF Depth, Top, Last
<1> QED
  BY <1>1, <1>2, <1>4, <1>5, <1>6

LEMMA DependantsStartedStep ==
  ASSUME DependsInv, DependantsStarted
  PROVE  DependsInv'
<1>1. /\ stack # <<>> /\ Top.pc = "depends" /\ Top.todo = <<>> /\ Collect
      /\ UNCHANGED <<depends, command, running, seen, outcome, ours>>
  BY DEF DependantsStarted, At
<1>2. stack \in Seq(Frames) /\ Nested /\ Owned /\ Once /\ Collected /\ Looked /\ Known
  BY DEF DependsInv
<1>3. /\ Depth \in Nat /\ Depth > 0 /\ DOMAIN stack = 1 .. Depth
      /\ Depth \in DOMAIN stack /\ Top = stack[Depth] /\ Top \in Frames
      /\ \A i \in DOMAIN stack : stack[i] \in Frames
  BY <1>1, <1>2, TopIs
<1>4. /\ stack' \in Seq(Frames) /\ Len(stack') = Depth /\ stack' # <<>>
      /\ DOMAIN stack' = DOMAIN stack /\ Depth' = Depth /\ Top' = stack'[Depth]
      /\ \A i \in DOMAIN stack :
           /\ stack'[i].jail = stack[i].jail /\ stack'[i].todo = stack[i].todo
           /\ stack'[i].started = stack[i].started
           /\ stack'[i].tostop = stack[i].tostop
           /\ stack'[i].collected = stack[i].collected \o Top.started
           /\ stack'[i].pc = IF i = Depth THEN "prepare" ELSE stack[i].pc
  BY <1>1, <1>2, CollectIs
<1>5. /\ Held(stack[Depth]) = Range(Top.started) /\ IsInjective(Top.started)
      /\ \A i \in DOMAIN stack :
           Held(stack'[i]) = IF i = Depth THEN {} ELSE Held(stack[i])
  <2>1. Held(stack'[Depth]) = {}
    BY <1>3, <1>4 DEF Held, Stopping
  <2>2. ASSUME NEW i \in DOMAIN stack, i # Depth
        PROVE  Held(stack'[i]) = Held(stack[i])
    BY <1>4, <2>2 DEF Held
  <2> QED
    BY <1>1, <1>2, <1>3, <2>1, <2>2 DEF Held, Stopping, Once
<1>6. \A g : Held(g)' = Held(g)
  BY DEF Held, Stopping
<1>7. Building /\ Building' /\ ~At("rollback")' /\ ~At("revert")'
  BY <1>1, <1>3, <1>4 DEF Building, At, Stopping
<1>8. UNCHANGED Ours
  BY <1>1 DEF Ours
<1>9. \A i \in DOMAIN stack :
        /\ Range(stack'[i].collected) = Range(stack[i].collected) \union Held(stack[Depth])
        /\ IsInjective(stack'[i].collected)
  <2> SUFFICES ASSUME NEW i \in DOMAIN stack
               PROVE  LET c == stack[i].collected \o Top.started
                      IN /\ Range(c) = Range(stack[i].collected) \union Range(Top.started)
                         /\ IsInjective(c)
    BY <1>4, <1>5
  <2>1. stack[i].collected \in Seq(Jails) /\ Top.started \in Seq(Jails)
    BY <1>3, FrameTyped
  <2>2. /\ IsInjective(stack[i].collected)
        /\ Range(stack[i].collected) \intersect Range(Top.started) = {}
    BY <1>2, <1>3, <1>5, <1>7 DEF Collected
  <2> QED
    BY <1>5, <2>1, <2>2, RangeConcat
<1>10. TypeOK'
  BY <1>1, <1>4 DEF DependsInv, TypeOK, Depth
<1>11. Nested'
  BY <1>2, <1>4 DEF Nested
<1>12. Owned'
  BY <1>2, <1>4, <1>5, <1>6, <1>8 DEF Owned
<1>13. Once'
  BY <1>2, <1>4 DEF Once, Stopping
<1>14. Collected'
  <2> SUFFICES ASSUME NEW i \in DOMAIN stack
               PROVE  /\ Range(stack'[i].collected) \subseteq Ours
                      /\ IsInjective(stack'[i].collected)
                      /\ \A k \in DOMAIN stack :
                           Range(stack'[i].collected) \intersect Held(stack'[k]) = {}
    BY <1>4, <1>6, <1>8 DEF Collected
  <2>1. /\ Range(stack[i].collected) \subseteq Ours
        /\ \A k \in DOMAIN stack :
             Range(stack[i].collected) \intersect Held(stack[k]) = {}
    BY <1>2, <1>7 DEF Collected
  <2>2. /\ Held(stack[Depth]) \subseteq Ours
        /\ \A k \in DOMAIN stack : k # Depth => Held(stack[Depth]) \intersect Held(stack[k]) = {}
    BY <1>2, <1>3 DEF Owned
  <2> QED
    BY <1>5, <1>9, <2>1, <2>2
<1>15. Looked'
  <2> SUFFICES ASSUME NEW i \in DOMAIN stack
               PROVE  /\ stack'[i].pc \in Starting => stack'[i].todo = <<>>
                      /\ stack'[i].pc # "require" =>
                           \A d \in Range(depends[stack'[i].jail]) :
                             \/ d \in Range(stack'[i].todo) \union running
                             \/ i # Depth /\ stack'[i + 1].jail = d
    BY <1>1, <1>4, <1>7 DEF Looked, Starting
  <2>1. CASE i = Depth
    BY <1>1, <1>2, <1>3, <1>4, <1>7, <2>1 DEF Looked
  <2>2. CASE i # Depth
    <3>1. i + 1 \in DOMAIN stack
      BY <1>3, <2>2
    <3> QED
      BY <1>2, <1>4, <1>7, <2>2, <3>1 DEF Looked
  <2> QED
    BY <2>1, <2>2
<1>16. Known'
  <2>1. 1 \in DOMAIN stack
    BY <1>3
  <2>2. ASSUME NEW j \in Ours
        PROVE  \/ j \in Range(stack'[1].collected)
               \/ \E i \in DOMAIN stack : j \in Held(stack'[i])
    BY <1>1, <1>2, <1>5, <1>7, <1>9, <2>1 DEF Known
  <2> QED
    BY <1>4, <1>6, <1>7, <1>8, <2>2 DEF Known
<1>17. First' /\ Ends' /\ NothingLeft'
  BY <1>1, <1>7 DEF DependsInv, First, Ends, NothingLeft
<1> QED
  BY <1>4, <1>10, <1>11, <1>12, <1>13, <1>14, <1>15, <1>16, <1>17 DEF DependsInv

\* The caller holds the dependant that was started.
LEMMA ReturnStep ==
  ASSUME DependsInv, At("services"), Return, command => Len(stack) # 1,
         UNCHANGED <<depends, command, running, seen, ours>>
  PROVE  DependsInv'
<1>1. stack # <<>> /\ Top.pc = "services" /\ UNCHANGED Ours
  BY DEF At, Ours
<1>2. stack \in Seq(Frames) /\ Nested /\ Owned /\ Once /\ Collected /\ Looked /\ Known
  BY DEF DependsInv
<1>3. /\ Depth \in Nat /\ Depth > 0 /\ DOMAIN stack = 1 .. Depth
      /\ Depth \in DOMAIN stack /\ Top = stack[Depth] /\ Top \in Frames /\ Top.jail \in Jails
  BY <1>1, <1>2, TopIs, FrameTyped
<1>4. CASE ~(Len(stack) > 1)
  <2>1. stack' = <<>> /\ outcome' = "ok" /\ Len(stack) = 1
    BY <1>3, <1>4 DEF Return, Depth
  <2>2. NothingLeft'
    BY <2>1 DEF NothingLeft
  <2> QED
    BY <1>1, <2>1, <2>2, Before, OverStep
<1>5. CASE Len(stack) > 1
  <2> DEFINE caller == stack[Depth - 1]
             f == [caller EXCEPT !.started = Append(@, Top.jail)]
  <2>1. /\ stack' = Front(Front(stack)) \o <<f>> /\ outcome' = outcome
        /\ Depth - 1 \in DOMAIN stack /\ Depth - 1 # Depth
        /\ caller \in Frames /\ caller.pc = "depends"
    BY <1>5, CallerIs DEF Return
  <2>2. Held(Top) = {Top.jail} /\ Held(caller) = Range(caller.started)
    BY <1>1, <2>1 DEF Held, Stopping
  <2>3. Top.jail \in Ours /\ Held(caller) \intersect Held(Top) = {} /\ IsInjective(caller.started)
    BY <1>2, <1>3, <2>1, <2>2 DEF Owned, Once
  <2>4. /\ Append(caller.started, Top.jail) \in Seq(Jails)
        /\ Range(Append(caller.started, Top.jail)) = Range(caller.started) \union {Top.jail}
        /\ IsInjective(Append(caller.started, Top.jail))
    BY <1>3, <2>1, <2>2, <2>3, FrameTyped, RangeAppend
  <2> HIDE DEF caller
  <2>5. /\ f \in Frames /\ f.pc = "depends" /\ f.jail = caller.jail
        /\ f.todo = caller.todo /\ f.collected = caller.collected
        /\ f.started = Append(caller.started, Top.jail)
    BY <2>1, <2>4 DEF Frames
  <2> HIDE DEF f
  <2>6. Held(f) = Held(caller) \union Held(Top)
    BY <2>1, <2>2, <2>4, <2>5 DEF Held, Stopping
  <2>7. /\ stack' \in Seq(Frames) /\ stack' # <<>> /\ Len(stack') = Depth - 1
        /\ DOMAIN stack' = DOMAIN stack \ {Depth}
        /\ stack'[Depth - 1] = f /\ Top' = f /\ Depth' = Depth - 1
        /\ \A i \in DOMAIN stack' : i # Depth - 1 => stack'[i] = stack[i]
    BY <1>2, <1>5, <2>1, <2>5, PopIs
  <2>8. \A i \in DOMAIN stack' :
          /\ i \in DOMAIN stack /\ i # Depth
          /\ stack'[i].jail = stack[i].jail /\ stack'[i].todo = stack[i].todo
          /\ stack'[i].collected = stack[i].collected /\ stack'[i].pc = stack[i].pc
          /\ Held(stack'[i]) = IF i = Depth - 1 THEN Held(stack[i]) \union Held(stack[Depth])
                                                ELSE Held(stack[i])
    BY <1>3, <2>1, <2>5, <2>6, <2>7 DEF caller
  <2>9. \A g : Held(g)' = Held(g)
    BY DEF Held, Stopping
  <2>10. Building /\ Building' /\ ~At("rollback")' /\ ~At("revert")'
    BY <1>1, <2>5, <2>7 DEF Building, At, Stopping
  <2>11. TypeOK'
    BY <2>1, <2>7, <1>3, DepthAssumption DEF DependsInv, TypeOK, Depth
  <2>12. Nested'
    BY <1>2, <2>7, <2>8 DEF Nested
  <2>13. Owned'
    <3>1. \A i \in DOMAIN stack' : Held(stack'[i]) \subseteq Ours
      BY <1>2, <1>3, <2>8 DEF Owned
    <3>2. \A i, k \in DOMAIN stack' :
            i # k => Held(stack'[i]) \intersect Held(stack'[k]) = {}
      <4> SUFFICES ASSUME NEW i \in DOMAIN stack', NEW k \in DOMAIN stack', i # k
                   PROVE  Held(stack'[i]) \intersect Held(stack'[k]) = {}
        OBVIOUS
      <4>1. /\ Held(stack[i]) \intersect Held(stack[k]) = {}
            /\ Held(stack[i]) \intersect Held(stack[Depth]) = {}
            /\ Held(stack[k]) \intersect Held(stack[Depth]) = {}
        BY <1>2, <1>3, <2>8 DEF Owned
      <4> QED
        BY <2>8, <4>1
    <3> QED
      BY <1>1, <2>9, <3>1, <3>2 DEF Owned
  <2>14. Once'
    BY <1>2, <2>4, <2>5, <2>7, <2>8 DEF Once, Stopping
  <2>15. Collected'
    <3> SUFFICES ASSUME NEW i \in DOMAIN stack'
                 PROVE  /\ Range(stack'[i].collected) \subseteq Ours
                        /\ IsInjective(stack'[i].collected)
                        /\ \A k \in DOMAIN stack' :
                             Range(stack'[i].collected) \intersect Held(stack'[k]) = {}
      BY <1>1, <2>9 DEF Collected
    <3>1. /\ Range(stack[i].collected) \subseteq Ours /\ IsInjective(stack[i].collected)
          /\ \A k \in DOMAIN stack :
               Range(stack[i].collected) \intersect Held(stack[k]) = {}
      BY <1>2, <2>8, <2>10 DEF Collected
    <3> QED
      BY <1>3, <2>8, <3>1
  <2>16. Looked'
    <3> SUFFICES ASSUME NEW i \in DOMAIN stack'
                 PROVE  /\ stack'[i].pc \in Starting => stack'[i].todo = <<>>
                        /\ stack'[i].pc # "require" =>
                             \A d \in Range(depends[stack'[i].jail]) :
                               \/ d \in Range(stack'[i].todo) \union running
                               \/ i # Depth - 1 /\ stack'[i + 1].jail = d
      BY <2>7, <2>10 DEF Looked, Starting
    <3>1. /\ stack[i].pc \in Starting => stack[i].todo = <<>>
          /\ stack[i].pc # "require" =>
               \A d \in Range(depends[stack[i].jail]) :
                 \/ d \in Range(stack[i].todo) \union running
                 \/ i # Depth /\ stack[i + 1].jail = d
      BY <1>2, <2>8, <2>10 DEF Looked
    <3>2. CASE i = Depth - 1
      <4>1. i + 1 = Depth /\ stack[i + 1].jail \in running
        BY <1>3, <2>3, <3>2 DEF Ours
      <4> QED
        BY <2>8, <3>1, <4>1
    <3>3. CASE i # Depth - 1
      <4>1. i + 1 \in DOMAIN stack'
        BY <1>3, <2>7, <2>8, <3>3
      <4> QED
        BY <2>8, <3>1, <3>3, <4>1
    <3> QED
      BY <3>2, <3>3
  <2>17. Known'
    <3>1. 1 \in DOMAIN stack' /\ Depth - 1 \in DOMAIN stack'
      <4>1. Depth > 1
        BY <1>5 DEF Depth
      <4> QED
        BY <1>3, <2>1, <2>7, <4>1
    <3>2. ASSUME NEW j \in Ours
          PROVE  \/ j \in Range(stack'[1].collected)
                 \/ \E i \in DOMAIN stack' : j \in Held(stack'[i])
      <4>1. \/ j \in Range(stack[1].collected)
            \/ \E i \in DOMAIN stack : j \in Held(stack[i])
        BY <1>1, <1>2, <2>10 DEF Known
      <4>2. CASE j \in Range(stack[1].collected)
        BY <2>8, <3>1, <4>2
      <4>3. ASSUME NEW i \in DOMAIN stack, j \in Held(stack[i])
            PROVE  \E k \in DOMAIN stack' : j \in Held(stack'[k])
        BY <2>7, <2>8, <3>1, <4>3
      <4> QED
        BY <4>1, <4>2, <4>3
    <3> QED
      BY <1>1, <2>9, <2>10, <3>2 DEF Known
  <2>18. First' /\ Ends' /\ NothingLeft'
    BY <1>1, <2>1, <2>10 DEF DependsInv, First, Ends, NothingLeft
  <2> QED
    BY <2>7, <2>11, <2>12, <2>13, <2>14, <2>15, <2>16, <2>17, <2>18 DEF DependsInv
<1> QED
  BY <1>4, <1>5

\* The jail is stopped first, then what was collected.
LEMMA RollbackStep ==
  ASSUME DependsInv, At("services"), NEW err \in Errors, Rollback(err),
         err = "none" => Len(stack) = 1,
         UNCHANGED <<depends, command, running, seen, outcome, ours>>
  PROVE  DependsInv'
<1> DEFINE t == <<Top.jail>> \o Reverse(Top.collected)
           f == [Top EXCEPT !.pc = "rollback", !.err = err, !.tostop = t]
<1>1. stack # <<>> /\ Top.pc = "services" /\ UNCHANGED Ours
  BY DEF At, Ours
<1>2. /\ stack \in Seq(Frames) /\ Depth \in Nat /\ Depth > 0 /\ DOMAIN stack = 1 .. Depth
      /\ Depth \in DOMAIN stack /\ Top = stack[Depth] /\ Top \in Frames /\ Top.jail \in Jails
      /\ Top.collected \in Seq(Jails)
  BY <1>1, TopIs, FrameTyped DEF DependsInv
<1>3. Building /\ Held(Top) = {Top.jail}
  BY <1>1 DEF Building, Held, Stopping
<1>4. /\ Range(Top.collected) \subseteq Ours /\ IsInjective(Top.collected)
      /\ Top.jail \in Ours /\ Top.jail \notin Range(Top.collected)
  BY <1>2, <1>3 DEF DependsInv, Collected, Owned
<1>5. /\ Reverse(Top.collected) \in Seq(Jails)
      /\ Range(Reverse(Top.collected)) = Range(Top.collected)
      /\ IsInjective(Reverse(Top.collected))
  BY <1>2, <1>4, RangeReverse
<1>6. /\ <<Top.jail>> \in Seq(Jails) /\ Range(<<Top.jail>>) = {Top.jail}
      /\ IsInjective(<<Top.jail>>)
  <2>1. /\ <<Top.jail>> \in Seq(Jails) /\ DOMAIN <<Top.jail>> = {1}
        /\ <<Top.jail>>[1] = Top.jail
    BY <1>2
  <2> QED
    BY <2>1 DEF Range, IsInjective
<1>7. /\ t \in Seq(Jails) /\ IsInjective(t)
      /\ Range(t) = {Top.jail} \union Range(Top.collected)
  <2> DEFINE a == <<Top.jail>>
             r == Reverse(Top.collected)
  <2>1. /\ a \in Seq(Jails) /\ r \in Seq(Jails) /\ IsInjective(a) /\ IsInjective(r)
        /\ Range(a) = {Top.jail} /\ Range(r) = Range(Top.collected)
        /\ Range(a) \intersect Range(r) = {}
    BY <1>4, <1>5, <1>6
  <2> HIDE DEF a, r
  <2>2. /\ a \o r \in Seq(Jails) /\ IsInjective(a \o r)
        /\ Range(a \o r) = Range(a) \union Range(r)
    BY <2>1, RangeConcat
  <2> QED
    BY <2>1, <2>2 DEF a, r
<1>8. t # <<>> /\ Head(t) = Top.jail
  BY <1>2, <1>5
<1>9. Update(f)
  BY DEF Rollback
<1> HIDE DEF t
<1>10. /\ f \in Frames /\ f.pc = "rollback" /\ f.err = err /\ f.tostop = t
       /\ f.jail = Top.jail /\ f.collected = Top.collected
  BY <1>2, <1>7 DEF Frames, Steps
<1> HIDE DEF f
<1>11. Held(f) = {Top.jail} \union Range(Top.collected)
  BY <1>7, <1>10 DEF Held, Stopping
<1>12. f.pc \in Stopping /\ f.pc # "revert"
  BY <1>10 DEF Stopping
<1>13. Depth = 1 => Ours \subseteq Range(t)
  <2> SUFFICES ASSUME Depth = 1, NEW j \in Ours
               PROVE  j \in Range(t)
    OBVIOUS
  <2>1. \/ j \in Range(stack[1].collected)
        \/ \E i \in DOMAIN stack : j \in Held(stack[i])
    BY <1>1, <1>3 DEF DependsInv, Known
  <2> QED
    BY <1>2, <1>3, <1>7, <2>1
<1>14. /\ Held(f) \subseteq Ours'
       /\ \A j \in Held(f) : j \in Held(Top) \/ (Building /\ j \in Range(Top.collected))
       /\ Ours \ Held(Top) \subseteq Ours' /\ running' \subseteq running
       /\ f.pc = "rollback" /\ Depth = 1 => Ours' \subseteq Range(f.tostop)
       /\ f.pc = "rollback" /\ f.jail \in Ours' =>
            /\ f.tostop # <<>> /\ Head(f.tostop) = f.jail
            /\ Range(f.collected) \subseteq Range(f.tostop)
  BY <1>1, <1>3, <1>4, <1>7, <1>8, <1>10, <1>11, <1>13
<1>15. f.err = "none" => Depth = 1
  BY <1>10 DEF Depth
<1> QED
  BY <1>1, <1>7, <1>9, <1>10, <1>12, <1>14, <1>15, StopStep

LEMMA ServicesStep ==
  ASSUME DependsInv, Services
  PROVE  DependsInv'
<1>1. At("services") /\ UNCHANGED <<depends, command, running, seen, ours>>
  BY DEF Services
<1>2. ASSUME command, Len(stack) = 1, Rollback("none"), UNCHANGED outcome
      PROVE  DependsInv'
  BY <1>1, <1>2, RollbackStep DEF Errors
<1>3. ASSUME ~(command /\ Len(stack) = 1), Return
      PROVE  DependsInv'
  BY <1>1, <1>3, ReturnStep
<1>4. ASSUME NEW err \in Errors \ {"none"}, Rollback(err), UNCHANGED outcome
      PROVE  DependsInv'
  BY <1>1, <1>4, RollbackStep
<1> QED
  BY <1>2, <1>3, <1>4 DEF Services

LEMMA StopNextStep ==
  ASSUME DependsInv, StopNext
  PROVE  DependsInv'
<1> DEFINE h == Head(Top.tostop)
           f == [Top EXCEPT !.tostop = Tail(@)]
<1>1. /\ stack # <<>> /\ Top.pc \in Stopping /\ Top.tostop # <<>>
      /\ UNCHANGED <<depends, command, seen, ours>>
  BY DEF StopNext, At, Stopping
<1>2. /\ stack \in Seq(Frames) /\ Depth \in DOMAIN stack /\ Top = stack[Depth]
      /\ Top \in Frames /\ Top.tostop \in Seq(Jails) /\ IsInjective(Top.tostop)
      /\ Held(Top) = Range(Top.tostop) /\ Held(Top) \subseteq Ours
      /\ running \subseteq Jails /\ ours \subseteq Jails /\ seen \subseteq Jails
  BY <1>1, Before, FrameTyped DEF DependsInv, Once, Held
<1>3. /\ Tail(Top.tostop) \in Seq(Jails) /\ IsInjective(Tail(Top.tostop))
      /\ Range(Top.tostop) = Range(Tail(Top.tostop)) \union {h}
      /\ h \notin Range(Tail(Top.tostop))
  BY <1>1, <1>2, RangeTail
<1>4. /\ f \in Frames /\ f.pc = Top.pc /\ f.jail = Top.jail /\ f.err = Top.err
      /\ f.collected = Top.collected /\ f.tostop = Tail(Top.tostop)
  BY <1>2, <1>3 DEF Frames
<1>5. CASE running' = running \ {h} /\ Update(f) /\ UNCHANGED outcome
  <2> HIDE DEF f, h
  <2>1. Ours' = Ours \ {h} /\ running' \subseteq running
    BY <1>1, <1>5 DEF Ours
  <2>2. Held(f) = Range(Tail(Top.tostop)) /\ Held(f) \subseteq Ours'
    BY <1>1, <1>2, <1>3, <1>4, <2>1 DEF Held
  <2>3. f.pc = "rollback" /\ Depth = 1 => Ours' \subseteq Range(f.tostop)
    BY <1>1, <1>3, <1>4, <2>1 DEF DependsInv, Known, At
  <2>4. f.pc = "rollback" => f.jail \notin Ours'
    BY <1>1, <1>4, <2>1 DEF DependsInv, First, At, h
  <2>5. /\ f.pc = "rollback" /\ f.err = "none" => Depth = 1
        /\ f.pc = "revert" => f.err # "none"
    BY <1>1, <1>4 DEF DependsInv, Ends, At
  <2>6. /\ Ours \ Held(Top) \subseteq Ours' /\ running' \subseteq Jails
        /\ \A j \in Held(f) : j \in Held(Top) \/ (Building /\ j \in Range(Top.collected))
    BY <1>2, <1>3, <2>1, <2>2
  <2> QED
    BY <1>1, <1>3, <1>4, <1>5, <2>1, <2>2, <2>3, <2>4, <2>5, <2>6, StopStep
<1>6. ASSUME running' \in {running, running \ {h}},
             NEW err \in Errors \ {"none"}, Raise(err, "raised")
      PROVE  DependsInv'
  <2> HIDE DEF f, h
  <2>1. /\ Ours' \subseteq Ours /\ Ours \ {h} \subseteq Ours' /\ h \in Held(Top)
        /\ running' \subseteq Jails
    BY <1>1, <1>2, <1>3, <1>6 DEF Ours
  <2> QED
    BY <1>1, <1>2, <1>6, <2>1, RaiseStep
<1> QED
  BY <1>5, <1>6 DEF StopNext

LEMMA StoppedStep ==
  ASSUME DependsInv, Stopped
  PROVE  DependsInv'
<1>1. /\ stack # <<>> /\ Top.pc \in Stopping /\ Top.tostop = <<>>
      /\ UNCHANGED <<depends, command, running, seen, ours>>
  BY DEF Stopped, At, Stopping
<1>2. /\ Top \in Frames /\ Top.err \in Errors
      /\ running \subseteq Jails /\ ours \subseteq Jails /\ seen \subseteq Jails
  BY <1>1, Before, FrameTyped
<1>3. UNCHANGED Ours
  BY <1>1 DEF Ours
<1>4. At("rollback") /\ Len(stack) = 1 => Ours = {}
  BY <1>1, RangeEmpty DEF DependsInv, Known, Depth
<1>5. CASE Top.err = "none"
  <2>1. stack' = <<>> /\ outcome' = "ok"
    BY <1>5 DEF Stopped
  <2>2. At("rollback") /\ Len(stack) = 1
    BY <1>1, <1>5 DEF DependsInv, Ends, At, Stopping, Depth
  <2>3. NothingLeft'
    BY <1>3, <1>4, <2>2 DEF NothingLeft, Ours
  <2> QED
    BY <1>1, <1>2, <2>1, <2>3, OverStep
<1>6. CASE Top.err # "none"
  <2> DEFINE result == IF At("rollback") /\ Len(stack) = 1 THEN "reverted" ELSE "raised"
  <2>1. Raise(Top.err, result)
    BY <1>6 DEF Stopped
  <2>2. /\ result \in {"raised", "reverted"}
        /\ result = "reverted" => Ours' = {}
    BY <1>3, <1>4
  <2> HIDE DEF result
  <2> QED
    BY <1>1, <1>2, <1>3, <1>6, <2>1, <2>2, RaiseStep
<1> QED
  BY <1>5, <1>6

\* What another consumer starts was not running, so that no start() holds it.
LEMMA OtherStartStep ==
  ASSUME DependsInv, NEW j \in Jails, OtherStart(j)
  PROVE  DependsInv'
<1>1. /\ UNCHANGED <<depends, command, stack, seen, outcome>>
      /\ running' = running \union {j} /\ ours' = ours \ {j} /\ j \notin running
  BY DEF OtherStart
<1>2. UNCHANGED Ours
  BY <1>1 DEF Ours
<1>3. /\ UNCHANGED <<Top, Depth, Building, At("rollback"), At("revert")>>
      /\ \A g : Held(g)' = Held(g)
  BY <1>1 DEF Top, Depth, Building, At, Held, Stopping
<1>4. TypeOK' /\ stack' \in Seq(Frames)
  BY <1>1 DEF DependsInv, TypeOK
<1>5. Nested' /\ Owned' /\ Once'
  BY <1>1, <1>2, <1>3 DEF DependsInv, Nested, Owned, Once, Stopping
<1>6. Collected'
  BY <1>1, <1>2, <1>3 DEF DependsInv, Collected
<1>7. Looked'
  BY <1>1, <1>3 DEF DependsInv, Looked, Starting
<1>8. Known'
  BY <1>1, <1>2, <1>3 DEF DependsInv, Known
<1>9. First' /\ Ends'
  BY <1>1, <1>2, <1>3 DEF DependsInv, First, Ends
<1>10. NothingLeft'
  BY <1>1, <1>2 DEF DependsInv, NothingLeft, Ours
<1> QED
  BY <1>4, <1>5, <1>6, <1>7, <1>8, <1>9, <1>10 DEF DependsInv

LEMMA DependsInit ==
  ASSUME Init
  PROVE  DependsInv
<1> DEFINE g == Frame(Root)
<1>1. /\ g \in Frames /\ g.pc = "require" /\ g.started = <<>> /\ g.collected = <<>>
  BY RootAssumption DEF Frame, Frames, Steps, Errors
<1> HIDE DEF g
<1>2. stack = <<g>>
  BY DEF Init, g
<1>3. /\ stack \in Seq(Frames) /\ Len(stack) = 1 /\ DOMAIN stack = {1}
      /\ stack[1] = g /\ Top = g /\ Depth = 1 /\ stack # <<>>
  BY <1>1, <1>2 DEF Top, Last, Depth
<1>4. Held(g) = {} /\ Ours = {}
  BY <1>1 DEF Held, Stopping, Ours, Init
<1>5. TypeOK
  BY <1>1, <1>3, RootAssumption, CommandAssumption, DepthAssumption DEF Init, TypeOK
<1>6. Nested /\ Owned /\ Once
  BY <1>1, <1>3, <1>4 DEF Nested, Owned, Once, Stopping
<1>7. Collected /\ Looked
  BY <1>1, <1>3, <1>4, RangeEmpty DEF Collected, Looked, Starting
<1>8. Known /\ First /\ Ends /\ NothingLeft
  BY <1>1, <1>3, <1>4 DEF Known, First, Ends, NothingLeft, At, Ours, Init
<1> QED
  BY <1>3, <1>5, <1>6, <1>7, <1>8 DEF DependsInv

LEMMA DependsStep ==
  ASSUME DependsInv, [Next]_vars
  PROVE  DependsInv'
<1>1. CASE Step
  BY <1>1, RequireStep, NextDependantStep, DependantsStartedStep, PrepareStep,
     AttachStep, NetworkStep, ServicesStep, StopNextStep, StoppedStep DEF Step
<1>2. CASE \E j \in Jails : OtherStart(j)
  BY <1>2, OtherStartStep
<1>3. CASE UNCHANGED vars
  <2>1. /\ UNCHANGED <<Top, Depth, Building, At("rollback"), At("revert"), Ours>>
        /\ \A g : Held(g)' = Held(g)
    BY <1>3 DEF vars, Top, Depth, Building, At, Held, Stopping, Ours
  <2>2. TypeOK' /\ stack' \in Seq(Frames) /\ NothingLeft'
    BY <1>3 DEF vars, DependsInv, TypeOK, NothingLeft
  <2>3. Nested' /\ Owned' /\ Once'
    BY <1>3, <2>1 DEF vars, DependsInv, Nested, Owned, Once, Stopping
  <2>4. Collected' /\ Looked'
    BY <1>3, <2>1 DEF vars, DependsInv, Collected, Looked, Starting
  <2>5. Known' /\ First' /\ Ends'
    BY <1>3, <2>1 DEF vars, DependsInv, Known, First, Ends
  <2> QED
    BY <2>2, <2>3, <2>4, <2>5 DEF DependsInv
<1> QED
  BY <1>1, <1>2, <1>3 DEF Next

----------------------------------------------------------------------------
(***************************************************************************)
(* The theorems.                                                           *)
(***************************************************************************)

\* Whatever the depends properties and however consumers race with the nested
\* start() generators (Jail.start, Jail._start_dependant_jails): nothing is
\* held twice, what was collected runs until something is stopped, and the
\* start() of Root knows of everything that was started on its behalf.
THEOREM DependsInvariant == Spec => []DependsInv
<1>1. Init => DependsInv
  BY DependsInit
<1>2. DependsInv /\ [Next]_vars => DependsInv'
  BY DependsStep
<1> QED
  BY <1>1, <1>2, PTL DEF Spec

\* The stack of nested start() generators (Jail.start) never grows beyond the
\* recursion limit, and holds nothing but well-formed frames.
THEOREM DependsTypeCorrect == Spec => []TypeOK
<1>1. DependsInv => TypeOK
  BY DEF DependsInv
<1> QED
  BY <1>1, DependsInvariant, PTL

\* DependantsRun: when the services of a jail are started (Jail.start), every
\* jail that its depends property selects runs, for any dependency graph.
THEOREM DependantsRunTheorem == Spec => []DependantsRun
<1>1. ASSUME DependsInv
      PROVE  DependantsRun
  <2> SUFFICES ASSUME At("services"), NEW i \in DOMAIN depends[Top.jail]
               PROVE  depends[Top.jail][i] \in running
    BY DEF DependantsRun
  <2>1. /\ Top.todo = <<>>
        /\ \A d \in Range(depends[Top.jail]) : d \in Range(Top.todo) \union running
    BY <1>1, Before DEF At, Stopping, Starting
  <2>2. depends[Top.jail][i] \in Range(depends[Top.jail])
    BY DEF Range
  <2> QED
    BY <2>1, <2>2, RangeEmpty
<1> QED
  BY <1>1, DependsInvariant, PTL

\* NothingLeft: when the start() of Root has been reverted, or its single
\* command has ended (Jail.start, _stop_jails), no jail that was started on the
\* way to its services runs, dependants of dependants included.
THEOREM NothingLeftTheorem == Spec => []NothingLeft
<1>1. DependsInv => NothingLeft
  BY DEF DependsInv
<1> QED
  BY <1>1, DependsInvariant, PTL

\* StopsFirst: as long as a jail runs whose start() is rolled back
\* (Jail.start, _stop_jails), the dependants that it collected run as well.
THEOREM StopsFirstTheorem == Spec => []StopsFirst
<1>1. ASSUME DependsInv
      PROVE  StopsFirst
  <2> SUFFICES ASSUME At("rollback"), Top.jail \in Ours, NEW i \in DOMAIN Top.collected
               PROVE  Top.collected[i] \in running
    BY DEF StopsFirst, Ours
  <2>1. stack # <<>> /\ Top.pc = "rollback"
    BY DEF At
  <2>2. Range(Top.collected) \subseteq Held(Top)
    BY <1>1, <2>1 DEF DependsInv, First, Held, Stopping
  <2>3. Held(Top) \subseteq running
    BY <1>1, <2>1, Before DEF Ours
  <2> QED
    BY <2>2, <2>3 DEF Range
<1> QED
  BY <1>1, DependsInvariant, PTL

\* StopsOwn: whoever races with the nested start() generators (Jail.start,
\* _stop_jails, _revert_start), they stop no jail that another consumer started.
THEOREM StopsOwnTheorem == Spec => StopsOwn
<1>1. ASSUME DependsInv, [Next]_vars
      PROVE  [\A j \in running \ running' : j \in ours]_vars
  <2>1. CASE StopNext
    <3>1. /\ stack # <<>> /\ Top.pc \in Stopping /\ Top.tostop # <<>>
          /\ running' \in {running, running \ {Head(Top.tostop)}}
      BY <2>1 DEF StopNext, At, Stopping
    <3>2. Head(Top.tostop) \in Range(Top.tostop)
      BY <1>1, <3>1, Before, FrameTyped, RangeTail
    <3>3. Range(Top.tostop) \subseteq ours
      BY <1>1, <3>1, Before DEF Held, Ours
    <3> QED
      BY <3>1, <3>2, <3>3
  <2>2. CASE ~StopNext
    <3>1. running \subseteq running'
      BY <1>1, <2>2 DEF Next, Step, Require, NextDependant, DependantsStarted, Prepare,
                        Attach, Network, Services, Stopped, OtherStart, vars
    <3> QED
      BY <3>1
  <2> QED
    BY <2>1, <2>2
<1> QED
  BY <1>1, DependsInvariant, PTL DEF Spec, StopsOwn
=============================================================================
