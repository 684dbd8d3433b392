------------------------- MODULE VnetNetwork_proofs -------------------------
(***************************************************************************)
(* Proofs about the networks of a vnet jail, for any set of nics, any kinds *)
(* of bridges and any number of starts.                                    *)
(***************************************************************************)
EXTENDS VnetNetwork, TLAPS

----------------------------------------------------------------------------
(***************************************************************************)
(* Types.                                                                  *)
(***************************************************************************)

\* What a move to another step leaves alone.
LEMMA GotoKeeps ==
  ASSUME op \in Operations, NEW step \in Steps, Goto(step)
  PROVE  /\ op' \in Operations
         /\ op'.pc = step /\ op'.todo = op.todo /\ op'.nic = op.nic
         /\ op'.plan = op.plan /\ op'.jid = op.jid
  BY DEF Goto, Operations

\* What the choice of the next nic leaves alone.
LEMMA TakeKeeps ==
  ASSUME op \in Operations, NEW step \in Steps, Take(step)
  PROVE  /\ op' \in Operations
         /\ op'.pc = step /\ op'.nic \in op.todo /\ op'.todo = op.todo \ {op'.nic}
         /\ op'.plan = op.plan /\ op'.jid = op.jid
  BY DEF Take, Operations

\* The interfaces, memberships and rules of a nic under way.
LEMMA PartTyped ==
  ASSUME op \in Operations, op.jid # None, NEW p \in Parts
  PROVE  /\ Part(p) \in Interfaces
         /\ Part(p).nic = op.nic /\ Part(p).jid = op.jid /\ Part(p).part = p
  BY DEF Operations, Part, Interfaces

LEMMA MemberTyped ==
  ASSUME op \in Operations, op.jid # None, NEW p \in Parts, NEW b \in {"bridge", "net"}
  PROVE  Member(p, b) \in Memberships /\ Member(p, b).iface = Part(p) /\ Member(p, b).of = b
  BY PartTyped DEF Member, Memberships

LEMMA RulesTyped ==
  ASSUME TypeOK, op.jid # None, NEW n \in 0 .. 4
  PROVE  /\ Added(n) \subseteq Rules /\ rules \subseteq Added(n)
         /\ \A r \in Added(n) \ rules : r.jid = op.jid /\ r.nic = op.nic
         /\ n = 4 => Rule("ipv4", "deny") \in Added(n) /\ Rule("ipv6", "deny") \in Added(n)
<1>1. /\ op.jid \in Jids /\ op.nic \in Nics /\ rules \subseteq Rules
  BY DEF TypeOK, Operations
<1>2. \A f \in {"ipv4", "ipv6"}, a \in {"allow", "deny"} :
         Rule(f, a) \in Rules /\ Rule(f, a).jid = op.jid /\ Rule(f, a).nic = op.nic
  BY <1>1 DEF Rule, Rules
<1>3. DOMAIN RulesOfNic = 1 .. 4
  BY DEF RulesOfNic
<1>4. \A i \in 1 .. 4 :
        RulesOfNic[i] \in {Rule("ipv4", "allow"), Rule("ipv4", "deny"),
                          Rule("ipv6", "allow"), Rule("ipv6", "deny")}
  BY DEF RulesOfNic
<1>5. RulesOfNic[2] = Rule("ipv4", "deny") /\ RulesOfNic[4] = Rule("ipv6", "deny")
  BY DEF RulesOfNic
<1> QED
  BY <1>1, <1>2, <1>3, <1>4, <1>5 DEF Added

----------------------------------------------------------------------------
(***************************************************************************)
(* The inductive invariant.                                                *)
(***************************************************************************)
SetupSteps == {"next", "check", "pair", "join", "pair2", "rules", "net", "members",
               "move", "inside", "routes"}
NicSteps == SetupSteps \ {"next", "routes"}
TeardownSteps == {"nextdown", "down", "downsecure", "downnet", "unrule"}

Starting == op.pc \in SetupSteps \union {"started"}
Stopping == op.pc \in TeardownSteps \union {"stopped"}
OfNic == op.pc \in NicSteps \union (TeardownSteps \ {"nextdown"})

\* The jid that names interfaces is that of the jail, or of the one removed.
Lives ==
  /\ jid # None => jid = last /\ op.jid = jid
  /\ jid = None => inside = {}
  /\ Starting => jid # None
  /\ Stopping => jid = None /\ op.jid # None
  /\ At("idle") => jid = None
  /\ op.todo \subseteq Configured(op.plan)
  /\ OfNic => op.nic \in Configured(op.plan) \ op.todo
  /\ op.pc \in {"routes", "started", "stopped"} => op.todo = {}

\* Nothing on the host carries a jid that is yet to come.
Known ==
  /\ \A i \in ifs : i.jid <= last
  /\ \A r \in rules : r.jid <= last
  /\ \A m \in joined : m.iface \in named

Denied(n, j) ==
  \A f \in {"ipv4", "ipv6"} :
    [jid |-> j, nic |-> n, family |-> f, action |-> "deny"] \in rules

\* The outer end of the second epair joins the bridge of the host last.
Guarded ==
  \A n \in Nics :
    /\ jid # None
    /\ [iface |-> [nic |-> n, jid |-> jid, part |-> "a"], of |-> "bridge"] \in joined
    => Denied(n, jid)

\* What each step of the nic under way has established.
JoinedTo ==
  IF Secure THEN /\ Member("host", "net") \in joined /\ Member("b", "net") \in joined
                 /\ Member("a", "bridge") \in joined
            ELSE Member("host", "bridge") \in joined

NicReady ==
  /\ op.pc \in {"join", "pair2", "rules", "net", "members", "move", "inside"}
       => Part("host") \in named /\ Part("j") \in named
  /\ At("join") => ~Secure
  /\ op.pc \in {"pair2", "rules", "net", "members"} => Secure
  /\ op.pc \in {"rules", "net", "members"} => Part("a") \in named /\ Part("b") \in named
  /\ op.pc \in {"net", "members"} => Denied(op.nic, op.jid)
  /\ op.pc \in {"move", "inside"} => JoinedTo
  /\ At("inside") => Part("j") \in inside

\* The nics before it are connected.
NicsUp ==
  Starting => \A n \in Configured(op.plan) \ op.todo :
    ~(op.pc \in NicSteps /\ n = op.nic) => Linked(n, jid, op.plan[n].bridge)

\* As long as nothing fails and the properties stay the same: what is on the
\* host for the jid belongs to a nic that was set up, or is yet to be torn down.
OfMode(i) == i.part \in {"host", "j"} \/ op.plan[i.nic].bridge = "secure"

NotYet ==
  CASE At("down") -> Parts
    [] At("downsecure") -> {"a", "b", "net"}
    [] At("downnet") -> {"net"}
    [] OTHER -> {}

SetupAccounted ==
  /\ \A i \in ifs : i.jid = op.jid =>
       OfMode(i) /\ i.nic \in Configured(op.plan) \ op.todo
  /\ \A r \in rules : r.jid = op.jid =>
       op.plan[r.nic].bridge = "secure" /\ r.nic \in Configured(op.plan) \ op.todo

TeardownAccounted ==
  /\ \A i \in ifs : i.jid = op.jid =>
       OfMode(i) /\ (i.nic \in op.todo \/ (i.nic = op.nic /\ i.part \in NotYet))
  /\ \A r \in rules : r.jid = op.jid =>
       /\ op.plan[r.nic].bridge = "secure"
       /\ r.nic \in op.todo \/ (r.nic = op.nic /\ OfNic)

Accounted ==
  clean => /\ ~At("raised") /\ ~At("refused")
           /\ Starting => SetupAccounted
           /\ Stopping => TeardownAccounted

VnetInv == TypeOK /\ Lives /\ Known /\ Guarded /\ NicReady /\ NicsUp /\ Accounted

\* An epair is created as a whole, or in part if its creation fails.
LEMMA PairTyped ==
  ASSUME op \in Operations, op.jid # None, ifs \subseteq Interfaces, named \subseteq ifs,
         NEW a \in Parts, NEW b \in Parts,
         CreatePair(a, b) \/ CreatePairFails(a, b)
  PROVE  /\ ifs' \subseteq Interfaces /\ named' \subseteq ifs'
         /\ ifs \subseteq ifs' /\ named \subseteq named'
         /\ ifs' \subseteq ifs \union {Part(a), Part(b)}
  BY PartTyped DEF CreatePair, CreatePairFails

\* A destroyed interface leaves the host and its bridges.
LEMMA DestroyedTyped ==
  ASSUME TypeOK, inside = {}, NEW parts, Destroyed(parts)
  PROVE  /\ ifs' \subseteq ifs /\ named' \subseteq ifs' /\ inside \subseteq ifs'
         /\ joined' \subseteq joined
  BY DEF TypeOK, Destroyed

LEMMA SamePart ==
  ASSUME NEW i \in Interfaces, i.nic = op.nic, i.jid = op.jid
  PROVE  i = Part(i.part)
  BY DEF Interfaces, Part

LEMMA LinkedKept ==
  ASSUME NEW n, NEW j, NEW b, Linked(n, j, b),
         named \subseteq named', inside \subseteq inside', joined \subseteq joined'
  PROVE  Linked(n, j, b)'
  BY DEF Linked

LEMMA OpTyped ==
  ASSUME op \in Operations
  PROVE  /\ op.pc \in Steps /\ op.nic \in Nics /\ op.todo \subseteq Nics
         /\ op.plan \in Configs /\ op.jid \in Jids \union {None}
  BY DEF Operations

LEMMA InitTyped == Init => TypeOK
  BY BoundAssumption DEF Init, TypeOK, Operations, Steps, Jids, None

LEMMA TypeStep ==
  ASSUME TypeOK, Lives, NicReady, Next
  PROVE  TypeOK'
<1> USE DEF TypeOK, At
<1>1. /\ Starting \/ Stopping => op.jid # None
      /\ Stopping => inside = {}
  BY DEF Lives, Starting, Stopping
<1>2. CASE CallStart
  <2>1. last + 1 \in Jids
    BY <1>2, BoundAssumption DEF CallStart, Jids, None
  <2>2. op' \in Operations
    BY <1>2, <2>1 DEF CallStart, Operations, Steps, Configured
  <2> QED
    BY <1>2, <2>1, <2>2 DEF CallStart, host
<1>3. CASE CallStop
  <2>1. op' \in Operations
    BY <1>3 DEF CallStop, Operations, Steps, Configured
  <2>2. UNCHANGED <<last, ifs, named, joined, rules>> /\ jid' = None /\ inside' = {}
    BY <1>3 DEF CallStop
  <2>3. clean' \in BOOLEAN
    BY <1>3 DEF CallStop
  <2> QED
    BY <2>1, <2>2, <2>3
<1>4. CASE NextNic \/ Check \/ ConfigureInside \/ ConfigureRoutes \/ NextDown
  BY <1>4, GotoKeeps, TakeKeeps DEF NextNic, Check, MacRefused, FirewallDisabled,
     BridgeMissing, ConfigureInside, ConfigureRoutes, NextDown, Raise, Steps, host
<1>5. CASE Pair
  <2>1. CreatePair("host", "j") \/ CreatePairFails("host", "j")
    BY <1>5 DEF Pair
  <2>2. op' \in Operations /\ clean' \in BOOLEAN
    BY <1>5, GotoKeeps DEF Pair, CreatePairFails, Raise, Steps
  <2>3. ifs' \subseteq Interfaces /\ named' \subseteq ifs' /\ ifs \subseteq ifs'
    BY <1>1, <1>5, <2>1, PairTyped DEF Pair, Starting, SetupSteps, Parts
  <2> QED
    BY <1>5, <2>2, <2>3 DEF Pair
<1>6. CASE SecurePair
  <2>1. CreatePair("a", "b") \/ CreatePairFails("a", "b")
    BY <1>6 DEF SecurePair
  <2>2. op' \in Operations /\ clean' \in BOOLEAN
    BY <1>6, GotoKeeps DEF SecurePair, CreatePairFails, Raise, Steps
  <2>3. ifs' \subseteq Interfaces /\ named' \subseteq ifs' /\ ifs \subseteq ifs'
    BY <1>1, <1>6, <2>1, PairTyped DEF SecurePair, Starting, SetupSteps, Parts
  <2> QED
    BY <1>6, <2>2, <2>3 DEF SecurePair
<1>7. CASE Join \/ JoinSecure
  <2>1. op' \in Operations /\ clean' \in BOOLEAN
    BY <1>7, GotoKeeps DEF Join, JoinSecure, Raise, Steps
  <2>2. joined' \subseteq Memberships
    BY <1>1, <1>7, MemberTyped DEF Join, JoinSecure, SecureMembers, Starting,
       SetupSteps, Parts
  <2> QED
    BY <1>7, <2>1, <2>2 DEF Join, JoinSecure
<1>8. CASE AddRules
  <2>1. op' \in Operations /\ clean' \in BOOLEAN
    BY <1>8, GotoKeeps DEF AddRules, Raise, Steps
  <2>2. rules' \subseteq Rules
    <3>1. \E n \in 0 .. 4 : rules' = Added(n)
      BY <1>8 DEF AddRules
    <3> QED
      BY <1>1, <1>8, <3>1, RulesTyped DEF AddRules, Starting, SetupSteps
  <2> QED
    BY <1>8, <2>1, <2>2 DEF AddRules
<1>9. CASE CreateNet
  <2>1. op' \in Operations /\ clean' \in BOOLEAN
    BY <1>9, GotoKeeps DEF CreateNet, Raise, Steps
  <2>2. ifs' \subseteq Interfaces /\ named' \subseteq ifs' /\ ifs \subseteq ifs'
    BY <1>1, <1>9, PartTyped DEF CreateNet, Starting, SetupSteps, Parts
  <2> QED
    BY <1>9, <2>1, <2>2 DEF CreateNet
<1>10. CASE Move
  <2>1. op' \in Operations /\ clean' \in BOOLEAN
    BY <1>10, GotoKeeps DEF Move, Raise, Steps
  <2>2. inside' \subseteq ifs
    BY <1>10 DEF Move, NicReady
  <2> QED
    BY <1>10, <2>1, <2>2 DEF Move
<1>11. CASE DownHost \/ DownSecure \/ DownNet
  <2>1. op' \in Operations /\ clean' \in BOOLEAN
    BY <1>11, GotoKeeps DEF DownHost, DownSecure, DownNet, Destroy, DestroyFails,
       AfterSecure, Raise, Steps
  <2>2. \/ \E parts : Destroyed(parts)
        \/ UNCHANGED <<ifs, named, joined>>
    BY <1>11 DEF DownHost, DownSecure, DownNet, Destroy, DestroyFails
  <2>3. inside = {}
    BY <1>1, <1>11 DEF DownHost, DownSecure, DownNet, Stopping, TeardownSteps
  <2>4. /\ ifs' \subseteq ifs /\ named' \subseteq ifs' /\ joined' \subseteq joined
    BY <2>2, <2>3, DestroyedTyped
  <2> QED
    BY <1>11, <2>1, <2>3, <2>4 DEF DownHost, DownSecure, DownNet
<1>12. CASE DeleteRules
  BY <1>12, GotoKeeps DEF DeleteRules, Steps
<1> QED
  BY <1>2, <1>3, <1>4, <1>5, <1>6, <1>7, <1>8, <1>9, <1>10, <1>11, <1>12 DEF Next,
     Setup, Teardown

\* The jids.
LEMMA LivesStep ==
  ASSUME VnetInv, Next
  PROVE  Lives'
<1>1. CASE CallStart
  BY <1>1, BoundAssumption DEF VnetInv, CallStart, Resting, Goto, Raise, At, host,
     Configured, Secure, Dynamic, Part, Member, Exists, TypeOK, Lives, Stopping,
     TeardownSteps, NicSteps, OfNic, Jids, None
<1>2. CASE NextNic
  BY <1>2, GotoKeeps, TakeKeeps, OpTyped, PartTyped, MemberTyped, BoundAssumption
     DEF VnetInv, NextNic, Raise, At, host, Configured, Secure, Dynamic, Part, Member,
     Exists, TypeOK, Lives, Starting, Stopping, SetupSteps, TeardownSteps, NicSteps,
     OfNic, Steps
<1>3. CASE Check
  BY <1>3, BoundAssumption DEF VnetInv, Check, MacRefused, FirewallDisabled,
     BridgeMissing, Goto, Raise, At, host, Configured, Secure, Dynamic, Part, Member,
     Exists, TypeOK, Lives, Operations, Starting, Stopping, SetupSteps, TeardownSteps,
     NicSteps, OfNic
<1>4. CASE Pair
  BY <1>4, BoundAssumption DEF VnetInv, Pair, CreatePair, CreatePairFails, Goto, Raise,
     At, host, Configured, Secure, Dynamic, Part, Member, Exists, TypeOK, Lives,
     Operations, Starting, Stopping, SetupSteps, TeardownSteps, NicSteps, OfNic
<1>5. CASE Join
  BY <1>5, BoundAssumption DEF VnetInv, Join, Goto, Raise, At, host, Configured,
     Secure, Dynamic, Part, Member, Exists, TypeOK, Lives, Operations, Starting,
     Stopping, SetupSteps, TeardownSteps, NicSteps, OfNic
<1>6. CASE SecurePair
  BY <1>6, BoundAssumption DEF VnetInv, SecurePair, CreatePair, CreatePairFails, Goto,
     Raise, At, host, Configured, Secure, Dynamic, Part, Member, Exists, TypeOK, Lives,
     Operations, Starting, Stopping, SetupSteps, TeardownSteps, NicSteps, OfNic
<1>7. CASE AddRules
  BY <1>7, BoundAssumption DEF VnetInv, AddRules, Added, RulesOfNic, Rule, Goto, Raise,
     At, host, Configured, Secure, Dynamic, Part, Member, Exists, TypeOK, Lives,
     Operations, Starting, Stopping, SetupSteps, TeardownSteps, NicSteps, OfNic
<1>8. CASE CreateNet
  BY <1>8, BoundAssumption DEF VnetInv, CreateNet, Goto, Raise, At, host, Configured,
     Secure, Dynamic, Part, Member, Exists, TypeOK, Lives, Operations, Starting,
     Stopping, SetupSteps, TeardownSteps, NicSteps, OfNic
<1>9. CASE JoinSecure
  BY <1>9, BoundAssumption DEF VnetInv, JoinSecure, SecureMembers, Goto, Raise, At,
     host, Configured, Secure, Dynamic, Part, Member, Exists, TypeOK, Lives,
     Operations, Starting, Stopping, SetupSteps, TeardownSteps, NicSteps, OfNic
<1>10. CASE Move
  BY <1>10, BoundAssumption DEF VnetInv, Move, Goto, Raise, At, host, Configured,
     Secure, Dynamic, Part, Member, Exists, TypeOK, Lives, Operations, Starting,
     Stopping, SetupSteps, TeardownSteps, NicSteps, OfNic
<1>11. CASE ConfigureInside
  BY <1>11, BoundAssumption DEF VnetInv, ConfigureInside, Goto, Raise, At, host,
     Configured, Secure, Dynamic, Part, Member, Exists, TypeOK, Lives, Operations,
     Starting, Stopping, SetupSteps, TeardownSteps, NicSteps, OfNic
<1>12. CASE ConfigureRoutes
  BY <1>12, BoundAssumption DEF VnetInv, ConfigureRoutes, Goto, Raise, At, host,
     Configured, Secure, Dynamic, Part, Member, Exists, TypeOK, Lives, Operations,
     Starting, Stopping, SetupSteps, TeardownSteps, NicSteps, OfNic
<1>13. CASE CallStop
  BY <1>13, BoundAssumption DEF VnetInv, CallStop, Resting, Reconfigured, Goto, Raise,
     At, host, Configured, Secure, Dynamic, Part, Member, Exists, TypeOK, Lives,
     Starting, SetupSteps, NicSteps, OfNic
<1>14. CASE NextDown
  BY <1>14, GotoKeeps, TakeKeeps, OpTyped, PartTyped, MemberTyped, BoundAssumption
     DEF VnetInv, NextDown, Raise, At, host, Configured, Secure, Dynamic, Part, Member,
     Exists, TypeOK, Lives, Starting, Stopping, SetupSteps, TeardownSteps, NicSteps,
     OfNic, Steps
<1>15. CASE DownHost
  BY <1>15, BoundAssumption DEF VnetInv, DownHost, Destroy, Destroyed, DestroyFails,
     Goto, Raise, At, host, Configured, Secure, Dynamic, Part, Member, Exists, TypeOK,
     Lives, Operations, Starting, Stopping, SetupSteps, TeardownSteps, OfNic
<1>16. CASE DownSecure
  BY <1>16, BoundAssumption DEF VnetInv, DownSecure, Destroy, Destroyed, DestroyFails,
     AfterSecure, Goto, Raise, At, host, Configured, Secure, Dynamic, Part, Member,
     Exists, TypeOK, Lives, Operations, Starting, Stopping, SetupSteps, TeardownSteps,
     OfNic
<1>17. CASE DownNet
  BY <1>17, BoundAssumption DEF VnetInv, DownNet, Destroy, Destroyed, DestroyFails,
     Goto, Raise, At, host, Configured, Secure, Dynamic, Part, Member, Exists, TypeOK,
     Lives, Operations, Starting, Stopping, SetupSteps, TeardownSteps, OfNic
<1>18. CASE DeleteRules
  BY <1>18, BoundAssumption DEF VnetInv, DeleteRules, Goto, Raise, At, host,
     Configured, Secure, Dynamic, Part, Member, Exists, TypeOK, Lives, Starting,
     Stopping, SetupSteps, TeardownSteps, OfNic
<1> QED
  BY <1>1, <1>2, <1>3, <1>4, <1>5, <1>6, <1>7, <1>8, <1>9, <1>10, <1>11, <1>12, <1>13,
     <1>14, <1>15, <1>16, <1>17, <1>18 DEF Next, Setup, Teardown

\* A new jid names nothing.
LEMMA KnownStep ==
  ASSUME VnetInv, Next
  PROVE  Known'
<1>1. CASE CallStart
  BY <1>1, BoundAssumption DEF VnetInv, CallStart, Resting, Goto, Raise, At, host,
     Configured, Secure, Dynamic, Part, Member, Exists, TypeOK, Lives, Known, NicReady,
     Operations, Interfaces, Rules, Jids, None
<1>2. CASE NextNic
  BY <1>2, BoundAssumption DEF VnetInv, NextNic, Take, Goto, Raise, At, host,
     Configured, Secure, Dynamic, Part, Member, Exists, TypeOK, Lives, Known, NicReady,
     Operations
<1>3. CASE Check
  BY <1>3, BoundAssumption DEF VnetInv, Check, MacRefused, FirewallDisabled,
     BridgeMissing, Goto, Raise, At, host, Configured, Secure, Dynamic, Part, Member,
     Exists, TypeOK, Lives, Known, NicReady, Operations
<1>4. CASE Pair
  BY <1>4, BoundAssumption DEF VnetInv, Pair, CreatePair, CreatePairFails, Goto, Raise,
     At, host, Configured, Secure, Dynamic, Part, Member, Exists, TypeOK, Lives, Known,
     NicReady, Operations, SetupSteps, Starting, Jids
<1>5. CASE Join
  BY <1>5, GotoKeeps, TakeKeeps, OpTyped, PartTyped, MemberTyped, BoundAssumption
     DEF VnetInv, Join, Raise, At, host, Configured, Secure, Dynamic, Part, Member,
     Exists, TypeOK, Lives, Known, NicReady, SetupSteps
<1>6. CASE SecurePair
  BY <1>6, BoundAssumption DEF VnetInv, SecurePair, CreatePair, CreatePairFails, Goto,
     Raise, At, host, Configured, Secure, Dynamic, Part, Member, Exists, TypeOK, Lives,
     Known, NicReady, Operations
<1>7. CASE AddRules
  BY <1>7, BoundAssumption DEF VnetInv, AddRules, Added, RulesOfNic, Rule, Goto, Raise,
     At, host, Configured, Secure, Dynamic, Part, Member, Exists, TypeOK, Lives, Known,
     NicReady, Operations
<1>8. CASE CreateNet
  BY <1>8, BoundAssumption DEF VnetInv, CreateNet, Goto, Raise, At, host, Configured,
     Secure, Dynamic, Part, Member, Exists, TypeOK, Lives, Known, NicReady, Operations
<1>9. CASE JoinSecure
  BY <1>9, GotoKeeps, TakeKeeps, OpTyped, PartTyped, MemberTyped, BoundAssumption
     DEF VnetInv, JoinSecure, SecureMembers, Raise, At, host, Configured, Secure,
     Dynamic, Part, Member, Exists, TypeOK, Lives, Known, NicReady, SetupSteps
<1>10. CASE Move
  BY <1>10, BoundAssumption DEF VnetInv, Move, Goto, Raise, At, host, Configured,
     Secure, Dynamic, Part, Member, Exists, TypeOK, Lives, Known, NicReady, Operations
<1>11. CASE ConfigureInside
  BY <1>11, BoundAssumption DEF VnetInv, ConfigureInside, Goto, Raise, At, host,
     Configured, Secure, Dynamic, Part, Member, Exists, TypeOK, Lives, Known, NicReady,
     Operations
<1>12. CASE ConfigureRoutes
  BY <1>12, BoundAssumption DEF VnetInv, ConfigureRoutes, Goto, Raise, At, host,
     Configured, Secure, Dynamic, Part, Member, Exists, TypeOK, Lives, Known, NicReady,
     Operations
<1>13. CASE CallStop
  BY <1>13, BoundAssumption DEF VnetInv, CallStop, Resting, Reconfigured, Goto, Raise,
     At, host, Configured, Secure, Dynamic, Part, Member, Exists, TypeOK, Lives, Known,
     NicReady, Operations
<1>14. CASE NextDown
  BY <1>14, BoundAssumption DEF VnetInv, NextDown, Take, Goto, Raise, At, host,
     Configured, Secure, Dynamic, Part, Member, Exists, TypeOK, Lives, Known, NicReady,
     Operations
<1>15. CASE DownHost
  BY <1>15, BoundAssumption DEF VnetInv, DownHost, Destroy, Destroyed, DestroyFails,
     Goto, Raise, At, host, Configured, Secure, Dynamic, Part, Member, Exists, TypeOK,
     Lives, Known, NicReady, Operations
<1>16. CASE DownSecure
  BY <1>16, BoundAssumption DEF VnetInv, DownSecure, Destroy, Destroyed, DestroyFails,
     AfterSecure, Goto, Raise, At, host, Configured, Secure, Dynamic, Part, Member,
     Exists, TypeOK, Lives, Known, NicReady, Operations
<1>17. CASE DownNet
  BY <1>17, BoundAssumption DEF VnetInv, DownNet, Destroy, Destroyed, DestroyFails,
     Goto, Raise, At, host, Configured, Secure, Dynamic, Part, Member, Exists, TypeOK,
     Lives, Known, NicReady, Operations
<1>18. CASE DeleteRules
  BY <1>18, BoundAssumption DEF VnetInv, DeleteRules, Goto, Raise, At, host,
     Configured, Secure, Dynamic, Part, Member, Exists, TypeOK, Lives, Known, NicReady,
     Operations
<1> QED
  BY <1>1, <1>2, <1>3, <1>4, <1>5, <1>6, <1>7, <1>8, <1>9, <1>10, <1>11, <1>12, <1>13,
     <1>14, <1>15, <1>16, <1>17, <1>18 DEF Next, Setup, Teardown

\* The rules that deny come before the membership, and stay while the jail runs.
LEMMA GuardedStep ==
  ASSUME VnetInv, Next
  PROVE  Guarded'
<1>1. CASE CallStart
  BY <1>1, BoundAssumption DEF VnetInv, CallStart, Resting, Goto, Raise, At, host,
     Configured, Secure, Dynamic, Part, Member, Exists, TypeOK, Lives, Known, Guarded,
     NicReady, Operations, Denied, Jids, None
<1>2. CASE NextNic
  BY <1>2, BoundAssumption DEF VnetInv, NextNic, Take, Goto, Raise, At, host,
     Configured, Secure, Dynamic, Part, Member, Exists, TypeOK, Lives, Known, Guarded,
     NicReady, Operations, Denied
<1>3. CASE Check
  BY <1>3, BoundAssumption DEF VnetInv, Check, MacRefused, FirewallDisabled,
     BridgeMissing, Goto, Raise, At, host, Configured, Secure, Dynamic, Part, Member,
     Exists, TypeOK, Lives, Known, Guarded, NicReady, Operations, Denied
<1>4. CASE Pair
  BY <1>4, BoundAssumption DEF VnetInv, Pair, CreatePair, CreatePairFails, Goto, Raise,
     At, host, Configured, Secure, Dynamic, Part, Member, Exists, TypeOK, Lives, Known,
     Guarded, NicReady, Operations, Denied
<1>5. CASE Join
  BY <1>5, BoundAssumption DEF VnetInv, Join, Goto, Raise, At, host, Configured,
     Secure, Dynamic, Part, Member, Exists, TypeOK, Lives, Known, Guarded, NicReady,
     Operations, Denied
<1>6. CASE SecurePair
  BY <1>6, BoundAssumption DEF VnetInv, SecurePair, CreatePair, CreatePairFails, Goto,
     Raise, At, host, Configured, Secure, Dynamic, Part, Member, Exists, TypeOK, Lives,
     Known, Guarded, NicReady, Operations, Denied
<1>7. CASE AddRules
  BY <1>7, BoundAssumption DEF VnetInv, AddRules, Added, RulesOfNic, Rule, Goto, Raise,
     At, host, Configured, Secure, Dynamic, Part, Member, Exists, TypeOK, Lives, Known,
     Guarded, NicReady, Operations, Denied
<1>8. CASE CreateNet
  BY <1>8, BoundAssumption DEF VnetInv, CreateNet, Goto, Raise, At, host, Configured,
     Secure, Dynamic, Part, Member, Exists, TypeOK, Lives, Known, Guarded, NicReady,
     Operations, Denied
<1>9. CASE JoinSecure
  BY <1>9, BoundAssumption DEF VnetInv, JoinSecure, SecureMembers, Goto, Raise, At,
     host, Configured, Secure, Dynamic, Part, Member, Exists, TypeOK, Lives, Known,
     Guarded, NicReady, Operations, Denied
<1>10. CASE Move
  BY <1>10, BoundAssumption DEF VnetInv, Move, Goto, Raise, At, host, Configured,
     Secure, Dynamic, Part, Member, Exists, TypeOK, Lives, Known, Guarded, NicReady,
     Operations, Denied
<1>11. CASE ConfigureInside
  BY <1>11, BoundAssumption DEF VnetInv, ConfigureInside, Goto, Raise, At, host,
     Configured, Secure, Dynamic, Part, Member, Exists, TypeOK, Lives, Known, Guarded,
     NicReady, Operations, Denied
<1>12. CASE ConfigureRoutes
  BY <1>12, BoundAssumption DEF VnetInv, ConfigureRoutes, Goto, Raise, At, host,
     Configured, Secure, Dynamic, Part, Member, Exists, TypeOK, Lives, Known, Guarded,
     NicReady, Operations, Denied
<1>13. CASE CallStop
  BY <1>13, BoundAssumption DEF VnetInv, CallStop, Resting, Reconfigured, Goto, Raise,
     At, host, Configured, Secure, Dynamic, Part, Member, Exists, TypeOK, Lives, Known,
     Guarded, NicReady, Operations, Denied
<1>14. CASE NextDown
  BY <1>14, BoundAssumption DEF VnetInv, NextDown, Take, Goto, Raise, At, host,
     Configured, Secure, Dynamic, Part, Member, Exists, TypeOK, Lives, Known, Guarded,
     NicReady, Operations, Denied
<1>15. CASE DownHost
  BY <1>15, BoundAssumption DEF VnetInv, DownHost, Destroy, Destroyed, DestroyFails,
     Goto, Raise, At, host, Configured, Secure, Dynamic, Part, Member, Exists, TypeOK,
     Lives, Known, Guarded, NicReady, Operations, Denied
<1>16. CASE DownSecure
  BY <1>16, BoundAssumption DEF VnetInv, DownSecure, Destroy, Destroyed, DestroyFails,
     AfterSecure, Goto, Raise, At, host, Configured, Secure, Dynamic, Part, Member,
     Exists, TypeOK, Lives, Known, Guarded, NicReady, Operations, Denied
<1>17. CASE DownNet
  BY <1>17, BoundAssumption DEF VnetInv, DownNet, Destroy, Destroyed, DestroyFails,
     Goto, Raise, At, host, Configured, Secure, Dynamic, Part, Member, Exists, TypeOK,
     Lives, Known, Guarded, NicReady, Operations, Denied
<1>18. CASE DeleteRules
  BY <1>18, BoundAssumption DEF VnetInv, DeleteRules, Goto, Raise, At, host,
     Configured, Secure, Dynamic, Part, Member, Exists, TypeOK, Lives, Known, Guarded,
     NicReady, Operations, Denied, Stopping, TeardownSteps
<1> QED
  BY <1>1, <1>2, <1>3, <1>4, <1>5, <1>6, <1>7, <1>8, <1>9, <1>10, <1>11, <1>12, <1>13,
     <1>14, <1>15, <1>16, <1>17, <1>18 DEF Next, Setup, Teardown

\* The steps of a nic.
LEMMA NicReadyStep ==
  ASSUME VnetInv, Next
  PROVE  NicReady'
<1>1. CASE CallStart
  BY <1>1, BoundAssumption DEF VnetInv, CallStart, Resting, Goto, Raise, At, host,
     Configured, Secure, NicReady
<1>2. CASE NextNic
  BY <1>2, BoundAssumption DEF VnetInv, NextNic, Take, Goto, Raise, At, host,
     Configured, Secure, TypeOK, NicReady, Operations
<1>3. CASE Check
  BY <1>3, BoundAssumption DEF VnetInv, Check, MacRefused, FirewallDisabled,
     BridgeMissing, Goto, Raise, At, host, Configured, Secure, TypeOK, NicReady,
     Operations
<1>4. CASE Pair
  BY <1>4, BoundAssumption DEF VnetInv, Pair, CreatePair, CreatePairFails, Goto, Raise,
     At, host, Configured, Secure, Part, TypeOK, NicReady, Operations
<1>5. CASE Join
  BY <1>5, BoundAssumption DEF VnetInv, Join, Goto, Raise, At, host, Configured,
     Secure, Part, Member, TypeOK, NicReady, Operations, JoinedTo
<1>6. CASE SecurePair
  BY <1>6, BoundAssumption DEF VnetInv, SecurePair, CreatePair, CreatePairFails, Goto,
     Raise, At, host, Configured, Secure, Part, TypeOK, NicReady, Operations
<1>7. CASE AddRules
  BY <1>7, BoundAssumption DEF VnetInv, AddRules, Added, RulesOfNic, Rule, Goto, Raise,
     At, host, Configured, Secure, Part, TypeOK, NicReady, Operations, Denied
<1>8. CASE CreateNet
  BY <1>8, BoundAssumption DEF VnetInv, CreateNet, Goto, Raise, At, host, Configured,
     Secure, Part, TypeOK, NicReady, Operations, Denied
<1>9. CASE JoinSecure
  BY <1>9, BoundAssumption DEF VnetInv, JoinSecure, SecureMembers, Goto, Raise, At,
     host, Configured, Secure, Part, Member, TypeOK, NicReady, Operations, JoinedTo
<1>10. CASE Move
  BY <1>10, BoundAssumption DEF VnetInv, Move, Goto, Raise, At, host, Configured,
     Secure, Part, Member, TypeOK, NicReady, Operations, JoinedTo
<1>11. CASE ConfigureInside
  BY <1>11, BoundAssumption DEF VnetInv, ConfigureInside, Goto, Raise, At, host,
     Configured, Secure, TypeOK, NicReady, Operations
<1>12. CASE ConfigureRoutes
  BY <1>12, BoundAssumption DEF VnetInv, ConfigureRoutes, Goto, Raise, At, host,
     Configured, Secure, TypeOK, NicReady, Operations
<1>13. CASE CallStop
  BY <1>13, BoundAssumption DEF VnetInv, CallStop, Resting, Reconfigured, Goto, Raise,
     At, host, Configured, Secure, NicReady
<1>14. CASE NextDown
  BY <1>14, BoundAssumption DEF VnetInv, NextDown, Take, Goto, Raise, At, host,
     Configured, Secure, TypeOK, NicReady, Operations
<1>15. CASE DownHost
  BY <1>15, BoundAssumption DEF VnetInv, DownHost, Destroy, Destroyed, DestroyFails,
     Goto, Raise, At, host, Configured, Secure, TypeOK, NicReady, Operations
<1>16. CASE DownSecure
  BY <1>16, BoundAssumption DEF VnetInv, DownSecure, Destroy, Destroyed, DestroyFails,
     AfterSecure, Goto, Raise, At, host, Configured, Secure, TypeOK, NicReady,
     Operations
<1>17. CASE DownNet
  BY <1>17, BoundAssumption DEF VnetInv, DownNet, Destroy, Destroyed, DestroyFails,
     Goto, Raise, At, host, Configured, Secure, TypeOK, NicReady, Operations
<1>18. CASE DeleteRules
  BY <1>18, BoundAssumption DEF VnetInv, DeleteRules, Goto, Raise, At, host,
     Configured, Secure, NicReady
<1> QED
  BY <1>1, <1>2, <1>3, <1>4, <1>5, <1>6, <1>7, <1>8, <1>9, <1>10, <1>11, <1>12, <1>13,
     <1>14, <1>15, <1>16, <1>17, <1>18 DEF Next, Setup, Teardown

\* What is connected stays connected while the others are set up.
LEMMA NicsUpStep ==
  ASSUME VnetInv, Next
  PROVE  NicsUp'
<1>1. CASE CallStart
  BY <1>1, BoundAssumption DEF VnetInv, CallStart, Resting, Goto, Raise, At, host,
     Configured, Secure, Dynamic, Part, Member, Exists, TypeOK, Lives, Known, NicReady,
     NicsUp, Operations, JoinedTo, Linked
<1>2. CASE NextNic
  BY <1>2, GotoKeeps, TakeKeeps, OpTyped, PartTyped, MemberTyped, LinkedKept,
     BoundAssumption DEF VnetInv, NextNic, Raise, At, host, Configured, Secure,
     Dynamic, Part, Member, Exists, TypeOK, Lives, Known, NicReady, NicsUp, JoinedTo,
     Starting, SetupSteps, NicSteps, Steps
<1>3. CASE Check
  BY <1>3, GotoKeeps, TakeKeeps, OpTyped, PartTyped, MemberTyped, LinkedKept,
     BoundAssumption DEF VnetInv, Check, MacRefused, FirewallDisabled, BridgeMissing,
     Raise, At, host, Configured, Secure, Dynamic, Part, Member, Exists, TypeOK, Lives,
     Known, NicReady, NicsUp, JoinedTo, Starting, SetupSteps, NicSteps, Steps
<1>4. CASE Pair
  BY <1>4, GotoKeeps, TakeKeeps, OpTyped, PartTyped, MemberTyped, LinkedKept,
     BoundAssumption DEF VnetInv, Pair, CreatePair, CreatePairFails, Raise, At, host,
     Configured, Secure, Dynamic, Part, Member, Exists, TypeOK, Lives, Known, NicReady,
     NicsUp, JoinedTo, Starting, SetupSteps, NicSteps, Steps
<1>5. CASE Join
  BY <1>5, GotoKeeps, TakeKeeps, OpTyped, PartTyped, MemberTyped, LinkedKept,
     BoundAssumption DEF VnetInv, Join, Raise, At, host, Configured, Secure, Dynamic,
     Part, Member, Exists, TypeOK, Lives, Known, NicReady, NicsUp, JoinedTo, Starting,
     SetupSteps, NicSteps, Steps
<1>6. CASE SecurePair
  BY <1>6, GotoKeeps, TakeKeeps, OpTyped, PartTyped, MemberTyped, LinkedKept,
     BoundAssumption DEF VnetInv, SecurePair, CreatePair, CreatePairFails, Raise, At,
     host, Configured, Secure, Dynamic, Part, Member, Exists, TypeOK, Lives, Known,
     NicReady, NicsUp, JoinedTo, Starting, SetupSteps, NicSteps, Steps
<1>7. CASE AddRules
  BY <1>7, GotoKeeps, TakeKeeps, OpTyped, PartTyped, MemberTyped, LinkedKept,
     RulesTyped, BoundAssumption DEF VnetInv, AddRules, Raise, At, host, Configured,
     Secure, Dynamic, Part, Member, Exists, TypeOK, Lives, Known, NicReady, NicsUp,
     JoinedTo, Starting, SetupSteps, NicSteps, Steps
<1>8. CASE CreateNet
  BY <1>8, GotoKeeps, TakeKeeps, OpTyped, PartTyped, MemberTyped, LinkedKept,
     BoundAssumption DEF VnetInv, CreateNet, Raise, At, host, Configured, Secure,
     Dynamic, Part, Member, Exists, TypeOK, Lives, Known, NicReady, NicsUp, JoinedTo,
     Starting, SetupSteps, NicSteps, Steps
<1>9. CASE JoinSecure
  BY <1>9, GotoKeeps, TakeKeeps, OpTyped, PartTyped, MemberTyped, LinkedKept,
     BoundAssumption DEF VnetInv, JoinSecure, SecureMembers, Raise, At, host,
     Configured, Secure, Dynamic, Part, Member, Exists, TypeOK, Lives, Known, NicReady,
     NicsUp, JoinedTo, Starting, SetupSteps, NicSteps, Steps
<1>10. CASE Move
  BY <1>10, GotoKeeps, TakeKeeps, OpTyped, PartTyped, MemberTyped, LinkedKept,
     BoundAssumption DEF VnetInv, Move, Raise, At, host, Configured, Secure, Dynamic,
     Part, Member, Exists, TypeOK, Lives, Known, NicReady, NicsUp, JoinedTo, Starting,
     SetupSteps, NicSteps, Steps
<1>11. CASE ConfigureInside
  BY <1>11, BoundAssumption DEF VnetInv, ConfigureInside, Goto, Raise, At, host,
     Configured, Secure, Dynamic, Part, Member, Exists, TypeOK, Lives, Known, NicReady,
     NicsUp, Operations, JoinedTo, Linked, Starting, SetupSteps
<1>12. CASE ConfigureRoutes
  BY <1>12, BoundAssumption DEF VnetInv, ConfigureRoutes, Goto, Raise, At, host,
     Configured, Secure, Dynamic, Part, Member, Exists, TypeOK, Lives, Known, NicReady,
     NicsUp, Operations, JoinedTo, Linked, Starting, SetupSteps, NicSteps
<1>13. CASE CallStop
  BY <1>13, BoundAssumption DEF VnetInv, CallStop, Resting, Reconfigured, Goto, Raise,
     At, host, Configured, Secure, Dynamic, Part, Member, Exists, TypeOK, Lives, Known,
     NicReady, NicsUp, Operations, JoinedTo, Linked
<1>14. CASE NextDown
  BY <1>14, GotoKeeps, TakeKeeps, OpTyped, PartTyped, MemberTyped, LinkedKept,
     BoundAssumption DEF VnetInv, NextDown, Raise, At, host, Configured, Secure,
     Dynamic, Part, Member, Exists, TypeOK, Lives, Known, NicReady, NicsUp, JoinedTo,
     Starting, SetupSteps, Steps
<1>15. CASE DownHost
  BY <1>15, BoundAssumption DEF VnetInv, DownHost, Destroy, Destroyed, DestroyFails,
     Goto, Raise, At, host, Configured, Secure, Dynamic, Part, Member, Exists, TypeOK,
     Lives, Known, NicReady, NicsUp, Operations, JoinedTo, Linked, Starting, SetupSteps
<1>16. CASE DownSecure
  BY <1>16, BoundAssumption DEF VnetInv, DownSecure, Destroy, Destroyed, DestroyFails,
     AfterSecure, Goto, Raise, At, host, Configured, Secure, Dynamic, Part, Member,
     Exists, TypeOK, Lives, Known, NicReady, NicsUp, Operations, JoinedTo, Linked,
     Starting, SetupSteps
<1>17. CASE DownNet
  BY <1>17, BoundAssumption DEF VnetInv, DownNet, Destroy, Destroyed, DestroyFails,
     Goto, Raise, At, host, Configured, Secure, Dynamic, Part, Member, Exists, TypeOK,
     Lives, Known, NicReady, NicsUp, Operations, JoinedTo, Linked, Starting, SetupSteps
<1>18. CASE DeleteRules
  BY <1>18, BoundAssumption DEF VnetInv, DeleteRules, Goto, Raise, At, host,
     Configured, Secure, Dynamic, Part, Member, Exists, TypeOK, Lives, Known, NicReady,
     NicsUp, Operations, JoinedTo, Linked, Starting, SetupSteps
<1> QED
  BY <1>1, <1>2, <1>3, <1>4, <1>5, <1>6, <1>7, <1>8, <1>9, <1>10, <1>11, <1>12, <1>13,
     <1>14, <1>15, <1>16, <1>17, <1>18 DEF Next, Setup, Teardown

\* What a nic that was set up adds to the host carries its name and mode.
LEMMA AccountedStep ==
  ASSUME VnetInv, Next
  PROVE  Accounted'
<1> USE DEF VnetInv, TypeOK, Accounted, At
<1>1. CASE CallStart
  <2>1. op'.jid = last + 1 /\ op'.pc = "next" /\ UNCHANGED <<ifs, rules>>
    BY <1>1 DEF CallStart, Operations, host
  <2>2. (\A i \in ifs : i.jid # last + 1) /\ (\A r \in rules : r.jid # last + 1)
    BY DEF Known, Interfaces, Rules, Jids, None
  <2> QED
    BY <2>1, <2>2 DEF SetupAccounted, Stopping, TeardownSteps
<1>2. CASE CallStop
  <2> SUFFICES ASSUME clean'
               PROVE  op'.pc = "nextdown" /\ TeardownAccounted'
    BY <1>2 DEF CallStop, Operations, Starting, SetupSteps
  <2>1. /\ clean /\ op'.pc = "nextdown" /\ op'.plan = op.plan /\ op'.jid = op.jid
        /\ op'.todo = Configured(op.plan) /\ UNCHANGED <<ifs, rules>>
    BY <1>2 DEF CallStop, Operations, Lives
  <2>2. Starting /\ op.todo = {}
    BY <1>2, <2>1 DEF CallStop, Resting, Lives, Starting, Stopping
  <2> QED
    BY <2>1, <2>2 DEF SetupAccounted, TeardownAccounted, OfMode
<1>3. CASE NextNic \/ Check \/ Join \/ JoinSecure \/ Move \/ ConfigureInside
           \/ ConfigureRoutes
  <2> SUFFICES ASSUME clean'
               PROVE  op'.pc \in SetupSteps \union {"started"} /\ SetupAccounted'
    BY DEF Stopping, TeardownSteps, SetupSteps
  <2>1. /\ op'.pc \in SetupSteps \union {"started"} /\ op.pc \in SetupSteps
        /\ clean /\ op'.plan = op.plan /\ op'.jid = op.jid /\ op'.todo \subseteq op.todo
        /\ UNCHANGED <<ifs, rules>>
    BY <1>3, GotoKeeps, TakeKeeps DEF NextNic, Check, MacRefused, FirewallDisabled,
       BridgeMissing, Join, JoinSecure, Move, ConfigureInside, ConfigureRoutes, Raise,
       SetupSteps, Steps, host
  <2> QED
    BY <2>1 DEF SetupAccounted, Starting, OfMode, Configured
<1>4. CASE Pair \/ SecurePair \/ CreateNet \/ AddRules
  <2> SUFFICES ASSUME clean'
               PROVE  op'.pc \in SetupSteps /\ SetupAccounted'
    BY DEF Stopping, TeardownSteps, SetupSteps
  <2>1. /\ op'.pc \in SetupSteps /\ op.pc \in NicSteps
        /\ clean /\ op'.plan = op.plan /\ op'.jid = op.jid /\ op'.todo = op.todo
    BY <1>4, GotoKeeps DEF Pair, CreatePairFails, SecurePair, CreateNet, AddRules,
       Raise, SetupSteps, NicSteps, Steps
  <2>2. op.jid # None /\ op.nic \in Configured(op.plan) \ op.todo
    BY <2>1 DEF Lives, Starting, NicSteps, OfNic
  <2>3. ASSUME NEW i \in ifs', i \notin ifs
        PROVE  i.jid = op.jid /\ i.nic = op.nic /\ OfMode(i)
    <3>1. CASE i \in {Part("host"), Part("j")}
      BY <2>2, <3>1, PartTyped DEF OfMode, Parts
    <3>2. CASE i \in {Part("a"), Part("b"), Part("net")} /\ Secure
      BY <2>2, <3>2, PartTyped DEF OfMode, Parts, Secure
    <3>3. \/ i \in {Part("host"), Part("j")}
          \/ i \in {Part("a"), Part("b"), Part("net")} /\ Secure
      BY <1>4, <2>3 DEF Pair, SecurePair, CreateNet, AddRules, CreatePair,
         CreatePairFails, NicReady
    <3> QED
      BY <3>1, <3>2, <3>3
  <2>4. ASSUME NEW r \in rules', r \notin rules
        PROVE  r.jid = op.jid /\ r.nic = op.nic /\ op.plan[op.nic].bridge = "secure"
    <3>1. AddRules /\ rules' = Added(4) /\ Secure
      BY <1>4, <2>4 DEF Pair, SecurePair, CreateNet, AddRules, NicReady, Raise
    <3> QED
      BY <2>2, <2>4, <3>1, RulesTyped DEF Secure
  <2>5. SetupAccounted
    BY <2>1 DEF Starting, NicSteps
  <2> QED
    BY <2>1, <2>2, <2>3, <2>4, <2>5 DEF SetupAccounted, OfMode, Configured
<1>5. CASE NextDown
  <2> SUFFICES ASSUME clean'
               PROVE  op'.pc \in {"down", "stopped"} /\ TeardownAccounted'
    BY DEF Starting, SetupSteps
  <2>1. /\ clean /\ At("nextdown") /\ op'.plan = op.plan /\ op'.jid = op.jid
        /\ UNCHANGED <<ifs, rules>>
        /\ \/ op'.pc = "stopped" /\ op'.todo = op.todo
           \/ op'.pc = "down" /\ op.todo \subseteq op'.todo \union {op'.nic}
    BY <1>5, GotoKeeps, TakeKeeps DEF NextDown, Steps, host
  <2>2. TeardownAccounted /\ NotYet = {} /\ ~OfNic
    BY <2>1 DEF Stopping, TeardownSteps, NotYet, OfNic, NicSteps, SetupSteps
  <2>3. op'.pc = "down" => NotYet' = Parts /\ OfNic'
    BY DEF NotYet, OfNic, TeardownSteps
  <2> QED
    BY <2>1, <2>2, <2>3 DEF TeardownAccounted, OfMode, Interfaces
<1>6. CASE DownHost \/ DownSecure \/ DownNet
  <2> SUFFICES ASSUME clean'
               PROVE  op'.pc \in TeardownSteps /\ TeardownAccounted'
    BY DEF Starting, SetupSteps, TeardownSteps
  <2>1. /\ clean /\ op.pc \in {"down", "downsecure", "downnet"}
        /\ op'.plan = op.plan /\ op'.jid = op.jid /\ op'.nic = op.nic /\ op'.todo = op.todo
        /\ UNCHANGED rules /\ ifs' \subseteq ifs
        /\ op'.pc \in {"downsecure", "downnet", "unrule", "nextdown"}
        /\ op'.pc = "nextdown" => ~Secure
    BY <1>6, GotoKeeps DEF DownHost, DownSecure, DownNet, Destroy, DestroyFails,
       Destroyed, AfterSecure, Raise, Steps
  <2>2. TeardownAccounted /\ OfNic
    BY <2>1 DEF Stopping, TeardownSteps, OfNic
  <2>3. ASSUME NEW i \in ifs', i.jid = op.jid, i.nic = op.nic, i.nic \notin op.todo
        PROVE  i.part \in NotYet'
    <3>1. i \in Interfaces /\ i = Part(i.part) /\ i.part \in NotYet /\ OfMode(i)
      BY <2>1, <2>2, <2>3, SamePart DEF TeardownAccounted
    <3>2. CASE DownHost
      <4>1. i.part \in {"a", "b", "net"}
        BY <2>1, <2>3, <3>1, <3>2 DEF DownHost, Destroy, DestroyFails, Destroyed,
           Raise, Interfaces, Parts
      <4>2. Secure
        BY <2>3, <3>1, <4>1 DEF OfMode, Secure
      <4> QED
        BY <3>2, <4>1, <4>2, GotoKeeps DEF DownHost, Destroy, DestroyFails, Raise,
           NotYet, Steps
    <3>3. CASE DownSecure
      <4>1. i.part = "net"
        BY <3>1, <3>3, <2>3 DEF DownSecure, Destroy, DestroyFails, Destroyed, Raise,
           NotYet
      <4> QED
        BY <3>3, <4>1, GotoKeeps DEF DownSecure, Destroy, DestroyFails, Raise, NotYet,
           Steps, AfterSecure
    <3>4. CASE DownNet
      BY <3>1, <3>4, <2>3 DEF DownNet, Destroy, DestroyFails, Destroyed, Raise, NotYet
    <3> QED
      BY <1>6, <3>2, <3>3, <3>4
  <2>4. ASSUME NEW r \in rules', r.jid = op.jid, r.nic \notin op.todo
        PROVE  r.nic = op.nic /\ OfNic'
    <3>1. r.nic = op.nic /\ Secure
      BY <2>1, <2>2, <2>4 DEF TeardownAccounted, Secure
    <3> QED
      BY <2>1, <3>1 DEF OfNic, TeardownSteps
  <2> QED
    BY <2>1, <2>2, <2>3, <2>4 DEF TeardownAccounted, TeardownSteps, OfMode
<1>7. CASE DeleteRules
  <2>1. /\ At("unrule") /\ op'.pc = "nextdown" /\ op'.plan = op.plan /\ op'.jid = op.jid
        /\ op'.todo = op.todo /\ UNCHANGED <<ifs, clean>>
        /\ rules' = {r \in rules : r.jid # op.jid}
    BY <1>7, GotoKeeps DEF DeleteRules, Steps
  <2>2. clean => TeardownAccounted /\ NotYet = {}
    BY <2>1 DEF Stopping, TeardownSteps, NotYet
  <2> QED
    BY <2>1, <2>2 DEF TeardownAccounted, OfMode, Starting, SetupSteps
<1> QED
  BY <1>1, <1>2, <1>3, <1>4, <1>5, <1>6, <1>7 DEF Next, Setup, Teardown

----------------------------------------------------------------------------
(***************************************************************************)
(* The theorems.                                                           *)
(***************************************************************************)
LEMMA VnetInit == Init => VnetInv
<1> SUFFICES ASSUME Init PROVE VnetInv
  OBVIOUS
<1>1. TypeOK
  BY InitTyped
<1>2. /\ jid = None /\ last = None /\ op.pc = "idle" /\ op.todo = {}
      /\ ifs = {} /\ named = {} /\ inside = {} /\ joined = {} /\ rules = {}
  BY DEF Init
<1> QED
  BY <1>1, <1>2 DEF VnetInv, Lives, Known, Guarded, NicReady, NicsUp, Accounted, At,
     Starting, Stopping, OfNic, SetupSteps, NicSteps, TeardownSteps

LEMMA VnetStep == VnetInv /\ [Next]_vars => VnetInv'
<1> SUFFICES ASSUME VnetInv, [Next]_vars PROVE VnetInv'
  OBVIOUS
<1>1. CASE Next
  BY <1>1, TypeStep, LivesStep, KnownStep, GuardedStep, NicReadyStep, NicsUpStep,
     AccountedStep DEF VnetInv
<1>2. CASE UNCHANGED vars
  <2> USE <1>2 DEF vars, host, VnetInv, At, Starting, Stopping, SetupSteps, TeardownSteps
  <2>1. TypeOK'
    BY DEF TypeOK
  <2>2. Lives' /\ Known'
    BY DEF Lives, Known, OfNic, Configured
  <2>3. Guarded'
    BY DEF Guarded, Denied
  <2>4. NicReady'
    BY DEF NicReady, Denied, JoinedTo, Secure, Member, Part
  <2>5. NicsUp'
    BY DEF NicsUp, Linked, Configured
  <2>6. Accounted'
    BY DEF Accounted, SetupAccounted, TeardownAccounted, OfMode, NotYet, OfNic,
       Configured
  <2> QED
    BY <2>1, <2>2, <2>3, <2>4, <2>5, <2>6
<1> QED
  BY <1>1, <1>2

\* Whatever fails while networks are set up and torn down (Network.setup,
\* Network.teardown), and whatever the consumer changes in between: what is on
\* the host for the jail belongs to a nic that is set up or yet to be torn down.
THEOREM VnetInvariant == Spec => []VnetInv
  BY VnetInit, VnetStep, PTL DEF Spec

\* For any nics, bridges and number of starts, the variables keep their types:
\* no interface has a name or is in the jail that was not created.
THEOREM VnetTypeCorrect == Spec => []TypeOK
<1>1. VnetInv => TypeOK
  BY DEF VnetInv
<1> QED
  BY <1>1, VnetInvariant, PTL

\* A start() that succeeds has connected every configured nic to the bridge of
\* the host (Network.py:92).
THEOREM ConnectedTheorem == Spec => []Connected
<1>1. VnetInv => Connected
  BY DEF VnetInv, Connected, NicsUp, Lives, Starting, At, NicSteps, SetupSteps
<1> QED
  BY <1>1, VnetInvariant, PTL

\* Packets pass between a jail and the bridge of a secure nic only when the
\* rules that deny are loaded, whatever fails (Network.py:403).
THEOREM FilteredTheorem == Spec => []Filtered
<1>1. VnetInv => Filtered
  <2> SUFFICES ASSUME VnetInv, NEW n \in Nics, jid # None, Linked(n, jid, "secure"),
                      NEW i \in DOMAIN Families
               PROVE  [jid |-> jid, nic |-> n, family |-> Families[i],
                       action |-> "deny"] \in rules
    BY DEF Filtered
  <2>1. Denied(n, jid)
    BY DEF Linked, VnetInv, Guarded
  <2>2. Families[i] \in {"ipv4", "ipv6"}
    BY DEF Families
  <2> QED
    BY <2>1, <2>2 DEF Denied
<1> QED
  BY <1>1, VnetInvariant, PTL

\* A stop() of what was started completely and not changed since leaves no
\* interface, membership or rule of the jail on the host (Network.py:120).
THEOREM NothingStaysTheorem == Spec => []NothingStays
<1>1. VnetInv => NothingStays
  <2> SUFFICES ASSUME VnetInv, At("stopped"), clean
               PROVE  /\ \A i \in ifs : i.jid # op.jid
                      /\ \A m \in joined : m.iface.jid # op.jid
                      /\ \A r \in rules : r.jid # op.jid
    BY DEF NothingStays
  <2>1. TeardownAccounted /\ NotYet = {} /\ op.todo = {} /\ ~OfNic
    BY DEF VnetInv, Accounted, Lives, Stopping, At, NotYet, OfNic, NicSteps,
       SetupSteps, TeardownSteps
  <2>2. \A i \in ifs : i.jid # op.jid
    BY <2>1 DEF TeardownAccounted
  <2>3. \A r \in rules : r.jid # op.jid
    BY <2>1 DEF TeardownAccounted
  <2>4. \A m \in joined : m.iface \in ifs
    BY DEF VnetInv, Known, TypeOK
  <2> QED
    BY <2>2, <2>3, <2>4
<1> QED
  BY <1>1, VnetInvariant, PTL
=============================================================================
