---------------------------- MODULE VnetNetwork ----------------------------
(***************************************************************************)
(* The networks of a vnet jail (libioc/Network.py, NetworkInterface.py,    *)
(* BridgeInterface.py, Firewall.py and the network part of Jail.py).       *)
(*                                                                         *)
(* start() gives every nic of the jail an epair: one end stays on the host *)
(* and joins a bridge, the other one moves to the jail.  In secure mode    *)
(* the host end joins a bridge of its own, which a second epair connects   *)
(* to the bridge of the host, and ipfw filters what passes.  stop() first  *)
(* removes the jail and then what is left of its networks on the host,     *)
(* which carries the jid.  Every command may fail, and nothing of a failed *)
(* start() is undone before stop() is called.                              *)
(***************************************************************************)
EXTENDS Integers

CONSTANTS
  Nics,       \* the names of network interfaces in the jail
  MaxJid,     \* bound: the jail is started at most so often
  Bridges     \* what nics may be connected to, of the kinds below

ASSUME BoundAssumption == MaxJid \in Nat
ASSUME BridgeAssumption == Bridges \subseteq {"absent", "none", "open", "secure"}

VARIABLES
  jid,        \* the jail runs with this jid, or None
  last,       \* the last jid that was used
  ifs,        \* the interfaces that were created for nics
  named,      \* those that have their final name
  inside,     \* those that are in the jail
  joined,     \* members of bridges
  rules,      \* ipfw rules
  op,         \* the start() or stop() that runs
  clean       \* history: since the last start() nothing failed or was changed

host == <<ifs, named, inside, joined, rules>>
vars == <<jid, last, host, op, clean>>

None == 0
Jids == 1 .. MaxJid

\* The properties interfaces, ip4_addr and ip6_addr, as an operation reads them.
\* A nic is not configured, has no bridge, a bridge or a secure bridge.
\* The address of a nic is static or one of dhcp and accept_rtadv.
Settings == [bridge : Bridges, dynamic : BOOLEAN]
Configs == [Nics -> Settings]

\* <nic>:<jid>, its peer :j, the peers :a and :b of secure mode and its bridge.
Parts == {"host", "j", "a", "b", "net"}
Interfaces == [nic : Nics, jid : Jids, part : Parts]
Memberships == [iface : Interfaces, of : {"bridge", "net"}]

\* Rules have the jid as their number.  There are three that allow each
\* address, and two that deny the rest of a family.
Families == <<"ipv4", "ipv6">>
Rules == [jid : Jids, nic : Nics, family : {"ipv4", "ipv6"},
          action : {"allow", "deny"}]

Steps == {"idle", "started", "raised", "refused", "stopped", "next", "check",
          "pair", "join", "pair2", "rules", "net", "members", "move", "inside",
          "routes", "nextdown", "down", "downsecure", "downnet", "unrule"}
Operations == [pc : Steps, todo : SUBSET Nics, nic : Nics, plan : Configs,
               jid : Jids \union {None}]

TypeOK ==
  /\ jid \in Jids \union {None} /\ last \in Jids \union {None}
  /\ ifs \subseteq Interfaces
  /\ named \subseteq ifs /\ inside \subseteq ifs
  /\ joined \subseteq Memberships
  /\ rules \subseteq Rules
  /\ op \in Operations
  /\ clean \in BOOLEAN

Init ==
  /\ jid = None /\ last = None
  /\ ifs = {} /\ named = {} /\ inside = {} /\ joined = {} /\ rules = {}
  /\ op \in {[pc |-> "idle", todo |-> {}, nic |-> n, plan |-> c, jid |-> None] :
             n \in Nics, c \in Configs}
  /\ clean = TRUE

----------------------------------------------------------------------------
(***************************************************************************)
(* Control.                                                                *)
(***************************************************************************)

At(step) == op.pc = step
Resting == op.pc \in {"idle", "started", "raised", "refused", "stopped"}
Goto(step) == op' = [op EXCEPT !.pc = step]

\* An exception leaves start() or stop().
Raise(outcome) == Goto(outcome) /\ clean' = FALSE

Configured(c) == {n \in Nics : c[n].bridge # "absent"}
Secure == op.plan[op.nic].bridge = "secure"
Dynamic == op.plan[op.nic].dynamic

Part(part) == [nic |-> op.nic, jid |-> op.jid, part |-> part]
Member(part, bridge) == [iface |-> Part(part), of |-> bridge]
Exists(part) == Part(part) \in named

\* The nics of the jail are set up and torn down in the order of the property.
Take(step) ==
  \E n \in op.todo : op' = [op EXCEPT !.pc = step, !.nic = n, !.todo = @ \ {n}]

----------------------------------------------------------------------------
(***************************************************************************)
(* setup() of the networks, when the jail has been created.                *)
(***************************************************************************)

CallStart ==
  /\ Resting /\ jid = None /\ last < MaxJid
  /\ jid' = last + 1 /\ last' = jid'
  /\ \E c \in Configs :
       op' = [op EXCEPT !.pc = "next", !.todo = Configured(c), !.plan = c,
                        !.jid = jid']
  /\ clean' = TRUE
  /\ UNCHANGED <<host>>

NextNic ==
  /\ At("next")
  /\ IF op.todo = {} THEN Goto("routes") ELSE Take("check")
  /\ UNCHANGED <<jid, last, host, clean>>

\* Configured or generated mac addresses do not have twelve digits.
MacRefused == Raise("raised")

\* In secure mode three sysctls have to enable ipfw.
FirewallDisabled == Secure /\ Raise("raised")

\* The bridge of the host, whose mtu the epair gets, does not exist.
BridgeMissing == Raise("raised")

Check ==
  /\ At("check")
  /\ \/ op.plan[op.nic].bridge # "none" /\ Goto("pair") /\ UNCHANGED clean
     \/ FirewallDisabled \/ MacRefused \/ BridgeMissing
  /\ UNCHANGED <<jid, last, host>>

\* An epair is created, and then its ends are renamed.
CreatePair(a, b) ==
  /\ ifs' = ifs \union {Part(a), Part(b)}
  /\ named' = named \union {Part(a), Part(b)}
CreatePairFails(a, b) ==
  /\ \/ UNCHANGED <<ifs, named>>
     \/ /\ ifs' = ifs \union {Part(a), Part(b)}
        /\ named' \in {named, named \union {Part(a)}}
  /\ Raise("raised")

Pair ==
  /\ At("pair")
  /\ \/ /\ CreatePair("host", "j")
        /\ Goto(IF Secure THEN "pair2" ELSE "join")
        /\ UNCHANGED clean
     \/ CreatePairFails("host", "j")
  /\ UNCHANGED <<jid, last, inside, joined, rules>>

Join ==
  /\ At("join")
  /\ \/ /\ joined' = joined \union {Member("host", "bridge")}
        /\ Goto("move") /\ UNCHANGED clean
     \/ Raise("raised") /\ UNCHANGED joined
  /\ UNCHANGED <<jid, last, ifs, named, inside, rules>>

SecurePair ==
  /\ At("pair2")
  /\ \/ CreatePair("a", "b") /\ Goto("rules") /\ UNCHANGED clean
     \/ CreatePairFails("a", "b")
  /\ UNCHANGED <<jid, last, inside, joined, rules>>

----------------------------------------------------------------------------
(***************************************************************************)
(* Secure mode.                                                            *)
(***************************************************************************)

Rule(family, action) ==
  [jid |-> op.jid, nic |-> op.nic, family |-> family, action |-> action]

\* A mutant: the rules of the second family are left out.
RulesOfIpv4 == <<Rule("ipv4", "allow"), Rule("ipv4", "deny")>>

\* What __configure_firewall adds for a static address of both families.
RulesOfNic ==
  <<Rule("ipv4", "allow"), Rule("ipv4", "deny"),
    Rule("ipv6", "allow"), Rule("ipv6", "deny")>>

Added(n) == rules \union {RulesOfNic[i] : i \in DOMAIN RulesOfNic \intersect 1 .. n}

\* A dynamic address is a str that has no attribute ip: an AttributeError, not
\* the AddressValueError that is caught, and no rule of its family.
AddRules ==
  /\ At("rules")
  /\ \/ ~Dynamic /\ rules' = Added(4)
        /\ Goto("net") /\ UNCHANGED clean
     \/ Dynamic /\ Raise("refused") /\ rules' \in {Added(0), Added(1), Added(2)}
     \/ ~Dynamic /\ Raise("raised") /\ rules' \in {Added(n) : n \in 0 .. 3}
  /\ UNCHANGED <<jid, last, ifs, named, inside, joined>>

\* The second bridge is created and named by one command.
CreateNet ==
  /\ At("net")
  /\ \/ /\ ifs' = ifs \union {Part("net")}
        /\ named' = named \union {Part("net")}
        /\ Goto("members") /\ UNCHANGED clean
     \/ Raise("raised") /\ UNCHANGED <<ifs, named>>
  /\ UNCHANGED <<jid, last, inside, joined, rules>>

\* A mutant: the ends of the second epair are swapped.
MembersSwapped == <<{Member("host", "net"), Member("a", "net")},
                    {Member("a", "bridge")}>>

\* What joins the bridge of the nic, and then that of the host.
SecureMembers == <<{Member("host", "net"), Member("b", "net")},
                   {Member("a", "bridge")}>>

JoinSecure ==
  /\ At("members")
  /\ \/ /\ joined' = joined \union SecureMembers[1] \union SecureMembers[2]
        /\ Goto("move") /\ UNCHANGED clean
     \/ /\ \E some \in SUBSET SecureMembers[1] : joined' = joined \union some
        /\ Raise("raised")
     \/ joined' = joined \union SecureMembers[1] /\ Raise("raised")
  /\ UNCHANGED <<jid, last, ifs, named, inside, rules>>

----------------------------------------------------------------------------
(***************************************************************************)
(* The jail end of the epair.                                              *)
(***************************************************************************)

\* The host end comes up, and the other one moves to the jail.
Move ==
  /\ At("move")
  /\ \/ inside' = inside \union {Part("j")} /\ Goto("inside") /\ UNCHANGED clean
     \/ Raise("raised") /\ UNCHANGED inside
  /\ UNCHANGED <<jid, last, ifs, named, joined, rules>>

\* Its addresses are set or asked for in the jail, where it has the name nic.
ConfigureInside ==
  /\ At("inside")
  /\ \/ Goto("next") /\ UNCHANGED clean
     \/ Raise("raised")
  /\ UNCHANGED <<jid, last, host>>

\* The loopback interface and, in the jail, the routes to static gateways and
\* the default routes; ipfw is stopped in the jail.
ConfigureRoutes ==
  /\ At("routes")
  /\ \/ Goto("started") /\ UNCHANGED clean
     \/ Raise("raised")
  /\ UNCHANGED <<jid, last, host>>

----------------------------------------------------------------------------
(***************************************************************************)
(* teardown() of the networks.                                             *)
(***************************************************************************)

\* The properties may have been changed since the start, for one nic here.
Reconfigured(c) ==
  \E n \in Nics, setting \in Settings : c = [op.plan EXCEPT ![n] = setting]

\* The kernel returns interfaces in a jail to the host when it is removed.
CallStop ==
  /\ Resting /\ jid # None
  /\ jid' = None
  /\ inside' = {}
  /\ \E c \in Configs :
       /\ Reconfigured(c)
       /\ op' = [op EXCEPT !.pc = "nextdown", !.todo = Configured(c), !.plan = c,
                           !.jid = jid]
       /\ clean' = (clean /\ c = op.plan)
  /\ UNCHANGED <<last, ifs, named, joined, rules>>

NextDown ==
  /\ At("nextdown")
  /\ IF op.todo = {} THEN Goto("stopped") ELSE Take("down")
  /\ UNCHANGED <<jid, last, host, clean>>

\* A mutant: what is destroyed is still known by its name.
DestroyedNamesStay(parts) ==
  /\ ifs' = ifs \ parts
  /\ joined' = {m \in joined : m.iface \notin parts}
  /\ UNCHANGED named

\* Interfaces leave their bridges when they are destroyed, an epair as a whole.
Destroyed(parts) ==
  /\ ifs' = ifs \ parts
  /\ named' = named \ parts
  /\ joined' = {m \in joined : m.iface \notin parts}

Destroy(parts, step) ==
  /\ Destroyed(parts)
  /\ Goto(step)
  /\ UNCHANGED clean

\* ifconfig fails to destroy an interface that is not there.
DestroyFails == Raise("raised") /\ UNCHANGED <<ifs, named, joined>>

DownHost ==
  /\ At("down")
  /\ \/ /\ Exists("host")
        /\ Destroy({Part("host"), Part("j")}, IF Secure THEN "downsecure" ELSE "nextdown")
     \/ DestroyFails
  /\ UNCHANGED <<jid, last, inside, rules>>

AfterSecureSkipsNet == "unrule"      \* a mutant: the bridge stays
AfterSecure == "downnet"

DownSecure ==
  /\ At("downsecure")
  /\ \/ Exists("a") /\ Destroy({Part("a"), Part("b")}, AfterSecure)
     \/ DestroyFails
  /\ UNCHANGED <<jid, last, inside, rules>>

DownNet ==
  /\ At("downnet")
  /\ \/ Exists("net") /\ Destroy({Part("net")}, "unrule")
     \/ DestroyFails
  /\ UNCHANGED <<jid, last, inside, rules>>

\* The rules of all nics have one number: the first nic that is torn down
\* deletes them, and errors are ignored for those after it.
DeleteRules ==
  /\ At("unrule")
  /\ rules' = {r \in rules : r.jid # op.jid}
  /\ Goto("nextdown")
  /\ UNCHANGED <<jid, last, ifs, named, inside, joined, clean>>

Setup ==
  NextNic \/ Check \/ Pair \/ Join \/ SecurePair \/ AddRules \/ CreateNet
    \/ JoinSecure \/ Move \/ ConfigureInside \/ ConfigureRoutes

Teardown == NextDown \/ DownHost \/ DownSecure \/ DownNet \/ DeleteRules

Next == CallStart \/ Setup \/ CallStop \/ Teardown

Spec == Init /\ [][Next]_vars

----------------------------------------------------------------------------
(***************************************************************************)
(* Properties.                                                             *)
(***************************************************************************)

\* Nic n of the jail j is connected to the bridge of the host.
Linked(n, j, bridge) ==
  LET part(p) == [nic |-> n, jid |-> j, part |-> p]
      in(p, b) == [iface |-> part(p), of |-> b] \in joined
  IN /\ part("host") \in named /\ part("j") \in inside
     /\ IF bridge = "secure"
        THEN in("host", "net") /\ in("b", "net") /\ in("a", "bridge")
        ELSE in("host", "bridge")

\* A start() that succeeds has connected every nic that is configured to the
\* bridge of the host, through all the interfaces that its mode needs.
Connected ==
  At("started") => \A n \in Configured(op.plan) :
    Linked(n, jid, op.plan[n].bridge)

\* At no time, in whatever order nics are set up and whatever fails: packets
\* only pass between a jail and the bridge of a nic that is set up in secure
\* mode when ipfw has the rules that deny what is not allowed.
Filtered ==
  \A n \in Nics :
    jid # None /\ Linked(n, jid, "secure") => \A i \in DOMAIN Families :
      [jid |-> jid, nic |-> n, family |-> Families[i], action |-> "deny"] \in rules

\* A stop() of what was started completely and not changed since leaves no
\* interface, bridge or rule of the jail on the host, also if it has several
\* nics of different modes.
NothingStays ==
  At("stopped") /\ clean =>
    /\ \A i \in ifs : i.jid # op.jid
    /\ \A m \in joined : m.iface.jid # op.jid
    /\ \A r \in rules : r.jid # op.jid
=============================================================================
