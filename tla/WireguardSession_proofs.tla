---------------------- MODULE WireguardSession_proofs ----------------------
(***************************************************************************)
(* Proofs about the WireGuard sessions, for any servers, sites, retries,   *)
(* requests and crashes: the types, that client and daemon agree once      *)
(* everything is read, and that nothing is kept of a session that is over. *)
(*                                                                         *)
(* Activations wait inside each other and an older session's may end after *)
(* a newer one's.  What saves the outcome is that every session but the    *)
(* last has its deactivation behind its activation on its own connection   *)
(* (Owed), and that the last of these leaves a clean daemon, at once or    *)
(* after its wait (Tidy, DeactivateFirstFacts, EndFacts), and has told the *)
(* client so (Agreed), as long as inside that wait only further            *)
(* deactivations are read (Nested).  In any case no other session's        *)
(* connection is left (Current).                                           *)
(***************************************************************************)
EXTENDS WireguardSession, SequenceTheorems, TLAPS

-----------------------------------------------------------------------------
(***************************************************************************)
(* The daemon.                                                             *)
(***************************************************************************)
Firewalls == [installed : BOOLEAN, on : SUBSET Chains, allowNets : SUBSET Addresses,
              blockNets : SUBSET Addresses]

DaemonStates ==
  [fw : Firewalls, ranges : SUBSET Addresses, strict : {FALSE},
   proc : {"off", "running", "killed"}, monitor : BOOLEAN, conn : Configs \cup {NoConfig},
   date : BOOLEAN, excluded : [Addresses -> Nat], routes : SUBSET Addresses,
   resolvers : BOOLEAN]

\* What a deactivation needs in order to leave nothing: every route is counted and watched
\* over, and there are no rules without a tunnel process.
Tidy(x) ==
  /\ x.ranges = {}
  /\ \A a \in x.routes : x.monitor /\ x.excluded[a] > 0
  /\ x.fw = uninstall \/ x.fw.installed
  /\ x.proc = "off" => x.fw = uninstall

\* From x the daemon may come to y.
Reaches(x, y) == y \in DaemonStates /\ (Tidy(x) => Tidy(y))

\* A daemon state is its fields.
LEMMA SameState ==
  ASSUME NEW x \in DaemonStates, NEW y \in DaemonStates,
         x.fw = y.fw, x.ranges = y.ranges, x.strict = y.strict, x.proc = y.proc,
         x.monitor = y.monitor, x.conn = y.conn, x.date = y.date, x.excluded = y.excluded,
         x.routes = y.routes, x.resolvers = y.resolvers
  PROVE  x = y
BY DEF DaemonStates

\* A fresh service is in order (main, LocalServer).
LEMMA FreshFacts ==
  /\ uninstall \in Firewalls /\ ~uninstall.installed
  /\ freshService \in DaemonStates /\ Tidy(freshService) /\ freshService.conn = NoConfig
<1>1. uninstall \in Firewalls /\ ~uninstall.installed
  BY DEF uninstall, Firewalls
<1>2. NoneExcluded \in [Addresses -> Nat]
  BY DEF NoneExcluded
<1> HIDE DEF uninstall, NoneExcluded
<1>3. freshService \in DaemonStates /\ freshService.conn = NoConfig
  BY <1>1, <1>2 DEF freshService, DaemonStates
<1>4. Tidy(freshService)
  BY DEF freshService, Tidy
<1>5. QED BY <1>1, <1>3, <1>4

\* The addresses of a configuration (Daemon::activate).
LEMMA ConfigFacts ==
  ASSUME NEW c \in Configs
  PROVE  /\ c.host \in Addresses /\ c.host \in ExcludedAddresses(c)
         /\ ExcludedAddresses(c) \in SUBSET Addresses /\ c # NoConfig
         /\ c.ks \in BOOLEAN
<1>1. c.host \in Hosts /\ c.ks \in BOOLEAN
  BY DEF Configs
<1>2. c # NoConfig
  BY <1>1, NamesAssumption DEF NoConfig
<1>3. QED BY <1>1, <1>2 DEF ExcludedAddresses, Addresses

\* Switching anchors and listing networks (linuxfirewall.cpp) leave installed rules installed.
LEMMA FirewallFacts ==
  ASSUME NEW fw \in Firewalls, fw.installed, NEW ip, NEW A, NEW b \in BOOLEAN,
         NEW nets \in SUBSET Addresses
  PROVE  /\ enableAnchors(fw, ip, A) \in Firewalls /\ enableAnchors(fw, ip, A).installed
         /\ setAnchorEnabled(fw, ip, A, b) \in Firewalls
         /\ setAnchorEnabled(fw, ip, A, b).installed
         /\ updateAllowNets(fw, nets) \in Firewalls /\ updateAllowNets(fw, nets).installed
         /\ updateBlockNets(fw, nets) \in Firewalls /\ updateBlockNets(fw, nets).installed
<1>1. enableAnchors(fw, ip, A) \in Firewalls /\ enableAnchors(fw, ip, A).installed
  BY DEF enableAnchors, Firewalls
<1>2. disableAnchors(fw, ip, A) \in Firewalls /\ disableAnchors(fw, ip, A).installed
  BY DEF disableAnchors, Firewalls
<1>3. QED BY <1>1, <1>2 DEF setAnchorEnabled, updateAllowNets, updateBlockNets, Firewalls

\* The rules of a tunnel are installed rules (WireguardUtilsLinux::applyFirewallRules).
LEMMA ApplyFirewallRulesReaches ==
  ASSUME NEW x \in DaemonStates, x.proc = "running", NEW c \in Configs
  PROVE  LET y == applyFirewallRules(x, c)
         IN  Reaches(x, y) /\ y.conn = x.conn
<1> DEFINE all == c.split # 1
           g1  == IF all THEN ExcludedAddresses(c) ELSE {}
           g2  == IF all THEN {} ELSE Sites
           f0  == IF x.fw.installed THEN x.fw ELSE install
           f1  == setAnchorEnabled(f0, Both, {blockAll}, all)
           f2  == setAnchorEnabled(f1, IPv4, {allowNets}, all)
           f3  == updateAllowNets(f2, g1)
           f4  == setAnchorEnabled(f3, IPv4, {blockNets}, ~all)
           f5  == updateBlockNets(f4, g2)
           t1  == enableAnchors(f5, Both, {allowLoopback, allowDHCP, allowLAN})
           t2  == enableAnchors(t1, IPv4, {allowVPN, blockDNS, allowDNS})
           t3  == enableAnchors(t2, IPv6, {blockIPv6})
           y   == [x EXCEPT !.fw = t3]
<1>1. f0 \in Firewalls /\ f0.installed
  BY DEF DaemonStates, install, uninstall, Firewalls
<1>2. g1 \in SUBSET Addresses /\ g2 \in SUBSET Addresses
  BY ConfigFacts DEF Addresses
<1>3. applyFirewallRules(x, c) = y
  BY DEF applyFirewallRules, TunnelRules
<1>4. all \in BOOLEAN /\ (~all) \in BOOLEAN
  OBVIOUS
<1> HIDE DEF all, f0, g1, g2
<1>5. f1 \in Firewalls /\ f1.installed
  BY <1>1, <1>2, <1>4, FirewallFacts
<1> HIDE DEF f1
<1>6. f2 \in Firewalls /\ f2.installed
  BY <1>2, <1>4, <1>5, FirewallFacts
<1> HIDE DEF f2
<1>7. f3 \in Firewalls /\ f3.installed
  BY <1>2, <1>4, <1>6, FirewallFacts
<1> HIDE DEF f3
<1>8. f4 \in Firewalls /\ f4.installed
  BY <1>2, <1>4, <1>7, FirewallFacts
<1> HIDE DEF f4
<1>9. f5 \in Firewalls /\ f5.installed
  BY <1>2, <1>4, <1>8, FirewallFacts
<1> HIDE DEF f5
<1>10. t1 \in Firewalls /\ t1.installed
  BY <1>2, <1>4, <1>9, FirewallFacts
<1> HIDE DEF t1
<1>11. t2 \in Firewalls /\ t2.installed
  BY <1>2, <1>4, <1>10, FirewallFacts
<1> HIDE DEF t2
<1>12. t3 \in Firewalls /\ t3.installed
  BY <1>2, <1>4, <1>11, FirewallFacts
<1> HIDE DEF t3
<1>13. /\ y \in DaemonStates /\ y.fw = t3 /\ y.conn = x.conn /\ y.proc = "running"
       /\ y.ranges = x.ranges /\ y.routes = x.routes /\ y.monitor = x.monitor
       /\ y.excluded = x.excluded
  BY <1>12 DEF DaemonStates
<1> HIDE DEF y
<1>14. QED BY <1>3, <1>12, <1>13 DEF Reaches, Tidy

\* A step that leaves the routes, the rules and the process alone.
LEMMA Untouched ==
  ASSUME NEW x \in DaemonStates, NEW y \in DaemonStates, y.ranges = x.ranges,
         y.routes = x.routes, y.excluded = x.excluded, y.monitor = x.monitor \/ y.monitor,
         y.fw = x.fw, y.proc = x.proc \/ y.proc # "off"
  PROVE  Reaches(x, y)
BY DEF Reaches, Tidy

\* One thing after another.
LEMMA ReachesTwice ==
  ASSUME NEW x, NEW y, NEW z, Reaches(x, y), Reaches(y, z)
  PROVE  Reaches(x, z)
BY DEF Reaches

\* A configuration's routes are added and counted together (Daemon::addExclusionRoutes,
\* updatePeer).
LEMMA RoutesReach ==
  ASSUME NEW x \in DaemonStates, NEW c \in Configs
  PROVE  LET y == addPeerRoute(addExclusionRoutes(x, ExcludedAddresses(c)), c)
         IN  Reaches(x, y) /\ y.conn = x.conn
<1> DEFINE A == ExcludedAddresses(c)
           e == [a \in Addresses |->
                     IF a \in A /\ (x.monitor \/ x.excluded[a] > 0) THEN x.excluded[a] + 1
                     ELSE x.excluded[a]]
           r == x.routes \cup {a \in A : x.monitor /\ x.excluded[a] = 0}
           t == addExclusionRoutes(x, A)
           y == addPeerRoute(t, c)
<1>1. x.excluded \in [Addresses -> Nat] /\ x.routes \in SUBSET Addresses
  BY DEF DaemonStates
<1>2. A \in SUBSET Addresses /\ c.host \in A
  BY ConfigFacts
<1> HIDE DEF A
<1>3. t = [x EXCEPT !.excluded = e, !.routes = r]
  BY <1>1 DEF addExclusionRoutes, DaemonStates
<1>4. e \in [Addresses -> Nat] /\ r \in SUBSET Addresses
  BY <1>1, <1>2
<1>5. \A a \in Addresses : /\ x.excluded[a] \in Nat /\ e[a] >= x.excluded[a]
                           /\ a \in A /\ x.monitor => e[a] > 0
  BY <1>1
<1>6. \A a \in r : a \in x.routes \/ (a \in A /\ x.monitor)
  OBVIOUS
<1> HIDE DEF e, r
<1>7. /\ t \in DaemonStates /\ t.fw = x.fw /\ t.ranges = x.ranges /\ t.proc = x.proc
      /\ t.monitor = x.monitor /\ t.conn = x.conn /\ t.excluded = e /\ t.routes = r
  BY <1>3, <1>4 DEF DaemonStates
<1> HIDE DEF t
<1>8. /\ y \in DaemonStates /\ y.fw = x.fw /\ y.ranges = x.ranges /\ y.proc = x.proc
      /\ y.monitor = x.monitor /\ y.conn = x.conn /\ y.excluded = e
      /\ \A a \in y.routes : a \in r \/ (a = c.host /\ x.monitor)
  BY <1>2, <1>7 DEF addPeerRoute, DaemonStates
<1> HIDE DEF y
<1>9. ASSUME Tidy(x), NEW a \in y.routes PROVE y.monitor /\ y.excluded[a] > 0
  <2>1. a \in Addresses
    BY <1>8 DEF DaemonStates
  <2>2. (a \in x.routes /\ x.monitor /\ x.excluded[a] > 0) \/ (a \in A /\ x.monitor)
    BY <1>2, <1>6, <1>8, <1>9 DEF Tidy
  <2>3. QED BY <1>4, <1>5, <1>8, <2>1, <2>2
<1>10. Tidy(x) => Tidy(y)
  BY <1>8, <1>9 DEF Tidy
<1>11. QED BY <1>8, <1>10 DEF Reaches, y, t, A

\* A server switch gives back what it counted, route by route (Daemon::delExclusionRoutes).
LEMMA DelRoutesReach ==
  ASSUME NEW x \in DaemonStates, NEW A
  PROVE  Reaches(x, delExclusionRoutes(x, A))
<1> DEFINE B == A \ Ranges
           e == [a \in Addresses |->
                     IF a \in B THEN (IF x.excluded[a] > 1 THEN x.excluded[a] - 1 ELSE 0)
                     ELSE x.excluded[a]]
           g == {a \in B : x.monitor /\ x.excluded[a] <= 1}
           r == x.routes \ g
           t == delExclusionRoutes(x, A)
<1>1. x.excluded \in [Addresses -> Nat] /\ x.routes \in SUBSET Addresses
  BY DEF DaemonStates
<1>2. t = [x EXCEPT !.excluded = e, !.routes = r]
  BY <1>1 DEF delExclusionRoutes, DaemonStates
<1>3. e \in [Addresses -> Nat] /\ r \in SUBSET Addresses
  BY <1>1
<1>4. ASSUME NEW a \in r, x.monitor, x.excluded[a] > 0 PROVE e[a] > 0
  <2>1. a \in Addresses /\ x.excluded[a] \in Nat
    BY <1>1
  <2>2. CASE a \in B
    <3>1. x.excluded[a] > 1
      BY <1>4, <2>1, <2>2
    <3>2. QED BY <2>1, <2>2, <3>1
  <2>3. CASE a \notin B
    BY <1>4, <2>1, <2>3
  <2>4. QED BY <2>2, <2>3
<1>5. r \subseteq x.routes
  OBVIOUS
<1> HIDE DEF e, r
<1>6. /\ t \in DaemonStates /\ t.fw = x.fw /\ t.ranges = x.ranges /\ t.proc = x.proc
      /\ t.monitor = x.monitor /\ t.excluded = e /\ t.routes = r
  BY <1>2, <1>3 DEF DaemonStates
<1> HIDE DEF t
<1>7. Tidy(x) => Tidy(t)
  BY <1>4, <1>5, <1>6 DEF Tidy
<1>8. QED BY <1>6, <1>7 DEF Reaches, t

\* The first half of a deactivation takes the resolvers and a route (Daemon::deactivate,
\* deletePeer).
LEMMA DeletePeerFacts ==
  ASSUME NEW x \in DaemonStates
  PROVE  /\ Reaches(x, deletePeer(x)) /\ deletePeer(x) \in DaemonStates
         /\ deletePeer(x).conn = x.conn /\ deletePeer(x).resolvers = FALSE
<1> DEFINE r == IF x.monitor THEN x.routes \ {x.conn.host} ELSE x.routes
           y == deletePeer(x)
<1>1. r \in SUBSET Addresses /\ r \subseteq x.routes
  BY DEF DaemonStates
<1>2. y = [x EXCEPT !.resolvers = FALSE, !.routes = r]
  BY DEF deletePeer, DaemonStates
<1> HIDE DEF r
<1>3. /\ y \in DaemonStates /\ y.routes = r /\ y.resolvers = FALSE /\ y.conn = x.conn
      /\ y.ranges = x.ranges /\ y.monitor = x.monitor /\ y.excluded = x.excluded
      /\ y.fw = x.fw /\ y.proc = x.proc
  BY <1>1, <1>2 DEF DaemonStates
<1> HIDE DEF y
<1>4. Tidy(x) => Tidy(y)
  BY <1>1, <1>3 DEF Tidy
<1>5. QED BY <1>3, <1>4 DEF Reaches, y

\* The second half, of a daemon in order, leaves nothing but the resolvers
\* (Daemon::deactivate, deleteInterface).
LEMMA DeleteInterfaceFacts ==
  ASSUME NEW x \in DaemonStates
  PROVE  /\ Reaches(x, deleteInterface(x)) /\ deleteInterface(x) \in DaemonStates
         /\ deleteInterface(x).conn = NoConfig
         /\ Tidy(x) /\ x.resolvers = FALSE => deleteInterface(x) = freshService
<1> DEFINE gone == {a \in Addresses : x.monitor /\ x.excluded[a] > 0}
           r    == x.routes \ gone
           t    == [x EXCEPT !.routes = r, !.excluded = NoneExcluded, !.conn = NoConfig,
                             !.date = FALSE, !.monitor = FALSE]
           u    == [x EXCEPT !.routes = r, !.excluded = NoneExcluded, !.conn = NoConfig,
                             !.date = FALSE, !.monitor = FALSE,
                             !.proc = "off", !.fw = uninstall, !.ranges = {}]
           y    == deleteInterface(x)
<1>1. x.routes \in SUBSET Addresses /\ NoneExcluded \in [Addresses -> Nat]
  BY DEF DaemonStates, NoneExcluded
<1>2. y = IF x.proc = "off" THEN t ELSE u
  BY DEF deleteInterface, disableKillSwitch, DaemonStates
<1>3. r \in SUBSET Addresses /\ (Tidy(x) => r = {})
  BY <1>1 DEF Tidy
<1> HIDE DEF r
<1> HIDE DEF NoneExcluded, uninstall
<1>a. /\ t \in DaemonStates /\ t.routes = r /\ t.excluded = NoneExcluded /\ t.conn = NoConfig
      /\ t.date = FALSE /\ t.resolvers = x.resolvers /\ t.monitor = FALSE /\ t.proc = x.proc
      /\ t.fw = x.fw /\ t.ranges = x.ranges
  BY <1>1, <1>3 DEF DaemonStates
<1>b. /\ u \in DaemonStates /\ u.routes = r /\ u.excluded = NoneExcluded /\ u.conn = NoConfig
      /\ u.date = FALSE /\ u.resolvers = x.resolvers /\ u.monitor = FALSE /\ u.proc = "off"
      /\ u.fw = uninstall /\ u.ranges = {}
  BY <1>1, <1>3, FreshFacts DEF DaemonStates
<1> HIDE DEF t, u
<1>4. /\ y \in DaemonStates /\ y.routes = r /\ y.excluded = NoneExcluded /\ y.conn = NoConfig
      /\ y.date = FALSE /\ y.resolvers = x.resolvers /\ y.monitor = FALSE /\ y.proc = "off"
      /\ y.fw = uninstall \/ (x.proc = "off" /\ y.fw = x.fw)
      /\ y.ranges = {} \/ y.ranges = x.ranges
  BY <1>2, <1>a, <1>b
<1> HIDE DEF y
<1>5. ASSUME Tidy(x) PROVE y.fw = uninstall /\ y.ranges = {} /\ y.routes = {}
  BY <1>3, <1>4, <1>5 DEF Tidy
<1>6. Tidy(x) => Tidy(y)
  BY <1>4, <1>5 DEF Tidy
<1>7. ASSUME Tidy(x), x.resolvers = FALSE PROVE y = freshService
  <2>1. y.strict = FALSE
    BY <1>4 DEF DaemonStates
  <2>2. QED BY <1>4, <1>5, <1>7, <2>1, FreshFacts, SameState DEF freshService
<1>8. QED BY <1>4, <1>6, <1>7 DEF Reaches, y

\* A deactivation either leaves nothing or waits, the resolvers being given back
\* (Daemon::deactivate up to its wait).
LEMMA DeactivateFirstFacts ==
  ASSUME NEW x \in DaemonStates
  PROVE  LET o == deactivateFirst(x)
         IN  /\ Reaches(x, o.s) /\ o.s \in DaemonStates
             /\ o.at \in {"done", "down"} /\ o.c = NoConfig /\ o.last = NoConfig
             /\ o.at = "done" /\ Tidy(x) => o.s = freshService
             /\ o.at = "down" => o.s.resolvers = FALSE
<1> DEFINE p == deletePeer(x)
           y == deactivate(x)
<1>1. Reaches(x, p) /\ p \in DaemonStates /\ p.resolvers = FALSE
  BY DeletePeerFacts
<1>2. y = deleteInterface(p)
  BY DEF deactivate
<1> HIDE DEF p
<1>3. Reaches(p, y) /\ y \in DaemonStates /\ (Tidy(p) => y = freshService)
  BY <1>1, <1>2, DeleteInterfaceFacts
<1>4. Reaches(x, y) /\ (Tidy(x) => y = freshService)
  BY <1>1, <1>3, ReachesTwice DEF Reaches
<1>5. deactivateFirst(x) \in {Outcome(y, "done", NoConfig, NoConfig),
                              Outcome(p, "down", NoConfig, NoConfig)}
  BY DEF deactivateFirst, p
<1> HIDE DEF y
<1>6. QED BY <1>1, <1>3, <1>4, <1>5 DEF Outcome

-----------------------------------------------------------------------------
(***************************************************************************)
(* The parts of an activation.                                             *)
(***************************************************************************)
Waits == {"name", "setup", "peer", "switch", "takeover"}

\* An activation leaves the connection that is there or makes its own. Begun without one, it
\* has none until it is over.
ConnOf(x, c, at, y) ==
  /\ y.conn \in {x.conn, c}
  /\ x.conn = NoConfig => /\ at \in Waits => y.conn = NoConfig
                          /\ at = "done" => y.conn = c

Follows(x, c, o) ==
  /\ Reaches(x, o.s) /\ o.at \in Waits \cup {"done", "failed"} /\ o.c = c
  /\ o.last \in Configs \cup {NoConfig} /\ ConnOf(x, c, o.at, o.s)

\* An outcome follows if its state does.
LEMMA OutcomeFollows ==
  ASSUME NEW x, NEW t, Reaches(x, t), NEW c, NEW last \in Configs \cup {NoConfig},
         NEW at \in Waits \cup {"done", "failed"}, ConnOf(x, c, at, t)
  PROVE  Follows(x, c, Outcome(t, at, c, last))
BY DEF Follows, Outcome

\* A failure leaves the state it failed in.
LEMMA FailureFollows ==
  ASSUME NEW x, NEW t, NEW c, NEW o \in Failed(t, c), Reaches(x, t),
         t.conn \in {x.conn, c}
  PROVE  Follows(x, c, o)
<1>1. o = Outcome(t, "failed", c, NoConfig) /\ ConnOf(x, c, "failed", t)
  BY DEF Failed, ConnOf, Waits
<1>2. QED BY <1>1, OutcomeFollows

\* From a state with the same connection.
LEMMA FollowsLater ==
  ASSUME NEW x, NEW y, NEW c, NEW o, Reaches(x, y), Follows(y, c, o), y.conn = x.conn
  PROVE  Follows(x, c, o)
BY ReachesTwice DEF Follows, ConnOf

\* From the interface that is there to the peer's command (Daemon::activate).
LEMMA BringUpFollows ==
  ASSUME NEW x \in DaemonStates, NEW c \in Configs, NEW o \in bringUp(x, c)
  PROVE  Follows(x, c, o)
<1> DEFINE y == addPeerRoute(addExclusionRoutes(x, ExcludedAddresses(c)), c)
<1>1. Reaches(x, y) /\ y.conn = x.conn /\ Reaches(x, x)
  BY RoutesReach DEF Reaches
<1>2. o \in Failed(x, c) \/ o = Outcome(y, "peer", c, NoConfig)
  BY DEF bringUp
<1> HIDE DEF y
<1>3. ConnOf(x, c, "peer", y)
  BY <1>1 DEF ConnOf
<1>4. QED BY <1>1, <1>2, <1>3, FailureFollows, OutcomeFollows DEF Waits

\* The start of the process, or its skipping (WireguardUtilsLinux::addInterface).
LEMMA ActivateOffFollows ==
  ASSUME NEW x \in DaemonStates, NEW c \in Configs, NEW o \in activateOff(x, c)
  PROVE  Follows(x, c, o)
<1> DEFINE t == [x EXCEPT !.proc = "running"]
<1>1. /\ t \in DaemonStates /\ t.conn = x.conn /\ t.proc = "running" /\ t.fw = x.fw
      /\ t.ranges = x.ranges /\ t.routes = x.routes /\ t.monitor = x.monitor
      /\ t.excluded = x.excluded
  BY DEF DaemonStates
<1>2. o \in bringUp(x, c) \/ o \in Failed(x, c) \/ o = Outcome(t, "name", c, NoConfig)
  BY DEF activateOff, addInterface
<1> HIDE DEF t
<1>3. Reaches(x, t) /\ Reaches(x, x)
  BY <1>1, Untouched DEF Reaches
<1>4. ConnOf(x, c, "name", t)
  BY <1>1 DEF ConnOf
<1>5. QED BY <1>2, <1>3, <1>4, BringUpFollows, FailureFollows, OutcomeFollows DEF Waits

\* The first part of an activation (Daemon::activate, switchServer).
LEMMA ActivateFollows ==
  ASSUME NEW x \in DaemonStates, NEW c \in Configs, NEW o \in activateFirst(x, c)
  PROVE  Follows(x, c, o)
<1> DEFINE y == deletePeer(x)
           z == addPeerRoute(addExclusionRoutes(x, ExcludedAddresses(c)), c)
<1>1. Reaches(x, y) /\ y.conn = x.conn
  BY DeletePeerFacts
<1>2. x.conn \in Configs \cup {NoConfig}
  BY DEF DaemonStates
<1>3. Reaches(x, z) /\ z.conn = x.conn
  BY RoutesReach
<1>4. \/ x.conn = NoConfig /\ o \in activateOff(x, c)
      \/ x.conn # NoConfig /\ o = Outcome(z, "switch", c, x.conn)
      \/ x.conn # NoConfig /\ o = Outcome(y, "takeover", c, NoConfig)
  BY DEF activateFirst, switchServer
<1> HIDE DEF y, z
<1>5. CASE x.conn = NoConfig
  BY <1>4, <1>5, ActivateOffFollows
<1>6. CASE x.conn # NoConfig
  <2>1. \A at : ConnOf(x, c, at, y) /\ ConnOf(x, c, at, z)
    BY <1>1, <1>3, <1>6 DEF ConnOf
  <2>2. CASE o = Outcome(z, "switch", c, x.conn)
    BY <1>2, <1>3, <2>1, <2>2, OutcomeFollows DEF Waits
  <2>3. CASE o = Outcome(y, "takeover", c, NoConfig)
    BY <1>1, <2>1, <2>3, OutcomeFollows DEF Waits
  <2>4. QED BY <1>4, <1>6, <2>2, <2>3
<1>7. QED BY <1>5, <1>6

\* An activation that has ended the connection of another begins as without one, or fails
\* (Daemon::activate after its deactivation).
LEMMA TakeOverFollows ==
  ASSUME NEW x \in DaemonStates, NEW c \in Configs, NEW o \in takeOver(x, c)
  PROVE  \E y \in DaemonStates : Reaches(x, y) /\ y.conn = NoConfig /\ Follows(y, c, o)
<1> DEFINE y == deleteInterface(x)
<1>1. Reaches(x, y) /\ y \in DaemonStates /\ y.conn = NoConfig
  BY DeleteInterfaceFacts
<1>2. o \in Failed(y, c) \/ o \in activateOff(y, c)
  BY DEF takeOver
<1> HIDE DEF y
<1>3. Follows(y, c, o)
  BY <1>1, <1>2, ActivateOffFollows, FailureFollows DEF Reaches
<1>4. QED BY <1>1, <1>3

\* The tunnel's name (waitForTunnelName).
LEMMA NameReadyFollows ==
  ASSUME NEW x \in DaemonStates, NEW c \in Configs, NEW o \in nameReady(x, c)
  PROVE  Follows(x, c, o)
<1> DEFINE k == [x EXCEPT !.proc = "killed"]
           n == [x EXCEPT !.monitor = TRUE]
<1>1. /\ k \in DaemonStates /\ k.conn = x.conn /\ k.proc = "killed" /\ k.fw = x.fw
      /\ k.ranges = x.ranges /\ k.routes = x.routes /\ k.monitor = x.monitor
      /\ k.excluded = x.excluded
  BY DEF DaemonStates
<1>2. /\ n \in DaemonStates /\ n.conn = x.conn /\ n.proc = x.proc /\ n.fw = x.fw
      /\ n.ranges = x.ranges /\ n.routes = x.routes /\ n.monitor = TRUE
      /\ n.excluded = x.excluded
  BY DEF DaemonStates
<1>3. o \in Failed(x, c) \/ o \in Failed(k, c) \/ o = Outcome(n, "setup", c, NoConfig)
  BY DEF nameReady
<1> HIDE DEF k, n
<1>4. Reaches(x, k) /\ Reaches(x, n) /\ Reaches(x, x)
  BY <1>1, <1>2, Untouched DEF Reaches
<1>5. ConnOf(x, c, "setup", n)
  BY <1>2 DEF ConnOf
<1>6. QED BY <1>1, <1>3, <1>4, <1>5, FailureFollows, OutcomeFollows DEF Waits

\* The answer to the set-up command, and the firewall (addInterface's end).
LEMMA SetupReplyFollows ==
  ASSUME NEW x \in DaemonStates, NEW c \in Configs, NEW o \in setupReply(x, c)
  PROVE  Follows(x, c, o)
<1> DEFINE y == IF c.ks THEN applyFirewallRules(x, c) ELSE x
<1>1. o \in Failed(x, c) \/ (x.proc = "running" /\ o \in bringUp(y, c))
  BY DEF setupReply
<1>2. CASE o \in Failed(x, c)
  BY <1>2, FailureFollows DEF Reaches
<1>3. CASE x.proc = "running" /\ o \in bringUp(y, c)
  <2>1. Reaches(x, y) /\ y \in DaemonStates /\ y.conn = x.conn
    BY <1>3, ApplyFirewallRulesReaches DEF Reaches
  <2> HIDE DEF y
  <2>2. QED BY <1>3, <2>1, BringUpFollows, FollowsLater
<1>4. QED BY <1>1, <1>2, <1>3

\* The answer to the peer's command, and the rest of the activation (updatePeer).
LEMMA PeerReplyFollows ==
  ASSUME NEW x \in DaemonStates, NEW c \in Configs, NEW o \in peerReply(x, c)
  PROVE  Follows(x, c, o)
<1> DEFINE t == [x EXCEPT !.resolvers = TRUE]
           u == [t EXCEPT !.conn = c, !.date = FALSE]
<1>1. /\ t \in DaemonStates /\ t.conn = x.conn /\ t.proc = x.proc /\ t.fw = x.fw
      /\ t.ranges = x.ranges /\ t.routes = x.routes /\ t.monitor = x.monitor
      /\ t.excluded = x.excluded
  BY DEF DaemonStates
<1>2. /\ u \in DaemonStates /\ u.conn = c /\ u.proc = x.proc /\ u.fw = x.fw
      /\ u.ranges = x.ranges /\ u.routes = x.routes /\ u.monitor = x.monitor
      /\ u.excluded = x.excluded
  BY DEF DaemonStates
<1>3. o \in Failed(x, c) \/ o \in Failed(t, c) \/ o = Outcome(u, "done", c, NoConfig)
  BY DEF peerReply
<1> HIDE DEF t, u
<1>4. Reaches(x, t) /\ Reaches(x, u) /\ Reaches(x, x)
  BY <1>1, <1>2, Untouched DEF Reaches
<1>5. ConnOf(x, c, "done", u)
  BY <1>2 DEF ConnOf, Waits
<1>6. QED BY <1>1, <1>3, <1>4, <1>5, FailureFollows, OutcomeFollows

\* The answer to a server switch (switchServer's end).
LEMMA SwitchReplyFollows ==
  ASSUME NEW x \in DaemonStates, NEW c \in Configs, NEW last, NEW o \in switchReply(x, c, last)
  PROVE  Follows(x, c, o)
<1> DEFINE y == delExclusionRoutes(x, ExcludedAddresses(last))
           t == [y EXCEPT !.conn = c, !.date = FALSE, !.resolvers = FALSE]
           v == [t EXCEPT !.date = x.date]
           u == [t EXCEPT !.resolvers = TRUE]
<1>1. Reaches(x, y) /\ y \in DaemonStates
  BY DelRoutesReach DEF Reaches
<1>2. o \in Failed(x, c) \/ o \in Failed(v, c) \/ o = Outcome(u, "done", c, NoConfig)
  BY DEF switchReply
<1>3. x.date \in BOOLEAN
  BY DEF DaemonStates
<1> HIDE DEF y
<1>4. /\ v \in DaemonStates /\ v.conn = c /\ v.proc = y.proc /\ v.fw = y.fw
      /\ v.ranges = y.ranges /\ v.routes = y.routes /\ v.monitor = y.monitor
      /\ v.excluded = y.excluded
  BY <1>1, <1>3 DEF DaemonStates
<1>5. /\ u \in DaemonStates /\ u.conn = c /\ u.proc = y.proc /\ u.fw = y.fw
      /\ u.ranges = y.ranges /\ u.routes = y.routes /\ u.monitor = y.monitor
      /\ u.excluded = y.excluded
  BY <1>1 DEF DaemonStates
<1> HIDE DEF t, v, u
<1>6. Reaches(x, v) /\ Reaches(x, u) /\ Reaches(x, x)
  BY <1>1, <1>4, <1>5, Untouched, ReachesTwice DEF Reaches
<1>7. ConnOf(x, c, "done", u)
  BY <1>5 DEF ConnOf, Waits
<1>8. QED BY <1>2, <1>4, <1>6, <1>7, FailureFollows, OutcomeFollows

-----------------------------------------------------------------------------
(***************************************************************************)
(* The types, with what the first steps of the proofs need besides.        *)
(***************************************************************************)
Frames == [id : Connections, at : Waits, c : Configs, last : Configs \cup {NoConfig}]
            \cup [id : Connections, at : {"down"}, c : {NoConfig}, last : {NoConfig}]

Commands == [type : {"activate"}, c : Configs] \cup {Status, Deactivate}

Replies == {"status", "connected", "disconnected"}

Controllers ==
  [id : 0 .. MaxAsked, c : Configs \cup {NoConfig},
   state : {"eUnknown", "eInitializing", "eReady"}, retry : 0 .. MAX_CONNECTION_RETRY,
   timer : BOOLEAN, sock : {"no", "open", "dead"},
   shown : {"none", "connecting", "connected", "disconnected"}, wanted : BOOLEAN]

Typed ==
  /\ d \in DaemonStates /\ up \in BOOLEAN /\ cmds \in [Connections -> Seq(Commands)]
  /\ stack \in Seq(Frames) /\ reading \in 0 .. MaxAsked /\ ctl \in Controllers
  /\ replies \in Seq(Replies) /\ asked \in 0 .. MaxAsked /\ untold \in BOOLEAN
  /\ crossed \in BOOLEAN /\ faults \in 0 .. MaxFaults

\* A controller that retries has no socket, one without a socket has nothing to read, and one
\* that shows a connection has been answered.
ControllerInOrder ==
  /\ ctl.timer => ctl.state = "eInitializing" /\ ctl.sock = "no"
  /\ ctl.sock = "no" => replies = <<>>
  /\ ctl.id = 0 => ctl = NoController /\ asked = 0
  /\ ctl.id # 0 => ctl.c \in Configs /\ ctl.state # "eUnknown"
  /\ ctl.id <= asked
  /\ ctl.shown = "connected" => ctl.state = "eReady"

In(st, i)  == \E n \in 1 .. Len(st) : st[n].id = i
Apart(st)  == \A m, n \in 1 .. Len(st) : st[m].id = st[n].id => m = n

\* An activation of i waits; some deactivation waits; one that is its connection's own does.
Acts(st, i) == \E n \in 1 .. Len(st) : st[n].id = i /\ st[n].at # "down"
Tears(st)   == \E n \in 1 .. Len(st) : st[n].at \in {"down", "takeover"}
Downs(st)   == \E n \in 1 .. Len(st) : st[n].at = "down"

\* The activations of i that wait are for c.
Own(st, i, c) == \A n \in 1 .. Len(st) : st[n].id = i /\ st[n].at # "down" => st[n].c = c

\* Inside a deactivation that waits there are only deactivations.
Nested(st) ==
  \A m, n \in 1 .. Len(st) : m < n /\ st[m].at \in {"down", "takeover"} => st[n].at = "down"

\* One more waits, inside the others.
Inside(st, outer, f) ==
  /\ Len(outer) \in Nat /\ Len(st) = Len(outer) + 1 /\ st[Len(outer) + 1] = f
  /\ \A n \in 1 .. Len(outer) : st[n] = outer[n]

\* Only connections that were made have commands or wait, and none waits twice.
ConnectionsInOrder ==
  /\ \A i \in Connections : cmds[i] # <<>> \/ Waiting(i) => i <= asked
  /\ Apart(stack)

SessionOK == Typed /\ ControllerInOrder /\ ConnectionsInOrder

\* Commands are what the client writes.
LEMMA CommandFacts ==
  /\ Status \in Commands /\ Deactivate \in Commands
  /\ \A c \in Configs : Activate(c) \in Commands /\ Activate(c).type = "activate"
                        /\ Activate(c).c = c /\ Activate(c) # Deactivate /\ Activate(c) # Status
  /\ Status # Deactivate /\ Status.type = "status" /\ Deactivate.type = "deactivate"
  /\ \A w \in Commands : /\ w.type = "status" => w = Status
                         /\ w.type = "deactivate" => w = Deactivate
                         /\ w.type = "activate" => w.c \in Configs /\ w = Activate(w.c)
<1>1. /\ Status \in Commands /\ Deactivate \in Commands /\ Status # Deactivate
      /\ Status.type = "status" /\ Deactivate.type = "deactivate"
  BY DEF Commands, Status, Deactivate
<1>2. ASSUME NEW c \in Configs
      PROVE  /\ Activate(c) \in Commands /\ Activate(c).type = "activate"
             /\ Activate(c).c = c /\ Activate(c) # Deactivate /\ Activate(c) # Status
  BY DEF Commands, Activate, Status, Deactivate
<1>3. ASSUME NEW w \in Commands
      PROVE  /\ w.type = "status" => w = Status
             /\ w.type = "deactivate" => w = Deactivate
             /\ w.type = "activate" => w.c \in Configs /\ w = Activate(w.c)
  BY <1>1 DEF Commands, Activate
<1>4. QED BY <1>1, <1>2, <1>3

\* Reading from a queue.
LEMMA TailFacts ==
  ASSUME NEW S, NEW q \in Seq(S), q # <<>>
  PROVE  /\ Tail(q) \in Seq(S) /\ Head(q) = q[1] /\ q[1] \in S /\ Len(q) \in Nat \ {0}
         /\ Len(Tail(q)) = Len(q) - 1 /\ (Tail(q) = <<>> <=> Len(q) = 1)
         /\ \A n \in 1 .. Len(q) - 1 : Tail(q)[n] = q[n + 1]
         /\ Len(q) > 1 => Tail(q)[Len(q) - 1] = q[Len(q)]
<1>1. /\ Tail(q) \in Seq(S) /\ Head(q) = q[1] /\ q[1] \in S /\ Len(q) \in Nat \ {0}
      /\ Len(Tail(q)) = Len(q) - 1
      /\ \A n \in 1 .. Len(q) - 1 : Tail(q)[n] = q[n + 1]
  OBVIOUS
<1>2. Tail(q) = <<>> <=> Len(q) = 1
  BY <1>1, EmptySeq
<1>3. Len(q) > 1 => Tail(q)[Len(q) - 1] = q[Len(q)]
  BY <1>1
<1>4. QED BY <1>1, <1>2, <1>3

\* The activation that waits goes on, from the state that is there or, when it has ended the
\* connection of another, from one without a connection (Daemon's waits, in their order).
LEMMA ResumeFollows ==
  ASSUME NEW x \in DaemonStates, NEW f \in Frames, f.at # "down", NEW o \in resume(x, f)
  PROVE  \E y \in DaemonStates : /\ Reaches(x, y) /\ Follows(y, f.c, o)
                                 /\ f.at = "takeover" => y.conn = NoConfig
                                 /\ f.at # "takeover" => y = x
<1>1. f.at \in Waits /\ f.c \in Configs /\ Reaches(x, x)
  BY DEF Frames, Reaches
<1>2. CASE f.at = "name"
  <2>1. Follows(x, f.c, o)
    BY <1>1, <1>2, NameReadyFollows DEF resume
  <2>2. QED BY <1>1, <1>2, <2>1
<1>3. CASE f.at = "setup"
  <2>1. Follows(x, f.c, o)
    BY <1>1, <1>3, SetupReplyFollows DEF resume
  <2>2. QED BY <1>1, <1>3, <2>1
<1>4. CASE f.at = "peer"
  <2>1. Follows(x, f.c, o)
    BY <1>1, <1>4, PeerReplyFollows DEF resume
  <2>2. QED BY <1>1, <1>4, <2>1
<1>5. CASE f.at = "switch"
  <2>1. Follows(x, f.c, o)
    BY <1>1, <1>5, SwitchReplyFollows DEF resume
  <2>2. QED BY <1>1, <1>5, <2>1
<1>6. CASE f.at = "takeover"
  BY <1>1, <1>6, TakeOverFollows DEF resume
<1>7. QED BY <1>1, <1>2, <1>3, <1>4, <1>5, <1>6 DEF Waits

\* An error of the socket is a retry, or the end (LocalSocketController::errorOccurred).
LEMMA ErrorFacts ==
  ASSUME NEW k \in Controllers
  PROVE  LET e == errorOccurred(k)
         IN  /\ e \in Controllers /\ e.id = k.id /\ e.c = k.c /\ e.sock = k.sock
             /\ e.wanted = k.wanted /\ e.state \in {"eInitializing", "eReady"}
             /\ e.timer => e.state = "eInitializing"
             /\ e.shown = "connected" => k.shown = "connected" /\ k.state = "eInitializing"
<1> DEFINE r == [k EXCEPT !.retry = @ + 1, !.timer = TRUE]
           q == disconnectInternal(k)
<1>1. 0 \in 0 .. MAX_CONNECTION_RETRY /\ k.retry \in 0 .. MAX_CONNECTION_RETRY
      /\ (k.retry < MAX_CONNECTION_RETRY => k.retry + 1 \in 0 .. MAX_CONNECTION_RETRY)
  BY SessionAssumption DEF Controllers
<1>2. k.retry < MAX_CONNECTION_RETRY => r \in Controllers
  BY <1>1 DEF Controllers
<1>3. /\ r.id = k.id /\ r.c = k.c /\ r.sock = k.sock /\ r.wanted = k.wanted
      /\ r.state = k.state /\ r.shown = k.shown
  BY DEF Controllers
<1>4. /\ q \in Controllers /\ q.id = k.id /\ q.c = k.c /\ q.sock = k.sock
      /\ q.wanted = k.wanted /\ q.state = "eReady" /\ q.timer = FALSE
      /\ q.shown = "disconnected"
  BY <1>1 DEF disconnectInternal, Controllers
<1>5. errorOccurred(k) = IF k.state = "eInitializing" /\ k.retry < MAX_CONNECTION_RETRY
                         THEN r ELSE q
  BY DEF errorOccurred
<1> HIDE DEF r, q
<1>6. QED BY <1>2, <1>3, <1>4, <1>5

\* A connection to the service, or an error at once (LocalSocketController::initializeInternal).
LEMMA InitializeFacts ==
  ASSUME NEW k \in Controllers, up \in BOOLEAN
  PROVE  LET e == initializeInternal(k)
         IN  /\ e \in Controllers /\ e.id = k.id /\ e.c = k.c /\ e.wanted = k.wanted
             /\ e.state \in {"eInitializing", "eReady"}
             /\ e.sock = IF up THEN "open" ELSE "no"
             /\ e.timer => e.state = "eInitializing" /\ e.sock = "no"
             /\ up => e.state = "eInitializing" /\ e.shown = k.shown
             /\ e.shown = "connected" => k.shown = "connected"
<1> DEFINE t == [k EXCEPT !.state = "eInitializing", !.timer = FALSE]
           n == [t EXCEPT !.sock = "no"]
           o == [t EXCEPT !.sock = "open"]
<1>1. initializeInternal(k) = IF up THEN o ELSE errorOccurred(n)
  BY DEF initializeInternal
<1>2. /\ o \in Controllers /\ o.id = k.id /\ o.c = k.c /\ o.wanted = k.wanted
      /\ o.state = "eInitializing" /\ o.sock = "open" /\ o.timer = FALSE /\ o.shown = k.shown
  BY DEF Controllers
<1>3. /\ n \in Controllers /\ n.id = k.id /\ n.c = k.c /\ n.wanted = k.wanted
      /\ n.sock = "no" /\ n.shown = k.shown
  BY DEF Controllers
<1> HIDE DEF t, n, o
<1>4. QED BY <1>1, <1>2, <1>3, ErrorFacts

-----------------------------------------------------------------------------
(***************************************************************************)
(* The steps keep the types: the client's.                                 *)
(***************************************************************************)
\* What deactivate writes (LocalSocketController::deactivate).
LEMMA WordsFacts ==
  ASSUME NEW k
  PROVE  /\ Words(k) \in Seq(Commands) /\ <<>> \in Seq(Commands)
         /\ k.state = "eReady" => Words(k) = <<Deactivate>>
         /\ k.state # "eReady" => Words(k) = <<>>
<1>1. <<>> \in Seq(Commands) /\ <<Deactivate>> \in Seq(Commands)
  BY CommandFacts
<1>2. QED BY <1>1 DEF Words

\* A write reaches the controller's own connection, if its socket is open.
LEMMA WriteFacts ==
  ASSUME SessionOK, NEW w \in Seq(Commands), write(w)
  PROVE  /\ cmds' \in [Connections -> Seq(Commands)]
         /\ \A i \in Connections : i # ctl.id => cmds'[i] = cmds[i]
         /\ ctl.sock # "open" => cmds' = cmds
         /\ ctl.sock = "open" => /\ ctl.id \in Connections /\ ctl.id # 0
                                 /\ cmds'[ctl.id] = cmds[ctl.id] \o w
<1>1. cmds \in [Connections -> Seq(Commands)] /\ ctl.id \in 0 .. MaxAsked
  BY DEF SessionOK, Typed, Controllers
<1>2. ctl.sock = "open" => ctl.id \in Connections /\ ctl.id # 0
  BY <1>1 DEF SessionOK, ControllerInOrder, NoController, Connections
<1>3. CASE ctl.sock = "open"
  <2>1. cmds[ctl.id] \o w \in Seq(Commands)
    BY <1>1, <1>2, <1>3, ConcatProperties
  <2>2. QED BY <1>1, <1>2, <1>3, <2>1 DEF write
<1>4. CASE ctl.sock # "open"
  BY <1>1, <1>4 DEF write
<1>5. QED BY <1>2, <1>3, <1>4

\* A new controller and its first commands (a new protocol object).
LEMMA ConnectFacts ==
  ASSUME SessionOK, NEW c \in Configs, Connect(c)
  PROVE  LET new == asked + 1
         IN  /\ new \in Connections /\ asked' = new /\ new # 0 /\ new # ctl.id
             /\ ctl' \in Controllers /\ ctl'.id = new /\ ctl'.c = c /\ ctl'.wanted = TRUE
             /\ ctl'.state \in {"eInitializing", "eReady"} /\ ctl'.shown # "connected"
             /\ ctl'.timer => ctl'.state = "eInitializing" /\ ctl'.sock = "no"
             /\ (ctl'.sock = "open") = up /\ (up => ctl'.state = "eInitializing")
             /\ replies' = <<>> /\ untold' = (untold \/ Silent(ctl) \/ ~up)
             /\ UNCHANGED <<d, up, stack, reading, crossed, faults>>
             /\ cmds' \in [Connections -> Seq(Commands)]
             /\ \A i \in Connections : i # new /\ i # ctl.id => cmds'[i] = cmds[i]
             /\ up => cmds'[new] = <<Status, Activate(c)>>
             /\ ~up => cmds'[new] = cmds[new]
             /\ ctl.sock = "open" => /\ ctl.id \in Connections
                                     /\ cmds'[ctl.id] = cmds[ctl.id] \o Words(ctl) \o Words(ctl)
             /\ ctl.sock # "open" /\ ctl.id # 0 => cmds'[ctl.id] = cmds[ctl.id]
<1> DEFINE k0  == [NoController EXCEPT !.id = asked + 1, !.c = c, !.wanted = TRUE]
           k   == initializeInternal(k0)
           new == asked + 1
           old == IF ctl.sock = "open" THEN [cmds EXCEPT ![ctl.id] = @ \o Words(ctl) \o Words(ctl)]
                  ELSE cmds
<1>1. /\ cmds \in [Connections -> Seq(Commands)] /\ ctl.id \in 0 .. MaxAsked /\ up \in BOOLEAN
      /\ asked \in 0 .. MaxAsked /\ asked < MaxAsked /\ ctl.id <= asked /\ MaxAsked \in Nat
  BY SessionAssumption DEF SessionOK, ControllerInOrder, Typed, Controllers, Connect
<1>2. new \in Connections /\ new # 0 /\ new # ctl.id /\ new \in 0 .. MaxAsked
  BY <1>1 DEF Connections
<1>3. /\ k0 \in Controllers /\ k0.id = new /\ k0.c = c /\ k0.wanted = TRUE /\ k0.shown = "none"
  <2>1. 0 \in 0 .. MAX_CONNECTION_RETRY
    BY SessionAssumption
  <2>2. NoController \in Controllers /\ NoController.shown = "none"
    BY <1>1, <2>1 DEF NoController, Controllers
  <2> HIDE DEF new
  <2>3. QED BY <1>2, <2>2 DEF Controllers, new
<1>4. /\ ctl' = IF k.shown = "disconnected" THEN k ELSE [k EXCEPT !.shown = "connecting"]
      /\ cmds' = IF k.sock = "open" THEN [old EXCEPT ![new] = <<Status, Activate(c)>>] ELSE old
      /\ untold' = (untold \/ Silent(ctl) \/ k.sock # "open")
      /\ replies' = <<>> /\ asked' = new
      /\ UNCHANGED <<d, up, stack, reading, crossed, faults>>
  BY DEF Connect
<1> HIDE DEF k0
<1>5. /\ k \in Controllers /\ k.id = new /\ k.c = c /\ k.wanted = TRUE
      /\ k.state \in {"eInitializing", "eReady"}
      /\ k.sock = (IF up THEN "open" ELSE "no")
      /\ k.timer => k.state = "eInitializing" /\ k.sock = "no"
      /\ up => k.state = "eInitializing"
      /\ k.shown # "connected"
  BY <1>1, <1>3, InitializeFacts
<1> HIDE DEF k
<1>6. /\ ctl' \in Controllers /\ ctl'.id = new /\ ctl'.c = c /\ ctl'.wanted = TRUE
      /\ ctl'.state = k.state /\ ctl'.shown # "connected" /\ ctl'.timer = k.timer
      /\ ctl'.sock = k.sock
  BY <1>4, <1>5 DEF Controllers
<1>7. ctl.sock = "open" => ctl.id \in Connections
  BY <1>1 DEF SessionOK, ControllerInOrder, NoController, Connections
<1>8. /\ old \in [Connections -> Seq(Commands)]
      /\ \A i \in Connections : i # ctl.id => old[i] = cmds[i]
      /\ ctl.sock = "open" => old[ctl.id] = cmds[ctl.id] \o Words(ctl) \o Words(ctl)
      /\ ctl.sock # "open" => old = cmds
  <2>1. CASE ctl.sock = "open"
    <3>1. cmds[ctl.id] \o Words(ctl) \o Words(ctl) \in Seq(Commands)
      BY <1>1, <1>7, <2>1, WordsFacts, ConcatProperties
    <3>2. QED BY <1>1, <1>7, <2>1, <3>1
  <2>2. CASE ctl.sock # "open"
    BY <1>1, <2>2
  <2>3. QED BY <2>1, <2>2
<1> HIDE DEF old
<1>9. <<Status, Activate(c)>> \in Seq(Commands)
  BY CommandFacts
<1>10. /\ cmds' \in [Connections -> Seq(Commands)]
       /\ \A i \in Connections : i # new => cmds'[i] = old[i]
       /\ up => cmds'[new] = <<Status, Activate(c)>>
       /\ ~up => cmds' = old
  BY <1>1, <1>2, <1>4, <1>5, <1>8, <1>9
<1>11. ctl.id # 0 => ctl.id \in Connections
  BY <1>1 DEF Connections
<1>12. QED BY <1>1, <1>2, <1>4, <1>5, <1>6, <1>7, <1>8, <1>10, <1>11

\* The client's requests keep the types.
LEMMA RequestTypes ==
  ASSUME SessionOK, Request
  PROVE  SessionOK'
<1>0. /\ Typed /\ ControllerInOrder /\ ConnectionsInOrder /\ asked \in 0 .. MaxAsked
      /\ MaxAsked \in Nat /\ untold \in BOOLEAN /\ ctl \in Controllers
      /\ ctl.id \in 0 .. MaxAsked
  BY SessionAssumption DEF SessionOK, Typed, Controllers
<1>1. ASSUME NEW c \in Configs, Connect(c) PROVE SessionOK'
  <2>0. untold' = (untold \/ Silent(ctl) \/ ~up) /\ asked' = asked + 1
        /\ asked + 1 \in Connections /\ ctl'.id = asked + 1 /\ ctl'.c = c /\ replies' = <<>>
        /\ ctl'.state \in {"eInitializing", "eReady"} /\ ctl'.shown # "connected"
        /\ (ctl'.timer => ctl'.state = "eInitializing" /\ ctl'.sock = "no")
    BY <1>1, ConnectFacts, Zenon
  <2>1. asked' \in 0 .. MaxAsked /\ asked' = asked + 1 /\ untold' \in BOOLEAN
        /\ <<>> \in Seq(Replies)
    BY <1>0, <2>0 DEF Connections
  <2>2. Typed'
    BY <1>0, <1>1, <2>1, ConnectFacts DEF Typed
  <2>3. ControllerInOrder'
    BY <1>0, <2>0, <2>1 DEF ControllerInOrder
  <2>4. ASSUME NEW i \in Connections, cmds'[i] # <<>> \/ Waiting(i)' PROVE i <= asked'
    <3>1. Waiting(i)' <=> Waiting(i)
      BY <1>1, ConnectFacts DEF Waiting
    <3>2. i \in Nat
      BY <1>0 DEF Connections
    <3>3. CASE i = asked + 1 \/ i = ctl.id
      BY <1>0, <2>1, <3>3 DEF ControllerInOrder
    <3>4. CASE i # asked + 1 /\ i # ctl.id
      <4>1. cmds'[i] = cmds[i]
        BY <1>1, <3>4, ConnectFacts
      <4>2. i <= asked
        BY <1>0, <2>4, <3>1, <4>1 DEF ConnectionsInOrder
      <4>3. QED BY <1>0, <2>1, <3>2, <4>2
    <3>5. QED BY <3>3, <3>4
  <2>5. stack' = stack
    BY <1>1, ConnectFacts
  <2>6. Apart(stack')
    BY <1>0, <2>5 DEF ConnectionsInOrder
  <2>7. QED BY <2>2, <2>3, <2>4, <2>6 DEF SessionOK, ConnectionsInOrder
<1>2. ASSUME NEW w \in Seq(Commands), write(w), ctl' \in Controllers, ctl'.id = ctl.id,
             ctl'.timer = ctl.timer, ctl'.state = ctl.state, ctl'.sock = ctl.sock,
             ctl'.c = ctl.c, ctl.id # 0,
             ctl'.shown = "connected" => ctl.shown = "connected",
             asked' \in 0 .. MaxAsked, asked <= asked', untold' \in BOOLEAN,
             UNCHANGED <<d, up, stack, reading, replies, crossed, faults>>
      PROVE  SessionOK'
  <2>1. Typed'
    BY <1>0, <1>2, WriteFacts DEF Typed
  <2>2. ControllerInOrder'
    BY <1>0, <1>2 DEF ControllerInOrder
  <2>3. ASSUME NEW i \in Connections, cmds'[i] # <<>> \/ Waiting(i)' PROVE i <= asked'
    <3>1. Waiting(i)' <=> Waiting(i)
      BY <1>2 DEF Waiting
    <3>2. i \in Nat
      BY <1>0 DEF Connections
    <3>3. CASE i = ctl.id
      BY <1>0, <1>2, <3>3 DEF ControllerInOrder
    <3>4. CASE i # ctl.id
      <4>1. cmds'[i] = cmds[i]
        BY <1>2, <3>4, WriteFacts
      <4>2. i <= asked
        BY <1>0, <2>3, <3>1, <4>1 DEF ConnectionsInOrder
      <4>3. QED BY <1>0, <1>2, <3>2, <4>2
    <3>5. QED BY <3>3, <3>4
  <2>4. Apart(stack')
    BY <1>0, <1>2 DEF ConnectionsInOrder
  <2>5. QED BY <2>1, <2>2, <2>3, <2>4 DEF SessionOK, ConnectionsInOrder
<1>3. CASE Reconnect
  <2>1. ctl.shown = "connected" /\ ctl.id # 0 /\ ctl.c \in Configs
    BY <1>0, <1>3 DEF Reconnect, ControllerInOrder, NoController
  <2>2. Words(ctl) \o <<Activate(ctl.c)>> \in Seq(Commands)
    <3>1. Activate(ctl.c) \in Commands
      BY <2>1, CommandFacts
    <3>2. <<Activate(ctl.c)>> \in Seq(Commands)
      BY <3>1
    <3>3. QED BY <3>2, WordsFacts, ConcatProperties
  <2>3. asked' \in 0 .. MaxAsked /\ asked <= asked' /\ untold' \in BOOLEAN
    BY <1>0, <1>3 DEF Reconnect
  <2>4. /\ ctl' \in Controllers /\ ctl'.id = ctl.id /\ ctl'.timer = ctl.timer
        /\ ctl'.state = ctl.state /\ ctl'.sock = ctl.sock /\ ctl'.c = ctl.c
        /\ ctl'.shown = "connecting"
    BY <1>0, <1>3 DEF Reconnect, Controllers
  <2>5. write(Words(ctl) \o <<Activate(ctl.c)>>)
        /\ UNCHANGED <<d, up, stack, reading, replies, crossed, faults>>
    BY <1>3 DEF Reconnect
  <2>6. QED BY <1>2, <2>1, <2>2, <2>3, <2>4, <2>5
<1>4. CASE Disconnect
  <2>1. ctl.wanted /\ ctl.id # 0
    BY <1>0, <1>4 DEF Disconnect, ControllerInOrder, NoController
  <2>2. asked' \in 0 .. MaxAsked /\ asked <= asked' /\ untold' \in BOOLEAN
    BY <1>0, <1>4 DEF Disconnect
  <2>3. /\ ctl' \in Controllers /\ ctl'.id = ctl.id /\ ctl'.timer = ctl.timer
        /\ ctl'.state = ctl.state /\ ctl'.sock = ctl.sock /\ ctl'.c = ctl.c
        /\ ctl'.shown = "disconnected"
    BY <1>0, <1>4 DEF Disconnect, Controllers
  <2>4. write(Words(ctl)) /\ UNCHANGED <<d, up, stack, reading, replies, crossed, faults>>
    BY <1>4 DEF Disconnect
  <2>5. QED BY <1>2, <2>1, <2>2, <2>3, <2>4, WordsFacts
<1>5. QED
  <2>1. \A h \in Hosts : [host |-> h, split |-> 0, ks |-> TRUE] \in Configs
    BY DEF Configs
  <2>2. QED BY <1>1, <1>3, <1>4, <2>1 DEF Request

\* The client's reactions keep the types (initializingTimer, errorOccurred, parseCommand).
LEMMA ClientTypes ==
  ASSUME SessionOK, ClientStep
  PROVE  SessionOK'
<1>0. /\ Typed /\ ControllerInOrder /\ ConnectionsInOrder /\ ctl \in Controllers
      /\ up \in BOOLEAN /\ cmds \in [Connections -> Seq(Commands)]
      /\ ctl.id \in 0 .. MaxAsked /\ MaxAsked \in Nat /\ replies \in Seq(Replies)
  BY SessionAssumption DEF SessionOK, Typed, Controllers
<1>1. CASE InitializingTimer
  <2>1. ctl.timer /\ ctl.id # 0 /\ ctl.id \in Connections /\ ctl.shown # "connected"
    BY <1>0, <1>1 DEF InitializingTimer, ControllerInOrder, NoController, Connections
  <2>2. /\ ctl' = initializeInternal(ctl)
        /\ cmds' = IF up THEN [cmds EXCEPT ![ctl.id] = <<Status>>] ELSE cmds
        /\ UNCHANGED <<d, up, stack, reading, replies, asked, untold, crossed, faults>>
    BY <1>1 DEF InitializingTimer
  <2>3. /\ ctl' \in Controllers /\ ctl'.id = ctl.id /\ ctl'.c = ctl.c
        /\ ctl'.state \in {"eInitializing", "eReady"}
        /\ ctl'.timer => ctl'.state = "eInitializing" /\ ctl'.sock = "no"
        /\ ctl'.shown # "connected"
    BY <1>0, <2>1, <2>2, InitializeFacts
  <2>4. <<Status>> \in Seq(Commands)
    BY CommandFacts
  <2>5. /\ cmds' \in [Connections -> Seq(Commands)]
        /\ \A i \in Connections : i # ctl.id => cmds'[i] = cmds[i]
    BY <1>0, <2>1, <2>2, <2>4
  <2>6. Typed'
    BY <1>0, <2>2, <2>3, <2>5 DEF Typed
  <2>7. ControllerInOrder'
    BY <1>0, <2>1, <2>2, <2>3 DEF ControllerInOrder
  <2>8. ConnectionsInOrder'
    BY <1>0, <2>1, <2>2, <2>5 DEF ConnectionsInOrder, ControllerInOrder, Waiting
  <2>9. QED BY <2>6, <2>7, <2>8 DEF SessionOK
<1>2. ASSUME ctl' \in Controllers, ctl'.id = ctl.id, ctl'.c = ctl.c, ctl.id # 0,
             ctl'.timer => ctl'.state = "eInitializing" /\ ctl'.sock = "no",
             ctl'.state # "eUnknown", ctl'.shown = "connected" => ctl'.state = "eReady",
             replies' \in Seq(Replies), ctl'.sock = "no" => replies' = <<>>,
             UNCHANGED <<d, up, cmds, stack, reading, asked, untold, crossed, faults>>
      PROVE  SessionOK'
  <2>1. Typed'
    BY <1>0, <1>2 DEF Typed
  <2>2. ControllerInOrder'
    BY <1>0, <1>2 DEF ControllerInOrder
  <2>3. ConnectionsInOrder'
    BY <1>0, <1>2 DEF ConnectionsInOrder, Waiting
  <2>4. QED BY <2>1, <2>2, <2>3 DEF SessionOK
<1>3. CASE PeerClosed
  <2> DEFINE k == [ctl EXCEPT !.sock = "no"]
             e == errorOccurred(k)
  <2>1. /\ k \in Controllers /\ k.id = ctl.id /\ k.c = ctl.c /\ k.sock = "no"
        /\ k.shown = ctl.shown /\ k.state = ctl.state
    BY <1>0 DEF Controllers
  <2>2. /\ ctl' = errorOccurred(e) /\ ctl.sock = "dead" /\ replies' = replies /\ replies = <<>>
        /\ UNCHANGED <<d, up, cmds, stack, reading, asked, untold, crossed, faults>>
    BY <1>3 DEF PeerClosed
  <2> HIDE DEF k
  <2>3. /\ e \in Controllers /\ e.id = ctl.id /\ e.c = ctl.c /\ e.sock = "no"
        /\ e.shown # "connected"
    BY <1>0, <2>1, ErrorFacts DEF ControllerInOrder
  <2> HIDE DEF e
  <2>4. ctl.id # 0
    BY <1>0, <2>2 DEF ControllerInOrder, NoController
  <2>5. /\ ctl' \in Controllers /\ ctl'.id = ctl.id /\ ctl'.c = ctl.c
        /\ ctl'.timer => ctl'.state = "eInitializing" /\ ctl'.sock = "no"
        /\ ctl'.state \in {"eInitializing", "eReady"} /\ ctl'.shown # "connected"
    BY <2>2, <2>3, ErrorFacts
  <2>6. QED BY <1>0, <1>2, <2>2, <2>4, <2>5
<1>4. CASE ReadReply
  <2>1. /\ replies # <<>> /\ ctl' = parseCommand(ctl, Head(replies)) /\ replies' = Tail(replies)
        /\ UNCHANGED <<d, up, cmds, stack, reading, asked, untold, crossed, faults>>
    BY <1>4 DEF ReadReply
  <2>2. Head(replies) \in Replies /\ replies' \in Seq(Replies)
    BY <1>0, <2>1, TailFacts
  <2>a. ctl.sock # "no" /\ ~ctl.timer
    BY <1>0, <2>1 DEF ControllerInOrder
  <2>3. ctl.id # 0 /\ ctl.state \in {"eInitializing", "eReady"}
    BY <1>0, <2>1, <2>a DEF ControllerInOrder, Controllers, NoController
  <2>4. 0 \in 0 .. MAX_CONNECTION_RETRY
    BY SessionAssumption
  <2> DEFINE r == [ctl EXCEPT !.state = "eReady"]
             q == disconnectInternal(ctl)
             s == [ctl EXCEPT !.shown = "connected"]
  <2>5. /\ r \in Controllers /\ r.id = ctl.id /\ r.c = ctl.c /\ r.timer = ctl.timer
        /\ r.state = "eReady" /\ r.sock = ctl.sock /\ r.shown = ctl.shown
    BY <1>0 DEF Controllers
  <2>6. /\ q \in Controllers /\ q.id = ctl.id /\ q.c = ctl.c /\ q.timer = FALSE
        /\ q.state = "eReady" /\ q.sock = ctl.sock /\ q.shown = "disconnected"
    BY <1>0, <2>4 DEF Controllers, disconnectInternal
  <2>7. /\ s \in Controllers /\ s.id = ctl.id /\ s.c = ctl.c /\ s.timer = ctl.timer
        /\ s.state = ctl.state /\ s.sock = ctl.sock
    BY <1>0 DEF Controllers
  <2>8. \/ ctl' = ctl
        \/ ctl.state = "eInitializing" /\ ctl' = r
        \/ ctl.state = "eReady" /\ ctl' = q
        \/ ctl.state = "eReady" /\ ctl' = s
    BY <2>1, <2>3 DEF parseCommand
  <2> HIDE DEF r, q, s
  <2>9. /\ ctl' \in Controllers /\ ctl'.id = ctl.id /\ ctl'.c = ctl.c /\ ~ctl'.timer
        /\ ctl'.state \in {"eInitializing", "eReady"} /\ ctl'.sock = ctl.sock
        /\ ctl'.shown = "connected" => ctl'.state = "eReady"
    BY <1>0, <2>a, <2>3, <2>5, <2>6, <2>7, <2>8 DEF ControllerInOrder
  <2>10. QED BY <1>2, <2>a, <2>1, <2>2, <2>3, <2>9
<1>5. QED BY <1>1, <1>3, <1>4 DEF ClientStep

-----------------------------------------------------------------------------
(***************************************************************************)
(* The steps keep the types: the daemon's.                                 *)
(***************************************************************************)
\* The next command of a connection (DaemonLocalServerConnection::readData).
LEMMA ReadFacts ==
  ASSUME SessionOK, NEW i \in Connections, Read(i), ReadOn(i) \/ reading' = 0
  PROVE  /\ up /\ cmds[i] # <<>> /\ cmds[i] \in Seq(Commands) /\ ~Waiting(i)
         /\ cmds' \in [Connections -> Seq(Commands)] /\ cmds'[i] = Tail(cmds[i])
         /\ Head(cmds[i]) = cmds[i][1] /\ cmds[i][1] \in Commands
         /\ \A j \in Connections : j # i => cmds'[j] = cmds[j]
         /\ \A j \in Connections : cmds'[j] # <<>> => cmds[j] # <<>>
         /\ reading' \in 0 .. MaxAsked
<1>1. cmds \in [Connections -> Seq(Commands)] /\ MaxAsked \in Nat /\ i \in 0 .. MaxAsked
      /\ 0 \in 0 .. MaxAsked
  BY SessionAssumption DEF SessionOK, Typed, Connections
<1>2. up /\ cmds[i] # <<>> /\ ~Waiting(i) /\ cmds' = [cmds EXCEPT ![i] = Tail(@)]
  BY DEF Read, Readable, Unread
<1>3. cmds[i] \in Seq(Commands) /\ Tail(cmds[i]) \in Seq(Commands)
      /\ Head(cmds[i]) = cmds[i][1] /\ cmds[i][1] \in Commands
  BY <1>1, <1>2, TailFacts
<1>4. /\ cmds' \in [Connections -> Seq(Commands)] /\ cmds'[i] = Tail(cmds[i])
      /\ \A j \in Connections : j # i => cmds'[j] = cmds[j]
  BY <1>1, <1>2, <1>3
<1>5. reading' \in 0 .. MaxAsked
  BY <1>1 DEF ReadOn
<1>6. QED BY <1>2, <1>3, <1>4, <1>5

\* Replies go to the controller whose socket is open.
LEMMA ReplyFacts ==
  ASSUME SessionOK, NEW m \in Replies, NEW i
  PROVE  /\ Append(replies, m) \in Seq(Replies) /\ replies \in Seq(Replies)
         /\ broadcast(m) \in Seq(Replies) /\ (ctl.sock = "no" => broadcast(m) = replies)
         /\ (ctl.sock = "no" => replies = <<>> /\ ~Live(i))
<1>1. replies \in Seq(Replies)
  BY DEF SessionOK, Typed
<1>2. QED BY <1>1 DEF SessionOK, ControllerInOrder, broadcast, Live

\* What the steps of the daemon have in common.
LEMMA DaemonShape ==
  ASSUME SessionOK, d' \in DaemonStates, up' \in BOOLEAN, untold' \in BOOLEAN,
         crossed' \in BOOLEAN,
         cmds' \in [Connections -> Seq(Commands)], reading' \in 0 .. MaxAsked,
         \A i \in Connections : cmds'[i] # <<>> => cmds[i] # <<>>,
         stack' \in Seq(Frames), Apart(stack'),
         \A i \in Connections : Waiting(i)' => Waiting(i) \/ cmds[i] # <<>>,
         replies' \in Seq(Replies), ctl.sock = "no" => replies' = <<>>,
         UNCHANGED <<ctl, asked, faults>>
  PROVE  SessionOK'
<1>1. Typed'
  BY DEF SessionOK, Typed
<1>2. ControllerInOrder'
  BY DEF SessionOK, ControllerInOrder
<1>3. ConnectionsInOrder'
  BY DEF SessionOK, ConnectionsInOrder
<1>4. QED BY <1>1, <1>2, <1>3 DEF SessionOK

\* What one more that waits adds.
LEMMA InsideFacts ==
  ASSUME NEW st, NEW outer, NEW f, Inside(st, outer, f)
  PROVE  /\ \A j : In(st, j) <=> In(outer, j) \/ j = f.id
         /\ \A j : Acts(st, j) <=> Acts(outer, j) \/ (j = f.id /\ f.at # "down")
         /\ Tears(st) <=> Tears(outer) \/ f.at \in {"down", "takeover"}
         /\ Downs(st) <=> Downs(outer) \/ f.at = "down"
         /\ \A j, c : Own(st, j, c) <=> Own(outer, j, c) /\ (j = f.id /\ f.at # "down" => f.c = c)
         /\ Nested(st) <=> Nested(outer) /\ (Tears(outer) => f.at = "down")
         /\ Apart(st) <=> Apart(outer) /\ ~In(outer, f.id)
<1> DEFINE L == Len(outer)
<1>1. /\ L \in Nat /\ Len(st) = L + 1 /\ st[L + 1] = f
      /\ \A n \in 1 .. L : st[n] = outer[n]
  BY DEF Inside
<1> HIDE DEF L
<1>2. /\ L + 1 \in 1 .. Len(st)
      /\ \A n \in 1 .. L : n \in 1 .. Len(st) /\ n < L + 1
      /\ \A n \in 1 .. Len(st) : n \in 1 .. L \/ n = L + 1
      /\ \A n \in 1 .. Len(st) : ~(L + 1 < n)
  BY <1>1
<1>3. \A j : In(st, j) <=> In(outer, j) \/ j = f.id
  BY <1>1, <1>2 DEF In, L
<1>4. \A j : Acts(st, j) <=> Acts(outer, j) \/ (j = f.id /\ f.at # "down")
  BY <1>1, <1>2 DEF Acts, L
<1>5. Tears(st) <=> Tears(outer) \/ f.at \in {"down", "takeover"}
  BY <1>1, <1>2 DEF Tears, L
<1>6. Downs(st) <=> Downs(outer) \/ f.at = "down"
  BY <1>1, <1>2 DEF Downs, L
<1>7. \A j, c : Own(st, j, c) <=> Own(outer, j, c) /\ (j = f.id /\ f.at # "down" => f.c = c)
  BY <1>1, <1>2 DEF Own, L
<1>8. Nested(st) <=> Nested(outer) /\ (Tears(outer) => f.at = "down")
  <2>1. Nested(st) => Nested(outer) /\ (Tears(outer) => f.at = "down")
    BY <1>1, <1>2 DEF Nested, Tears, L
  <2>2. ASSUME Nested(outer), Tears(outer) => f.at = "down",
               NEW m \in 1 .. Len(st), NEW n \in 1 .. Len(st), m < n,
               st[m].at \in {"down", "takeover"}
        PROVE  st[n].at = "down"
    <3>1. m \in 1 .. L /\ st[m] = outer[m]
      BY <1>1, <1>2, <2>2
    <3>2. CASE n = L + 1
      BY <1>1, <2>2, <3>1, <3>2 DEF Tears, L
    <3>3. CASE n \in 1 .. L
      BY <1>1, <2>2, <3>1, <3>3 DEF Nested, L
    <3>4. QED BY <1>2, <3>2, <3>3
  <2>3. QED BY <2>1, <2>2 DEF Nested
<1>9. Apart(st) <=> Apart(outer) /\ ~In(outer, f.id)
  <2>1. ASSUME Apart(st) PROVE Apart(outer)
    BY <1>1, <1>2, <2>1 DEF Apart, L
  <2>2. ASSUME Apart(st), In(outer, f.id) PROVE FALSE
    <3>1. PICK n \in 1 .. L : st[n].id = st[L + 1].id
      BY <1>1, <2>2 DEF In, L
    <3>2. n \in 1 .. Len(st) /\ n < L + 1
      BY <1>2
    <3>3. n = L + 1
      BY <1>2, <2>2, <3>1, <3>2 DEF Apart
    <3>4. QED BY <1>1, <3>2, <3>3
  <2>3. ASSUME Apart(outer), ~In(outer, f.id),
               NEW m \in 1 .. Len(st), NEW n \in 1 .. Len(st), st[m].id = st[n].id
        PROVE  m = n
    <3>1. CASE m \in 1 .. L /\ n \in 1 .. L
      BY <1>1, <2>3, <3>1 DEF Apart, L
    <3>2. CASE m = L + 1 /\ n \in 1 .. L
      BY <1>1, <2>3, <3>2 DEF In, L
    <3>3. CASE m \in 1 .. L /\ n = L + 1
      BY <1>1, <2>3, <3>3 DEF In, L
    <3>4. QED BY <1>2, <3>1, <3>2, <3>3
  <2>4. QED BY <2>1, <2>2, <2>3 DEF Apart
<1>10. QED BY <1>3, <1>4, <1>5, <1>6, <1>7, <1>8, <1>9

\* What waits is put inside the others.
LEMMA AppendInside ==
  ASSUME NEW outer \in Seq(Frames), NEW f \in Frames
  PROVE  Append(outer, f) \in Seq(Frames) /\ Inside(Append(outer, f), outer, f)
BY AppendProperties DEF Inside

\* Where an activation is left (Continue).
LEMMA ContinueFacts ==
  ASSUME SessionOK, NEW i \in Connections, NEW o, NEW c \in Configs, NEW x, Follows(x, c, o),
         NEW outer \in Seq(Frames), Apart(outer), ~In(outer, i), Continue(i, o, outer)
  PROVE  /\ d' = o.s /\ d' \in DaemonStates /\ stack' \in Seq(Frames) /\ Apart(stack')
         /\ o.at \notin Waits => stack' = outer /\ ReadOn(i)
         /\ o.at \in Waits => /\ reading' = 0
                              /\ \E f : /\ Inside(stack', outer, f) /\ f.id = i /\ f.at = o.at
                                        /\ f.at # "down" /\ f.c = c
         /\ \A j : In(stack', j) => In(outer, j) \/ j = i
         /\ replies' = IF o.at = "failed" /\ Live(i) THEN Append(replies, "disconnected") ELSE replies
         /\ replies' \in Seq(Replies) /\ (ctl.sock = "no" => replies' = <<>>)
         /\ UNCHANGED <<up, ctl, asked, untold, faults>>
<1> DEFINE f == [id |-> i, at |-> o.at, c |-> o.c, last |-> o.last]
<1>1. /\ d' = o.s /\ UNCHANGED <<up, ctl, asked, untold, faults>>
      /\ IF o.at \in {"done", "failed"} THEN stack' = outer /\ ReadOn(i)
         ELSE stack' = Append(outer, f) /\ reading' = 0
      /\ replies' = IF o.at = "failed" /\ Live(i) THEN Append(replies, "disconnected") ELSE replies
  BY DEF Continue
<1>2. /\ o.s \in DaemonStates /\ o.c = c /\ o.last \in Configs \cup {NoConfig}
      /\ o.at \in Waits <=> o.at \notin {"done", "failed"}
  BY DEF Follows, Reaches, Waits
<1>3. replies' \in Seq(Replies) /\ (ctl.sock = "no" => replies' = <<>>)
  BY <1>1, ReplyFacts DEF Replies
<1>4. CASE o.at \notin Waits
  <2>1. stack' = outer /\ ReadOn(i)
    BY <1>1, <1>2, <1>4
  <2>2. QED BY <1>1, <1>2, <1>3, <1>4, <2>1
<1>5. CASE o.at \in Waits
  <2>1. f \in Frames /\ f.id = i /\ f.c = c /\ f.at = o.at /\ f.at # "down"
    BY <1>2, <1>5 DEF Frames, Waits
  <2> HIDE DEF f
  <2>2. stack' \in Seq(Frames) /\ Inside(stack', outer, f) /\ reading' = 0
    BY <1>1, <1>2, <1>5, <2>1, AppendInside
  <2>3. Apart(stack') /\ \A j : In(stack', j) => In(outer, j) \/ j = i
    BY <2>1, <2>2, InsideFacts
  <2>4. QED BY <1>1, <1>2, <1>3, <1>5, <2>1, <2>2, <2>3
<1>6. QED BY <1>4, <1>5

\* Where a deactivation is left (Retire): nothing remains, or it waits.
LEMMA RetireFacts ==
  ASSUME SessionOK, NEW i \in Connections, ~Waiting(i), Retire(i, deactivateFirst(d))
  PROVE  /\ d' \in DaemonStates /\ Reaches(d, d') /\ stack' \in Seq(Frames) /\ Apart(stack')
         /\ ReadOn(i) \/ reading' = 0
         /\ \A j : In(stack', j) => In(stack, j) \/ j = i
         /\ \/ stack' = stack /\ (Tidy(d) => d' = freshService)
            \/ /\ d'.resolvers = FALSE
               /\ \E f : Inside(stack', stack, f) /\ f.id = i /\ f.at = "down"
         /\ UNCHANGED <<up, ctl, asked, untold, crossed, faults>>
<1> DEFINE o == deactivateFirst(d)
           f == [id |-> i, at |-> o.at, c |-> o.c, last |-> o.last]
<1>1. d \in DaemonStates /\ stack \in Seq(Frames) /\ Apart(stack) /\ ~In(stack, i)
  BY DEF SessionOK, Typed, ConnectionsInOrder, Waiting, In
<1>2. /\ Reaches(d, o.s) /\ o.s \in DaemonStates
      /\ o.at \in {"done", "down"} /\ o.c = NoConfig /\ o.last = NoConfig
      /\ o.at = "done" /\ Tidy(d) => o.s = freshService
      /\ o.at = "down" => o.s.resolvers = FALSE
  BY <1>1, DeactivateFirstFacts
<1>3. /\ d' = o.s /\ UNCHANGED <<up, ctl, asked, untold, crossed, faults>>
      /\ IF o.at = "done" THEN ReadOn(i) /\ stack' = stack
         ELSE stack' = Append(stack, f) /\ reading' = 0
  BY DEF Retire
<1> HIDE DEF o
<1>4. CASE o.at = "done"
  BY <1>1, <1>2, <1>3, <1>4
<1>5. CASE o.at = "down"
  <2>1. f \in Frames /\ f.id = i /\ f.at = "down"
    BY <1>2, <1>5 DEF Frames
  <2> HIDE DEF f
  <2>2. stack' \in Seq(Frames) /\ Inside(stack', stack, f) /\ reading' = 0
    BY <1>1, <1>3, <1>5, <2>1, AppendInside
  <2>3. Apart(stack') /\ \A j : In(stack', j) => In(stack, j) \/ j = i
    BY <1>1, <2>1, <2>2, InsideFacts
  <2>4. QED BY <1>2, <1>3, <1>5, <2>1, <2>2, <2>3
<1>6. QED BY <1>2, <1>4, <1>5

\* What waits outside the innermost one.
LEMMA OuterFacts ==
  ASSUME SessionOK, stack # <<>>
  PROVE  LET n     == Len(stack)
             outer == SubSeq(stack, 1, n - 1)
         IN  /\ stack[n] \in Frames /\ stack[n].id \in Connections
             /\ stack[n].at # "down" => stack[n].c \in Configs
             /\ outer \in Seq(Frames) /\ Inside(stack, outer, stack[n])
             /\ Apart(outer) /\ ~In(outer, stack[n].id)
             /\ \A j : In(stack, j) <=> In(outer, j) \/ j = stack[n].id
<1> DEFINE n     == Len(stack)
           outer == SubSeq(stack, 1, n - 1)
<1>1. stack \in Seq(Frames) /\ n \in Nat /\ n \in 1 .. n /\ Apart(stack)
  BY EmptySeq, LenProperties DEF SessionOK, Typed, ConnectionsInOrder
<1>2. \A m \in 1 .. n : stack[m] \in Frames
  BY <1>1, ElementOfSeq
<1>3. /\ stack[n].id \in Connections
      /\ stack[n].at # "down" => stack[n].c \in Configs
  BY <1>1, <1>2 DEF Frames
<1> HIDE DEF n
<1>4. /\ outer \in Seq(Frames) /\ Len(outer) = n - 1
      /\ \A m \in 1 .. n - 1 : outer[m] = stack[m]
  <2>1. \A m \in 1 .. n - 1 : stack[m] \in Frames
    BY <1>1, <1>2
  <2>2. /\ outer \in Seq(Frames) /\ Len(outer) = IF 1 <= n - 1 THEN n - 1 - 1 + 1 ELSE 0
        /\ \A m \in 1 .. n - 1 - 1 + 1 : outer[m] = stack[1 + m - 1]
    BY <1>1, <2>1, SubSeqProperties
  <2> HIDE DEF outer
  <2>3. QED BY <1>1, <2>2
<1> HIDE DEF outer
<1>5. Inside(stack, outer, stack[n])
  <2>1. Len(outer) \in Nat /\ Len(stack) = Len(outer) + 1 /\ n = Len(outer) + 1
    BY <1>1, <1>4 DEF n
  <2>2. QED BY <1>4, <2>1 DEF Inside
<1>6. /\ Apart(outer) /\ ~In(outer, stack[n].id)
      /\ \A j : In(stack, j) <=> In(outer, j) \/ j = stack[n].id
  BY <1>1, <1>5, InsideFacts
<1>7. QED BY <1>1, <1>2, <1>3, <1>4, <1>5, <1>6 DEF n, outer

\* An activation that is read (parseCommand, Daemon::activate).
LEMMA ReadActivateFacts ==
  ASSUME SessionOK, NEW i \in Connections, ReadActivate(i)
  PROVE  /\ Read(i) /\ (ReadOn(i) \/ reading' = 0)
         /\ cmds[i][1].c \in Configs /\ cmds[i][1] = Activate(cmds[i][1].c)
         /\ stack \in Seq(Frames) /\ Apart(stack) /\ ~In(stack, i)
         /\ crossed' \in BOOLEAN /\ (crossed' <=> crossed \/ Tears(stack))
         /\ \E o : Follows(d, cmds[i][1].c, o) /\ Continue(i, o, stack)
<1>1. Read(i) /\ Head(cmds[i]).type = "activate"
  BY DEF ReadActivate
<1>2. PICK o \in activateFirst(d, Head(cmds[i]).c) : Continue(i, o, stack)
  BY DEF ReadActivate
<1>3. ReadOn(i) \/ reading' = 0
  BY <1>2 DEF Continue
<1>4. /\ Head(cmds[i]) = cmds[i][1] /\ cmds[i][1] \in Commands /\ ~Waiting(i)
  BY <1>1, <1>3, ReadFacts
<1>5. cmds[i][1].c \in Configs /\ cmds[i][1] = Activate(cmds[i][1].c)
  BY <1>1, <1>4, CommandFacts
<1>6. d \in DaemonStates /\ stack \in Seq(Frames) /\ Apart(stack)
  BY DEF SessionOK, Typed, ConnectionsInOrder
<1>7. Follows(d, cmds[i][1].c, o)
  BY <1>2, <1>4, <1>5, <1>6, ActivateFollows
<1>8. ~In(stack, i)
  BY <1>4 DEF Waiting, In
<1>9. crossed' = (crossed \/ Tears(stack))
  BY DEF ReadActivate, Tearing, Tears
<1>10. QED BY <1>1, <1>2, <1>3, <1>5, <1>6, <1>7, <1>8, <1>9

\* The innermost activation goes on (the end of its wait).
LEMMA ResumeFacts ==
  ASSUME SessionOK, Resume, stack[Len(stack)].at # "down"
  PROVE  LET f == stack[Len(stack)]
         IN  \E y, o : /\ Reaches(d, y) /\ Follows(y, f.c, o)
                       /\ f.at = "takeover" => y.conn = NoConfig
                       /\ f.at # "takeover" => y = d
                       /\ Continue(f.id, o, SubSeq(stack, 1, Len(stack) - 1))
<1>0. stack # <<>>
  BY DEF Resume
<1>1. PICK f : f = stack[Len(stack)]
  OBVIOUS
<1>2. f \in Frames /\ f.at # "down" /\ d \in DaemonStates
  BY <1>0, <1>1, OuterFacts DEF SessionOK, Typed
<1>3. PICK o \in resume(d, f) : Continue(f.id, o, SubSeq(stack, 1, Len(stack) - 1))
  BY <1>1 DEF Resume
<1>4. PICK y \in DaemonStates : /\ Reaches(d, y) /\ Follows(y, f.c, o)
                                /\ f.at = "takeover" => y.conn = NoConfig
                                /\ f.at # "takeover" => y = d
  BY <1>2, <1>3, ResumeFollows
<1>5. QED BY <1>1, <1>3, <1>4

\* The innermost deactivation goes on to its end (deleteInterface).
LEMMA EndFacts ==
  ASSUME SessionOK, Resume, stack[Len(stack)].at = "down"
  PROVE  /\ d' = deleteInterface(d) /\ d' \in DaemonStates /\ Reaches(d, d')
         /\ d'.conn = NoConfig /\ (Tidy(d) /\ d.resolvers = FALSE => d' = freshService)
         /\ stack' = SubSeq(stack, 1, Len(stack) - 1) /\ ReadOn(stack[Len(stack)].id)
         /\ UNCHANGED <<up, ctl, replies, asked, untold, faults>>
<1>1. PICK f : f = stack[Len(stack)]
  OBVIOUS
<1> DEFINE o == Outcome(deleteInterface(d), "done", NoConfig, NoConfig)
<1>2. resume(d, f) = {o}
  BY <1>1 DEF resume
<1>3. Continue(f.id, o, SubSeq(stack, 1, Len(stack) - 1))
  BY <1>1, <1>2 DEF Resume
<1>4. o.s = deleteInterface(d) /\ o.at = "done"
  BY DEF Outcome
<1> HIDE DEF o
<1>5. /\ d' = deleteInterface(d) /\ stack' = SubSeq(stack, 1, Len(stack) - 1) /\ ReadOn(f.id)
      /\ UNCHANGED <<up, ctl, replies, asked, untold, faults>>
  BY <1>3, <1>4 DEF Continue
<1>6. d \in DaemonStates
  BY DEF SessionOK, Typed
<1>7. QED BY <1>1, <1>5, <1>6, DeleteInterfaceFacts

\* The other changes of the daemon's state (checkHandshake, the reaped process, a crash).
LEMMA SmallSteps ==
  ASSUME NEW x \in DaemonStates
  PROVE  /\ checkHandshake(x) \in DaemonStates /\ checkHandshake(x).conn = x.conn
         /\ checkHandshake(x).resolvers = x.resolvers /\ processGone(x).resolvers = x.resolvers
         /\ Tidy(x) => Tidy(checkHandshake(x))
         /\ processGone(x) \in DaemonStates /\ processGone(x).conn = x.conn
         /\ Tidy(x) /\ ~x.fw.installed => Tidy(processGone(x))
         /\ serviceGone(x) \in DaemonStates /\ init(x) = x
<1> DEFINE h == checkHandshake(x)
           p == processGone(x)
<1>1. /\ h \in DaemonStates /\ h.conn = x.conn /\ h.ranges = x.ranges /\ h.routes = x.routes
      /\ h.excluded = x.excluded /\ h.monitor = x.monitor /\ h.fw = x.fw /\ h.proc = x.proc
      /\ h.resolvers = x.resolvers
  BY DEF checkHandshake, DaemonStates
<1>2. /\ p \in DaemonStates /\ p.conn = x.conn /\ p.ranges = x.ranges /\ p.routes = x.routes
      /\ p.excluded = x.excluded /\ p.monitor = x.monitor /\ p.fw = x.fw /\ p.proc = "off"
      /\ p.resolvers = x.resolvers
  BY DEF processGone, DaemonStates
<1> HIDE DEF h, p
<1>3. Tidy(x) => Tidy(h)
  BY <1>1 DEF Tidy
<1>4. Tidy(x) /\ ~x.fw.installed => Tidy(p)
  BY <1>2 DEF Tidy
<1>5. NoneExcluded \in [Addresses -> Nat]
  BY DEF NoneExcluded
<1>6. serviceGone(x) \in DaemonStates
  BY <1>5 DEF serviceGone, DaemonStates
<1>7. init(x) = x
  BY DEF init, DaemonStates
<1>8. QED BY <1>1, <1>2, <1>3, <1>4, <1>6, <1>7 DEF h, p

\* The daemon's steps keep the types.
LEMMA DaemonTypes ==
  ASSUME SessionOK, DaemonStep \/ CheckHandshake \/ ServiceCrash \/ ServiceStart
                    \/ (\E i \in Connections : Freed(i))
  PROVE  SessionOK'
<1>0. /\ d \in DaemonStates /\ up \in BOOLEAN /\ untold \in BOOLEAN /\ crossed \in BOOLEAN
      /\ cmds \in [Connections -> Seq(Commands)] /\ reading \in 0 .. MaxAsked
      /\ stack \in Seq(Frames) /\ Apart(stack) /\ replies \in Seq(Replies)
      /\ (ctl.sock = "no" => replies = <<>>) /\ 0 \in 0 .. MaxAsked
  BY SessionAssumption DEF SessionOK, Typed, ControllerInOrder, ConnectionsInOrder
<1>1. ASSUME NEW i \in Connections, ReadStatus(i) PROVE SessionOK'
  <2>1. /\ Read(i) /\ ReadOn(i)
        /\ replies' = IF Live(i) THEN Append(replies, "status") ELSE replies
        /\ UNCHANGED <<d, up, stack, ctl, asked, untold, crossed, faults>>
    BY <1>1 DEF ReadStatus
  <2>2. replies' \in Seq(Replies) /\ (ctl.sock = "no" => replies' = <<>>)
    BY <2>1, ReplyFacts DEF Replies
  <2>3. \A j \in Connections : Waiting(j)' => Waiting(j)
    BY <2>1 DEF Waiting
  <2>4. QED BY <1>0, <2>1, <2>2, <2>3, ReadFacts, DaemonShape
<1>2. ASSUME NEW i \in Connections, ReadActivate(i) PROVE SessionOK'
  <2>1. PICK o : Follows(d, cmds[i][1].c, o) /\ Continue(i, o, stack)
    BY <1>2, ReadActivateFacts
  <2>2. /\ d' \in DaemonStates /\ stack' \in Seq(Frames) /\ Apart(stack')
        /\ \A j : In(stack', j) => In(stack, j) \/ j = i
        /\ replies' \in Seq(Replies) /\ (ctl.sock = "no" => replies' = <<>>)
        /\ crossed' \in BOOLEAN /\ UNCHANGED <<up, ctl, asked, untold, faults>>
    <3>0. PICK c, outer : c = cmds[i][1].c /\ outer = stack
      OBVIOUS
    <3>1. /\ c \in Configs /\ outer \in Seq(Frames) /\ Apart(outer) /\ ~In(outer, i)
          /\ crossed' \in BOOLEAN
      BY <1>2, <3>0, ReadActivateFacts
    <3>2. Follows(d, c, o) /\ Continue(i, o, outer)
      BY <2>1, <3>0
    <3>3. /\ d' \in DaemonStates /\ stack' \in Seq(Frames) /\ Apart(stack')
          /\ replies' \in Seq(Replies) /\ (ctl.sock = "no" => replies' = <<>>)
          /\ UNCHANGED <<up, ctl, asked, untold, faults>>
      BY <3>1, <3>2, ContinueFacts
    <3>4. ASSUME NEW j, In(stack', j) PROVE In(outer, j) \/ j = i
      <4>1. /\ o.at \notin Waits => stack' = outer
            /\ o.at \in Waits => \E f : Inside(stack', outer, f) /\ f.id = i
        BY <3>1, <3>2, ContinueFacts
      <4>2. CASE o.at \notin Waits
        BY <3>4, <4>1, <4>2
      <4>3. CASE o.at \in Waits
        <5>1. PICK f : Inside(stack', outer, f) /\ f.id = i
          BY <4>1, <4>3
        <5>2. QED BY <3>4, <5>1, InsideFacts
      <4>4. QED BY <4>2, <4>3
    <3>5. QED BY <3>0, <3>1, <3>3, <3>4
  <2>3. /\ cmds' \in [Connections -> Seq(Commands)] /\ reading' \in 0 .. MaxAsked
        /\ \A j \in Connections : cmds'[j] # <<>> => cmds[j] # <<>>
        /\ cmds[i] # <<>>
    BY <1>2, ReadActivateFacts, ReadFacts
  <2>4. \A j \in Connections : Waiting(j)' => Waiting(j) \/ cmds[j] # <<>>
    BY <2>2, <2>3 DEF Waiting, In
  <2>5. QED BY <1>0, <2>2, <2>3, <2>4, DaemonShape
<1>3. ASSUME NEW i \in Connections, ReadDeactivate(i) PROVE SessionOK'
  <2>1. Read(i) /\ Retire(i, deactivateFirst(d)) /\ replies' = broadcast("disconnected")
    BY <1>3 DEF ReadDeactivate
  <2>2. replies' \in Seq(Replies) /\ (ctl.sock = "no" => replies' = <<>>)
    BY <2>1, ReplyFacts DEF Replies
  <2>3. ~Waiting(i)
    BY <2>1 DEF Read, Readable, Unread
  <2>4. /\ d' \in DaemonStates /\ stack' \in Seq(Frames) /\ Apart(stack')
        /\ ReadOn(i) \/ reading' = 0
        /\ \A j : In(stack', j) => In(stack, j) \/ j = i
        /\ UNCHANGED <<up, ctl, asked, untold, crossed, faults>>
    BY <2>1, <2>3, RetireFacts
  <2>5. /\ cmds' \in [Connections -> Seq(Commands)] /\ reading' \in 0 .. MaxAsked
        /\ \A j \in Connections : cmds'[j] # <<>> => cmds[j] # <<>>
        /\ cmds[i] # <<>>
    BY <2>1, <2>4, ReadFacts
  <2>6. \A j \in Connections : Waiting(j)' => Waiting(j) \/ cmds[j] # <<>>
    BY <2>4, <2>5 DEF Waiting, In
  <2>7. QED BY <1>0, <2>2, <2>4, <2>5, <2>6, DaemonShape
<1>4. CASE Resume
  <2>0. PICK f, outer : f = stack[Len(stack)] /\ outer = SubSeq(stack, 1, Len(stack) - 1)
    OBVIOUS
  <2>1. cmds' = cmds /\ crossed' = crossed /\ stack # <<>>
    BY <1>4 DEF Resume
  <2>2. /\ f.id \in Connections /\ outer \in Seq(Frames) /\ Apart(outer) /\ ~In(outer, f.id)
        /\ f.at # "down" => f.c \in Configs
        /\ \A j : In(stack, j) <=> In(outer, j) \/ j = f.id
    BY <2>0, <2>1, OuterFacts
  <2>3. /\ d' \in DaemonStates /\ stack' \in Seq(Frames) /\ Apart(stack')
        /\ \A j : In(stack', j) => In(outer, j) \/ j = f.id
        /\ replies' \in Seq(Replies) /\ (ctl.sock = "no" => replies' = <<>>)
        /\ UNCHANGED <<up, ctl, asked, untold, faults>>
        /\ ReadOn(f.id) \/ reading' = 0
    <3>1. CASE f.at = "down"
      BY <1>0, <1>4, <2>0, <2>2, <3>1, EndFacts
    <3>2. CASE f.at # "down"
      <4>1. PICK y, o : Follows(y, f.c, o) /\ Continue(f.id, o, outer)
        BY <1>4, <2>0, <3>2, ResumeFacts
      <4>2. QED BY <2>2, <3>2, <4>1, ContinueFacts
    <3>3. QED BY <3>1, <3>2
  <2>4. reading' \in 0 .. MaxAsked
    BY <1>0, <2>2, <2>3, SessionAssumption DEF ReadOn, Connections
  <2>5. \A j \in Connections : Waiting(j)' => Waiting(j)
    BY <2>2, <2>3 DEF Waiting, In
  <2>6. QED BY <1>0, <2>1, <2>2, <2>3, <2>4, <2>5, DaemonShape
<1>5. CASE ProcessReaped
  <2>1. /\ d' = processGone(d) /\ untold' = (untold \/ d.fw.installed)
        /\ UNCHANGED <<up, cmds, stack, reading, ctl, replies, asked, crossed, faults>>
    BY <1>5 DEF ProcessReaped
  <2>2. d' \in DaemonStates /\ untold' \in BOOLEAN
    BY <1>0, <2>1, SmallSteps
  <2>3. \A j \in Connections : Waiting(j)' => Waiting(j)
    BY <2>1 DEF Waiting
  <2>4. QED BY <1>0, <2>1, <2>2, <2>3, DaemonShape
<1>6. CASE CheckHandshake
  <2>1. /\ d' = checkHandshake(d) /\ replies' = broadcast("connected") /\ crossed' \in BOOLEAN
        /\ UNCHANGED <<up, cmds, stack, reading, ctl, asked, untold, faults>>
    BY <1>0, <1>6 DEF CheckHandshake
  <2>2. d' \in DaemonStates
    BY <1>0, <2>1, SmallSteps
  <2>3. replies' \in Seq(Replies) /\ (ctl.sock = "no" => replies' = <<>>)
    BY <2>1, ReplyFacts DEF Replies
  <2>4. \A j \in Connections : Waiting(j)' => Waiting(j)
    BY <2>1 DEF Waiting
  <2>5. QED BY <1>0, <2>1, <2>2, <2>3, <2>4, DaemonShape
<1>7. ASSUME NEW i \in Connections, Freed(i) PROVE SessionOK'
  <2>1. /\ cmds[i] # <<>> /\ cmds' = [cmds EXCEPT ![i] = <<>>] /\ untold' = TRUE
        /\ UNCHANGED <<d, up, stack, reading, ctl, replies, asked, crossed, faults>>
    BY <1>7 DEF Freed
  <2>2. <<>> \in Seq(Commands)
    BY WordsFacts
  <2>3. /\ cmds' \in [Connections -> Seq(Commands)]
        /\ \A j \in Connections : cmds'[j] # <<>> => cmds[j] # <<>>
    BY <1>0, <2>1, <2>2
  <2>4. \A j \in Connections : Waiting(j)' => Waiting(j)
    BY <2>1 DEF Waiting
  <2>5. QED BY <1>0, <2>1, <2>3, <2>4, DaemonShape
<1>8. CASE ServiceCrash
  <2>1. /\ faults < MaxFaults /\ faults' = faults + 1 /\ up' = FALSE /\ d' = serviceGone(d)
        /\ cmds' = [i \in Connections |-> <<>>] /\ stack' = <<>> /\ reading' = 0
        /\ ctl' = IF ctl.sock = "open" THEN [ctl EXCEPT !.sock = "dead"] ELSE ctl
        /\ untold' = TRUE /\ UNCHANGED <<replies, asked, crossed>>
    BY <1>8 DEF ServiceCrash
  <2>2. /\ Typed /\ ControllerInOrder /\ ctl \in Controllers /\ faults \in 0 .. MaxFaults
    BY DEF SessionOK, Typed
  <2>3. /\ ctl' \in Controllers /\ ctl'.id = ctl.id /\ ctl'.c = ctl.c
        /\ ctl'.timer = ctl.timer /\ ctl'.state = ctl.state /\ ctl'.shown = ctl.shown
        /\ (ctl'.sock = "no" <=> ctl.sock = "no") /\ (ctl.sock # "open" => ctl' = ctl)
    BY <2>1, <2>2 DEF Controllers
  <2>4. d' \in DaemonStates /\ cmds' \in [Connections -> Seq(Commands)] /\ stack' \in Seq(Frames)
        /\ faults' \in 0 .. MaxFaults
    <3>a. d' \in DaemonStates
      BY <1>0, <2>1, SmallSteps
    <3>1. faults' \in 0 .. MaxFaults
      BY <2>1, <2>2, SessionAssumption
    <3>2. <<>> \in Seq(Commands) /\ <<>> \in Seq(Frames)
      OBVIOUS
    <3>3. cmds' \in [Connections -> Seq(Commands)]
      BY <2>1, <3>2
    <3>4. QED BY <2>1, <3>a, <3>1, <3>2, <3>3
  <2>5. Typed'
    BY <1>0, <2>1, <2>2, <2>3, <2>4 DEF Typed
  <2>6. ControllerInOrder'
    <3>1. NoController.sock = "no"
      BY DEF NoController
    <3>2. ctl'.id = 0 => ctl' = NoController
      BY <2>2, <2>3, <3>1 DEF ControllerInOrder
    <3>3. ctl'.timer => ctl'.state = "eInitializing" /\ ctl'.sock = "no"
      BY <2>2, <2>3 DEF ControllerInOrder
    <3>4. QED BY <2>1, <2>2, <2>3, <3>2, <3>3 DEF ControllerInOrder
  <2>7. ConnectionsInOrder'
    BY <2>1 DEF ConnectionsInOrder, Waiting, Apart
  <2>8. QED BY <2>5, <2>6, <2>7 DEF SessionOK
<1>9. CASE ServiceStart
  <2>1. /\ up' = TRUE /\ d' = d
        /\ UNCHANGED <<cmds, stack, reading, ctl, replies, asked, untold, crossed, faults>>
    BY <1>0, <1>9, SmallSteps DEF ServiceStart
  <2>2. \A j \in Connections : Waiting(j)' => Waiting(j)
    BY <2>1 DEF Waiting
  <2>3. QED BY <1>0, <2>1, <2>2, DaemonShape
<1>10. QED BY <1>1, <1>2, <1>3, <1>4, <1>5, <1>6, <1>7, <1>8, <1>9 DEF DaemonStep

\* The types hold at the start.
LEMMA InitTypes == Init => SessionOK
<1> SUFFICES ASSUME Init PROVE SessionOK
  OBVIOUS
<1>1. /\ d = freshService /\ up \in BOOLEAN /\ cmds = [i \in Connections |-> <<>>]
      /\ stack = <<>> /\ reading = 0 /\ ctl = NoController /\ replies = <<>> /\ asked = 0
      /\ untold = FALSE /\ crossed = FALSE /\ faults = 0
  BY DEF Init
<1>2. 0 \in 0 .. MAX_CONNECTION_RETRY /\ 0 \in 0 .. MaxAsked /\ 0 \in 0 .. MaxFaults
  BY SessionAssumption
<1>3. NoController \in Controllers
  BY <1>2 DEF NoController, Controllers
<1>a. <<>> \in Seq(Commands) /\ <<>> \in Seq(Frames) /\ <<>> \in Seq(Replies)
  OBVIOUS
<1>b. cmds \in [Connections -> Seq(Commands)]
  BY <1>1, <1>a
<1>4. Typed
  BY <1>1, <1>2, <1>3, <1>a, <1>b, FreshFacts DEF Typed
<1>5. ControllerInOrder
  BY <1>1 DEF ControllerInOrder, NoController
<1>6. ConnectionsInOrder
  BY <1>1 DEF ConnectionsInOrder, Waiting, Apart
<1>7. QED BY <1>4, <1>5, <1>6 DEF SessionOK

\* Every step keeps the types.
LEMMA StepTypes ==
  ASSUME SessionOK, [Next]_vars
  PROVE  SessionOK'
<1>1. CASE Next
  BY <1>1, RequestTypes, ClientTypes, DaemonTypes DEF Next
<1>2. CASE UNCHANGED vars
  <2>1. Typed'
    BY <1>2 DEF SessionOK, Typed, vars
  <2>2. ControllerInOrder'
    BY <1>2 DEF SessionOK, ControllerInOrder, vars
  <2>3. ConnectionsInOrder'
    BY <1>2 DEF SessionOK, ConnectionsInOrder, Waiting, vars
  <2>4. QED BY <2>1, <2>2, <2>3 DEF SessionOK
<1>3. QED BY <1>1, <1>2

\* Commands, replies, retries and the state of the daemon keep their types, and a controller
\* that waits to retry has no socket (localsocketcontroller.cpp, daemonlocalserverconnection.cpp).
THEOREM SessionTyped == Spec => []TypeOK
<1>1. SessionOK => TypeOK
  <2> SUFFICES ASSUME SessionOK PROVE TypeOK
    OBVIOUS
  <2>1. d.conn \in Configs \cup {NoConfig} /\ d.proc \in {"off", "running", "killed"}
    BY DEF SessionOK, Typed, DaemonStates
  <2>2. \A i \in Connections :
          cmds[i] \in Seq([type : {"activate"}, c : Configs] \cup {Status, Deactivate})
    BY DEF SessionOK, Typed, Commands
  <2>3. replies \in Seq({"status", "connected", "disconnected"})
    BY DEF SessionOK, Typed, Replies
  <2>4. /\ reading \in 0 .. MaxAsked /\ up \in BOOLEAN /\ untold \in BOOLEAN
        /\ crossed \in BOOLEAN /\ asked \in 0 .. MaxAsked /\ faults \in 0 .. MaxFaults
    BY DEF SessionOK, Typed
  <2>5. /\ ctl.retry \in 0 .. MAX_CONNECTION_RETRY
        /\ ctl.timer => ctl.state = "eInitializing" /\ ctl.sock = "no"
    BY DEF SessionOK, Typed, ControllerInOrder, Controllers
  <2>6. QED BY <2>1, <2>2, <2>3, <2>4, <2>5 DEF TypeOK
<1>2. SessionOK /\ [Next]_vars => SessionOK'
  BY StepTypes
<1>3. QED BY <1>1, <1>2, InitTypes, PTL DEF Spec

-----------------------------------------------------------------------------
(***************************************************************************)
(* What is under way, as long as the daemon was told everything.           *)
(***************************************************************************)
EndsWith(q, w) == q # <<>> /\ q[Len(q)] = w

\* A deactivation is the last that is unread on connection i.
Pending(i) == EndsWith(cmds[i], Deactivate)

\* Whatever is unread or waits belongs to the session the user wants, or is to be undone.
Covered(i) == (i = ctl.id /\ ctl.wanted) \/ Pending(i)

\* What is left is to be ended: by the deactivation that waits, having given the resolvers
\* back, or by one to come.
Owed ==
  /\ \/ d = freshService \/ (Downs(stack) /\ d.resolvers = FALSE)
     \/ ctl.wanted \/ \E i \in Connections : Pending(i)
  /\ \A i \in Connections : cmds[i] # <<>> \/ Acts(stack, i) => Covered(i)

\* The controller has been answered, or the answer is among what it has yet to read.
Answered == ctl.state = "eReady" \/ \E n \in 1 .. Len(replies) : replies[n] = "status"

\* A connection's commands: the status first, and nothing between an activation and the
\* deactivation behind it.
WellFormed(q, c) ==
  /\ \A n \in 1 .. Len(q) : q[n].type = "activate" => q[n] = Activate(c)
  /\ \A n \in 1 .. Len(q) : n < Len(q) /\ q[n].type = "activate" => q[n + 1] = Deactivate
  /\ \A n \in 1 .. Len(q) : q[n] = Status => n = 1

\* The controller's connection k.
Ordered(k) ==
  LET q == cmds[k]
  IN  /\ ctl.sock = "open"
      /\ WellFormed(q, ctl.c)
      /\ ctl.wanted /\ q # <<>> => EndsWith(q, Activate(ctl.c))
      /\ Acts(stack, k) /\ q # <<>> => q[1] = Deactivate
      /\ Own(stack, k, ctl.c)
      /\ Answered \/ (q # <<>> /\ q[1] = Status)

\* The controller has heard, or will have heard once it has read everything, that there is no
\* connection.
ToldEnd ==
  \/ /\ ctl.state = "eReady" /\ ctl.shown = "disconnected"
     /\ \A n \in 1 .. Len(replies) : replies[n] # "connected"
  \/ \E n \in 1 .. Len(replies) :
       /\ replies[n] = "disconnected"
       /\ ctl.state = "eReady" \/ \E m \in 1 .. Len(replies) : m < n /\ replies[m] = "status"
       /\ \A m \in 1 .. Len(replies) : n < m => replies[m] # "connected"

\* With no older session left to undo, an activation that is to come finds no connection, or
\* one that a waiting deactivation is about to end, and when it is over the daemon has its
\* connection or the controller is told.
Agreed(k) ==
  LET q == cmds[k]
  IN  (\A i \in Connections : ~Pending(i)) =>
        /\ Acts(stack, k) \/ (q # <<>> /\ q[1] # Deactivate) => Tears(stack) \/ d.conn = NoConfig
        /\ q = <<>> /\ ~Acts(stack, k) =>
             \/ (Tears(stack) \/ d.conn = NoConfig) /\ ToldEnd
             \/ ~Tears(stack) /\ d.conn = ctl.c /\ ctl.wanted

\* Another session's connection is to be ended, by a deactivation that waits or is to come.
Current ==
  d.conn \in {NoConfig, ctl.c} \/ Downs(stack) \/ \E i \in Connections : Pending(i)

Undisturbed ==
  /\ Tidy(d) /\ Owed /\ Current /\ (~crossed => Nested(stack))
  /\ \A k \in Connections : k = ctl.id => Ordered(k) /\ (~crossed => Agreed(k))

SessionInv == SessionOK /\ (~untold => Undisturbed)

\* What is left of a queue once its first command was read.
LEMMA TailEnds ==
  ASSUME NEW q \in Seq(Commands), q # <<>>, NEW w
  PROVE  /\ EndsWith(Tail(q), w) => EndsWith(q, w)
         /\ EndsWith(q, w) /\ q[1] # w => Tail(q) # <<>>
         /\ EndsWith(q, w) /\ Tail(q) # <<>> => EndsWith(Tail(q), w)
BY TailFacts DEF EndsWith

\* Reading keeps the order of a queue, and its status does not come later.
LEMMA TailWellFormed ==
  ASSUME NEW q \in Seq(Commands), q # <<>>, NEW c, WellFormed(q, c)
  PROVE  /\ WellFormed(Tail(q), c)
         /\ Tail(q) # <<>> => Tail(q)[1] # Status
         /\ q[1].type = "activate" /\ Tail(q) # <<>> => Tail(q)[1] = Deactivate
<1> DEFINE t == Tail(q)
<1>1. /\ Len(q) \in Nat \ {0} /\ Len(t) = Len(q) - 1
      /\ \A n \in 1 .. Len(q) - 1 : t[n] = q[n + 1]
      /\ t = <<>> <=> Len(q) = 1
  BY TailFacts
<1> HIDE DEF t
<1>2. ASSUME NEW n \in 1 .. Len(t)
      PROVE  /\ n + 1 \in 1 .. Len(q) /\ t[n] = q[n + 1]
             /\ n < Len(t) => n + 1 < Len(q) /\ t[n + 1] = q[n + 1 + 1]
  BY <1>1
<1>3. WellFormed(t, c)
  <2>1. \A n \in 1 .. Len(t) : t[n].type = "activate" => t[n] = Activate(c)
    BY <1>2 DEF WellFormed
  <2>2. \A n \in 1 .. Len(t) : n < Len(t) /\ t[n].type = "activate" => t[n + 1] = Deactivate
    BY <1>2 DEF WellFormed
  <2>3. ASSUME NEW n \in 1 .. Len(t), t[n] = Status PROVE n = 1
    <3>1. n + 1 = 1
      BY <1>2, <2>3 DEF WellFormed
    <3>2. QED BY <3>1
  <2>4. QED BY <2>1, <2>2, <2>3 DEF WellFormed
<1>4. ASSUME t # <<>> PROVE t[1] # Status
  <2>1. t[1] = q[2] /\ 2 \in 1 .. Len(q)
    BY <1>1, <1>4
  <2>2. QED BY <2>1 DEF WellFormed
<1>5. ASSUME q[1].type = "activate", t # <<>> PROVE t[1] = Deactivate
  <2>1. t[1] = q[2] /\ 1 \in 1 .. Len(q) /\ 1 < Len(q) /\ 1 + 1 = 2
    BY <1>1, <1>5
  <2>2. QED BY <1>5, <2>1 DEF WellFormed
<1>6. QED BY <1>3, <1>4, <1>5 DEF t

\* A deactivation written behind what is unread, with or without an activation after it.
LEMMA WriteWellFormed ==
  ASSUME NEW q \in Seq(Commands), NEW c \in Configs
  PROVE  LET a == q \o <<Deactivate>>
             b == q \o (<<Deactivate>> \o <<Activate(c)>>)
         IN  /\ EndsWith(a, Deactivate) /\ EndsWith(b, Activate(c))
             /\ EndsWith(q \o <<Deactivate>> \o <<Deactivate>>, Deactivate)
             /\ WellFormed(q, c) => WellFormed(a, c) /\ WellFormed(b, c)
             /\ q # <<>> => a[1] = q[1] /\ b[1] = q[1]
             /\ q = <<>> => a[1] = Deactivate /\ b[1] = Deactivate
<1> DEFINE D == Deactivate
           A == Activate(c)
           a == q \o <<D>>
           w == <<D>> \o <<A>>
           b == q \o w
           L == Len(q)
<1>1. D \in Commands /\ A \in Commands /\ D.type = "deactivate" /\ D # Status /\ A # Status
  BY CommandFacts
<1> HIDE DEF D, A
<1>2. <<D>> \in Seq(Commands) /\ <<A>> \in Seq(Commands) /\ Len(<<D>>) = 1 /\ Len(<<A>>) = 1
      /\ <<D>>[1] = D /\ <<A>>[1] = A /\ L \in Nat
  BY <1>1
<1>3. w \in Seq(Commands) /\ Len(w) = 2 /\ w[1] = D /\ w[2] = A
  BY <1>2, ConcatProperties
<1> HIDE DEF w
<1>4. /\ a \in Seq(Commands) /\ Len(a) = L + 1 /\ a[L + 1] = D
      /\ \A n \in 1 .. L : a[n] = q[n]
  BY <1>2, ConcatProperties
<1>5. /\ b \in Seq(Commands) /\ Len(b) = L + 2 /\ b[L + 1] = D /\ b[L + 2] = A
      /\ \A n \in 1 .. L : b[n] = q[n]
  <2>1. /\ b \in Seq(Commands) /\ Len(b) = L + Len(w)
        /\ \A n \in 1 .. L + Len(w) : b[n] = IF n <= L THEN q[n] ELSE w[n - L]
    BY <1>3, ConcatProperties
  <2>2. /\ L + 1 \in 1 .. L + Len(w) /\ L + 2 \in 1 .. L + Len(w)
        /\ L + 1 - L = 1 /\ L + 2 - L = 2 /\ ~(L + 1 <= L) /\ ~(L + 2 <= L)
    BY <1>2, <1>3
  <2> HIDE DEF b, L
  <2>3. QED BY <1>2, <1>3, <2>1, <2>2
<1>6. EndsWith(a \o <<D>>, D)
  <2> HIDE DEF a
  <2>1. a \o <<D>> \in Seq(Commands) /\ Len(a \o <<D>>) = L + 2 /\ (a \o <<D>>)[L + 2] = D
    BY <1>2, <1>4, ConcatProperties
  <2>2. QED BY <1>2, <2>1, EmptySeq DEF EndsWith
<1> HIDE DEF a, b, L
<1>7. EndsWith(a, D) /\ EndsWith(b, A)
  BY <1>2, <1>4, <1>5, EmptySeq DEF EndsWith
<1>8. ASSUME WellFormed(q, c) PROVE WellFormed(a, c)
  <2>1. ASSUME NEW n \in 1 .. Len(a) PROVE (n \in 1 .. L /\ a[n] = q[n]) \/ (n = L + 1 /\ a[n] = D)
    BY <1>2, <1>4
  <2>2. \A n \in 1 .. Len(a) : a[n].type = "activate" => a[n] = Activate(c)
    BY <1>1, <1>8, <2>1 DEF WellFormed, L
  <2>3. ASSUME NEW n \in 1 .. Len(a), n < Len(a), a[n].type = "activate"
        PROVE  a[n + 1] = D
    <3>1. n \in 1 .. L /\ a[n] = q[n] /\ n + 1 \in 1 .. Len(a)
      BY <1>1, <1>2, <1>4, <2>1, <2>3
    <3>2. CASE n < L
      <4>1. q[n + 1] = D
        BY <1>8, <2>3, <3>1, <3>2 DEF WellFormed, L, D
      <4>2. QED BY <1>2, <1>4, <3>1, <3>2, <4>1
    <3>3. CASE n = L
      BY <1>4, <3>3
    <3>4. QED BY <1>2, <3>1, <3>2, <3>3
  <2>4. \A n \in 1 .. Len(a) : a[n] = Status => n = 1
    BY <1>1, <1>8, <2>1 DEF WellFormed, L
  <2>5. QED BY <2>2, <2>3, <2>4 DEF WellFormed, D
<1>9. ASSUME WellFormed(q, c) PROVE WellFormed(b, c)
  <2>1. ASSUME NEW n \in 1 .. Len(b)
        PROVE  \/ n \in 1 .. L /\ b[n] = q[n]
               \/ n = L + 1 /\ b[n] = D
               \/ n = L + 2 /\ b[n] = A
    BY <1>2, <1>5
  <2>2. \A n \in 1 .. Len(b) : b[n].type = "activate" => b[n] = Activate(c)
    BY <1>1, <1>9, <2>1 DEF WellFormed, L, A
  <2>3. ASSUME NEW n \in 1 .. Len(b), n < Len(b), b[n].type = "activate"
        PROVE  b[n + 1] = D
    <3>1. n \in 1 .. L /\ b[n] = q[n]
      BY <1>1, <1>2, <1>5, <2>1, <2>3
    <3>2. CASE n < L
      <4>1. q[n + 1] = D
        BY <1>9, <2>3, <3>1, <3>2 DEF WellFormed, L, D
      <4>2. QED BY <1>2, <1>5, <3>1, <3>2, <4>1
    <3>3. CASE n = L
      BY <1>5, <3>3
    <3>4. QED BY <1>2, <3>1, <3>2, <3>3
  <2>4. \A n \in 1 .. Len(b) : b[n] = Status => n = 1
    BY <1>1, <1>9, <2>1 DEF WellFormed, L
  <2>5. QED BY <2>2, <2>3, <2>4 DEF WellFormed, D
<1>10. q # <<>> => a[1] = q[1] /\ b[1] = q[1]
  BY <1>2, <1>4, <1>5, EmptySeq DEF L
<1>11. q = <<>> => a[1] = D /\ b[1] = D
  BY <1>2, <1>4, <1>5 DEF L
<1>12. QED BY <1>6, <1>7, <1>8, <1>9, <1>10, <1>11 DEF a, b, w, D, A

\* What another reply adds (DaemonLocalServerConnection::write).
LEMMA TellFacts ==
  ASSUME replies \in Seq(Replies), NEW m \in Replies, replies' = Append(replies, m),
         ctl' = ctl
  PROVE  /\ Answered => Answered'
         /\ m = "status" => Answered'
         /\ m = "disconnected" /\ Answered => ToldEnd'
<1> DEFINE L == Len(replies)
<1>1. /\ L \in Nat /\ Len(replies') = L + 1 /\ replies'[L + 1] = m
      /\ \A n \in 1 .. L : replies'[n] = replies[n]
  BY AppendProperties
<1> HIDE DEF L
<1>2. L + 1 \in 1 .. Len(replies') /\ \A n \in 1 .. L : n \in 1 .. Len(replies') /\ n < L + 1
  BY <1>1
<1>3. Answered => Answered'
  BY <1>1, <1>2 DEF Answered, L
<1>4. m = "status" => Answered'
  BY <1>1, <1>2 DEF Answered
<1>5. ASSUME m = "disconnected", Answered PROVE ToldEnd'
  <2>1. ctl'.state = "eReady" \/ \E n \in 1 .. Len(replies') : n < L + 1 /\ replies'[n] = "status"
    BY <1>1, <1>2, <1>5 DEF Answered, L
  <2>2. \A n \in 1 .. Len(replies') : ~(L + 1 < n)
    BY <1>1
  <2>3. QED BY <1>1, <1>2, <1>5, <2>1, <2>2 DEF ToldEnd
<1>6. QED BY <1>3, <1>4, <1>5

\* Reading a reply (LocalSocketController::parseCommand): what was to be heard is heard.
LEMMA HearFacts ==
  ASSUME SessionOK, ReadReply
  PROVE  /\ Answered => Answered'
         /\ ToldEnd => ToldEnd'
         /\ ctl'.id = ctl.id /\ ctl'.c = ctl.c /\ ctl'.sock = ctl.sock
         /\ ctl'.wanted = ctl.wanted
         /\ UNCHANGED <<d, up, cmds, stack, reading, asked, untold, crossed, faults>>
<1> DEFINE L == Len(replies)
           r == [ctl EXCEPT !.state = "eReady"]
           e == disconnectInternal(ctl)
           s == [ctl EXCEPT !.shown = "connected"]
<1>1. /\ replies # <<>> /\ ctl' = parseCommand(ctl, Head(replies)) /\ replies' = Tail(replies)
      /\ UNCHANGED <<d, up, cmds, stack, reading, asked, untold, crossed, faults>>
  BY DEF ReadReply
<1>2. /\ replies \in Seq(Replies) /\ ctl \in Controllers
      /\ ctl.state \in {"eInitializing", "eReady"}
  <2>1. replies \in Seq(Replies) /\ ctl \in Controllers /\ ctl.sock # "no"
    BY <1>1 DEF SessionOK, Typed, ControllerInOrder
  <2>2. ctl.id # 0
    BY <2>1 DEF SessionOK, ControllerInOrder, NoController
  <2>3. ctl.state # "eUnknown"
    BY <2>2 DEF SessionOK, ControllerInOrder
  <2>4. QED BY <2>1, <2>3 DEF Controllers
<1>3. /\ L \in Nat \ {0} /\ Len(replies') = L - 1 /\ Head(replies) = replies[1]
      /\ replies[1] \in Replies
      /\ \A n \in 1 .. L - 1 : replies'[n] = replies[n + 1]
  BY <1>1, <1>2, TailFacts
<1>4. /\ r.id = ctl.id /\ r.c = ctl.c /\ r.sock = ctl.sock /\ r.wanted = ctl.wanted
      /\ r.state = "eReady" /\ r.shown = ctl.shown
      /\ e.id = ctl.id /\ e.c = ctl.c /\ e.sock = ctl.sock /\ e.wanted = ctl.wanted
      /\ e.state = "eReady" /\ e.shown = "disconnected"
      /\ s.id = ctl.id /\ s.c = ctl.c /\ s.sock = ctl.sock /\ s.wanted = ctl.wanted
      /\ s.state = ctl.state
  BY <1>2 DEF Controllers, disconnectInternal
<1>5. /\ ctl.state = "eInitializing" => ctl' = IF replies[1] = "status" THEN r ELSE ctl
      /\ ctl.state = "eReady" => ctl' = IF replies[1] = "disconnected" THEN e
                                        ELSE IF replies[1] = "connected" THEN s ELSE ctl
  BY <1>1, <1>3 DEF parseCommand
<1> HIDE DEF L, r, e, s
<1>6. /\ ctl'.id = ctl.id /\ ctl'.c = ctl.c /\ ctl'.sock = ctl.sock /\ ctl'.wanted = ctl.wanted
      /\ ctl.state = "eReady" \/ replies[1] = "status" => ctl'.state = "eReady"
      /\ ctl.state = "eReady" /\ replies[1] = "disconnected" => ctl'.shown = "disconnected"
      /\ ctl.state = "eReady" /\ ctl.shown = "disconnected" /\ replies[1] # "connected"
            => ctl'.shown = "disconnected"
  BY <1>2, <1>4, <1>5
<1>7. ASSUME NEW n \in 1 .. L, n # 1
      PROVE  n - 1 \in 1 .. Len(replies') /\ replies'[n - 1] = replies[n]
  BY <1>3, <1>7
<1>8. ASSUME NEW n \in 1 .. Len(replies')
      PROVE  n + 1 \in 1 .. L /\ replies'[n] = replies[n + 1] /\ n + 1 > 1
  BY <1>3
<1>9. ASSUME Answered PROVE Answered'
  <2>1. CASE ctl.state = "eReady" \/ replies[1] = "status"
    BY <1>6, <2>1 DEF Answered
  <2>2. CASE ~(ctl.state = "eReady" \/ replies[1] = "status")
    <3>1. PICK n \in 1 .. L : replies[n] = "status" /\ n # 1
      BY <1>9, <2>2 DEF Answered, L
    <3>2. QED BY <1>7, <3>1 DEF Answered
  <2>3. QED BY <2>1, <2>2
<1>10. ASSUME ToldEnd PROVE ToldEnd'
  <2>1. CASE /\ ctl.state = "eReady" /\ ctl.shown = "disconnected"
             /\ \A n \in 1 .. L : replies[n] # "connected"
    <3>1. replies[1] # "connected"
      BY <1>3, <2>1
    <3>2. \A n \in 1 .. Len(replies') : replies'[n] # "connected"
      BY <1>8, <2>1
    <3>3. QED BY <1>6, <2>1, <3>1, <3>2 DEF ToldEnd
  <2>2. ASSUME NEW n \in 1 .. L, replies[n] = "disconnected",
               ctl.state = "eReady" \/ \E m \in 1 .. L : m < n /\ replies[m] = "status",
               \A m \in 1 .. L : n < m => replies[m] # "connected"
        PROVE  ToldEnd'
    <3>1. CASE n = 1
      <4>1. ctl.state = "eReady"
        BY <2>2, <3>1
      <4>2. ctl'.state = "eReady" /\ ctl'.shown = "disconnected"
        BY <1>6, <2>2, <3>1, <4>1
      <4>3. \A m \in 1 .. Len(replies') : replies'[m] # "connected"
        BY <1>8, <2>2, <3>1
      <4>4. QED BY <4>2, <4>3 DEF ToldEnd
    <3>2. CASE n # 1
      <4>1. n - 1 \in 1 .. Len(replies') /\ replies'[n - 1] = "disconnected"
        BY <1>7, <2>2, <3>2
      <4>2. \A m \in 1 .. Len(replies') : n - 1 < m => replies'[m] # "connected"
        <5>1. ASSUME NEW m \in 1 .. Len(replies'), n - 1 < m PROVE replies'[m] # "connected"
          <6>1. m + 1 \in 1 .. L /\ replies'[m] = replies[m + 1]
            BY <1>8
          <6>2. n < m + 1
            BY <1>3, <5>1
          <6>3. QED BY <2>2, <6>1, <6>2
        <5>2. QED BY <5>1
      <4>3. \/ ctl'.state = "eReady"
            \/ \E m \in 1 .. Len(replies') : m < n - 1 /\ replies'[m] = "status"
        <5>1. CASE ctl.state = "eReady" \/ replies[1] = "status"
          BY <1>6, <5>1
        <5>2. CASE ~(ctl.state = "eReady" \/ replies[1] = "status")
          <6>1. PICK m \in 1 .. L : m < n /\ replies[m] = "status" /\ m # 1
            BY <2>2, <5>2
          <6>2. m - 1 \in 1 .. Len(replies') /\ replies'[m - 1] = "status" /\ m - 1 < n - 1
            BY <1>3, <1>7, <6>1
          <6>3. QED BY <6>2
        <5>3. QED BY <5>1, <5>2
      <4>4. QED BY <4>1, <4>2, <4>3 DEF ToldEnd
    <3>3. QED BY <3>1, <3>2
  <2>3. QED BY <1>10, <2>1, <2>2 DEF ToldEnd, L
<1>11. QED BY <1>1, <1>6, <1>9, <1>10

-----------------------------------------------------------------------------
(***************************************************************************)
(* The client's steps keep it.                                             *)
(***************************************************************************)
\* The controller's connection.
LEMMA OwnConnection ==
  ASSUME SessionOK
  PROVE  /\ ctl.id # 0 => ctl.id \in Connections /\ cmds[ctl.id] \in Seq(Commands)
         /\ ctl.id = 0 => /\ ctl.wanted = FALSE /\ ctl.shown = "none"
                          /\ \A i \in Connections : cmds[i] = <<>> /\ ~Acts(stack, i)
                          /\ ~Downs(stack)
<1>1. ctl.id \in 0 .. MaxAsked /\ cmds \in [Connections -> Seq(Commands)]
  BY DEF SessionOK, Typed, Controllers
<1>2. ctl.id # 0 => ctl.id \in Connections
  BY <1>1, SessionAssumption DEF Connections
<1>3. ASSUME ctl.id = 0 PROVE ctl.wanted = FALSE /\ ctl.shown = "none" /\ asked = 0
  BY <1>3 DEF SessionOK, ControllerInOrder, NoController
<1>4. \A i \in Connections : ~(i <= 0)
  BY SessionAssumption DEF Connections
<1>5. \A i \in Connections : Acts(stack, i) => Waiting(i)
  BY DEF Acts, Waiting
<1>6. ASSUME Downs(stack) PROVE \E i \in Connections : Waiting(i)
  <2>1. PICK n \in 1 .. Len(stack) : stack[n].at = "down"
    BY <1>6 DEF Downs
  <2>2. stack[n] \in Frames
    BY ElementOfSeq DEF SessionOK, Typed
  <2>3. stack[n].id \in Connections
    BY <2>2 DEF Frames
  <2>4. QED BY <2>3 DEF Waiting
<1>7. QED BY <1>1, <1>2, <1>3, <1>4, <1>5, <1>6 DEF SessionOK, ConnectionsInOrder

\* A new session: the old one, if any, is told to end, and is heard (Connect).
LEMMA ConnectKeeps ==
  ASSUME SessionOK, Undisturbed, ~untold, NEW c \in Configs, Connect(c), ~untold'
  PROVE  Undisturbed'
<1>0. PICK k, old : k = asked + 1 /\ old = ctl.id
  OBVIOUS
<1>b. UNCHANGED <<d, up, stack, reading, crossed, faults>>
  BY ConnectFacts, Zenon
<1>c. /\ asked + 1 \in Connections /\ asked + 1 # 0 /\ asked + 1 # ctl.id
      /\ ctl'.id = asked + 1 /\ ctl'.c = c /\ ctl'.wanted = TRUE
      /\ (ctl'.sock = "open") = up
      /\ untold' = (untold \/ Silent(ctl) \/ ~up)
  BY ConnectFacts, Zenon
<1>d. /\ \A i \in Connections : i # asked + 1 /\ i # ctl.id => cmds'[i] = cmds[i]
      /\ up => cmds'[asked + 1] = <<Status, Activate(c)>>
      /\ ctl.sock = "open" => cmds'[ctl.id] = cmds[ctl.id] \o Words(ctl) \o Words(ctl)
  BY ConnectFacts, Zenon
<1>1. /\ k \in Connections /\ k # 0 /\ k # old
      /\ ctl'.id = k /\ ctl'.c = c /\ ctl'.wanted = TRUE
      /\ (ctl'.sock = "open") = up
      /\ untold' = (untold \/ Silent(ctl) \/ ~up)
      /\ d' = d /\ stack' = stack /\ crossed' = crossed
      /\ \A i \in Connections : i # k /\ i # old => cmds'[i] = cmds[i]
      /\ up => cmds'[k] = <<Status, Activate(c)>>
      /\ ctl.sock = "open" => cmds'[old] = cmds[old] \o Words(ctl) \o Words(ctl)
  BY <1>0, <1>b, <1>c, <1>d
<1>2. up /\ ~Silent(ctl)
  BY <1>1
<1> DEFINE q == <<Status, Activate(c)>>
<1>3. cmds'[k] = q /\ ctl'.sock = "open"
  BY <1>1, <1>2
<1>4. /\ q # <<>> /\ Len(q) = 2 /\ q[1] = Status /\ q[2] = Activate(c)
      /\ \A n \in 1 .. 2 : n = 1 \/ n = 2
  OBVIOUS
<1> HIDE DEF q
<1>5. WellFormed(q, c) /\ EndsWith(q, Activate(c))
  BY <1>4, CommandFacts DEF WellFormed, EndsWith
<1>6. ~Acts(stack, k) /\ Own(stack, k, c)
  <2>1. asked \in Nat
    BY SessionAssumption DEF SessionOK, Typed
  <2>2. ~(k <= asked)
    BY <1>0, <2>1
  <2>3. ~Waiting(k)
    BY <1>1, <2>2 DEF SessionOK, ConnectionsInOrder
  <2>4. QED BY <2>3 DEF Waiting, Acts, Own
<1>8. ASSUME old # 0 PROVE Pending(old)' /\ old \in Connections
  <2>1. old \in Connections /\ cmds[old] \in Seq(Commands)
    BY <1>0, <1>8, OwnConnection
  <2>2. ctl.sock = "open" /\ ctl.state = "eReady"
    BY <1>0, <1>2, <2>1 DEF Undisturbed, Ordered, Silent
  <2>3. cmds'[old] = cmds[old] \o <<Deactivate>> \o <<Deactivate>>
    BY <1>1, <2>2, WordsFacts
  <2>4. QED BY <2>1, <2>3, WriteWellFormed DEF Pending
<1>9. ASSUME NEW i \in Connections, cmds'[i] # <<>> \/ Acts(stack', i) PROVE Covered(i)'
  <2>1. CASE i = k
    BY <1>1, <2>1 DEF Covered
  <2>2. CASE i = old
    <3>1. old # 0
      BY <2>2, SessionAssumption DEF Connections
    <3>2. QED BY <1>8, <2>2, <3>1 DEF Covered
  <2>3. CASE i # k /\ i # old
    <3>1. cmds'[i] = cmds[i] /\ Covered(i)
      BY <1>1, <1>9, <2>3 DEF Undisturbed, Owed
    <3>2. Pending(i)'
      BY <1>0, <2>3, <3>1 DEF Covered, Pending
    <3>3. QED BY <3>2 DEF Covered
  <2>4. QED BY <2>1, <2>2, <2>3
<1>10. Owed'
  BY <1>1, <1>9 DEF Owed
<1>11. Ordered(k)'
  BY <1>1, <1>3, <1>4, <1>5, <1>6 DEF Ordered
<1>12. Agreed(k)'
  <2>1. CASE old # 0
    BY <1>8, <2>1 DEF Agreed
  <2>2. CASE old = 0
    <3>1. d = freshService
      BY <1>0, <2>2, OwnConnection DEF Undisturbed, Owed, Pending, EndsWith
    <3>2. d'.conn = NoConfig /\ cmds'[k] # <<>>
      BY <1>1, <1>3, <1>4, <3>1, FreshFacts
    <3>3. QED BY <3>2 DEF Agreed
  <2>3. QED BY <2>1, <2>2
<1>13. Tidy(d') /\ (~crossed' => Nested(stack'))
  BY <1>1 DEF Undisturbed
<1>14. Current'
  <2>1. CASE old # 0
    BY <1>8, <2>1 DEF Current
  <2>2. CASE old = 0
    <3>1. d = freshService
      BY <1>0, <2>2, OwnConnection DEF Undisturbed, Owed, Pending, EndsWith
    <3>2. QED BY <1>1, <3>1, FreshFacts DEF Current
  <2>3. QED BY <2>1, <2>2
<1>15. QED BY <1>1, <1>10, <1>11, <1>12, <1>13, <1>14 DEF Undisturbed

\* A restart of the same object: one more deactivation, and an activation behind it (Reconnect).
LEMMA ReconnectKeeps ==
  ASSUME SessionOK, Undisturbed, ~untold, Reconnect, ~untold'
  PROVE  Undisturbed'
<1>0. PICK k, c : k = ctl.id /\ c = ctl.c
  OBVIOUS
<1> DEFINE q == cmds[k]
           b == q \o (<<Deactivate>> \o <<Activate(c)>>)
<1>1. /\ ctl.shown = "connected" /\ ctl' = [ctl EXCEPT !.shown = "connecting"]
      /\ write(Words(ctl) \o <<Activate(c)>>)
      /\ untold' = (untold \/ ~ctl.wanted) /\ d' = d /\ stack' = stack /\ replies' = replies
      /\ crossed' = crossed
  BY <1>0 DEF Reconnect
<1>2. k # 0 /\ ctl.state = "eReady" /\ ctl.wanted
  BY <1>0, <1>1, OwnConnection DEF SessionOK, ControllerInOrder
<1>3. k \in Connections /\ q \in Seq(Commands) /\ c \in Configs
  BY <1>0, <1>2, OwnConnection DEF SessionOK, ControllerInOrder
<1>a. /\ Ordered(k) /\ (~crossed => Agreed(k) /\ Nested(stack)) /\ Owed /\ Current /\ Tidy(d)
      /\ ctl.sock = "open"
  BY <1>0, <1>3 DEF Undisturbed, Ordered
<1>4. /\ ctl'.id = k /\ ctl'.c = c /\ ctl'.sock = "open" /\ ctl'.wanted
      /\ ctl'.state = "eReady"
  BY <1>0, <1>1, <1>2, <1>a DEF SessionOK, Typed, Controllers
<1>5. cmds'[k] = b /\ \A i \in Connections : i # k => cmds'[i] = cmds[i]
  <2>1. Words(ctl) \o <<Activate(c)>> = <<Deactivate>> \o <<Activate(c)>>
    BY <1>2, WordsFacts
  <2>2. Activate(c) \in Commands /\ Deactivate \in Commands
    BY <1>3, CommandFacts
  <2>3. <<Activate(c)>> \in Seq(Commands) /\ <<Deactivate>> \in Seq(Commands)
    BY <2>2
  <2>4. <<Deactivate>> \o <<Activate(c)>> \in Seq(Commands)
    BY <2>3, ConcatProperties
  <2>5. QED BY <1>0, <1>1, <1>a, <2>1, <2>4, WriteFacts
<1>6. /\ EndsWith(b, Activate(c)) /\ WellFormed(b, c)
      /\ q # <<>> => b[1] = q[1]
      /\ q = <<>> => b[1] = Deactivate
  BY <1>0, <1>3, <1>a, WriteWellFormed DEF Ordered
<1>7. b # <<>> /\ ~EndsWith(q, Deactivate)
  BY <1>0, <1>2, <1>3, <1>a, <1>6, CommandFacts DEF EndsWith, Ordered
<1> HIDE DEF q, b
<1>9. Owed'
  <2>1. ASSUME NEW i \in Connections, cmds'[i] # <<>> \/ Acts(stack', i) PROVE Covered(i)'
    <3>1. CASE i = k
      BY <1>4, <3>1 DEF Covered
    <3>2. CASE i # k
      <4>1. cmds'[i] = cmds[i] /\ Covered(i)
        BY <1>1, <1>a, <1>5, <2>1, <3>2 DEF Owed
      <4>2. QED BY <1>0, <3>2, <4>1 DEF Covered, Pending
    <3>3. QED BY <3>1, <3>2
  <2>2. QED BY <1>4, <2>1 DEF Owed
<1>10. Ordered(k)'
  <2>1. Acts(stack', k) => b[1] = Deactivate
    BY <1>1, <1>3, <1>a, <1>6 DEF Ordered, q
  <2>2. Own(stack', k, ctl'.c)
    BY <1>0, <1>1, <1>a, <1>4 DEF Ordered
  <2>3. Answered'
    BY <1>4 DEF Answered
  <2>4. QED BY <1>4, <1>5, <1>6, <2>1, <2>2, <2>3 DEF Ordered
<1>11. ASSUME ~crossed' PROVE Agreed(k)'
  <2> SUFFICES ASSUME \A i \in Connections : ~Pending(i)'
               PROVE  /\ Acts(stack', k) \/ (b # <<>> /\ b[1] # Deactivate)
                            => Tears(stack') \/ d'.conn = NoConfig
                      /\ b # <<>>
    BY <1>5 DEF Agreed
  <2>1. \A i \in Connections : ~Pending(i)
    BY <1>5, <1>7 DEF Pending, q
  <2>2. Acts(stack, k) \/ (q # <<>> /\ q[1] # Deactivate) => Tears(stack) \/ d.conn = NoConfig
    BY <1>1, <1>a, <1>11, <2>1 DEF Agreed, q
  <2>3. QED BY <1>1, <1>3, <1>6, <1>7, <2>2
<1>12. Current'
  <2>1. \A i \in Connections : Pending(i) => Pending(i)'
    BY <1>5, <1>7 DEF Pending, q
  <2>2. QED BY <1>0, <1>1, <1>4, <1>a, <2>1 DEF Current
<1>13. QED BY <1>1, <1>4, <1>a, <1>9, <1>10, <1>11, <1>12 DEF Undisturbed

\* The user ends the session and the daemon is told (Disconnect).
LEMMA DisconnectKeeps ==
  ASSUME SessionOK, Undisturbed, ~untold, Disconnect, ~untold'
  PROVE  Undisturbed'
<1>0. PICK k, c : k = ctl.id /\ c = ctl.c
  OBVIOUS
<1> DEFINE q == cmds[k]
           a == q \o <<Deactivate>>
<1>1. /\ ctl.wanted /\ ctl' = [ctl EXCEPT !.shown = "disconnected", !.wanted = FALSE]
      /\ write(Words(ctl))
      /\ untold' = (untold \/ Silent(ctl)) /\ d' = d /\ stack' = stack /\ replies' = replies
      /\ crossed' = crossed
  BY DEF Disconnect
<1>2. k # 0
  BY <1>0, <1>1, OwnConnection
<1>3. k \in Connections /\ q \in Seq(Commands) /\ c \in Configs
  BY <1>0, <1>2, OwnConnection DEF SessionOK, ControllerInOrder
<1>a. /\ Ordered(k) /\ Owed /\ Tidy(d) /\ (~crossed => Nested(stack))
      /\ ctl.sock = "open" /\ ctl.state = "eReady"
  BY <1>0, <1>1, <1>3 DEF Undisturbed, Ordered, Silent
<1>4. /\ ctl'.id = k /\ ctl'.c = c /\ ctl'.sock = "open" /\ ctl'.wanted = FALSE
      /\ ctl'.state = "eReady"
  BY <1>0, <1>1, <1>a DEF SessionOK, Typed, Controllers
<1>5. cmds'[k] = a /\ \A i \in Connections : i # k => cmds'[i] = cmds[i]
  BY <1>0, <1>1, <1>a, WordsFacts, WriteFacts
<1>6. /\ EndsWith(a, Deactivate) /\ WellFormed(a, c)
      /\ q # <<>> => a[1] = q[1]
      /\ q = <<>> => a[1] = Deactivate
  BY <1>0, <1>3, <1>a, WriteWellFormed DEF Ordered
<1> HIDE DEF q, a
<1>8. Pending(k)'
  BY <1>5, <1>6 DEF Pending
<1>9. Owed'
  <2>1. ASSUME NEW i \in Connections, cmds'[i] # <<>> \/ Acts(stack', i) PROVE Covered(i)'
    <3>1. CASE i = k
      BY <1>8, <3>1 DEF Covered
    <3>2. CASE i # k
      <4>1. cmds'[i] = cmds[i] /\ Covered(i)
        BY <1>1, <1>a, <1>5, <2>1, <3>2 DEF Owed
      <4>2. QED BY <1>0, <3>2, <4>1 DEF Covered, Pending
    <3>3. QED BY <3>1, <3>2
  <2>2. QED BY <1>3, <1>8, <2>1 DEF Owed
<1>10. Ordered(k)'
  <2>1. Acts(stack', k) => a[1] = Deactivate
    BY <1>1, <1>3, <1>a, <1>6 DEF Ordered, q
  <2>2. Own(stack', k, ctl'.c)
    BY <1>0, <1>1, <1>a, <1>4 DEF Ordered
  <2>3. Answered'
    BY <1>4 DEF Answered
  <2>4. QED BY <1>4, <1>5, <1>6, <2>1, <2>2, <2>3 DEF Ordered
<1>11. Agreed(k)'
  BY <1>3, <1>8 DEF Agreed
<1>12. Current'
  BY <1>3, <1>8 DEF Current
<1>13. QED BY <1>1, <1>4, <1>a, <1>9, <1>10, <1>11, <1>12 DEF Undisturbed

\* A reply is read (ReadReply).
LEMMA ReadReplyKeeps ==
  ASSUME SessionOK, Undisturbed, ReadReply
  PROVE  Undisturbed'
<1>1. /\ Answered => Answered'
      /\ ToldEnd => ToldEnd'
      /\ ctl'.id = ctl.id /\ ctl'.c = ctl.c /\ ctl'.sock = ctl.sock
      /\ ctl'.wanted = ctl.wanted
      /\ d' = d /\ cmds' = cmds /\ stack' = stack /\ crossed' = crossed
  BY HearFacts
<1>2. \A i : (Pending(i)' <=> Pending(i)) /\ (Covered(i)' <=> Covered(i))
  BY <1>1 DEF Pending, Covered
<1>3. Owed' /\ Current' /\ (~crossed' => Nested(stack'))
  BY <1>1, <1>2 DEF Undisturbed, Owed, Current
<1>4. ASSUME NEW k \in Connections, k = ctl'.id PROVE Ordered(k)' /\ (~crossed' => Agreed(k)')
  <2>1. Ordered(k) /\ (~crossed => Agreed(k))
    BY <1>1, <1>4 DEF Undisturbed
  <2>2. Ordered(k)'
    BY <1>1, <1>2, <2>1 DEF Ordered
  <2>3. ~crossed' => Agreed(k)'
    BY <1>1, <1>2, <2>1 DEF Agreed
  <2>4. QED BY <2>2, <2>3
<1>5. QED BY <1>1, <1>3, <1>4 DEF Undisturbed

-----------------------------------------------------------------------------
(***************************************************************************)
(* The daemon's steps keep it.                                             *)
(***************************************************************************)
\* What reading connection i's next command leaves of the order, whatever it does.
LEMMA ReadKeeps ==
  ASSUME SessionOK, Undisturbed, NEW i \in Connections, Read(i), ReadOn(i) \/ reading' = 0,
         ctl' = ctl,
         \A j : Acts(stack', j) => Acts(stack, j) \/ (j = i /\ cmds[i][1].type = "activate"),
         \A j, c : /\ Own(stack, j, c)
                   /\ j = i /\ cmds[i][1].type = "activate" => cmds[i][1] = Activate(c)
                   => Own(stack', j, c),
         Answered => Answered', i = ctl.id /\ cmds[i][1] = Status => Answered'
  PROVE  /\ \A j \in Connections : cmds'[j] # <<>> \/ Acts(stack', j) => Covered(j)'
         /\ \A k \in Connections : k = ctl.id => Ordered(k)'
         /\ cmds[i][1] # Deactivate => \/ i = ctl.id /\ ctl.wanted
                                       \/ Pending(i)'
         /\ cmds[i][1] # Deactivate => \A j \in Connections : Pending(j) => Pending(j)'
<1> DEFINE q == cmds[i]
           t == Tail(q)
<1>1. /\ q # <<>> /\ q \in Seq(Commands) /\ cmds'[i] = t /\ q[1] \in Commands
      /\ \A j \in Connections : j # i => cmds'[j] = cmds[j]
      /\ ~Waiting(i)
  BY ReadFacts
<1>2. Covered(i)
  BY <1>1 DEF Undisturbed, Owed
<1>3. \A w : /\ EndsWith(q, w) /\ q[1] # w => t # <<>>
             /\ EndsWith(q, w) /\ t # <<>> => EndsWith(t, w)
  BY <1>1, TailEnds
<1>4. q[1].type = "activate" => q[1] # Deactivate
  BY CommandFacts
<1> HIDE DEF q, t
<1>5. ASSUME Pending(i), q[1] # Deactivate \/ t # <<>> PROVE Pending(i)'
  BY <1>1, <1>3, <1>5 DEF Pending, q
<1>6. \A j \in Connections : j # i => (Pending(j)' <=> Pending(j))
  BY <1>1 DEF Pending
<1>7. ASSUME NEW j \in Connections, cmds'[j] # <<>> \/ Acts(stack', j) PROVE Covered(j)'
  <2>1. CASE j = i
    <3>1. CASE i = ctl.id /\ ctl.wanted
      BY <2>1, <3>1 DEF Covered
    <3>2. CASE Pending(i)
      <4>0. ~Acts(stack, i)
        BY <1>1 DEF Acts, Waiting
      <4>1. q[1] # Deactivate \/ t # <<>>
        BY <1>1, <1>4, <1>7, <2>1, <4>0 DEF q
      <4>2. QED BY <1>5, <2>1, <3>2, <4>1 DEF Covered
    <3>3. QED BY <1>2, <3>1, <3>2 DEF Covered
  <2>2. CASE j # i
    <3>1. Covered(j)
      BY <1>1, <1>7, <2>2 DEF Undisturbed, Owed
    <3>2. QED BY <1>6, <2>2, <3>1 DEF Covered
  <2>3. QED BY <2>1, <2>2
<1>8. ASSUME NEW k \in Connections, k = ctl.id PROVE Ordered(k)'
  <2>0. Ordered(k) /\ ctl'.c = ctl.c /\ ctl'.sock = ctl.sock /\ ctl'.wanted = ctl.wanted
    BY <1>8 DEF Undisturbed
  <2>1. CASE k # i
    <3>1. cmds'[k] = cmds[k] /\ (Acts(stack', k) => Acts(stack, k))
      BY <1>1, <2>1
    <3>2. Own(stack', k, ctl'.c)
      BY <2>0, <2>1 DEF Ordered
    <3>3. QED BY <2>0, <3>1, <3>2 DEF Ordered
  <2>2. CASE k = i
    <3>1. /\ WellFormed(q, ctl.c) /\ (ctl.wanted => EndsWith(q, Activate(ctl.c)))
          /\ (Answered \/ q[1] = Status)
      BY <1>1, <2>0, <2>2 DEF Ordered, q
    <3>2. /\ WellFormed(t, ctl.c)
          /\ q[1].type = "activate" /\ t # <<>> => t[1] = Deactivate
      BY <1>1, <3>1, TailWellFormed DEF t
    <3>3. Answered'
      BY <1>8, <2>2, <3>1 DEF q
    <3>4. Own(stack', k, ctl'.c)
      <4>1. 1 \in 1 .. Len(q)
        BY <1>1, TailFacts
      <4>2. q[1].type = "activate" => q[1] = Activate(ctl.c)
        BY <3>1, <4>1 DEF WellFormed
      <4>3. QED BY <2>0, <4>2 DEF Ordered, q
    <3>5. ctl.wanted /\ t # <<>> => EndsWith(t, Activate(ctl.c))
      BY <1>3, <3>1
    <3>6. Acts(stack', k) /\ t # <<>> => t[1] = Deactivate
      <4>1. ~Acts(stack, k)
        BY <1>1, <2>2 DEF Acts, Waiting
      <4>2. QED BY <2>2, <3>2, <4>1 DEF q
    <3>7. cmds'[k] = t
      BY <1>1, <2>2
    <3>8. QED BY <2>0, <3>2, <3>3, <3>4, <3>5, <3>6, <3>7 DEF Ordered
  <2>3. QED BY <2>1, <2>2
<1>9. ASSUME q[1] # Deactivate
      PROVE  /\ (i = ctl.id /\ ctl.wanted) \/ Pending(i)'
             /\ \A j \in Connections : Pending(j) => Pending(j)'
  BY <1>2, <1>5, <1>6, <1>9 DEF Covered
<1>10. QED BY <1>7, <1>8, <1>9 DEF q

\* The status is read and answered (ReadStatus).
LEMMA ReadStatusKeeps ==
  ASSUME SessionOK, Undisturbed, NEW i \in Connections, ReadStatus(i)
  PROVE  Undisturbed'
<1>1. /\ Read(i) /\ Head(cmds[i]).type = "status" /\ ReadOn(i) /\ d' = d /\ stack' = stack
      /\ replies' = IF Live(i) THEN Append(replies, "status") ELSE replies
      /\ ctl' = ctl /\ crossed' = crossed
  BY DEF ReadStatus
<1>2. /\ cmds[i] # <<>> /\ cmds[i] \in Seq(Commands) /\ cmds[i][1] = Head(cmds[i])
      /\ cmds[i][1] \in Commands /\ ~Waiting(i) /\ cmds'[i] = Tail(cmds[i])
  BY <1>1, ReadFacts
<1>3. cmds[i][1] = Status /\ Status # Deactivate
  BY <1>1, <1>2, CommandFacts
<1>4. cmds[i][1].type = "status"
  BY <1>3, CommandFacts
<1>5. Answered => Answered'
  <2>1. replies \in Seq(Replies) /\ "status" \in Replies
    BY DEF SessionOK, Typed, Replies
  <2>2. CASE Live(i)
    BY <1>1, <2>1, <2>2, TellFacts
  <2>3. CASE ~Live(i)
    BY <1>1, <2>3 DEF Answered
  <2>4. QED BY <2>2, <2>3
<1>6. ASSUME i = ctl.id PROVE Answered'
  <2>1. replies \in Seq(Replies) /\ "status" \in Replies
    BY DEF SessionOK, Typed, Replies
  <2>2. Live(i)
    BY <1>6 DEF Undisturbed, Ordered, Live
  <2>3. QED BY <1>1, <2>1, <2>2, TellFacts
<1>7. /\ \A j \in Connections : cmds'[j] # <<>> \/ Acts(stack', j) => Covered(j)'
      /\ \A k \in Connections : k = ctl.id => Ordered(k)'
      /\ (i = ctl.id /\ ctl.wanted) \/ Pending(i)'
      /\ \A j \in Connections : Pending(j) => Pending(j)'
  BY <1>1, <1>2, <1>3, <1>4, <1>5, <1>6, ReadKeeps
<1>8. Owed' /\ Current' /\ (~crossed' => Nested(stack'))
  BY <1>1, <1>7 DEF Undisturbed, Owed, Current
<1>9. ASSUME NEW k \in Connections, k = ctl.id, ~crossed' PROVE Agreed(k)'
  <2> SUFFICES ASSUME \A j \in Connections : ~Pending(j)'
               PROVE  (Tears(stack') \/ d'.conn = NoConfig) /\ cmds'[k] # <<>>
    BY DEF Agreed
  <2>1. i = k /\ ctl.wanted /\ \A j \in Connections : ~Pending(j)
    BY <1>7, <1>9
  <2>2. Tears(stack) \/ d.conn = NoConfig
    BY <1>1, <1>2, <1>3, <1>9, <2>1 DEF Undisturbed, Agreed
  <2>3. EndsWith(cmds[k], Activate(ctl.c)) /\ ctl.c \in Configs
    <3>1. k # 0
      BY SessionAssumption DEF Connections
    <3>2. QED BY <1>2, <1>9, <2>1, <3>1 DEF Undisturbed, Ordered, SessionOK, ControllerInOrder
  <2>4. Tail(cmds[k]) # <<>>
    BY <1>2, <1>3, <2>1, <2>3, TailEnds, CommandFacts
  <2>5. QED BY <1>1, <1>2, <2>1, <2>2, <2>4
<1>10. QED BY <1>1, <1>7, <1>8, <1>9 DEF Undisturbed

\* An activation that is over has its connection, or its failure was told to its own
\* controller (Continue).
LEMMA EndIsTold ==
  ASSUME SessionOK, NEW k \in Connections, k = ctl.id, ctl.sock = "open", Answered,
         NEW c \in Configs, NEW o, NEW x, Follows(x, c, o), o.at \notin Waits, x.conn = NoConfig,
         d' = o.s, ctl' = ctl,
         replies' = IF o.at = "failed" /\ Live(k) THEN Append(replies, "disconnected") ELSE replies
  PROVE  d'.conn = c \/ (d'.conn = NoConfig /\ ToldEnd')
<1>1. o.at \in {"done", "failed"} /\ ConnOf(x, c, o.at, o.s)
  BY DEF Follows
<1>2. CASE o.at = "done"
  BY <1>1, <1>2 DEF ConnOf
<1>3. CASE o.at = "failed"
  <2>1. d'.conn \in {NoConfig, c}
    BY <1>1, <1>3 DEF ConnOf
  <2>2. replies' = Append(replies, "disconnected")
    BY <1>3 DEF Live
  <2>3. replies \in Seq(Replies) /\ "disconnected" \in Replies
    BY DEF SessionOK, Typed, Replies
  <2>4. ToldEnd'
    BY <2>2, <2>3, TellFacts
  <2>5. QED BY <2>1, <2>4
<1>4. QED BY <1>1, <1>2, <1>3

\* Its replies take nothing back (Continue).
LEMMA ContinueAnswers ==
  ASSUME SessionOK, NEW i, NEW o, ctl' = ctl, Answered,
         replies' = IF o.at = "failed" /\ Live(i) THEN Append(replies, "disconnected") ELSE replies
  PROVE  Answered'
<1>1. replies \in Seq(Replies) /\ "disconnected" \in Replies
  BY DEF SessionOK, Typed, Replies
<1>2. CASE replies' = Append(replies, "disconnected")
  BY <1>1, <1>2, TellFacts
<1>3. CASE replies' = replies
  BY <1>3 DEF Answered
<1>4. QED BY <1>2, <1>3

\* An activation is read, and waits or is over (ReadActivate).
LEMMA ReadActivateKeeps ==
  ASSUME SessionOK, Undisturbed, NEW i \in Connections, ReadActivate(i)
  PROVE  Undisturbed'
<1>0. PICK c : c = cmds[i][1].c
  OBVIOUS
<1>1. /\ Read(i) /\ (ReadOn(i) \/ reading' = 0) /\ c \in Configs /\ cmds[i][1] = Activate(c)
      /\ stack \in Seq(Frames) /\ Apart(stack) /\ ~In(stack, i)
      /\ crossed' <=> crossed \/ Tears(stack)
  BY <1>0, ReadActivateFacts
<1>2. PICK o : Follows(d, c, o) /\ Continue(i, o, stack)
  BY <1>0, ReadActivateFacts
<1>3. /\ d' = o.s /\ ctl' = ctl
      /\ o.at \notin Waits => stack' = stack
      /\ o.at \in Waits => \E f : /\ Inside(stack', stack, f) /\ f.id = i /\ f.at = o.at
                                  /\ f.at # "down" /\ f.c = c
      /\ replies' = IF o.at = "failed" /\ Live(i) THEN Append(replies, "disconnected") ELSE replies
  BY <1>1, <1>2, ContinueFacts
<1>4. /\ cmds[i] # <<>> /\ cmds[i] \in Seq(Commands) /\ cmds'[i] = Tail(cmds[i])
  BY <1>1, ReadFacts
<1>5. cmds[i][1] # Deactivate /\ cmds[i][1].type = "activate" /\ cmds[i][1] # Status
  BY <1>1, CommandFacts
<1>6. /\ \A j : Acts(stack', j) <=> Acts(stack, j) \/ (j = i /\ o.at \in Waits)
      /\ \A j, e : Own(stack, j, e) /\ (j = i => e = c) => Own(stack', j, e)
      /\ Tears(stack') => Tears(stack) \/ o.at \in Waits
      /\ Downs(stack) => Downs(stack')
      /\ Nested(stack) /\ ~Tears(stack) => Nested(stack')
  <2>1. CASE o.at \notin Waits
    BY <1>3, <2>1
  <2>2. CASE o.at \in Waits
    <3>1. PICK f : Inside(stack', stack, f) /\ f.id = i /\ f.at # "down" /\ f.c = c
      BY <1>3, <2>2
    <3>2. QED BY <2>2, <3>1, InsideFacts
  <2>3. QED BY <2>1, <2>2
<1>7. Answered => Answered'
  BY <1>3, ContinueAnswers
<1>8. /\ \A j \in Connections : cmds'[j] # <<>> \/ Acts(stack', j) => Covered(j)'
      /\ \A k \in Connections : k = ctl.id => Ordered(k)'
      /\ (i = ctl.id /\ ctl.wanted) \/ Pending(i)'
      /\ \A j \in Connections : Pending(j) => Pending(j)'
  <2>1. \A j : Acts(stack', j) => Acts(stack, j) \/ (j = i /\ cmds[i][1].type = "activate")
    BY <1>5, <1>6
  <2>2. ASSUME NEW j, NEW e, Own(stack, j, e),
               j = i /\ cmds[i][1].type = "activate" => cmds[i][1] = Activate(e)
        PROVE  Own(stack', j, e)
    <3>1. j = i => e = c
      BY <1>1, <1>5, <2>2 DEF Activate
    <3>2. QED BY <1>6, <2>2, <3>1
  <2>3. QED BY <1>1, <1>3, <1>5, <1>7, <2>1, <2>2, ReadKeeps
<1>9. Owed' /\ (~crossed' => Nested(stack'))
  BY <1>1, <1>3, <1>6, <1>8 DEF Undisturbed, Owed
<1>10. ASSUME NEW k \in Connections, k = ctl.id, ~crossed' PROVE Agreed(k)'
  <2> SUFFICES ASSUME \A j \in Connections : ~Pending(j)'
               PROVE  /\ Acts(stack', k) => d'.conn = NoConfig
                      /\ cmds'[k] # <<>> => cmds'[k][1] = Deactivate
                      /\ ~Acts(stack', k) => \/ d'.conn = NoConfig /\ ToldEnd'
                                             \/ ~Tears(stack') /\ d'.conn = ctl'.c /\ ctl'.wanted
    BY DEF Agreed
  <2>1. i = k /\ ctl.wanted /\ \A j \in Connections : ~Pending(j)
    BY <1>8, <1>10
  <2>2. d.conn = NoConfig /\ ~Tears(stack)
    BY <1>1, <1>4, <1>5, <1>10, <2>1 DEF Undisturbed, Agreed
  <2>3. WellFormed(cmds[k], ctl.c) /\ ctl.sock = "open" /\ Answered
    BY <1>5, <1>10, <2>1 DEF Undisturbed, Ordered
  <2>4. c = ctl.c
    <3>1. 1 \in 1 .. Len(cmds[k])
      BY <1>4, <2>1, TailFacts
    <3>2. cmds[k][1] = Activate(ctl.c)
      BY <1>5, <2>1, <2>3, <3>1 DEF WellFormed
    <3>3. QED BY <1>1, <2>1, <3>2 DEF Activate
  <2>5. cmds'[k] # <<>> => cmds'[k][1] = Deactivate
    BY <1>4, <1>5, <2>1, <2>3, TailWellFormed
  <2>6. /\ Acts(stack', k) <=> o.at \in Waits
        /\ o.at \notin Waits => ~Tears(stack')
    <3>1. ~Acts(stack, k)
      BY <1>1, <2>1 DEF Acts, In
    <3>2. QED BY <1>6, <2>1, <2>2, <3>1
  <2>7. ASSUME o.at \in Waits PROVE d'.conn = NoConfig
    BY <1>2, <1>3, <2>2, <2>7 DEF Follows, ConnOf
  <2>8. ASSUME o.at \notin Waits PROVE d'.conn = c \/ (d'.conn = NoConfig /\ ToldEnd')
    BY <1>1, <1>2, <1>3, <1>10, <2>1, <2>2, <2>3, <2>8, EndIsTold
  <2>9. QED BY <1>3, <2>1, <2>4, <2>5, <2>6, <2>7, <2>8
<1>11. Tidy(d')
  BY <1>2, <1>3 DEF Undisturbed, Follows, Reaches
<1>12. Current'
  <2>1. d'.conn \in {d.conn, c}
    BY <1>2, <1>3 DEF Follows, ConnOf
  <2>2. i = ctl.id => c = ctl.c
    <3>1. 1 \in 1 .. Len(cmds[i])
      BY <1>4, TailFacts
    <3>2. i = ctl.id => cmds[i][1] = Activate(ctl.c)
      BY <1>5, <3>1 DEF Undisturbed, Ordered, WellFormed
    <3>3. QED BY <1>1, <3>2 DEF Activate
  <2>3. QED BY <1>3, <1>6, <1>8, <2>1, <2>2 DEF Undisturbed, Current
<1>13. QED BY <1>3, <1>8, <1>9, <1>10, <1>11, <1>12 DEF Undisturbed

\* A deactivation is read: nothing is left, or it waits to end what is there, and the client
\* hears of it (ReadDeactivate).
LEMMA ReadDeactivateKeeps ==
  ASSUME SessionOK, Undisturbed, NEW i \in Connections, ReadDeactivate(i)
  PROVE  Undisturbed'
<1>1. /\ Read(i) /\ Head(cmds[i]).type = "deactivate" /\ Retire(i, deactivateFirst(d))
      /\ replies' = broadcast("disconnected") /\ ~Waiting(i)
  BY DEF ReadDeactivate, Read, Readable, Unread
<1>2. /\ d' \in DaemonStates /\ Reaches(d, d') /\ (ReadOn(i) \/ reading' = 0)
      /\ ctl' = ctl /\ crossed' = crossed
      /\ \/ stack' = stack /\ d' = freshService
         \/ /\ d'.resolvers = FALSE
            /\ \E f : Inside(stack', stack, f) /\ f.id = i /\ f.at = "down"
  BY <1>1, RetireFacts DEF Undisturbed
<1>3. /\ cmds[i] # <<>> /\ cmds[i][1] = Head(cmds[i]) /\ cmds[i][1] \in Commands
  BY <1>1, <1>2, ReadFacts
<1>4. cmds[i][1] = Deactivate /\ Deactivate # Status /\ cmds[i][1].type # "activate"
  BY <1>1, <1>3, CommandFacts
<1>5. /\ \A j : Acts(stack', j) <=> Acts(stack, j)
      /\ \A j, c : Own(stack', j, c) <=> Own(stack, j, c)
      /\ Nested(stack) => Nested(stack')
      /\ d' = freshService \/ (d'.resolvers = FALSE /\ Downs(stack') /\ Tears(stack'))
  <2>1. CASE stack' = stack /\ d' = freshService
    BY <2>1
  <2>2. ASSUME NEW f, Inside(stack', stack, f), f.id = i, f.at = "down", d'.resolvers = FALSE
        PROVE  /\ \A j : Acts(stack', j) <=> Acts(stack, j)
               /\ \A j, c : Own(stack', j, c) <=> Own(stack, j, c)
               /\ Nested(stack) => Nested(stack')
               /\ d'.resolvers = FALSE /\ Downs(stack') /\ Tears(stack')
    BY <2>2, InsideFacts
  <2>3. QED BY <1>2, <2>1, <2>2
<1>6. replies \in Seq(Replies) /\ "disconnected" \in Replies
  BY DEF SessionOK, Typed, Replies
<1>7. Answered => Answered'
  <2>1. CASE ctl.sock = "open"
    BY <1>1, <1>2, <1>6, <2>1, TellFacts DEF broadcast
  <2>2. CASE ctl.sock # "open"
    BY <1>1, <1>2, <2>2 DEF Answered, broadcast
  <2>3. QED BY <2>1, <2>2
<1>8. /\ \A j \in Connections : cmds'[j] # <<>> \/ Acts(stack', j) => Covered(j)'
      /\ \A k \in Connections : k = ctl.id => Ordered(k)'
  BY <1>1, <1>2, <1>4, <1>5, <1>7, ReadKeeps
<1>9. Owed' /\ (~crossed' => Nested(stack'))
  BY <1>2, <1>5, <1>8 DEF Undisturbed, Owed
<1>10. ASSUME NEW k \in Connections, k = ctl.id PROVE Agreed(k)'
  <2>1. Tears(stack') \/ d'.conn = NoConfig
    BY <1>5, FreshFacts
  <2>2. ASSUME cmds'[k] = <<>> PROVE ToldEnd'
    <3>1. Ordered(k)
      BY <1>10 DEF Undisturbed
    <3>2. Answered
      BY <1>1, <1>2, <1>4, <2>2, <3>1, ReadFacts DEF Ordered
    <3>3. replies' = Append(replies, "disconnected")
      BY <1>1, <3>1 DEF Ordered, broadcast
    <3>4. QED BY <1>2, <1>6, <3>2, <3>3, TellFacts
  <2>3. QED BY <2>1, <2>2 DEF Agreed
<1>11. Tidy(d')
  BY <1>2 DEF Undisturbed, Reaches
<1>12. Current'
  BY <1>5, FreshFacts DEF Current
<1>13. QED BY <1>2, <1>8, <1>9, <1>10, <1>11, <1>12 DEF Undisturbed

\* What the end of the innermost wait leaves of the order.
LEMMA InnermostKeeps ==
  ASSUME SessionOK, Undisturbed, stack # <<>>, cmds' = cmds, ctl' = ctl, Answered => Answered',
         \A j : Acts(stack', j) => Acts(stack, j),
         \A j, c : Own(stack, j, c) => Own(stack', j, c)
  PROVE  /\ \A j : (Pending(j)' <=> Pending(j)) /\ (Covered(j)' <=> Covered(j))
         /\ \A j \in Connections : cmds'[j] # <<>> \/ Acts(stack', j) => Covered(j)'
         /\ \A k \in Connections : k = ctl.id => Ordered(k)'
<1>1. \A j : (Pending(j)' <=> Pending(j)) /\ (Covered(j)' <=> Covered(j))
  BY DEF Pending, Covered
<1>2. \A j \in Connections : cmds'[j] # <<>> \/ Acts(stack', j) => Covered(j)'
  BY <1>1 DEF Undisturbed, Owed
<1>3. ASSUME NEW k \in Connections, k = ctl.id PROVE Ordered(k)'
  <2>1. Ordered(k)
    BY <1>3 DEF Undisturbed
  <2>2. Acts(stack', k) => Acts(stack, k)
    OBVIOUS
  <2>3. Own(stack', k, ctl'.c)
    BY <2>1 DEF Ordered
  <2>4. QED BY <2>1, <2>2, <2>3 DEF Ordered
<1>4. QED BY <1>1, <1>2, <1>3

\* The innermost deactivation goes on to its end (Resume).
LEMMA EndKeeps ==
  ASSUME SessionOK, Undisturbed, Resume, stack[Len(stack)].at = "down"
  PROVE  Undisturbed'
<1>0. PICK f, outer : f = stack[Len(stack)] /\ outer = SubSeq(stack, 1, Len(stack) - 1)
  OBVIOUS
<1>1. cmds' = cmds /\ crossed' = crossed /\ stack # <<>>
  BY DEF Resume
<1>2. Inside(stack, outer, f) /\ f.at = "down"
  BY <1>0, <1>1, OuterFacts
<1>3. /\ Reaches(d, d') /\ d'.conn = NoConfig /\ ctl' = ctl /\ replies' = replies
      /\ Tidy(d) /\ d.resolvers = FALSE => d' = freshService
      /\ stack' = outer
  BY <1>0, EndFacts
<1>4. /\ \A j : Acts(stack', j) <=> Acts(stack, j)
      /\ \A j, c : Own(stack, j, c) => Own(stack', j, c)
      /\ Nested(stack) => Nested(stack')
      /\ Tears(stack)
  BY <1>2, <1>3, InsideFacts
<1>5. (Answered => Answered') /\ (ToldEnd => ToldEnd')
  BY <1>3 DEF Answered, ToldEnd
<1>6. /\ \A j : (Pending(j)' <=> Pending(j)) /\ (Covered(j)' <=> Covered(j))
      /\ \A j \in Connections : cmds'[j] # <<>> \/ Acts(stack', j) => Covered(j)'
      /\ \A k \in Connections : k = ctl.id => Ordered(k)'
  BY <1>1, <1>3, <1>4, <1>5, InnermostKeeps
<1>7. Owed' /\ (~crossed' => Nested(stack'))
  <2>1. d = freshService => d.resolvers = FALSE
    BY DEF freshService
  <2>2. d' = freshService \/ ctl'.wanted \/ \E j \in Connections : Pending(j)'
    BY <1>3, <1>6, <2>1 DEF Undisturbed, Owed
  <2>3. QED BY <1>1, <1>4, <1>6, <2>2 DEF Undisturbed, Owed
<1>8. ASSUME NEW k \in Connections, k = ctl.id, ~crossed' PROVE Agreed(k)'
  <2>1. Agreed(k)
    BY <1>1, <1>8 DEF Undisturbed
  <2>2. QED BY <1>1, <1>3, <1>4, <1>5, <1>6, <2>1 DEF Agreed
<1>9. Tidy(d')
  BY <1>3 DEF Undisturbed, Reaches
<1>10. Current'
  BY <1>3 DEF Current
<1>11. QED BY <1>3, <1>6, <1>7, <1>8, <1>9, <1>10 DEF Undisturbed

\* The innermost activation goes on, its own session's or an older one's (Resume).
LEMMA ResumeKeeps ==
  ASSUME SessionOK, Undisturbed, Resume, stack[Len(stack)].at # "down"
  PROVE  Undisturbed'
<1>0. PICK f, outer : f = stack[Len(stack)] /\ outer = SubSeq(stack, 1, Len(stack) - 1)
  OBVIOUS
<1>1. PICK i, c : i = f.id /\ c = f.c
  OBVIOUS
<1>2. /\ cmds' = cmds /\ crossed' = crossed /\ stack # <<>>
  BY DEF Resume
<1>3. /\ Inside(stack, outer, f) /\ f.at # "down" /\ i \in Connections /\ c \in Configs
      /\ outer \in Seq(Frames) /\ Apart(outer) /\ ~In(outer, i)
  BY <1>0, <1>1, <1>2, OuterFacts
<1>4. PICK y, o : /\ Reaches(d, y) /\ Follows(y, c, o) /\ Continue(i, o, outer)
                  /\ f.at = "takeover" => y.conn = NoConfig
                  /\ f.at # "takeover" => y = d
  BY <1>0, <1>1, ResumeFacts
<1>5. /\ d' = o.s /\ ctl' = ctl
      /\ o.at \notin Waits => stack' = outer
      /\ o.at \in Waits => \E g : /\ Inside(stack', outer, g) /\ g.id = i /\ g.at = o.at
                                  /\ g.at # "down" /\ g.c = c
      /\ replies' = IF o.at = "failed" /\ Live(i) THEN Append(replies, "disconnected") ELSE replies
  BY <1>3, <1>4, ContinueFacts
<1>6. /\ Acts(stack, i)
      /\ \A j : Acts(stack, j) <=> Acts(outer, j) \/ j = i
      /\ \A j, e : Own(stack, j, e) <=> Own(outer, j, e) /\ (j = i => c = e)
      /\ Nested(stack) => Nested(outer) /\ ~Tears(outer)
      /\ ~Tears(outer) /\ f.at # "takeover" => ~Tears(stack)
  <2>1. /\ \A j : Acts(stack, j) <=> Acts(outer, j) \/ (j = f.id /\ f.at # "down")
        /\ \A j, e : Own(stack, j, e) <=> Own(outer, j, e) /\ (j = f.id /\ f.at # "down" => f.c = e)
        /\ Nested(stack) <=> Nested(outer) /\ (Tears(outer) => f.at = "down")
        /\ Tears(stack) <=> Tears(outer) \/ f.at \in {"down", "takeover"}
    BY <1>3, InsideFacts
  <2>2. QED BY <1>1, <1>3, <2>1
<1>7. /\ \A j : Acts(stack', j) <=> Acts(outer, j) \/ (j = i /\ o.at \in Waits)
      /\ \A j, e : Own(outer, j, e) /\ (j = i => c = e) => Own(stack', j, e)
      /\ o.at \notin Waits => (Tears(stack') <=> Tears(outer))
      /\ Nested(outer) /\ ~Tears(outer) => Nested(stack')
  <2>1. CASE o.at \notin Waits
    BY <1>5, <2>1
  <2>2. CASE o.at \in Waits
    <3>1. PICK g : Inside(stack', outer, g) /\ g.id = i /\ g.at # "down" /\ g.c = c
      BY <1>5, <2>2
    <3>2. QED BY <2>2, <3>1, InsideFacts
  <2>3. QED BY <2>1, <2>2
<1>8. Answered => Answered'
  BY <1>5, ContinueAnswers
<1>9. /\ \A j : (Pending(j)' <=> Pending(j)) /\ (Covered(j)' <=> Covered(j))
      /\ \A j \in Connections : cmds'[j] # <<>> \/ Acts(stack', j) => Covered(j)'
      /\ \A k \in Connections : k = ctl.id => Ordered(k)'
  <2>1. \A j : Acts(stack', j) => Acts(stack, j)
    BY <1>6, <1>7
  <2>2. \A j, e : Own(stack, j, e) => Own(stack', j, e)
    BY <1>6, <1>7
  <2>3. QED BY <1>2, <1>5, <1>8, <2>1, <2>2, InnermostKeeps
<1>10. Covered(i)
  BY <1>3, <1>6 DEF Undisturbed, Owed
<1>11. Owed' /\ (~crossed' => Nested(stack'))
  <2>1. ctl'.wanted \/ \E j \in Connections : Pending(j)'
    BY <1>3, <1>5, <1>9, <1>10 DEF Covered
  <2>2. QED BY <1>2, <1>6, <1>7, <1>9, <2>1 DEF Undisturbed, Owed
<1>12. ASSUME NEW k \in Connections, k = ctl.id, ~crossed' PROVE Agreed(k)'
  <2>0. PICK q : q = cmds[k]
    OBVIOUS
  <2> SUFFICES ASSUME \A j \in Connections : ~Pending(j)'
               PROVE  /\ Acts(stack', k) => d'.conn = NoConfig
                      /\ q # <<>> => q[1] = Deactivate
                      /\ q = <<>> /\ ~Acts(stack', k) =>
                           \/ d'.conn = NoConfig /\ ToldEnd'
                           \/ ~Tears(stack') /\ d'.conn = ctl'.c /\ ctl'.wanted
    BY <1>2, <2>0 DEF Agreed
  <2>1. i = k /\ ctl.wanted /\ \A j \in Connections : ~Pending(j)
    BY <1>3, <1>9, <1>10, <1>12 DEF Covered
  <2>2. ~Tears(outer)
    BY <1>2, <1>6, <1>12 DEF Undisturbed
  <2>3. y.conn = NoConfig
    <3>1. CASE f.at = "takeover"
      BY <1>4, <3>1
    <3>2. CASE f.at # "takeover"
      <4>1. ~Tears(stack)
        BY <1>6, <2>2, <3>2
      <4>2. d.conn = NoConfig
        BY <1>2, <1>6, <1>12, <2>1, <4>1 DEF Undisturbed, Agreed
      <4>3. QED BY <1>4, <3>2, <4>2
    <3>3. QED BY <3>1, <3>2
  <2>4. Ordered(k)
    BY <1>12 DEF Undisturbed
  <2>5. q # <<>> => q[1] = Deactivate
    BY <1>6, <2>0, <2>1, <2>4 DEF Ordered
  <2>6. c = ctl.c
    BY <1>6, <2>1, <2>4 DEF Ordered
  <2>7. (Acts(stack', k) <=> o.at \in Waits) /\ (o.at \notin Waits => ~Tears(stack'))
    <3>1. ~Acts(outer, k)
      BY <1>3, <2>1 DEF Acts, In
    <3>2. QED BY <1>7, <2>1, <2>2, <3>1
  <2>8. ASSUME o.at \in Waits PROVE d'.conn = NoConfig
    BY <1>4, <1>5, <2>3, <2>8 DEF Follows, ConnOf
  <2>9. ASSUME o.at \notin Waits, q = <<>>
        PROVE  d'.conn = c \/ (d'.conn = NoConfig /\ ToldEnd')
    <3>1. ctl.sock = "open" /\ Answered
      BY <2>0, <2>4, <2>9 DEF Ordered
    <3>2. replies' = IF o.at = "failed" /\ Live(k) THEN Append(replies, "disconnected") ELSE replies
      BY <1>5, <2>1
    <3>3. QED BY <1>3, <1>4, <1>5, <1>12, <2>3, <2>9, <3>1, <3>2, EndIsTold
  <2>10. QED BY <1>5, <2>1, <2>5, <2>6, <2>7, <2>8, <2>9
<1>13. Tidy(d')
  BY <1>4, <1>5 DEF Undisturbed, Follows, Reaches
<1>14. Current'
  <2>1. d'.conn \in {d.conn, NoConfig, c}
    BY <1>4, <1>5 DEF Follows, ConnOf
  <2>2. Downs(stack) => Downs(stack')
    <3>1. Downs(stack) => Downs(outer)
      BY <1>3, InsideFacts
    <3>2. CASE o.at \notin Waits
      BY <1>5, <3>1, <3>2
    <3>3. CASE o.at \in Waits
      <4>1. PICK g : Inside(stack', outer, g)
        BY <1>5, <3>3
      <4>2. QED BY <3>1, <4>1, InsideFacts
    <3>4. QED BY <3>2, <3>3
  <2>3. i = ctl.id => c = ctl.c
    <3>1. i = ctl.id => Own(stack, i, ctl.c)
      BY <1>3 DEF Undisturbed, Ordered
    <3>2. QED BY <1>6, <3>1
  <2>4. QED BY <1>3, <1>5, <1>9, <1>10, <2>1, <2>2, <2>3 DEF Undisturbed, Current, Covered
<1>15. QED BY <1>5, <1>9, <1>11, <1>12, <1>13, <1>14 DEF Undisturbed

\* Steps that read and write no command (checkHandshake, the reaped process, the start).
LEMMA QuietKeeps ==
  ASSUME SessionOK, Undisturbed, Tidy(d'), d'.conn = d.conn, d'.resolvers = d.resolvers,
         d' = freshService \/ d # freshService, ctl' = ctl, cmds' = cmds, stack' = stack,
         Answered => Answered', crossed => crossed',
         ~crossed' /\ ToldEnd => ToldEnd' \/ (d.conn # NoConfig /\ ~Tears(stack))
  PROVE  Undisturbed'
<1>1. \A j : (Pending(j)' <=> Pending(j)) /\ (Covered(j)' <=> Covered(j))
  BY DEF Pending, Covered
<1>2. Owed' /\ Current' /\ (~crossed' => Nested(stack'))
  BY <1>1 DEF Undisturbed, Owed, Current
<1>3. ASSUME NEW k \in Connections, k = ctl.id PROVE Ordered(k)' /\ (~crossed' => Agreed(k)')
  <2>1. Ordered(k) /\ (~crossed' => Agreed(k))
    BY <1>3 DEF Undisturbed
  <2>2. Ordered(k)'
    BY <1>1, <2>1 DEF Ordered
  <2>3. ~crossed' => Agreed(k)'
    BY <1>1, <2>1 DEF Agreed
  <2>4. QED BY <2>2, <2>3
<1>4. QED BY <1>2, <1>3 DEF Undisturbed

\* The handshake is seen and told (CheckHandshake).
LEMMA CheckHandshakeKeeps ==
  ASSUME SessionOK, Undisturbed, CheckHandshake
  PROVE  Undisturbed'
<1>1. /\ d.conn # NoConfig /\ d' = checkHandshake(d) /\ replies' = broadcast("connected")
      /\ ctl' = ctl /\ cmds' = cmds /\ stack' = stack
      /\ crossed' <=> crossed \/ Tears(stack)
  BY DEF CheckHandshake, handshakeDue, Tearing, Tears
<1>2. Tidy(d') /\ d'.conn = d.conn /\ d'.resolvers = d.resolvers /\ d # freshService
  BY <1>1, SmallSteps, FreshFacts DEF Undisturbed, SessionOK, Typed
<1>3. replies \in Seq(Replies) /\ "connected" \in Replies
  BY DEF SessionOK, Typed, Replies
<1>4. Answered => Answered'
  <2>1. CASE ctl.sock = "open"
    BY <1>1, <1>3, <2>1, TellFacts DEF broadcast
  <2>2. CASE ctl.sock # "open"
    BY <1>1, <2>2 DEF Answered, broadcast
  <2>3. QED BY <2>1, <2>2
<1>5. QED BY <1>1, <1>2, <1>4, QuietKeeps

\* The killed process is gone, and was nobody else's (ProcessReaped).
LEMMA ProcessReapedKeeps ==
  ASSUME SessionOK, Undisturbed, ProcessReaped, ~untold'
  PROVE  Undisturbed'
<1>1. /\ d.proc = "killed" /\ d' = processGone(d) /\ untold' = (untold \/ d.fw.installed)
      /\ ctl' = ctl /\ cmds' = cmds /\ stack' = stack /\ replies' = replies
      /\ crossed' = crossed
  BY DEF ProcessReaped
<1>2. Tidy(d') /\ d'.conn = d.conn /\ d'.resolvers = d.resolvers
  BY <1>1, SmallSteps DEF Undisturbed, SessionOK, Typed
<1>3. d # freshService
  BY <1>1 DEF freshService
<1>4. (Answered => Answered') /\ (ToldEnd => ToldEnd')
  BY <1>1 DEF Answered, ToldEnd
<1>5. QED BY <1>1, <1>2, <1>3, <1>4, QuietKeeps

\* The service starts, and finds what it left (ServiceStart).
LEMMA ServiceStartKeeps ==
  ASSUME SessionOK, Undisturbed, ServiceStart
  PROVE  Undisturbed'
<1>1. /\ d' = d /\ ctl' = ctl /\ cmds' = cmds /\ stack' = stack /\ replies' = replies
      /\ crossed' = crossed
  BY SmallSteps DEF ServiceStart, SessionOK, Typed
<1>2. (Answered => Answered') /\ (ToldEnd => ToldEnd')
  BY <1>1 DEF Answered, ToldEnd
<1>3. Tidy(d')
  BY <1>1 DEF Undisturbed
<1>4. QED BY <1>1, <1>2, <1>3, QuietKeeps

\* A controller that retries, or whose service is gone, is one the daemon was not told about.
LEMMA NoSocketLost ==
  ASSUME SessionOK, Undisturbed
  PROVE  ~InitializingTimer /\ ~PeerClosed
<1>1. ctl.timer => ctl.id # 0 /\ ctl.sock # "open"
  BY DEF SessionOK, ControllerInOrder, NoController
<1>2. ctl.sock = "dead" => ctl.id # 0
  BY DEF SessionOK, ControllerInOrder, NoController
<1>3. ctl.id # 0 => ctl.sock = "open"
  BY OwnConnection DEF Undisturbed, Ordered
<1>4. QED BY <1>1, <1>2, <1>3 DEF InitializingTimer, PeerClosed

-----------------------------------------------------------------------------
(***************************************************************************)
(* The invariant, and what it says once everything is read.                *)
(***************************************************************************)
\* At the start nothing is under way.
LEMMA InitSession == Init => SessionInv
<1> SUFFICES ASSUME Init PROVE SessionInv
  OBVIOUS
<1>1. SessionOK /\ d = freshService /\ ctl.id = 0
  BY InitTypes DEF Init, NoController
<1>2. Owed /\ Current
  BY <1>1, OwnConnection, FreshFacts DEF Owed, Current
<1>3. \A k \in Connections : k # ctl.id
  BY <1>1, SessionAssumption DEF Connections
<1>4. Nested(stack)
  BY DEF Init, Nested
<1>5. QED BY <1>1, <1>2, <1>3, <1>4, FreshFacts DEF SessionInv, Undisturbed

\* Every step keeps the invariant; what was not told stays so.
LEMMA SessionStep ==
  ASSUME SessionInv, [Next]_vars
  PROVE  SessionInv'
<1>1. SessionOK /\ SessionOK'
  BY StepTypes DEF SessionInv
<1> SUFFICES ASSUME ~untold' PROVE Undisturbed'
  BY <1>1 DEF SessionInv
<1>2. CASE UNCHANGED vars
  <2>1. Undisturbed /\ d' = d /\ ctl' = ctl /\ cmds' = cmds /\ stack' = stack
        /\ replies' = replies /\ crossed' = crossed
    BY <1>2 DEF SessionInv, vars
  <2>2. (Answered => Answered') /\ (ToldEnd => ToldEnd') /\ Tidy(d')
    BY <2>1 DEF Answered, ToldEnd, Undisturbed
  <2>3. QED BY <1>1, <2>1, <2>2, QuietKeeps
<1>3. CASE Next
  <2>1. CASE Request
    <3>1. ~untold
      BY <2>1 DEF Request, Connect, Reconnect, Disconnect
    <3>2. Undisturbed
      BY <3>1 DEF SessionInv
    <3>3. \A h \in Hosts : [host |-> h, split |-> 0, ks |-> TRUE] \in Configs
      BY DEF Configs
    <3>4. QED BY <1>1, <2>1, <3>1, <3>2, <3>3, ConnectKeeps, ReconnectKeeps, DisconnectKeeps
              DEF Request
  <2>2. CASE ClientStep
    <3>1. ~untold
      BY <2>2 DEF ClientStep, InitializingTimer, PeerClosed, ReadReply
    <3>2. Undisturbed
      BY <3>1 DEF SessionInv
    <3>3. QED BY <1>1, <2>2, <3>2, NoSocketLost, ReadReplyKeeps DEF ClientStep
  <2>3. ASSUME NEW i \in Connections, ReadStatus(i) \/ ReadActivate(i) \/ ReadDeactivate(i)
        PROVE  Undisturbed'
    <3>1. ~untold
      BY <2>3 DEF ReadStatus, ReadActivate, ReadDeactivate, Continue, Retire
    <3>2. Undisturbed
      BY <3>1 DEF SessionInv
    <3>3. QED BY <1>1, <2>3, <3>2, ReadStatusKeeps, ReadActivateKeeps, ReadDeactivateKeeps
  <2>4. CASE Resume
    <3>1. ~untold
      BY <2>4 DEF Resume, Continue
    <3>2. QED BY <1>1, <2>4, <3>1, ResumeKeeps, EndKeeps DEF SessionInv
  <2>5. CASE ProcessReaped
    <3>1. ~untold
      BY <2>5 DEF ProcessReaped
    <3>2. QED BY <1>1, <2>5, <3>1, ProcessReapedKeeps DEF SessionInv
  <2>6. CASE CheckHandshake
    <3>1. ~untold
      BY <2>6 DEF CheckHandshake
    <3>2. QED BY <1>1, <2>6, <3>1, CheckHandshakeKeeps DEF SessionInv
  <2>7. CASE ServiceStart
    <3>1. ~untold
      BY <2>7 DEF ServiceStart
    <3>2. QED BY <1>1, <2>7, <3>1, ServiceStartKeeps DEF SessionInv
  <2>8. ~ServiceCrash /\ ~\E i \in Connections : Freed(i)
    BY DEF ServiceCrash, Freed
  <2>9. QED BY <1>3, <2>1, <2>2, <2>3, <2>4, <2>5, <2>6, <2>7, <2>8 DEF Next, DaemonStep
<1>4. QED BY <1>2, <1>3

\* The invariant holds of every state.
LEMMA SessionHolds == Spec => []SessionInv
BY InitSession, SessionStep, PTL DEF Spec

\* When everything is read, nothing is to be undone, and the controller knows the end it has
\* heard of.
LEMMA SettledFacts ==
  ASSUME SessionInv, Settled, ~untold
  PROVE  /\ ~ctl.wanted => d = freshService
         /\ d.conn \in {NoConfig, ctl.c}
         /\ ~crossed /\ ctl.id # 0 => \/ d.conn = ctl.c /\ ctl.wanted
                                      \/ ctl.shown = "disconnected"
<1>1. /\ SessionOK /\ Undisturbed /\ stack = <<>> /\ replies = <<>>
      /\ \A i \in Connections : cmds[i] = <<>>
  BY DEF SessionInv, Settled
<1>2. /\ \A i \in Connections : ~Pending(i) /\ ~Acts(stack, i)
      /\ ~Downs(stack)
  BY <1>1 DEF Pending, EndsWith, Acts, Downs
<1>3. ~ctl.wanted => d = freshService
  BY <1>1, <1>2 DEF Undisturbed, Owed
<1>4. ASSUME ctl.id # 0, ~crossed
      PROVE  (d.conn = ctl.c /\ ctl.wanted) \/ ctl.shown = "disconnected"
  <2>1. PICK k \in Connections : k = ctl.id
    BY <1>1, <1>4, OwnConnection
  <2>2. ToldEnd \/ (d.conn = ctl.c /\ ctl.wanted)
    BY <1>1, <1>2, <1>4, <2>1 DEF Undisturbed, Agreed
  <2>3. ToldEnd => ctl.shown = "disconnected"
    BY <1>1 DEF ToldEnd
  <2>4. QED BY <2>2, <2>3
<1>5. d.conn \in {NoConfig, ctl.c}
  BY <1>1, <1>2 DEF Undisturbed, Current
<1>6. QED BY <1>3, <1>4, <1>5

\* When every message has been read, the daemon has the connection that the client waits for
\* or shows, whatever earlier sessions were still waiting when this one began, or, if an
\* activation was begun or a handshake reported while a deactivation waited, none: never
\* another session's (DaemonLocalServerConnection::parseCommand,
\* LocalSocketController::parseCommand).
THEOREM ClientsAgree == Spec => []ClientAgrees
<1>1. SessionInv => ClientAgrees
  <2> SUFFICES ASSUME SessionInv, Settled, ~untold,
                      ctl.shown \in {"connecting", "connected"}
               PROVE  (ctl.wanted /\ d.conn = ctl.c) \/ (crossed /\ d.conn = NoConfig)
    BY DEF ClientAgrees
  <2>1. ctl.id # 0
    BY OwnConnection DEF SessionInv
  <2>2. ~ctl.wanted => d.conn = NoConfig
    BY SettledFacts, FreshFacts
  <2>3. QED BY <2>1, <2>2, SettledFacts
<1>2. QED BY <1>1, SessionHolds, PTL

\* When the client has no tunnel and every message has been read, the daemon keeps no
\* connection, process, route, resolver or rule (Daemon::deactivate).
THEOREM NothingIsKept == Spec => []NothingKept
<1>1. SessionInv => NothingKept
  BY SettledFacts DEF NothingKept
<1>2. QED BY <1>1, SessionHolds, PTL

=============================================================================
